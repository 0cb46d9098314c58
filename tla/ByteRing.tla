------------------------------ MODULE ByteRing ------------------------------
(***************************************************************************)
(* Records of variable length in a ring of bytes, as the queues in shared  *)
(* memory keep them: a word with the size of the message, then the         *)
(* message.  A byte is the record it belongs to and its place in it.       *)
(***************************************************************************)
EXTENDS Integers, Sequences

CONSTANTS
    Messages,
    NoMessage,
    Length,     \* the length of each message, in bytes
    RingSize,   \* the bytes of the ring
    WordSize    \* the bytes of the word before each message

ASSUME ByteRingAssumption ==
    /\ NoMessage \notin Messages
    /\ RingSize \in Nat \ {0}
    /\ WordSize \in Nat \ {0}
    /\ Length \in [Messages -> Nat]

RecordSize(m) == WordSize + Length[m]

Cells == 0..(RingSize - 1)
Blank == <<NoMessage, 0>>

\* What a byte of the ring can be.
Bytes == {Blank} \cup UNION {{m} \X (0..(RecordSize(m) - 1)) : m \in Messages}

\* The byte k places after p.
Address(p, k) == (p + k) % RingSize

\* The bytes that the record of m takes when it begins at p, and the ring when
\* those of them in written have been stored.
Span(m, p) == {Address(p, k) : k \in 0..(RecordSize(m) - 1)}

Store(ring, m, p, written) ==
    [a \in Cells |-> IF a \in written THEN <<m, (a - p) % RingSize>> ELSE ring[a]]

\* The message whose whole record begins at p, if there is one.
MessageAt(ring, p) ==
    LET m == ring[Address(p, 0)][1]
    IN  IF m \in Messages /\ \A k \in 0..(RecordSize(m) - 1) : ring[Address(p, k)] = <<m, k>>
        THEN m ELSE NoMessage

\* The records in the last used bytes before end, the oldest first; one that is
\* torn is NoMessage, and nothing can be read after it.
Records(ring, end, used) ==
    LET Last[n \in 0..used] ==
          IF n = 0 THEN <<>>
          ELSE LET m == MessageAt(ring, end - n)
               IN  IF m = NoMessage \/ RecordSize(m) > n THEN <<NoMessage>>
                   ELSE <<m>> \o Last[n - RecordSize(m)]
    IN  Last[used]
=============================================================================
