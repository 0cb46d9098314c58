------------------------------- MODULE SQueue -------------------------------
(***************************************************************************)
(* TC_SQueue of src/tcinclude/tc_squeue.h: a queue in shared memory with   *)
(* one writing and one reading process and no lock.  Each process may be   *)
(* killed at any point and another one attach in its place.                *)
(*                                                                         *)
(* A step reads or writes one field of the header that the other process   *)
(* uses; stores are seen in the order of the source.  push of a message of *)
(* no bytes returns true at once and changes nothing; it is left out.      *)
(***************************************************************************)
EXTENDS ByteRing

CONSTANTS
    ReserveLen, \* how many bytes a push leaves free
    MaxNum      \* bound: iNum is counted up to here

\* What the constants must satisfy.
SQueueAssumption ==
    /\ ReserveLen \in Nat \ {0}
    /\ MaxNum \in Nat
    /\ \A m \in Messages : Length[m] > 0

VARIABLES
    \* The shared memory
    iBegin, iEnd, iNum, \* the header
    ring,               \* the bytes at _data
    \* The writer
    writer,     \* "idle", or where its push is
    pushed,     \* the message it pushes
    oldBegin,   \* iBegin as push has read it
    pushNum,    \* iNum as its iNum++ has read it
    \* The reader
    reader,     \* "idle", or where its pop or its size is
    popped,     \* the message it has read
    oldEnd,     \* iEnd as pop has read it
    popNum      \* tmp_num

header == <<iBegin, iEnd, iNum>>
writing == <<writer, pushed, oldBegin, pushNum>>
reading == <<reader, popped, oldEnd, popNum>>
vars == <<header, ring, writing, reading>>

Init ==
    /\ iBegin = 0 /\ iEnd = 0 /\ iNum = 0
    /\ ring = [a \in Cells |-> Blank]
    /\ writer = "idle" /\ pushed = NoMessage /\ oldBegin = 0 /\ pushNum = 0
    /\ reader = "idle" /\ popped = NoMessage /\ oldEnd = 0 /\ popNum = 0

WriterLeaves == writer' = "idle" /\ pushed' = NoMessage /\ oldBegin' = 0 /\ pushNum' = 0
ReaderLeaves == reader' = "idle" /\ popped' = NoMessage /\ oldEnd' = 0 /\ popNum' = 0

-----------------------------------------------------------------------------
(* push                                                                    *)

CallPush(m) ==
    /\ writer = "idle"
    /\ writer' = "test" /\ pushed' = m
    /\ oldBegin' = iBegin
    /\ UNCHANGED <<header, ring, pushNum, reading>>

\* Mutant: the bytes that are free are taken to be those up to iBegin only.
FreeUnreserved ==
    CASE iEnd = oldBegin -> RingSize
      [] iEnd > oldBegin -> RingSize - iEnd + oldBegin + ReserveLen
      [] OTHER -> oldBegin - iEnd + ReserveLen

\* The bytes that are free for a record and the reserve.
Free ==
    CASE iEnd = oldBegin -> RingSize
      [] iEnd > oldBegin -> RingSize - iEnd + oldBegin
      [] OTHER -> oldBegin - iEnd

\* A queue found empty is given the count zero, room or not.
TestRoom ==
    /\ writer = "test"
    /\ iNum' = IF iEnd = oldBegin THEN 0 ELSE iNum
    /\ IF RecordSize(pushed) + ReserveLen > Free THEN WriterLeaves
       ELSE writer' = "copy" /\ UNCHANGED <<pushed, oldBegin, pushNum>>
    /\ UNCHANGED <<iBegin, iEnd, ring, reading>>

Copy ==
    /\ writer = "copy"
    /\ ring' = Store(ring, pushed, iEnd, Span(pushed, iEnd))
    /\ writer' = "publish"
    /\ UNCHANGED <<header, pushed, oldBegin, pushNum, reading>>

Publish ==
    /\ writer = "publish"
    /\ iEnd' = Address(iEnd, RecordSize(pushed))
    /\ writer' = "count"
    /\ UNCHANGED <<iBegin, iNum, ring, pushed, oldBegin, pushNum, reading>>

\* iNum++ is a read and a write.
ReadNum ==
    /\ writer = "count"
    /\ pushNum' = iNum
    /\ writer' = "increase"
    /\ UNCHANGED <<header, ring, pushed, oldBegin, reading>>

IncreaseNum ==
    /\ writer = "increase"
    /\ iNum' = IF pushNum < MaxNum THEN pushNum + 1 ELSE MaxNum
    /\ WriterLeaves
    /\ UNCHANGED <<iBegin, iEnd, ring, reading>>

\* The writer is killed, perhaps within its memcpy; another one attaches.
WriterDies ==
    /\ writer # "idle"
    /\ WriterLeaves
    /\ IF writer = "copy"
         THEN \E written \in SUBSET Span(pushed, iEnd) :
                ring' = Store(ring, pushed, iEnd, written)
         ELSE UNCHANGED ring
    /\ UNCHANGED <<header, reading>>

-----------------------------------------------------------------------------
(* pop and size                                                            *)

CallPop ==
    /\ reader = "idle"
    /\ reader' = "pop"
    /\ oldEnd' = iEnd
    /\ UNCHANGED <<header, ring, writing, popped, popNum>>

PopEmpty ==
    /\ reader = "pop" /\ iBegin = oldEnd
    /\ iNum' = 0
    /\ ReaderLeaves
    /\ UNCHANGED <<iBegin, iEnd, ring, writing>>

Read ==
    /\ reader = "pop" /\ iBegin # oldEnd
    /\ popped' = MessageAt(ring, iBegin)
    /\ reader' = "advance"
    /\ UNCHANGED <<header, ring, writing, oldEnd, popNum>>

\* Mutant: pop goes on by the message and forgets the word with its length.
AdvanceByMessage ==
    /\ reader = "advance"
    /\ iBegin' = Address(iBegin, Length[popped])
    /\ reader' = "count"
    /\ UNCHANGED <<iEnd, iNum, ring, writing, popped, oldEnd, popNum>>

Advance ==
    /\ reader = "advance"
    /\ iBegin' = Address(iBegin, RecordSize(popped))
    /\ reader' = "count"
    /\ UNCHANGED <<iEnd, iNum, ring, writing, popped, oldEnd, popNum>>

ReadTmpNum ==
    /\ reader = "count"
    /\ popNum' = iNum
    /\ reader' = "decrease"
    /\ UNCHANGED <<header, ring, writing, popped, oldEnd>>

DecreaseNum ==
    /\ reader = "decrease"
    /\ iNum' = IF popNum > 0 THEN popNum - 1 ELSE iNum
    /\ ReaderLeaves
    /\ UNCHANGED <<iBegin, iEnd, ring, writing>>

\* size: a queue found empty is given the count zero, perhaps after a push.
SizeEmpty ==
    /\ reader = "idle" /\ iBegin = iEnd
    /\ reader' = "size"
    /\ UNCHANGED <<header, ring, writing, popped, oldEnd, popNum>>

ResetNum ==
    /\ reader = "size"
    /\ iNum' = 0
    /\ ReaderLeaves
    /\ UNCHANGED <<iBegin, iEnd, ring, writing>>

ReaderDies ==
    /\ reader # "idle"
    /\ ReaderLeaves
    /\ UNCHANGED <<header, ring, writing>>

-----------------------------------------------------------------------------
Write == (\E m \in Messages : CallPush(m)) \/ TestRoom \/ Copy \/ Publish
         \/ ReadNum \/ IncreaseNum \/ WriterDies

ReadSide == CallPop \/ PopEmpty \/ Read \/ Advance \/ ReadTmpNum \/ DecreaseNum
            \/ SizeEmpty \/ ResetNum \/ ReaderDies

Next == Write \/ ReadSide

Spec == Init /\ [][Next]_vars

-----------------------------------------------------------------------------
(* Properties                                                              *)

TypeOK ==
    /\ {iBegin, iEnd, oldBegin, oldEnd} \subseteq Cells
    /\ {iNum, pushNum, popNum} \subseteq 0..MaxNum
    /\ ring \in [Cells -> Bytes]
    /\ writer \in {"idle", "test", "copy", "publish", "count", "increase"}
    /\ reader \in {"idle", "pop", "advance", "count", "decrease", "size"}
    /\ pushed \in Messages \cup {NoMessage}
    /\ popped \in Messages \cup {NoMessage}

Contents == Records(ring, iEnd, (iEnd - iBegin) % RingSize)

Abstract == INSTANCE Fifo WITH
    queue <- Contents,
    taken <- IF reader \in {"count", "decrease"} THEN popped ELSE NoMessage

\* The two processes, neither of which waits for the other, make a first in, first
\* out queue: pop returns whole messages, each once and in order, although each side
\* works with a copy of the other's index that may be old, and either may be killed
\* and replaced (push, pop, attach).
ImplementsFifo == Abstract!Spec

\* The asserts of push and pop hold whatever the other process does meanwhile: an
\* index read before may be old, but not so that the record or the reserve would not
\* fit, nor that a record would seem torn (tc_squeue.h:70-104, 140-165).
AssertsHold ==
    /\ writer = "test" =>
         /\ iEnd > oldBegin => oldBegin + WordSize < iEnd
         /\ iEnd < oldBegin => iEnd + ReserveLen <= oldBegin
    /\ (writer = "publish" /\ iEnd + RecordSize(pushed) > RingSize) =>
         iEnd + RecordSize(pushed) - RingSize + ReserveLen <= oldBegin
    /\ (reader = "pop" /\ iBegin < oldEnd) => iBegin + WordSize < oldEnd
    /\ (reader = "pop" /\ iBegin > oldEnd) => oldEnd + ReserveLen <= iBegin
    /\ reader = "advance" =>
         /\ popped # NoMessage
         /\ LET size == RecordSize(popped)
            IN  IF iBegin < oldEnd THEN iBegin + size <= oldEnd
                ELSE iBegin + size >= RingSize => iBegin + size - RingSize <= oldEnd
=============================================================================
