-------------------------------- MODULE Fifo --------------------------------
(***************************************************************************)
(* What the shared memory queues promise (tc_mem_queue.h:18-73, TC_SQueue):*)
(* what is pushed comes out once, whole and in order, and a reader that    *)
(* dies takes with it at most the one message it was being handed.         *)
(***************************************************************************)
EXTENDS Sequences

CONSTANTS
    Messages,
    NoMessage

VARIABLES
    queue,      \* the messages pushed and not popped, the oldest first
    taken       \* the message that has left the queue for a call of pop that
                \* has not returned it yet, else NoMessage

vars == <<queue, taken>>

Init == queue = <<>> /\ taken = NoMessage

Push(m) == queue' = Append(queue, m) /\ UNCHANGED taken

Take ==
    /\ queue # <<>> /\ taken = NoMessage
    /\ taken' = Head(queue)
    /\ queue' = Tail(queue)

\* pop returns, or its process dies first.
HandOver ==
    /\ taken # NoMessage
    /\ taken' = NoMessage
    /\ UNCHANGED queue

Next == (\E m \in Messages : Push(m)) \/ Take \/ HandOver

Spec == Init /\ [][Next]_vars
=============================================================================
