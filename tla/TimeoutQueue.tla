---------------------------- MODULE TimeoutQueue ----------------------------
(***************************************************************************)
(* TC_TimeoutQueue of src/tcinclude/tc_timeout_queue.h: messages by number *)
(* that leave the queue when they are got or erased or when their time is  *)
(* up, and that pop and swap hand out once each without removing them.     *)
(*                                                                         *)
(* An operation is one step, made under the queue's lock, but for timeout, *)
(* which frees the lock after each message.  generateId and push are one   *)
(* step, so that the messages are in the order of their numbers; the       *)
(* numbers are 32 bits wide and taken never to come round to one in use.   *)
(* The oldest messages are out of time first, as all have the same limit   *)
(* and the clock is not set back.                                          *)
(***************************************************************************)
EXTENDS Naturals

CONSTANT MaxIds     \* bound: how many messages are pushed

ASSUME TimeoutQueueAssumption == MaxIds \in Nat

VARIABLES
    uniqId,         \* _uniqId
    time,           \* the messages in _time and _data
    poped,          \* those of them whose hasPoped is set
    firstNoPop,     \* _firstNoPopIter, End for the end of _time
    horizon,        \* the time of the messages up to this one is up
    deadline,       \* horizon as the timeout under way has read the clock, else NoPass
    \* History
    handed          \* the messages pop and swap handed out

queueVars == <<uniqId, time, poped, firstNoPop, horizon, deadline, handed>>

End == 0
NoPass == MaxIds + 1

Ids == 1..MaxIds

QueueTypeOK ==
    /\ uniqId \in 0..MaxIds
    /\ time \subseteq 1..uniqId
    /\ poped \subseteq time
    /\ firstNoPop \in time \cup {End}
    /\ horizon \in 0..uniqId
    /\ deadline \in 0..uniqId \cup {NoPass}
    /\ handed \subseteq 1..uniqId

QueueInit ==
    /\ uniqId = 0 /\ time = {} /\ poped = {} /\ firstNoPop = End
    /\ horizon = 0 /\ deadline = NoPass /\ handed = {}

\* The front of the list, and the place in it after a message.
Oldest(messages) == CHOOSE m \in messages : \A n \in messages : m <= n
Front(messages) == IF messages = {} THEN End ELSE Oldest(messages)
Following(m) == Front({n \in time : n > m})

\* Mutant: the place of the first message not handed out is lost with its message.
RemoveForgets(m) ==
    /\ time' = time \ {m}
    /\ poped' = poped \ {m}
    /\ firstNoPop' = IF firstNoPop = m THEN End ELSE firstNoPop

\* A message leaves the queue (get, erase, timeout).
Remove(m) ==
    /\ time' = time \ {m}
    /\ poped' = poped \ {m}
    /\ firstNoPop' = IF firstNoPop = m THEN Following(m) ELSE firstNoPop

push ==
    /\ uniqId < MaxIds
    /\ uniqId' = uniqId + 1
    /\ time' = time \cup {uniqId + 1}
    /\ firstNoPop' = IF firstNoPop = End THEN uniqId + 1 ELSE firstNoPop
    /\ UNCHANGED <<poped, horizon, deadline, handed>>

\* erase, or get with bErase; neither does anything when the message has left.
erase(m) ==
    /\ IF m \in time THEN Remove(m) ELSE UNCHANGED <<time, poped, firstNoPop>>
    /\ UNCHANGED <<uniqId, horizon, deadline, handed>>

\* The message pop and swap begin with, End if there is none.
NextToPop ==
    IF time = {} THEN End
    ELSE IF Oldest(time) \in poped THEN firstNoPop ELSE Oldest(time)

\* Messages are handed out, up to the last one.
HandOut(messages, last) ==
    /\ poped' = poped \cup messages
    /\ handed' = handed \cup messages
    /\ firstNoPop' = Following(last)
    /\ UNCHANGED <<uniqId, time, horizon, deadline>>

pop == NextToPop # End /\ HandOut({NextToPop}, NextToPop)

\* swap goes on from the first one to the end of the list.
swap ==
    /\ NextToPop # End
    /\ \E last \in time :
          /\ \A m \in time : m <= last
          /\ HandOut({m \in time : m >= NextToPop}, last)

\* timeout reads the clock once and then removes what is at the front of the list for
\* as long as its time was up by then.
StartTimeout ==
    /\ deadline = NoPass
    /\ deadline' = horizon
    /\ UNCHANGED <<uniqId, time, poped, firstNoPop, horizon, handed>>

TimeoutFront ==
    /\ deadline # NoPass
    /\ Front(time) \in 1..deadline
    /\ Remove(Front(time))
    /\ UNCHANGED <<uniqId, horizon, deadline, handed>>

FinishTimeout ==
    /\ deadline # NoPass
    /\ Front(time) \notin 1..deadline
    /\ deadline' = NoPass
    /\ UNCHANGED <<uniqId, time, poped, firstNoPop, horizon, handed>>

\* Time goes on.
Age ==
    /\ horizon < uniqId
    /\ horizon' = horizon + 1
    /\ UNCHANGED <<uniqId, time, poped, firstNoPop, deadline, handed>>

QueueNext ==
    \/ push \/ pop \/ swap
    \/ \E m \in time : erase(m)
    \/ StartTimeout \/ TimeoutFront \/ FinishTimeout
    \/ Age

QueueSpec == QueueInit /\ [][QueueNext]_queueVars

-----------------------------------------------------------------------------
\* What pop and swap have not handed out is the end of the list, from _firstNoPopIter
\* on, whatever else left the queue: nothing is handed out twice or too early, nothing
\* is forgotten, and the asserts on hasPoped hold (tc_timeout_queue.h, pop and swap).
PopsInOrder ==
    /\ poped = time \cap handed
    /\ {m \in time : m \notin handed} =
         IF firstNoPop = End THEN {} ELSE {m \in time : m >= firstNoPop}
    /\ \A m \in time \ handed, n \in handed : n < m
=============================================================================
