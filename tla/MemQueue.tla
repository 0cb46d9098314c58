------------------------------ MODULE MemQueue ------------------------------
(***************************************************************************)
(* TC_MemQueue of src/tcinclude/tc_mem_queue.h and .cpp: a queue in shared *)
(* memory whose control block is changed through a log, so that a process  *)
(* that is killed between two writes leaves a queue the next one can use.  *)
(*                                                                         *)
(* One process at a time is in a call, as the header demands; it may be    *)
(* killed after any write, inside a memcpy too, and another process that   *)
(* connects goes on.  What it has written is what the source orders before *)
(* the point where it died.  The memory is new, and so zero, at create.    *)
(* The two counts of the control block are taken modulo CountModulus,      *)
(* which stands for 2^64.                                                  *)
(***************************************************************************)
EXTENDS ByteRing

CONSTANT CountModulus

ASSUME MemQueueAssumption ==
    /\ CountModulus \in Nat \ {0}
    /\ \A m \in Messages : RecordSize(m) <= RingSize

VARIABLES
    \* The shared memory
    ctrl,       \* CONTROL_BLOCK: iTopIndex, iBotIndex, iPushCount, iPopCount
    status,     \* _cModifyStatus: 0 none, 1 the log is being written, 2 it is complete
    log,        \* the first _iNowIndex entries of _stModifyData
    ring,       \* the bytes at _paddr
    \* The process in a call
    phase,      \* "idle"; "enter", the first doUpdate; "test", "copy"; "log", the
                \* calls of update; "apply", doUpdate(true)
    call,       \* "push", "pop" or "look" (isEmpty, isFull, elementCount, queueSize)
    message,    \* what push was given, or pop has read
    applied     \* how many entries of the log the loop of doUpdate has copied

memory == <<ctrl, status, log, ring>>
process == <<phase, call, message, applied>>
vars == <<memory, process>>

Fields == {"iTopIndex", "iBotIndex", "iPushCount", "iPopCount"}
Calls == {"push", "pop", "look"}

Init ==
    /\ ctrl = [f \in Fields |-> 0]
    /\ status = 0 /\ log = <<>>
    /\ ring = [a \in Cells |-> Blank]
    /\ phase = "idle" /\ call = "look" /\ message = NoMessage /\ applied = 0

-----------------------------------------------------------------------------
(* The log: update and doUpdate                                            *)

Entry(field, value) == [field |-> field, value |-> value]

\* The control block after the first n entries of the log are copied to it.
Replayed(n) ==
    [f \in Fields |->
        IF \E i \in 1..n : log[i].field = f
        THEN log[CHOOSE i \in 1..n : log[i].field = f].value
        ELSE ctrl[f]]

InDoUpdate == phase \in {"enter", "apply"}

\* Mutant: doUpdate copies the entries of a log that is not complete, too.
ApplyUnfinished ==
    /\ InDoUpdate
    /\ status \in {1, 2} /\ applied < Len(log)
    /\ applied' = applied + 1
    /\ ctrl' = [ctrl EXCEPT ![log[applied'].field] = log[applied'].value]
    /\ UNCHANGED <<status, log, ring, phase, call, message>>

Apply ==
    /\ InDoUpdate
    /\ status = 2 /\ applied < Len(log)
    /\ applied' = applied + 1
    /\ ctrl' = [ctrl EXCEPT ![log[applied'].field] = log[applied'].value]
    /\ UNCHANGED <<status, log, ring, phase, call, message>>

\* _iNowIndex = 0: nothing is left of a log that was not complete, or was copied.
ResetLog ==
    /\ InDoUpdate
    /\ \/ status = 1
       \/ status = 2 /\ applied = Len(log)
    /\ log # <<>>
    /\ log' = <<>> /\ applied' = 0
    /\ UNCHANGED <<ctrl, status, ring, phase, call, message>>

ResetStatus ==
    /\ InDoUpdate
    /\ status # 0 /\ log = <<>>
    /\ status' = 0
    /\ UNCHANGED <<ctrl, log, ring, process>>

-----------------------------------------------------------------------------
(* push_back, pop_front and the calls that only look                       *)

\* Mutant: a call trusts the control block as it finds it.
CallWithoutDoUpdate(c, m) ==
    /\ phase = "idle"
    /\ phase' = "test" /\ call' = c /\ message' = m
    /\ UNCHANGED <<memory, applied>>

\* Every call begins with doUpdate.
Call(c, m) ==
    /\ phase = "idle"
    /\ phase' = "enter" /\ call' = c /\ message' = m
    /\ UNCHANGED <<memory, applied>>

Entered ==
    /\ phase = "enter" /\ status = 0
    /\ phase' = "test"
    /\ UNCHANGED <<memory, call, message, applied>>

\* The process is in no call: the last one has returned, or it was killed.
Leave ==
    phase' = "idle" /\ call' = "look" /\ message' = NoMessage /\ applied' = 0

isEmpty == ctrl.iTopIndex = ctrl.iBotIndex

\* Mutant: a record may reach up to the oldest one.
isFullOffByOne(m) ==
    LET top == ctrl.iTopIndex + RecordSize(m)
    IN  CASE ctrl.iTopIndex < ctrl.iBotIndex -> top > ctrl.iBotIndex
          [] ctrl.iTopIndex > ctrl.iBotIndex -> top > ctrl.iBotIndex + RingSize
          [] OTHER -> FALSE

isFull(m) ==
    LET top == ctrl.iTopIndex + RecordSize(m)
    IN  CASE ctrl.iTopIndex < ctrl.iBotIndex -> top >= ctrl.iBotIndex
          [] ctrl.iTopIndex > ctrl.iBotIndex -> top >= ctrl.iBotIndex + RingSize
          [] OTHER -> FALSE

elementCount ==
    IF ctrl.iPushCount >= ctrl.iPopCount THEN ctrl.iPushCount - ctrl.iPopCount
    ELSE CountModulus - 1 - ctrl.iPopCount + ctrl.iPushCount

\* push finds no room, pop finds nothing, a look has found what it looked for.
Decline ==
    /\ phase = "test"
    /\ CASE call = "push" -> isFull(message)
         [] call = "pop" -> isEmpty
         [] OTHER -> TRUE
    /\ Leave
    /\ UNCHANGED memory

StartPush ==
    /\ phase = "test" /\ call = "push" /\ ~isFull(message)
    /\ phase' = "copy"
    /\ UNCHANGED <<memory, call, message, applied>>

\* Mutant: the copy begins a byte too early, over the record before.
CopyOverlapping ==
    /\ phase = "copy"
    /\ ring' = Store(ring, message, ctrl.iTopIndex - 1, Span(message, ctrl.iTopIndex - 1))
    /\ phase' = "log"
    /\ UNCHANGED <<ctrl, status, log, call, message, applied>>

\* The size and the message, each in one piece or around the end of the ring.
Copy ==
    /\ phase = "copy"
    /\ ring' = Store(ring, message, ctrl.iTopIndex, Span(message, ctrl.iTopIndex))
    /\ phase' = "log"
    /\ UNCHANGED <<ctrl, status, log, call, message, applied>>

Read ==
    /\ phase = "test" /\ call = "pop" /\ ~isEmpty
    /\ message' = MessageAt(ring, ctrl.iBotIndex)
    /\ phase' = "log"
    /\ UNCHANGED <<memory, call, applied>>

\* Mutant: the index is not taken around the end of the ring.
AfterWithoutWrap(p, m) == p + RecordSize(m)

\* The index after a record that begins at p; RingSize itself, when it ends there.
After(p, m) ==
    IF p + RecordSize(m) <= RingSize THEN p + RecordSize(m)
    ELSE p + RecordSize(m) - RingSize

\* What the two calls of update of a push or a pop put in the log.
Updates ==
    IF call = "push"
    THEN <<Entry("iTopIndex", After(ctrl.iTopIndex, message)),
           Entry("iPushCount", (ctrl.iPushCount + 1) % CountModulus)>>
    ELSE <<Entry("iBotIndex", After(ctrl.iBotIndex, message)),
           Entry("iPopCount", (ctrl.iPopCount + 1) % CountModulus)>>

MarkModified ==
    /\ phase = "log" /\ status = 0
    /\ status' = 1
    /\ UNCHANGED <<ctrl, log, ring, process>>

WriteEntry ==
    /\ phase = "log" /\ status = 1 /\ Len(log) < 2
    /\ log' = Append(log, Updates[Len(log) + 1])
    /\ UNCHANGED <<ctrl, status, ring, process>>

Commit ==
    /\ phase = "log" /\ status = 1 /\ Len(log) = 2
    /\ status' = 2
    /\ phase' = "apply"
    /\ UNCHANGED <<ctrl, log, ring, call, message, applied>>

Return ==
    /\ phase = "apply" /\ status = 0
    /\ Leave
    /\ UNCHANGED memory

\* The process is killed; part of what it was copying may be there.
Crash ==
    /\ phase # "idle"
    /\ Leave
    /\ IF phase = "copy"
         THEN \E written \in SUBSET Span(message, ctrl.iTopIndex) :
                ring' = Store(ring, message, ctrl.iTopIndex, written)
         ELSE UNCHANGED ring
    /\ UNCHANGED <<ctrl, status, log>>

-----------------------------------------------------------------------------
Next ==
    \/ \E m \in Messages : Call("push", m)
    \/ \E c \in {"pop", "look"} : Call(c, NoMessage)
    \/ Entered \/ Decline \/ StartPush \/ Copy \/ Read
    \/ MarkModified \/ WriteEntry \/ Commit
    \/ Apply \/ ResetLog \/ ResetStatus \/ Return \/ Crash

Spec == Init /\ [][Next]_vars

-----------------------------------------------------------------------------
(* Properties                                                              *)

TypeOK ==
    /\ ctrl \in [Fields -> Nat]
    /\ {ctrl.iTopIndex, ctrl.iBotIndex} \subseteq 0..RingSize
    /\ {ctrl.iPushCount, ctrl.iPopCount} \subseteq 0..(CountModulus - 1)
    /\ status \in 0..2
    /\ log \in Seq([field : Fields, value : Nat]) /\ Len(log) <= 2
    /\ ring \in [Cells -> Bytes]
    /\ phase \in {"idle", "enter", "test", "copy", "log", "apply"}
    /\ call \in Calls
    /\ message \in Messages \cup {NoMessage}
    /\ applied \in 0..2

\* The control block as the next call will find it: doUpdate copies a log that is
\* complete and forgets one that is not.
Recovered == IF status = 2 THEN Replayed(Len(log)) ELSE ctrl

Used(block) ==
    IF block.iTopIndex >= block.iBotIndex THEN block.iTopIndex - block.iBotIndex
    ELSE block.iTopIndex - block.iBotIndex + RingSize

\* The messages that are in the queue.
Contents == Records(ring, Recovered.iTopIndex, Used(Recovered))

Abstract == INSTANCE Fifo WITH
    queue <- Contents,
    taken <- IF call = "pop" /\ phase = "apply" THEN message ELSE NoMessage

\* The bytes of the ring and the control block are a first in, first out queue
\* whatever write a process is killed after: a message is in the queue from the
\* store that completes the log of its push until that of its pop, whole, and at
\* most one message is lost to a process that dies (tc_mem_queue.h:24).
ImplementsFifo == Abstract!Spec

\* What the next call will find of the control block changes in one step only, the
\* store that completes a log, and that step moves one index and its count together:
\* no crash leaves one without the other (update, doUpdate).
AtomicUpdate ==
    [][Recovered' # Recovered =>
         /\ phase = "log" /\ phase' = "apply"
         /\ Recovered' = [f \in Fields |->
                IF f = Updates[1].field THEN Updates[1].value
                ELSE IF f = Updates[2].field THEN Updates[2].value
                ELSE Recovered[f]]]_vars

\* How many bytes the records of the messages in s take.
BytesOf(s) ==
    LET Last[n \in 0..Len(s)] ==
          IF n = 0 THEN 0 ELSE RecordSize(s[Len(s) + 1 - n]) + Last[n - 1]
    IN  Last[Len(s)]

\* What the queue says of itself is true of what is in the ring.  isFull says that a push
\* finds no room if and only if its record and those in the ring would take all of the
\* ring: one byte always stays free, so that a full ring is not taken for an empty one.
\* elementCount tells how many there are, but for one when the count of pushes has
\* wrapped and that of pops has not (isEmpty, isFull, elementCount).
LooksAreRight ==
    phase = "test" =>
        /\ isEmpty <=> Contents = <<>>
        /\ call = "push" =>
             (isFull(message)
                <=> Contents # <<>> /\ BytesOf(Contents) + RecordSize(message) >= RingSize)
        /\ elementCount = Len(Contents)
                          - (IF ctrl.iPushCount < ctrl.iPopCount THEN 1 ELSE 0)
=============================================================================
