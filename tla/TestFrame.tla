----------------------------- MODULE TestFrame -----------------------------
(***************************************************************************)
(* The load-test scheduler of src/src/testframe.cpp: the thread that calls *)
(* TestFrame::Run (here Main) and the TestFrameThread objects it starts,   *)
(* which all run TestFrameThread::RunX.  They share the mutex cLock, the   *)
(* condition variable cCond and the atomic counters cFrequence (how many   *)
(* requests may still be sent in this second) and cRepeatCount (how many   *)
(* may still be sent at all).                                              *)
(*                                                                         *)
(* An action is one atomic access to the shared state.  The two callbacks  *)
(* of the user's TestCase that a worker spends time in, PreExecute and     *)
(* Execute, have a begin and an end.  What is recorded about a finished    *)
(* request is abstracted to the number of recorded requests; the module    *)
(* TestFrameStatistic has the rest.                                        *)
(***************************************************************************)
EXTENDS Integers, FiniteSets

CONSTANTS
    Workers,        \* the TestFrameThread objects, cThreadNum of them
    NoThread,       \* the owner of a mutex nobody holds
    RepeatCounts,   \* arguments SetRepeatCount may be called with
    Frequences,     \* arguments SetFrequence may be called with
    DurationTimes,  \* arguments SetDurationTime may be called with
    MaxSpurious     \* bound: how often pthread_cond_wait returns unprompted

ASSUME ConstantsAssumption ==
    /\ IsFiniteSet(Workers)
    /\ NoThread \notin Workers
    /\ RepeatCounts \subseteq Int
    /\ Frequences \subseteq Int
    /\ DurationTimes \subseteq Int
    /\ MaxSpurious \in Nat

VARIABLES
    cRepeatCountConst, cFrequenceConst, cDurationTime,  \* set before Run
    cRepeatCount, cFrequence,   \* the AtomicCounters
    cLock,                      \* the thread that holds the mutex
    main,       \* where Run is
    due,        \* has time(NULL) advanced since `lasttime'?
    clock,      \* time(NULL) - begin, counted up to cDurationTime
    now,        \* the local `now' of Run, minus begin
    pc,         \* where each RunX is
    preFailed,  \* the workers whose PreExecute returned an error
    \* History: they record what happened and are never read by the code.
    started,    \* Execute calls begun     (counted when a quota is set)
    counted,    \* Execute calls recorded  (counted when a quota is set)
    reported,   \* the value of `counted' the last Output printed
    window,     \* throttle tokens handed out since the last refill
    unlockedRefill, \* was the last refill, if any, the one made without cLock?
    spurious    \* spurious wakeups so far

config  == <<cRepeatCountConst, cFrequenceConst, cDurationTime>>
timing  == <<due, clock, now>>
history == <<started, counted, reported, window, unlockedRefill, spurious>>
vars == <<config, cRepeatCount, cFrequence, cLock, main, timing, pc, preFailed,
          history>>

-----------------------------------------------------------------------------
MainPcs == {"create", "refill0", "broadcast", "poll", "output",
            "check", "refill",
            "exit", "abort",        \* in exit(0), in exit(-1)
            "exited", "aborted"}    \* the process is gone

WorkerPcs == {"none",           \* not created
              "start",          \* before cLock.Lock() of the start barrier
              "pre",            \* in PreExecute, holding cLock
              "barrier",        \* waiting on cCond in the start barrier
              "barrier_woken",  \* notified there, waiting for cLock
              "loop",           \* at the top of the request loop
              "throttle",       \* holds cLock, about to read cFrequence
              "throttle_wait",  \* waiting on cCond for the next second
              "throttle_woken", \* notified there, waiting for cLock
              "take",           \* holds cLock, about to decrement cFrequence
              "recheck",        \* holds cLock, about to read cFrequence again
              "quota",          \* has a token, about to decrement cRepeatCount
              "execute",        \* in TestFrameThread::Execute
              "dead"}           \* RunX has returned

\* Where a worker holds cLock between two actions.
HoldsLock == {"pre", "throttle", "take", "recheck"}

\* The request loop: what a worker may only reach past the start barrier.
InLoop == {"loop", "throttle", "throttle_wait", "throttle_woken", "take",
           "recheck", "quota", "execute"}

Stopped == main \in {"exited", "aborted"}

TypeOK ==
    /\ cRepeatCountConst \in RepeatCounts
    /\ cFrequenceConst \in Frequences
    /\ cDurationTime \in DurationTimes
    /\ cRepeatCount \in Int
    /\ cFrequence \in Int
    /\ cLock \in Workers \cup {NoThread}
    /\ main \in MainPcs
    /\ due \in BOOLEAN /\ clock \in Nat /\ now \in Nat
    /\ pc \in [Workers -> WorkerPcs]
    /\ preFailed \subseteq Workers
    /\ started \in Nat /\ counted \in Nat /\ reported \in Nat
    /\ window \in Nat
    /\ unlockedRefill \in BOOLEAN
    /\ spurious \in Nat

-----------------------------------------------------------------------------
(***************************************************************************)
(* The constructor and the setters that run before Run.  The quota counter *)
(* starts at the constant SetRepeatCount gives it, the throttle counter at *)
(* zero; SetFrequence does not touch it.                                   *)
(***************************************************************************)
Init ==
    /\ cRepeatCountConst \in RepeatCounts
    /\ cFrequenceConst \in Frequences
    /\ cDurationTime \in DurationTimes
    /\ cRepeatCount = cRepeatCountConst
    /\ cFrequence = 0
    /\ cLock = NoThread
    /\ main = "create"
    /\ due = FALSE /\ clock = 0 /\ now = 0
    /\ pc = [w \in Workers |-> "none"]
    /\ preFailed = {}
    /\ started = 0 /\ counted = 0 /\ reported = 0
    /\ window = 0
    /\ unlockedRefill = TRUE
    /\ spurious = 0

-----------------------------------------------------------------------------
(* TestFrame::Run                                                          *)

\* threads[t]->Run(): pthread_create succeeds, or the process exits with -1.
CreateThread(w) ==
    /\ main = "create"
    /\ pc[w] = "none"
    /\ \/ pc' = [pc EXCEPT ![w] = "start"] /\ UNCHANGED main
       \/ main' = "abort" /\ UNCHANGED pc
    /\ UNCHANGED <<config, cRepeatCount, cFrequence, cLock, timing, preFailed,
                   history>>

\* sleep(1) returns.  Nothing ties its length to the progress of the workers.
Sleep ==
    /\ main = "create"
    /\ \A w \in Workers : pc[w] # "none"
    /\ main' = IF cFrequenceConst > 0 THEN "refill0" ELSE "broadcast"
    /\ UNCHANGED <<config, cRepeatCount, cFrequence, cLock, timing, pc,
                   preFailed, history>>

\* The first refill, made without cLock.
FirstRefill ==
    /\ main = "refill0"
    /\ main' = "broadcast"
    /\ cFrequence' = cFrequenceConst
    /\ UNCHANGED <<config, cRepeatCount, cLock, timing, pc, preFailed, history>>

\* Mutant: one state for the threads that were woken, wherever they waited.
NotifiedMerged(p) == IF p \in {"barrier", "throttle_wait"} THEN "woken" ELSE p

\* What pthread_cond_broadcast does to a thread.
Notified(p) ==
    CASE p = "barrier"       -> "barrier_woken"
      [] p = "throttle_wait" -> "throttle_woken"
      [] OTHER               -> p

Broadcast == pc' = [w \in Workers |-> Notified(pc[w])]

\* The broadcast that opens the start barrier, made without cLock.
OpenBarrier ==
    /\ main = "broadcast"
    /\ main' = "poll"
    /\ Broadcast
    /\ UNCHANGED <<config, cRepeatCount, cFrequence, cLock, timing, preFailed,
                   history>>

\* A second passes.  Run compares `clock' only with cDurationTime, so it stops there.
Tick ==
    /\ main \in {"poll", "output", "check", "refill"}
    /\ ~due \/ clock < cDurationTime
    /\ due' = TRUE
    /\ clock' = IF clock < cDurationTime THEN clock + 1 ELSE clock
    /\ UNCHANGED <<config, cRepeatCount, cFrequence, cLock, main, now, pc,
                   preFailed, history>>

\* An iteration that finds now - lasttime >= 1; the others only usleep.  The
\* closing `lasttime = now' is made here: a tick in between sets `due' again.
Poll ==
    /\ main = "poll"
    /\ due
    /\ due' = FALSE
    /\ now' = clock
    /\ main' = "output"
    /\ UNCHANGED <<config, cRepeatCount, cFrequence, cLock, clock, pc,
                   preFailed, history>>

\* cTestFrameStatistic->Output()
Output ==
    /\ main = "output"
    /\ main' = "check"
    /\ reported' = counted
    /\ UNCHANGED <<config, cRepeatCount, cFrequence, cLock, timing, pc,
                   preFailed, started, counted, window, unlockedRefill, spurious>>

\* Mutant: misses a counter that is below zero already when Run looks at it.
QuotaReachedAtZero == cRepeatCountConst > 0 /\ cRepeatCount = 0

\* Mutant: off by one.
QuotaReachedEarly == cRepeatCountConst > 0 /\ cRepeatCount <= 1

QuotaReached == cRepeatCountConst > 0 /\ cRepeatCount <= 0

\* Mutant: takes the 0 of "no time limit" for a limit.
TimeIsUpUnguarded == now >= cDurationTime

TimeIsUp == cDurationTime > 0 /\ now >= cDurationTime

\* Mutant: a test with a quota forgets its time limit.
CheckStopElse ==
    /\ main = "check"
    /\ main' = IF (IF cRepeatCountConst > 0 THEN QuotaReached ELSE TimeIsUp)
               THEN "exit"
               ELSE IF cFrequenceConst > 0 THEN "refill" ELSE "poll"
    /\ UNCHANGED <<config, cRepeatCount, cFrequence, cLock, timing, pc,
                   preFailed, history>>

\* The two breaks of the loop, after which Run calls exit(0).
CheckStop ==
    /\ main = "check"
    /\ main' = IF QuotaReached \/ TimeIsUp THEN "exit"
               ELSE IF cFrequenceConst > 0 THEN "refill" ELSE "poll"
    /\ UNCHANGED <<config, cRepeatCount, cFrequence, cLock, timing, pc,
                   preFailed, history>>

\* Mutant: what was not used in a second is added to the next.
RefillAdds ==
    /\ main = "refill"
    /\ cLock = NoThread
    /\ main' = "poll"
    /\ cFrequence' = cFrequence + cFrequenceConst
    /\ Broadcast
    /\ window' = 0
    /\ unlockedRefill' = FALSE
    /\ UNCHANGED <<config, cRepeatCount, cLock, timing, preFailed, started,
                   counted, reported, spurious>>

\* Mutant: refills without waking the threads that wait for it.
RefillSilent ==
    /\ main = "refill"
    /\ cLock = NoThread
    /\ main' = "poll"
    /\ cFrequence' = cFrequenceConst
    /\ window' = 0
    /\ unlockedRefill' = FALSE
    /\ UNCHANGED <<config, cRepeatCount, cLock, timing, pc, preFailed, started,
                   counted, reported, spurious>>

\* The refill of every later second.  The critical section is one action: only
\* threads that hold cLock look at cFrequence by then.
Refill ==
    /\ main = "refill"
    /\ cLock = NoThread
    /\ main' = "poll"
    /\ cFrequence' = cFrequenceConst
    /\ Broadcast
    /\ window' = 0
    /\ unlockedRefill' = FALSE
    /\ UNCHANGED <<config, cRepeatCount, cLock, timing, preFailed, started,
                   counted, reported, spurious>>

\* exit() ends the process.  The threads run on until it does.
Exit ==
    /\ \/ main = "exit" /\ main' = "exited"
       \/ main = "abort" /\ main' = "aborted"
    /\ UNCHANGED <<config, cRepeatCount, cFrequence, cLock, timing, pc,
                   preFailed, history>>

-----------------------------------------------------------------------------
(* TestFrameThread::RunX                                                   *)

Running == ~Stopped

Goto(w, from, to) == pc[w] = from /\ pc' = [pc EXCEPT ![w] = to]

Acquire(w) == cLock = NoThread /\ cLock' = w
Release(w) == cLock' = NoThread

\* cLock.Lock() of the start barrier.
EnterBarrier(w) ==
    /\ Running
    /\ Goto(w, "start", "pre")
    /\ Acquire(w)
    /\ UNCHANGED <<config, cRepeatCount, cFrequence, main, timing, preFailed,
                   history>>

\* PreExecute returns, with an error or without, and cCond.Wait releases cLock.
PreExecuteReturns(w) ==
    /\ Running
    /\ Goto(w, "pre", "barrier")
    /\ Release(w)
    /\ preFailed' \in {preFailed, preFailed \cup {w}}
    /\ UNCHANGED <<config, cRepeatCount, cFrequence, main, timing, history>>

\* Mutant: the result of PreExecute is lost.
LeaveBarrierAnyway(w) ==
    /\ Running
    /\ cLock = NoThread
    /\ Goto(w, "barrier_woken", "loop")
    /\ UNCHANGED <<config, cRepeatCount, cFrequence, cLock, main, timing,
                   preFailed, history>>

\* cCond.Wait returns with cLock, which is released; an error of PreExecute is
\* looked at only now, and ends the thread.
LeaveBarrier(w) ==
    /\ Running
    /\ cLock = NoThread
    /\ Goto(w, "barrier_woken", IF w \in preFailed THEN "dead" ELSE "loop")
    /\ UNCHANGED <<config, cRepeatCount, cFrequence, cLock, main, timing,
                   preFailed, history>>

\* The top of the loop when the frequency is limited: cLock.Lock().
EnterThrottle(w) ==
    /\ Running
    /\ cFrequenceConst > 0
    /\ Goto(w, "loop", "throttle")
    /\ Acquire(w)
    /\ UNCHANGED <<config, cRepeatCount, cFrequence, main, timing, preFailed,
                   history>>

\* if (cFrequence < 0) cCond.Wait(cLock): an `if', not a `while'.
CheckThrottle(w) ==
    /\ Running
    /\ \/ /\ cFrequence < 0
          /\ Goto(w, "throttle", "throttle_wait")
          /\ Release(w)
       \/ /\ cFrequence >= 0
          /\ Goto(w, "throttle", "take")
          /\ UNCHANGED cLock
    /\ UNCHANGED <<config, cRepeatCount, cFrequence, main, timing, preFailed,
                   history>>

\* That cCond.Wait returns, holding cLock.
ThrottleWaitReturns(w) ==
    /\ Running
    /\ Goto(w, "throttle_woken", "take")
    /\ Acquire(w)
    /\ UNCHANGED <<config, cRepeatCount, cFrequence, main, timing, preFailed,
                   history>>

\* cFrequence--
TakeToken(w) ==
    /\ Running
    /\ Goto(w, "take", "recheck")
    /\ cFrequence' = cFrequence - 1
    /\ UNCHANGED <<config, cRepeatCount, cLock, main, timing, preFailed, history>>

\* The double check: back to the top without a token, or on with one.
RecheckToken(w) ==
    /\ Running
    /\ Release(w)
    /\ \/ cFrequence < 0 /\ Goto(w, "recheck", "loop") /\ UNCHANGED window
       \/ cFrequence >= 0 /\ Goto(w, "recheck", "quota") /\ window' = window + 1
    /\ UNCHANGED <<config, cRepeatCount, cFrequence, main, timing, preFailed,
                   started, counted, reported, unlockedRefill, spurious>>

\* The top of the loop when the frequency is not limited.
SkipThrottle(w) ==
    /\ Running
    /\ cFrequenceConst <= 0
    /\ Goto(w, "loop", "quota")
    /\ UNCHANGED <<config, cRepeatCount, cFrequence, cLock, main, timing,
                   preFailed, history>>

Counts == cRepeatCountConst > 0     \* history is kept only then, to be finite

\* Mutant: the postfix -- of C++, which returns the value before.
QuotaLeftPostfix == cRepeatCount >= 0

\* The postfix -- of AtomicCounter returns the decremented value.
QuotaLeft == cRepeatCount - 1 >= 0

\* if (cRepeatCountConst > 0 && (cRepeatCount--) < 0) break; rc = Execute(..)
TakeQuota(w) ==
    /\ Running
    /\ cRepeatCount' = IF Counts THEN cRepeatCount - 1 ELSE cRepeatCount
    /\ \/ /\ Counts /\ ~QuotaLeft
          /\ Goto(w, "quota", "dead")
          /\ UNCHANGED started
       \/ /\ Counts => QuotaLeft
          /\ Goto(w, "quota", "execute")
          /\ started' = IF Counts THEN started + 1 ELSE started
    /\ UNCHANGED <<config, cFrequence, cLock, main, timing, preFailed, counted,
                   reported, window, unlockedRefill, spurious>>

\* TestCase::Execute returns, whatever it returns, and is recorded.
ExecuteReturns(w) ==
    /\ Running
    /\ Goto(w, "execute", "loop")
    /\ counted' = IF Counts THEN counted + 1 ELSE counted
    /\ UNCHANGED <<config, cRepeatCount, cFrequence, cLock, main, timing,
                   preFailed, started, reported, window, unlockedRefill, spurious>>

\* pthread_cond_wait may return without a broadcast; neither Wait is in a loop
\* that tests a predicate.
SpuriousWakeup(w) ==
    /\ Running
    /\ spurious < MaxSpurious
    /\ pc[w] \in {"barrier", "throttle_wait"}
    /\ pc' = [pc EXCEPT ![w] = Notified(pc[w])]
    /\ spurious' = spurious + 1
    /\ UNCHANGED <<config, cRepeatCount, cFrequence, cLock, main, timing,
                   preFailed, started, counted, reported, window, unlockedRefill>>

-----------------------------------------------------------------------------
\* The process is gone: this keeps the end of a run apart from a deadlock.
Terminated == Stopped /\ UNCHANGED vars

MainNext ==
    \/ \E w \in Workers : CreateThread(w)
    \/ Sleep
    \/ FirstRefill
    \/ OpenBarrier
    \/ Poll
    \/ Output
    \/ CheckStop
    \/ Refill
    \/ Exit

\* What a worker does on its own: all but the return of a callback.
WorkerStep(w) ==
    \/ EnterBarrier(w)
    \/ LeaveBarrier(w)
    \/ EnterThrottle(w)
    \/ CheckThrottle(w)
    \/ ThrottleWaitReturns(w)
    \/ TakeToken(w)
    \/ RecheckToken(w)
    \/ SkipThrottle(w)
    \/ TakeQuota(w)

CallbackReturns(w) == PreExecuteReturns(w) \/ ExecuteReturns(w)

WorkerNext(w) == WorkerStep(w) \/ CallbackReturns(w) \/ SpuriousWakeup(w)

Next ==
    \/ MainNext
    \/ Tick
    \/ \E w \in Workers : WorkerNext(w)
    \/ Terminated

Spec == Init /\ [][Next]_vars

(***************************************************************************)
(* Every runnable thread is scheduled and time passes.  Nothing is assumed *)
(* of the callbacks, which are the user's code and talk to a network: they *)
(* may never return.  A free mutex that a thread keeps asking for while    *)
(* nobody else takes it is granted; no thread is promised a mutex others   *)
(* keep taking.                                                            *)
(***************************************************************************)
FairSpec ==
    /\ Spec
    /\ WF_vars(MainNext)
    /\ WF_vars(Tick)
    /\ \A w \in Workers : WF_vars(WorkerStep(w))

-----------------------------------------------------------------------------
(* Safety                                                                  *)

\* However the workers interleave, no more requests are started than
\* SetRepeatCount allows: the test of the counter by its decrement is enough
\* although nothing else guards it.
QuotaRespected == cRepeatCountConst > 0 => started <= cRepeatCountConst

\* The quota counter runs below zero by at most one for each worker, because the
\* decrement that misses the quota is the last a worker makes.
QuotaFloor ==
    cRepeatCountConst > 0 /\ cRepeatCount < 0 =>
        -cRepeatCount <= Cardinality(Workers)

\* Run decides to exit(0) only when every request of the quota has been started
\* or the test has lasted cDurationTime.
NoEarlyExit ==
    main \in {"exit", "exited"} =>
        \/ cRepeatCountConst > 0 /\ started = cRepeatCountConst
        \/ cDurationTime > 0 /\ clock >= cDurationTime

\* Between two refills at most cFrequenceConst requests get a token: a worker
\* that waits in CheckThrottle, or comes back from it, cannot take one of the
\* old second into the new one.  The first refill is made without cLock and can
\* fall between the decrement and the double check of a thread that a spurious
\* wakeup let past the barrier, so the first second may have one token more.
ThrottleHolds ==
    cFrequenceConst > 0 =>
        window <= cFrequenceConst + (IF unlockedRefill /\ spurious > 0 THEN 1 ELSE 0)

\* Nobody is past the start barrier before Run opens it, unless a wait returned
\* unprompted, and a thread whose PreExecute failed never is.
StartBarrierHolds ==
    \A w \in Workers : pc[w] \in InLoop =>
        /\ w \notin preFailed
        /\ spurious = 0 =>
              main \notin {"create", "refill0", "broadcast", "abort", "aborted"}

\* The request budget of LoadBudget as Run and the workers keep it.
Left == IF cRepeatCountConst <= 0 THEN -1
        ELSE IF cRepeatCount < 0 THEN 0 ELSE cRepeatCount

Busy == {w \in Workers : pc[w] = "execute"}

Outcome == CASE main = "exited"  -> "finished"
             [] main = "aborted" -> "aborted"
             [] OTHER            -> "running"

Budget == INSTANCE LoadBudget WITH
    Senders <- Workers,
    Budgets <- {r \in RepeatCounts : r > 0},
    left <- Left,
    busy <- Busy,
    timed <- cDurationTime > 0,
    outcome <- Outcome

\* Run and the workers together implement that budget: each request is drawn from
\* it once, a worker has one at a time, and the test ends for one of its reasons.
ImplementsLoadBudget == Budget!BudgetSpec

\* The last report covers every request of a test that ends by its quota, as the
\* comment above the call of Run in testexample.cpp has it.  It does not.
FinalReportComplete ==
    main = "exited" /\ ~TimeIsUp => reported = cRepeatCountConst

-----------------------------------------------------------------------------
(* Liveness                                                                *)

Hangs(w, p) == <>[](pc[w] = p)      \* a callback never returns

\* A test with a duration ends, even if Execute hangs in every thread.  Only a
\* PreExecute that hangs can prevent it, since it holds the mutex that Run needs
\* for the refill.
DurationHonoured ==
    cDurationTime > 0 =>
        \/ <>Stopped
        \/ cFrequenceConst > 0 /\ \E w \in Workers : Hangs(w, "pre")

\* A test with a quota and a limited frequency ends when the quota is spent,
\* unless a callback hangs or PreExecute failed in every thread.
QuotaCompletes ==
    cRepeatCountConst > 0 /\ cFrequenceConst > 0 =>
        \/ <>Stopped
        \/ \E w \in Workers : Hangs(w, "pre") \/ Hangs(w, "execute")
        \/ <>(preFailed = Workers)

\* When the frequency is limited no thread is left waiting on cCond, at the
\* barrier or in the throttle: what the broadcast at the barrier misses, that of
\* a later second makes up for.
WaitersReleased ==
    cFrequenceConst > 0 =>
        \/ \A w \in Workers :
              pc[w] \in {"barrier", "throttle_wait"} ~>
                  pc[w] \notin {"barrier", "throttle_wait"} \/ Stopped
        \/ \E w \in Workers : Hangs(w, "pre")

\* "Tell the other threads", the comment on the broadcast at the barrier: every
\* thread that waits there is released.  With no limit on the frequency nothing
\* makes up for a broadcast that comes too early.
StartBarrierOpens ==
    \A w \in Workers : pc[w] = "barrier" ~> pc[w] # "barrier" \/ Stopped
=============================================================================
