-------------------------- MODULE TestFrameProofs --------------------------
(***************************************************************************)
(* Proofs about TestFrame, for any number of workers, any quota, frequency *)
(* and duration, and any number of spurious wakeups.                       *)
(***************************************************************************)
EXTENDS TestFrame, FiniteSetTheorems, TLAPS

\* A step of the program, or none, under the names of the actions.
LEMMA NextCases ==
    ASSUME [Next]_vars
    PROVE  \/ \E w \in Workers : CreateThread(w)
           \/ Sleep \/ FirstRefill \/ OpenBarrier \/ Poll \/ Output \/ CheckStop
           \/ Refill \/ Exit \/ Tick
           \/ \E w \in Workers :
                 \/ EnterBarrier(w) \/ PreExecuteReturns(w) \/ LeaveBarrier(w)
                 \/ EnterThrottle(w) \/ CheckThrottle(w) \/ ThrottleWaitReturns(w)
                 \/ TakeToken(w) \/ RecheckToken(w) \/ SkipThrottle(w)
                 \/ TakeQuota(w) \/ ExecuteReturns(w) \/ SpuriousWakeup(w)
           \/ UNCHANGED vars
BY DEF Next, MainNext, WorkerNext, WorkerStep, CallbackReturns, Terminated

-----------------------------------------------------------------------------
\* A broadcast leaves every thread at a place a thread may be.
LEMMA NotifiedType ==
    ASSUME NEW p \in WorkerPcs
    PROVE  Notified(p) \in WorkerPcs
BY DEF Notified, WorkerPcs

LEMMA BroadcastType ==
    ASSUME pc \in [Workers -> WorkerPcs], Broadcast
    PROVE  pc' \in [Workers -> WorkerPcs]
BY NotifiedType DEF Broadcast

LEMMA InitTypeOK == Init => TypeOK
<1> SUFFICES ASSUME Init
             PROVE  TypeOK
  OBVIOUS
<1>1. cRepeatCount \in Int /\ cFrequence \in Int
  BY ConstantsAssumption DEF ConstantsAssumption, Init
<1>2. pc \in [Workers -> WorkerPcs]
  BY DEF Init, WorkerPcs
<1> QED
  BY <1>1, <1>2 DEF Init, TypeOK, MainPcs

LEMMA NextTypeOK == TypeOK /\ [Next]_vars => TypeOK'
<1> SUFFICES ASSUME TypeOK, [Next]_vars
             PROVE  TypeOK'
  OBVIOUS
<1> USE DEF config, timing, history
<1>1. ASSUME NEW w \in Workers, CreateThread(w)
      PROVE  TypeOK'
  BY <1>1 DEF TypeOK, CreateThread, MainPcs, WorkerPcs
<1>2. CASE Sleep
  BY <1>2 DEF TypeOK, Sleep, MainPcs
<1>3. CASE FirstRefill
  BY <1>3, ConstantsAssumption DEF ConstantsAssumption, TypeOK, FirstRefill, MainPcs
<1>4. CASE OpenBarrier
  <2>1. pc' \in [Workers -> WorkerPcs]
    BY <1>4, BroadcastType DEF TypeOK, OpenBarrier
  <2> QED
    BY <1>4, <2>1 DEF TypeOK, OpenBarrier, MainPcs
<1>5. CASE Poll
  BY <1>5 DEF TypeOK, Poll, MainPcs
<1>6. CASE Output
  BY <1>6 DEF TypeOK, Output, MainPcs
<1>7. CASE CheckStop
  BY <1>7 DEF TypeOK, CheckStop, MainPcs
<1>8. CASE Refill
  <2>1. pc' \in [Workers -> WorkerPcs]
    BY <1>8, BroadcastType DEF TypeOK, Refill
  <2> QED
    BY <1>8, <2>1, ConstantsAssumption DEF ConstantsAssumption, TypeOK, Refill, MainPcs
<1>9. CASE Exit
  BY <1>9 DEF TypeOK, Exit, MainPcs
<1>10. CASE Tick
  BY <1>10 DEF TypeOK, Tick
<1>11. ASSUME NEW w \in Workers, EnterBarrier(w)
       PROVE  TypeOK'
  BY <1>11 DEF TypeOK, EnterBarrier, Goto, Acquire, WorkerPcs
<1>12. ASSUME NEW w \in Workers, PreExecuteReturns(w)
       PROVE  TypeOK'
  BY <1>12 DEF TypeOK, PreExecuteReturns, Goto, Release, WorkerPcs
<1>13. ASSUME NEW w \in Workers, LeaveBarrier(w)
       PROVE  TypeOK'
  BY <1>13 DEF TypeOK, LeaveBarrier, Goto, WorkerPcs
<1>14. ASSUME NEW w \in Workers, EnterThrottle(w)
       PROVE  TypeOK'
  BY <1>14 DEF TypeOK, EnterThrottle, Goto, Acquire, WorkerPcs
<1>15. ASSUME NEW w \in Workers, CheckThrottle(w)
       PROVE  TypeOK'
  BY <1>15 DEF TypeOK, CheckThrottle, Goto, Release, WorkerPcs
<1>16. ASSUME NEW w \in Workers, ThrottleWaitReturns(w)
       PROVE  TypeOK'
  BY <1>16 DEF TypeOK, ThrottleWaitReturns, Goto, Acquire, WorkerPcs
<1>17. ASSUME NEW w \in Workers, TakeToken(w)
       PROVE  TypeOK'
  BY <1>17 DEF TypeOK, TakeToken, Goto, WorkerPcs
<1>18. ASSUME NEW w \in Workers, RecheckToken(w)
       PROVE  TypeOK'
  BY <1>18 DEF TypeOK, RecheckToken, Goto, Release, WorkerPcs
<1>19. ASSUME NEW w \in Workers, SkipThrottle(w)
       PROVE  TypeOK'
  BY <1>19 DEF TypeOK, SkipThrottle, Goto, WorkerPcs
<1>20. ASSUME NEW w \in Workers, TakeQuota(w)
       PROVE  TypeOK'
  BY <1>20 DEF TypeOK, TakeQuota, Goto, WorkerPcs
<1>21. ASSUME NEW w \in Workers, ExecuteReturns(w)
       PROVE  TypeOK'
  BY <1>21 DEF TypeOK, ExecuteReturns, Goto, WorkerPcs
<1>22. ASSUME NEW w \in Workers, SpuriousWakeup(w)
       PROVE  TypeOK'
  <2>1. Notified(pc[w]) \in WorkerPcs
    BY NotifiedType DEF TypeOK
  <2> QED
    BY <1>22, <2>1 DEF TypeOK, SpuriousWakeup
<1>23. CASE UNCHANGED vars
  BY <1>23 DEF TypeOK, vars
<1> QED
  BY <1>1, <1>2, <1>3, <1>4, <1>5, <1>6, <1>7, <1>8, <1>9, <1>10, <1>11, <1>12,
     <1>13, <1>14, <1>15, <1>16, <1>17, <1>18, <1>19, <1>20, <1>21, <1>22, <1>23,
     NextCases

\* Every variable keeps to its type: in particular a notified thread is always at
\* a place of RunX, whichever wait it was in.
THEOREM TypeCorrect == Spec => []TypeOK
BY InitTypeOK, NextTypeOK, PTL DEF Spec

-----------------------------------------------------------------------------
(***************************************************************************)
(* The inductive invariant: what the safety properties of TestFrame need   *)
(* to be preserved by every step.                                          *)
(***************************************************************************)

\* cLock is held by the thread whose place says so, and by no other.
LockInv == \A w \in Workers : pc[w] \in HoldsLock <=> cLock = w

\* What is left of the quota and what was started of it add up, until the first
\* worker misses it.
QuotaInv ==
    cRepeatCountConst > 0 =>
        /\ cRepeatCount >= 0 => started + cRepeatCount = cRepeatCountConst
        /\ cRepeatCount < 0 => started = cRepeatCountConst

\* Every decrement that missed the quota ended the worker that made it.
Dead == {w \in Workers : pc[w] = "dead"}

FloorInv ==
    cRepeatCountConst > 0 /\ cRepeatCount < 0 => -cRepeatCount <= Cardinality(Dead)

\* Run leaves its loop for a reason that stays true.
ExitInv ==
    /\ now <= clock
    /\ main \in {"exit", "exited"} => QuotaReached \/ TimeIsUp

\* Before Run opens the barrier only a spurious wakeup gets a thread out of it.
NotOpen == main \in {"create", "refill0", "broadcast", "abort", "aborted"}

BarrierInv ==
    \A w \in Workers :
        /\ pc[w] \in InLoop => w \notin preFailed
        /\ NotOpen /\ pc[w] \in InLoop \cup {"barrier_woken", "dead"} => spurious > 0
        /\ pc[w] \in {"none", "start", "pre"} => w \notin preFailed

\* Before the first refill there is no token; after it the tokens handed out, the
\* one a worker has taken and not yet checked, and those left make up a second's.
NotFilled == main \in {"create", "refill0", "abort", "aborted"}

Slack == IF unlockedRefill /\ spurious > 0 THEN 1 ELSE 0

AtRecheck == \E w \in Workers : pc[w] = "recheck"

ThrottleInv ==
    cFrequenceConst > 0 =>
        /\ NotFilled =>
              /\ window = 0 /\ cFrequence <= 0 /\ unlockedRefill = TRUE
              /\ AtRecheck => cFrequence < 0
        /\ ~NotFilled =>
              /\ window - cFrequenceConst <= Slack
              /\ cFrequence >= 0 => window + cFrequence - cFrequenceConst <= Slack
              /\ cFrequence >= 0 /\ AtRecheck
                    => window + cFrequence + 1 - cFrequenceConst <= Slack

IInv ==
    /\ TypeOK /\ LockInv /\ QuotaInv /\ FloorInv /\ ExitInv /\ BarrierInv
    /\ ThrottleInv

-----------------------------------------------------------------------------
(* Frames: which action changes what.                                      *)

\* Nothing changes the configuration.
LEMMA ConfigFrame ==
    ASSUME [Next]_vars
    PROVE  /\ cRepeatCountConst' = cRepeatCountConst
           /\ cFrequenceConst' = cFrequenceConst
           /\ cDurationTime' = cDurationTime
BY NextCases
   DEF vars, config, CreateThread, Sleep, FirstRefill, OpenBarrier, Poll, Output,
       CheckStop, Refill, Exit, Tick, EnterBarrier, PreExecuteReturns, LeaveBarrier,
       EnterThrottle, CheckThrottle, ThrottleWaitReturns, TakeToken, RecheckToken,
       SkipThrottle, TakeQuota, ExecuteReturns, SpuriousWakeup

\* Only TakeQuota touches the quota.
LEMMA QuotaFrame ==
    ASSUME [Next]_vars
    PROVE  \/ \E w \in Workers : TakeQuota(w)
           \/ cRepeatCount' = cRepeatCount /\ started' = started
BY NextCases
   DEF vars, config, history, CreateThread, Sleep, FirstRefill, OpenBarrier, Poll,
       Output, CheckStop, Refill, Exit, Tick, EnterBarrier, PreExecuteReturns,
       LeaveBarrier, EnterThrottle, CheckThrottle, ThrottleWaitReturns, TakeToken,
       RecheckToken, SkipThrottle, ExecuteReturns, SpuriousWakeup

\* Only CheckStop and Exit lead to the end of Run; only Tick and Poll touch its time.
LEMMA ExitFrame ==
    ASSUME [Next]_vars
    PROVE  \/ Tick \/ Poll \/ CheckStop \/ Exit
           \/ /\ clock' = clock /\ now' = now
              /\ main' = main \/ main' \notin {"exit", "exited"}
BY NextCases
   DEF vars, timing, CreateThread, Sleep, FirstRefill, OpenBarrier, Output, Refill,
       EnterBarrier, PreExecuteReturns, LeaveBarrier, EnterThrottle, CheckThrottle,
       ThrottleWaitReturns, TakeToken, RecheckToken, SkipThrottle, TakeQuota,
       ExecuteReturns, SpuriousWakeup

-----------------------------------------------------------------------------
(* The quota                                                               *)

LEMMA NextQuotaInv ==
    ASSUME TypeOK, QuotaInv, [Next]_vars
    PROVE  QuotaInv'
<1>1. CASE \E w \in Workers : TakeQuota(w)
  <2>1. PICK w \in Workers : TakeQuota(w)
    BY <1>1
  <2>2. CASE cRepeatCountConst > 0
    <3>1. cRepeatCount' = cRepeatCount - 1
      BY <2>1, <2>2 DEF TakeQuota, Counts
    <3>2. CASE cRepeatCount - 1 >= 0
      <4>1. started' = started + 1
        BY <2>1, <2>2, <3>2 DEF TakeQuota, Counts, QuotaLeft
      <4> QED
        BY <2>2, <3>1, <3>2, <4>1, ConfigFrame DEF TypeOK, QuotaInv
    <3>3. CASE ~(cRepeatCount - 1 >= 0)
      <4>1. started' = started
        BY <2>1, <2>2, <3>3 DEF TakeQuota, Counts, QuotaLeft
      <4> QED
        BY <2>2, <3>1, <3>3, <4>1, ConfigFrame DEF TypeOK, QuotaInv
    <3> QED
      BY <3>2, <3>3
  <2>3. CASE ~(cRepeatCountConst > 0)
    BY <2>3, ConfigFrame DEF QuotaInv
  <2> QED
    BY <2>2, <2>3
<1>2. CASE cRepeatCount' = cRepeatCount /\ started' = started
  BY <1>2, ConfigFrame DEF QuotaInv
<1> QED
  BY <1>1, <1>2, QuotaFrame

LEMMA InitQuotaInv == Init => QuotaInv
BY ConstantsAssumption DEF ConstantsAssumption, Init, QuotaInv

\* The decrement that is its own test lets through as many requests as the quota
\* has, whatever the number of workers and their interleaving.
THEOREM QuotaIsRespected == Spec => []QuotaRespected
<1>1. TypeOK /\ QuotaInv => QuotaRespected
  BY DEF TypeOK, QuotaInv, QuotaRespected
<1>2. TypeOK /\ QuotaInv /\ [Next]_vars => QuotaInv'
  BY NextQuotaInv
<1> QED
  BY <1>1, <1>2, InitQuotaInv, TypeCorrect, PTL DEF Spec

\* A broadcast kills and revives nobody, and a worker that is dead stays so.
LEMMA DeadStays ==
    ASSUME TypeOK, [Next]_vars
    PROVE  Dead \subseteq Dead'
<1>1. CASE UNCHANGED pc
  BY <1>1 DEF Dead
<1>2. CASE Broadcast
  BY <1>2 DEF TypeOK, Dead, Broadcast, Notified
<1>3. CASE \E w \in Workers : pc[w] # "dead" /\ \E p : pc' = [pc EXCEPT ![w] = p]
  BY <1>3 DEF TypeOK, Dead
<1>4. UNCHANGED pc \/ Broadcast
        \/ \E w \in Workers : pc[w] # "dead" /\ \E p : pc' = [pc EXCEPT ![w] = p]
  BY NextCases
     DEF vars, Goto, CreateThread, Sleep, FirstRefill, OpenBarrier, Poll, Output,
         CheckStop, Refill, Exit, Tick, EnterBarrier, PreExecuteReturns, LeaveBarrier,
         EnterThrottle, CheckThrottle, ThrottleWaitReturns, TakeToken, RecheckToken,
         SkipThrottle, TakeQuota, ExecuteReturns, SpuriousWakeup
<1> QED
  BY <1>1, <1>2, <1>3, <1>4

\* The dead are counted: there are finitely many workers.
LEMMA DeadFinite ==
    /\ IsFiniteSet(Workers) /\ Cardinality(Workers) \in Nat
    /\ IsFiniteSet(Dead) /\ Cardinality(Dead) \in Nat
    /\ Cardinality(Dead) <= Cardinality(Workers)
<1>1. IsFiniteSet(Workers)
  BY ConstantsAssumption DEF ConstantsAssumption
<1>2. Dead \in SUBSET Workers
  BY DEF Dead
<1>3. IsFiniteSet(Dead) /\ Cardinality(Dead) <= Cardinality(Workers)
  BY <1>1, <1>2, FS_Subset
<1> QED
  BY <1>1, <1>3, FS_CardinalityType

\* A decrement that misses adds one to the dead, and one below zero.
LEMMA MissKills ==
    ASSUME TypeOK, FloorInv, NEW w \in Workers, TakeQuota(w),
           cRepeatCountConst > 0, ~QuotaLeft
    PROVE  cRepeatCount' < 0 => -cRepeatCount' <= Cardinality(Dead')
<1>1. cRepeatCount' = cRepeatCount - 1
  BY DEF TakeQuota, Counts
<1>2. pc[w] = "quota" /\ pc' = [pc EXCEPT ![w] = "dead"]
  BY DEF TakeQuota, Counts, Goto
<1>3. w \notin Dead /\ Dead' = Dead \cup {w}
  BY <1>2 DEF TypeOK, Dead
<1>4. Cardinality(Dead') = Cardinality(Dead) + 1
  BY <1>3, DeadFinite, FS_AddElement
<1>5. cRepeatCount \in Int /\ Cardinality(Dead) \in Nat
  BY DeadFinite DEF TypeOK
<1>6. CASE cRepeatCount < 0
  BY <1>1, <1>4, <1>5, <1>6 DEF FloorInv
<1>7. CASE cRepeatCount = 0
  BY <1>1, <1>4, <1>5, <1>7
<1>8. cRepeatCount < 0 \/ cRepeatCount = 0
  BY <1>5 DEF QuotaLeft
<1> QED
  BY <1>6, <1>7, <1>8

LEMMA NextFloorInv ==
    ASSUME TypeOK, FloorInv, [Next]_vars
    PROVE  FloorInv'
<1>1. CASE \E w \in Workers : TakeQuota(w)
  <2>1. PICK w \in Workers : TakeQuota(w)
    BY <1>1
  <2>2. CASE cRepeatCountConst > 0 /\ ~QuotaLeft
    BY <2>1, <2>2, MissKills, ConfigFrame DEF FloorInv
  <2>3. CASE cRepeatCountConst > 0 /\ QuotaLeft
    <3>1. cRepeatCount' \in Int /\ ~(cRepeatCount' < 0)
      BY <2>1, <2>3 DEF TypeOK, TakeQuota, Counts, QuotaLeft
    <3> QED
      BY <3>1 DEF FloorInv
  <2>4. CASE ~(cRepeatCountConst > 0)
    BY <2>4, ConfigFrame DEF FloorInv
  <2> QED
    BY <2>2, <2>3, <2>4
<1>2. CASE cRepeatCount' = cRepeatCount
  <2>1. IsFiniteSet(Dead')
    <3>1. Dead' \in SUBSET Workers
      BY DEF Dead
    <3> QED
      BY <3>1, DeadFinite, FS_Subset
  <2>2. Cardinality(Dead) <= Cardinality(Dead')
    BY <2>1, DeadStays, FS_Subset
  <2>3. Cardinality(Dead) \in Nat /\ Cardinality(Dead') \in Nat
    BY <2>1, DeadFinite, FS_CardinalityType
  <2> QED
    BY <1>2, <2>2, <2>3, ConfigFrame DEF TypeOK, FloorInv
<1> QED
  BY <1>1, <1>2, QuotaFrame

LEMMA InitFloorInv == Init => FloorInv
BY ConstantsAssumption DEF ConstantsAssumption, Init, FloorInv

\* The counter, which is decremented before it is tested, never runs further below
\* zero than there are workers to miss it.
THEOREM QuotaFloorHolds == Spec => []QuotaFloor
<1>1. TypeOK /\ FloorInv => QuotaFloor
  <2> SUFFICES ASSUME TypeOK, FloorInv, cRepeatCountConst > 0, cRepeatCount < 0
               PROVE  -cRepeatCount <= Cardinality(Workers)
    BY DEF QuotaFloor
  <2>1. -cRepeatCount <= Cardinality(Dead)
    BY DEF FloorInv
  <2> QED
    BY <2>1, DeadFinite DEF TypeOK
<1>2. TypeOK /\ FloorInv /\ [Next]_vars => FloorInv'
  BY NextFloorInv
<1> QED
  BY <1>1, <1>2, InitFloorInv, TypeCorrect, PTL DEF Spec

-----------------------------------------------------------------------------
(* The end of Run                                                          *)

LEMMA NextExitInv ==
    ASSUME TypeOK, QuotaInv, ExitInv, [Next]_vars
    PROVE  ExitInv'
<1>1. QuotaReached => QuotaReached'
  <2>1. CASE \E w \in Workers : TakeQuota(w)
    BY <2>1, ConfigFrame DEF TypeOK, TakeQuota, Counts, QuotaReached
  <2>2. CASE cRepeatCount' = cRepeatCount
    BY <2>2, ConfigFrame DEF QuotaReached
  <2> QED
    BY <2>1, <2>2, QuotaFrame
<1>2. CASE Tick
  BY <1>1, <1>2, ConfigFrame DEF TypeOK, ExitInv, Tick, TimeIsUp
<1>3. CASE Poll
  BY <1>3 DEF TypeOK, ExitInv, Poll
<1>4. CASE CheckStop
  BY <1>1, <1>4, ConfigFrame DEF TypeOK, ExitInv, CheckStop, TimeIsUp, timing
<1>5. CASE Exit
  BY <1>1, <1>5, ConfigFrame DEF TypeOK, ExitInv, Exit, TimeIsUp, timing
<1>6. CASE /\ clock' = clock /\ now' = now
           /\ main' = main \/ main' \notin {"exit", "exited"}
  BY <1>1, <1>6, ConfigFrame DEF ExitInv, TimeIsUp
<1> QED
  BY <1>2, <1>3, <1>4, <1>5, <1>6, ExitFrame

LEMMA InitExitInv == Init => ExitInv
BY DEF Init, ExitInv

\* A test that is not aborted ends with its whole quota started or its time over.
THEOREM NoEarlyExitHolds == Spec => []NoEarlyExit
<1>1. TypeOK /\ QuotaInv /\ ExitInv => NoEarlyExit
  <2> SUFFICES ASSUME TypeOK, QuotaInv, ExitInv, main \in {"exit", "exited"}
               PROVE  \/ cRepeatCountConst > 0 /\ started = cRepeatCountConst
                      \/ cDurationTime > 0 /\ clock >= cDurationTime
    BY DEF NoEarlyExit
  <2>1. CASE QuotaReached
    BY <2>1 DEF TypeOK, QuotaInv, QuotaReached
  <2>2. CASE TimeIsUp
    <3>1. cDurationTime \in Int
      BY ConstantsAssumption DEF ConstantsAssumption, TypeOK
    <3> QED
      BY <2>2, <3>1 DEF TypeOK, ExitInv, TimeIsUp
  <2> QED
    BY <2>1, <2>2 DEF ExitInv
<1>2. TypeOK /\ QuotaInv /\ [Next]_vars => QuotaInv'
  BY NextQuotaInv
<1>3. TypeOK /\ QuotaInv /\ ExitInv /\ [Next]_vars => ExitInv'
  BY NextExitInv
<1> QED
  BY <1>1, <1>2, <1>3, InitQuotaInv, InitExitInv, TypeCorrect, PTL DEF Spec

-----------------------------------------------------------------------------
(* The mutex                                                               *)

\* A thread that goes to a place where it holds cLock acquires it on the way, and
\* one that leaves such a place releases it.
LEMMA LockMove ==
    ASSUME TypeOK, LockInv,
           NEW w \in Workers, NEW from \in WorkerPcs, NEW to \in WorkerPcs,
           Goto(w, from, to),
           \/ from \notin HoldsLock /\ to \in HoldsLock /\ Acquire(w)
           \/ from \in HoldsLock /\ to \notin HoldsLock /\ Release(w)
           \/ (from \in HoldsLock <=> to \in HoldsLock) /\ cLock' = cLock
    PROVE  LockInv'
<1> SUFFICES ASSUME NEW v \in Workers
             PROVE  (pc[v] \in HoldsLock <=> cLock = v)'
  BY DEF LockInv
<1>1. NoThread \notin Workers
  BY ConstantsAssumption DEF ConstantsAssumption
<1>2. (pc[v] \in HoldsLock <=> cLock = v) /\ (pc[w] \in HoldsLock <=> cLock = w)
  BY DEF LockInv
<1>3. CASE v = w
  BY <1>1, <1>2, <1>3 DEF TypeOK, Goto, Acquire, Release
<1>4. CASE v # w
  BY <1>1, <1>2, <1>4 DEF TypeOK, Goto, Acquire, Release
<1> QED
  BY <1>3, <1>4

LEMMA LockStays ==
    ASSUME LockInv, cLock' = cLock,
           \A w \in Workers : pc'[w] \in HoldsLock <=> pc[w] \in HoldsLock
    PROVE  LockInv'
BY DEF LockInv

LEMMA LockBroadcast ==
    ASSUME TypeOK, LockInv, cLock' = cLock, Broadcast
    PROVE  LockInv'
<1>1. \A p \in WorkerPcs : Notified(p) \in HoldsLock <=> p \in HoldsLock
  BY DEF Notified, WorkerPcs, HoldsLock
<1>2. \A w \in Workers : pc'[w] \in HoldsLock <=> pc[w] \in HoldsLock
  BY <1>1 DEF TypeOK, Broadcast
<1> QED
  BY <1>2, LockStays

LEMMA NextLockInv ==
    ASSUME TypeOK, LockInv, [Next]_vars
    PROVE  LockInv'
<1>1. ASSUME NEW w \in Workers, CreateThread(w)
      PROVE  LockInv'
  <2>1. \A v \in Workers : pc'[v] \in HoldsLock <=> pc[v] \in HoldsLock
    BY <1>1 DEF TypeOK, CreateThread, HoldsLock
  <2> QED
    BY <1>1, <2>1, LockStays DEF CreateThread
<1>2. CASE Sleep \/ FirstRefill \/ Poll \/ Output \/ CheckStop \/ Exit \/ Tick
  BY <1>2, LockStays DEF Sleep, FirstRefill, Poll, Output, CheckStop, Exit, Tick
<1>3. CASE OpenBarrier
  BY <1>3, LockBroadcast DEF OpenBarrier
<1>4. CASE Refill
  BY <1>4, LockBroadcast DEF Refill
<1>5. ASSUME NEW w \in Workers, EnterBarrier(w)
      PROVE  LockInv'
  BY <1>5, LockMove DEF EnterBarrier, WorkerPcs, HoldsLock
<1>6. ASSUME NEW w \in Workers, PreExecuteReturns(w)
      PROVE  LockInv'
  BY <1>6, LockMove DEF PreExecuteReturns, WorkerPcs, HoldsLock
<1>7. ASSUME NEW w \in Workers, LeaveBarrier(w)
      PROVE  LockInv'
  BY <1>7, LockMove DEF LeaveBarrier, WorkerPcs, HoldsLock
<1>8. ASSUME NEW w \in Workers, EnterThrottle(w)
      PROVE  LockInv'
  BY <1>8, LockMove DEF EnterThrottle, WorkerPcs, HoldsLock
<1>9. ASSUME NEW w \in Workers, CheckThrottle(w)
      PROVE  LockInv'
  <2>1. CASE Goto(w, "throttle", "throttle_wait") /\ Release(w)
    BY <2>1, LockMove DEF WorkerPcs, HoldsLock
  <2>2. CASE Goto(w, "throttle", "take") /\ UNCHANGED cLock
    BY <2>2, LockMove DEF WorkerPcs, HoldsLock
  <2> QED
    BY <1>9, <2>1, <2>2 DEF CheckThrottle
<1>10. ASSUME NEW w \in Workers, ThrottleWaitReturns(w)
       PROVE  LockInv'
  BY <1>10, LockMove DEF ThrottleWaitReturns, WorkerPcs, HoldsLock
<1>11. ASSUME NEW w \in Workers, TakeToken(w)
       PROVE  LockInv'
  BY <1>11, LockMove DEF TakeToken, WorkerPcs, HoldsLock
<1>12. ASSUME NEW w \in Workers, RecheckToken(w)
       PROVE  LockInv'
  <2>1. Release(w) /\ \E to \in {"loop", "quota"} : Goto(w, "recheck", to)
    BY <1>12 DEF RecheckToken
  <2> QED
    BY <2>1, LockMove DEF WorkerPcs, HoldsLock
<1>13. ASSUME NEW w \in Workers, SkipThrottle(w)
       PROVE  LockInv'
  BY <1>13, LockMove DEF SkipThrottle, WorkerPcs, HoldsLock
<1>14. ASSUME NEW w \in Workers, TakeQuota(w)
       PROVE  LockInv'
  <2>1. cLock' = cLock /\ \E to \in {"dead", "execute"} : Goto(w, "quota", to)
    BY <1>14 DEF TakeQuota
  <2> QED
    BY <2>1, LockMove DEF WorkerPcs, HoldsLock
<1>15. ASSUME NEW w \in Workers, ExecuteReturns(w)
       PROVE  LockInv'
  BY <1>15, LockMove DEF ExecuteReturns, WorkerPcs, HoldsLock
<1>16. ASSUME NEW w \in Workers, SpuriousWakeup(w)
       PROVE  LockInv'
  <2>1. \A v \in Workers : pc'[v] \in HoldsLock <=> pc[v] \in HoldsLock
    BY <1>16 DEF TypeOK, SpuriousWakeup, Notified, HoldsLock
  <2> QED
    BY <1>16, <2>1, LockStays DEF SpuriousWakeup
<1>17. CASE UNCHANGED vars
  BY <1>17, LockStays DEF vars
<1> QED
  BY <1>1, <1>2, <1>3, <1>4, <1>5, <1>6, <1>7, <1>8, <1>9, <1>10, <1>11, <1>12,
     <1>13, <1>14, <1>15, <1>16, <1>17, NextCases

LEMMA InitLockInv == Init => LockInv
BY ConstantsAssumption DEF ConstantsAssumption, Init, LockInv, HoldsLock

-----------------------------------------------------------------------------
(* The start barrier                                                       *)

\* Once the barrier is open, and once the first refill is made, they stay so.
LEMMA OpenFrame ==
    ASSUME [Next]_vars
    PROVE  (NotOpen' => NotOpen) /\ (NotFilled' => NotFilled)
BY NextCases
   DEF NotOpen, NotFilled, vars, CreateThread, Sleep, FirstRefill, OpenBarrier, Poll,
       Output, CheckStop, Refill, Exit, Tick, EnterBarrier, PreExecuteReturns,
       LeaveBarrier, EnterThrottle, CheckThrottle, ThrottleWaitReturns, TakeToken,
       RecheckToken, SkipThrottle, TakeQuota, ExecuteReturns, SpuriousWakeup

\* The part of BarrierInv that is about one thread.
BarrierInvOf(w) ==
    /\ pc[w] \in InLoop => w \notin preFailed
    /\ NotOpen /\ pc[w] \in InLoop \cup {"barrier_woken", "dead"} => spurious > 0
    /\ pc[w] \in {"none", "start", "pre"} => w \notin preFailed

\* A step of w inside the loop, or out of it at its end.
LEMMA LoopMove ==
    ASSUME TypeOK, BarrierInv, [Next]_vars,
           NEW w \in Workers, NEW from \in InLoop, NEW to \in InLoop \cup {"dead"},
           Goto(w, from, to),
           UNCHANGED <<preFailed, spurious>>
    PROVE  BarrierInv'
<1> SUFFICES ASSUME NEW v \in Workers
             PROVE  BarrierInvOf(v)'
  BY DEF BarrierInv, BarrierInvOf
<1>1. BarrierInvOf(v) /\ BarrierInvOf(w)
  BY DEF BarrierInv, BarrierInvOf
<1>2. CASE v = w
  BY <1>1, <1>2, OpenFrame DEF TypeOK, Goto, BarrierInvOf, InLoop
<1>3. CASE v # w
  BY <1>1, <1>3, OpenFrame DEF TypeOK, Goto, BarrierInvOf
<1> QED
  BY <1>2, <1>3

LEMMA NextBarrierInv ==
    ASSUME TypeOK, BarrierInv, [Next]_vars
    PROVE  BarrierInv'
<1>1. ASSUME NEW w \in Workers, CreateThread(w)
      PROVE  BarrierInv'
  BY <1>1, OpenFrame DEF TypeOK, BarrierInv, CreateThread, history, InLoop
<1>2. CASE Sleep \/ FirstRefill \/ Poll \/ Output \/ CheckStop \/ Exit \/ Tick
  BY <1>2, OpenFrame
     DEF BarrierInv, Sleep, FirstRefill, Poll, Output, CheckStop, Exit, Tick, history
<1>3. CASE OpenBarrier
  BY <1>3 DEF TypeOK, BarrierInv, OpenBarrier, Broadcast, Notified, NotOpen,
              InLoop, history
<1>4. CASE Refill
  BY <1>4 DEF TypeOK, BarrierInv, Refill, Broadcast, Notified, NotOpen, InLoop
<1>5. ASSUME NEW w \in Workers, EnterBarrier(w)
      PROVE  BarrierInv'
  BY <1>5, OpenFrame DEF TypeOK, BarrierInv, EnterBarrier, Goto, InLoop, history
<1>6. ASSUME NEW w \in Workers, PreExecuteReturns(w)
      PROVE  BarrierInv'
  BY <1>6, OpenFrame DEF TypeOK, BarrierInv, PreExecuteReturns, Goto, InLoop, history
<1>7. ASSUME NEW w \in Workers, LeaveBarrier(w)
      PROVE  BarrierInv'
  BY <1>7, OpenFrame DEF TypeOK, BarrierInv, LeaveBarrier, Goto, InLoop, history
<1>8. ASSUME NEW w \in Workers, EnterThrottle(w)
      PROVE  BarrierInv'
  BY <1>8, LoopMove DEF EnterThrottle, InLoop, history
<1>9. ASSUME NEW w \in Workers, CheckThrottle(w)
      PROVE  BarrierInv'
  BY <1>9, LoopMove DEF CheckThrottle, InLoop, history
<1>10. ASSUME NEW w \in Workers, ThrottleWaitReturns(w)
       PROVE  BarrierInv'
  BY <1>10, LoopMove DEF ThrottleWaitReturns, InLoop, history
<1>11. ASSUME NEW w \in Workers, TakeToken(w)
       PROVE  BarrierInv'
  BY <1>11, LoopMove DEF TakeToken, InLoop, history
<1>12. ASSUME NEW w \in Workers, RecheckToken(w)
       PROVE  BarrierInv'
  BY <1>12, LoopMove DEF RecheckToken, InLoop
<1>13. ASSUME NEW w \in Workers, SkipThrottle(w)
       PROVE  BarrierInv'
  BY <1>13, LoopMove DEF SkipThrottle, InLoop, history
<1>14. ASSUME NEW w \in Workers, TakeQuota(w)
       PROVE  BarrierInv'
  BY <1>14, LoopMove DEF TakeQuota, InLoop
<1>15. ASSUME NEW w \in Workers, ExecuteReturns(w)
       PROVE  BarrierInv'
  BY <1>15, LoopMove DEF ExecuteReturns, InLoop
<1>16. ASSUME NEW w \in Workers, SpuriousWakeup(w)
       PROVE  BarrierInv'
  BY <1>16, OpenFrame DEF TypeOK, BarrierInv, SpuriousWakeup, Notified, InLoop
<1>17. CASE UNCHANGED vars
  BY <1>17, OpenFrame DEF BarrierInv, vars, history
<1> QED
  BY <1>1, <1>2, <1>3, <1>4, <1>5, <1>6, <1>7, <1>8, <1>9, <1>10, <1>11, <1>12,
     <1>13, <1>14, <1>15, <1>16, <1>17, NextCases

LEMMA InitBarrierInv == Init => BarrierInv
BY DEF Init, BarrierInv, InLoop

\* No thread sends before the barrier opens, unless a wait returned unprompted, and
\* none sends whose PreExecute failed.
THEOREM StartBarrierIsKept == Spec => []StartBarrierHolds
<1>1. TypeOK /\ BarrierInv => StartBarrierHolds
  BY DEF TypeOK, BarrierInv, StartBarrierHolds, NotOpen
<1>2. TypeOK /\ BarrierInv /\ [Next]_vars => BarrierInv'
  BY NextBarrierInv
<1> QED
  BY <1>1, <1>2, InitBarrierInv, TypeCorrect, PTL DEF Spec

-----------------------------------------------------------------------------
(* The throttle                                                            *)

\* What a step must leave alone for the throttle not to notice it.  That it may
\* be a spurious wakeup only gives more slack.
LEMMA ThrottleStays ==
    ASSUME TypeOK, ThrottleInv, cFrequenceConst' = cFrequenceConst,
           UNCHANGED <<window, cFrequence, unlockedRefill>>,
           spurious' \in Nat, spurious' >= spurious,
           NotFilled' <=> NotFilled,
           AtRecheck' => AtRecheck
    PROVE  ThrottleInv'
<1>1. cFrequenceConst \in Int
  BY ConstantsAssumption DEF ConstantsAssumption, TypeOK
<1>2. Slack \in Nat /\ Slack' \in Nat /\ Slack <= Slack'
  BY DEF TypeOK, Slack
<1>3. window \in Nat /\ cFrequence \in Int
  BY DEF TypeOK
<1>4. CASE NotFilled
  BY <1>4 DEF ThrottleInv
<1>5. CASE ~NotFilled
  <2> SUFFICES ASSUME cFrequenceConst > 0
               PROVE  ThrottleInv'
    BY DEF ThrottleInv
  <2>1. window - cFrequenceConst <= Slack'
    BY <1>1, <1>2, <1>3, <1>5 DEF ThrottleInv
  <2>2. ASSUME cFrequence >= 0
        PROVE  window + cFrequence - cFrequenceConst <= Slack'
    BY <1>1, <1>2, <1>3, <1>5, <2>2 DEF ThrottleInv
  <2>3. ASSUME cFrequence >= 0, AtRecheck
        PROVE  window + cFrequence + 1 - cFrequenceConst <= Slack'
    <3>1. window + cFrequence + 1 - cFrequenceConst <= Slack
      BY <1>5, <2>3 DEF ThrottleInv
    <3> QED
      BY <1>1, <1>2, <1>3, <3>1
  <2> QED
    BY <1>5, <2>1, <2>2, <2>3 DEF ThrottleInv
<1> QED
  BY <1>4, <1>5

\* A step of w to a place other than the double check.
LEMMA RecheckMove ==
    ASSUME TypeOK, NEW w \in Workers, NEW from, NEW to,
           Goto(w, from, to), to # "recheck"
    PROVE  AtRecheck' => AtRecheck
BY DEF TypeOK, AtRecheck, Goto

LEMMA RecheckBroadcast ==
    ASSUME TypeOK, Broadcast
    PROVE  AtRecheck' => AtRecheck
BY DEF TypeOK, AtRecheck, Broadcast, Notified

\* The holder of cLock is the only thread that can be at the double check.
LEMMA RecheckHolds ==
    ASSUME LockInv, NEW w \in Workers, pc[w] = "recheck"
    PROVE  cLock = w
BY DEF LockInv, HoldsLock

LEMMA NextThrottleInv ==
    ASSUME TypeOK, LockInv, BarrierInv, ThrottleInv, [Next]_vars, TypeOK'
    PROVE  ThrottleInv'
<1>1. cFrequenceConst \in Int /\ cFrequenceConst' = cFrequenceConst
  BY ConstantsAssumption, ConfigFrame DEF ConstantsAssumption, TypeOK
<1>2. Slack \in {0, 1}
  BY DEF Slack
<1>3. NoThread \notin Workers
  BY ConstantsAssumption DEF ConstantsAssumption
<1>4. ASSUME NEW w \in Workers, CreateThread(w)
      PROVE  ThrottleInv'
  <2>1. AtRecheck' => AtRecheck
    BY <1>4 DEF TypeOK, AtRecheck, CreateThread
  <2> QED
    BY <1>1, <1>4, <2>1, ThrottleStays DEF TypeOK, CreateThread, NotFilled, history
<1>5. CASE Sleep
  <2>1. CASE cFrequenceConst > 0
    BY <1>1, <1>5, <2>1, ThrottleStays DEF TypeOK, Sleep, NotFilled, AtRecheck, history
  <2>2. CASE ~(cFrequenceConst > 0)
    BY <1>1, <2>2 DEF ThrottleInv
  <2> QED
    BY <2>1, <2>2
<1>6. CASE FirstRefill
  <2> SUFFICES ASSUME cFrequenceConst > 0
               PROVE  ThrottleInv'
    BY <1>1 DEF ThrottleInv
  <2>1. window' = 0 /\ cFrequence' = cFrequenceConst /\ unlockedRefill' = TRUE /\ ~NotFilled'
    BY <1>6 DEF FirstRefill, ThrottleInv, NotFilled, history
  <2>2. AtRecheck' => spurious' > 0
    BY <1>6 DEF BarrierInv, FirstRefill, AtRecheck, NotOpen, InLoop, history
  <2>3. Slack' \in {0, 1} /\ (AtRecheck' => Slack' = 1)
    BY <2>1, <2>2 DEF Slack
  <2>4. /\ window' - cFrequenceConst' <= Slack'
        /\ window' + cFrequence' - cFrequenceConst' <= Slack'
    BY <1>1, <2>1, <2>3
  <2>5. Slack' = 1 => window' + cFrequence' + 1 - cFrequenceConst' <= Slack'
    BY <1>1, <2>1
  <2> QED
    BY <2>1, <2>3, <2>4, <2>5 DEF ThrottleInv
<1>7. CASE OpenBarrier
  BY <1>1, <1>7, ThrottleStays, RecheckBroadcast
     DEF TypeOK, OpenBarrier, NotFilled, history
<1>8. CASE Poll \/ CheckStop \/ Exit \/ Tick
  BY <1>1, <1>8, ThrottleStays
     DEF TypeOK, Poll, CheckStop, Exit, Tick, NotFilled, AtRecheck, history
<1>9. CASE Output
  BY <1>1, <1>9, ThrottleStays DEF TypeOK, Output, NotFilled, AtRecheck
<1>10. CASE Refill
  <2>1. ~AtRecheck
    BY <1>3, <1>10, RecheckHolds DEF Refill, AtRecheck
  <2>2. ~AtRecheck'
    BY <1>10, <2>1, RecheckBroadcast DEF Refill
  <2>3. window' = 0 /\ cFrequence' = cFrequenceConst /\ ~NotFilled' /\ Slack' = 0
    BY <1>10 DEF Refill, NotFilled, Slack
  <2> QED
    BY <1>1, <2>2, <2>3 DEF ThrottleInv
<1>11. ASSUME NEW w \in Workers,
              \/ EnterBarrier(w) \/ PreExecuteReturns(w) \/ LeaveBarrier(w)
              \/ EnterThrottle(w) \/ CheckThrottle(w) \/ ThrottleWaitReturns(w)
              \/ SkipThrottle(w) \/ TakeQuota(w) \/ ExecuteReturns(w)
       PROVE  ThrottleInv'
  <2>1. AtRecheck' => AtRecheck
    BY <1>11, RecheckMove
       DEF EnterBarrier, PreExecuteReturns, LeaveBarrier, EnterThrottle, CheckThrottle,
           ThrottleWaitReturns, SkipThrottle, TakeQuota, ExecuteReturns
  <2>2. UNCHANGED <<window, cFrequence, unlockedRefill, spurious, main>>
    BY <1>11
       DEF EnterBarrier, PreExecuteReturns, LeaveBarrier, EnterThrottle, CheckThrottle,
           ThrottleWaitReturns, SkipThrottle, TakeQuota, ExecuteReturns, history
  <2> QED
    BY <1>1, <2>1, <2>2, ThrottleStays DEF TypeOK, NotFilled
<1>12. ASSUME NEW w \in Workers, TakeToken(w)
       PROVE  ThrottleInv'
  <2>1. cFrequence' = cFrequence - 1 /\ UNCHANGED <<window, Slack, NotFilled>>
    BY <1>12 DEF TakeToken, Slack, NotFilled, history
  <2>2. cFrequence \in Int /\ window \in Nat /\ unlockedRefill' = unlockedRefill
    BY <1>12 DEF TypeOK, TakeToken, history
  <2> QED
    BY <1>1, <1>2, <2>1, <2>2 DEF ThrottleInv
<1>13. ASSUME NEW w \in Workers, RecheckToken(w)
       PROVE  ThrottleInv'
  <2>1. AtRecheck
    BY <1>13 DEF RecheckToken, Goto, AtRecheck
  <2>2. ~AtRecheck'
    <3> SUFFICES ASSUME NEW v \in Workers, pc'[v] = "recheck"
                 PROVE  FALSE
      BY DEF AtRecheck
    <3>1. pc[w] = "recheck" /\ pc'[w] # "recheck"
      BY <1>13 DEF TypeOK, RecheckToken, Goto
    <3>2. pc[v] = "recheck"
      BY <1>13, <3>1 DEF TypeOK, RecheckToken, Goto
    <3> QED
      BY <3>1, <3>2, RecheckHolds
  <2>3. UNCHANGED <<cFrequence, Slack, NotFilled, unlockedRefill>>
    BY <1>13 DEF RecheckToken, Slack, NotFilled
  <2>4. \/ cFrequence < 0 /\ window' = window
        \/ cFrequence >= 0 /\ window' = window + 1
    BY <1>13 DEF RecheckToken
  <2>5. cFrequence \in Int /\ window \in Nat
    BY DEF TypeOK
  <2> QED
    BY <1>1, <1>2, <2>1, <2>2, <2>3, <2>4, <2>5 DEF ThrottleInv
<1>14. ASSUME NEW w \in Workers, SpuriousWakeup(w)
       PROVE  ThrottleInv'
  <2>1. AtRecheck' => AtRecheck
    BY <1>14 DEF TypeOK, AtRecheck, SpuriousWakeup, Notified
  <2> QED
    BY <1>1, <1>14, <2>1, ThrottleStays DEF TypeOK, SpuriousWakeup, NotFilled
<1>15. CASE UNCHANGED vars
  BY <1>1, <1>15, ThrottleStays DEF TypeOK, vars, NotFilled, AtRecheck, history
<1> QED
  BY <1>4, <1>5, <1>6, <1>7, <1>8, <1>9, <1>10, <1>11, <1>12, <1>13, <1>14, <1>15,
     NextCases

LEMMA InitThrottleInv == Init => ThrottleInv
BY DEF Init, ThrottleInv, NotFilled, AtRecheck

\* Every second at most cFrequenceConst threads get a token, and in the first at
\* most one more, if a wait returned unprompted.
THEOREM ThrottleIsKept == Spec => []ThrottleHolds
<1>1. TypeOK /\ ThrottleInv => ThrottleHolds
  <2> SUFFICES ASSUME TypeOK, ThrottleInv, cFrequenceConst > 0
               PROVE  window <= cFrequenceConst + Slack
    BY DEF ThrottleHolds, Slack
  <2>1. cFrequenceConst \in Int /\ Slack \in {0, 1} /\ window \in Nat
    BY ConstantsAssumption DEF ConstantsAssumption, TypeOK, Slack
  <2>2. window - cFrequenceConst <= Slack
    BY <2>1 DEF ThrottleInv
  <2>3. CASE Slack = 0
    BY <2>1, <2>2, <2>3
  <2>4. CASE Slack = 1
    BY <2>1, <2>2, <2>4
  <2> QED
    BY <2>1, <2>3, <2>4
<1>2. TypeOK /\ LockInv /\ [Next]_vars => LockInv'
  BY NextLockInv
<1>3. TypeOK /\ BarrierInv /\ [Next]_vars => BarrierInv'
  BY NextBarrierInv
<1>4. TypeOK /\ LockInv /\ BarrierInv /\ ThrottleInv /\ [Next]_vars /\ TypeOK'
         => ThrottleInv'
  BY NextThrottleInv
<1> QED
  BY <1>1, <1>2, <1>3, <1>4, InitLockInv, InitBarrierInv, InitThrottleInv,
     TypeCorrect, PTL DEF Spec

-----------------------------------------------------------------------------
(* The request budget                                                      *)

\* A step of a thread that neither begins nor ends a request.
LEMMA BusyMove ==
    ASSUME TypeOK, NEW w \in Workers, NEW from, NEW to,
           Goto(w, from, to), from # "execute", to # "execute"
    PROVE  Busy' = Busy
BY DEF TypeOK, Goto, Busy

LEMMA BusyBroadcast ==
    ASSUME TypeOK, Broadcast
    PROVE  Busy' = Busy
BY DEF TypeOK, Broadcast, Notified, Busy

\* Only TakeQuota, ExecuteReturns and Exit show in the budget.
LEMMA BusyFrame ==
    ASSUME TypeOK, [Next]_vars
    PROVE  \/ \E w \in Workers : TakeQuota(w) \/ ExecuteReturns(w)
           \/ Busy' = Busy
<1>1. ASSUME NEW w \in Workers, CreateThread(w)
      PROVE  Busy' = Busy
  BY <1>1 DEF TypeOK, CreateThread, Busy
<1>2. CASE \/ Sleep \/ FirstRefill \/ Poll \/ Output \/ CheckStop \/ Exit \/ Tick
           \/ UNCHANGED vars
  BY <1>2 DEF Sleep, FirstRefill, Poll, Output, CheckStop, Exit, Tick, vars, Busy
<1>3. CASE OpenBarrier \/ Refill
  BY <1>3, BusyBroadcast DEF OpenBarrier, Refill
<1>4. ASSUME NEW w \in Workers,
             \/ EnterBarrier(w) \/ PreExecuteReturns(w) \/ LeaveBarrier(w)
             \/ EnterThrottle(w) \/ CheckThrottle(w) \/ ThrottleWaitReturns(w)
             \/ TakeToken(w) \/ RecheckToken(w) \/ SkipThrottle(w)
      PROVE  Busy' = Busy
  BY <1>4, BusyMove
     DEF EnterBarrier, PreExecuteReturns, LeaveBarrier, EnterThrottle, CheckThrottle,
         ThrottleWaitReturns, TakeToken, RecheckToken, SkipThrottle
<1>5. ASSUME NEW w \in Workers, SpuriousWakeup(w)
      PROVE  Busy' = Busy
  BY <1>5 DEF TypeOK, SpuriousWakeup, Notified, Busy
<1> QED
  BY <1>1, <1>2, <1>3, <1>4, <1>5, NextCases

LEMMA OutcomeFrame ==
    ASSUME [Next]_vars
    PROVE  Exit \/ Outcome' = Outcome
BY NextCases
   DEF Outcome, vars, CreateThread, Sleep, FirstRefill, OpenBarrier, Poll, Output,
       CheckStop, Refill, Tick, EnterBarrier, PreExecuteReturns, LeaveBarrier,
       EnterThrottle, CheckThrottle, ThrottleWaitReturns, TakeToken, RecheckToken,
       SkipThrottle, TakeQuota, ExecuteReturns, SpuriousWakeup

\* Beginning a request draws on what is left of the quota; missing it does not show.
LEMMA TakeQuotaRefines ==
    ASSUME TypeOK, NEW w \in Workers, TakeQuota(w)
    PROVE  Budget!Start(w) \/ UNCHANGED Budget!budgetVars
<1>1. cRepeatCountConst \in Int /\ cRepeatCount \in Int
  BY ConstantsAssumption DEF ConstantsAssumption, TypeOK
<1>2. UNCHANGED cDurationTime /\ Outcome = "running" /\ Outcome' = Outcome
  BY DEF TakeQuota, config, Running, Stopped, Outcome
<1>3. CASE Counts /\ ~QuotaLeft
  <2>1. Goto(w, "quota", "dead") /\ cRepeatCount' = cRepeatCount - 1
    BY <1>3 DEF TakeQuota
  <2>2. Busy' = Busy
    BY <2>1, BusyMove
  <2>3. Left = 0 /\ Left' = 0
    BY <1>1, <1>3, <2>1 DEF TakeQuota, config, Counts, QuotaLeft, Left
  <2> QED
    BY <1>2, <2>2, <2>3 DEF Budget!budgetVars
<1>4. CASE Counts => QuotaLeft
  <2>1. Goto(w, "quota", "execute")
    BY <1>4 DEF TakeQuota
  <2>2. w \notin Busy /\ Busy' = Busy \cup {w}
    BY <2>1 DEF TypeOK, Goto, Busy
  <2>3. CASE Counts
    <3>1. Left > 0 /\ Left' = Left - 1
      BY <1>1, <1>4, <2>3 DEF TakeQuota, config, Counts, QuotaLeft, Left
    <3> QED
      BY <1>2, <2>2, <3>1 DEF Budget!Start
  <2>4. CASE ~Counts
    <3>1. Left = -1 /\ Left' = Left
      BY <1>1, <2>4 DEF TakeQuota, config, Counts, Left
    <3> QED
      BY <1>2, <2>2, <3>1 DEF Budget!Start, Budget!Unlimited
  <2> QED
    BY <2>3, <2>4
<1> QED
  BY <1>3, <1>4

LEMMA ExecuteReturnsRefines ==
    ASSUME TypeOK, NEW w \in Workers, ExecuteReturns(w)
    PROVE  Budget!Finish(w)
<1>1. UNCHANGED <<cDurationTime, Left, Outcome>> /\ Outcome = "running"
  BY DEF ExecuteReturns, config, Running, Stopped, Left, Outcome
<1>2. w \in Busy /\ Busy' = Busy \ {w}
  BY DEF TypeOK, ExecuteReturns, Goto, Busy
<1> QED
  BY <1>1, <1>2 DEF Budget!Finish

LEMMA ExitRefines ==
    ASSUME TypeOK, ExitInv, Exit
    PROVE  Budget!End
<1>1. UNCHANGED <<cDurationTime, Left, Busy>> /\ Outcome = "running"
  BY DEF Exit, config, Left, Busy, Outcome
<1>2. CASE main = "abort"
  <2>1. Outcome' = "aborted"
    BY <1>2 DEF Exit, Outcome
  <2> QED
    BY <1>1, <2>1 DEF Budget!End
<1>3. CASE main = "exit"
  <2>1. Outcome' = "finished"
    BY <1>3 DEF Exit, Outcome
  <2>2. cRepeatCountConst \in Int /\ cRepeatCount \in Int
    BY ConstantsAssumption DEF ConstantsAssumption, TypeOK
  <2>3. Left = 0 \/ cDurationTime > 0
    BY <1>3, <2>2 DEF ExitInv, QuotaReached, TimeIsUp, Left
  <2> QED
    BY <1>1, <2>1, <2>3 DEF Budget!End
<1> QED
  BY <1>2, <1>3 DEF Exit

LEMMA InitRefines == Init => Budget!BudgetInit
<1> SUFFICES ASSUME Init
             PROVE  Budget!BudgetInit
  OBVIOUS
<1>1. cRepeatCountConst \in Int
  BY ConstantsAssumption DEF ConstantsAssumption, Init
<1>2. Left \in {r \in RepeatCounts : r > 0} \cup {-1}
  BY <1>1 DEF Init, Left
<1>3. Busy = {} /\ Outcome = "running"
  BY DEF Init, Busy, Outcome
<1> QED
  BY <1>2, <1>3 DEF Budget!BudgetInit, Budget!Unlimited

LEMMA NextRefines ==
    ASSUME TypeOK, ExitInv, [Next]_vars
    PROVE  [Budget!BudgetNext]_(Budget!budgetVars)
<1>1. CASE \E w \in Workers : TakeQuota(w)
  BY <1>1, TakeQuotaRefines DEF Budget!BudgetNext
<1>2. CASE \E w \in Workers : ExecuteReturns(w)
  BY <1>2, ExecuteReturnsRefines DEF Budget!BudgetNext
<1>3. CASE Exit
  BY <1>3, ExitRefines DEF Budget!BudgetNext
<1>4. CASE Busy' = Busy /\ Outcome' = Outcome /\ cRepeatCount' = cRepeatCount
  BY <1>4, ConfigFrame DEF Left, Budget!budgetVars
<1> QED
  BY <1>1, <1>2, <1>3, <1>4, BusyFrame, OutcomeFrame, QuotaFrame

\* The scheduler implements the request budget, for any number of threads: nothing
\* a thread or Run does is more than starting a request that the budget still has,
\* ending one, or ending the test for a reason it may end for.
THEOREM LoadBudgetIsImplemented == Spec => ImplementsLoadBudget
<1>1. TypeOK /\ QuotaInv /\ [Next]_vars => QuotaInv'
  BY NextQuotaInv
<1>2. TypeOK /\ QuotaInv /\ ExitInv /\ [Next]_vars => ExitInv'
  BY NextExitInv
<1>3. TypeOK /\ ExitInv /\ [Next]_vars => [Budget!BudgetNext]_(Budget!budgetVars)
  BY NextRefines
<1> QED
  BY <1>1, <1>2, <1>3, InitQuotaInv, InitExitInv, InitRefines, TypeCorrect, PTL
     DEF Spec, ImplementsLoadBudget, Budget!BudgetSpec

-----------------------------------------------------------------------------
\* Every part of the inductive invariant at once.
THEOREM Invariance == Spec => []IInv
<1>1. Init => IInv
  BY InitTypeOK, InitLockInv, InitQuotaInv, InitFloorInv, InitExitInv,
     InitBarrierInv, InitThrottleInv DEF IInv
<1>2. IInv /\ [Next]_vars => IInv'
  <2> SUFFICES ASSUME IInv, [Next]_vars
               PROVE  IInv'
    OBVIOUS
  <2>1. TypeOK' /\ LockInv' /\ QuotaInv' /\ FloorInv' /\ ExitInv' /\ BarrierInv'
    BY NextTypeOK, NextLockInv, NextQuotaInv, NextFloorInv, NextExitInv,
       NextBarrierInv DEF IInv
  <2>2. ThrottleInv'
    BY <2>1, NextThrottleInv DEF IInv
  <2> QED
    BY <2>1, <2>2 DEF IInv
<1> QED
  BY <1>1, <1>2, PTL DEF Spec
=============================================================================
