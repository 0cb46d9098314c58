-------------------------- MODULE ThreadPoolProofs --------------------------
(***************************************************************************)
(* Proofs about ThreadPool, for any number of threads and jobs: it         *)
(* implements JobPool, and what waitForAllDone can miss.  Liveness is left *)
(* to TLC.                                                                 *)
(***************************************************************************)
EXTENDS ThreadPool, FiniteSetTheorems, SequenceTheorems, TLAPS

\* A loop over the threads has seen to the threads before its target.
CallInv ==
    /\ control = "idle" => target = 1
    /\ control = "clearing" => target = 1 /\ \A w \in Workers : pc[w] = "none"
    /\ control = "joining" => target <= Threads
    /\ control \in {"stopping", "joining"} =>
         \A w \in Workers : w < target => pc[w] = "none"

\* _busthread has the threads that run a job or have not put it down.
BusyInv == busthread = {w \in Workers : pc[w] \in {"run", "idle"}}

\* A thread ends only when it is told to.
ExitInv == \A w \in Workers : pc[w] = "exit" => w \in terminate

\* The jobs in the queue are in the order of their numbers; those taken from it have
\* lower ones and are held by one worker each.
QueueInv ==
    /\ \A i \in DOMAIN jobqueue : jobqueue[i] <= issued
    /\ \A i, k \in DOMAIN jobqueue : i < k => jobqueue[i] < jobqueue[k]
    /\ \A w \in Workers : pc[w] \in Holding =>
         job[w] <= issued /\ \A i \in DOMAIN jobqueue : job[w] < jobqueue[i]
    /\ \A v, w \in Workers :
         pc[v] \in Holding /\ pc[w] \in Holding /\ v # w => job[v] # job[w]

\* What is in the queue after waitForAllDone found it empty was added since.
WaitInv ==
    /\ seen <= issued
    /\ waiter = "busthread" => \A i \in DOMAIN jobqueue : jobqueue[i] > seen

IInv == TypeOK /\ CallInv /\ BusyInv /\ ExitInv /\ QueueInv /\ WaitInv

\* The invariant holds of a pool that was not started yet.
LEMMA InitIInv == Init => IInv
<1> SUFFICES ASSUME Init
             PROVE  IInv
  OBVIOUS
<1> USE ThreadPoolAssumption DEF ThreadPoolAssumption, Workers, Jobs, Holding
<1>1. TypeOK
  <2>1. jobqueue \in Seq(Jobs)
    BY EmptySeq DEF Init
  <2>2. pc \in [Workers -> {"none"}] /\ job \in [Workers -> {0}]
    BY DEF Init
  <2>3. 1 \in 1 .. (Threads + 1) /\ 0 \in 0 .. MaxJobs
    OBVIOUS
  <2> HIDE ThreadPoolAssumption DEF ThreadPoolAssumption, Workers, Jobs
  <2> QED
    BY <2>1, <2>2, <2>3 DEF Init, TypeOK
<1>2. CallInv
  BY DEF Init, CallInv
<1>3. BusyInv
  BY DEF Init, BusyInv
<1>4. ExitInv
  BY DEF Init, ExitInv
<1>5. DOMAIN jobqueue = {}
  BY DEF Init
<1>6. QueueInv
  BY <1>5 DEF Init, QueueInv
<1>7. WaitInv
  BY <1>5 DEF Init, WaitInv
<1> QED
  BY <1>1, <1>2, <1>3, <1>4, <1>6, <1>7 DEF IInv

\* What pop_front leaves: a job less in the queue and in the hands of the worker, or
\* nothing changed.
LEMMA Popped ==
    ASSUME TypeOK, NEW w \in Workers, pc[w] \in {"pop", "wait"}, PopFront(w)
    PROVE  \/ /\ jobqueue = <<>> /\ UNCHANGED <<jobqueue, job>>
              /\ pc' = [pc EXCEPT ![w] = "loop"]
           \/ /\ jobqueue # <<>> /\ jobqueue' \in Seq(Jobs) /\ jobqueue[1] \in Jobs
              /\ 1 \in DOMAIN jobqueue
              /\ \A i \in DOMAIN jobqueue' :
                    /\ i \in Nat \ {0} /\ i + 1 \in DOMAIN jobqueue
                    /\ jobqueue'[i] = jobqueue[i + 1] /\ jobqueue[i + 1] \in Jobs
              /\ job' = [job EXCEPT ![w] = jobqueue[1]]
              /\ jobqueue' = Tail(jobqueue) /\ jobqueue[1] = Head(jobqueue)
              /\ pc' = [pc EXCEPT ![w] = "taken"]
<1>1. CASE jobqueue = <<>>
  BY <1>1 DEF PopFront, Goto
<1>2. CASE jobqueue # <<>>
  <2>1. jobqueue \in Seq(Jobs)
    BY DEF TypeOK
  <2>2. /\ Len(jobqueue) \in Nat /\ Len(jobqueue) # 0
        /\ DOMAIN jobqueue = 1 .. Len(jobqueue)
    BY <1>2, <2>1, LenProperties, EmptySeq
  <2>3. /\ Head(jobqueue) = jobqueue[1] /\ Tail(jobqueue) \in Seq(Jobs)
        /\ Len(Tail(jobqueue)) = Len(jobqueue) - 1
        /\ \A i \in 1 .. Len(Tail(jobqueue)) : Tail(jobqueue)[i] = jobqueue[i + 1]
    BY <1>2, <2>1, HeadTailProperties
  <2>4. \A i \in 1 .. Len(jobqueue) : jobqueue[i] \in Jobs
    BY <2>1, <2>2, ElementOfSeq
  <2>5. DOMAIN Tail(jobqueue) = 1 .. Len(Tail(jobqueue))
    BY <2>3, LenProperties
  <2>6. jobqueue' = Tail(jobqueue) /\ job' = [job EXCEPT ![w] = jobqueue[1]]
    BY <1>2, <2>3 DEF PopFront
  <2>7. pc' = [pc EXCEPT ![w] = "taken"]
    BY <1>2 DEF PopFront, Goto
  <2>8. \A i \in 1 .. Len(Tail(jobqueue)) : i \in Nat \ {0} /\ i + 1 \in 1 .. Len(jobqueue)
    BY <2>2, <2>3
  <2>9. 1 \in 1 .. Len(jobqueue)
    BY <2>2
  <2> QED
    BY <1>2, <2>2, <2>3, <2>4, <2>5, <2>6, <2>7, <2>8, <2>9
<1> QED
  BY <1>1, <1>2

\* What exec leaves: the job with the next number at the end.
LEMMA Added ==
    ASSUME TypeOK, exec
    PROVE  /\ issued \in Nat /\ issued' = issued + 1 /\ issued' \in Jobs
           /\ jobqueue' \in Seq(Jobs)
           /\ \A i \in DOMAIN jobqueue' :
                 \/ i \in DOMAIN jobqueue /\ jobqueue'[i] = jobqueue[i] /\ jobqueue[i] \in Jobs
                 \/ jobqueue'[i] = issued + 1 /\ \A k \in DOMAIN jobqueue' : k <= i
           /\ \A i \in DOMAIN jobqueue' : i \in Nat
<1>1. jobqueue \in Seq(Jobs) /\ issued \in 0 .. MaxJobs /\ MaxJobs \in Nat
  BY ThreadPoolAssumption DEF TypeOK, ThreadPoolAssumption
<1>2. /\ issued \in Nat /\ issued' = issued + 1 /\ issued + 1 \in Jobs
      /\ jobqueue' = Append(jobqueue, issued + 1)
  BY <1>1 DEF exec, Jobs
<1>3. /\ Append(jobqueue, issued + 1) \in Seq(Jobs)
      /\ Len(Append(jobqueue, issued + 1)) = Len(jobqueue) + 1
      /\ \A i \in 1 .. Len(jobqueue) : Append(jobqueue, issued + 1)[i] = jobqueue[i]
      /\ Append(jobqueue, issued + 1)[Len(jobqueue) + 1] = issued + 1
  BY <1>1, <1>2, AppendProperties
<1>4. /\ Len(jobqueue) \in Nat /\ DOMAIN jobqueue = 1 .. Len(jobqueue)
      /\ DOMAIN Append(jobqueue, issued + 1) = 1 .. (Len(jobqueue) + 1)
  BY <1>1, <1>3, LenProperties
<1>5. \A i \in 1 .. Len(jobqueue) : jobqueue[i] \in Jobs
  BY <1>1, <1>4, ElementOfSeq
<1>6. ASSUME NEW i \in DOMAIN jobqueue'
      PROVE  /\ i \in Nat
             /\ \/ i \in DOMAIN jobqueue /\ jobqueue'[i] = jobqueue[i] /\ jobqueue[i] \in Jobs
                \/ jobqueue'[i] = issued + 1 /\ \A k \in DOMAIN jobqueue' : k <= i
  <2>1. DOMAIN jobqueue' = 1 .. (Len(jobqueue) + 1)
    BY <1>2, <1>4
  <2>2. i \in Nat /\ (i \in 1 .. Len(jobqueue) \/ i = Len(jobqueue) + 1)
    BY <1>4, <2>1
  <2>3. CASE i \in 1 .. Len(jobqueue)
    BY <1>2, <1>3, <1>4, <1>5, <2>2, <2>3
  <2>4. CASE i = Len(jobqueue) + 1
    <3>1. \A k \in DOMAIN jobqueue' : k <= i
      BY <1>4, <2>1, <2>4
    <3>2. jobqueue'[i] = issued + 1
      BY <1>2, <1>3, <2>4
    <3> QED
      BY <2>2, <3>1, <3>2
  <2> QED
    BY <2>2, <2>3, <2>4
<1> QED
  BY <1>2, <1>3, <1>6

\* The loops of start and stop see to every thread.
LEMMA NextCallInv ==
    ASSUME TypeOK, CallInv, [Next]_vars
    PROVE  CallInv'
<1> USE DEF CallInv, queues, threads, controlling, waiting, history
<1>1. CASE exec \/ CallStart
  BY <1>1 DEF exec, CallStart
<1>2. CASE FinishStart
  BY <1>2 DEF FinishStart
<1>3. CASE CallStop
  BY <1>3, ThreadPoolAssumption DEF CallStop, Workers, ThreadPoolAssumption
<1>4. CASE StartThread
  BY <1>4 DEF StartThread, TypeOK, isAlive
<1>5. CASE StopThread
  BY <1>5, ThreadPoolAssumption DEF StopThread, isAlive, TypeOK, Workers,
     ThreadPoolAssumption
<1>6. CASE Join
  BY <1>6, ThreadPoolAssumption DEF Join, isAlive, TypeOK, Workers, ThreadPoolAssumption
<1>7. CASE FinishStop
  BY <1>7, ThreadPoolAssumption DEF FinishStop, TypeOK, Workers, ThreadPoolAssumption
<1>8. CASE Clear
  BY <1>8 DEF Clear
<1>9. CASE CallWait \/ CheckStartqueue \/ CheckJobqueue \/ CheckBusthread \/ WaitTimeout
           \/ WakeUp
  BY <1>9 DEF CallWait, CheckStartqueue, CheckJobqueue, CheckBusthread, WaitTimeout, WakeUp
<1>10. ASSUME NEW w \in Workers,
              Begin(w) \/ InitReturns(w) \/ CheckTerminate(w) \/ Pop(w) \/
                PopEmpty(w) \/ Wake(w) \/ PopTimeout(w) \/ Insert(w) \/ JobReturns(w)
                \/ idle(w) \/ exit(w)
      PROVE  CallInv'
  <2>1. pc[w] # "none"
    BY <1>10 DEF Begin, InitReturns, CheckTerminate, Pop, PopEmpty, Wake, PopTimeout,
       Insert, JobReturns, idle, exit
  <2>2. \A v \in Workers \ {w} : pc'[v] = pc[v]
    BY <1>10 DEF TypeOK, PopFront, Goto, Begin, InitReturns, CheckTerminate, Pop, PopEmpty,
       Wake, PopTimeout, Insert, JobReturns, idle, exit
  <2>3. UNCHANGED <<control, target>>
    BY <1>10 DEF PopFront, Begin, InitReturns, CheckTerminate, Pop, PopEmpty, Wake,
       PopTimeout, Insert, JobReturns, idle, exit
  <2> QED
    BY <2>1, <2>2, <2>3
<1>11. CASE UNCHANGED vars
  BY <1>11 DEF vars
<1> QED
  BY <1>1, <1>2, <1>3, <1>4, <1>5, <1>6, <1>7, <1>8, <1>9, <1>10, <1>11 DEF Next, Control,
     Waiter, Worker

\* Where the loops over the threads begin.
LEMMA First == 1 \in 1 .. (Threads + 1)
BY ThreadPoolAssumption DEF ThreadPoolAssumption

\* Every variable keeps its type.
LEMMA NextTypeOK ==
    ASSUME TypeOK, CallInv, [Next]_vars
    PROVE  TypeOK'
<1> USE DEF queues, threads, controlling, waiting, history
<1>1. CASE exec
  <2>1. jobqueue' \in Seq(Jobs) /\ issued' \in 0 .. MaxJobs
    BY <1>1, Added DEF Jobs
  <2> QED
    BY <1>1, <2>1 DEF exec, TypeOK
<1>2. CASE CallStart
  BY <1>2, ThreadPoolAssumption DEF CallStart, TypeOK, ThreadPoolAssumption
<1>3. CASE StartThread
  BY <1>3, ThreadPoolAssumption DEF StartThread, TypeOK, isAlive, Workers, Holding,
     ThreadPoolAssumption
<1>4. CASE FinishStart
  BY <1>4, First DEF FinishStart, TypeOK
<1>5. CASE CallStop \/ Clear
  BY <1>5 DEF CallStop, Clear, TypeOK
<1>6. CASE StopThread
  <2>1. target \in Workers /\ target + 1 \in 1 .. (Threads + 1)
    BY <1>6, ThreadPoolAssumption DEF StopThread, TypeOK, Workers, ThreadPoolAssumption
  <2> QED
    BY <1>6, <2>1 DEF StopThread, TypeOK
<1>7. CASE Join
  BY <1>7, ThreadPoolAssumption DEF Join, TypeOK, CallInv, ThreadPoolAssumption
<1>8. CASE FinishStop
  BY <1>8, First DEF FinishStop, TypeOK
<1>9. CASE CallWait \/ WaitTimeout \/ WakeUp
  BY <1>9 DEF CallWait, WaitTimeout, WakeUp, TypeOK
<1>10. CASE CheckStartqueue \/ CheckBusthread
  BY <1>10, ThreadPoolAssumption DEF CheckStartqueue, CheckBusthread, TypeOK, NotFinished,
     Return, ThreadPoolAssumption
<1>11. CASE CheckJobqueue
  BY <1>11, ThreadPoolAssumption DEF CheckJobqueue, TypeOK, NotFinished, Return,
     ThreadPoolAssumption
<1>12. ASSUME NEW w \in Workers,
              Begin(w) \/ InitReturns(w) \/ CheckTerminate(w) \/ PopEmpty(w) \/
                PopTimeout(w)
      PROVE  TypeOK'
  BY <1>12 DEF Begin, InitReturns, CheckTerminate, PopEmpty, PopTimeout, Goto, TypeOK,
     Holding
<1>13. ASSUME NEW w \in Workers, Pop(w) \/ Wake(w)
      PROVE  TypeOK'
  <2>1. pc[w] \in {"pop", "wait"} /\ PopFront(w)
    BY <1>13 DEF Pop, Wake
  <2>2. UNCHANGED <<startqueue, busthread, bAllDone, terminate, controlling, waiting, history>>
    BY <2>1 DEF PopFront
  <2>3. CASE jobqueue = <<>>
    <3>1. UNCHANGED <<jobqueue, job>> /\ pc' = [pc EXCEPT ![w] = "loop"]
      BY <2>1, <2>3, Popped
    <3> QED
      BY <2>1, <2>2, <3>1 DEF TypeOK, Holding
  <2>4. CASE jobqueue # <<>>
    <3>1. /\ jobqueue[1] \in Jobs /\ jobqueue' \in Seq(Jobs)
          /\ job' = [job EXCEPT ![w] = jobqueue[1]] /\ pc' = [pc EXCEPT ![w] = "taken"]
      BY <2>1, <2>4, Popped
    <3>2. jobqueue[1] # 0
      BY <3>1, ThreadPoolAssumption DEF Jobs, ThreadPoolAssumption
    <3> QED
      BY <2>2, <3>1, <3>2 DEF TypeOK, Holding
  <2> QED
    BY <2>3, <2>4
<1>14. ASSUME NEW w \in Workers, Insert(w)
      PROVE  TypeOK'
  BY <1>14 DEF Insert, Goto, TypeOK, Holding
<1>15. ASSUME NEW w \in Workers, JobReturns(w)
      PROVE  TypeOK'
  BY <1>15 DEF JobReturns, Goto, TypeOK, Holding
<1>16. ASSUME NEW w \in Workers, idle(w)
      PROVE  TypeOK'
  BY <1>16 DEF idle, Goto, TypeOK, Holding
<1>17. ASSUME NEW w \in Workers, exit(w)
      PROVE  TypeOK'
  BY <1>17, EmptySeq DEF exit, Goto, TypeOK, Holding
<1>18. CASE UNCHANGED vars
  BY <1>18 DEF vars, TypeOK
<1> QED
  BY <1>1, <1>2, <1>3, <1>4, <1>5, <1>6, <1>7, <1>8, <1>9, <1>10, <1>11, <1>12, <1>13,
     <1>14, <1>15, <1>16, <1>17, <1>18 DEF Next, Control, Waiter, Worker

\* _busthread follows the workers.
LEMMA NextBusyInv ==
    ASSUME TypeOK, CallInv, BusyInv, [Next]_vars
    PROVE  BusyInv'
<1> USE DEF BusyInv, queues, threads, controlling, waiting, history
<1>1. CASE exec \/ CallStart \/ FinishStart \/ CallStop \/ StopThread \/ Join \/ FinishStop
  BY <1>1 DEF exec, CallStart, FinishStart, CallStop, StopThread, Join, FinishStop
<1>2. CASE StartThread
  BY <1>2 DEF StartThread, isAlive, TypeOK
<1>3. CASE Clear
  BY <1>3 DEF Clear, CallInv
<1>4. CASE CallWait \/ CheckStartqueue \/ CheckJobqueue \/ CheckBusthread \/ WaitTimeout
           \/ WakeUp
  BY <1>4 DEF CallWait, CheckStartqueue, CheckJobqueue, CheckBusthread, WaitTimeout, WakeUp
<1>5. ASSUME NEW w \in Workers,
             Begin(w) \/ InitReturns(w) \/ CheckTerminate(w) \/ PopEmpty(w) \/
               PopTimeout(w) \/ exit(w)
      PROVE  BusyInv'
  BY <1>5 DEF Begin, InitReturns, CheckTerminate, PopEmpty, PopTimeout, exit, Goto, TypeOK
<1>6. ASSUME NEW w \in Workers, Pop(w) \/ Wake(w)
      PROVE  BusyInv'
  BY <1>6 DEF Pop, Wake, PopFront, Goto, TypeOK
<1>7. ASSUME NEW w \in Workers, Insert(w)
      PROVE  BusyInv'
  BY <1>7 DEF Insert, Goto, TypeOK
<1>8. ASSUME NEW w \in Workers, JobReturns(w)
      PROVE  BusyInv'
  BY <1>8 DEF JobReturns, Goto, TypeOK
<1>9. ASSUME NEW w \in Workers, idle(w)
      PROVE  BusyInv'
  BY <1>9 DEF idle, Goto, TypeOK
<1>10. CASE UNCHANGED vars
  BY <1>10 DEF vars
<1> QED
  BY <1>1, <1>2, <1>3, <1>4, <1>5, <1>6, <1>7, <1>8, <1>9, <1>10 DEF Next, Control, Waiter,
     Worker

\* Nothing takes the order to end back from a worker that runs.
LEMMA NextExitInv ==
    ASSUME TypeOK, CallInv, ExitInv, [Next]_vars
    PROVE  ExitInv'
<1> USE DEF ExitInv, queues, threads, controlling, waiting, history
<1>1. CASE exec \/ CallStart \/ FinishStart \/ CallStop \/ StopThread \/ Join \/ FinishStop
  BY <1>1 DEF exec, CallStart, FinishStart, CallStop, StopThread, Join, FinishStop
<1>2. CASE StartThread
  BY <1>2 DEF StartThread, isAlive, TypeOK
<1>3. CASE Clear
  BY <1>3 DEF Clear, CallInv
<1>4. CASE CallWait \/ CheckStartqueue \/ CheckJobqueue \/ CheckBusthread \/ WaitTimeout
           \/ WakeUp
  BY <1>4 DEF CallWait, CheckStartqueue, CheckJobqueue, CheckBusthread, WaitTimeout, WakeUp
<1>5. ASSUME NEW w \in Workers,
             Begin(w) \/ InitReturns(w) \/ CheckTerminate(w) \/ PopEmpty(w) \/
               PopTimeout(w) \/ exit(w)
      PROVE  ExitInv'
  BY <1>5 DEF Begin, InitReturns, CheckTerminate, PopEmpty, PopTimeout, exit, Goto, TypeOK
<1>6. ASSUME NEW w \in Workers, Pop(w) \/ Wake(w)
      PROVE  ExitInv'
  BY <1>6 DEF Pop, Wake, PopFront, Goto, TypeOK
<1>7. ASSUME NEW w \in Workers, Insert(w) \/ JobReturns(w) \/ idle(w)
      PROVE  ExitInv'
  BY <1>7 DEF Insert, JobReturns, idle, Goto, TypeOK
<1>8. CASE UNCHANGED vars
  BY <1>8 DEF vars
<1> QED
  BY <1>1, <1>2, <1>3, <1>4, <1>5, <1>6, <1>7, <1>8 DEF Next, Control, Waiter, Worker

\* A worker that takes a job takes the lowest there is.
LEMMA PopQueueInv ==
    ASSUME TypeOK, QueueInv, NEW w \in Workers, pc[w] \in {"pop", "wait"}, PopFront(w)
    PROVE  QueueInv'
<1>1. UNCHANGED issued /\ issued \in Nat
  BY DEF PopFront, history, TypeOK
<1>2. DOMAIN pc = Workers /\ job \in [Workers -> Nat]
  BY ThreadPoolAssumption DEF TypeOK, Jobs, ThreadPoolAssumption
<1>3. CASE jobqueue = <<>>
  <2>1. UNCHANGED <<jobqueue, job>> /\ pc' = [pc EXCEPT ![w] = "loop"]
    BY <1>3, Popped
  <2> QED
    BY <1>1, <1>2, <2>1 DEF QueueInv, Holding
<1>4. CASE jobqueue # <<>>
  <2>1. /\ 1 \in DOMAIN jobqueue /\ jobqueue[1] \in Jobs
        /\ \A i \in DOMAIN jobqueue' :
              /\ i \in Nat \ {0} /\ i + 1 \in DOMAIN jobqueue
              /\ jobqueue'[i] = jobqueue[i + 1] /\ jobqueue[i + 1] \in Jobs
        /\ job' = [job EXCEPT ![w] = jobqueue[1]] /\ pc' = [pc EXCEPT ![w] = "taken"]
    BY <1>4, Popped
  <2>2. \A i \in DOMAIN jobqueue' : jobqueue'[i] <= issued' /\ i # 0
    BY <1>1, <2>1 DEF QueueInv, TypeOK
  <2>3. \A i, k \in DOMAIN jobqueue' : i < k => jobqueue'[i] < jobqueue'[k]
    BY <2>1 DEF QueueInv
  <2>4. \A i \in DOMAIN jobqueue' : jobqueue[1] < jobqueue'[i]
    BY <2>1, <2>2 DEF QueueInv
  <2>5. jobqueue[1] <= issued'
    BY <1>1, <2>1 DEF QueueInv
  <2>6. job'[w] = jobqueue[1] /\ \A v \in Workers \ {w} : job'[v] = job[v] /\ pc'[v] = pc[v]
    BY <1>2, <2>1
  <2>7. \A v \in Workers : pc[v] \in Holding => job[v] < jobqueue[1] /\ job[v] <= issued'
    BY <1>1, <2>1 DEF QueueInv
  <2>8. \A v \in Workers : pc'[v] \in Holding =>
           job'[v] <= issued' /\ \A i \in DOMAIN jobqueue' : job'[v] < jobqueue'[i]
    <3>1. ASSUME NEW v \in Workers \ {w}, pc[v] \in Holding, NEW i \in DOMAIN jobqueue'
          PROVE  job[v] < jobqueue'[i]
      BY <2>1, <3>1 DEF QueueInv
    <3> QED
      BY <2>4, <2>5, <2>6, <2>7, <3>1
  <2>9. \A u, v \in Workers :
           pc'[u] \in Holding /\ pc'[v] \in Holding /\ u # v => job'[u] # job'[v]
    <3>1. \A v \in Workers : pc[v] \in Holding => job[v] # jobqueue[1]
      <4>1. \A v \in Workers : job[v] \in Nat
        BY <1>2
      <4>2. jobqueue[1] \in Nat
        BY <2>1 DEF Jobs
      <4> QED
        BY <2>7, <4>1, <4>2
    <3> QED
      BY <2>6, <3>1 DEF QueueInv
  <2> QED
    BY <2>2, <2>3, <2>8, <2>9 DEF QueueInv
<1> QED
  BY <1>3, <1>4

\* A job that is added has the highest number.
LEMMA ExecQueueInv ==
    ASSUME TypeOK, QueueInv, exec
    PROVE  QueueInv'
<1>1. /\ issued \in Nat /\ issued' = issued + 1
      /\ \A i \in DOMAIN jobqueue' :
            \/ i \in DOMAIN jobqueue /\ jobqueue'[i] = jobqueue[i] /\ jobqueue[i] \in Jobs
            \/ jobqueue'[i] = issued + 1 /\ \A k \in DOMAIN jobqueue' : k <= i
      /\ \A i \in DOMAIN jobqueue' : i \in Nat
  BY Added
<1>2. UNCHANGED <<pc, job>> /\ job \in [Workers -> Nat]
  BY ThreadPoolAssumption DEF exec, threads, TypeOK, Jobs, ThreadPoolAssumption
<1>3. \A i \in DOMAIN jobqueue : jobqueue[i] <= issued
  BY DEF QueueInv
<1>4. \A i \in DOMAIN jobqueue' : jobqueue'[i] <= issued'
  BY <1>1, <1>3 DEF Jobs
<1>5. \A i, k \in DOMAIN jobqueue' : i < k => jobqueue'[i] < jobqueue'[k]
  <2> SUFFICES ASSUME NEW i \in DOMAIN jobqueue', NEW k \in DOMAIN jobqueue', i < k
               PROVE  jobqueue'[i] < jobqueue'[k]
    OBVIOUS
  <2>1. i \in DOMAIN jobqueue /\ jobqueue'[i] = jobqueue[i] /\ jobqueue[i] \in Jobs
    BY <1>1
  <2>2. CASE k \in DOMAIN jobqueue /\ jobqueue'[k] = jobqueue[k]
    BY <2>1, <2>2 DEF QueueInv
  <2>3. CASE jobqueue'[k] = issued + 1
    BY <1>1, <1>3, <2>1, <2>3 DEF Jobs
  <2> QED
    BY <1>1, <2>2, <2>3
<1>6. ASSUME NEW w \in Workers, pc[w] \in Holding
      PROVE  job[w] <= issued + 1 /\ \A i \in DOMAIN jobqueue' : job[w] < jobqueue'[i]
  <2>1. job[w] <= issued /\ job[w] \in Nat
    BY <1>2, <1>6 DEF QueueInv
  <2>2. \A i \in DOMAIN jobqueue : job[w] < jobqueue[i]
    BY <1>6 DEF QueueInv
  <2> QED
    BY <1>1, <2>1, <2>2
<1> QED
  BY <1>1, <1>2, <1>4, <1>5, <1>6 DEF QueueInv

\* The order of the jobs is kept.
LEMMA NextQueueInv ==
    ASSUME TypeOK, QueueInv, [Next]_vars
    PROVE  QueueInv'
<1> USE DEF queues, threads, controlling, waiting, history
<1>1. CASE exec
  BY <1>1, ExecQueueInv
<1>2. CASE CallStart \/ FinishStart \/ CallStop \/ StopThread \/ Join \/ FinishStop \/ Clear
  BY <1>2 DEF CallStart, FinishStart, CallStop, StopThread, Join, FinishStop, Clear,
     QueueInv
<1>3. CASE StartThread
  BY <1>3 DEF StartThread, isAlive, TypeOK, QueueInv, Holding
<1>4. CASE CallWait \/ CheckStartqueue \/ CheckJobqueue \/ CheckBusthread \/ WaitTimeout
           \/ WakeUp
  BY <1>4 DEF CallWait, CheckStartqueue, CheckJobqueue, CheckBusthread, WaitTimeout, WakeUp,
     QueueInv
<1>5. ASSUME NEW w \in Workers,
             Begin(w) \/ InitReturns(w) \/ CheckTerminate(w) \/ PopEmpty(w) \/
               PopTimeout(w)
      PROVE  QueueInv'
  <2>1. UNCHANGED <<jobqueue, issued>>
    BY <1>5 DEF Begin, InitReturns, CheckTerminate, PopEmpty, PopTimeout
  <2>2. /\ \A v \in Workers : pc'[v] \in Holding => pc[v] \in Holding /\ job'[v] = job[v]
    BY <1>5 DEF Begin, InitReturns, CheckTerminate, PopEmpty, PopTimeout, Goto, TypeOK,
       Holding
  <2> QED
    BY <2>1, <2>2 DEF QueueInv
<1>6. ASSUME NEW w \in Workers, Pop(w) \/ Wake(w)
      PROVE  QueueInv'
  BY <1>6, PopQueueInv DEF Pop, Wake
<1>7. ASSUME NEW w \in Workers, Insert(w) \/ JobReturns(w) \/ idle(w)
      PROVE  QueueInv'
  <2>1. UNCHANGED <<jobqueue, issued>>
    BY <1>7 DEF Insert, JobReturns, idle
  <2>2. /\ \A v \in Workers : pc'[v] \in Holding => pc[v] \in Holding /\ job'[v] = job[v]
    BY <1>7 DEF Insert, JobReturns, idle, Goto, TypeOK, Holding
  <2> QED
    BY <2>1, <2>2 DEF QueueInv
<1>8. ASSUME NEW w \in Workers, exit(w)
      PROVE  QueueInv'
  <2>1. DOMAIN jobqueue' = {} /\ UNCHANGED issued
    BY <1>8 DEF exit
  <2>2. \A v \in Workers : pc'[v] \in Holding => pc[v] \in Holding /\ job'[v] = job[v]
    BY <1>8 DEF exit, Goto, TypeOK, Holding
  <2> QED
    BY <2>1, <2>2 DEF QueueInv
<1>9. CASE UNCHANGED vars
  BY <1>9 DEF vars, QueueInv
<1> QED
  BY <1>1, <1>2, <1>3, <1>4, <1>5, <1>6, <1>7, <1>8, <1>9 DEF Next, Control, Waiter, Worker

\* waitForAllDone has seen the jobs below those that are still queued.
LEMMA NextWaitInv ==
    ASSUME TypeOK, WaitInv, [Next]_vars
    PROVE  WaitInv'
<1> USE DEF queues, threads, controlling, waiting, history
<1> seen \in Nat /\ issued \in Nat
  BY DEF TypeOK
<1>1. CASE exec
  <2>1. UNCHANGED <<seen, waiter>>
    BY <1>1 DEF exec
  <2> QED
    BY <2>1, <1>1, Added DEF WaitInv
<1>2. CASE CallStart \/ StartThread \/ FinishStart \/ CallStop \/ StopThread \/ Join \/
           FinishStop \/ Clear
  BY <1>2 DEF CallStart, StartThread, FinishStart, CallStop, StopThread, Join, FinishStop,
     Clear, WaitInv
<1>3. CASE CallWait \/ WaitTimeout \/ WakeUp
  BY <1>3 DEF CallWait, WaitTimeout, WakeUp, WaitInv
<1>4. CASE CheckStartqueue \/ CheckBusthread
  BY <1>4 DEF CheckStartqueue, CheckBusthread, WaitInv, NotFinished, Return
<1>5. CASE CheckJobqueue
  BY <1>5 DEF CheckJobqueue, WaitInv, NotFinished, Return
<1>6. ASSUME NEW w \in Workers,
             Begin(w) \/ InitReturns(w) \/ CheckTerminate(w) \/ PopEmpty(w) \/
               PopTimeout(w) \/ Insert(w) \/ JobReturns(w) \/ idle(w)
      PROVE  WaitInv'
  BY <1>6 DEF Begin, InitReturns, CheckTerminate, PopEmpty, PopTimeout, Insert, JobReturns,
     idle, WaitInv
<1>7. ASSUME NEW w \in Workers, Pop(w) \/ Wake(w)
      PROVE  WaitInv'
  <2>1. pc[w] \in {"pop", "wait"} /\ PopFront(w)
    BY <1>7 DEF Pop, Wake
  <2>2. UNCHANGED <<seen, waiter, issued>>
    BY <2>1 DEF PopFront
  <2> QED
    BY <2>1, <2>2, Popped DEF WaitInv
<1>8. ASSUME NEW w \in Workers, exit(w)
      PROVE  WaitInv'
  BY <1>8 DEF exit, WaitInv
<1>9. CASE UNCHANGED vars
  BY <1>9 DEF vars, WaitInv
<1> QED
  BY <1>1, <1>2, <1>3, <1>4, <1>5, <1>6, <1>7, <1>8, <1>9 DEF Next, Control, Waiter, Worker

\* No step leaves the invariant.
LEMMA NextIInv == IInv /\ [Next]_vars => IInv'
BY NextTypeOK, NextCallInv, NextBusyInv, NextExitInv, NextQueueInv, NextWaitInv DEF IInv

-----------------------------------------------------------------------------
(* The refinement                                                          *)

\* As long as a thread has no job, fewer jobs are begun than there are threads.
LEMMA BegunIsBounded ==
    ASSUME NEW w \in Workers, pc[w] \notin {"taken", "run"}
    PROVE  Cardinality(Begun) < Threads
<1> DEFINE V == {v \in Workers : pc[v] \in {"taken", "run"}}
           f == [v \in V |-> job[v]]
<1>1. IsFiniteSet(Workers) /\ Cardinality(Workers) = Threads /\ Threads \in Nat
  BY FS_Interval, ThreadPoolAssumption DEF Workers, ThreadPoolAssumption
<1>2. IsFiniteSet(Workers \ {w}) /\ Cardinality(Workers \ {w}) = Threads - 1
  BY <1>1, FS_RemoveElement
<1>3. V \in SUBSET (Workers \ {w})
  OBVIOUS
<1>4. IsFiniteSet(V) /\ Cardinality(V) <= Threads - 1
  BY <1>2, <1>3, FS_Subset
<1>5. f \in Surjection(V, Begun)
  <2>1. Begun = {job[v] : v \in V}
    BY DEF Begun
  <2>2. f \in [V -> Begun]
    BY <2>1
  <2>3. \A j \in Begun : \E v \in V : f[v] = j
    BY <2>1
  <2> HIDE DEF f, V
  <2> QED
    BY <2>2, <2>3 DEF Surjection
<1> HIDE DEF f, V
<1>6. IsFiniteSet(Begun) /\ Cardinality(Begun) <= Cardinality(V)
  BY <1>4, <1>5, FS_Surjection
<1>7. Cardinality(V) \in Nat /\ Cardinality(Begun) \in Nat
  BY <1>4, <1>6, FS_CardinalityType
<1> QED
  BY <1>1, <1>4, <1>6, <1>7

\* A worker that takes a job begins it in JobPool.
LEMMA PopRefines ==
    ASSUME IInv, NEW w \in Workers, Pop(w) \/ Wake(w)
    PROVE  Abstract!Take \/ UNCHANGED Abstract!vars
<1>1. pc[w] \in {"pop", "wait"} /\ PopFront(w) /\ TypeOK
  BY DEF Pop, Wake, IInv
<1>2. UNCHANGED <<terminate, issued, done>> /\ DOMAIN pc = Workers
  BY <1>1 DEF PopFront, history, TypeOK
<1>3. CASE jobqueue = <<>>
  <2>1. UNCHANGED <<jobqueue, job>> /\ pc' = [pc EXCEPT ![w] = "loop"]
    BY <1>1, <1>3, Popped
  <2>2. \A v \in Workers : pc'[v] \in {"taken", "run"} <=> pc[v] \in {"taken", "run"}
    BY <1>1, <1>2, <2>1
  <2>3. Begun' = Begun
    BY <2>1, <2>2 DEF Begun
  <2> QED
    BY <1>2, <2>1, <2>3 DEF Abstract!vars
<1>4. CASE jobqueue # <<>>
  <2>1. /\ job' = [job EXCEPT ![w] = jobqueue[1]] /\ pc' = [pc EXCEPT ![w] = "taken"]
        /\ jobqueue' = Tail(jobqueue) /\ jobqueue[1] = Head(jobqueue)
    BY <1>1, <1>4, Popped
  <2>2. DOMAIN job = Workers
    BY <1>1 DEF TypeOK
  <2>3. /\ pc'[w] = "taken" /\ job'[w] = Head(jobqueue)
        /\ \A v \in Workers \ {w} : pc'[v] = pc[v] /\ job'[v] = job[v]
    BY <1>2, <2>1, <2>2
  <2>4. Begun' = Begun \cup {Head(jobqueue)}
    BY <1>1, <2>3 DEF Begun
  <2>5. Cardinality(Begun) < Threads
    BY <1>1, BegunIsBounded
  <2>6. UNCHANGED <<issued, done, terminate # {}>>
    BY <1>2
  <2>7. jobqueue' = Tail(jobqueue)
    BY <2>1
  <2>8. Abstract!Cardinality(Begun) < Threads
    BY <2>5 DEF Cardinality, Abstract!Cardinality
  <2> QED
    BY <1>4, <2>4, <2>6, <2>7, <2>8 DEF Abstract!Take
<1> QED
  BY <1>3, <1>4

\* A job that returns is finished in JobPool.
LEMMA JobReturnsRefines ==
    ASSUME IInv, NEW w \in Workers, JobReturns(w)
    PROVE  \E j \in Begun : Abstract!Finish(j)
<1>1. /\ pc[w] = "run" /\ pc' = [pc EXCEPT ![w] = "idle"]
      /\ UNCHANGED <<issued, jobqueue, terminate, job>>
      /\ done' = done \cup {job[w]} /\ DOMAIN pc = Workers
  BY DEF JobReturns, Goto, queues, IInv, TypeOK
<1>2. \A v \in Workers \ {w} : pc[v] \in {"taken", "run"} => job[v] # job[w]
  BY <1>1 DEF IInv, QueueInv, Holding
<1>3. pc'[w] = "idle" /\ \A v \in Workers \ {w} : pc'[v] = pc[v]
  BY <1>1
<1>4. Begun' = Begun \ {job[w]}
  BY <1>1, <1>2, <1>3 DEF Begun
<1>5. job[w] \in Begun
  BY <1>1 DEF Begun
<1> QED
  BY <1>1, <1>4, <1>5 DEF Abstract!Finish

\* The other steps of a worker: to drop the jobs as a thread ends is to Discard, all
\* the rest changes nothing JobPool sees.
LEMMA WorkerRefines ==
    ASSUME IInv, NEW w \in Workers, Worker(w)
    PROVE  [Abstract!Next]_(Abstract!vars)
<1> USE DEF queues, history
<1>1. CASE Pop(w) \/ Wake(w)
  BY <1>1, PopRefines DEF Abstract!Next
<1>2. CASE JobReturns(w)
  BY <1>2, JobReturnsRefines DEF Abstract!Next
<1>3. CASE exit(w)
  <2>1. /\ pc[w] = "exit" /\ pc' = [pc EXCEPT ![w] = "none"] /\ jobqueue' = <<>>
        /\ UNCHANGED <<issued, done, terminate, job>> /\ DOMAIN pc = Workers
    BY <1>3 DEF exit, Goto, IInv, TypeOK
  <2>2. terminate # {}
    BY <2>1 DEF IInv, ExitInv
  <2>3. \A v \in Workers : pc'[v] \in {"taken", "run"} <=> pc[v] \in {"taken", "run"}
    BY <2>1
  <2>4. Begun' = Begun
    BY <2>1, <2>3 DEF Begun
  <2> QED
    BY <2>1, <2>2, <2>4 DEF Abstract!Next, Abstract!Discard
<1>4. CASE Begin(w) \/ InitReturns(w) \/ CheckTerminate(w) \/ PopEmpty(w) \/ PopTimeout(w)
           \/ Insert(w) \/ idle(w)
  <2>1. UNCHANGED <<issued, jobqueue, done, terminate>>
    BY <1>4 DEF Begin, InitReturns, CheckTerminate, PopEmpty, PopTimeout, Insert, idle
  <2>2. \A v \in Workers :
           /\ pc'[v] \in {"taken", "run"} <=> pc[v] \in {"taken", "run"}
           /\ pc[v] \in {"taken", "run"} => job'[v] = job[v]
    BY <1>4 DEF Begin, InitReturns, CheckTerminate, PopEmpty, PopTimeout, Insert, idle,
                Goto, IInv, TypeOK
  <2>3. Begun' = Begun
    BY <2>2 DEF Begun
  <2> QED
    BY <2>1, <2>3 DEF Abstract!vars
<1> QED
  BY <1>1, <1>2, <1>3, <1>4 DEF Worker

\* The steps of the threads that use the pool: a thread that is told to terminate
\* begins the stopping of JobPool, and new workers renew it.
LEMMA UserRefines ==
    ASSUME IInv, exec \/ Control \/ Waiter
    PROVE  [Abstract!Next]_(Abstract!vars)
<1> USE DEF queues, threads, controlling, waiting, history
<1>1. CASE exec
  <2>1. UNCHANGED <<pc, job, done, terminate>>
    BY <1>1 DEF exec
  <2>2. Begun' = Begun
    BY <2>1 DEF Begun
  <2> QED
    BY <1>1, <2>1, <2>2 DEF exec, Abstract!Next, Abstract!Submit
<1>2. CASE StopThread
  <2>1. UNCHANGED <<pc, job, issued, done, jobqueue>>
    BY <1>2 DEF StopThread
  <2>2. Begun' = Begun
    BY <2>1 DEF Begun
  <2>3. UNCHANGED terminate \/ terminate' # {}
    BY <1>2 DEF StopThread
  <2> QED
    BY <2>1, <2>2, <2>3 DEF Abstract!Next, Abstract!Stop, Abstract!vars
<1>3. CASE Clear
  <2>1. UNCHANGED <<pc, job, issued, done, jobqueue>> /\ terminate' = {}
    BY <1>3 DEF Clear
  <2>2. \A w \in Workers : pc[w] = "none"
    BY <1>3 DEF Clear, IInv, CallInv
  <2>3. Begun = {} /\ Begun' = {}
    BY <2>1, <2>2 DEF Begun
  <2> QED
    BY <2>1, <2>3 DEF Abstract!Next, Abstract!Renew
<1>4. CASE StartThread
  <2>1. UNCHANGED <<job, issued, done, jobqueue, terminate>>
    BY <1>4 DEF StartThread
  <2>2. \A v \in Workers : pc'[v] \in {"taken", "run"} <=> pc[v] \in {"taken", "run"}
    BY <1>4 DEF StartThread, isAlive, IInv, TypeOK
  <2>3. Begun' = Begun
    BY <2>1, <2>2 DEF Begun
  <2> QED
    BY <2>1, <2>3 DEF Abstract!vars
<1>5. CASE CallStart \/ FinishStart \/ CallStop \/ Join \/ FinishStop \/ Waiter
  <2>1. UNCHANGED <<pc, job, issued, done, jobqueue, terminate>>
    BY <1>5 DEF CallStart, FinishStart, CallStop, Join, FinishStop, Waiter, CallWait,
         CheckStartqueue, CheckJobqueue, CheckBusthread, WaitTimeout, WakeUp
  <2>2. Begun' = Begun
    BY <2>1 DEF Begun
  <2> QED
    BY <2>1, <2>2 DEF Abstract!vars
<1> QED
  BY <1>1, <1>2, <1>3, <1>4, <1>5 DEF Control

-----------------------------------------------------------------------------
\* The invariant holds from the start and after every step of any thread.
THEOREM Invariance == Spec => []IInv
BY InitIInv, NextIInv, PTL DEF Spec

\* The state of the pool stays what its code takes it for, whoever calls what and when.
THEOREM TypeCorrectness == Spec => []TypeOK
<1>1. IInv => TypeOK
  BY DEF IInv
<1> QED
  BY Invariance, <1>1, PTL

\* ImplementsJobPool: jobs are begun in the order of exec, each once and never more
\* than there are threads, and only a pool told to stop drops any.
THEOREM PoolIsImplemented == Spec => ImplementsJobPool
<1>1. Init => Abstract!Init
  BY DEF Init, Begun, Abstract!Init
<1>2. IInv /\ [Next]_vars => [Abstract!Next]_(Abstract!vars)
  <2> SUFFICES ASSUME IInv, [Next]_vars
               PROVE  [Abstract!Next]_(Abstract!vars)
    OBVIOUS
  <2>1. CASE UNCHANGED vars
    <3>1. UNCHANGED <<pc, job, issued, done, jobqueue, terminate>>
      BY <2>1 DEF vars, queues, threads, history
    <3>2. Begun' = Begun
      BY <3>1 DEF Begun
    <3> QED
      BY <3>1, <3>2 DEF Abstract!vars
  <2> QED
    BY <2>1, UserRefines, WorkerRefines DEF Next
<1> QED
  BY <1>1, <1>2, Invariance, PTL DEF Spec, ImplementsJobPool, Abstract!Spec

\* MissesOnlyTaken: when waitForAllDone says that all is done, no job runs and every
\* job that was added before it looked has left the queue.
THEOREM OnlyTakenJobsAreMissed == Spec => MissesOnlyTaken
<1>1. IInv /\ [Next]_vars =>
        [ReturnsTrue => /\ \A i \in DOMAIN jobqueue : jobqueue[i] > seen
                        /\ \A w \in Workers : pc[w] # "run"]_vars
  <2> SUFFICES ASSUME IInv, Next, ReturnsTrue
               PROVE  /\ \A i \in DOMAIN jobqueue : jobqueue[i] > seen
                      /\ \A w \in Workers : pc[w] # "run"
    OBVIOUS
  <2> USE DEF ReturnsTrue, queues, threads, controlling, waiting, history
  <2>1. CheckBusthread
    <3>1. ~exec /\ ~CallStart /\ ~StartThread /\ ~FinishStart /\ ~CallStop /\ ~StopThread
          /\ ~Join /\ ~FinishStop /\ ~Clear
      BY DEF exec, CallStart, StartThread, FinishStart, CallStop, StopThread, Join,
             FinishStop, Clear
    <3>2. ~CallWait /\ ~CheckStartqueue /\ ~CheckJobqueue /\ ~WaitTimeout /\ ~WakeUp
      BY DEF CallWait, CheckStartqueue, CheckJobqueue, WaitTimeout, WakeUp, NotFinished, Return
    <3>3. \A w \in Workers : ~Worker(w)
      BY DEF Worker, Begin, InitReturns, CheckTerminate, Pop, PopEmpty, Wake, PopTimeout,
             Insert, JobReturns, idle, exit, PopFront
    <3> QED
      BY <3>1, <3>2, <3>3 DEF Next, Control, Waiter
  <2>2. waiter = "busthread" /\ busthread = {}
    BY <2>1 DEF CheckBusthread, NotFinished, Return
  <2> QED
    BY <2>2 DEF IInv, BusyInv, WaitInv
<1> QED
  BY <1>1, Invariance, PTL DEF Spec, MissesOnlyTaken
=============================================================================
