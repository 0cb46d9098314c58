----------------------------- MODULE ThreadPool -----------------------------
(***************************************************************************)
(* TC_ThreadPool of src/tcinclude/tc_thread_pool.h and .cpp with its two   *)
(* TC_ThreadQueues.  One thread starts, stops and re-initialises the pool, *)
(* another waits for all jobs to be done, jobs are added at any time.      *)
(*                                                                         *)
(* A queue's operation is one step, made under the queue's lock.  The pool *)
(* is used after init(Threads); TC_Thread::start returns when the new      *)
(* thread has begun, and a job that throws counts as one that returns.     *)
(*                                                                         *)
(* A wait on a condition ends by its timeout, by a notification, or for no *)
(* reason; the last two are one action, Wake and WakeUp, that may happen   *)
(* at any time and need not: no property rests on a notification.          *)
(***************************************************************************)
EXTENDS Naturals, Sequences, FiniteSets

CONSTANTS
    Threads,        \* num of init(num)
    MaxJobs,        \* bound: how many jobs are added; a job is its number
    MaxStartqueue   \* bound: the functors start(tf) may leave in _startqueue, and the
                    \* jobs added by then

ASSUME ThreadPoolAssumption ==
    /\ Threads \in Nat \ {0}
    /\ MaxJobs \in Nat
    /\ MaxStartqueue \in Nat

Workers == 1..Threads
Jobs == 1..MaxJobs

VARIABLES
    startqueue, \* how many functors are in _startqueue
    jobqueue,   \* _jobqueue
    busthread,  \* _busthread
    bAllDone,   \* _bAllDone
    terminate,  \* the workers whose _bTerminate is set
    pc,         \* where each worker is, "none" when its thread is not running
    job,        \* the job it holds, 0 for none
    \* The thread that starts and stops the pool
    control,    \* "idle", or the call it is in
    target,     \* the worker its loop is at
    reinit,     \* was stop() called by init()?
    \* The thread that waits
    waiter,     \* "idle", or where waitForAllDone is
    limit,      \* millsecond: "forever", "timed", or "expired" when the time is up
    result,     \* what waitForAllDone returned last
    \* History
    issued,     \* how many jobs were added
    done,       \* the jobs that returned
    ran,        \* has a job returned since start() reset _bAllDone, which is FALSE?
    seen        \* how many jobs were added when waitForAllDone, on its way to true,
                \* found _jobqueue empty

queues == <<startqueue, jobqueue>>
threads == <<pc, job, terminate>>
controlling == <<control, target, reinit>>
waiting == <<waiter, limit, result, seen>>
history == <<issued, done, ran>>
vars == <<queues, busthread, bAllDone, threads, controlling, waiting, history>>

\* The places of a worker that holds a job, returned or not.
Holding == {"taken", "run", "idle"}

TypeOK ==
    /\ startqueue \in Nat
    /\ jobqueue \in Seq(Jobs)
    /\ busthread \subseteq Workers
    /\ bAllDone \in BOOLEAN
    /\ terminate \subseteq Workers
    /\ pc \in [Workers -> {"none", "begin", "init", "loop", "pop", "wait", "exit"} \cup Holding]
    /\ job \in [Workers -> {0} \cup Jobs]
    /\ \A w \in Workers : pc[w] \in Holding <=> job[w] # 0
    /\ control \in {"idle", "starting", "stopping", "joining", "clearing"}
    /\ target \in 1..(Threads + 1)
    /\ reinit \in BOOLEAN
    /\ waiter \in {"idle", "startqueue", "jobqueue", "busthread", "wait"}
    /\ limit \in {"forever", "timed", "expired"}
    /\ result \in {"none", "true", "false"}
    /\ issued \in 0..MaxJobs
    /\ done \subseteq Jobs
    /\ ran \in BOOLEAN
    /\ seen \in 0..MaxJobs

Init ==
    /\ startqueue = 0 /\ jobqueue = <<>>
    /\ busthread = {} /\ bAllDone = TRUE
    /\ terminate = {}
    /\ pc = [w \in Workers |-> "none"] /\ job = [w \in Workers |-> 0]
    /\ control = "idle" /\ target = 1 /\ reinit = FALSE
    /\ waiter = "idle" /\ limit = "forever" /\ result = "none" /\ seen = 0
    /\ issued = 0 /\ done = {} /\ ran = FALSE

isAlive(w) == pc[w] # "none"

\* _tmutex: waitForAllDone holds it but while it waits.
TmutexFree == waiter \notin {"startqueue", "jobqueue", "busthread"}

-----------------------------------------------------------------------------
(* Adding jobs, starting and stopping                                      *)

\* Mutant: exec puts the job at the front.
ExecFront ==
    /\ issued < MaxJobs
    /\ issued' = issued + 1
    /\ jobqueue' = <<issued + 1>> \o jobqueue
    /\ UNCHANGED <<startqueue, busthread, bAllDone, threads, controlling, waiting, done, ran>>

exec ==
    /\ issued < MaxJobs
    /\ issued' = issued + 1
    /\ jobqueue' = Append(jobqueue, issued + 1)
    /\ UNCHANGED <<startqueue, busthread, bAllDone, threads, controlling, waiting, done, ran>>

\* start(), or start(tf), which first adds one functor for each thread.
CallStart ==
    /\ control = "idle"
    /\ control' = "starting"
    /\ \/ startqueue' = startqueue
       \/ startqueue + Threads + issued <= MaxStartqueue /\ startqueue' = startqueue + Threads
    /\ UNCHANGED <<jobqueue, busthread, bAllDone, threads, target, reinit, waiting, history>>

\* TC_Thread::start throws when the thread runs already: start() ends there.
StartThread ==
    /\ control = "starting" /\ target <= Threads
    /\ IF isAlive(target)
         THEN control' = "idle" /\ target' = 1 /\ UNCHANGED pc
         ELSE /\ pc' = [pc EXCEPT ![target] = "begin"]
              /\ target' = target + 1
              /\ UNCHANGED control
    /\ UNCHANGED <<queues, busthread, bAllDone, job, terminate, reinit, waiting, history>>

FinishStart ==
    /\ control = "starting" /\ target > Threads
    /\ control' = "idle" /\ target' = 1
    /\ bAllDone' = FALSE
    /\ ran' = FALSE
    /\ UNCHANGED <<queues, busthread, threads, reinit, waiting, issued, done>>

\* stop(), or the stop() with which init begins.
CallStop ==
    /\ control = "idle"
    /\ control' = "stopping"
    /\ reinit' \in BOOLEAN
    /\ UNCHANGED <<queues, busthread, bAllDone, threads, target, waiting, history>>

\* Mutant: the thread is notified but its _bTerminate is not set.
StopThreadOnlyNotifies ==
    /\ control = "stopping" /\ target <= Threads
    /\ IF isAlive(target) THEN control' = "joining" /\ UNCHANGED target
       ELSE target' = target + 1 /\ UNCHANGED control
    /\ UNCHANGED <<queues, busthread, bAllDone, threads, reinit, waiting, history>>

\* A worker that does not run is not told to terminate.
StopThread ==
    /\ control = "stopping" /\ target <= Threads
    /\ IF isAlive(target)
         THEN /\ terminate' = terminate \cup {target}
              /\ control' = "joining"
              /\ UNCHANGED target
         ELSE target' = target + 1 /\ UNCHANGED <<terminate, control>>
    /\ UNCHANGED <<queues, busthread, bAllDone, pc, job, reinit, waiting, history>>

Join ==
    /\ control = "joining" /\ ~isAlive(target)
    /\ control' = "stopping" /\ target' = target + 1
    /\ UNCHANGED <<queues, busthread, bAllDone, threads, reinit, waiting, history>>

FinishStop ==
    /\ control = "stopping" /\ target > Threads
    /\ bAllDone' = TRUE
    /\ ran' = FALSE
    /\ control' = (IF reinit THEN "clearing" ELSE "idle") /\ target' = 1
    /\ UNCHANGED <<queues, busthread, threads, reinit, waiting, issued, done>>

\* The rest of init: new workers, none of them terminated, none of them busy.
Clear ==
    /\ control = "clearing"
    /\ control' = "idle" /\ reinit' = FALSE
    /\ terminate' = {} /\ busthread' = {}
    /\ UNCHANGED <<queues, bAllDone, pc, job, target, waiting, history>>

-----------------------------------------------------------------------------
(* waitForAllDone, which evaluates finish() under _tmutex                  *)

\* No other thread waits and a worker holds _tmutex for one step only: the lock is free.
CallWait ==
    /\ waiter = "idle"
    /\ waiter' = "startqueue"
    /\ limit' \in {"forever", "timed"}
    /\ result' = "none"
    /\ UNCHANGED <<queues, busthread, bAllDone, threads, controlling, seen, history>>

Return(value) ==
    waiter' = "idle" /\ result' = value /\ limit' = "forever"

\* finish() is false: the call ends when its time is up, or it waits (again).
NotFinished ==
    IF limit = "expired" THEN Return("false")
    ELSE waiter' = "wait" /\ UNCHANGED <<limit, result>>

CheckStartqueue ==
    /\ waiter = "startqueue"
    /\ IF startqueue = 0 THEN waiter' = "jobqueue" /\ UNCHANGED <<limit, result>>
       ELSE NotFinished
    /\ UNCHANGED <<queues, busthread, bAllDone, threads, controlling, seen, history>>

CheckJobqueue ==
    /\ waiter = "jobqueue"
    /\ IF jobqueue = <<>>
         THEN waiter' = "busthread" /\ seen' = issued /\ UNCHANGED <<limit, result>>
         ELSE NotFinished /\ UNCHANGED seen
    /\ UNCHANGED <<queues, busthread, bAllDone, threads, controlling, history>>

CheckBusthread ==
    /\ waiter = "busthread"
    /\ IF busthread = {} /\ bAllDone THEN Return("true") ELSE NotFinished
    /\ seen' = 0
    /\ UNCHANGED <<queues, busthread, bAllDone, threads, controlling, history>>

\* The wait ends: the second of a call without limit is over, or the time of one
\* with a limit, for which there is one more look.
WaitTimeout ==
    /\ waiter = "wait"
    /\ waiter' = "startqueue"
    /\ limit' = IF limit = "forever" THEN "forever" ELSE "expired"
    /\ UNCHANGED <<queues, busthread, bAllDone, threads, controlling, result, seen, history>>

WakeUp ==
    /\ waiter = "wait"
    /\ waiter' = "startqueue"
    /\ UNCHANGED <<queues, busthread, bAllDone, threads, controlling, limit,
                   result, seen, history>>

-----------------------------------------------------------------------------
(* ThreadWorker::run                                                       *)

Goto(w, place) == pc' = [pc EXCEPT ![w] = place]

\* get(): a functor of _startqueue, if there is one.
Begin(w) ==
    /\ pc[w] = "begin"
    /\ IF startqueue > 0 THEN startqueue' = startqueue - 1 /\ Goto(w, "init")
       ELSE UNCHANGED startqueue /\ Goto(w, "loop")
    /\ UNCHANGED <<jobqueue, busthread, bAllDone, job, terminate, controlling, waiting, history>>

InitReturns(w) ==
    /\ pc[w] = "init"
    /\ Goto(w, "loop")
    /\ UNCHANGED <<queues, busthread, bAllDone, job, terminate, controlling, waiting, history>>

CheckTerminate(w) ==
    /\ pc[w] = "loop"
    /\ Goto(w, IF w \in terminate THEN "exit" ELSE "pop")
    /\ UNCHANGED <<queues, busthread, bAllDone, job, terminate, controlling, waiting, history>>

\* The end of pop_front: the oldest job if there is one, else the loop goes on.
PopFront(w) ==
    /\ IF jobqueue = <<>> THEN Goto(w, "loop") /\ UNCHANGED <<jobqueue, job>>
       ELSE /\ job' = [job EXCEPT ![w] = Head(jobqueue)]
            /\ jobqueue' = Tail(jobqueue)
            /\ Goto(w, "taken")
    /\ UNCHANGED <<startqueue, busthread, bAllDone, terminate, controlling, waiting, history>>

Pop(w) == pc[w] = "pop" /\ jobqueue # <<>> /\ PopFront(w)

PopEmpty(w) ==
    /\ pc[w] = "pop" /\ jobqueue = <<>>
    /\ Goto(w, "wait")
    /\ UNCHANGED <<queues, busthread, bAllDone, job, terminate, controlling, waiting, history>>

Wake(w) == pc[w] = "wait" /\ PopFront(w)

\* Mutant: pop_front waits without a limit of time.
WaitsForEver(w) == FALSE

\* The second is over: no job, even if one was added meanwhile.
PopTimeout(w) ==
    /\ pc[w] = "wait"
    /\ Goto(w, "loop")
    /\ UNCHANGED <<queues, busthread, bAllDone, job, terminate, controlling, waiting, history>>

\* Mutant: get does not put the worker in _busthread.
InsertForgotten(w) ==
    /\ pc[w] = "taken"
    /\ TmutexFree
    /\ Goto(w, "run")
    /\ UNCHANGED <<queues, busthread, bAllDone, job, terminate, controlling, waiting, history>>

\* The rest of get(ptw).
Insert(w) ==
    /\ pc[w] = "taken"
    /\ TmutexFree
    /\ busthread' = busthread \cup {w}
    /\ Goto(w, "run")
    /\ UNCHANGED <<queues, bAllDone, job, terminate, controlling, waiting, history>>

JobReturns(w) ==
    /\ pc[w] = "run"
    /\ Goto(w, "idle")
    /\ done' = done \cup {job[w]}
    /\ ran' = ~bAllDone
    /\ UNCHANGED <<queues, busthread, bAllDone, job, terminate, controlling, waiting, issued>>

\* Mutant: idle leaves the worker in _busthread.
IdleStaysBusy(w) ==
    /\ pc[w] = "idle"
    /\ TmutexFree
    /\ job' = [job EXCEPT ![w] = 0]
    /\ Goto(w, "loop")
    /\ UNCHANGED <<queues, busthread, bAllDone, terminate, controlling, waiting, history>>

idle(w) ==
    /\ pc[w] = "idle"
    /\ TmutexFree
    /\ busthread' = busthread \ {w}
    /\ IF busthread' = {} THEN bAllDone' = TRUE /\ ran' = FALSE
       ELSE UNCHANGED <<bAllDone, ran>>
    /\ job' = [job EXCEPT ![w] = 0]
    /\ Goto(w, "loop")
    /\ UNCHANGED <<queues, terminate, controlling, waiting, issued, done>>

\* exit() empties the queue of the whole pool; then the thread ends.
exit(w) ==
    /\ pc[w] = "exit"
    /\ jobqueue' = <<>>
    /\ Goto(w, "none")
    /\ UNCHANGED <<startqueue, busthread, bAllDone, job, terminate, controlling, waiting, history>>

-----------------------------------------------------------------------------
Control == CallStart \/ StartThread \/ FinishStart
           \/ CallStop \/ StopThread \/ Join \/ FinishStop \/ Clear

Waiter == CallWait \/ CheckStartqueue \/ CheckJobqueue \/ CheckBusthread
          \/ WaitTimeout \/ WakeUp

Worker(w) == Begin(w) \/ InitReturns(w) \/ CheckTerminate(w) \/ Pop(w) \/ PopEmpty(w)
             \/ Wake(w) \/ PopTimeout(w) \/ Insert(w) \/ JobReturns(w) \/ idle(w) \/ exit(w)

Next == exec \/ Control \/ Waiter \/ (\E w \in Workers : Worker(w))

Spec == Init /\ [][Next]_vars

(***************************************************************************)
(* Threads go on and jobs return.  Nothing obliges the program to add      *)
(* jobs, to call start, stop or waitForAllDone, or a wait to end early.    *)
(* Strong fairness of a worker is for the two steps that lock _tmutex:     *)
(* waitForAllDone frees it while it waits, between two looks, so that a    *)
(* worker finds it free again and again.  Strong fairness of the timeout   *)
(* of that wait is for the early ends of it: each shortens what is left of *)
(* the time, or lets a second of it begin that no longer ends early, so    *)
(* that they cannot go on for ever.  All other steps, once enabled, stay   *)
(* enabled.                                                                *)
(***************************************************************************)
Fairness ==
    /\ WF_vars(StartThread \/ FinishStart \/ StopThread \/ Join \/ FinishStop \/ Clear)
    /\ WF_vars(CheckStartqueue \/ CheckJobqueue \/ CheckBusthread)
    /\ SF_vars(WaitTimeout)
    /\ \A w \in Workers :
         SF_vars(\/ Begin(w) \/ InitReturns(w) \/ CheckTerminate(w) \/ Pop(w)
                 \/ PopEmpty(w) \/ PopTimeout(w) \/ JobReturns(w) \/ exit(w)
                 \/ Insert(w) \/ idle(w))

FairSpec == Spec /\ Fairness

-----------------------------------------------------------------------------
(* Properties                                                              *)

\* The jobs that were begun, or will be next by the worker that took them, and
\* have not returned.
Begun == {job[w] : w \in {v \in Workers : pc[v] \in {"taken", "run"}}}

Abstract == INSTANCE JobPool WITH
    submitted <- issued, waiting <- jobqueue, running <- Begun, finished <- done,
    stopping <- terminate # {}

\* The pool implements JobPool: jobs are begun in the order of their exec, each
\* once, never more than there are threads; a job that was added is dropped only by
\* a pool of which a thread was told to stop (pop_front, get, run and exit).
ImplementsJobPool == Abstract!Spec

ReturnsTrue == waiter # "idle" /\ waiter' = "idle" /\ result' = "true"

\* What waitForAllDone can miss when it says that all is done: of the jobs added
\* before it looked at _jobqueue only those that a worker took from the queue and
\* has not put down in _busthread yet.  No job is running (finish, get and idle).
MissesOnlyTaken ==
    [][ReturnsTrue =>
         /\ \A i \in DOMAIN jobqueue : jobqueue[i] > seen
         /\ \A w \in Workers : pc[w] # "run"]_vars

\* "true, all work is done": every job that was added before waitForAllDone looked
\* at _jobqueue has returned or was dropped (tc_thread_pool.h:118 and :121).
AllDoneMeansDone ==
    [][ReturnsTrue =>
         /\ \A i \in DOMAIN jobqueue : jobqueue[i] > seen
         /\ \A j \in Begun : j > seen]_vars

\* A job that waits while a thread of the pool works returns in the end, unless
\* a thread of the pool is told to stop: no notification of push_back is lost for
\* good, because a worker waits for a second at most (pop_front, run).
JobsReturn ==
    \A j \in Jobs :
        (/\ \E i \in DOMAIN jobqueue : jobqueue[i] = j
         /\ \E w \in Workers : isAlive(w) /\ w \notin terminate)
        ~> (j \in done \/ terminate # {})

\* stop and init return: a worker that found _bTerminate unset just before it was
\* set misses the notification of terminate and sleeps, but for a second at most.
StopReturns == control \in {"stopping", "joining", "clearing"} ~> control = "idle"

\* waitForAllDone returns: within its time if it has one; without, once no functor
\* and no job waits and either _bAllDone is true or a job has returned that will
\* make it so, unless the next call of start, stop or exec comes first.  No thread
\* needs to notify it (waitForAllDone, idle).
WaitReturns ==
    /\ (waiter # "idle" /\ limit # "forever") ~> waiter = "idle"
    /\ (control = "idle" /\ startqueue = 0 /\ jobqueue = <<>> /\ (bAllDone \/ ran))
       ~> (waiter = "idle" \/ control # "idle" \/ jobqueue # <<>>)

=============================================================================
