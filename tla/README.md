# A TLA+ verification of test_frame

test_frame is a load generator. `main` (src/src/testexample.cpp) reads one entry of a JSON
configuration, gives it to a `TestFrame` (src/src/testframe.cpp) and calls `Run`, which starts a
number of threads, lets each send requests through a `Client` (src/src/Client.cpp) of its own, limits
how many are sent in a second and in all, prints statistics once a second, and ends the process. The
directory src/tcinclude is a general C++ library (taf) of which the program uses a few classes; of
the rest those are modelled here in which threads, processes or crashes make the code hard.

This directory holds TLA+ modules translated from the source, TLC configurations that check them on
small instances, and proofs that TLAPS checks for instances of any size. `PROJECT.json` maps every
definition that models code to the lines it models, and lists the runs, a mutant for every property (a
plausible bug that makes TLC report that property), the hazards of the code, the findings and the
theorems.

## 1. The system

| component | state | operations | interacts with | modules |
|---|---|---|---|---|
| load scheduler: `TestFrame`, `TestFrameThread` | `cFrequence`, `cRepeatCount` (atomic counters), `cLock`, `cCond`, the settings; where each thread is | `Run`, `RunX`, `Execute`, setters | calls the test case and the statistics; threads share all of it | `TestFrame`, `LoadBudget` |
| statistics: `TestFrameStatistic` | 14 counters, `cMutex` | `UpdateDelay`, `IncreaseSuccessCount`, `IncreaseFailureCount`, `Output` | written by every worker, printed and reset by the thread of `Run` | `TestFrameStatistic` |
| synchronisation: testsynch.h/.cpp | a pthread mutex, a condition, a counter | `Lock`, `Unlock`, `Wait`, `Broadcast`, `AtomicCounter` | used by the scheduler | in `TestFrame` |
| client: `Client` | socket, list of servers | `tcp_iot`, `SendHttp`, `AddServer`, `GetServer` | one per thread; a TCP connection to the server under test | `Client` |
| main and test case: `main`, `TestCase_IOT` | request texts, expected texts | `Init`, `PreExecute`, `Execute` | called by the workers, calls `Client` and the log file | `Program`, `Client` |
| log file: `log_file`, `TC_Singleton` | a file, a mutex; the instance pointer | `log`, destructor; `getInstance`, `destroySingleton` | all workers; destroyed by `exit` | `Program` |
| configuration: `LoadTestConfig` | map from command to settings | `Init`, `parse`, `get_config` | read once by `main` | `LoadConfig`, `Program` |
| thread pool: `TC_ThreadPool`, `TC_ThreadQueue` | `_jobqueue`, `_startqueue`, `_busthread`, `_bAllDone`, `_bTerminate` of each worker | `init`, `start`, `stop`, `exec`, `waitForAllDone`; `run`, `get`, `idle`, `exit` | jobs are functors of the caller | `ThreadPool`, `JobPool` |
| queues in shared memory: `TC_MemQueue`, `TC_SQueue` | a control block and a ring of bytes; a redo log (the first), no lock (the second) | `create`, `push`, `pop`, `isEmpty`, `isFull`, `elementCount` | processes that attach and may be killed | `ByteRing`, `MemQueue`, `SQueue`, `Fifo` |
| hash map in shared memory: `TC_HashMap` | blocks and chunks, a list for each bucket, the lists of the last set and get, three marks, counts, a redo log | `set`, `get`, `del`, `erase`, `sync`, `backup`, `recover`, `clear`, ... | processes that lock it, and may be killed | `HashMap` |
| tree in shared memory: `TC_RBTree` | blocks and chunks, a red-black tree, the lists of the last set and get, three marks, counts, an undo log | `set`, `get`, `del`, `erase`, `sync`, `backup`, `clear`, `lower_bound`, `upper_bound`, ... | processes that lock it, and may be killed | `RBTree` |
| timeout queue: `TC_TimeoutQueue` | messages by number and by time, the first that was not handed out | `push`, `get`, `erase`, `timeout`, `pop`, `swap` | threads | `TimeoutQueue` |
| asynchronous HTTP client: `TC_HttpAsync` | a timeout queue of requests, an epoll, a thread of a pool | `doAsyncRequest`, `run`, `waitForAllDone`, `terminate` | sockets, callbacks of the caller | `HttpAsync` |
| the rest of tcinclude: logger, other shared memory containers, HTTP text, sockets, encodings | | | of it the program uses only HTTP response parsing and string helpers | none |

What is hard here, and what makes each part correct:

- **Scheduler.** Threads wait on one condition variable for two different reasons, without a loop
  around either wait; one broadcast opens the start barrier and is not remembered; the mutex is held
  while a callback talks to the network; two counters are drawn on by everybody and reset by `Run`.
  Correct: the quota and the frequency are respected whatever the interleaving; nobody starts early;
  the test ends when it should and for no other reason; nobody waits for ever.
- **Statistics.** A request is recorded in two critical sections, and the report is printed from
  counters read one by one without the mutex. Correct: totals are exact, lines fit together.
- **Client.** Answers carry no number, arrive in parts, late, or never; the connection is kept over
  timeouts. Correct: an answer belongs to its request, a call returns, failures are seen as failures.
- **Program.** Entries with errors are to be skipped as a whole, widths of numbers change, and `exit`
  destroys the log file while threads still log. Correct: what the file says is what is run; until
  `exit` nothing goes wrong; a writer is not disturbed; `exit` ends.
- **Thread pool.** Whether all is done is read from two queues, a set and a flag that workers change one
  after the other under three different locks, and `start`, `stop` and `init` under a fourth. Correct: a
  job runs once, in order; `stop` returns; `waitForAllDone` tells the truth and returns.
- **Shared memory.** A process may be killed between any two writes, and another one goes on with what
  it left; `TC_SQueue` has two processes and no lock; the marks of write-back and backup are on
  blocks of the map and the tree that other calls move and erase; the tree is mended in place after every
  insertion and deletion. Correct: a queue loses and repeats nothing; map and tree stay usable, their
  counts are right, no dirty block is forgotten; the tree is a red-black tree in the order of its keys.
- **Asynchronous HTTP.** Answer, timeout and end of a connection race; epoll is edge-triggered; numbers
  of sockets are used again; a request is queued before its socket is polled. Correct: a request ends
  once, and does end; nothing is lost between epoll and `run`; `waitForAllDone` waits for all.

## 2. Modules

### TestFrame

One action is one atomic access to shared state; a critical section that only threads holding `cLock`
can observe is one action. `main` is where `Run` is, `pc[w]` where `RunX` of worker `w` is.

| code (src/src/testframe.cpp) | definitions |
|---|---|
| constructor and setters, 20-32, 123-157 | `Init` |
| `Run` 47-57, `TestFrameThread::Run` 174-188 | `CreateThread`: the thread exists, or the process exits with -1 |
| 61-73: sleep, first refill, broadcast | `Sleep`, `FirstRefill`, `OpenBarrier` |
| 75-112: the loop of `Run` | `Poll`, `Output`, `CheckStop` (with `QuotaReached`, `TimeIsUp`), `Refill` |
| 118 `exit(0)`; `exit(-1)` | `Exit`; threads go on until it is over |
| 196-204: the start barrier | `EnterBarrier`, `PreExecuteReturns`, `LeaveBarrier` |
| 208-225: the throttle | `EnterThrottle`, `CheckThrottle`, `ThrottleWaitReturns`, `TakeToken`, `RecheckToken`, `SkipThrottle` |
| 228 and 233, 239-267 | `TakeQuota`, `ExecuteReturns` |
| `pthread_cond_wait`, `pthread_cond_broadcast` | `SpuriousWakeup`, `Notified`, `Broadcast` |
| `time(NULL)` | `Tick` (external) |

`cLock` is a real mutex: an action that needs it is disabled while another thread has it, so the
deadlocks of the code are deadlocks or stalls of the model. A thread notified in `Wait` takes the mutex
again as a step of its own. `PreExecute` and `Execute` are callbacks; they return, with success or an
error, or never. `Execute`'s result does not influence the scheduler. Time is the number of seconds
since `begin`, counted only as far as `cDurationTime`, since nothing compares it with more; `due` says
whether a second has passed since the last report. Iterations of `Run`'s loop that find no new second
do nothing and are left out. The history variables `started`, `counted`, `reported`, `window`,
`unlockedRefill` and `spurious` are written by actions and read by properties only (`spurious` also by
its bound).

`LoadBudget` is what the setters promise: a budget of requests, one at a time per sender, a test that
ends when the budget is spent, or, if it has a time limit, by that. `TestFrame` implements it with
`left <- Left` (the counter, cut off at zero), `busy <- Busy` (the workers in `Execute`) and
`outcome <- Outcome`.

### TestFrameStatistic

`all` and `ps` are the overall and the per-second counters, functions from the common field names. The
two groups differ in the minimum that stands for "no request" (999999999 and 99999999). `UpdateDelay`
and `Increase` are the two critical sections of a worker. `Output` is split: each field that a `printf`
takes is read by a step of its own, in any order (C++ leaves it open), except that a quotient is read
only after its total was tested (`AfterTest`). To keep the number of states small a behaviour follows
only the reads in `watched`: since reading changes nothing but the line read, the behaviours for one
set of reads are the projections of those for all. `EveryWatch` has each counter alone and the reads of
a quotient together.

### Client

One `Client` and the server at the other end of its connection. The two functions differ in `Complete`,
when an answer is taken as complete, and in `RecvClose` (`kind` says which is used). Answers are sequences of
parts; one `recv` returns at most `RecvParts` of them, the 1024 bytes of the code. The first part holds
the text `TestCase_IOT` looks for and the HTTP header, the last the newline. The server (external)
answers in order, as slowly as it likes, and may close or reset the connection at any time. What the
kernel does is Linux': sending to a peer that has closed succeeds once, and the peer's refusal makes
a later send raise SIGPIPE, which the program does not ignore; so does sending on a socket that was
never connected. `recv` interrupted by a signal is called again and is left out; the branch for
`ENOENT` is one no `recv` takes.

### LoadConfig and Program

`LoadConfig` holds the conversions: what `parse` makes of one entry (a function from names to JSON values
with a type), which names it cannot do without, and the numbers with their widths from JSON (a saturating
`int`, or 64 bits) over `unsigned` to the `int` of the setters. A part of `ip_port` without a colon is
read past the end of a vector: `Servers` and `Unreadable` are the outcomes this can have.

`Program` composes it with the life of the log file. `main` goes from `ParseEntry` over `Lookup`
(`get_config`), `OpenLog`, `FirstLine` and `CreateThread` to `RunEnds`; `exit` is `destroySingleton`, `Close`,
`UnlockClosed`, `Free`, `Forget`, `MarkDestroyed`, `End`, one step for each access that a thread can see
(testexample.cpp 36-45, tc_singleton.h 199-232). A thread is in `TestCase_IOT::Execute` as far as the log is
concerned: `Answer`, the two checks of `getInstance` (`FirstCheck`, `SecondCheck`, `Create`,
`ReturnInstance`), and `LockLog`, `Write`, `UnlockLog`. Undefined behaviour and a failed assert end the model with the
outcome `"undefined"` or `"aborted"`. What else `Run` and the threads do is in `TestFrame`.

### ThreadPool

One thread that calls `start`, `stop` and `init` (`control`, `target`), one that calls `waitForAllDone`
(`waiter`), any that call `exec`, and the workers (`pc[w]`). The queue's operations are one step each,
as they are made under the queue's own lock.

| code (src/tcinclude) | definitions |
|---|---|
| tc_thread_pool.h 97-115, tc_thread_pool.cpp 189-200: `start`, `exec` | `CallStart`, `StartThread` (which throws when the thread runs), `FinishStart`; `exec` |
| 158-187: `init`, `stop` | `CallStop`, `StopThread`, `Join`, `FinishStop`, `Clear` |
| 202-245: `finish`, `waitForAllDone` | `CallWait`, `CheckStartqueue`, `CheckJobqueue`, `CheckBusthread`, `WaitTimeout`, `WakeUp` |
| 21-60: `run`; 247-285: `get`, `idle`; 78-92: `exit` | `Begin`, `InitReturns`, `CheckTerminate`, `Pop`, `PopEmpty`, `Wake`, `PopTimeout`, `Insert`, `JobReturns`, `idle`, `exit` |

`_tmutex` is held by `waitForAllDone` whenever it is not waiting; `Insert` and `idle` need it. Early ends of
a wait, notified or not, are actions that may happen at any time and are never relied on. `JobPool` is
the abstract specification: jobs are begun in order, once, at most as many at a time as there are
threads, and dropped only when the pool is stopping; `ThreadPool` implements it with `waiting <- jobqueue`,
`running <- Begun` and `stopping <- terminate # {}`. History variables: `issued`, `done`, `ran`, `seen`.

### ByteRing, MemQueue, SQueue and Fifo

`ByteRing` is what the two queues have in common: records of a word and a message in a ring of bytes, where
a byte is the record it belongs to and its place in it, so that torn and overwritten records are seen as
what they are. `Fifo` is what both promise: messages come out once, whole and in order, and at most the one
message is lost that a killed reader was being handed.

`MemQueue`: a call is `Call`, the `doUpdate` that repairs what a killed process left (`Apply`, `ResetLog`,
`ResetStatus`, `Entered`), the test for room (`Decline`, `StartPush`), `Copy` or `Read`, the log
(`MarkModified`, `WriteEntry`, `Commit`: one step for each write) and `doUpdate(true)`. `Crash` may follow any
of them; inside a `memcpy` any part of the bytes may be there. Another process goes on with `Call`. The counts
are taken modulo `CountModulus`, 2^64 in the code.

`SQueue`: a step reads or writes one field of the header that the other process uses. The writer is at
`TestRoom`, `Copy`, `Publish`, `ReadNum`, `IncreaseNum` after `CallPush` has read `iBegin`; the reader does the
same with `iEnd`. `WriterDies` and `ReaderDies` replace either by a new process. Stores are taken to be seen in
the order of the source, as on x86.

### BlockLists, HashMap and RBTree

The shared memory is a function from addresses (the head of the map, the items of the table, the heads of
the blocks) to records with the fields of the code. `BlockLists` has what `TC_HashMap` and `TC_RBTree` share:
updates of such a memory, and the two doubly linked lists of blocks with their marks.

`HashMap`: What is logged with `update` and made visible with
`doUpdate(true)` is one step, `Commit`: that this is right whatever write the process is killed after is
what `MemQueue` shows of the same log. Everything between two such steps is a step of its own, and `Crash` may
follow any of them: units of the allocator that were taken and not linked, a record half copied, flags and
counts that do not fit together. A value is the number of chunks it needs; `data` says what a reader finds in
the bytes of a block.

| code (src/tcinclude/tc_hashmap.cpp) | definitions |
|---|---|
| `Block::set`, `allocate`, `makeNew`, `joinChunk` | `Set`, `allocateMemBlock`, `MakeNew`, `Shrink`, `allocateChunk`, `joinChunk`, `SetFlags`, `CopyData`, `CommitCounts`, `Undo` |
| `BlockAllocator`, `eraseExcept` | `StartEvicting`, `Evict`, `Evicted`, `NoMemory` |
| `get`, `del`, `erase`, `clear`, `recover` | `Get`, `Del`, `EraseTail`, `KeepDirtyTail`, `MoveTail`, `Clear`, `Recover`, `Recovered`, `deallocate` |
| `refreshSetList`, `refreshGetList`, `insertSetList`, `insertGetList` | `RefreshSetList`, `RefreshGetList` and the updates they commit |
| `setDirty`, `setClean`, `sync`, `setDirtyAfterSync`, `backup` | `SetDirty`, `SetItsDirty`, `StartSync`, `Sync`, `SyncPasses`, `SyncLater`, `SyncDue`, `NeedSync`, `WrittenBack`, `setDirtyAfterSync`, `DirtyTailBack`, `StartBackup`, `Backup` |

`RBTree`: the log is another one. `saveValue` notes the old value and changes the memory at once, `doUpdate`
forgets the notes, and every call begins by undoing those it finds (`doRecover`). What a killed process leaves is
therefore the memory of the last `doUpdate` and what was written since without a note: the bytes of a record, two
flags, three marks, and the state of the allocator. A step ends at each of these writes, and `Die`, in `Crash` and
where an assert fails, undoes the notes. The properties are about `doRecover`, the memory the next call
works with, in every state. The `RECURSIVE` operators `insertFixUp` and `eraseFixUp` fold the code's loops and its
mirrored halves (`side`); `eraseNode` is `Block::erase` of a node.

| code (src/tcinclude/tc_rbtree.cpp) | definitions |
|---|---|
| `rotateLeft`, `rotateRight`, `insertFixUp`, `eraseFixUp`, `erase(i, iAddr)`, `insertRBTree` | `Rotate`, `insertFixUp`, `eraseFixUp`, `eraseNode`, `insertRBTree` |
| `find`, `getLastBlock`, `nextItem`, `prevItem`, `lower_bound`, `upper_bound` | `Path`, `Found`, `Neighbour`, `lower_bound`, `upper_bound` |
| `Block::set`, `allocate`, `makeNew`, `joinChunk` | `Set`, `allocateMemBlock`, `Shrink`, `allocateChunk`, `joinChunk`, `SetNew`, `CopyData`, `WriteOnlyKey`, `Finish`, `Undo` |
| `BlockAllocator`, `eraseExcept` | `StartEvicting`, `Evict`, `Evicted`, `NoMemory` |
| `get`, `del`, `erase`, `clear`, `setDirty`, `setClean` | `Get`, `Del`, `EraseTail`, `KeepDirtyTail`, `Clear`, `SetDirty`, `deallocate`, `Return` |
| `sync`, `backup` | `StartSync`, `Sync`, `SyncPasses`, `SyncLater`, `SyncDue`, `NeedSync`, `StartBackup`, `Backup` |
| `getBlockData`, its assert | `Torn`, `AssertFails` |

`SharedStructures` puts the structures that there are theorems about side by side: `MemQueue` under its own names,
`SQueue` as `Q`, and the hash map, with its theorems, as `H`. `MCSharedMemory` adds the tree as `T`. It is all four, in turn: a behaviour works with the one its variable
`structure` names, and the others stay as they are, so that one run checks them all. `MCSettings` and `TreeSettings` are
the calls a behaviour of the hash map and of the tree has: calls that disturb each other are together.

### TimeoutQueue and HttpAsync

`TimeoutQueue`: an operation is one step, made under the queue's lock, except `timeout`, which frees the lock after
each message (`StartTimeout`, `TimeoutFront`, `FinishTimeout`). Messages are numbers in the order of their times;
`firstNoPop` is the iterator the code keeps into its list.

`HttpAsync` EXTENDS it and uses its `push` and `erase`. `Submit`, `GetFd` and `Add` are `doAsyncRequest`, called
by the program or by a callback: the request is queued, its socket is read, and given to the epoll. `run` is
`Begin`, `LoopTimeout`, `Collect` (the timeouts), `Poll` (a batch of events), `NextEvent`, `Receive`, `Send`,
and the end of a request `Close`, `CloseFd`, `CallReturns`. `Peer` is what the other side does to a connection;
`Notice` is what an edge-triggered epoll makes of it. `CallWait`, `Terminate` and `Return` are
`waitForAllDone`. `MCHttpAsync` adds a program that uses the queue alone, with `pop` and `swap`.

### Proof modules

`TestFrameProofs`, `TestFrameStatisticProofs`, `ClientProofs`, `ProgramProofs`, `ThreadPoolProofs`,
`SharedStructuresProofs`, `HashMapProofs` and `HttpAsyncProofs`, each for the module it is named after; that of
`TimeoutQueue` is in `HttpAsyncProofs`, those of the two queues in shared memory are in `SharedStructuresProofs`.

## 3. Runs

| run | instance | shows |
|---|---|---|
| TestFrame | 2 workers, quota none, 1 or 2, frequency none, 1 or 2, duration none or 1 s, 1 spurious wakeup, fairness | `TypeOK`, `QuotaRespected`, `NoEarlyExit`, `ThrottleHolds`, `StartBarrierHolds`, `ImplementsLoadBudget`, `DurationHonoured`, `QuotaCompletes`, `WaitersReleased` |
| TestFrameBarrier | 1 worker, no throttle, fairness | violated: `StartBarrierOpens` |
| TestFrameReport | 2 workers, quota 2 | violated: `FinalReportComplete` |
| Statistic | 2 workers, 3 requests of 1 or 3 ms, threshold none or 2 ms; symmetry | `ExactTotals`, `NoDoubleCount`, `OverallCoversSecond` |
| StatisticHealth | the same, with the threshold | violated: `HealthIsPercentage` |
| Client | 3 calls, answers of 1 to 3 parts, 2 parts per `recv`, fairness | `LagBound`, `SuccessesAnswered`, `KilledOnlyAfterTimeout`, `CallReturns` |
| ClientSuccess | 1 call | violated: `SuccessMeansAnswer` |
| ThreadPool | 2 threads, 2 jobs, functors of one `start(tf)`, fairness | `ImplementsJobPool`, `MissesOnlyTaken`, `JobsReturn`, `StopReturns`, `WaitReturns` |
| ThreadPoolAllDone | 1 thread, 2 jobs | violated: `AllDoneMeansDone` |
| Program | one entry with at most one thing amiss, alone or before a complete one; 2 threads; `int` of 3 bits, `long` of 6; fairness | `HarmOnlyAtExit`, `WritersUndisturbed`, `FirstEntryRuns`, `ExitEnds` |
| SharedMemory | messages of 1 and 2 bytes in a ring of 7 with words of 2, counts modulo 4, `iNum` up to 1; a hash map of 3 units, 2 buckets and 3 keys; a tree of up to 10 units and keys; 1 crash in the map and in the tree, any number in the queues; symmetry of the keys in a bucket | `SharedTypeOK`, `ImplementsFifo`, `AtomicUpdate`, `LooksAreRight`, `SQueueImplementsFifo`, `SQueueAssertsHold`, `StaysUsable`, `TreeIsSound`, `CountsAgree`, `DirtyIsReached`, `NothingSkipped` |
| HttpAsync | 2 requests, 2 numbers of sockets, which are interchangeable: the first request has a certain one; 4 messages in the queue alone; fairness | `PopsInOrder`, `EndsOnce`, `WaitsForAll`, `RequestsEnd` |

Why the bounds are enough. Two workers and a quota of one or two mean that the quota is missed while
another request is under way; a frequency of one makes one worker wait in the throttle while the other
takes and gives up tokens, across several refills (seconds pass without end when no duration is set). One
spurious wakeup is the least that shows what it does to the barrier and the first refill; the proofs
have no such bounds. Two workers and three requests put a request on each side of every read of
`Output`. Three calls are a call that times out, one that gets its late answer, and one that meets what
that left behind; answers of one, two and three parts are shorter than, as long as and longer than a
`recv`. Two threads and two jobs have one thread work, or be stopped and empty the queue, while the other
is between queue and `_busthread`, and one more job behind; calls of `start`, `stop`, `init` and
`waitForAllDone` are not bounded. Two entries are one that is skipped or kept wrongly and the one that would
be run instead; numbers on both sides of each width are among them. A ring of seven bytes holds one
record or two, never the same number of bytes twice, so that records wrap at every place of the ring, with one
byte over; the calls are not bounded. Three units are three small blocks or one with chunks
beside another, so that eviction, unlinking in the middle, at the head and at the tail of each list happen; two
of the keys share a bucket. For the shape of the tree all orders of setting five keys are taken, with every order of
deleting them, and ten keys set in rising and eight in falling order, with every order of deleting: ten are the
least with which a deletion mends the tree on more than one level. The lists, chunks, eviction and crashes of the
tree are checked with three units, as in the hash map. Two requests are one that ends and one that gets the number of its socket; four
messages put removed ones before, at and behind the place of `_firstNoPopIter`.

**Fairness.** `TestFrame!FairSpec`: weak fairness of `Run`'s own steps, of the passing of time, and of
each worker's own steps: threads are scheduled, and `sleep` ends. Not assumed: that a callback returns
(it may hang in the network; the properties say what then happens), that a thread gets a mutex that
others keep taking (no strong fairness), spurious wakeups. `Client!FairSpec`: the thread runs and the
receive timer of the kernel expires; nothing is assumed of the server. `ThreadPool!FairSpec`: every thread
goes on, jobs return, and waits end by their timeout (strong, since each early end shortens what is left);
strong fairness of the two steps of a worker that lock `_tmutex`, which `waitForAllDone` frees while it
waits between two looks. No call is assumed to be made, and no notification to arrive.
`Program!FairSpec`: main and a thread that writes go on; strong fairness of `Close`, which needs a lock that
threads take for one line and then leave for the network. That `Run` ends or answers come is not assumed.
`HttpAsync!Fairness`: the threads go on; strong fairness of `LoopTimeout`, as the loop looks at the times every
500 ms whatever else happens. The network, the server and the program owe nothing, and time need not pass.

Deadlock is checked in all runs but HttpAsync: stuttering steps are named (`Terminated`, `Done`, `Fruitless`) and
enabled only where the process is gone, the bound reached, or a call does nothing. HttpAsync really may stop: once
`waitForAllDone` has returned nothing more has to happen. In `TestFrame` a state from which only
`Tick` is possible for ever is not a deadlock; that is what the liveness properties are for.

**What the five violations show**

- `StartBarrierOpens`: the broadcast at testframe.cpp:66 is sent once, a second after the threads were
  created. A worker that comes to its `Wait` later waits for ever if no frequency is set. `PreExecute`
  runs under the mutex, one worker after the other, so this needs no exotic scheduling.
- `FinalReportComplete`: a test with a quota ends when the last request has been *begun*; requests under
  way are dropped and the last report does not count them.
- `HealthIsPercentage`: timeouts are counted before their requests, so `cTotalCount - cTimeoutCount` can
  be below zero, which in `unsigned long long` is a huge percentage. It needs a threshold, which the
  shipped `main` does not set (the call is commented out).
- `SuccessMeansAnswer`: a timeout returns `SDK_SUCCESS` with an empty buffer. `TestCase_IOT` is saved by
  looking for a text in the answer, which an empty one does not have (`SuccessesAnswered`).
- `AllDoneMeansDone`: a job taken from `_jobqueue` whose worker has not reached `_busthread` is in neither,
  and `_bAllDone` may be true from earlier: `waitForAllDone` returns true before the job has begun.
  `MissesOnlyTaken` says that this is all it can miss.

**What the passing runs show besides.** The exceptions a property names are behaviour of the code that a
reader should know:

- `HarmOnlyAtExit`: `exit(0)` destroys the log file while threads still log. A thread that comes too late
  uses a freed file, or makes a second one that nobody opens, or throws. A negative `thread_num` and a log file
  that cannot be opened end the program before that.
- `WaitsForAll`: a request added by a callback just when `waitForAllDone` found the queue empty never
  ends, although tc_http_async.h:403 says that it waits for all requests.
- `RequestsEnd`: a request that times out between `push` and the `add` to the epoll leaves its socket's
  number to another request, whose events may then be taken for those of the one that ended.
- `StaysUsable`, `DirtyIsReached`, `CountsAgree` of the hash map: the lists, marks and owners of units survive every
  crash, as the comments at tc_hashmap.cpp:658 and 681 claim, at the price of lost units. What does not
  survive is the data of the block a process was killed in: it may be torn, or, killed between `makeNew` and the
  data, unreadable, and then, while it is the last of its bucket, `set` of a key that is not there fails until
  `recover` or an eviction removes it. A process killed in `set` or `setDirty` may leave a dirty block
  behind the mark of the dirty blocks, which `sync` then does not come to (`spoilt` in the properties).
- `LooksAreRight`: `isFull` is right only for records that are not as long as the ring, as an empty ring is never full;
  the model's callers push shorter ones.
- The counts of the hash map (`CountsAgree`) and of the tree (in `TreeIsSound`): `clear` does not reset
  `iOnlyKeyCount` (`stray`).
- `TreeIsSound`: the shape of the tree holds without exception. What else keeps it usable, the next part of
  `TreeIsSound`, does not hold after a crash in a `set` that makes a record shorter (`shared`): its chunks are given back
  before the notes are forgotten, so `doRecover` chains them to the record again while the allocator may give them to
  another one. The comments at tc_rbtree.cpp:1188 and :1210 say that a crash there costs free chunks at worst. What
  two records in one chunk then do to each other is left open: the behaviour ends (`May`).
- The counts of the tree and `DirtyIsReached` of it (both in `TreeIsSound`) do not hold after a crash between a flag, written without a note
  (tc_rbtree.cpp:679, :696, :706, and in `sync`), and the end of the call: the count, noted, is undone, the flag stays (`spoilt`).
- A process killed while it copies a record leaves it torn. Where its chunks were undone, `getBlockData` asserts
  (tc_rbtree.cpp:741) in every `get`, eviction or `sync` that reads it, and in every `set` of a new key whose path
  passes it (`PathUnreadable`), until it is set again or deleted.
- A new record whose block can be allocated and whose chunks cannot is erased again before it is on a list, and
  the assert at tc_rbtree.cpp:930 ends the process (`Undo`).

## 4. Proofs

Every theorem holds for all values of the constants that satisfy the named assumptions of the modules. No
safety property here is inductive by itself, except `PopsInOrder`; each proof module defines the inductive
invariant `IInv` as a conjunction of named parts, with one lemma for the initial states, one for each
action or group of actions, and a last one that combines them.

**TestFrameProofs**: `TypeCorrect`, `QuotaIsRespected`, `QuotaFloorHolds` (the counter is below zero by no more
than there are workers), `NoEarlyExitHolds`, `StartBarrierIsKept`, `ThrottleIsKept`, `LoadBudgetIsImplemented`,
`Invariance`. The parts:

- `LockInv`: `cLock` names the one worker whose place says it holds it. It is needed to know that at
  most one worker stands between `TakeToken` and `RecheckToken`.
- `QuotaInv`: while the counter is not negative, `started + cRepeatCount` is the quota; afterwards
  `started` is the quota. Hence `QuotaRespected`, and with `ExitInv` (`Run` leaves its loop for a reason
  that stays true, since the counter only falls and the clock only rises) `NoEarlyExit`.
- `FloorInv`: the counter is below zero by no more than there are dead workers, as a miss kills the
  worker.
- `BarrierInv`: before `Run`'s broadcast only a spurious wakeup leads out of the barrier, and a worker
  whose `PreExecute` failed goes from there to its end only. Hence `StartBarrierHolds`.
- `ThrottleInv`: the tokens handed out in this second, the one a worker has taken and not yet checked,
  and those left in `cFrequence` add up to at most the frequency; one more in the first second after a
  spurious wakeup, when the unlocked refill can fall between the two steps. Hence `ThrottleHolds`.

The refinement is proved step by step: `TakeQuota` maps to `Start` or a stutter, `ExecuteReturns` to
`Finish`, `Exit` to `End` (from `ExitInv`), all other actions to a stutter.

**TestFrameStatisticProofs**: `TotalsAreExact`, `NothingIsPrintedTwice`, `OverallIsNotBehind`, `TypeCorrectness`.
`GroupsInv`: the counters of the second are part of the overall ones, and those printed in earlier seconds are other requests.
`LinesInv`: what was read of the second is not ahead of it, and what was read of the whole afterwards is
not behind what was read of the second. `TotalsAreExact` rests on what a sum over a finite set is (`SumOver`): one
number added to the sum of the others, whichever is taken first, by induction on the subsets (`SubsetInduct`). It
assumes that there are finitely many delays (`StatisticAssumption`): they are `int`s.

**ClientProofs**: `LagIsBounded`, `SuccessesAreAnswered`, `KillNeedsTimeout`, `TypeCorrectness`. `OrderInv`: the parts
on their way are in order and without gaps, between the answer that is read and the request sent last.
`BehindInv`: the oldest answer outstanding is behind the call by no more than timeouts, and a call that has
not seen the end of an answer has received fewer parts (`total`) than come before the next one: this is
why a call cannot return before an end of an answer has passed. `BrokenInv`: a peer refuses what is sent only
after a timeout, or in a call that waits for ever. `AnswersInv` counts the first parts that are on their way: what
has been answered is what was counted, what is on its way and what was lost.

**ThreadPoolProofs**: `PoolIsImplemented`, `OnlyTakenJobsAreMissed`, `TypeCorrectness`. `QueueInv`: jobs are queued in
the order of their numbers and each one taken is in one worker's hands; `BusyInv`: `_busthread` is the
workers that run; `ExitInv`: a worker ends only when told to; `WaitInv`: what is in the queue after
`waitForAllDone` found it empty came later; `CallInv`: which threads the loops of `start` and `stop` have seen to.

**ProgramProofs**: `HarmIsAtExit`, `WritersAreUndisturbed`, `FirstEntryIsRun`, `TypeCorrectness`. `SingletonInv`: until
the destructor is through there is main's log file or none; `LockInv`: who writes has the lock;
`LoggingInv`: until `exit` begins the file is open and everybody uses it; `HandlersInv`: a second log file is made
once at most, and when; `ConfigInv`: what is in the map is the first usable entry of each command read so far.

**SharedStructuresProofs**, the queue with a log: `UpdatesAreAtomic`, `MemQueueIsFifo`, `QueueKnowsItself`,
`TypeCorrectness`, and the invariants `LogIsSound` and `RingIsSound`. Three things are shown one after the other.

- A complete log has two entries for two different fields, and those already copied are in the control block
  (`CompleteInv`): so replaying it after a crash gives the same block whatever was copied before. `LogInv` says that
  the log is empty when a call begins to write to it.
- `Records` reads the ring from `iBegin` to `iEnd` as the code would. What it reads is unfolded one record at a time,
  at the front for `pop` and at the back for `push`, by induction on how many bytes are in use. `RingIsSound`: the ring
  is such a row of whole records in the order of their pushes, in every state between two writes; what is copied
  beyond `iEnd` is none of it until the log is complete, and a log that is complete leads to one record more or less.
  With it every step of the queue is a step of `Fifo` or a stutter: `push` and `pop` take effect at `Commit`,
  wherever processes are killed.
- `CountInv`: the counts of the control block are those of the records, modulo `CountModulus`. `QueueKnowsItself`
  has a hypothesis, `SmallRecords`: each record is shorter than the ring, and the ring holds fewer words than the
  counts can count (they are `size_t`s, so any ring in memory does). The first is needed as an empty ring takes a
  record of any length (tc_mem_queue.cpp, `isFull`), and then is not what `isFull` says.

The queue without a lock: `SQueueIsFifo`, `SQueueAsserts`, `SQueueTypes`, and the invariant `SQueueInvariant`.
`QInv` is said from where each process stands, as each works with a copy of the index that the other moves: the
bytes in use are whole records; those which the writer takes for free from the `iBegin` it has read are free still,
as the reader only frees more; those which the reader takes for records from the `iEnd` it has read are whole, as
the writer only adds to them. What the records are is taken from the lemmas about `ByteRing`.

`HashMapStaysUsable`, `HashMapCounts` and `HashMapDirtyReached` are `MapStaysUsable`, `MapCountsAgree` and
`DirtyBlocksReached` of the next module, for the instance `H` that the run checks.

**HashMapProofs**: `MapStaysUsable`, `MapCountsAgree`, `DirtyBlocksReached`, `TypeCorrectness`, and the invariants
`HashMapInvariant`, `CountsInvariant` and `ReachInvariant`, for any number of units, buckets, keys and crashes. The code has no list but only links, so the proof has two floors.

- What an update does to lists that exist. `IsPath` says that the blocks of a sequence are linked in both directions
  between a head and a tail, `IsChain` the same of a bucket, and `Links` that the list of sets, the list of gets and
  the chains of the buckets hold the same blocks, each once. An update is followed write by write through the
  operators of `BlockLists`: a block is taken out of a list (first, last, in between, alone), put on top of it, or moved to
  the top; `Block::erase` and `makeNew` do it on three lists and move the three marks in between. The definitions
  `EraseUpdates` and `MakeUpdates` cut the two into stages, in the order of the source, each of which writes fields that
  no other stage writes: what a stage leaves there is what the whole leaves there (`StagesRead`, `StagesLeave`).
- What a walk along the links finds. `Follow` goes as far as the links lead; if the blocks of a path are linked it finds
  that path and no other, by an induction over the length of the walk that takes the shortest walk that
  goes wrong. So what `StaysUsable` says with `Follow` and what the proof says with `IsPath` is the same.

`HashInv` is inductive. Its parts: `Listed`, the memory has its types and its `Links`, and the marks are on blocks of
the map; `UnitsApart`, no unit is in two blocks, in a block and free, or in a block and in the hands of the process
that `allocate`s, where a block under construction counts as in hand until `makeNew`; `StepFits`, what a process
relies on when it goes on: that the block it works on is on the map, that the tail it moves is the tail of the list of
gets, that nothing is in its hands between two calls; `ProcessTyped` and `HistoryTyped`. `StaysUsable` alone is
not inductive, as it does not say what the process in a call will write next. `Crash` needs only that the parts about the
process become empty: units in its hands are lost, `Listed` stays. From `HashMapAssumption` the proof uses
that the units are finitely many positive numbers (0 is the null address), that each key has a bucket, that `EraseCount`
is positive, and the sets the calls are taken from. That the chunks of a record are fewer than the units, or that there
is memory at all, it does not need.

`Tallied` is inductive together with `HashInv` (and was checked by TLC before it was proved). The number of all blocks and
those of the buckets change in the same step as the links, so `Sized` says of every state that they are the lengths of
the chains and the cardinality of what these hold. The other two counts are behind for a while: `Block::set` writes the
flags of a block at once and only logs the counts (`counts`), which change when the log is made. So `Flagged` is not said
of the memory but of its flags and of the counts as they will be when what is logged is made; between two calls nothing is
logged, and the two are the same. A process killed in between leaves flags without their counts: from then on (`spoilt`)
nothing is said of the two. `stray` is what `clear` forgets. Each step is then an update of the memory, of which
`EraseReads` and `MakeReads` say what the counts become, and one block more or less in a finite set (`OneApart`).

`Reaching` is inductive together with `HashInv`. That the dirty blocks are ahead of the mark (`DirtyIsReached`) is said with
places in the list of the last set, `SetOrder`: `Reach` says that the mark is on place `p`, that no block that waits has a
place behind it, and that a block which has just been passed is at most one place behind, which is where `setDirtyAfterSync`
finds it when the caller could not write it back. It needs to know more than the list:

- `KeysFit`: a key is in one block at most and in its own bucket, so that the key handed to the caller is that of the
  block the mark has passed, and no other;
- `Intact`: no block but the one being set is half written, as `sync` passes an unreadable block without writing it back;
- `CallFits`, and `Pending`: while a new block is made dirty before the mark is on it, it is the first of the list, and
  `DirtyMark` is where the mark will be.

Each update of the list is then a change of a sequence: one block added in front, taken out, or moved to the front,
of which the lemmas about `Reach` say what becomes of the places.

**HttpAsyncProofs**: `MessagesPopInOrder`; `RequestsEndOnce`, `WaitIsForAll`, `TypeCorrectness`. With
the types `PopsInOrder` is inductive; what it needs is that a set of numbers has a least one, which is
proved from the well-foundedness of finite sets. For `HttpAsync`, a request is not made, live or ended
(`Others`), but for the one in the hands of `run`, whose place says how far its end has come (`Hands`); `Waits`: what
`waitForAllDone` has seen lasts, as only `doAsyncRequest` fills the queue. Every step of `HttpAsync` is a step of the queue or leaves
it alone, so that `PopsInOrder` holds there too.

The type invariants of `Client`, `TestFrameStatistic`, `ThreadPool`, `Program`, `HttpAsync` and `HashMap` are proved and not
named by runs; `SharedTypeOK` of `MCSharedMemory` has no theorem, as the tree has a part in it: those of the other
three structures are `TypeCorrectness`, `SQueueTypes` and `TypeCorrectness` of `HashMapProofs`.

Only model-checked:

- the liveness properties: temporal reasoning about fairness is outside what the prover does here;
- `NothingSkipped`, which is about the hash map and the tree together. For the hash map alone it is within reach of
  `HashInv` and not proved: it needs, for each of three marks on two lists and in every step, which blocks are ahead of it;
- all of `RBTree`. It has RECURSIVE operators, in whose presence the prover has no arithmetic.

What is left to prove is `NothingSkipped` of the hash map, as an action property from `HashInv` and `Reaching`.

## 5. Not modelled

- What the program prints, apart from the reads of counters it takes; the text of requests and answers.
- `TestFrameStatistic` with a wall clock that is set back while a request is under way (negative delays),
  and its counters at the limit of their 32 bits.
- In `Client` the choice among several servers, and a `send` that takes only part of a request.
- `Signal`, `WaitFor`, `WaitUntil` of `Condition`, `Client::SendNRecv`: nothing calls or defines them.
- In `Program` a configuration file that is missing or no JSON array, which ends the program at once. That
  `parse` skips entries without `times_limit`, `frequence` or `log_file`, although comments in `main` treat
  limits as optional, is modelled, and no property says it should be otherwise.
- In `ThreadPool` the data kept for each thread, the destructor, several threads that wait or that start
  and stop at once, `push_front` and `swap` of the queue, and `_bTerminate` read without a lock (it is seen at the
  latest after the next operation on the queue).
- In `MemQueue` memory that is not new at `create`, which does not clear the redo log; in both queues, messages as long
  as the ring. `SQueue` on a processor that reorders stores. `TC_MemVector`.
- In `HashMap` the iterators, `dump` and `load`, `append`, the items with which callers lock buckets, the counts
  of gets and hits, more than one block under way between `sync` and `setDirtyAfterSync`, a crash inside `clear`, and the
  sizes of chunks beyond their number.
- In `RBTree` the iterators without a lock, whose `prevItem` turns round when its key was erased
  (tc_rbtree.cpp:1817), `append`, `dump` and `load`, the read-only switch, the counts of gets, hits and chunks, and the
  log's limit of 1000 entries: `incChunkCount` notes every chunk, though tc_rbtree.h:1791 says the count is updated
  directly, so that a record of hundreds of chunks overruns it. What a record torn within its chunks reads as.
- In `HttpAsync` the destructor, which drops requests that have not ended; proxy and bind addresses; a limit below
  one second for `waitForAllDone`, which ends after one wait (tc_http_async.cpp:328); callbacks other than
  `onReceive` that throw; requests added by callbacks other than the last, or by the program after
  `waitForAllDone`; a request that is sent in several pieces; numbers of messages that come round after 2^32.
- The compact and the multi-key hash map and the vector in shared memory: the maps use the redo log
  that `MemQueue` shows and lists and marks like those of `HashMap`; nothing in the repository calls them.
- The logger, wrappers of system calls, sockets, HTTP text, XML, encodings, files and string helpers: sequential code without
  a protocol, or code that the program does not call.

These parts of src/tcinclude are nine tenths of the lines of the repository; the program's own code
(src/src) is modelled but for what it prints and the text it exchanges. So the lines that `PROJECT.json` maps
are some 10% of all, and most of the program.
