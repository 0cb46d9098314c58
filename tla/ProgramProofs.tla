--------------------------- MODULE ProgramProofs ---------------------------
(***************************************************************************)
(* Proofs about Program, for any configuration files and any number of     *)
(* threads: what may go wrong with the log file, and when.                 *)
(***************************************************************************)
EXTENDS Program, TLAPS

\* A step of the program, or none, under the names of the actions.
LEMMA NextCases ==
    ASSUME [Next]_vars
    PROVE  \/ ParseEntry \/ ParseFails \/ Lookup \/ OpenLog \/ FirstLine \/ RunEnds
           \/ destroySingleton \/ Close \/ UnlockClosed \/ Free \/ Forget
           \/ MarkDestroyed \/ End
           \/ \E w \in Workers :
                 \/ CreateThread(w) \/ Answer(w) \/ FirstCheck(w) \/ SecondCheck(w)
                 \/ Create(w) \/ ReturnInstance(w) \/ LockLog(w) \/ Write(w)
                 \/ UnlockLog(w)
           \/ UNCHANGED vars
BY DEF Next, Startup, Exit, Thread, Terminated

\* The owner of a lock is known: a thread, main or nobody.
LEMMA WorkersDiffer == Main \notin Workers /\ Nobody \notin Workers /\ Main # Nobody
BY ProgramAssumption DEF Main, Nobody, Workers, ProgramAssumption

-----------------------------------------------------------------------------
MainPcs == {"parse", "log", "logging", "run", "exit", "close", "unlock", "free", "forget",
            "mark"}
Places == {"none", "execute", "get", "create", "new", "return", "lock", "write", "unlock"}

Shape ==
    /\ main \in MainPcs /\ outcome \in {"running", "ended", "aborted", "undefined"}
    /\ pInstance \in {NoLog, First, Second} /\ handlers \in Int
    /\ handle \in [{First, Second} -> {"none", "open", "null", "closed", "freed"}]
    /\ lock \in [{First, Second} -> Workers \cup {Nobody, Main}]
    /\ pc \in [Workers -> Places]
    /\ log \in [Workers -> {NoLog, First, Second}]

NoThreads == \A w \in Workers : pc[w] = "none"

\* The log file of main is there and nobody makes another one.
LogOpen ==
    /\ pInstance = First /\ handlers = 1 /\ ~destroyed
    /\ \A w \in Workers : pc[w] # "new"

\* There is no log file, and nobody asks for one.
NoLogFile ==
    /\ handlers = 0 /\ pInstance = NoLog /\ ~destroyed
    /\ main \in {"logging", "run"} => ~info.log_file
    /\ NoThreads \/ (~info.log_file /\ \A w \in Workers : pc[w] \in {"none", "execute"})

\* Until the destructor is through, the singleton is the log file of main, or there
\* is none; afterwards it is marked as destroyed.
SingletonInv ==
    /\ main \in {"parse", "log", "logging"} => NoThreads
    /\ main \in {"parse", "log"} => NoLogFile
    /\ main \in {"logging", "run", "exit"} => LogOpen \/ NoLogFile \/ (main = "exit" /\ destroyed)
    /\ main \in {"close", "unlock", "free", "forget"} => LogOpen
    /\ main = "mark" => ~destroyed

\* Who writes to a log file has its lock, and the file is open when it is written to;
\* the destructor has the lock while it closes the file.
LockInv ==
    /\ \A w \in Workers : pc[w] \in {"write", "unlock"} =>
         /\ log[w] \in {First, Second} /\ lock[log[w]] = w
         /\ (pc[w] = "unlock" /\ log[w] = First) => handle[First] = "open"
    /\ main = "unlock" <=> lock[First] = Main

WriterInv == Shape /\ SingletonInv /\ LockInv

\* At first there is no log file and no thread.
LEMMA InitWriterInv == Init => WriterInv
BY WorkersDiffer DEF Init, WriterInv, Shape, SingletonInv, LockInv, NoThreads, NoLogFile, MainPcs,
                     Places, First, Second, NoLog

\* Every variable keeps its type.
LEMMA NextShape ==
    ASSUME Shape, [Next]_vars
    PROVE  Shape'
<1> USE WorkersDiffer DEF loading, singleton, threads, Over, Goto, Shape, MainPcs,
     Places
<1>1. CASE ParseEntry
  BY <1>1 DEF ParseEntry
<1>2. CASE ParseFails
  BY <1>2 DEF ParseFails
<1>3. CASE Lookup
  BY <1>3 DEF Lookup
<1>4. CASE OpenLog
  BY <1>4 DEF OpenLog
<1>5. CASE FirstLine
  BY <1>5 DEF FirstLine
<1>6. CASE RunEnds
  BY <1>6 DEF RunEnds
<1>7. CASE destroySingleton
  BY <1>7 DEF destroySingleton
<1>8. CASE Close
  BY <1>8 DEF Close
<1>9. CASE UnlockClosed
  BY <1>9 DEF UnlockClosed
<1>10. CASE Free
  BY <1>10 DEF Free
<1>11. CASE Forget
  BY <1>11 DEF Forget
<1>12. CASE MarkDestroyed
  BY <1>12 DEF MarkDestroyed
<1>13. CASE End
  BY <1>13 DEF End
<1>14. ASSUME NEW w \in Workers, CreateThread(w)
       PROVE  Shape'
  BY <1>14 DEF CreateThread
<1>15. ASSUME NEW w \in Workers, Answer(w)
       PROVE  Shape'
  BY <1>15 DEF Answer
<1>16. ASSUME NEW w \in Workers, FirstCheck(w)
       PROVE  Shape'
  BY <1>16 DEF FirstCheck
<1>17. ASSUME NEW w \in Workers, SecondCheck(w)
       PROVE  Shape'
  BY <1>17 DEF SecondCheck
<1>18. ASSUME NEW w \in Workers, Create(w)
       PROVE  Shape'
  BY <1>18 DEF Create
<1>19. ASSUME NEW w \in Workers, ReturnInstance(w)
       PROVE  Shape'
  BY <1>19 DEF ReturnInstance
<1>20. ASSUME NEW w \in Workers, LockLog(w)
       PROVE  Shape'
  BY <1>20 DEF LockLog
<1>21. ASSUME NEW w \in Workers, Write(w)
       PROVE  Shape'
  BY <1>21 DEF Write
<1>22. ASSUME NEW w \in Workers, UnlockLog(w)
       PROVE  Shape'
  BY <1>22 DEF UnlockLog
<1>23. CASE UNCHANGED vars
  BY <1>23 DEF vars
<1> QED
  BY <1>1, <1>2, <1>3, <1>4, <1>5, <1>6, <1>7, <1>8, <1>9, <1>10, <1>11, <1>12, <1>13,
     <1>14, <1>15, <1>16, <1>17, <1>18, <1>19, <1>20, <1>21, <1>22, <1>23, NextCases

\* The singleton and the main thread stay in step.
LEMMA NextSingletonInv ==
    ASSUME WriterInv, [Next]_vars
    PROVE  SingletonInv'
<1> USE WorkersDiffer DEF loading, singleton, threads, Over, Goto, WriterInv, Shape,
     SingletonInv, LogOpen, NoLogFile, NoThreads, info, First, Second, NoLog, MainPcs
<1>1. CASE ParseEntry
  BY <1>1 DEF ParseEntry
<1>2. CASE ParseFails
  BY <1>2 DEF ParseFails
<1>3. CASE Lookup
  BY <1>3 DEF Lookup
<1>4. CASE OpenLog
  BY <1>4 DEF OpenLog
<1>5. CASE FirstLine
  BY <1>5 DEF FirstLine
<1>6. CASE RunEnds
  BY <1>6 DEF RunEnds
<1>7. CASE destroySingleton
  BY <1>7 DEF destroySingleton
<1>8. CASE Close
  BY <1>8 DEF Close
<1>9. CASE UnlockClosed
  BY <1>9 DEF UnlockClosed
<1>10. CASE Free
  BY <1>10 DEF Free
<1>11. CASE Forget
  BY <1>11 DEF Forget
<1>12. CASE MarkDestroyed
  BY <1>12 DEF MarkDestroyed
<1>13. CASE End
  BY <1>13 DEF End
<1>14. ASSUME NEW w \in Workers, CreateThread(w)
       PROVE  SingletonInv'
  BY <1>14 DEF CreateThread
<1>15. ASSUME NEW w \in Workers, Answer(w)
       PROVE  SingletonInv'
  BY <1>15 DEF Answer
<1>16. ASSUME NEW w \in Workers, FirstCheck(w)
       PROVE  SingletonInv'
  BY <1>16 DEF FirstCheck
<1>17. ASSUME NEW w \in Workers, SecondCheck(w)
       PROVE  SingletonInv'
  BY <1>17 DEF SecondCheck
<1>18. ASSUME NEW w \in Workers, Create(w)
       PROVE  SingletonInv'
  BY <1>18 DEF Create
<1>19. ASSUME NEW w \in Workers, ReturnInstance(w)
       PROVE  SingletonInv'
  BY <1>19 DEF ReturnInstance
<1>20. ASSUME NEW w \in Workers, LockLog(w)
       PROVE  SingletonInv'
  BY <1>20 DEF LockLog
<1>21. ASSUME NEW w \in Workers, Write(w)
       PROVE  SingletonInv'
  BY <1>21 DEF Write
<1>22. ASSUME NEW w \in Workers, UnlockLog(w)
       PROVE  SingletonInv'
  BY <1>22 DEF UnlockLog
<1>23. CASE UNCHANGED vars
  BY <1>23 DEF vars
<1> QED
  BY <1>1, <1>2, <1>3, <1>4, <1>5, <1>6, <1>7, <1>8, <1>9, <1>10, <1>11, <1>12, <1>13,
     <1>14, <1>15, <1>16, <1>17, <1>18, <1>19, <1>20, <1>21, <1>22, <1>23, NextCases

\* The lock of a log file stays with whoever uses the file.
LEMMA NextLockInv ==
    ASSUME WriterInv, [Next]_vars
    PROVE  LockInv'
<1> USE WorkersDiffer DEF loading, singleton, threads, Over, Goto, WriterInv, Shape,
     SingletonInv, LogOpen, NoLogFile, NoThreads, LockInv, First, Second, NoLog,
     MainPcs, Alive
<1>1. CASE ParseEntry
  BY <1>1 DEF ParseEntry
<1>2. CASE ParseFails
  BY <1>2 DEF ParseFails
<1>3. CASE Lookup
  BY <1>3 DEF Lookup
<1>4. CASE OpenLog
  BY <1>4 DEF OpenLog
<1>5. CASE FirstLine
  BY <1>5 DEF FirstLine
<1>6. CASE RunEnds
  BY <1>6 DEF RunEnds
<1>7. CASE destroySingleton
  BY <1>7 DEF destroySingleton
<1>8. CASE Close
  BY <1>8 DEF Close
<1>9. CASE UnlockClosed
  BY <1>9 DEF UnlockClosed
<1>10. CASE Free
  BY <1>10 DEF Free
<1>11. CASE Forget
  BY <1>11 DEF Forget
<1>12. CASE MarkDestroyed
  BY <1>12 DEF MarkDestroyed
<1>13. CASE End
  BY <1>13 DEF End
<1>14. ASSUME NEW w \in Workers, CreateThread(w)
       PROVE  LockInv'
  BY <1>14 DEF CreateThread
<1>15. ASSUME NEW w \in Workers, Answer(w)
       PROVE  LockInv'
  BY <1>15 DEF Answer
<1>16. ASSUME NEW w \in Workers, FirstCheck(w)
       PROVE  LockInv'
  BY <1>16 DEF FirstCheck
<1>17. ASSUME NEW w \in Workers, SecondCheck(w)
       PROVE  LockInv'
  BY <1>17 DEF SecondCheck
<1>18. ASSUME NEW w \in Workers, Create(w)
       PROVE  LockInv'
  BY <1>18 DEF Create
<1>19. ASSUME NEW w \in Workers, ReturnInstance(w)
       PROVE  LockInv'
  BY <1>19 DEF ReturnInstance
<1>20. ASSUME NEW w \in Workers, LockLog(w)
       PROVE  LockInv'
  BY <1>20 DEF LockLog
<1>21. ASSUME NEW w \in Workers, Write(w)
       PROVE  LockInv'
  BY <1>21 DEF Write
<1>22. ASSUME NEW w \in Workers, UnlockLog(w)
       PROVE  LockInv'
  BY <1>22 DEF UnlockLog
<1>23. CASE UNCHANGED vars
  BY <1>23 DEF vars
<1> QED
  BY <1>1, <1>2, <1>3, <1>4, <1>5, <1>6, <1>7, <1>8, <1>9, <1>10, <1>11, <1>12, <1>13,
     <1>14, <1>15, <1>16, <1>17, <1>18, <1>19, <1>20, <1>21, <1>22, <1>23, NextCases

-----------------------------------------------------------------------------
\* Only a program with a log file logs; until exit begins it is open and every thread
\* uses it; a lock that a thread has is that of the file it writes to; and when the
\* destructor is to run again, a thread has made a second log file.
LoggingInv ==
    /\ (pInstance # NoLog \/ destroyed \/ main = "mark") => info.log_file
    /\ \A w \in Workers : pc[w] \notin {"none", "execute"} => info.log_file
    /\ main \in {"logging", "run"} /\ info.log_file => handle[First] \in {"open", "null"}
    /\ main = "run" /\ info.log_file =>
         /\ handle[First] = "open"
         /\ \A w \in Workers : pc[w] \in {"lock", "write", "unlock"} => log[w] = First
    /\ \A f \in {First, Second}, w \in Workers :
         lock[f] = w => pc[w] \in {"write", "unlock"} /\ log[w] = f
    /\ main = "mark" => handlers = 1 \/ ~NoThreads
    /\ destroyed => handlers = 0 \/ ~NoThreads

\* At first nobody logs.
LEMMA InitLoggingInv == Init => LoggingInv
BY WorkersDiffer DEF Init, LoggingInv, NoThreads, First, Second, NoLog

\* A step keeps what is known of the log file.
LEMMA NextLoggingInv ==
    ASSUME WriterInv, LoggingInv, [Next]_vars
    PROVE  LoggingInv'
<1> USE WorkersDiffer DEF loading, singleton, threads, Over, Goto, WriterInv, Shape,
     SingletonInv, LogOpen, NoLogFile, NoThreads, LockInv, LoggingInv, info, First,
     Second, NoLog, MainPcs, Alive
<1>1. CASE ParseEntry
  BY <1>1 DEF ParseEntry
<1>2. CASE ParseFails
  BY <1>2 DEF ParseFails
<1>3. CASE Lookup
  BY <1>3 DEF Lookup
<1>4. CASE OpenLog
  BY <1>4 DEF OpenLog
<1>5. CASE FirstLine
  BY <1>5 DEF FirstLine
<1>6. CASE RunEnds
  BY <1>6 DEF RunEnds
<1>7. CASE destroySingleton
  BY <1>7 DEF destroySingleton
<1>8. CASE Close
  BY <1>8 DEF Close
<1>9. CASE UnlockClosed
  BY <1>9 DEF UnlockClosed
<1>10. CASE Free
  BY <1>10 DEF Free
<1>11. CASE Forget
  BY <1>11 DEF Forget
<1>12. CASE MarkDestroyed
  BY <1>12 DEF MarkDestroyed
<1>13. CASE End
  BY <1>13 DEF End
<1>14. ASSUME NEW w \in Workers, CreateThread(w)
       PROVE  LoggingInv'
  BY <1>14 DEF CreateThread
<1>15. ASSUME NEW w \in Workers, Answer(w)
       PROVE  LoggingInv'
  BY <1>15 DEF Answer
<1>16. ASSUME NEW w \in Workers, FirstCheck(w)
       PROVE  LoggingInv'
  BY <1>16 DEF FirstCheck
<1>17. ASSUME NEW w \in Workers, SecondCheck(w)
       PROVE  LoggingInv'
  BY <1>17 DEF SecondCheck
<1>18. ASSUME NEW w \in Workers, Create(w)
       PROVE  LoggingInv'
  BY <1>18 DEF Create
<1>19. ASSUME NEW w \in Workers, ReturnInstance(w)
       PROVE  LoggingInv'
  BY <1>19 DEF ReturnInstance
<1>20. ASSUME NEW w \in Workers, LockLog(w)
       PROVE  LoggingInv'
  BY <1>20 DEF LockLog
<1>21. ASSUME NEW w \in Workers, Write(w)
       PROVE  LoggingInv'
  BY <1>21 DEF Write
<1>22. ASSUME NEW w \in Workers, UnlockLog(w)
       PROVE  LoggingInv'
  BY <1>22 DEF UnlockLog
<1>23. CASE UNCHANGED vars
  BY <1>23 DEF vars
<1> QED
  BY <1>1, <1>2, <1>3, <1>4, <1>5, <1>6, <1>7, <1>8, <1>9, <1>10, <1>11, <1>12, <1>13,
     <1>14, <1>15, <1>16, <1>17, <1>18, <1>19, <1>20, <1>21, <1>22, <1>23, NextCases

\* No step goes wrong but where HarmOnlyAtExit says.
LEMMA NextHarm ==
    ASSUME WriterInv, LoggingInv, HarmOnlyAtExit, [Next]_vars
    PROVE  HarmOnlyAtExit'
<1> USE WorkersDiffer DEF loading, singleton, threads, Over, Goto, WriterInv, Shape,
     SingletonInv, LogOpen, NoLogFile, NoThreads, LockInv, LoggingInv, info, First,
     Second, NoLog, MainPcs, Alive, HarmOnlyAtExit, Exiting, Running
<1>1. CASE ParseEntry
  BY <1>1 DEF ParseEntry
<1>2. CASE ParseFails
  BY <1>2 DEF ParseFails
<1>3. CASE Lookup
  BY <1>3 DEF Lookup
<1>4. CASE OpenLog
  BY <1>4 DEF OpenLog
<1>5. CASE FirstLine
  BY <1>5 DEF FirstLine
<1>6. CASE RunEnds
  BY <1>6 DEF RunEnds
<1>7. CASE destroySingleton
  BY <1>7 DEF destroySingleton
<1>8. CASE Close
  BY <1>8 DEF Close
<1>9. CASE UnlockClosed
  BY <1>9 DEF UnlockClosed
<1>10. CASE Free
  BY <1>10 DEF Free
<1>11. CASE Forget
  BY <1>11 DEF Forget
<1>12. CASE MarkDestroyed
  BY <1>12 DEF MarkDestroyed
<1>13. CASE End
  BY <1>13 DEF End
<1>14. ASSUME NEW w \in Workers, CreateThread(w)
       PROVE  HarmOnlyAtExit'
  BY <1>14 DEF CreateThread
<1>15. ASSUME NEW w \in Workers, Answer(w)
       PROVE  HarmOnlyAtExit'
  BY <1>15 DEF Answer
<1>16. ASSUME NEW w \in Workers, FirstCheck(w)
       PROVE  HarmOnlyAtExit'
  BY <1>16 DEF FirstCheck
<1>17. ASSUME NEW w \in Workers, SecondCheck(w)
       PROVE  HarmOnlyAtExit'
  BY <1>17 DEF SecondCheck
<1>18. ASSUME NEW w \in Workers, Create(w)
       PROVE  HarmOnlyAtExit'
  BY <1>18 DEF Create
<1>19. ASSUME NEW w \in Workers, ReturnInstance(w)
       PROVE  HarmOnlyAtExit'
  BY <1>19 DEF ReturnInstance
<1>20. ASSUME NEW w \in Workers, LockLog(w)
       PROVE  HarmOnlyAtExit'
  BY <1>20 DEF LockLog
<1>21. ASSUME NEW w \in Workers, Write(w)
       PROVE  HarmOnlyAtExit'
  BY <1>21 DEF Write
<1>22. ASSUME NEW w \in Workers, UnlockLog(w)
       PROVE  HarmOnlyAtExit'
  BY <1>22 DEF UnlockLog
<1>23. CASE UNCHANGED vars
  BY <1>23 DEF vars
<1> QED
  BY <1>1, <1>2, <1>3, <1>4, <1>5, <1>6, <1>7, <1>8, <1>9, <1>10, <1>11, <1>12, <1>13,
     <1>14, <1>15, <1>16, <1>17, <1>18, <1>19, <1>20, <1>21, <1>22, <1>23, NextCases

-----------------------------------------------------------------------------
\* getInstance makes a second log file once only, under its lock, after the first was
\* freed and before it is marked as destroyed.
HandlersInv ==
    /\ destroyed \in BOOLEAN /\ tl \in Workers \cup {Nobody}
    /\ \A w \in Workers : pc[w] = "new" => tl = w /\ pInstance = NoLog
    /\ main = "mark" =>
         \/ handlers = 1 /\ pInstance = NoLog
         \/ handlers = 2 /\ pInstance = Second
    /\ destroyed => handlers \in {0, 1}

\* At first exit has nothing to call.
LEMMA InitHandlersInv == Init => HandlersInv
BY DEF Init, HandlersInv, Workers, Nobody, NoLog

\* The calls noted for exit and the log files that were made stay in step.
LEMMA NextHandlersInv ==
    ASSUME WriterInv, HandlersInv, [Next]_vars
    PROVE  HandlersInv'
<1> USE WorkersDiffer DEF loading, singleton, threads, Over, Goto, WriterInv, Shape,
     SingletonInv, LogOpen, NoLogFile, NoThreads, HandlersInv, First, Second, NoLog
<1>1. CASE ParseEntry
  BY <1>1 DEF ParseEntry
<1>2. CASE ParseFails
  BY <1>2 DEF ParseFails
<1>3. CASE Lookup
  BY <1>3 DEF Lookup
<1>4. CASE OpenLog
  BY <1>4 DEF OpenLog
<1>5. CASE FirstLine
  BY <1>5 DEF FirstLine
<1>6. CASE RunEnds
  BY <1>6 DEF RunEnds
<1>7. CASE destroySingleton
  BY <1>7 DEF destroySingleton
<1>8. CASE Close
  BY <1>8 DEF Close
<1>9. CASE UnlockClosed
  BY <1>9 DEF UnlockClosed
<1>10. CASE Free
  BY <1>10 DEF Free
<1>11. CASE Forget
  BY <1>11 DEF Forget
<1>12. CASE MarkDestroyed
  BY <1>12 DEF MarkDestroyed
<1>13. CASE End
  BY <1>13 DEF End
<1>14. ASSUME NEW w \in Workers, CreateThread(w)
       PROVE  HandlersInv'
  BY <1>14 DEF CreateThread
<1>15. ASSUME NEW w \in Workers, Answer(w)
       PROVE  HandlersInv'
  BY <1>15 DEF Answer
<1>16. ASSUME NEW w \in Workers, FirstCheck(w)
       PROVE  HandlersInv'
  BY <1>16 DEF FirstCheck
<1>17. ASSUME NEW w \in Workers, SecondCheck(w)
       PROVE  HandlersInv'
  BY <1>17 DEF SecondCheck
<1>18. ASSUME NEW w \in Workers, Create(w)
       PROVE  HandlersInv'
  BY <1>18 DEF Create
<1>19. ASSUME NEW w \in Workers, ReturnInstance(w)
       PROVE  HandlersInv'
  BY <1>19 DEF ReturnInstance
<1>20. ASSUME NEW w \in Workers, LockLog(w)
       PROVE  HandlersInv'
  BY <1>20 DEF LockLog
<1>21. ASSUME NEW w \in Workers, Write(w)
       PROVE  HandlersInv'
  BY <1>21 DEF Write
<1>22. ASSUME NEW w \in Workers, UnlockLog(w)
       PROVE  HandlersInv'
  BY <1>22 DEF UnlockLog
<1>23. CASE UNCHANGED vars
  BY <1>23 DEF vars
<1> QED
  BY <1>1, <1>2, <1>3, <1>4, <1>5, <1>6, <1>7, <1>8, <1>9, <1>10, <1>11, <1>12, <1>13,
     <1>14, <1>15, <1>16, <1>17, <1>18, <1>19, <1>20, <1>21, <1>22, <1>23, NextCases

-----------------------------------------------------------------------------
\* The configuration as far as parse has read it: for each command the first entry that
\* can be used for it.  Whoever is past the lookup has found its command.
Usable(i) == HasSettings(entries[i]) /\ HasCommand(entries[i])
Cmd(i) == getInt(entries[i]["cmd"])

IsFirst(i, c) ==
    Usable(i) /\ Cmd(i) = c /\ \A j \in 1..(i - 1) : ~(Usable(j) /\ Cmd(j) = c)

Loaded(i, c) == \E n \in Servers(entries[i]) : config[c] = CmdInfo(entries[i], n)

ConfigInv ==
    /\ entries \in Configurations /\ index \in 1..(Len(entries) + 1)
    /\ \A c \in DOMAIN config : \E i \in 1..(index - 1) : IsFirst(i, c) /\ Loaded(i, c)
    /\ \A i \in 1..(index - 1) : Usable(i) => Cmd(i) \in DOMAIN config
    /\ main \notin {"parse", "exit"} \/ handlers # 0 =>
         command \in DOMAIN config /\ index = Len(entries) + 1

\* At first nothing is read.
LEMMA InitConfigInv == Init => ConfigInv
BY ProgramAssumption DEF Init, ConfigInv, ProgramAssumption

\* parse reads one more entry.
LEMMA ParseConfigInv ==
    ASSUME WriterInv, ConfigInv, ParseEntry
    PROVE  ConfigInv'
<1>1. /\ entries' = entries /\ command' = command /\ main' = main /\ handlers' = handlers
      /\ main = "parse" /\ handlers = 0 /\ index' = index + 1 /\ index <= Len(entries)
  BY DEF ParseEntry, WriterInv, SingletonInv, NoLogFile, singleton
<1>2. Len(entries) \in Nat
  BY ProgramAssumption DEF ConfigInv, ProgramAssumption
<1>3. entries' \in Configurations /\ index' \in 1..(Len(entries') + 1)
  BY <1>1, <1>2 DEF ConfigInv
<1>4. 1..(index' - 1) = 1..(index - 1) \cup {index} /\ index - 1 < index /\ index \in Nat
  BY <1>1, <1>2 DEF ConfigInv
<1>5. \A i, c : (IsFirst(i, c)' <=> IsFirst(i, c)) /\ (Usable(i)' <=> Usable(i)) /\ Cmd(i)' = Cmd(i)
  BY <1>1 DEF IsFirst, Usable, Cmd
<1>6. CASE Usable(index)
  <2>1. PICK n \in Servers(entries[index]) : Insert(CmdInfo(entries[index], n))
    BY <1>6 DEF ParseEntry, Usable
  <2> DEFINE new == CmdInfo(entries[index], n)
  <2>2. new.cmd = Cmd(index)
    BY DEF CmdInfo, Cmd
  <2>3. /\ DOMAIN config' = DOMAIN config \cup {Cmd(index)}
        /\ \A c \in DOMAIN config' : config'[c] = IF c \in DOMAIN config THEN config[c] ELSE new
    BY <2>1, <2>2 DEF Insert
  <2>4. \A i \in 1..(index' - 1) : Usable(i)' => Cmd(i)' \in DOMAIN config'
    BY <1>4, <1>5, <2>3 DEF ConfigInv
  <2>5. ASSUME NEW c \in DOMAIN config'
        PROVE  \E i \in 1..(index' - 1) : (IsFirst(i, c) /\ Loaded(i, c))'
    <3>1. CASE c \in DOMAIN config
      <4>1. PICK i \in 1..(index - 1) : IsFirst(i, c) /\ Loaded(i, c)
        BY <3>1 DEF ConfigInv
      <4>2. Loaded(i, c)'
        BY <1>1, <2>3, <3>1, <4>1 DEF Loaded
      <4> QED
        BY <1>4, <1>5, <4>1, <4>2
    <3>2. CASE c \notin DOMAIN config
      <4>1. c = Cmd(index) /\ config'[c] = new
        BY <2>3, <3>2
      <4>2. \A j \in 1..(index - 1) : ~(Usable(j) /\ Cmd(j) = c)
        BY <3>2 DEF ConfigInv
      <4>3. PICK k \in 1..(index' - 1) : k = index
        BY <1>4
      <4>4. IsFirst(k, c)
        BY <1>6, <4>1, <4>2, <4>3 DEF IsFirst
      <4>5. Loaded(k, c)'
        BY <1>1, <2>1, <4>1, <4>3 DEF Loaded
      <4> QED
        BY <1>5, <4>4, <4>5
    <3> QED
      BY <3>1, <3>2
  <2> QED
    BY <1>1, <1>3, <2>4, <2>5 DEF ConfigInv
<1>7. CASE ~Usable(index)
  <2>1. config' = config
    BY <1>7 DEF ParseEntry, Usable
  <2>2. \A i, c : Loaded(i, c)' <=> Loaded(i, c)
    BY <1>1, <2>1 DEF Loaded
  <2>3. \A i \in 1..(index' - 1) : Usable(i)' => Cmd(i)' \in DOMAIN config'
    BY <1>4, <1>5, <1>7, <2>1 DEF ConfigInv
  <2>4. \A c \in DOMAIN config' : \E i \in 1..(index' - 1) : (IsFirst(i, c) /\ Loaded(i, c))'
    BY <1>4, <1>5, <2>1, <2>2 DEF ConfigInv
  <2> QED
    BY <1>1, <1>3, <2>3, <2>4 DEF ConfigInv
<1> QED
  BY <1>6, <1>7

\* Every other step leaves the configuration alone.
LEMMA FrameConfigInv ==
    ASSUME ConfigInv, UNCHANGED loading,
           main' \notin {"parse", "exit"} \/ handlers' # 0 =>
             \/ main \notin {"parse", "exit"} \/ handlers # 0
             \/ command \in DOMAIN config /\ index = Len(entries) + 1
    PROVE  ConfigInv'
BY DEF ConfigInv, IsFirst, Loaded, Usable, Cmd, loading

\* The command is looked up when every entry is read.
LEMMA LookupConfigInv ==
    ASSUME ConfigInv, Lookup
    PROVE  ConfigInv'
<1>1. Len(entries) \in Nat
  BY ProgramAssumption DEF ConfigInv, ProgramAssumption
<1>2. index = Len(entries) + 1
  BY <1>1 DEF ConfigInv, Lookup
<1> QED
  BY <1>2, FrameConfigInv DEF Lookup, singleton

\* The configuration stays what parse has read.
LEMMA NextConfigInv ==
    ASSUME WriterInv, ConfigInv, [Next]_vars
    PROVE  ConfigInv'
<1> USE FrameConfigInv DEF loading, singleton, threads, Over, Goto
<1>1. CASE ParseEntry
  BY <1>1, ParseConfigInv
<1>2. CASE ParseFails
  BY <1>2, FrameConfigInv DEF ParseFails
<1>3. CASE Lookup
  BY <1>3, LookupConfigInv
<1>4. CASE OpenLog
  BY <1>4, FrameConfigInv DEF OpenLog
<1>5. CASE FirstLine
  BY <1>5, FrameConfigInv DEF FirstLine
<1>6. CASE RunEnds
  BY <1>6, FrameConfigInv DEF RunEnds
<1>7. CASE destroySingleton
  BY <1>7, FrameConfigInv DEF destroySingleton
<1>8. CASE Close
  BY <1>8, FrameConfigInv DEF Close
<1>9. CASE UnlockClosed
  BY <1>9, FrameConfigInv DEF UnlockClosed
<1>10. CASE Free
  BY <1>10, FrameConfigInv DEF Free
<1>11. CASE Forget
  BY <1>11, FrameConfigInv DEF Forget
<1>12. CASE MarkDestroyed
  BY <1>12, FrameConfigInv DEF MarkDestroyed
<1>13. CASE End
  BY <1>13, FrameConfigInv DEF End
<1>14. ASSUME NEW w \in Workers, CreateThread(w)
       PROVE  ConfigInv'
  BY <1>14, FrameConfigInv DEF CreateThread
<1>15. ASSUME NEW w \in Workers, Answer(w)
       PROVE  ConfigInv'
  BY <1>15, FrameConfigInv DEF Answer
<1>16. ASSUME NEW w \in Workers, FirstCheck(w)
       PROVE  ConfigInv'
  BY <1>16, FrameConfigInv DEF FirstCheck
<1>17. ASSUME NEW w \in Workers, SecondCheck(w)
       PROVE  ConfigInv'
  BY <1>17, FrameConfigInv DEF SecondCheck
<1>18. ASSUME NEW w \in Workers, Create(w)
       PROVE  ConfigInv'
  BY <1>18, FrameConfigInv DEF Create, WriterInv, Shape, SingletonInv, LogOpen, NoLogFile, NoThreads, MainPcs
<1>19. ASSUME NEW w \in Workers, ReturnInstance(w)
       PROVE  ConfigInv'
  BY <1>19, FrameConfigInv DEF ReturnInstance
<1>20. ASSUME NEW w \in Workers, LockLog(w)
       PROVE  ConfigInv'
  BY <1>20, FrameConfigInv DEF LockLog
<1>21. ASSUME NEW w \in Workers, Write(w)
       PROVE  ConfigInv'
  BY <1>21, FrameConfigInv DEF Write
<1>22. ASSUME NEW w \in Workers, UnlockLog(w)
       PROVE  ConfigInv'
  BY <1>22, FrameConfigInv DEF UnlockLog
<1>23. CASE UNCHANGED vars
  BY <1>23, FrameConfigInv DEF vars, singleton
<1> QED
  BY <1>1, <1>2, <1>3, <1>4, <1>5, <1>6, <1>7, <1>8, <1>9, <1>10, <1>11, <1>12, <1>13,
     <1>14, <1>15, <1>16, <1>17, <1>18, <1>19, <1>20, <1>21, <1>22, <1>23, NextCases

-----------------------------------------------------------------------------
\* The numbers of the file, as far as an int can hold them, come through the widths of
\* the configuration and of the setters unchanged.
LEMMA SmallModulo ==
    ASSUME NEW m \in Nat, NEW n \in 0..(m - 1)
    PROVE  n % m = n
OBVIOUS

\* An int that is not negative fits in every type it passes through.
LEMMA WidthsKeep ==
    ASSUME NEW n \in 0..IntMax
    PROVE  ToInt(n) = n /\ ToLong(n) = n /\ ToUnsigned(n) = n
<1>1. /\ IntMax \in Int /\ IntMin \in Int /\ IntMin = -IntMax - 1
      /\ IntModulus = 2 * (IntMax + 1) /\ IntMax >= 0
  BY LoadConfigAssumption DEF LoadConfigAssumption, IntMax, IntMin
<1>2. /\ n \in 0..(IntModulus - 1) /\ n - IntMin \in 0..(IntModulus - 1)
      /\ n \in 0..(LongModulus - 1) /\ IntModulus \in Nat /\ LongModulus \in Nat
  BY <1>1, LoadConfigAssumption DEF LoadConfigAssumption
<1>3. n % IntModulus = n /\ (n - IntMin) % IntModulus = n - IntMin /\ n % LongModulus = n
  BY <1>2, SmallModulo
<1> QED
  BY <1>1, <1>3 DEF ToInt, ToLong, ToUnsigned

\* ... whether it is read by json_object_get_int, which saturates, or as 64 bits.
LEMMA NumberKept ==
    ASSUME NEW json, json.number \in 0..IntMax
    PROVE  ToInt(getInt(json)) = json.number /\ ToInt(ToLong(json.number)) = json.number
<1>1. IntMax \in Int /\ IntMin \in Int /\ IntMin < 0
  BY LoadConfigAssumption DEF LoadConfigAssumption, IntMax, IntMin
<1>2. getInt(json) = ToUnsigned(json.number)
  BY <1>1 DEF getInt
<1> QED
  BY <1>2, WidthsKeep

\* What parse has read gives what FirstEntryRuns says of it.
LEMMA FirstEntryFollows == ConfigInv => FirstEntryRuns
<1> SUFFICES ASSUME ConfigInv, main \notin {"parse", "exit"}
             PROVE  FirstEntryRuns
  BY DEF FirstEntryRuns
<1>1. command \in DOMAIN config /\ index = Len(entries) + 1
  BY DEF ConfigInv
<1>2. Len(entries) \in Nat /\ DOMAIN entries = 1..Len(entries)
  BY ProgramAssumption DEF ConfigInv, ProgramAssumption
<1>3. PICK i \in DOMAIN entries : IsFirst(i, command) /\ Loaded(i, command)
  BY <1>1, <1>2 DEF ConfigInv
<1>4. PICK n \in Servers(entries[i]) : info = CmdInfo(entries[i], n)
  BY <1>3 DEF Loaded, info
<1> DEFINE usable == {j \in DOMAIN entries :
                        /\ HasSettings(entries[j])
                        /\ HasCommand(entries[j]) /\ getInt(entries[j]["cmd"]) = command}
           Least(j) == \A k \in usable : j <= k
<1>5. i \in usable /\ \A k \in usable : i <= k
  BY <1>2, <1>3 DEF IsFirst, Usable, Cmd
<1>6. (CHOOSE j \in usable : Least(j)) = i
  <2>1. \A j \in usable : Least(j) => j = i
    BY <1>2, <1>5
  <2> QED
    BY <1>5, <2>1
<1>7. /\ entries[i]["thread_num"].number \in 0..IntMax =>
           Settings(info).threads = entries[i]["thread_num"].number
      /\ entries[i]["load_test_time"].number \in 0..IntMax =>
           Settings(info).duration = entries[i]["load_test_time"].number
      /\ entries[i]["times_limit"].number \in 0..IntMax =>
           Settings(info).repeat = entries[i]["times_limit"].number
      /\ entries[i]["frequence"].number \in 0..IntMax =>
           Settings(info).frequence = entries[i]["frequence"].number
  BY <1>4, NumberKept DEF Settings, CmdInfo
<1> HIDE DEF usable, Least
<1>8. usable # {} /\ entries[CHOOSE j \in usable : Least(j)] = entries[i]
  BY <1>5, <1>6
<1> QED
  BY <1>7, <1>8 DEF FirstEntryRuns, usable, Least

-----------------------------------------------------------------------------
IInv == WriterInv /\ LoggingInv /\ HandlersInv /\ ConfigInv

\* The inductive invariant: the log file and its singleton, what the threads may use
\* of them, the calls noted for exit, and the configuration (Init, Next).
THEOREM Invariance == Spec => []IInv
<1>1. Init => IInv
  BY InitWriterInv, InitLoggingInv, InitHandlersInv, InitConfigInv DEF IInv
<1>2. IInv /\ [Next]_vars => IInv'
  BY NextShape, NextSingletonInv, NextLockInv, NextLoggingInv, NextHandlersInv,
     NextConfigInv DEF IInv, WriterInv
<1> QED
  BY <1>1, <1>2, PTL DEF Spec

-----------------------------------------------------------------------------
\* The invariant has the types: only the number of calls noted for exit needs more
\* than Shape.
LEMMA TypesFollow == IInv => TypeOK
<1> SUFFICES ASSUME IInv
             PROVE  TypeOK
  OBVIOUS
<1> USE DEF IInv, WriterInv, Shape, HandlersInv
<1>1. handlers \in 0..2
  BY DEF SingletonInv, LogOpen, NoLogFile, MainPcs
<1>2. index \in 1..(Len(entries) + 1)
  BY DEF ConfigInv
<1> QED
  BY <1>1, <1>2 DEF TypeOK, MainPcs, Places

\* Every variable keeps its type; above all exit calls destroySingleton at most twice.
THEOREM TypeCorrectness == Spec => []TypeOK
BY Invariance, TypesFollow, PTL

\* Whoever writes a line to the log file of main has its lock, and the destructor does
\* not close it until the line is written (log_file::log, ~log_file).
THEOREM WritersAreUndisturbed == Spec => []WritersUndisturbed
<1>1. IInv => WritersUndisturbed
  BY DEF IInv, WriterInv, LockInv, WritersUndisturbed
<1> QED
  BY <1>1, Invariance, PTL

\* Nothing goes wrong with the log file before exit begins, and nothing at all
\* elsewhere but on the entry without a colon, the log file that cannot be opened and
\* the number of threads below zero.
THEOREM HarmIsAtExit == Spec => []HarmOnlyAtExit
<1>1. Init => HarmOnlyAtExit
  BY DEF Init, HarmOnlyAtExit
<1>2. IInv /\ HarmOnlyAtExit /\ [Next]_vars => HarmOnlyAtExit'
  BY NextHarm DEF IInv
<1> QED
  BY <1>1, <1>2, Invariance, PTL DEF Spec

\* Whatever the file and the command: what main runs is the first entry of the file
\* that can be used for the command, with its very numbers (parse, get_config, main).
THEOREM FirstEntryIsRun == Spec => []FirstEntryRuns
<1>1. IInv => FirstEntryRuns
  BY FirstEntryFollows DEF IInv
<1> QED
  BY <1>1, Invariance, PTL
=============================================================================
