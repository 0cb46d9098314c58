------------------------------ MODULE Program ------------------------------
(***************************************************************************)
(* The program of src/src/testexample.cpp around the load scheduler: main  *)
(* loads the configuration, opens the log file, sets the settings and      *)
(* calls TestFrame::Run, whose threads log the answers they get; Run ends  *)
(* the process with exit(0), which destroys the log file, a TC_Singleton,  *)
(* while the threads go on.                                                *)
(*                                                                         *)
(* What Run and the threads do until then is TestFrame's.  Here a thread   *)
(* gets an answer, or not, as often as it likes, and Run ends at any time, *)
(* also because a thread cannot be created.  When the code uses a log file *)
(* that is closed or freed, or none, the outcome is "undefined"; when an   *)
(* assert fails or a thread does not catch an exception it is "aborted".   *)
(***************************************************************************)
EXTENDS LoadConfig, FiniteSets

CONSTANTS
    Configurations,     \* the configuration files: sequences of entries
    Commands,           \* the commands asked for, as unsigned int
    MaxThreads          \* bound: the greatest thread_num of Configurations

ASSUME ProgramAssumption ==
    /\ MaxThreads \in Nat \ {0}
    /\ \A file \in Configurations : Len(file) \in Nat /\ DOMAIN file = 1..Len(file)

Workers == 1..MaxThreads

\* The log files: the one main makes, and another one.
First == 1
Second == 2
NoLog == 0

VARIABLES
    entries,    \* the configuration file
    command,    \* argv[2]
    main,       \* where main is
    index,      \* the entry the loop of parse is at
    config,     \* _config_list: the CmdInfo of each command loaded
    outcome,    \* "running", "ended", "aborted" or "undefined"
    \* The static members of TC_Singleton<log_file>, and the calls atexit has noted
    pInstance, destroyed, tl, handlers,
    \* Each log_file: its _handle, "none" before it is made, and who has its _lock
    handle, lock,
    \* The threads of TestFrame
    pc,         \* where each is in TestCase_IOT::Execute, "none" before it is created
    log         \* the log_file it is using

loading == <<entries, command, index, config>>
singleton == <<pInstance, destroyed, tl, handlers>>
threads == <<pc, log>>
vars == <<loading, main, outcome, singleton, handle, lock, threads>>

Nobody == 0
Main == MaxThreads + 1

Init ==
    /\ entries \in Configurations /\ command \in Commands
    /\ main = "parse" /\ index = 1 /\ config = <<>>
    /\ outcome = "running"
    /\ pInstance = NoLog /\ destroyed = FALSE /\ tl = Nobody /\ handlers = 0
    /\ handle = [f \in {First, Second} |-> "none"]
    /\ lock = [f \in {First, Second} |-> Nobody]
    /\ pc = [w \in Workers |-> "none"] /\ log = [w \in Workers |-> NoLog]

Running == outcome = "running"

\* The process is over.
Over(how) ==
    /\ outcome' = how
    /\ UNCHANGED <<loading, main, singleton, handle, lock, threads>>

-----------------------------------------------------------------------------
(* main, up to Run                                                         *)

\* Mutant: a later entry of the same command replaces the first.
InsertLast(new) ==
    config' = [c \in DOMAIN config \cup {new.cmd} |-> IF c = new.cmd THEN new ELSE config[c]]

\* map::insert keeps what is there.
Insert(new) ==
    config' = [c \in DOMAIN config \cup {new.cmd} |->
                 IF c \in DOMAIN config THEN config[c] ELSE new]

ParseEntry ==
    /\ Running /\ main = "parse" /\ index <= Len(entries)
    /\ index' = index + 1
    /\ IF HasCommand(entries[index]) /\ HasSettings(entries[index])
         THEN \E n \in Servers(entries[index]) : Insert(CmdInfo(entries[index], n))
         ELSE UNCHANGED config
    /\ UNCHANGED <<entries, command, main, outcome, singleton, handle, lock, threads>>

ParseFails ==
    /\ Running /\ main = "parse" /\ index <= Len(entries)
    /\ HasCommand(entries[index]) /\ Unreadable(entries[index])
    /\ Over("undefined")

\* get_config: an unknown command ends the program.
Lookup ==
    /\ Running /\ main = "parse" /\ index > Len(entries)
    /\ main' = IF command \in DOMAIN config THEN "log" ELSE "exit"
    /\ UNCHANGED <<loading, outcome, singleton, handle, lock, threads>>

info == config[command]

\* Mutant: the log file is left to whoever writes to it first.
OpenLogLater ==
    /\ Running /\ main = "log"
    /\ main' = "logging"
    /\ UNCHANGED <<loading, outcome, singleton, handle, lock, threads>>

\* Main is alone: getInstance makes the log file; the result of Init, whether the file
\* could be opened, is not looked at.
OpenLog ==
    /\ Running /\ main = "log"
    /\ main' = "logging"
    /\ IF info.log_file
         THEN /\ pInstance' = First /\ handlers' = 1
              /\ \E h \in {"open", "null"} : handle' = [handle EXCEPT ![First] = h]
         ELSE UNCHANGED <<pInstance, handlers, handle>>
    /\ UNCHANGED <<loading, outcome, destroyed, tl, lock, threads>>

\* The first line of the log, and then Run, which has an array of as many threads.
FirstLine ==
    /\ Running /\ main = "logging"
    /\ IF handle[First] = "null" \/ Settings(info).threads < 0 THEN Over("undefined")
       ELSE main' = "run" /\ UNCHANGED <<loading, outcome, singleton, handle, lock, threads>>

CreateThread(w) ==
    /\ Running /\ main = "run"
    /\ w <= Settings(info).threads /\ pc[w] = "none"
    /\ \A v \in 1..(w - 1) : pc[v] # "none"
    /\ pc' = [pc EXCEPT ![w] = "execute"]
    /\ UNCHANGED <<loading, main, outcome, singleton, handle, lock, log>>

\* Run calls exit: its test is over, or pthread_create has failed.
RunEnds ==
    /\ Running /\ main = "run"
    /\ main' = "exit"
    /\ UNCHANGED <<loading, outcome, singleton, handle, lock, threads>>

-----------------------------------------------------------------------------
(* exit                                                                    *)

\* exit calls destroySingleton as often as getInstance has asked for it, even if that
\* was after exit began.
destroySingleton ==
    /\ Running /\ main = "exit" /\ handlers > 0
    /\ IF destroyed THEN Over("aborted")
       ELSE main' = "close" /\ UNCHANGED <<loading, outcome, singleton, handle, lock, threads>>

\* Mutant: the destructor does not take the lock.
CloseUnlocked ==
    /\ Running /\ main = "close"
    /\ main' = "unlock"
    /\ handle' = [handle EXCEPT ![pInstance] = "closed"]
    /\ lock' = [lock EXCEPT ![pInstance] = Main]
    /\ UNCHANGED <<loading, outcome, singleton, threads>>

\* Mutant: the destructor waits until no thread has the pointer any more.
CloseUnused ==
    /\ Running /\ main = "close" /\ \A w \in Workers : log[w] # pInstance
    /\ main' = "unlock"
    /\ lock' = [lock EXCEPT ![pInstance] = Main]
    /\ handle' = [handle EXCEPT ![pInstance] = "closed"]
    /\ UNCHANGED <<loading, outcome, singleton, threads>>

\* ~log_file: the lock is taken, waiting for a thread that writes, and the file closed.
Close ==
    /\ Running /\ main = "close" /\ lock[pInstance] = Nobody
    /\ main' = "unlock"
    /\ lock' = [lock EXCEPT ![pInstance] = Main]
    /\ handle' = [handle EXCEPT ![pInstance] = "closed"]
    /\ UNCHANGED <<loading, outcome, singleton, threads>>

UnlockClosed ==
    /\ Running /\ main = "unlock"
    /\ main' = "free"
    /\ lock' = [lock EXCEPT ![pInstance] = Nobody]
    /\ UNCHANGED <<loading, outcome, singleton, handle, threads>>

\* ~MutexLock asserts that the mutex is not locked; then the memory is freed.
Free ==
    /\ Running /\ main = "free"
    /\ IF lock[pInstance] # Nobody THEN Over("aborted")
       ELSE /\ handle' = [handle EXCEPT ![pInstance] = "freed"]
            /\ main' = "forget"
            /\ UNCHANGED <<loading, outcome, singleton, lock, threads>>

Forget ==
    /\ Running /\ main = "forget"
    /\ pInstance' = NoLog
    /\ main' = "mark"
    /\ UNCHANGED <<loading, outcome, destroyed, tl, handlers, handle, lock, threads>>

MarkDestroyed ==
    /\ Running /\ main = "mark"
    /\ destroyed' = TRUE /\ handlers' = handlers - 1
    /\ main' = "exit"
    /\ UNCHANGED <<loading, outcome, pInstance, tl, handle, lock, threads>>

End ==
    /\ Running /\ main = "exit" /\ handlers = 0
    /\ Over("ended")

-----------------------------------------------------------------------------
(* TestCase_IOT::Execute of one thread, as far as the log is concerned     *)

Goto(w, place) == pc' = [pc EXCEPT ![w] = place]

\* An answer comes and is to be logged.  PreExecute sends nothing, since pre_req is
\* never read from the configuration.
Answer(w) ==
    /\ Running /\ pc[w] = "execute"
    /\ info.log_file /\ info.servers > 0
    /\ Goto(w, "get")
    /\ UNCHANGED <<loading, main, outcome, singleton, handle, lock, log>>

\* getInstance: the first check, without the lock.
FirstCheck(w) ==
    /\ Running /\ pc[w] = "get"
    /\ Goto(w, IF pInstance # NoLog THEN "return" ELSE "create")
    /\ UNCHANGED <<loading, main, outcome, singleton, handle, lock, log>>

SecondCheck(w) ==
    /\ Running /\ pc[w] = "create" /\ tl = Nobody
    /\ IF pInstance # NoLog THEN Goto(w, "return") /\ UNCHANGED tl
       ELSE Goto(w, "new") /\ tl' = w
    /\ UNCHANGED <<loading, main, outcome, pInstance, destroyed, handlers, handle, lock, log>>

\* deadReference throws; else a log file is made which nobody will open.
Create(w) ==
    /\ Running /\ pc[w] = "new"
    /\ IF destroyed THEN Over("aborted")
       ELSE /\ pInstance' = Second /\ handle' = [handle EXCEPT ![Second] = "null"]
            /\ handlers' = handlers + 1
            /\ tl' = Nobody
            /\ Goto(w, "return")
            /\ UNCHANGED <<loading, main, outcome, destroyed, lock, log>>

\* The pointer is read again for the return, and may be gone by then.
ReturnInstance(w) ==
    /\ Running /\ pc[w] = "return"
    /\ log' = [log EXCEPT ![w] = pInstance]
    /\ Goto(w, "lock")
    /\ UNCHANGED <<loading, main, outcome, singleton, handle, lock>>

Alive(f) == f # NoLog /\ handle[f] # "freed"

\* log(): SmartLock, fputs, and the end of SmartLock.
LockLog(w) ==
    /\ Running /\ pc[w] = "lock"
    /\ IF ~Alive(log[w]) THEN Over("undefined")
       ELSE /\ lock[log[w]] = Nobody
            /\ lock' = [lock EXCEPT ![log[w]] = w]
            /\ Goto(w, "write")
            /\ UNCHANGED <<loading, main, outcome, singleton, handle, log>>

Write(w) ==
    /\ Running /\ pc[w] = "write"
    /\ IF handle[log[w]] # "open" THEN Over("undefined")
       ELSE /\ Goto(w, "unlock")
            /\ UNCHANGED <<loading, main, outcome, singleton, handle, lock, log>>

UnlockLog(w) ==
    /\ Running /\ pc[w] = "unlock"
    /\ IF ~Alive(log[w]) THEN Over("undefined")
       ELSE /\ lock' = [lock EXCEPT ![log[w]] = Nobody]
            /\ log' = [log EXCEPT ![w] = NoLog]
            /\ Goto(w, "execute")
            /\ UNCHANGED <<loading, main, outcome, singleton, handle>>

-----------------------------------------------------------------------------
Startup == ParseEntry \/ ParseFails \/ Lookup \/ OpenLog \/ FirstLine

Exit == destroySingleton \/ Close \/ UnlockClosed \/ Free \/ Forget \/ MarkDestroyed \/ End

Thread(w) == Answer(w) \/ FirstCheck(w) \/ SecondCheck(w) \/ Create(w) \/ ReturnInstance(w)
             \/ LockLog(w) \/ Write(w) \/ UnlockLog(w)

Terminated == ~Running /\ UNCHANGED vars

Next == Startup \/ RunEnds \/ Exit \/ Terminated
        \/ \E w \in Workers : CreateThread(w) \/ Thread(w)

Spec == Init /\ [][Next]_vars

(***************************************************************************)
(* Threads go on, and a thread between two lines of the log waits for the  *)
(* network, so that whoever waits for the lock gets it (SF).  Run need not *)
(* end, answers need not come.                                             *)
(***************************************************************************)
Fairness ==
    /\ WF_vars(Startup)
    /\ WF_vars(Exit)
    /\ SF_vars(Close)
    /\ \A w \in Workers : WF_vars(Write(w) \/ UnlockLog(w))

FairSpec == Spec /\ Fairness

-----------------------------------------------------------------------------
(* Properties                                                              *)

TypeOK ==
    /\ main \in {"parse", "log", "logging", "run", "exit", "close", "unlock", "free",
                 "forget", "mark"}
    /\ index \in 1..(Len(entries) + 1)
    /\ outcome \in {"running", "ended", "aborted", "undefined"}
    /\ pInstance \in {NoLog, First, Second} /\ destroyed \in BOOLEAN
    /\ tl \in Workers \cup {Nobody} /\ handlers \in 0..2
    /\ handle \in [{First, Second} -> {"none", "open", "null", "closed", "freed"}]
    /\ lock \in [{First, Second} -> Workers \cup {Nobody, Main}]
    /\ pc \in [Workers -> {"none", "execute", "get", "create", "new", "return", "lock",
                           "write", "unlock"}]
    /\ log \in [Workers -> {NoLog, First, Second}]

Exiting == main \in {"exit", "close", "unlock", "free", "forget", "mark"}

\* The program goes wrong in three ways only: a part of ip_port without a colon, a log
\* file that cannot be opened or a number of threads below zero, before the threads are
\* created; or, when it logs, during exit(0), which does not stop the threads
\* (testframe.cpp:116-118, destroySingleton).  Until then no thread is ever without an
\* open log file.
HarmOnlyAtExit ==
    outcome \in {"aborted", "undefined"} =>
        \/ main = "parse" /\ Unreadable(entries[index])
        \/ main = "logging" /\ (handle[First] = "null" \/ Settings(info).threads < 0)
        \/ Exiting /\ info.log_file /\ \E w \in Workers : pc[w] # "none"

\* The destructor of the log file does not close it while a thread writes to it: what
\* goes wrong at exit is that a thread comes too late, never that a line is cut in two
\* (log_file::log, ~log_file).
WritersUndisturbed ==
    \A w \in Workers :
        (pc[w] \in {"write", "unlock"} /\ log[w] = First) =>
            /\ lock[First] = w
            /\ pc[w] = "unlock" => handle[First] = "open"

\* What main runs is the first entry of the file that can be used for its command, for
\* every number in the range of an int with the very values of the file (parse,
\* get_config, main).
FirstEntryRuns ==
    main \notin {"parse", "exit"} =>
        LET usable == {i \in DOMAIN entries :
                         /\ HasSettings(entries[i])
                         /\ HasCommand(entries[i]) /\ getInt(entries[i]["cmd"]) = command}
            first == entries[CHOOSE i \in usable : \A j \in usable : i <= j]
            Kept(setting, name) ==
                LET n == first[name].number IN n \in 0..IntMax => setting = n
        IN  /\ usable # {}
            /\ Kept(Settings(info).threads, "thread_num")
            /\ Kept(Settings(info).duration, "load_test_time")
            /\ Kept(Settings(info).repeat, "times_limit")
            /\ Kept(Settings(info).frequence, "frequence")

\* A process that calls exit ends: the destructor of the log file, which waits for the
\* lock the threads use, does not wait for ever.
ExitEnds == Exiting ~> ~Running
=============================================================================
