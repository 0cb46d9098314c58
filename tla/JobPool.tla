------------------------------ MODULE JobPool ------------------------------
(***************************************************************************)
(* What a pool of threads promises of the jobs it is given: they are begun *)
(* in the order they were given in, each at most once, no more of them at  *)
(* a time than the pool has threads, and none is dropped but by a pool     *)
(* that is stopping.                                                       *)
(***************************************************************************)
EXTENDS Naturals, Sequences, FiniteSets

CONSTANTS
    Threads,    \* how many threads the pool has
    MaxJobs     \* bound: how many jobs are given; a job is its number

VARIABLES
    submitted,  \* how many jobs were given
    waiting,    \* the jobs not begun, the oldest first
    running,    \* the jobs begun and not finished
    finished,   \* the jobs finished
    stopping    \* is the pool, or some of its threads, told to stop?

vars == <<submitted, waiting, running, finished, stopping>>

Init ==
    /\ submitted = 0 /\ waiting = <<>>
    /\ running = {} /\ finished = {}
    /\ stopping = FALSE

Submit ==
    /\ submitted < MaxJobs
    /\ submitted' = submitted + 1
    /\ waiting' = Append(waiting, submitted + 1)
    /\ UNCHANGED <<running, finished, stopping>>

Take ==
    /\ waiting # <<>>
    /\ Cardinality(running) < Threads
    /\ running' = running \cup {Head(waiting)}
    /\ waiting' = Tail(waiting)
    /\ UNCHANGED <<submitted, finished, stopping>>

Finish(j) ==
    /\ j \in running
    /\ running' = running \ {j}
    /\ finished' = finished \cup {j}
    /\ UNCHANGED <<submitted, waiting, stopping>>

Stop ==
    /\ stopping' = TRUE
    /\ UNCHANGED <<submitted, waiting, running, finished>>

Discard ==
    /\ stopping
    /\ waiting' = <<>>
    /\ UNCHANGED <<submitted, running, finished, stopping>>

\* Only a pool that has come to rest begins anew.
Renew ==
    /\ running = {}
    /\ stopping' = FALSE
    /\ UNCHANGED <<submitted, waiting, running, finished>>

Next == Submit \/ Take \/ (\E j \in running : Finish(j)) \/ Stop \/ Discard \/ Renew

Spec == Init /\ [][Next]_vars
=============================================================================
