---------------------------- MODULE MCHttpAsync -----------------------------
(***************************************************************************)
(* HttpAsync for TLC, which uses the queue without pop and swap, next to a *)
(* program that uses the queue itself.                                     *)
(***************************************************************************)
EXTENDS HttpAsync

VARIABLE user       \* "http" or "program"

MCVars == <<user, vars>>

\* The numbers of the sockets are interchangeable, so that the first request that gets
\* one gets this.  (A SYMMETRY would not do beside liveness.)
FirstFd == CHOOSE f \in Fds : TRUE

MCInit == Init /\ user \in {"http", "program"}

MCNext ==
    \/ /\ user = "http" /\ Next /\ UNCHANGED user
       /\ fd'[1] \in {Invalid, FirstFd}
    \/ /\ user = "program" /\ QueueNext
       /\ UNCHANGED <<user, connections, issue, working, terminate, waiting, history>>

MCSpec == MCInit /\ [][MCNext]_MCVars /\ (user = "http" => Fairness)
=============================================================================
