----------------------------- MODULE LoadBudget -----------------------------
(***************************************************************************)
(* What the setters of src/src/testframe.h promise about a load test,      *)
(* whatever the threads that carry it out do: a budget of requests         *)
(* (SetRepeatCount), which a number of senders (SetThreadNum) draw on, one *)
(* request each at a time, and a run that ends only when the budget is     *)
(* spent or a time limit (SetDurationTime) is set and reached, unless it   *)
(* is aborted.  TestFrame implements this specification.                   *)
(***************************************************************************)
EXTENDS Integers

CONSTANTS
    Senders,    \* the threads that send
    Budgets     \* the budgets a test may be given, at least 1

Unlimited == -1 \* the budget of a test that has none

VARIABLES
    left,       \* requests that may still be started
    busy,       \* the senders with a request under way
    timed,      \* does the test have a time limit?
    outcome     \* "running", "finished" or "aborted"

budgetVars == <<left, busy, timed, outcome>>

BudgetInit ==
    /\ left \in Budgets \cup {Unlimited}
    /\ busy = {}
    /\ timed \in BOOLEAN
    /\ outcome = "running"

Start(s) ==
    /\ outcome = "running"
    /\ s \notin busy
    /\ busy' = busy \cup {s}
    /\ \/ left = Unlimited /\ UNCHANGED left
       \/ left > 0 /\ left' = left - 1
    /\ UNCHANGED <<timed, outcome>>

Finish(s) ==
    /\ outcome = "running"
    /\ s \in busy
    /\ busy' = busy \ {s}
    /\ UNCHANGED <<left, timed, outcome>>

End ==
    /\ outcome = "running"
    /\ \/ outcome' = "aborted"
       \/ outcome' = "finished" /\ (left = 0 \/ timed)
    /\ UNCHANGED <<left, busy, timed>>

BudgetNext == End \/ \E s \in Senders : Start(s) \/ Finish(s)

BudgetSpec == BudgetInit /\ [][BudgetNext]_budgetVars
=============================================================================
