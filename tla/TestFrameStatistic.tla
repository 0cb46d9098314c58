------------------------- MODULE TestFrameStatistic -------------------------
(***************************************************************************)
(* TestFrameStatistic of src/src/testframe.cpp: the counters the workers   *)
(* update after each request, and Output, which Run calls once a second to *)
(* print them and to reset the per-second half.                            *)
(*                                                                         *)
(* A worker records a request in two critical sections of cMutex, first    *)
(* UpdateDelay and then IncreaseSuccessCount or IncreaseFailureCount; each *)
(* is one action.  Output takes cMutex only for the reset: it prints while *)
(* the workers write.  C++ leaves the order open in which the arguments of *)
(* a printf are read, so Output reads one field at a time, in any order.     *)
(* What it reads changes nothing but what it prints, so a behaviour follows *)
(* only some of the reads, those in `watched'.                             *)
(***************************************************************************)
EXTENDS Integers, FiniteSets, FiniteSetsExt

\* The two groups of counters have the same fields.
Counters == {"success", "failure", "total", "timeout", "sum", "max", "min"}

\* What a printf reads.  The total is read several times: to be printed and, for
\* each of the two quotients, to be tested for zero and only then to be divided by.
\* A behaviour follows one of the quotients.
Reads == Counters \cup {"tested", "divisor"}
AfterTest == {"timeout", "sum", "divisor"}

CONSTANTS
    Workers,
    Delays,         \* the delays in ms a request may take; the clock is not set back
    Thresholds,     \* arguments SetDelayThreshold may be called with, 0 for none
    NoDelay,        \* 999999999, the overall minimum before the first request
    NoDelay_ps,     \* 99999999, the minimum of a second without a request
    Watches,        \* the sets of reads of Output to follow
    MaxRequests     \* bound: how many requests are recorded

ASSUME StatisticAssumption ==
    /\ IsFiniteSet(Workers)
    /\ Delays \subseteq Nat /\ IsFiniteSet(Delays)
    /\ Thresholds \subseteq Nat
    /\ NoDelay \in Nat /\ NoDelay_ps \in Nat
    /\ \A d \in Delays : d < NoDelay /\ d < NoDelay_ps
    /\ Watches \subseteq SUBSET Reads
    /\ MaxRequests \in Nat

VARIABLES
    cDelayThreshold,
    watched,    \* the reads of Output this behaviour follows
    all,        \* the fields cSuccessCount, ..., cMinDelayTime
    ps,         \* the fields cSuccessCount_ps, ..., cMinDelayTime_ps
    pending,    \* [w] is w between UpdateDelay and the count of its request?
    output,     \* where Output is
    toRead,     \* what the printf under way has still to read
    psLine,     \* what the first printf of an Output under way has read
    allLine,    \* what the second printf read last
    \* History
    calls,      \* [d] how many requests took d ms
    printed     \* sum of the totals of the per-second lines printed

given == <<cDelayThreshold, watched>>

vars == <<given, all, ps, pending, output, toRead, psLine, allLine,
          calls, printed>>

Zero(minimum) == [c \in Counters |-> IF c = "min" THEN minimum ELSE 0]

Blank == [r \in Reads |-> 0]

\* What f is for all of S together.
SumOver(f, S) == MapThenSumSet(LAMBDA d : f[d], S)

Requests == SumOver(calls, Delays)

TypeOK ==
    /\ cDelayThreshold \in Thresholds
    /\ watched \in Watches
    /\ all \in [Counters -> Nat] /\ ps \in [Counters -> Nat]
    /\ pending \in [Workers -> BOOLEAN]
    /\ output \in {"idle", "per second", "overall", "reset"}
    /\ toRead \subseteq watched
    /\ psLine \in [Reads -> Nat] /\ allLine \in [Reads -> Nat]
    /\ calls \in [Delays -> Nat]
    /\ printed \in Nat

Init ==
    /\ cDelayThreshold \in Thresholds
    /\ watched \in Watches
    /\ all = Zero(NoDelay) /\ ps = Zero(NoDelay_ps)
    /\ pending = [w \in Workers |-> FALSE]
    /\ output = "idle" /\ toRead = {}
    /\ psLine = Blank /\ allLine = Blank
    /\ calls = [d \in Delays |-> 0]
    /\ printed = 0

-----------------------------------------------------------------------------
\* Mutant: the minimum is looked at only when the maximum does not change.
DelayedElse(c, d) ==
    [c EXCEPT
        !.sum = @ + d,
        !.max = IF d > @ THEN d ELSE @,
        !.min = IF d <= c.max /\ d < @ THEN d ELSE @,
        !.timeout = IF cDelayThreshold # 0 /\ d > cDelayThreshold THEN @ + 1 ELSE @]

\* A request that took d ms, added to a group of counters.
Delayed(c, d) ==
    [c EXCEPT
        !.sum = @ + d,
        !.max = IF d > @ THEN d ELSE @,
        !.min = IF d < @ THEN d ELSE @,
        !.timeout = IF cDelayThreshold # 0 /\ d > cDelayThreshold THEN @ + 1 ELSE @]

UpdateDelay(w) ==
    /\ ~pending[w]
    /\ Requests < MaxRequests
    /\ pending' = [pending EXCEPT ![w] = TRUE]
    /\ \E d \in Delays :
          /\ all' = Delayed(all, d)
          /\ ps' = Delayed(ps, d)
          /\ calls' = [calls EXCEPT ![d] = @ + 1]
    /\ UNCHANGED <<given, output, toRead, psLine, allLine, printed>>

\* A request counted, as a success or a failure, in a group of counters.
CountedAs(c, result) == [c EXCEPT ![result] = @ + 1, !.total = @ + 1]

\* Mutant: failures are counted in the per-second counters only.
IncreasePerSecond(w) ==
    /\ pending[w]
    /\ pending' = [pending EXCEPT ![w] = FALSE]
    /\ \E result \in {"success", "failure"} :
          /\ all' = IF result = "success" THEN CountedAs(all, result) ELSE all
          /\ ps' = CountedAs(ps, result)
    /\ UNCHANGED <<given, output, toRead, psLine, allLine, calls, printed>>

\* IncreaseSuccessCount and IncreaseFailureCount.
Increase(w) ==
    /\ pending[w]
    /\ pending' = [pending EXCEPT ![w] = FALSE]
    /\ \E result \in {"success", "failure"} :
          /\ all' = CountedAs(all, result)
          /\ ps' = CountedAs(ps, result)
    /\ UNCHANGED <<given, output, toRead, psLine, allLine, calls, printed>>

-----------------------------------------------------------------------------
(* Output, called by the thread of Run only                                *)

StartOutput ==
    /\ output = "idle"
    /\ output' = "per second"
    /\ toRead' = watched
    /\ UNCHANGED <<given, all, ps, pending, psLine, allLine, calls, printed>>

\* One access to a counter in the arguments of a printf.
Read(r, line, counters) ==
    /\ r \in toRead
    /\ r \in AfterTest => "tested" \notin toRead
    /\ line' = [line EXCEPT ![r] =
                   counters[IF r \in {"tested", "divisor"} THEN "total" ELSE r]]
    /\ toRead' = toRead \ {r}

ReadPerSecond ==
    /\ output = "per second"
    /\ \E r \in Reads : Read(r, psLine, ps)
    /\ UNCHANGED <<given, all, ps, pending, output, allLine, calls, printed>>

NextPrintf ==
    /\ output = "per second"
    /\ toRead = {}
    /\ output' = "overall"
    /\ toRead' = watched
    /\ UNCHANGED <<given, all, ps, pending, psLine, allLine, calls, printed>>

ReadOverall ==
    /\ output = "overall"
    /\ \E r \in Reads : Read(r, allLine, all)
    /\ UNCHANGED <<given, all, ps, pending, output, psLine, calls, printed>>

FinishPrintf ==
    /\ output = "overall"
    /\ toRead = {}
    /\ output' = "reset"
    /\ UNCHANGED <<given, all, ps, pending, toRead, psLine, allLine, calls, printed>>

\* Mutant: the per-second total is not reset.
ResetWithoutTotal ==
    /\ output = "reset"
    /\ output' = "idle"
    /\ ps' = [Zero(NoDelay_ps) EXCEPT !.total = ps.total]
    /\ printed' = printed + psLine.total
    /\ psLine' = Blank
    /\ UNCHANGED <<given, all, pending, toRead, allLine, calls>>

\* The reset under cMutex, after which Output returns.
Reset ==
    /\ output = "reset"
    /\ output' = "idle"
    /\ ps' = Zero(NoDelay_ps)
    /\ printed' = printed + psLine["total"]
    /\ psLine' = Blank
    /\ UNCHANGED <<given, all, pending, toRead, allLine, calls>>

-----------------------------------------------------------------------------
OutputNext ==
    \/ StartOutput
    \/ ReadPerSecond
    \/ NextPrintf
    \/ ReadOverall
    \/ FinishPrintf
    \/ Reset

Next ==
    \/ OutputNext
    \/ \E w \in Workers : UpdateDelay(w) \/ Increase(w)

Spec == Init /\ [][Next]_vars

-----------------------------------------------------------------------------
Recorded(d) == calls[d] > 0

\* The overall counters lose and invent nothing, whatever Output and the other
\* workers do meanwhile: they are those of the requests recorded, but for the
\* requests between UpdateDelay and the count, which are not in the total yet.
ExactTotals ==
    /\ all.total + Cardinality({w \in Workers : pending[w]}) = Requests
    /\ all.success + all.failure = all.total
    /\ all.sum = SumOver([d \in Delays |-> d * calls[d]], Delays)
    /\ \A d \in Delays : Recorded(d) => all.min <= d /\ d <= all.max
    /\ \A d \in Delays : all.min = d \/ all.max = d => Recorded(d) \/ d = 0
    /\ all.timeout = IF cDelayThreshold = 0 THEN 0
                     ELSE SumOver(calls, {d \in Delays : d > cDelayThreshold})

\* No request is in the per-second lines twice.  (It may be in none: a request
\* counted between the read of the total and the reset is lost to them.)
NoDoubleCount ==
    printed + (IF output = "reset" THEN psLine["total"] ELSE ps["total"]) <= all["total"]

\* The overall line is read after the per-second one, so it never shows less of
\* anything than the second it includes, nor a larger minimum than that of a second
\* that had a request.
OverallCoversSecond ==
    output = "reset" =>
        /\ \A c \in Counters \ {"min"} : psLine[c] <= allLine[c]
        /\ psLine["min"] < NoDelay_ps => allLine["min"] <= psLine["min"]

\* The "delayHealth" that is printed as a percentage is one: no more timeouts are
\* counted than requests.  It is not, since a timeout is counted by UpdateDelay
\* and its request only later; cTotalCount - cTimeoutCount is then negative, as an
\* unsigned long long a number near 2^64.
HealthIsPercentage ==
    /\ {"timeout", "divisor"} \subseteq watched \ toRead
    /\ output = "overall" /\ allLine.tested > 0
    => allLine.timeout <= allLine.divisor
=============================================================================
