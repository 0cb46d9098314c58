---------------------- MODULE TestFrameStatisticProofs ----------------------
(***************************************************************************)
(* Proofs about TestFrameStatistic, for any number of workers, any delays  *)
(* and thresholds and any order of the reads of Output.  What the counters *)
(* sum up to is, with the types, inductive as it stands; what its proof    *)
(* needs besides is how a sum over a set changes with one of its terms.    *)
(***************************************************************************)
EXTENDS TestFrameStatistic, FiniteSetTheorems, WellFoundedInduction, TLAPS

-----------------------------------------------------------------------------
(* Sums over a finite set                                                  *)

\* What holds of a set if it holds of all its proper subsets holds of all subsets of a
\* finite set.
LEMMA SubsetInduct ==
    ASSUME NEW S, IsFiniteSet(S), NEW G,
           \A t \in SUBSET S : (\A u \in SUBSET t : u # t => u \in G) => t \in G
    PROVE  SUBSET S \subseteq G
<1> DEFINE Missing == {t \in SUBSET S : t \notin G}
<1> SUFFICES ASSUME Missing # {} PROVE FALSE
  OBVIOUS
<1>1. Missing \subseteq FiniteSubsetsOf(S)
  BY FS_FiniteSubsetsOfFinite
<1>2. \E t \in Missing : \A u \in Missing : <<u, t>> \notin StrictSubsetOrdering(S)
  <2> HIDE DEF Missing
  <2> QED BY <1>1, FS_StrictSubsetOrderingWellFounded, WFMin
<1> QED BY <1>2 DEF StrictSubsetOrdering

\* One step of the recursion of SumOver: the sum of s, given those of its subsets.
SumOf(f, g, s) ==
    IF s = {} THEN 0
    ELSE LET x == CHOOSE x \in s : TRUE
         IN  f[x] + g[s \ {x}]

\* g is the function that the recursion defines over S.
Sums(f, S, g) == g = [s \in SUBSET S |-> SumOf(f, g, s)]

\* A step looks at smaller sets only.
LEMMA SumOfBelow ==
    ASSUME NEW f, NEW g, NEW h, NEW s, \A t \in SUBSET s : t # s => g[t] = h[t]
    PROVE  SumOf(f, g, s) = SumOf(f, h, s)
<1>1. CASE s = {}
  BY <1>1 DEF SumOf
<1>2. CASE s # {}
  <2> DEFINE x == CHOOSE x \in s : TRUE
  <2>1. x \in s
    BY <1>2
  <2>2. s \ {x} \in SUBSET s /\ s \ {x} # s
    BY <2>1
  <2>3. g[s \ {x}] = h[s \ {x}]
    BY <2>2
  <2> QED BY <2>3 DEF SumOf
<1> QED BY <1>1, <1>2

\* Two such functions agree where both are defined.
LEMMA SumsUnique ==
    ASSUME NEW f, NEW U, NEW V, IsFiniteSet(U), NEW g, NEW h, Sums(f, U, g), Sums(f, V, h)
    PROVE  \A s \in SUBSET U : s \in SUBSET V => g[s] = h[s]
<1> DEFINE G == {s \in SUBSET U : s \in SUBSET V => g[s] = h[s]}
<1>1. ASSUME NEW s \in SUBSET U, \A t \in SUBSET s : t # s => t \in G PROVE s \in G
  <2> SUFFICES ASSUME s \in SUBSET V PROVE g[s] = h[s]
    OBVIOUS
  <2>1. \A t \in SUBSET s : t # s => g[t] = h[t]
    BY <1>1
  <2>2. SumOf(f, g, s) = SumOf(f, h, s)
    BY <2>1, SumOfBelow
  <2>3. g[s] = SumOf(f, g, s) /\ h[s] = SumOf(f, h, s)
    BY DEF Sums
  <2> QED BY <2>2, <2>3
<1> HIDE DEF G
<1>2. SUBSET U \subseteq G
  BY <1>1, SubsetInduct
<1> QED BY <1>2 DEF G

\* There is one for every finite set.
LEMMA SumsExist ==
    ASSUME NEW f, NEW S, IsFiniteSet(S)
    PROVE  \E g : Sums(f, S, g)
<1> DEFINE G == {s \in SUBSET S : \E g : Sums(f, s, g)}
<1>1. ASSUME NEW s \in SUBSET S, \A t \in SUBSET s : t # s => t \in G PROVE s \in G
  <2> DEFINE Below(t) == CHOOSE h : Sums(f, t, h)
             low == [t \in SUBSET s |-> Below(t)[t]]
             g == [t \in SUBSET s |-> IF t = s THEN SumOf(f, low, s) ELSE low[t]]
  <2>1. ASSUME NEW t \in SUBSET s, t # s PROVE Sums(f, t, Below(t)) /\ IsFiniteSet(t)
    <3>1. \E h : Sums(f, t, h)
      BY <1>1, <2>1
    <3> QED BY <3>1, FS_Subset
  <2> HIDE DEF Below
  <2>2. ASSUME NEW t \in SUBSET s PROVE g[t] = SumOf(f, g, t)
    <3>1. \A u \in SUBSET s : u # s => g[u] = low[u]
      OBVIOUS
    <3>2. CASE t = s
      <4>1. SumOf(f, low, s) = SumOf(f, g, s)
        <5> HIDE DEF g, low
        <5> QED BY <3>1, SumOfBelow
      <4> QED BY <3>2, <4>1
    <3>3. CASE t # s
      <4> DEFINE b == Below(t)
      <4>1. Sums(f, t, b) /\ IsFiniteSet(t)
        BY <2>1, <3>3
      <4>2. ASSUME NEW u \in SUBSET t, u # t PROVE b[u] = g[u]
        <5>1. u \in SUBSET s /\ u # s
          BY <4>2
        <5>2. Sums(f, u, Below(u)) /\ IsFiniteSet(u)
          BY <2>1, <5>1
        <5>3. b[u] = Below(u)[u]
          <6> DEFINE c == Below(u)
          <6>1. u \in SUBSET t /\ u \in SUBSET u /\ Sums(f, u, c)
            BY <4>2, <5>2
          <6> HIDE DEF b, c
          <6>2. b[u] = c[u]
            BY <4>1, <6>1, SumsUnique
          <6> QED BY <6>2 DEF c
        <5>4. g[u] = low[u] /\ low[u] = Below(u)[u]
          BY <5>1
        <5> QED BY <5>3, <5>4
      <4>3. g[t] = b[t]
        BY <3>3
      <4>4. b[t] = SumOf(f, b, t)
        <5> HIDE DEF b
        <5> QED BY <4>1 DEF Sums
      <4>5. SumOf(f, b, t) = SumOf(f, g, t)
        <5> HIDE DEF b, g
        <5> QED BY <4>2, SumOfBelow
      <4> QED BY <4>3, <4>4, <4>5
    <3> QED BY <3>2, <3>3
  <2>3. g = [t \in SUBSET s |-> g[t]]
    OBVIOUS
  <2> HIDE DEF g
  <2>4. Sums(f, s, g)
    BY <2>2, <2>3 DEF Sums
  <2> QED BY <2>4
<1> HIDE DEF G
<1>2. SUBSET S \subseteq G
  BY <1>1, SubsetInduct
<1> QED BY <1>2 DEF G

\* SumOver is that function.
LEMMA SumOverSums ==
    ASSUME NEW f, NEW S, IsFiniteSet(S)
    PROVE  \E g : Sums(f, S, g) /\ SumOver(f, S) = g[S]
<1> DEFINE iter == CHOOSE g : Sums(f, S, g)
<1>1. SumOver(f, S) = iter[S]
  BY DEF SumOver, MapThenSumSet, MapThenFoldSet, Sums, SumOf
<1>2. Sums(f, S, iter)
  BY SumsExist
<1> QED BY <1>1, <1>2

\* The definition of SumOver, unfolded.
LEMMA SumUnfold ==
    ASSUME NEW f, NEW S, IsFiniteSet(S)
    PROVE  SumOver(f, S) =
             IF S = {} THEN 0
             ELSE LET x == CHOOSE x \in S : TRUE
                  IN  f[x] + SumOver(f, S \ {x})
<1>1. PICK g : Sums(f, S, g) /\ SumOver(f, S) = g[S]
  BY SumOverSums
<1>2. SumOver(f, S) = SumOf(f, g, S)
  BY <1>1 DEF Sums
<1>3. CASE S = {}
  BY <1>2, <1>3 DEF SumOf
<1>4. CASE S # {}
  <2> DEFINE x == CHOOSE x \in S : TRUE
             rest == S \ {x}
  <2>1. rest \in SUBSET S /\ IsFiniteSet(rest)
    BY FS_Subset
  <2>2. PICK h : Sums(f, rest, h) /\ SumOver(f, rest) = h[rest]
    BY <2>1, SumOverSums
  <2>3. h[rest] = g[rest]
    BY <1>1, <2>1, <2>2, SumsUnique
  <2> QED BY <1>2, <1>4, <2>2, <2>3 DEF SumOf
<1> QED BY <1>3, <1>4

\* The sum of numbers is one.
LEMMA SumNumber ==
    ASSUME NEW S, IsFiniteSet(S), NEW f, \A d \in S : f[d] \in Nat
    PROVE  \A s \in SUBSET S : SumOver(f, s) \in Nat
<1> DEFINE G == {s \in SUBSET S : SumOver(f, s) \in Nat}
<1>1. ASSUME NEW s \in SUBSET S, \A t \in SUBSET s : t # s => t \in G PROVE s \in G
  <2>1. IsFiniteSet(s)
    BY FS_Subset
  <2>2. CASE s = {}
    <3>1. SumOver(f, s) = 0
      BY <2>1, <2>2, SumUnfold
    <3> QED BY <3>1
  <2>3. CASE s # {}
    <3> DEFINE x == CHOOSE x \in s : TRUE
    <3>1. x \in s /\ SumOver(f, s) = f[x] + SumOver(f, s \ {x})
      BY <2>1, <2>3, SumUnfold
    <3>2. SumOver(f, s \ {x}) \in Nat
      BY <1>1, <3>1
    <3>3. f[x] \in Nat
      BY <3>1
    <3> HIDE DEF x
    <3> QED BY <3>1, <3>2, <3>3
  <2> QED BY <2>2, <2>3
<1> HIDE DEF G
<1>2. SUBSET S \subseteq G
  BY <1>1, SubsetInduct
<1> QED BY <1>2 DEF G

\* The sum of nothing but zeros is zero.
LEMMA SumZero ==
    ASSUME NEW S, IsFiniteSet(S), NEW f, \A d \in S : f[d] = 0
    PROVE  \A s \in SUBSET S : SumOver(f, s) = 0
<1> DEFINE G == {s \in SUBSET S : SumOver(f, s) = 0}
<1>1. ASSUME NEW s \in SUBSET S, \A t \in SUBSET s : t # s => t \in G PROVE s \in G
  <2>1. IsFiniteSet(s)
    BY FS_Subset
  <2>2. CASE s = {}
    BY <2>1, <2>2, SumUnfold
  <2>3. CASE s # {}
    <3> DEFINE x == CHOOSE x \in s : TRUE
    <3>1. x \in s /\ SumOver(f, s) = f[x] + SumOver(f, s \ {x})
      BY <2>1, <2>3, SumUnfold
    <3>2. SumOver(f, s \ {x}) = 0
      BY <1>1, <3>1
    <3>3. f[x] = 0
      BY <3>1
    <3> HIDE DEF x
    <3> QED BY <3>1, <3>2, <3>3
  <2> QED BY <2>2, <2>3
<1> HIDE DEF G
<1>2. SUBSET S \subseteq G
  BY <1>1, SubsetInduct
<1> QED BY <1>2 DEF G

\* One of the numbers grows by k, and the sum with it, if it is one of those summed.
LEMMA SumAdd ==
    ASSUME NEW S, IsFiniteSet(S), NEW f, \A d \in S : f[d] \in Nat,
           NEW k \in Nat, NEW e, NEW g,
           \A d \in S : g[d] = IF d = e THEN f[d] + k ELSE f[d]
    PROVE  \A s \in SUBSET S :
             SumOver(g, s) = IF e \in s THEN SumOver(f, s) + k ELSE SumOver(f, s)
<1> DEFINE Good(s) == SumOver(g, s) = IF e \in s THEN SumOver(f, s) + k ELSE SumOver(f, s)
           G == {s \in SUBSET S : Good(s)}
<1>1. ASSUME NEW s \in SUBSET S, \A t \in SUBSET s : t # s => t \in G PROVE s \in G
  <2>1. IsFiniteSet(s)
    BY FS_Subset
  <2>2. CASE s = {}
    <3>1. SumOver(f, s) = 0 /\ SumOver(g, s) = 0
      BY <2>1, <2>2, SumUnfold
    <3> QED BY <2>2, <3>1
  <2>3. CASE s # {}
    <3> DEFINE x == CHOOSE x \in s : TRUE
    <3>1. /\ x \in s
          /\ SumOver(f, s) = f[x] + SumOver(f, s \ {x})
          /\ SumOver(g, s) = g[x] + SumOver(g, s \ {x})
      BY <2>1, <2>3, SumUnfold
    <3>2. Good(s \ {x})
      <4>1. s \ {x} \in SUBSET s /\ s \ {x} # s
        BY <3>1
      <4> QED BY <1>1, <4>1
    <3>3. /\ f[x] \in Nat /\ SumOver(f, s \ {x}) \in Nat
          /\ g[x] = IF x = e THEN f[x] + k ELSE f[x]
      BY <3>1, SumNumber
    <3>4. e \in s \ {x} <=> e \in s /\ x # e
      OBVIOUS
    <3> DEFINE before == SumOver(f, s \ {x})
               after == SumOver(g, s \ {x})
    <3>5. after = IF e \in s /\ x # e THEN before + k ELSE before
      BY <3>2, <3>4
    <3>6. /\ SumOver(f, s) = f[x] + before /\ SumOver(g, s) = g[x] + after
          /\ f[x] \in Nat /\ before \in Nat
      BY <3>1, <3>3
    <3> HIDE DEF x, before, after
    <3>7. Good(s)
      BY <3>1, <3>3, <3>5, <3>6
    <3> QED BY <3>7
  <2> QED BY <2>2, <2>3
<1> HIDE DEF G
<1>2. SUBSET S \subseteq G
  BY <1>1, SubsetInduct
<1> QED BY <1>2 DEF G

-----------------------------------------------------------------------------
(* The invariant                                                           *)

\* A group of counters, and a line that was read.
Group(c) == c \in [Counters -> Nat]

\* Every variable has its type; what the two groups have in common is that each second
\* is part of the whole, and that the first line is not ahead of its second.
Shape ==
    /\ cDelayThreshold \in Thresholds /\ watched \in Watches
    /\ Group(all) /\ Group(ps)
    /\ pending \in [Workers -> BOOLEAN]
    /\ output \in {"idle", "per second", "overall", "reset"}
    /\ toRead \subseteq watched /\ watched \subseteq Reads
    /\ psLine \in [Reads -> Nat] /\ allLine \in [Reads -> Nat]
    /\ calls \in [Delays -> Nat]
    /\ printed \in Nat

\* The counters of the second are part of the overall ones, and those of the seconds
\* printed before are other requests.
GroupsInv ==
    /\ \A c \in Counters \ {"min"} : ps[c] <= all[c]
    /\ ps["min"] < NoDelay_ps => all["min"] <= ps["min"]
    /\ printed + ps["total"] <= all["total"]

\* What was read of the second is not ahead of it, and what was read of the whole
\* after it is not behind.
LinesInv ==
    /\ \A c \in Counters \ {"min"} : psLine[c] <= ps[c]
    /\ \A c \in Counters \ watched : psLine[c] = 0 /\ allLine[c] = 0
    /\ output \in {"idle", "per second"} => \A c \in toRead \cap Counters : psLine[c] = 0
    /\ output = "idle" => \A c \in Counters : psLine[c] = 0
    /\ output \in {"per second", "overall", "reset"} =>
         ("min" \in watched /\ ~(output = "per second" /\ "min" \in toRead)
             => psLine["min"] >= ps["min"])
    /\ output \in {"overall", "reset"} =>
         \A c \in (watched \cap Counters) \ toRead :
            /\ c # "min" => psLine[c] <= allLine[c]
            /\ c = "min" /\ psLine["min"] < NoDelay_ps => allLine["min"] <= psLine["min"]
    /\ output \in {"idle", "reset"} => toRead = {}

IInv == Shape /\ GroupsInv /\ LinesInv

\* The names of the counters are names of reads.
LEMMA Names ==
    /\ "success" \in Counters /\ "failure" \in Counters /\ "total" \in Counters
    /\ "timeout" \in Counters /\ "sum" \in Counters /\ "max" \in Counters
    /\ "min" \in Counters
    /\ \A f \in Counters : f \in {"success", "failure", "total", "timeout", "sum", "max", "min"}
    /\ Counters \subseteq Reads
BY DEF Counters, Reads

\* A group of counters with one more request in it.
LEMMA DelayedGroup ==
    ASSUME NEW c, Group(c), NEW d \in Nat
    PROVE  /\ Group(Delayed(c, d))
           /\ \A f \in {"success", "failure", "total"} : Delayed(c, d)[f] = c[f]
           /\ Delayed(c, d)["sum"] = c["sum"] + d
           /\ Delayed(c, d)["max"] = IF d > c["max"] THEN d ELSE c["max"]
           /\ Delayed(c, d)["min"] = IF d < c["min"] THEN d ELSE c["min"]
           /\ Delayed(c, d)["timeout"] \in {c["timeout"], c["timeout"] + 1}
<1>1. \A f \in Counters : c[f] \in Nat
  BY DEF Group
<1>2. \A f \in {"success", "failure", "total"} : Delayed(c, d)[f] = c[f]
  BY Names DEF Group, Delayed
<1>3. Delayed(c, d)["sum"] = c["sum"] + d
  BY Names DEF Group, Delayed
<1>4. Delayed(c, d)["max"] = IF d > c["max"] THEN d ELSE c["max"]
  BY Names DEF Group, Delayed
<1>5. Delayed(c, d)["min"] = IF d < c["min"] THEN d ELSE c["min"]
  BY Names DEF Group, Delayed
<1>6. Delayed(c, d)["timeout"] \in {c["timeout"], c["timeout"] + 1}
  BY Names DEF Group, Delayed
<1>7. Delayed(c, d) = [f \in Counters |-> Delayed(c, d)[f]]
  BY DEF Group, Delayed
<1> HIDE DEF Delayed
<1>8. \A f \in Counters : Delayed(c, d)[f] \in Nat
  <2>1. /\ c["sum"] \in Nat /\ c["max"] \in Nat /\ c["min"] \in Nat /\ c["timeout"] \in Nat
        /\ c["success"] \in Nat /\ c["failure"] \in Nat /\ c["total"] \in Nat
    BY <1>1, Names
  <2> QED
    BY <1>2, <1>3, <1>4, <1>5, <1>6, <2>1, Names
<1>9. Group(Delayed(c, d))
  BY <1>7, <1>8 DEF Group
<1> QED
  BY <1>2, <1>3, <1>4, <1>5, <1>6, <1>9

\* A group of counters with one more request counted.
LEMMA CountedGroup ==
    ASSUME NEW c, Group(c), NEW result \in {"success", "failure"}
    PROVE  /\ Group(CountedAs(c, result))
           /\ CountedAs(c, result)["total"] = c["total"] + 1
           /\ CountedAs(c, result)[result] = c[result] + 1
           /\ \A f \in Counters \ {result, "total"} : CountedAs(c, result)[f] = c[f]
<1>1. \A f \in Counters : c[f] \in Nat
  BY DEF Group
<1>2. result \in Counters /\ "total" \in Counters /\ result # "total"
  BY Names
<1>3. CountedAs(c, result)["total"] = c["total"] + 1
  BY <1>2 DEF Group, CountedAs
<1>4. CountedAs(c, result)[result] = c[result] + 1
  BY <1>2 DEF Group, CountedAs
<1>5. \A f \in Counters \ {result, "total"} : CountedAs(c, result)[f] = c[f]
  BY <1>2 DEF Group, CountedAs
<1>6. CountedAs(c, result) = [f \in Counters |-> CountedAs(c, result)[f]]
  BY DEF Group, CountedAs
<1>7. \A f \in Counters : CountedAs(c, result)[f] \in Nat
  <2>1. \A f \in Counters : f \in {result, "total"} \/ f \in Counters \ {result, "total"}
    OBVIOUS
  <2> QED
    BY <1>1, <1>2, <1>3, <1>4, <1>5, <2>1
<1>8. Group(CountedAs(c, result))
  BY <1>6, <1>7 DEF Group
<1> QED
  BY <1>3, <1>4, <1>5, <1>8

\* The counters of a new second.
LEMMA ZeroGroup ==
    /\ Group(Zero(NoDelay)) /\ Group(Zero(NoDelay_ps))
    /\ \A f \in Counters \ {"min"} : Zero(NoDelay)[f] = 0 /\ Zero(NoDelay_ps)[f] = 0
    /\ Zero(NoDelay)["min"] = NoDelay /\ Zero(NoDelay_ps)["min"] = NoDelay_ps
BY StatisticAssumption DEF StatisticAssumption, Group, Zero, Counters

\* What a read sees of a group of counters.
LEMMA ReadNumber ==
    ASSUME NEW c, Group(c), NEW r \in Reads
    PROVE  c[IF r \in {"tested", "divisor"} THEN "total" ELSE r] \in Nat
BY DEF Group, Reads, Counters

\* Initially nothing was counted and nothing read.
LEMMA InitIInv == Init => IInv
<1> SUFFICES ASSUME Init
             PROVE  IInv
  OBVIOUS
<1>1. Shape
  BY ZeroGroup, StatisticAssumption DEF Init, Shape, Blank, StatisticAssumption
<1>2. GroupsInv
  <2>1. NoDelay_ps \in Nat /\ all = Zero(NoDelay) /\ ps = Zero(NoDelay_ps) /\ printed = 0
    BY StatisticAssumption DEF Init, StatisticAssumption
  <2>2. \A f \in Counters \ {"min"} : ps[f] = 0 /\ all[f] = 0
    BY <2>1, ZeroGroup
  <2>3. ps["total"] = 0 /\ all["total"] = 0
    BY <2>2, Names
  <2>4. ~(ps["min"] < NoDelay_ps)
    BY <2>1, ZeroGroup
  <2> QED
    BY <2>1, <2>2, <2>3, <2>4 DEF GroupsInv
<1>3. LinesInv
  BY ZeroGroup DEF Init, LinesInv, Blank, Counters, Reads
<1> QED
  BY <1>1, <1>2, <1>3 DEF IInv

\* The type of the variables a worker changes.
LEMMA UpdateDelayShape ==
    ASSUME Shape, NEW w \in Workers, UpdateDelay(w)
    PROVE  Shape'
<1>1. PICK d \in Delays :
        /\ all' = Delayed(all, d) /\ ps' = Delayed(ps, d)
        /\ calls' = [calls EXCEPT ![d] = @ + 1]
  BY DEF UpdateDelay
<1>2. d \in Nat
  BY StatisticAssumption DEF StatisticAssumption
<1>3. Group(all) /\ Group(ps) /\ calls \in [Delays -> Nat] /\ pending \in [Workers -> BOOLEAN]
  BY DEF Shape
<1>4. Group(all') /\ Group(ps')
  BY <1>1, <1>2, <1>3, DelayedGroup
<1>5. calls' \in [Delays -> Nat]
  BY <1>1, <1>3
<1>6. pending' \in [Workers -> BOOLEAN]
  BY <1>3 DEF UpdateDelay
<1>7. UNCHANGED <<given, output, toRead, psLine, allLine, printed>>
  BY DEF UpdateDelay
<1> QED
  BY <1>4, <1>5, <1>6, <1>7 DEF Shape, given

\* The type of the variables a worker changes when it counts its request.
LEMMA IncreaseShape ==
    ASSUME Shape, NEW w \in Workers, Increase(w)
    PROVE  Shape'
<1>1. PICK result \in {"success", "failure"} :
        all' = CountedAs(all, result) /\ ps' = CountedAs(ps, result)
  BY DEF Increase
<1>2. Group(all) /\ Group(ps) /\ pending \in [Workers -> BOOLEAN]
  BY DEF Shape
<1>3. Group(all') /\ Group(ps')
  BY <1>1, <1>2, CountedGroup
<1>4. pending' \in [Workers -> BOOLEAN]
  BY <1>2 DEF Increase
<1> QED
  BY <1>3, <1>4 DEF Increase, Shape, given

\* Every variable keeps its type.
LEMMA NextShape ==
    ASSUME Shape, [Next]_vars
    PROVE  Shape'
<1> USE DEF Shape, given
<1>1. ASSUME NEW w \in Workers, UpdateDelay(w)
      PROVE  Shape'
  BY <1>1, UpdateDelayShape
<1>2. ASSUME NEW w \in Workers, Increase(w)
      PROVE  Shape'
  BY <1>2, IncreaseShape
<1>3. CASE StartOutput
  BY <1>3 DEF StartOutput
<1>4. CASE ReadPerSecond
  <2>1. PICK r \in Reads : Read(r, psLine, ps)
    BY <1>4 DEF ReadPerSecond
  <2>2. psLine' \in [Reads -> Nat] /\ toRead' \subseteq toRead
    BY <2>1, ReadNumber DEF Read
  <2> QED
    BY <1>4, <2>2 DEF ReadPerSecond
<1>5. CASE NextPrintf
  BY <1>5 DEF NextPrintf
<1>6. CASE ReadOverall
  <2>1. PICK r \in Reads : Read(r, allLine, all)
    BY <1>6 DEF ReadOverall
  <2>2. allLine' \in [Reads -> Nat] /\ toRead' \subseteq toRead
    BY <2>1, ReadNumber DEF Read
  <2> QED
    BY <1>6, <2>2 DEF ReadOverall
<1>7. CASE FinishPrintf
  BY <1>7 DEF FinishPrintf
<1>8. CASE Reset
  BY <1>8, ZeroGroup DEF Reset, Blank, Reads, Counters
<1>9. CASE UNCHANGED vars
  BY <1>9 DEF vars
<1> QED
  BY <1>1, <1>2, <1>3, <1>4, <1>5, <1>6, <1>7, <1>8, <1>9 DEF Next, OutputNext

\* A step that adds as much to the whole as to the second.
LEMMA BothAdded ==
    ASSUME Group(all), Group(ps), Group(all'), Group(ps'), printed' = printed, printed \in Nat,
           GroupsInv,
           \A f \in Counters \ {"min"} : ps[f] <= all[f] => ps'[f] <= all'[f],
           ps'["min"] < NoDelay_ps => all'["min"] <= ps'["min"],
           ps'["total"] - ps["total"] = all'["total"] - all["total"]
    PROVE  GroupsInv'
<1>1. /\ ps["total"] \in Nat /\ all["total"] \in Nat
      /\ ps'["total"] \in Nat /\ all'["total"] \in Nat
  BY Names DEF Group
<1>2. printed' + ps'["total"] <= all'["total"]
  BY <1>1 DEF GroupsInv
<1> QED
  BY <1>2 DEF GroupsInv

\* A delay is added to both groups.
LEMMA UpdateDelayGroupsInv ==
    ASSUME Shape, GroupsInv, NEW w \in Workers, UpdateDelay(w)
    PROVE  GroupsInv'
<1>1. Group(all) /\ Group(ps) /\ printed \in Nat /\ printed' = printed
  BY DEF Shape, UpdateDelay
<1>2. PICK d \in Delays : all' = Delayed(all, d) /\ ps' = Delayed(ps, d)
  BY DEF UpdateDelay
<1>3. d \in Nat /\ d < NoDelay_ps /\ NoDelay_ps \in Nat
  BY StatisticAssumption DEF StatisticAssumption
<1>4. /\ \A f \in Counters : all[f] \in Nat /\ ps[f] \in Nat
      /\ Group(all') /\ Group(ps')
  BY <1>1, <1>2, <1>3, DelayedGroup DEF Group
<1>5. all'["total"] = all["total"] /\ ps'["total"] = ps["total"]
  BY <1>1, <1>2, <1>3, DelayedGroup
<1>6. ps'["min"] < NoDelay_ps => all'["min"] <= ps'["min"]
  <2>1. /\ ps["min"] \in Nat /\ all["min"] \in Nat
        /\ ps'["min"] = IF d < ps["min"] THEN d ELSE ps["min"]
        /\ all'["min"] = IF d < all["min"] THEN d ELSE all["min"]
    BY <1>1, <1>2, <1>3, <1>4, DelayedGroup, Names
  <2> QED
    BY <1>3, <2>1 DEF GroupsInv
<1>7. \A f \in Counters \ {"min"} : ps[f] <= all[f] => ps'[f] <= all'[f]
  <2>1. /\ \A f \in {"success", "failure", "total"} : ps'[f] = ps[f] /\ all'[f] = all[f]
        /\ ps'["sum"] = ps["sum"] + d /\ all'["sum"] = all["sum"] + d
        /\ ps'["max"] = IF d > ps["max"] THEN d ELSE ps["max"]
        /\ all'["max"] = IF d > all["max"] THEN d ELSE all["max"]
    BY <1>1, <1>2, <1>3, DelayedGroup
  <2>2. \/ ps'["timeout"] = ps["timeout"] /\ all'["timeout"] = all["timeout"]
        \/ ps'["timeout"] = ps["timeout"] + 1 /\ all'["timeout"] = all["timeout"] + 1
    <3>1. CASE cDelayThreshold # 0 /\ d > cDelayThreshold
      BY <1>1, <1>2, <3>1, Names DEF Delayed, Group
    <3>2. CASE ~(cDelayThreshold # 0 /\ d > cDelayThreshold)
      BY <1>1, <1>2, <3>2, Names DEF Delayed, Group
    <3> QED
      BY <3>1, <3>2
  <2> QED
    BY <1>3, <1>4, <2>1, <2>2, Names
<1>8. ps'["total"] - ps["total"] = all'["total"] - all["total"]
  BY <1>4, <1>5, Names
<1> QED
  BY <1>1, <1>4, <1>6, <1>7, <1>8, BothAdded

\* A request is counted in both groups.
LEMMA IncreaseGroupsInv ==
    ASSUME Shape, GroupsInv, NEW w \in Workers, Increase(w)
    PROVE  GroupsInv'
<1>1. Group(all) /\ Group(ps) /\ printed \in Nat /\ printed' = printed
  BY DEF Shape, Increase
<1>2. PICK result \in {"success", "failure"} :
        all' = CountedAs(all, result) /\ ps' = CountedAs(ps, result)
  BY DEF Increase
<1>3. /\ \A f \in Counters : all[f] \in Nat /\ ps[f] \in Nat
      /\ Group(all') /\ Group(ps')
      /\ all'["total"] = all["total"] + 1 /\ ps'["total"] = ps["total"] + 1
      /\ all'[result] = all[result] + 1 /\ ps'[result] = ps[result] + 1
      /\ \A f \in Counters \ {result, "total"} : all'[f] = all[f] /\ ps'[f] = ps[f]
  BY <1>1, <1>2, CountedGroup DEF Group
<1>4. \A f \in Counters \ {"min"} : ps[f] <= all[f] => ps'[f] <= all'[f]
  <2>1. \A f \in Counters : f \in {result, "total"} \/ f \in Counters \ {result, "total"}
    OBVIOUS
  <2>2. result \in Counters /\ "total" \in Counters
    BY Names
  <2> QED
    BY <1>3, <2>1, <2>2
<1>5. ps'["min"] < NoDelay_ps => all'["min"] <= ps'["min"]
  BY <1>3, Names DEF GroupsInv
<1>6. ps'["total"] - ps["total"] = all'["total"] - all["total"]
  BY <1>3, Names
<1> QED
  BY <1>1, <1>3, <1>4, <1>5, <1>6, BothAdded

\* What the line shows moves from the second to the lines printed.
LEMMA ResetGroupsInv ==
    ASSUME Shape, GroupsInv, LinesInv, Reset
    PROVE  GroupsInv'
<1>1. ps' = Zero(NoDelay_ps) /\ all' = all /\ printed' = printed + psLine["total"]
  BY DEF Reset
<1>2. /\ \A f \in Counters : all[f] \in Nat
      /\ psLine["total"] \in Nat /\ ps["total"] \in Nat /\ all["total"] \in Nat
      /\ printed \in Nat /\ NoDelay_ps \in Nat
  BY Names, StatisticAssumption DEF Shape, Group, StatisticAssumption
<1>3. psLine["total"] <= ps["total"] /\ printed + ps["total"] <= all["total"]
  BY Names DEF LinesInv, GroupsInv
<1>4. /\ \A f \in Counters \ {"min"} : ps'[f] = 0
      /\ ps'["min"] = NoDelay_ps /\ ps'["total"] = 0
  BY <1>1, ZeroGroup, Names
<1>5. \A f \in Counters \ {"min"} : ps'[f] <= all'[f]
  BY <1>1, <1>2, <1>4
<1>6. printed' + ps'["total"] <= all'["total"]
  BY <1>1, <1>2, <1>3, <1>4
<1> QED
  BY <1>2, <1>4, <1>5, <1>6 DEF GroupsInv

\* A second stays part of the whole.
LEMMA NextGroupsInv ==
    ASSUME Shape, GroupsInv, LinesInv, [Next]_vars
    PROVE  GroupsInv'
<1> USE DEF given, GroupsInv
<1>1. ASSUME NEW w \in Workers, UpdateDelay(w)
      PROVE  GroupsInv'
  BY <1>1, UpdateDelayGroupsInv
<1>2. ASSUME NEW w \in Workers, Increase(w)
      PROVE  GroupsInv'
  BY <1>2, IncreaseGroupsInv
<1>3. CASE StartOutput
  BY <1>3 DEF StartOutput
<1>4. CASE ReadPerSecond
  BY <1>4 DEF ReadPerSecond
<1>5. CASE NextPrintf
  BY <1>5 DEF NextPrintf
<1>6. CASE ReadOverall
  BY <1>6 DEF ReadOverall
<1>7. CASE FinishPrintf
  BY <1>7 DEF FinishPrintf
<1>8. CASE Reset
  BY <1>8, ResetGroupsInv
<1>9. CASE UNCHANGED vars
  BY <1>9 DEF vars
<1> QED
  BY <1>1, <1>2, <1>3, <1>4, <1>5, <1>6, <1>7, <1>8, <1>9 DEF Next, OutputNext

\* The counters of the second may go on after they were read.
LEMMA Monotone ==
    ASSUME Shape, LinesInv, Shape', UNCHANGED <<watched, output, toRead, psLine, allLine>>,
           \A c \in Counters \ {"min"} : ps[c] <= ps'[c], ps'["min"] <= ps["min"]
    PROVE  LinesInv'
<1>1. /\ \A c \in Counters : ps[c] \in Nat /\ ps'[c] \in Nat
      /\ \A c \in Counters : psLine[c] \in Nat
  BY DEF Shape, Group, Reads
<1>2. \A c \in Counters \ {"min"} : psLine'[c] <= ps'[c]
  <2>1. \A c \in Counters \ {"min"} : psLine[c] <= ps[c]
    BY DEF LinesInv
  <2> QED
    BY <1>1, <2>1
<1>3. psLine["min"] >= ps["min"] => psLine["min"] >= ps'["min"]
  BY <1>1 DEF Counters
<1> QED
  BY <1>2, <1>3 DEF LinesInv

\* A worker that goes on after a line was read takes no counter back.
LEMMA UpdateDelayLinesInv ==
    ASSUME Shape, LinesInv, NEW w \in Workers, UpdateDelay(w)
    PROVE  LinesInv'
<1>1. PICK d \in Delays : ps' = Delayed(ps, d)
  BY DEF UpdateDelay
<1>2. d \in Nat
  BY StatisticAssumption DEF StatisticAssumption
<1>3. UNCHANGED <<watched, output, toRead, psLine, allLine>>
  BY DEF UpdateDelay, given
<1>4. Group(ps)
  BY DEF Shape
<1>5. \A f \in Counters : ps[f] \in Nat
  BY <1>4 DEF Group
<1>6. /\ \A f \in {"success", "failure", "total"} : ps'[f] = ps[f]
      /\ ps'["sum"] = ps["sum"] + d
      /\ ps'["max"] = IF d > ps["max"] THEN d ELSE ps["max"]
      /\ ps'["min"] = IF d < ps["min"] THEN d ELSE ps["min"]
      /\ ps'["timeout"] \in {ps["timeout"], ps["timeout"] + 1}
  BY <1>1, <1>2, <1>4, DelayedGroup
<1>7. /\ ps["sum"] \in Nat /\ ps["max"] \in Nat /\ ps["min"] \in Nat /\ ps["timeout"] \in Nat
      /\ ps["success"] \in Nat /\ ps["failure"] \in Nat /\ ps["total"] \in Nat
  BY <1>5, Names
<1>8. /\ ps["success"] <= ps'["success"] /\ ps["failure"] <= ps'["failure"]
      /\ ps["total"] <= ps'["total"] /\ ps["timeout"] <= ps'["timeout"]
      /\ ps["sum"] <= ps'["sum"] /\ ps["max"] <= ps'["max"]
      /\ ps'["min"] <= ps["min"]
  BY <1>2, <1>6, <1>7
<1>9. \A c \in Counters \ {"min"} : ps[c] <= ps'[c]
  BY <1>8, Names
<1>10. Shape'
  BY UpdateDelayShape
<1> QED
  BY <1>3, <1>8, <1>9, <1>10, Monotone

\* Nor does one that counts its request.
LEMMA IncreaseLinesInv ==
    ASSUME Shape, LinesInv, NEW w \in Workers, Increase(w)
    PROVE  LinesInv'
<1>1. PICK result \in {"success", "failure"} : ps' = CountedAs(ps, result)
  BY DEF Increase
<1>2. UNCHANGED <<watched, output, toRead, psLine, allLine>>
  BY DEF Increase, given
<1>3. Group(ps)
  BY DEF Shape
<1>4. \A f \in Counters : ps[f] \in Nat
  BY <1>3 DEF Group
<1>5. /\ ps'["total"] = ps["total"] + 1 /\ ps'[result] = ps[result] + 1
      /\ \A f \in Counters \ {result, "total"} : ps'[f] = ps[f]
  BY <1>1, <1>3, CountedGroup
<1>6. result \in Counters /\ result # "min"
  BY Names
<1>7. \A c \in Counters : ps[c] <= ps'[c]
  <2>1. \A f \in Counters : f \in {result, "total"} \/ f \in Counters \ {result, "total"}
    OBVIOUS
  <2> QED
    BY <1>4, <1>5, <1>6, <2>1, Names
<1>8. ps["min"] \in Nat /\ ps'["min"] = ps["min"]
  BY <1>4, <1>5, <1>6, Names
<1>9. ps'["min"] <= ps["min"]
  BY <1>8
<1>10. Shape'
  BY IncreaseShape
<1> QED
  BY <1>2, <1>7, <1>9, <1>10, Monotone

\* A read for the first line sees the second as it is.
LEMMA ReadPerSecondLinesInv ==
    ASSUME Shape, LinesInv, ReadPerSecond
    PROVE  LinesInv'
<1>1. PICK r \in Reads : Read(r, psLine, ps)
  BY DEF ReadPerSecond
<1>2. /\ output = "per second"
      /\ UNCHANGED <<watched, all, ps, output, allLine>>
      /\ r \in toRead /\ toRead' = toRead \ {r}
      /\ psLine \in [Reads -> Nat] /\ toRead \subseteq watched
      /\ \A c \in Counters : ps[c] \in Nat
  BY <1>1 DEF ReadPerSecond, Read, given, Shape, Group
<1>3. /\ \A c \in Reads \ {r} : psLine'[c] = psLine[c]
      /\ r \in Counters => psLine'[r] = ps[r]
  BY <1>1, <1>2 DEF Read, Counters
<1>4. \A c \in Counters \ {"min"} : psLine'[c] <= ps'[c]
  <2>1. \A c \in Counters \ {"min"} : psLine[c] <= ps[c]
    BY DEF LinesInv
  <2>2. \A c \in Counters \ {"min"} : psLine'[c] = psLine[c] \/ psLine'[c] = ps[c]
    BY <1>3, Names
  <2>3. \A c \in Counters : ps[c] \in Nat
    BY <1>2
  <2>4. \A c \in Counters : ps[c] <= ps[c]
    BY <2>3
  <2>5. ps' = ps
    BY <1>2
  <2> QED
    BY <2>1, <2>2, <2>4, <2>5
<1>5. \A c \in Counters \ watched' : psLine'[c] = 0 /\ allLine'[c] = 0
  BY <1>2, <1>3, Names DEF LinesInv
<1>6. \A c \in toRead' \cap Counters : psLine'[c] = 0
  BY <1>2, <1>3, Names DEF LinesInv
<1>7. "min" \in watched /\ "min" \notin toRead' => psLine'["min"] >= ps'["min"]
  <2>1. CASE r = "min"
    <3>1. psLine'["min"] = ps["min"] /\ ps["min"] \in Nat
      BY <1>2, <1>3, <2>1, Names
    <3>2. ps' = ps
      BY <1>2
    <3> QED
      BY <3>1, <3>2
  <2>2. CASE r # "min"
    <3>1. psLine'["min"] = psLine["min"] /\ ("min" \notin toRead' => "min" \notin toRead)
      BY <1>2, <1>3, <2>2, Names
    <3>2. "min" \in watched /\ "min" \notin toRead => psLine["min"] >= ps["min"]
      BY <1>2 DEF LinesInv
    <3> QED
      BY <1>2, <3>1, <3>2
  <2> QED
    BY <2>1, <2>2
<1> QED
  BY <1>2, <1>4, <1>5, <1>6, <1>7 DEF LinesInv

\* A read for the second line sees at least what the first line shows.
LEMMA ReadOverallLinesInv ==
    ASSUME Shape, GroupsInv, LinesInv, ReadOverall
    PROVE  LinesInv'
<1>1. PICK r \in Reads : Read(r, allLine, all)
  BY DEF ReadOverall
<1>2. /\ output = "overall"
      /\ UNCHANGED <<watched, all, ps, output, psLine>>
      /\ r \in toRead /\ toRead' = toRead \ {r}
      /\ allLine \in [Reads -> Nat] /\ psLine \in [Reads -> Nat] /\ toRead \subseteq watched
      /\ \A c \in Counters : ps[c] \in Nat /\ all[c] \in Nat
  BY <1>1 DEF ReadOverall, Read, given, Shape, Group
<1>3. /\ \A c \in Reads \ {r} : allLine'[c] = allLine[c]
      /\ r \in Counters => allLine'[r] = all[r]
  BY <1>1, <1>2 DEF Read, Counters
<1>4. \A c \in Counters \ watched' : psLine'[c] = 0 /\ allLine'[c] = 0
  BY <1>2, <1>3, Names DEF LinesInv
<1>5. ASSUME NEW c \in (watched' \cap Counters) \ toRead'
      PROVE  /\ c # "min" => psLine'[c] <= allLine'[c]
             /\ c = "min" /\ psLine'["min"] < NoDelay_ps => allLine'["min"] <= psLine'["min"]
  <2>1. CASE c # r
    BY <1>2, <1>3, <2>1, Names DEF LinesInv
  <2>2. CASE c = r /\ c # "min"
    <3>1. allLine'[c] = all[c] /\ psLine'[c] = psLine[c] /\ psLine[c] \in Nat
      BY <1>2, <1>3, <2>2, Names
    <3>2. psLine[c] <= ps[c] /\ ps[c] <= all[c]
      BY <1>2, <2>2 DEF LinesInv, GroupsInv
    <3> QED
      BY <1>2, <2>2, <3>1, <3>2
  <2>3. CASE c = r /\ c = "min"
    <3>1. allLine'["min"] = all["min"] /\ psLine'["min"] = psLine["min"] /\ psLine["min"] \in Nat
      BY <1>2, <1>3, <2>3, Names
    <3>2. psLine["min"] >= ps["min"]
      BY <1>2, <2>3 DEF LinesInv
    <3>3. ps["min"] < NoDelay_ps => all["min"] <= ps["min"]
      BY DEF GroupsInv
    <3>4. NoDelay_ps \in Nat /\ ps["min"] \in Nat /\ all["min"] \in Nat
      BY <1>2, StatisticAssumption, Names DEF StatisticAssumption
    <3> QED
      BY <2>3, <3>1, <3>2, <3>3, <3>4
  <2> QED
    BY <2>1, <2>2, <2>3
<1>6. \A c \in Counters \ {"min"} : psLine'[c] <= ps'[c]
  BY <1>2 DEF LinesInv
<1>7. "min" \in watched' => psLine'["min"] >= ps'["min"]
  BY <1>2 DEF LinesInv
<1> QED
  BY <1>2, <1>4, <1>5, <1>6, <1>7 DEF LinesInv

\* The lines stay in step with the counters.
LEMMA NextLinesInv ==
    ASSUME Shape, GroupsInv, LinesInv, [Next]_vars
    PROVE  LinesInv'
<1> USE DEF Shape, given, LinesInv
<1>1. ASSUME NEW w \in Workers, UpdateDelay(w)
      PROVE  LinesInv'
  BY <1>1, UpdateDelayLinesInv
<1>2. ASSUME NEW w \in Workers, Increase(w)
      PROVE  LinesInv'
  BY <1>2, IncreaseLinesInv
<1>3. CASE StartOutput
  BY <1>3 DEF StartOutput
<1>4. CASE ReadPerSecond
  BY <1>4, ReadPerSecondLinesInv
<1>5. CASE NextPrintf
  BY <1>5 DEF NextPrintf
<1>6. CASE ReadOverall
  BY <1>6, ReadOverallLinesInv
<1>7. CASE FinishPrintf
  BY <1>7 DEF FinishPrintf
<1>8. CASE Reset
  BY <1>8, ZeroGroup DEF Reset, Blank, Reads, Counters
<1>9. CASE UNCHANGED vars
  BY <1>9 DEF vars
<1> QED
  BY <1>1, <1>2, <1>3, <1>4, <1>5, <1>6, <1>7, <1>8, <1>9 DEF Next, OutputNext

-----------------------------------------------------------------------------
\* The invariant the three parts make up holds from the start and after every step,
\* whatever Output reads between the critical sections of the workers.
THEOREM Invariance == Spec => []IInv
<1>1. IInv /\ [Next]_vars => IInv'
  BY NextShape, NextGroupsInv, NextLinesInv DEF IInv
<1> QED
  BY InitIInv, <1>1, PTL DEF Spec

\* Every counter, and everything a line shows, is a number that was counted.
THEOREM TypeCorrectness == Spec => []TypeOK
<1>1. IInv => TypeOK
  BY DEF IInv, Shape, Group, TypeOK
<1> QED
  BY Invariance, <1>1, PTL

\* NoDoubleCount: the totals of the lines printed so far, with what the reset that is
\* due will add to them, are no more than the requests counted; a request counted
\* between a printf and the reset of Output is lost to the lines, but none is in two.
THEOREM NothingIsPrintedTwice == Spec => []NoDoubleCount
<1>1. IInv => NoDoubleCount
  <2> SUFFICES ASSUME IInv
               PROVE  NoDoubleCount
    OBVIOUS
  <2>1. /\ psLine["total"] \in Nat /\ ps["total"] \in Nat /\ all["total"] \in Nat
        /\ printed \in Nat
    BY Names DEF IInv, Shape, Group
  <2>2. psLine["total"] <= ps["total"] /\ printed + ps["total"] <= all["total"]
    BY Names DEF IInv, LinesInv, GroupsInv
  <2> QED
    BY <2>1, <2>2 DEF NoDoubleCount
<1> QED
  BY Invariance, <1>1, PTL

\* OverallCoversSecond: of the two lines of one Output the second, read while the
\* workers go on, never shows less than the first.
THEOREM OverallIsNotBehind == Spec => []OverallCoversSecond
<1>1. IInv => OverallCoversSecond
  <2> SUFFICES ASSUME IInv, output = "reset"
               PROVE  /\ \A c \in Counters \ {"min"} : psLine[c] <= allLine[c]
                      /\ psLine["min"] < NoDelay_ps => allLine["min"] <= psLine["min"]
    BY DEF OverallCoversSecond
  <2>1. toRead = {}
    BY DEF IInv, LinesInv
  <2>2. ASSUME NEW c \in Counters, c \in watched
        PROVE  /\ c # "min" => psLine[c] <= allLine[c]
               /\ c = "min" /\ psLine["min"] < NoDelay_ps => allLine["min"] <= psLine["min"]
    BY <2>1, <2>2 DEF IInv, LinesInv
  <2>3. ASSUME NEW c \in Counters, c \notin watched
        PROVE  psLine[c] = 0 /\ allLine[c] = 0
    BY <2>3 DEF IInv, LinesInv
  <2> QED
    BY <2>2, <2>3, Names
<1> QED
  BY Invariance, <1>1, PTL

-----------------------------------------------------------------------------
(* The totals                                                              *)

\* The workers between UpdateDelay and the count of their request.
Counting == {w \in Workers : pending[w]}

\* What the requests took together, by their delays.
Spent == [d \in Delays |-> d * calls[d]]

\* Initially nothing is counted.
LEMMA InitTotals == Init => ExactTotals
<1> SUFFICES ASSUME Init PROVE ExactTotals
  OBVIOUS
<1>1. IsFiniteSet(Delays) /\ \A d \in Delays : d \in Nat /\ d < NoDelay
  BY StatisticAssumption
<1>2. \A d \in Delays : calls[d] = 0 /\ Spent[d] = 0
  BY <1>1 DEF Init, Spent
<1>3. \A s \in SUBSET Delays : SumOver(calls, s) = 0 /\ SumOver(Spent, s) = 0
  BY <1>1, <1>2, SumZero
<1>4. Requests = 0 /\ SumOver(Spent, Delays) = 0
      /\ SumOver(calls, {d \in Delays : d > cDelayThreshold}) = 0
  BY <1>3 DEF Requests
<1>5. Cardinality(Counting) = 0
  <2>1. Counting = {}
    BY DEF Counting, Init
  <2> QED BY <2>1, FS_EmptySet
<1>6. /\ all.total = 0 /\ all.success = 0 /\ all.failure = 0 /\ all.sum = 0
      /\ all.timeout = 0 /\ all.max = 0 /\ all.min = NoDelay
  BY ZeroGroup, Names DEF Init
<1>7. NoDelay \in Nat
  BY StatisticAssumption
<1> QED BY <1>1, <1>2, <1>4, <1>5, <1>6, <1>7 DEF ExactTotals, Recorded, Counting, Spent

\* A delay is added to the totals.
LEMMA UpdateDelayTotals ==
    ASSUME Shape, ExactTotals, NEW w \in Workers, UpdateDelay(w)
    PROVE  ExactTotals'
<1>1. PICK d \in Delays : all' = Delayed(all, d) /\ calls' = [calls EXCEPT ![d] = @ + 1]
  BY DEF UpdateDelay
<1>2. /\ ~ pending[w] /\ pending' = [pending EXCEPT ![w] = TRUE]
      /\ cDelayThreshold' = cDelayThreshold
  BY DEF UpdateDelay, given
<1>3. /\ IsFiniteSet(Delays) /\ IsFiniteSet(Workers) /\ Delays \subseteq Nat
      /\ cDelayThreshold \in Nat /\ calls \in [Delays -> Nat] /\ Group(all)
      /\ pending \in [Workers -> BOOLEAN]
  BY StatisticAssumption DEF Shape
<1>4. \A e \in Delays : /\ calls[e] \in Nat
                        /\ calls'[e] = IF e = d THEN calls[e] + 1 ELSE calls[e]
  BY <1>1, <1>3
<1> DEFINE Late == {e \in Delays : e > cDelayThreshold}
<1>5. \A s \in SUBSET Delays :
        SumOver(calls', s) = IF d \in s THEN SumOver(calls, s) + 1 ELSE SumOver(calls, s)
  <2> DEFINE f == calls
             g == calls'
             k == 1
  <2>1. /\ IsFiniteSet(Delays) /\ k \in Nat
        /\ \A e \in Delays : f[e] \in Nat
        /\ \A e \in Delays : g[e] = IF e = d THEN f[e] + k ELSE f[e]
    BY <1>3, <1>4
  <2> HIDE DEF f, g, k
  <2>2. \A s \in SUBSET Delays :
          SumOver(g, s) = IF d \in s THEN SumOver(f, s) + k ELSE SumOver(f, s)
    BY ONLY <2>1, SumAdd
  <2> QED BY <2>2 DEF f, g, k
<1>6. \A s \in SUBSET Delays : SumOver(calls, s) \in Nat
  BY <1>3, <1>4, SumNumber
<1>7. Requests' = Requests + 1
  <2>1. Requests' = SumOver(calls', Delays) /\ Requests = SumOver(calls, Delays)
    BY DEF Requests
  <2> QED BY <1>5, <2>1
<1>8. SumOver(calls', Late) = IF d > cDelayThreshold THEN SumOver(calls, Late) + 1
                              ELSE SumOver(calls, Late)
  <2>1. Late \in SUBSET Delays /\ (d \in Late <=> d > cDelayThreshold)
    OBVIOUS
  <2> HIDE DEF Late
  <2> QED BY <1>5, <2>1
<1>9. SumOver(Spent', Delays) = SumOver(Spent, Delays) + d
  <2> DEFINE f == Spent
             g == Spent'
  <2>1. \A e \in Delays : f[e] = e * calls[e] /\ g[e] = e * calls'[e]
    BY DEF Spent
  <2>2. \A e \in Delays : f[e] \in Nat
    <3>1. \A i, j \in Nat : i * j \in Nat
      OBVIOUS
    <3> QED BY <1>3, <1>4, <2>1, <3>1
  <2>3. \A e \in Delays : g[e] = IF e = d THEN f[e] + d ELSE f[e]
    <3>1. \A i, j \in Nat : i * (j + 1) = i * j + i
      OBVIOUS
    <3>2. g[d] = d * (calls[d] + 1) /\ f[d] = d * calls[d]
      BY <1>4, <2>1
    <3>3. d \in Nat /\ calls[d] \in Nat
      BY <1>3, <1>4
    <3>4. g[d] = f[d] + d
      BY <3>1, <3>2, <3>3
    <3>5. \A e \in Delays \ {d} : g[e] = f[e]
      BY <1>4, <2>1
    <3> QED BY <3>4, <3>5
  <2> DEFINE k == d
  <2>4. /\ IsFiniteSet(Delays) /\ k \in Nat
        /\ \A e \in Delays : f[e] \in Nat
        /\ \A e \in Delays : g[e] = IF e = d THEN f[e] + k ELSE f[e]
    BY <1>3, <2>2, <2>3
  <2> HIDE DEF f, g, k
  <2>5. \A s \in SUBSET Delays :
          SumOver(g, s) = IF d \in s THEN SumOver(f, s) + k ELSE SumOver(f, s)
    BY ONLY <2>4, SumAdd
  <2> QED BY <2>5 DEF f, g, k
<1>10. Cardinality(Counting') = Cardinality(Counting) + 1 /\ Cardinality(Counting) \in Nat
  <2>1. Counting' = Counting \cup {w} /\ w \notin Counting
    BY <1>2, <1>3 DEF Counting
  <2>2. IsFiniteSet(Counting)
    BY <1>3, FS_Subset DEF Counting
  <2> QED BY <2>1, <2>2, FS_AddElement, FS_CardinalityType
<1>11. /\ all'.total = all.total /\ all'.success = all.success /\ all'.failure = all.failure
       /\ all'.sum = all.sum + d
       /\ all'.max = IF d > all.max THEN d ELSE all.max
       /\ all'.min = IF d < all.min THEN d ELSE all.min
  BY <1>1, <1>3, DelayedGroup
<1>12. all'.timeout = IF cDelayThreshold # 0 /\ d > cDelayThreshold THEN all.timeout + 1
                      ELSE all.timeout
  BY <1>1, <1>3, Names DEF Group, Delayed
<1>13. /\ all.total \in Nat /\ all.sum \in Nat /\ all.max \in Nat /\ all.min \in Nat
       /\ all.timeout \in Nat /\ all.success \in Nat /\ all.failure \in Nat
  BY <1>3, Names DEF Group
<1>14. /\ all.total + Cardinality(Counting) = Requests
       /\ all.success + all.failure = all.total
       /\ all.sum = SumOver(Spent, Delays)
       /\ \A e \in Delays : Recorded(e) => all.min <= e /\ e <= all.max
       /\ \A e \in Delays : all.min = e \/ all.max = e => Recorded(e) \/ e = 0
       /\ all.timeout = IF cDelayThreshold = 0 THEN 0 ELSE SumOver(calls, Late)
  BY DEF ExactTotals, Counting, Spent
<1>15. \A e \in Delays : Recorded(e)' <=> Recorded(e) \/ e = d
  BY <1>4 DEF Recorded
<1>16. all'.total + Cardinality(Counting') = Requests'
  BY <1>7, <1>10, <1>11, <1>13, <1>14
<1>17. \A e \in Delays : Recorded(e)' => all'.min <= e /\ e <= all'.max
  BY <1>3, <1>11, <1>13, <1>14, <1>15
<1>18. \A e \in Delays : all'.min = e \/ all'.max = e => Recorded(e)' \/ e = 0
  BY <1>3, <1>11, <1>13, <1>14, <1>15
<1>19. all'.timeout = IF cDelayThreshold = 0 THEN 0 ELSE SumOver(calls', Late)
  BY <1>8, <1>12, <1>14
<1> QED BY <1>2, <1>9, <1>11, <1>14, <1>16, <1>17, <1>18, <1>19
        DEF ExactTotals, Counting, Spent

\* A request is counted in the totals.
LEMMA IncreaseTotals ==
    ASSUME Shape, ExactTotals, NEW w \in Workers, Increase(w)
    PROVE  ExactTotals'
<1>1. PICK result \in {"success", "failure"} : all' = CountedAs(all, result)
  BY DEF Increase
<1>2. /\ pending[w] /\ pending' = [pending EXCEPT ![w] = FALSE]
      /\ cDelayThreshold' = cDelayThreshold /\ calls' = calls
  BY DEF Increase, given
<1>3. Group(all) /\ pending \in [Workers -> BOOLEAN] /\ IsFiniteSet(Workers)
  BY StatisticAssumption DEF Shape
<1>4. Cardinality(Counting') = Cardinality(Counting) - 1 /\ Cardinality(Counting) \in Nat
  <2>1. Counting' = Counting \ {w} /\ w \in Counting
    BY <1>2, <1>3 DEF Counting
  <2>2. IsFiniteSet(Counting)
    BY <1>3, FS_Subset DEF Counting
  <2> QED BY <2>1, <2>2, FS_RemoveElement, FS_CardinalityType
<1>5. /\ all'.total = all.total + 1
      /\ all'.success + all'.failure = all.success + all.failure + 1
      /\ all'.sum = all.sum /\ all'.max = all.max /\ all'.min = all.min
      /\ all'.timeout = all.timeout
  <2>1. /\ all'.total = all.total + 1 /\ all'[result] = all[result] + 1
        /\ \A f \in Counters \ {result, "total"} : all'[f] = all[f]
    BY <1>1, <1>3, CountedGroup
  <2>2. /\ all.success \in Nat /\ all.failure \in Nat
    BY <1>3, Names DEF Group
  <2>3. CASE result = "success"
    BY <2>1, <2>2, <2>3, Names
  <2>4. CASE result = "failure"
    BY <2>1, <2>2, <2>4, Names
  <2> QED BY <2>3, <2>4
<1>6. all.total \in Nat /\ all.success \in Nat /\ all.failure \in Nat
  BY <1>3, Names DEF Group
<1>7. /\ all.total + Cardinality(Counting) = Requests
      /\ all.success + all.failure = all.total
  BY DEF ExactTotals, Counting
<1>8. Requests' = Requests
  BY <1>2 DEF Requests
<1>9. /\ all'.total + Cardinality(Counting') = Requests'
      /\ all'.success + all'.failure = all'.total
  BY <1>4, <1>5, <1>6, <1>7, <1>8
<1> QED BY <1>2, <1>5, <1>9 DEF ExactTotals, Counting, Recorded

\* The steps of Output leave the totals.
LEMMA NextTotals ==
    ASSUME Shape, ExactTotals, [Next]_vars
    PROVE  ExactTotals'
<1>1. ASSUME NEW w \in Workers, UpdateDelay(w) PROVE ExactTotals'
  BY <1>1, UpdateDelayTotals
<1>2. ASSUME NEW w \in Workers, Increase(w) PROVE ExactTotals'
  BY <1>2, IncreaseTotals
<1>3. CASE OutputNext \/ UNCHANGED vars
  <2>1. UNCHANGED <<all, pending, calls, cDelayThreshold>>
    BY <1>3 DEF OutputNext, StartOutput, ReadPerSecond, NextPrintf, ReadOverall,
       FinishPrintf, Reset, vars, given
  <2> QED BY <2>1 DEF ExactTotals, Requests, Recorded
<1> QED BY <1>1, <1>2, <1>3 DEF Next

\* ExactTotals: for any number of workers and requests and any delays, whatever Output
\* reads meanwhile, the overall counters are those of the requests recorded, but for the
\* requests between UpdateDelay and the count, which are not in the total yet: the sum is
\* that of their delays, the minimum and the maximum are two of them, and the timeouts are
\* those above the threshold.
THEOREM TotalsAreExact == Spec => []ExactTotals
<1>1. (IInv /\ ExactTotals) /\ [Next]_vars => ExactTotals'
  BY NextTotals DEF IInv
<1> QED BY <1>1, InitTotals, Invariance, PTL DEF Spec
=============================================================================
