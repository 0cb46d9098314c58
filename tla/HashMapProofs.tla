---------------------------- MODULE HashMapProofs ----------------------------
(***************************************************************************)
(* Theorems about HashMap, for any number of units, buckets and keys,      *)
(* any calls of the processes and any number of them killed: the types,    *)
(* and that the map stays usable, counts and finds its dirty blocks.       *)
(*                                                                         *)
(* An update is followed through the operators of BlockLists to what it    *)
(* does to a list: IsPath and IsChain say that the blocks of a sequence    *)
(* are linked in both directions, Links that two lists and the chains of   *)
(* the buckets hold the same blocks.  Follow, which walks along a link,    *)
(* finds such a sequence; that is the one induction, over the length of    *)
(* the walk.  The invariant HashInv adds to this that the marks are on     *)
(* blocks of the map, that no unit is in two places (Owned), and what a    *)
(* process can rely on at each of its steps (StepFits): it is between two  *)
(* steps that it is killed.                                                *)
(***************************************************************************)
EXTENDS HashMap, SequenceTheorems, FiniteSetTheorems, WellFoundedInduction, TLAPS

-----------------------------------------------------------------------------
(* Numbers                                                                 *)

\* A set of numbers that has a number whenever it has all the smaller ones has them all.
LEMMA Induct ==
    ASSUME NEW S, \A n \in Nat : (\A k \in Nat : k < n => k \in S) => n \in S
    PROVE  Nat \subseteq S
<1> DEFINE Missed == {n \in Nat : n \notin S}
<1> SUFFICES ASSUME Missed # {} PROVE FALSE
  OBVIOUS
<1>1. \E n \in Missed : \A k \in Missed : <<k, n>> \notin OpToRel(<, Nat)
  <2>1. Missed \subseteq Nat
    OBVIOUS
  <2> QED BY <2>1, NatLessThanWellFounded, WFMin, Zenon
<1> QED BY <1>1 DEF OpToRel

\* The same one number at a time.
LEMMA Count ==
    ASSUME NEW S, 0 \in S, \A n \in Nat : n \in S => n + 1 \in S
    PROVE  Nat \subseteq S
<1>1. ASSUME NEW n \in Nat, \A k \in Nat : k < n => k \in S PROVE n \in S
  <2>1. CASE n = 0
    BY <2>1
  <2>2. CASE n # 0
    <3>1. n - 1 \in Nat /\ n - 1 < n /\ (n - 1) + 1 = n
      BY <2>2
    <3>2. n - 1 \in S
      BY <1>1, <3>1
    <3> QED BY <3>1, <3>2
  <2> QED BY <2>1, <2>2
<1> QED BY <1>1, Induct

-----------------------------------------------------------------------------
(* The memory and its updates                                              *)

\* The memory when one update has been made.
One(m, u) == [m EXCEPT ![u[1]][u[2]] = u[3]]

\* What an update leaves of a field.
LEMMA OneReads ==
    ASSUME NEW m, NEW u
    PROVE  /\ DOMAIN One(m, u) = DOMAIN m
           /\ \A a \in DOMAIN m : /\ DOMAIN One(m, u)[a] = DOMAIN m[a]
                                  /\ \A f \in DOMAIN m[a] :
                                       One(m, u)[a][f] = IF a = u[1] /\ f = u[2] THEN u[3] ELSE m[a][f]
BY DEF One

\* The memory after each of the updates.
After(updates, m, f) ==
    f = [n \in 0..Len(updates) |-> IF n = 0 THEN m ELSE One(f[n - 1], updates[n])]

\* The memories that Updated goes through.
LEMMA AfterExists ==
    ASSUME NEW updates, Len(updates) \in Nat, NEW m
    PROVE  \E f : After(updates, m, f)
<1> DEFINE Upto(n, f) == f = [k \in 0..n |-> IF k = 0 THEN m ELSE One(f[k - 1], updates[k])]
           S == {n \in Nat : \E f : Upto(n, f)}
<1>1. 0 \in S
  <2> DEFINE f == [k \in 0..0 |-> m]
  <2>1. Upto(0, f)
    OBVIOUS
  <2> QED BY <2>1
<1>2. ASSUME NEW n \in Nat, n \in S PROVE n + 1 \in S
  <2>1. PICK g : Upto(n, g)
    BY <1>2
  <2> DEFINE f == [k \in 0..(n + 1) |-> IF k <= n THEN g[k] ELSE One(g[n], updates[n + 1])]
  <2>2. ASSUME NEW k \in 0..(n + 1) PROVE f[k] = IF k = 0 THEN m ELSE One(f[k - 1], updates[k])
    <3>1. CASE k = 0
      BY <2>1, <3>1
    <3>2. CASE k # 0 /\ k <= n
      <4>1. k \in 0..n /\ k - 1 \in 0..(n + 1) /\ k - 1 <= n
        BY <3>2
      <4>2. g[k] = One(g[k - 1], updates[k])
        BY <2>1, <3>2, <4>1
      <4> QED BY <3>2, <4>1, <4>2
    <3>3. CASE k = n + 1
      <4>1. k # 0 /\ ~ (k <= n) /\ k - 1 = n /\ n \in 0..(n + 1)
        BY <3>3
      <4> QED BY <3>3, <4>1
    <3> QED BY <3>1, <3>2, <3>3
  <2>3. f = [k \in 0..(n + 1) |-> f[k]]
    OBVIOUS
  <2> HIDE DEF f
  <2>4. Upto(n + 1, f)
    BY <2>2, <2>3
  <2> QED BY <2>4
<1> HIDE DEF S
<1>3. Nat \subseteq S
  BY <1>1, <1>2, Count
<1> QED BY <1>3 DEF S, After

\* Updated, one update after the other.
LEMMA UpdatedSteps ==
    ASSUME NEW updates, Len(updates) \in Nat, NEW m
    PROVE  \E f : /\ f[0] = m
                  /\ \A n \in 1..Len(updates) : f[n] = One(f[n - 1], updates[n])
                  /\ Updated(updates, m) = f[Len(updates)]
<1> DEFINE F == CHOOSE f : After(updates, m, f)
<1>1. After(updates, m, F)
  BY AfterExists
<1>2. Updated(updates, m) = F[Len(updates)]
  BY DEF Updated, After, One
<1> HIDE DEF F
<1>3. F[0] = m
  BY <1>1 DEF After
<1>4. ASSUME NEW n \in 1..Len(updates) PROVE F[n] = One(F[n - 1], updates[n])
  <2>1. n \in 0..Len(updates) /\ n # 0
    OBVIOUS
  <2> QED BY <1>1, <2>1 DEF After
<1> QED BY <1>2, <1>3, <1>4

\* No update, one, two and three.
LEMMA UpdatedNone == ASSUME NEW m PROVE Updated(<<>>, m) = m
<1>1. Len(<<>>) = 0
  OBVIOUS
<1> QED BY <1>1, UpdatedSteps

\* One update.
LEMMA UpdatedOne == ASSUME NEW m, NEW u PROVE Updated(<<u>>, m) = One(m, u)
<1>1. Len(<<u>>) = 1 /\ <<u>>[1] = u
  OBVIOUS
<1>2. PICK f : f[0] = m /\ (\A n \in 1..1 : f[n] = One(f[n - 1], <<u>>[n])) /\ Updated(<<u>>, m) = f[1]
  BY <1>1, UpdatedSteps
<1>3. f[1] = One(f[1 - 1], <<u>>[1])
  BY <1>2
<1> QED BY <1>1, <1>2, <1>3

\* Updates that follow others.
LEMMA UpdatedConcat ==
    ASSUME NEW X, NEW s \in Seq(X), NEW t \in Seq(X), NEW m
    PROVE  Updated(s \o t, m) = Updated(t, Updated(s, m))
<1>1. /\ Len(s) \in Nat /\ Len(t) \in Nat /\ Len(s \o t) = Len(s) + Len(t)
      /\ \A n \in 1..Len(s) : (s \o t)[n] = s[n]
      /\ \A n \in 1..Len(t) : (s \o t)[Len(s) + n] = t[n]
  BY ConcatProperties
<1>2. PICK f : /\ f[0] = m
               /\ \A n \in 1..Len(s \o t) : f[n] = One(f[n - 1], (s \o t)[n])
               /\ Updated(s \o t, m) = f[Len(s \o t)]
  <2>1. Len(s \o t) \in Nat
    BY <1>1
  <2> QED BY ONLY <2>1, UpdatedSteps
<1>3. PICK g : /\ g[0] = m /\ Updated(s, m) = g[Len(s)]
               /\ \A n \in 1..Len(s) : g[n] = One(g[n - 1], s[n])
  BY <1>1, UpdatedSteps
<1>4. PICK h : /\ h[0] = Updated(s, m) /\ Updated(t, Updated(s, m)) = h[Len(t)]
               /\ \A n \in 1..Len(t) : h[n] = One(h[n - 1], t[n])
  BY <1>1, UpdatedSteps
<1>5. \A n \in Nat : n <= Len(s) => f[n] = g[n]
  <2> DEFINE S == {n \in Nat : n <= Len(s) => f[n] = g[n]}
  <2>1. 0 \in S
    BY <1>2, <1>3
  <2>2. ASSUME NEW n \in Nat, n \in S PROVE n + 1 \in S
    <3> SUFFICES ASSUME n + 1 <= Len(s) PROVE f[n + 1] = g[n + 1]
      OBVIOUS
    <3>1. n + 1 \in 1..Len(s) /\ n + 1 \in 1..Len(s \o t) /\ (n + 1) - 1 = n /\ f[n] = g[n]
      BY <1>1, <2>2
    <3> QED BY <1>1, <1>2, <1>3, <3>1
  <2> HIDE DEF S
  <2>3. Nat \subseteq S
    BY <2>1, <2>2, Count
  <2> QED BY <2>3 DEF S
<1>6. \A n \in Nat : n <= Len(t) => f[Len(s) + n] = h[n]
  <2> DEFINE S == {n \in Nat : n <= Len(t) => f[Len(s) + n] = h[n]}
  <2>1. 0 \in S
    BY <1>1, <1>3, <1>4, <1>5
  <2>2. ASSUME NEW n \in Nat, n \in S PROVE n + 1 \in S
    <3> SUFFICES ASSUME n + 1 <= Len(t) PROVE f[Len(s) + (n + 1)] = h[n + 1]
      OBVIOUS
    <3>1. /\ n + 1 \in 1..Len(t) /\ Len(s) + (n + 1) \in 1..Len(s \o t) /\ (n + 1) - 1 = n
          /\ (Len(s) + (n + 1)) - 1 = Len(s) + n
          /\ f[Len(s) + n] = h[n]
      <4>1. n <= Len(t) /\ f[Len(s) + n] = h[n]
        BY <1>1, <2>2
      <4> DEFINE i == Len(s)
                 j == Len(t)
      <4>2. i \in Nat /\ j \in Nat /\ Len(s \o t) = i + j /\ n \in Nat /\ n + 1 <= j
        BY <1>1
      <4> HIDE DEF i, j
      <4>3. /\ n + 1 \in 1..j /\ i + (n + 1) \in 1..(i + j) /\ (n + 1) - 1 = n
            /\ (i + (n + 1)) - 1 = i + n
        BY ONLY <4>2
      <4> QED BY <4>1, <4>2, <4>3 DEF i, j
    <3>2. f[Len(s) + (n + 1)] = One(f[Len(s) + n], t[n + 1])
      BY <1>1, <1>2, <3>1
    <3> QED BY <1>4, <3>1, <3>2
  <2> HIDE DEF S
  <2>3. Nat \subseteq S
    BY <2>1, <2>2, Count
  <2> QED BY <2>3 DEF S
<1> QED BY <1>1, <1>2, <1>4, <1>6

\* Sequences of updates of the fields F.
Writes(updates, F) ==
    /\ updates \in Seq(Range(updates))
    /\ \A u \in Range(updates) : u[2] \in F

\* Which fields the updates write.
LEMMA WritesNothing == ASSUME NEW F PROVE Writes(<<>>, F)
BY DEF Writes, Range

\* One update writes its field.
LEMMA WritesOne ==
    ASSUME NEW F, NEW a, NEW f \in F, NEW v
    PROVE  Writes(<<Put(a, f, v)>>, F)
BY DEF Writes, Range, Put

\* Updates that write fields of G write fields of any larger set.
LEMMA WritesMore ==
    ASSUME NEW F, NEW G, G \subseteq F, NEW updates, Writes(updates, G)
    PROVE  Writes(updates, F)
BY DEF Writes

\* Conditional updates write what they write when the condition holds.
LEMMA WritesIf ==
    ASSUME NEW F, NEW condition, NEW updates, condition => Writes(updates, F)
    PROVE  Writes(If(condition, updates), F)
BY WritesNothing DEF If

\* Two sequences of updates write the fields of both.
LEMMA WritesConcat ==
    ASSUME NEW F, NEW s, NEW t, Writes(s, F), Writes(t, F)
    PROVE  Writes(s \o t, F)
<1> DEFINE X == Range(s) \cup Range(t)
<1>1. s \in Seq(X) /\ t \in Seq(X)
  BY SeqMonotonic DEF Writes
<1>2. Range(s \o t) = X
  BY <1>1, RangeConcatenation
<1>3. s \o t \in Seq(X)
  BY <1>1, ConcatProperties
<1> QED BY <1>2, <1>3 DEF Writes

\* Updates one after the other.
LEMMA Concat ==
    ASSUME NEW F, NEW G, NEW s, NEW t, Writes(s, F), Writes(t, G), NEW m
    PROVE  Updated(s \o t, m) = Updated(t, Updated(s, m))
<1> DEFINE X == Range(s) \cup Range(t)
<1>1. s \in Seq(X) /\ t \in Seq(X)
  BY SeqMonotonic DEF Writes
<1> QED BY <1>1, UpdatedConcat

\* Two memories have the same fields, and the same in the fields F.
Same(m, n, F) ==
    /\ DOMAIN n = DOMAIN m
    /\ \A a \in DOMAIN m : /\ DOMAIN n[a] = DOMAIN m[a]
                           /\ \A f \in DOMAIN m[a] : f \in F => n[a][f] = m[a][f]

\* What stays twice stays.
LEMMA SameTwice ==
    ASSUME NEW m, NEW n, NEW o, NEW F, Same(m, n, F), Same(n, o, F)
    PROVE  Same(m, o, F)
BY DEF Same

\* Updates leave the fields alone that they do not write.
LEMMA Untouched ==
    ASSUME NEW updates, NEW F, NEW G, Writes(updates, F), F \cap G = {}, NEW m
    PROVE  Same(m, Updated(updates, m), G)
<1>1. Len(updates) \in Nat /\ \A n \in 1..Len(updates) : updates[n] \in Range(updates)
  BY LenProperties DEF Writes, Range
<1>2. PICK f : /\ f[0] = m
               /\ \A n \in 1..Len(updates) : f[n] = One(f[n - 1], updates[n])
               /\ Updated(updates, m) = f[Len(updates)]
  BY <1>1, UpdatedSteps
<1> DEFINE S == {n \in Nat : n <= Len(updates) => Same(m, f[n], G)}
<1>3. 0 \in S
  BY <1>2 DEF Same
<1>4. ASSUME NEW n \in Nat, n \in S PROVE n + 1 \in S
  <2> SUFFICES ASSUME n + 1 <= Len(updates) PROVE Same(m, f[n + 1], G)
    OBVIOUS
  <2>1. n + 1 \in 1..Len(updates) /\ (n + 1) - 1 = n /\ Same(m, f[n], G)
    BY <1>1, <1>4
  <2>2. f[n + 1] = One(f[n], updates[n + 1])
    BY <1>2, <2>1
  <2>3. updates[n + 1][2] \notin G
    BY <1>1, <2>1 DEF Writes
  <2> DEFINE o == f[n]
             u == updates[n + 1]
  <2>4. Same(m, o, G) /\ u[2] \notin G
    BY <2>1, <2>3
  <2> HIDE DEF o, u
  <2>5. Same(o, One(o, u), G)
    BY <2>4, OneReads DEF Same
  <2>6. Same(m, One(o, u), G)
    BY <2>4, <2>5, SameTwice
  <2> QED BY <2>2, <2>6 DEF o, u
<1> HIDE DEF S
<1>5. Nat \subseteq S
  BY <1>3, <1>4, Count
<1> QED BY <1>1, <1>2, <1>5 DEF S

\* What updates leave of the fields F depends on those fields only.
LEMMA SameUpdates ==
    ASSUME NEW updates, NEW G, Writes(updates, G), NEW m, NEW n, NEW F, Same(m, n, F)
    PROVE  Same(Updated(updates, m), Updated(updates, n), F)
<1>1. Len(updates) \in Nat
  BY LenProperties DEF Writes
<1>2. PICK f : /\ f[0] = m
               /\ \A k \in 1..Len(updates) : f[k] = One(f[k - 1], updates[k])
               /\ Updated(updates, m) = f[Len(updates)]
  BY <1>1, UpdatedSteps
<1>3. PICK g : /\ g[0] = n
               /\ \A k \in 1..Len(updates) : g[k] = One(g[k - 1], updates[k])
               /\ Updated(updates, n) = g[Len(updates)]
  BY <1>1, UpdatedSteps
<1> DEFINE S == {k \in Nat : k <= Len(updates) => Same(f[k], g[k], F)}
<1>4. 0 \in S
  BY <1>2, <1>3
<1>5. ASSUME NEW k \in Nat, k \in S PROVE k + 1 \in S
  <2> SUFFICES ASSUME k + 1 <= Len(updates) PROVE Same(f[k + 1], g[k + 1], F)
    OBVIOUS
  <2>1. k + 1 \in 1..Len(updates) /\ (k + 1) - 1 = k /\ Same(f[k], g[k], F)
    BY <1>1, <1>5
  <2>2. f[k + 1] = One(f[k], updates[k + 1]) /\ g[k + 1] = One(g[k], updates[k + 1])
    BY <1>2, <1>3, <2>1
  <2> DEFINE o == f[k]
             p == g[k]
             u == updates[k + 1]
  <2>3. Same(o, p, F)
    BY <2>1
  <2> HIDE DEF o, p, u
  <2>4. Same(One(o, u), One(p, u), F)
    BY <2>3, OneReads DEF Same
  <2> QED BY <2>2, <2>4 DEF o, p, u
<1> HIDE DEF S
<1>6. Nat \subseteq S
  BY <1>4, <1>5, Count
<1> QED BY <1>1, <1>2, <1>3, <1>6 DEF S

-----------------------------------------------------------------------------
(* Sequences of blocks                                                     *)

\* What the assumptions say of the units.
LEMMA CellFacts ==
    ASSUME HashMapAssumption
    PROVE  /\ IsFiniteSet(Cells) /\ 0 \notin Cells /\ Cells \subseteq Nat
           /\ Cardinality(Cells) \in Nat
BY FS_CardinalityType DEF HashMapAssumption

\* How many numbers there are up to n.
LEMMA UpToN ==
    ASSUME NEW n \in Nat
    PROVE  Cardinality(1..n) = n
<1>1. Cardinality(1..n) = IF 1 > n THEN 0 ELSE (n - 1) + 1
  BY FS_Interval
<1>2. 1 > n => n = 0
  OBVIOUS
<1>3. (n - 1) + 1 = n
  OBVIOUS
<1> QED BY ONLY <1>1, <1>2, <1>3

\* A function on 1..n is a sequence.
LEMMA SeqMade ==
    ASSUME NEW S, NEW n \in Nat, NEW s \in [1..n -> S]
    PROVE  s \in Seq(S) /\ Len(s) = n
BY SeqDef

\* The sequence without its kth element.
Without(s, k) == [n \in 1..(Len(s) - 1) |-> IF n < k THEN s[n] ELSE s[n + 1]]

\* The sequence with its kth element in front.
Raised(s, k) == [n \in 1..Len(s) |-> IF n = 1 THEN s[k] ELSE IF n <= k THEN s[n - 1] ELSE s[n]]

\* The sequence with a new element in front.
OnTop(c, s) == [n \in 1..(Len(s) + 1) |-> IF n = 1 THEN c ELSE s[n - 1]]

\* A list without one of its blocks.
LEMMA WithoutFacts ==
    ASSUME NEW S, NEW s \in Seq(S), IsInjective(s), NEW k \in 1..Len(s)
    PROVE  /\ Without(s, k) \in Seq(S) /\ Len(Without(s, k)) = Len(s) - 1
           /\ IsInjective(Without(s, k))
           /\ Range(Without(s, k)) = Range(s) \ {s[k]}
           /\ \A n \in 1..(Len(s) - 1) : Without(s, k)[n] = IF n < k THEN s[n] ELSE s[n + 1]
<1> DEFINE t == Without(s, k)
<1>1. Len(s) \in Nat /\ DOMAIN s = 1..Len(s) /\ \A n \in 1..Len(s) : s[n] \in S
  BY LenProperties
<1>2. Len(s) - 1 \in Nat
  BY <1>1
<1>3. t \in [1..(Len(s) - 1) -> S]
  BY <1>1 DEF Without
<1>4. t \in Seq(S) /\ Len(t) = Len(s) - 1
  BY <1>2, <1>3, SeqMade
<1>5. \A n \in 1..(Len(s) - 1) : t[n] = IF n < k THEN s[n] ELSE s[n + 1]
  BY DEF Without
<1>6. DOMAIN t = 1..(Len(s) - 1)
  BY <1>3
<1> HIDE DEF t
<1>7. \A i, j \in 1..Len(s) : s[i] = s[j] => i = j
  BY <1>1 DEF IsInjective
<1>8. IsInjective(t)
  <2> SUFFICES ASSUME NEW i \in 1..(Len(s) - 1), NEW j \in 1..(Len(s) - 1), t[i] = t[j]
               PROVE  i = j
    BY <1>6 DEF IsInjective
  <2> DEFINE p == IF i < k THEN i ELSE i + 1
             q == IF j < k THEN j ELSE j + 1
  <2>1. p \in 1..Len(s) /\ q \in 1..Len(s) /\ t[i] = s[p] /\ t[j] = s[q]
    BY <1>1, <1>5
  <2>2. p = q
    BY <1>7, <2>1
  <2> QED BY <1>1, <2>2
<1>9. Range(t) = Range(s) \ {s[k]}
  <2>1. ASSUME NEW c \in Range(t) PROVE c \in Range(s) \ {s[k]}
    <3>1. PICK n \in 1..(Len(s) - 1) : t[n] = c
      BY <1>6 DEF Range
    <3> DEFINE p == IF n < k THEN n ELSE n + 1
    <3>2. p \in 1..Len(s) /\ p # k /\ c = s[p]
      BY <1>1, <1>5, <3>1
    <3> QED BY <1>1, <1>7, <3>2 DEF Range
  <2>2. ASSUME NEW c \in Range(s), c # s[k] PROVE c \in Range(t)
    <3>1. PICK n \in 1..Len(s) : s[n] = c
      BY <1>1 DEF Range
    <3> DEFINE p == IF n < k THEN n ELSE n - 1
    <3>2. p \in 1..(Len(s) - 1) /\ t[p] = c
      BY <1>1, <1>5, <2>2, <3>1
    <3> QED BY <1>6, <3>2 DEF Range
  <2> QED BY <2>1, <2>2
<1> QED BY <1>4, <1>5, <1>8, <1>9 DEF t

\* Its blocks are the others.
LEMMA WithoutRange ==
    ASSUME NEW S, NEW s \in Seq(S), IsInjective(s), NEW k \in 1..Len(s)
    PROVE  Range(Without(s, k)) = Range(s) \ {s[k]}
BY ONLY s \in Seq(S), IsInjective(s), k \in 1..Len(s), WithoutFacts

\* A list with one of its blocks moved to its head.
LEMMA RaisedFacts ==
    ASSUME NEW S, NEW s \in Seq(S), IsInjective(s), NEW k \in 1..Len(s)
    PROVE  /\ Raised(s, k) \in Seq(S) /\ Len(Raised(s, k)) = Len(s)
           /\ IsInjective(Raised(s, k))
           /\ Range(Raised(s, k)) = Range(s)
           /\ \A n \in 1..Len(s) :
                Raised(s, k)[n] = IF n = 1 THEN s[k] ELSE IF n <= k THEN s[n - 1] ELSE s[n]
<1> DEFINE t == Raised(s, k)
<1>1. Len(s) \in Nat /\ DOMAIN s = 1..Len(s) /\ \A n \in 1..Len(s) : s[n] \in S
  BY LenProperties
<1>2. t \in [1..Len(s) -> S]
  BY <1>1 DEF Raised
<1>3. t \in Seq(S) /\ Len(t) = Len(s)
  BY <1>1, <1>2, SeqMade
<1>4. \A n \in 1..Len(s) : t[n] = IF n = 1 THEN s[k] ELSE IF n <= k THEN s[n - 1] ELSE s[n]
  BY DEF Raised
<1>5. DOMAIN t = 1..Len(s)
  BY <1>2
<1> HIDE DEF t
<1>6. \A i, j \in 1..Len(s) : s[i] = s[j] => i = j
  BY <1>1 DEF IsInjective
<1>7. IsInjective(t)
  <2> SUFFICES ASSUME NEW i \in 1..Len(s), NEW j \in 1..Len(s), t[i] = t[j] PROVE i = j
    BY <1>5 DEF IsInjective
  <2> DEFINE p == IF i = 1 THEN k ELSE IF i <= k THEN i - 1 ELSE i
             q == IF j = 1 THEN k ELSE IF j <= k THEN j - 1 ELSE j
  <2>1. p \in 1..Len(s) /\ q \in 1..Len(s) /\ t[i] = s[p] /\ t[j] = s[q]
    BY <1>1, <1>4
  <2>2. p = q
    BY <1>6, <2>1
  <2> QED BY <1>1, <2>2
<1>8. Range(t) = Range(s)
  <2>1. ASSUME NEW c \in Range(t) PROVE c \in Range(s)
    <3>1. PICK n \in 1..Len(s) : t[n] = c
      BY <1>5 DEF Range
    <3> DEFINE p == IF n = 1 THEN k ELSE IF n <= k THEN n - 1 ELSE n
    <3>2. p \in 1..Len(s) /\ c = s[p]
      BY <1>1, <1>4, <3>1
    <3> QED BY <1>1, <3>2 DEF Range
  <2>2. ASSUME NEW c \in Range(s) PROVE c \in Range(t)
    <3>1. PICK n \in 1..Len(s) : s[n] = c
      BY <1>1 DEF Range
    <3> DEFINE p == IF n = k THEN 1 ELSE IF n < k THEN n + 1 ELSE n
    <3>2. p \in 1..Len(s) /\ t[p] = c
      BY <1>1, <1>4, <3>1
    <3> QED BY <1>5, <3>2 DEF Range
  <2> QED BY <2>1, <2>2
<1> QED BY <1>3, <1>4, <1>7, <1>8 DEF t

\* A list with a new block at its head.
LEMMA OnTopFacts ==
    ASSUME NEW S, NEW s \in Seq(S), IsInjective(s), NEW c \in S, c \notin Range(s)
    PROVE  /\ OnTop(c, s) \in Seq(S) /\ Len(OnTop(c, s)) = Len(s) + 1
           /\ IsInjective(OnTop(c, s))
           /\ Range(OnTop(c, s)) = Range(s) \cup {c}
           /\ \A n \in 1..(Len(s) + 1) : OnTop(c, s)[n] = IF n = 1 THEN c ELSE s[n - 1]
<1> DEFINE t == OnTop(c, s)
<1>1. Len(s) \in Nat /\ DOMAIN s = 1..Len(s) /\ \A n \in 1..Len(s) : s[n] \in S
  BY LenProperties
<1>2. Len(s) + 1 \in Nat
  BY <1>1
<1>3. t \in [1..(Len(s) + 1) -> S]
  BY <1>1 DEF OnTop
<1>4. t \in Seq(S) /\ Len(t) = Len(s) + 1
  BY <1>2, <1>3, SeqMade
<1>5. \A n \in 1..(Len(s) + 1) : t[n] = IF n = 1 THEN c ELSE s[n - 1]
  BY DEF OnTop
<1>6. DOMAIN t = 1..(Len(s) + 1)
  BY <1>3
<1> HIDE DEF t
<1>7. \A i, j \in 1..Len(s) : s[i] = s[j] => i = j
  BY <1>1 DEF IsInjective
<1>8. \A n \in 1..Len(s) : s[n] # c
  BY <1>1 DEF Range
<1>9. IsInjective(t)
  <2> SUFFICES ASSUME NEW i \in 1..(Len(s) + 1), NEW j \in 1..(Len(s) + 1), t[i] = t[j]
               PROVE  i = j
    BY <1>6 DEF IsInjective
  <2>1. CASE i = 1 \/ j = 1
    BY <1>1, <1>5, <1>8, <2>1
  <2>2. CASE i # 1 /\ j # 1
    <3>1. i - 1 \in 1..Len(s) /\ j - 1 \in 1..Len(s) /\ s[i - 1] = s[j - 1]
      BY <1>1, <1>5, <2>2
    <3> QED BY <1>7, <3>1
  <2> QED BY <2>1, <2>2
<1>10. Range(t) = Range(s) \cup {c}
  <2>1. ASSUME NEW d \in Range(t) PROVE d \in Range(s) \cup {c}
    <3>1. PICK n \in 1..(Len(s) + 1) : t[n] = d
      BY <1>6 DEF Range
    <3>2. n = 1 \/ n - 1 \in 1..Len(s)
      BY <1>1
    <3> QED BY <1>1, <1>5, <3>1, <3>2 DEF Range
  <2>2. ASSUME NEW d \in Range(s) PROVE d \in Range(t)
    <3>1. PICK n \in 1..Len(s) : s[n] = d
      BY <1>1 DEF Range
    <3>2. n + 1 \in 1..(Len(s) + 1) /\ t[n + 1] = d
      BY <1>1, <1>5, <3>1
    <3> QED BY <1>6, <3>2 DEF Range
  <2>3. c \in Range(t)
    <3>1. 1 \in 1..(Len(s) + 1)
      BY <1>1
    <3> QED BY <1>5, <1>6, <3>1 DEF Range
  <2> QED BY <2>1, <2>2, <2>3
<1> QED BY <1>4, <1>5, <1>9, <1>10 DEF t

-----------------------------------------------------------------------------
(* Lists                                                                   *)

\* From c on, link leads through the blocks of s and then to nowhere.
Leads(m, c, link, s) ==
    /\ s \in Seq(Cells) /\ IsInjective(s)
    /\ c = IF s = <<>> THEN 0 ELSE s[1]
    /\ \A n \in 1..Len(s) : m[At(s[n])][link] = IF n = Len(s) THEN 0 ELSE s[n + 1]

\* What From of Follow is, up to n.
Walks(m, link, n, f) ==
    f = [k \in 0..n |-> [d \in Cells \cup {0} |->
           IF k = 0 \/ d = 0 THEN <<>> ELSE <<d>> \o f[k - 1][m[At(d)][link]]]]

\* The last i blocks of a sequence.
Ending(s, i) == [x \in 1..i |-> s[Len(s) - i + x]]

\* A sequence of different units is no longer than there are units.
LEMMA NotLonger ==
    ASSUME HashMapAssumption, NEW s \in Seq(Cells), IsInjective(s)
    PROVE  Len(s) \in Nat /\ Len(s) <= Cardinality(Cells)
<1>1. Len(s) \in Nat /\ s \in [1..Len(s) -> Cells]
  BY LenProperties
<1>2. s \in Injection(1..Len(s), Cells)
  BY <1>1 DEF Injection
<1>3. Cardinality(1..Len(s)) <= Cardinality(Cells)
  BY <1>2, CellFacts, FS_Injection
<1>4. Cardinality(1..Len(s)) = Len(s)
  BY ONLY <1>1, UpToN
<1> QED BY <1>1, <1>3, <1>4

\* There is such a function.
LEMMA WalksExist ==
    ASSUME NEW m, NEW link, NEW n \in Nat
    PROVE  \E f : Walks(m, link, n, f)
<1> DEFINE S == {k \in Nat : \E f : Walks(m, link, k, f)}
<1>1. 0 \in S
  <2> DEFINE f == [k \in 0..0 |-> [d \in Cells \cup {0} |-> <<>>]]
  <2>1. \A k \in 0..0 : k = 0
    OBVIOUS
  <2>2. Walks(m, link, 0, f)
    BY <2>1 DEF Walks
  <2> QED BY <2>2
<1>2. ASSUME NEW k \in Nat, k \in S PROVE k + 1 \in S
  <2>1. PICK g : Walks(m, link, k, g)
    BY <1>2, Zenon
  <2> DEFINE f == [j \in 0..(k + 1) |->
                     IF j <= k THEN g[j]
                     ELSE [d \in Cells \cup {0} |->
                             IF j = 0 \/ d = 0 THEN <<>> ELSE <<d>> \o g[k][m[At(d)][link]]]]
             Right(j) == [d \in Cells \cup {0} |->
                            IF j = 0 \/ d = 0 THEN <<>> ELSE <<d>> \o f[j - 1][m[At(d)][link]]]
  <2>2. ASSUME NEW j \in 0..(k + 1) PROVE f[j] = Right(j)
    <3>1. CASE j = 0
      <4>1. g[0] = [d \in Cells \cup {0} |-> <<>>]
        BY <2>1 DEF Walks
      <4>2. f[0] = g[0]
        OBVIOUS
      <4> HIDE DEF f
      <4> QED BY <3>1, <4>1, <4>2
    <3>2. CASE j # 0 /\ j <= k
      <4>1. j \in 0..k /\ j - 1 \in 0..(k + 1) /\ j - 1 <= k
        BY <3>2
      <4>2. f[j] = g[j] /\ f[j - 1] = g[j - 1]
        BY <3>2, <4>1
      <4>3. g[j] = [d \in Cells \cup {0} |->
                      IF j = 0 \/ d = 0 THEN <<>> ELSE <<d>> \o g[j - 1][m[At(d)][link]]]
        BY <2>1, <4>1 DEF Walks
      <4> HIDE DEF f
      <4> QED BY <4>2, <4>3
    <3>3. CASE j = k + 1
      <4>1. ~(j <= k) /\ j - 1 = k /\ k \in 0..(k + 1) /\ k <= k
        BY <3>3
      <4>2. f[j - 1] = g[k]
        BY <4>1
      <4>3. f[j] = [d \in Cells \cup {0} |->
                      IF j = 0 \/ d = 0 THEN <<>> ELSE <<d>> \o g[k][m[At(d)][link]]]
        BY <4>1
      <4> HIDE DEF f
      <4> QED BY <4>2, <4>3
    <3> QED BY <3>1, <3>2, <3>3
  <2>3. f = [j \in 0..(k + 1) |-> f[j]]
    OBVIOUS
  <2> HIDE DEF f
  <2>4. Walks(m, link, k + 1, f)
    BY <2>2, <2>3 DEF Walks
  <2> QED BY <2>4
<1> HIDE DEF S
<1>3. Nat \subseteq S
  BY <1>1, <1>2, Count
<1> QED BY <1>3 DEF S

\* Follow finds where a link leads: from the last i blocks on, any walk of more than i.
LEMMA FollowLeads ==
    ASSUME HashMapAssumption, NEW m, NEW c, NEW link, NEW s, Leads(m, c, link, s)
    PROVE  Follow(m, c, link) = s
<1> DEFINE N == Cardinality(Cells) + 1
           F == CHOOSE f : Walks(m, link, N, f)
           Start(i) == IF i = 0 THEN 0 ELSE s[Len(s) - i + 1]
<1>1. Len(s) \in Nat /\ N \in Nat /\ Len(s) < N /\ \A n \in 1..Len(s) : s[n] \in Cells /\ s[n] # 0
  BY NotLonger, CellFacts, LenProperties DEF Leads
<1>2. Walks(m, link, N, F)
  BY <1>1, WalksExist
<1>3. Follow(m, c, link) = F[N][c]
  BY DEF Follow, Walks
<1> HIDE DEF N, F
<1>4. ASSUME NEW n \in 0..N, NEW d \in Cells \cup {0}
      PROVE  F[n][d] = IF n = 0 \/ d = 0 THEN <<>> ELSE <<d>> \o F[n - 1][m[At(d)][link]]
  <2>1. F[n] = [e \in Cells \cup {0} |->
                  IF n = 0 \/ e = 0 THEN <<>> ELSE <<e>> \o F[n - 1][m[At(e)][link]]]
    BY <1>2 DEF Walks
  <2> QED BY <2>1
<1> DEFINE S == {i \in Nat : i <= Len(s) => \A n \in 0..N : n > i => F[n][Start(i)] = Ending(s, i)}
<1>5. 0 \in S
  <2>1. Ending(s, 0) = <<>>
    <3>1. Ending(s, 0) \in [1..0 -> Cells]
      BY DEF Ending
    <3>2. Ending(s, 0) \in Seq(Cells) /\ Len(Ending(s, 0)) = 0
      BY <3>1, SeqMade
    <3> QED BY <3>2, EmptySeq
  <2>2. Start(0) = 0
    OBVIOUS
  <2> HIDE DEF Start
  <2>3. ASSUME NEW n \in 0..N PROVE F[n][Start(0)] = <<>>
    BY <1>4, <2>2
  <2> QED BY <2>1, <2>3
<1>6. ASSUME NEW i \in Nat, i \in S PROVE i + 1 \in S
  <2> SUFFICES ASSUME i + 1 <= Len(s), NEW n \in 0..N, n > i + 1
               PROVE  F[n][Start(i + 1)] = Ending(s, i + 1)
    OBVIOUS
  <2> DEFINE d == s[Len(s) - i]
             p == Len(s) - i
  <2>1. /\ p \in 1..Len(s) /\ n - 1 \in 0..N /\ n - 1 > i /\ n # 0 /\ i <= Len(s)
        /\ Len(s) - (i + 1) + 1 = p /\ i + 1 # 0 /\ (i = 0 <=> p = Len(s))
        /\ i # 0 => Len(s) - i + 1 = p + 1
    BY <1>1
  <2> HIDE DEF p
  <2>2. s[p] \in Cells /\ s[p] # 0 /\ Start(i + 1) = s[p] /\ d = s[p]
    <3>1. s[p] \in Cells /\ s[p] # 0
      BY <1>1, <2>1
    <3> QED BY <2>1, <3>1, Zenon DEF p
  <2>3. m[At(d)][link] = Start(i)
    <3>1. \A x \in 1..Len(s) : m[At(s[x])][link] = IF x = Len(s) THEN 0 ELSE s[x + 1]
      BY DEF Leads
    <3>2. m[At(s[p])][link] = IF p = Len(s) THEN 0 ELSE s[p + 1]
      BY ONLY <2>1, <3>1
    <3>3. Start(i) = IF p = Len(s) THEN 0 ELSE s[p + 1]
      BY ONLY <2>1
    <3> QED BY ONLY <2>2, <3>2, <3>3
  <2>4. F[n - 1][Start(i)] = Ending(s, i)
    <3> DEFINE e == Start(i)
    <3>1. i <= Len(s) => \A l \in 0..N : l > i => F[l][e] = Ending(s, i)
      BY <1>6
    <3> HIDE DEF e
    <3>2. F[n - 1][e] = Ending(s, i)
      BY ONLY <2>1, <3>1
    <3> QED BY <3>2 DEF e
  <2>5. F[n][d] = <<d>> \o Ending(s, i)
    <3> HIDE DEF d, Start
    <3>1. F[n][d] = <<d>> \o F[n - 1][m[At(d)][link]]
      BY <1>4, <2>1, <2>2
    <3> QED BY <2>3, <2>4, <3>1
  <2>6. /\ Ending(s, i) \in Seq(Cells) /\ Len(Ending(s, i)) = i
        /\ \A x \in 1..i : Ending(s, i)[x] = s[Len(s) - i + x]
    <3>1. ASSUME NEW x \in 1..i PROVE Len(s) - i + x \in 1..Len(s)
      <4>1. Len(s) \in Nat /\ i <= Len(s)
        BY <1>1, <2>1
      <4> QED BY <4>1
    <3>2. Ending(s, i) \in [1..i -> Cells]
      BY <1>1, <3>1 DEF Ending
    <3> QED BY <3>2, SeqMade DEF Ending
  <2>7. /\ Ending(s, i + 1) \in Seq(Cells) /\ Len(Ending(s, i + 1)) = i + 1
        /\ \A x \in 1..(i + 1) : Ending(s, i + 1)[x] = s[Len(s) - (i + 1) + x]
    <3>1. ASSUME NEW x \in 1..(i + 1) PROVE Len(s) - (i + 1) + x \in 1..Len(s)
      <4>1. Len(s) \in Nat /\ i + 1 <= Len(s)
        BY <1>1
      <4> QED BY <4>1
    <3>2. Ending(s, i + 1) \in [1..(i + 1) -> Cells]
      BY <1>1, <3>1 DEF Ending
    <3>3. i + 1 \in Nat
      OBVIOUS
    <3> QED BY <3>2, <3>3, SeqMade DEF Ending
  <2>8. <<d>> \in Seq(Cells) /\ Len(<<d>>) = 1 /\ <<d>>[1] = d
    BY <2>2
  <2>9. /\ <<d>> \o Ending(s, i) \in Seq(Cells) /\ Len(<<d>> \o Ending(s, i)) = i + 1
        /\ \A x \in 1..(i + 1) : (<<d>> \o Ending(s, i))[x] = IF x <= 1 THEN <<d>>[x] ELSE Ending(s, i)[x - 1]
    <3>1. /\ <<d>> \o Ending(s, i) \in Seq(Cells)
          /\ Len(<<d>> \o Ending(s, i)) = Len(<<d>>) + Len(Ending(s, i))
          /\ \A x \in 1..(Len(<<d>>) + Len(Ending(s, i))) :
               (<<d>> \o Ending(s, i))[x] = IF x <= Len(<<d>>) THEN <<d>>[x] ELSE Ending(s, i)[x - Len(<<d>>)]
      BY <2>6, <2>8, ConcatProperties
    <3>2. Len(<<d>>) = 1 /\ Len(Ending(s, i)) = i /\ 1 + i = i + 1
      BY <2>6, <2>8
    <3> HIDE DEF d
    <3> QED BY <3>1, <3>2
  <2>10. ASSUME NEW x \in 1..(i + 1)
         PROVE  (<<d>> \o Ending(s, i))[x] = Ending(s, i + 1)[x]
    <3>1. CASE x = 1
      <4>1. Len(s) - (i + 1) + 1 = p
        BY <2>1
      <4>2. 1 \in 1..(i + 1) /\ 1 <= 1
        OBVIOUS
      <4>3. Ending(s, i + 1)[1] = d
        BY <2>7, <4>1, <4>2
      <4> HIDE DEF d
      <4> QED BY <2>8, <2>9, <3>1, <4>2, <4>3
    <3>2. CASE x # 1
      <4>1. x - 1 \in 1..i /\ ~(x <= 1) /\ Len(s) - i + (x - 1) = Len(s) - (i + 1) + x
        BY <1>1, <3>2
      <4> QED BY <2>6, <2>7, <2>9, <4>1
    <3> QED BY <3>1, <3>2
  <2>11. <<d>> \o Ending(s, i) = Ending(s, i + 1)
    <3> HIDE DEF d
    <3> QED BY <2>7, <2>9, <2>10, SeqEqual
  <2> QED BY <2>2, <2>5, <2>11
<1> HIDE DEF S
<1>7. Len(s) \in S
  BY <1>1, <1>5, <1>6, Count
<1>8. F[N][Start(Len(s))] = Ending(s, Len(s))
  <2>1. N \in 0..N /\ N > Len(s) /\ Len(s) <= Len(s)
    BY <1>1
  <2> QED BY <1>7, <2>1 DEF S
<1>9. Start(Len(s)) = c
  <2>1. s = <<>> <=> Len(s) = 0
    BY EmptySeq DEF Leads
  <2> QED BY <1>1, <2>1 DEF Leads
<1>10. Ending(s, Len(s)) = s
  <2>1. \A x \in 1..Len(s) : Len(s) - Len(s) + x = x
    BY <1>1
  <2>2. s = [x \in 1..Len(s) |-> s[x]]
    BY LenProperties DEF Leads
  <2> QED BY <2>1, <2>2 DEF Ending
<1> QED BY <1>3, <1>8, <1>9, <1>10

\* The blocks of s are linked in both directions, in this order, and with no others.
IsPath(m, next, prev, s) ==
    /\ s \in Seq(Cells) /\ IsInjective(s)
    /\ \A n \in 1..Len(s) : /\ m[At(s[n])][next] = IF n = Len(s) THEN 0 ELSE s[n + 1]
                            /\ m[At(s[n])][prev] = IF n = 1 THEN 0 ELSE s[n - 1]

\* The first and the last of a sequence of blocks, 0 if it has none.
First(s) == IF s = <<>> THEN 0 ELSE s[1]
Final(s) == IF s = <<>> THEN 0 ELSE s[Len(s)]

\* The blocks of a path are units, each of them once.
LEMMA PathFacts ==
    ASSUME NEW m, NEW next, NEW prev, NEW s, IsPath(m, next, prev, s), HashMapAssumption
    PROVE  /\ Len(s) \in Nat /\ DOMAIN s = 1..Len(s)
           /\ s = <<>> <=> Len(s) = 0
           /\ \A n \in 1..Len(s) : s[n] \in Cells /\ s[n] # 0
           /\ \A i, j \in 1..Len(s) : s[i] = s[j] => i = j
           /\ Range(s) = {s[n] : n \in 1..Len(s)}
BY CellFacts, LenProperties, EmptySeq DEF IsPath, IsInjective, Range

\* The links lead through a path, forth and back.
LEMMA PathLeads ==
    ASSUME NEW m, NEW next, NEW prev, NEW s, IsPath(m, next, prev, s)
    PROVE  Leads(m, First(s), next, s)
BY DEF IsPath, Leads, First

\* A list in reverse has the same blocks.
LEMMA ReverseFacts ==
    ASSUME NEW S, NEW s \in Seq(S), IsInjective(s)
    PROVE  /\ Reverse(s) \in Seq(S) /\ Len(Reverse(s)) = Len(s)
           /\ IsInjective(Reverse(s)) /\ Range(Reverse(s)) = Range(s)
           /\ \A n \in 1..Len(s) : Reverse(s)[n] = s[(Len(s) - n) + 1]
<1> DEFINE t == Reverse(s)
<1>1. Len(s) \in Nat /\ DOMAIN s = 1..Len(s) /\ \A n \in 1..Len(s) : s[n] \in S
  BY LenProperties
<1>2. t \in [1..Len(s) -> S]
  BY <1>1 DEF Reverse
<1>3. t \in Seq(S) /\ Len(t) = Len(s)
  BY <1>1, <1>2, SeqMade
<1>4. \A n \in 1..Len(s) : t[n] = s[(Len(s) - n) + 1]
  BY DEF Reverse
<1>5. DOMAIN t = 1..Len(s)
  BY <1>2
<1> HIDE DEF t
<1>6. \A i, j \in 1..Len(s) : s[i] = s[j] => i = j
  BY <1>1 DEF IsInjective
<1>7. IsInjective(t)
  <2> SUFFICES ASSUME NEW i \in 1..Len(s), NEW j \in 1..Len(s), t[i] = t[j] PROVE i = j
    BY <1>5 DEF IsInjective
  <2>1. /\ (Len(s) - i) + 1 \in 1..Len(s) /\ (Len(s) - j) + 1 \in 1..Len(s)
        /\ s[(Len(s) - i) + 1] = s[(Len(s) - j) + 1]
    BY <1>1, <1>4
  <2>2. (Len(s) - i) + 1 = (Len(s) - j) + 1
    BY <1>6, <2>1
  <2> QED BY <1>1, <2>2
<1>8. Range(t) = Range(s)
  <2>1. ASSUME NEW n \in 1..Len(s) PROVE (Len(s) - n) + 1 \in 1..Len(s) /\ t[(Len(s) - n) + 1] = s[n]
    <3>1. (Len(s) - n) + 1 \in 1..Len(s) /\ (Len(s) - ((Len(s) - n) + 1)) + 1 = n
      BY <1>1
    <3> QED BY <1>4, <3>1
  <2> QED BY <1>1, <1>4, <1>5, <2>1 DEF Range
<1> QED BY <1>3, <1>4, <1>7, <1>8 DEF t

\* The links back lead through a path in reverse.
LEMMA PathLeadsBack ==
    ASSUME NEW m, NEW next, NEW prev, NEW s, IsPath(m, next, prev, s), HashMapAssumption
    PROVE  Leads(m, Final(s), prev, Reverse(s))
<1> DEFINE t == Reverse(s)
<1>1. /\ t \in Seq(Cells) /\ Len(t) = Len(s) /\ IsInjective(t)
      /\ \A n \in 1..Len(s) : t[n] = s[(Len(s) - n) + 1]
  BY ReverseFacts DEF IsPath
<1> HIDE DEF t
<1>2. Len(s) \in Nat /\ (s = <<>> <=> Len(s) = 0)
  BY PathFacts
<1>3. t = <<>> <=> Len(s) = 0
  BY <1>1, <1>2, EmptySeq
<1>4. Final(s) = IF t = <<>> THEN 0 ELSE t[1]
  <2>1. CASE Len(s) = 0
    BY <1>2, <1>3, <2>1 DEF Final
  <2>2. CASE Len(s) # 0
    <3>1. 1 \in 1..Len(s) /\ (Len(s) - 1) + 1 = Len(s)
      BY <1>2, <2>2
    <3> QED BY <1>1, <1>2, <1>3, <2>2, <3>1 DEF Final
  <2> QED BY <2>1, <2>2
<1>5. ASSUME NEW n \in 1..Len(t) PROVE m[At(t[n])][prev] = IF n = Len(t) THEN 0 ELSE t[n + 1]
  <2> DEFINE p == (Len(s) - n) + 1
  <2>1. p \in 1..Len(s) /\ t[n] = s[p] /\ (p = 1 <=> n = Len(t))
    BY <1>1, <1>2
  <2>2. n # Len(t) => n + 1 \in 1..Len(s) /\ (Len(s) - (n + 1)) + 1 = p - 1
    BY <1>1, <1>2
  <2>3. n # Len(t) => t[n + 1] = s[p - 1]
    BY <1>1, <2>2
  <2> HIDE DEF p
  <2>4. m[At(s[p])][prev] = IF p = 1 THEN 0 ELSE s[p - 1]
    BY <2>1 DEF IsPath
  <2> QED BY <2>1, <2>3, <2>4
<1> QED BY <1>1, <1>4, <1>5 DEF Leads, t

\* A path stays one if its links stay.
LEMMA PathKept ==
    ASSUME NEW m, NEW o, NEW next, NEW prev, NEW s, IsPath(m, next, prev, s),
           \A n \in 1..Len(s) : /\ o[At(s[n])][next] = m[At(s[n])][next]
                                /\ o[At(s[n])][prev] = m[At(s[n])][prev]
    PROVE  IsPath(o, next, prev, s)
BY DEF IsPath

\* A block is taken out of a path when its neighbours are linked with each other.
LEMMA PathRemoved ==
    ASSUME HashMapAssumption, NEW m, NEW o, NEW next, NEW prev, NEW s,
           IsPath(m, next, prev, s), NEW k \in 1..Len(s),
           \A n \in 1..Len(s) : n # k =>
             /\ o[At(s[n])][next] = IF n = k - 1 THEN m[At(s[k])][next] ELSE m[At(s[n])][next]
             /\ o[At(s[n])][prev] = IF n = k + 1 THEN m[At(s[k])][prev] ELSE m[At(s[n])][prev]
    PROVE  IsPath(o, next, prev, Without(s, k))
<1> DEFINE t == Without(s, k)
<1>1. /\ t \in Seq(Cells) /\ Len(t) = Len(s) - 1 /\ IsInjective(t)
      /\ \A n \in 1..(Len(s) - 1) : t[n] = IF n < k THEN s[n] ELSE s[n + 1]
  BY WithoutFacts DEF IsPath
<1>2. Len(s) \in Nat
  BY PathFacts
<1> HIDE DEF t
<1>3. ASSUME NEW n \in 1..Len(t)
      PROVE  /\ o[At(t[n])][next] = IF n = Len(t) THEN 0 ELSE t[n + 1]
             /\ o[At(t[n])][prev] = IF n = 1 THEN 0 ELSE t[n - 1]
  <2> DEFINE p == IF n < k THEN n ELSE n + 1
  <2>1. p \in 1..Len(s) /\ p # k /\ t[n] = s[p]
    BY <1>1, <1>2
  <2>2. /\ m[At(s[p])][next] = IF p = Len(s) THEN 0 ELSE s[p + 1]
        /\ m[At(s[p])][prev] = IF p = 1 THEN 0 ELSE s[p - 1]
        /\ m[At(s[k])][next] = IF k = Len(s) THEN 0 ELSE s[k + 1]
        /\ m[At(s[k])][prev] = IF k = 1 THEN 0 ELSE s[k - 1]
    BY <2>1 DEF IsPath
  <2>3. /\ o[At(s[p])][next] = IF p = k - 1 THEN m[At(s[k])][next] ELSE m[At(s[p])][next]
        /\ o[At(s[p])][prev] = IF p = k + 1 THEN m[At(s[k])][prev] ELSE m[At(s[p])][prev]
    BY <2>1
  <2>4. o[At(s[p])][next] = IF n = Len(t) THEN 0 ELSE t[n + 1]
    BY <1>1, <1>2, <2>2, <2>3
  <2>5. o[At(s[p])][prev] = IF n = 1 THEN 0 ELSE t[n - 1]
    BY <1>1, <1>2, <2>2, <2>3
  <2> QED BY <2>1, <2>4, <2>5
<1> QED BY <1>1, <1>3 DEF IsPath, t

\* A block that is not the first is put in front.
LEMMA PathRaised ==
    ASSUME HashMapAssumption, NEW m, NEW o, NEW next, NEW prev, NEW s,
           IsPath(m, next, prev, s), NEW k \in 2..Len(s),
           \A n \in 1..Len(s) :
             /\ o[At(s[n])][next] = IF n = k THEN s[1]
                                    ELSE IF n = k - 1 THEN m[At(s[k])][next] ELSE m[At(s[n])][next]
             /\ o[At(s[n])][prev] = IF n = k THEN 0
                                    ELSE IF n = 1 THEN s[k]
                                    ELSE IF n = k + 1 THEN m[At(s[k])][prev] ELSE m[At(s[n])][prev]
    PROVE  IsPath(o, next, prev, Raised(s, k))
<1> DEFINE t == Raised(s, k)
<1>1. Len(s) \in Nat
  BY PathFacts
<1>2. k \in 1..Len(s)
  BY <1>1
<1>3. /\ t \in Seq(Cells) /\ Len(t) = Len(s) /\ IsInjective(t)
      /\ \A n \in 1..Len(s) : t[n] = IF n = 1 THEN s[k] ELSE IF n <= k THEN s[n - 1] ELSE s[n]
  BY <1>2, RaisedFacts DEF IsPath
<1> HIDE DEF t
<1>4. ASSUME NEW n \in 1..Len(t)
      PROVE  /\ o[At(t[n])][next] = IF n = Len(t) THEN 0 ELSE t[n + 1]
             /\ o[At(t[n])][prev] = IF n = 1 THEN 0 ELSE t[n - 1]
  <2> DEFINE p == IF n = 1 THEN k ELSE IF n <= k THEN n - 1 ELSE n
  <2>1. p \in 1..Len(s) /\ t[n] = s[p]
    BY <1>1, <1>2, <1>3
  <2>2. /\ m[At(s[p])][next] = IF p = Len(s) THEN 0 ELSE s[p + 1]
        /\ m[At(s[p])][prev] = IF p = 1 THEN 0 ELSE s[p - 1]
        /\ m[At(s[k])][next] = IF k = Len(s) THEN 0 ELSE s[k + 1]
        /\ m[At(s[k])][prev] = IF k = 1 THEN 0 ELSE s[k - 1]
    BY <1>2, <2>1 DEF IsPath
  <2>3. /\ o[At(s[p])][next] = IF p = k THEN s[1]
                                 ELSE IF p = k - 1 THEN m[At(s[k])][next] ELSE m[At(s[p])][next]
        /\ o[At(s[p])][prev] = IF p = k THEN 0
                                 ELSE IF p = 1 THEN s[k]
                                 ELSE IF p = k + 1 THEN m[At(s[k])][prev] ELSE m[At(s[p])][prev]
    BY <2>1
  <2>4. o[At(s[p])][next] = IF n = Len(t) THEN 0 ELSE t[n + 1]
    BY <1>1, <1>3, <2>2, <2>3
  <2>5. o[At(s[p])][prev] = IF n = 1 THEN 0 ELSE t[n - 1]
    BY <1>1, <1>3, <2>2, <2>3
  <2> QED BY <2>1, <2>4, <2>5
<1> QED BY <1>3, <1>4 DEF IsPath, t

\* A block that was in no path is put in front of one.
LEMMA PathAdded ==
    ASSUME HashMapAssumption, NEW m, NEW o, NEW next, NEW prev, NEW s,
           IsPath(m, next, prev, s), NEW c \in Cells, c \notin Range(s),
           o[At(c)][next] = First(s), o[At(c)][prev] = 0,
           \A n \in 1..Len(s) :
             /\ o[At(s[n])][next] = m[At(s[n])][next]
             /\ o[At(s[n])][prev] = IF n = 1 THEN c ELSE m[At(s[n])][prev]
    PROVE  IsPath(o, next, prev, OnTop(c, s))
<1> DEFINE t == OnTop(c, s)
<1>1. /\ t \in Seq(Cells) /\ Len(t) = Len(s) + 1 /\ IsInjective(t)
      /\ \A n \in 1..(Len(s) + 1) : t[n] = IF n = 1 THEN c ELSE s[n - 1]
  BY OnTopFacts DEF IsPath
<1>2. Len(s) \in Nat /\ (s = <<>> <=> Len(s) = 0)
  BY PathFacts
<1> HIDE DEF t
<1>3. ASSUME NEW n \in 1..Len(t)
      PROVE  /\ o[At(t[n])][next] = IF n = Len(t) THEN 0 ELSE t[n + 1]
             /\ o[At(t[n])][prev] = IF n = 1 THEN 0 ELSE t[n - 1]
  <2>1. CASE n = 1
    <3>1. t[n] = c
      BY <1>1, <1>2, <2>1
    <3>2. First(s) = IF n = Len(t) THEN 0 ELSE t[n + 1]
      BY <1>1, <1>2, <2>1 DEF First
    <3> QED BY <2>1, <3>1, <3>2
  <2>2. CASE n # 1
    <3> DEFINE p == n - 1
    <3>1. p \in 1..Len(s) /\ t[n] = s[p]
      BY <1>1, <1>2, <2>2
    <3>2. /\ m[At(s[p])][next] = IF p = Len(s) THEN 0 ELSE s[p + 1]
          /\ m[At(s[p])][prev] = IF p = 1 THEN 0 ELSE s[p - 1]
      BY <3>1 DEF IsPath
    <3>3. /\ o[At(s[p])][next] = m[At(s[p])][next]
          /\ o[At(s[p])][prev] = IF p = 1 THEN c ELSE m[At(s[p])][prev]
      BY <3>1
    <3>4. o[At(s[p])][next] = IF n = Len(t) THEN 0 ELSE t[n + 1]
      BY <1>1, <1>2, <2>2, <3>2, <3>3
    <3>5. o[At(s[p])][prev] = t[n - 1]
      BY <1>1, <1>2, <2>2, <3>2, <3>3
    <3> QED BY <2>2, <3>1, <3>4, <3>5
  <2> QED BY <2>1, <2>2
<1> QED BY <1>1, <1>3 DEF IsPath, t

-----------------------------------------------------------------------------
(* What the operators of BlockLists do to the lists                        *)

HeadFields == {"iSetHead", "iSetTail", "iGetHead", "iGetTail", "iDirtyTail", "iSyncTail",
               "iBackupTail", "iDirtyCount", "iElementCount", "iOnlyKeyCount"}
ItemFields == {"iBlockAddr", "iListCount"}
BlockFields == {"iIndex", "iSetNext", "iSetPrev", "iGetNext", "iGetPrev", "iBlockNext",
                "iBlockPrev", "bDirty", "bOnlyKey", "chunks", "key", "data"}

\* The records of the memory and their fields.
Shape(m) ==
    /\ DOMAIN m = {Root} \cup {Item(i) : i \in Buckets} \cup {At(c) : c \in Cells}
    /\ DOMAIN m[Root] = HeadFields
    /\ \A i \in Buckets : DOMAIN m[Item(i)] = ItemFields
    /\ \A c \in Cells : DOMAIN m[At(c)] = BlockFields

\* No two records of the memory have the same address.
LEMMA Addresses ==
    /\ \A c, d : At(c) = At(d) <=> c = d
    /\ \A i, j : Item(i) = Item(j) <=> i = j
    /\ \A c, i : At(c) # Item(i)
    /\ \A c : At(c) # Root
    /\ \A i : Item(i) # Root
BY DEF At, Item, Root

\* The three parts of an update.
LEMMA PutReads ==
    ASSUME NEW a, NEW f, NEW v
    PROVE  Put(a, f, v)[1] = a /\ Put(a, f, v)[2] = f /\ Put(a, f, v)[3] = v
BY DEF Put

\* The names of the fields of a list.
IsLinks(list) ==
    /\ {list.head, list.tail} \subseteq HeadFields /\ list.head # list.tail
    /\ {list.next, list.prev} \subseteq BlockFields /\ list.next # list.prev

\* The names of the fields of the two lists.
LEMMA SetLinks ==
    /\ IsLinks(SetList) /\ IsLinks(GetList)
    /\ SetList.head = "iSetHead" /\ SetList.tail = "iSetTail"
    /\ SetList.next = "iSetNext" /\ SetList.prev = "iSetPrev"
    /\ GetList.head = "iGetHead" /\ GetList.tail = "iGetTail"
    /\ GetList.next = "iGetNext" /\ GetList.prev = "iGetPrev"
BY DEF IsLinks, SetList, GetList, HeadFields, BlockFields

\* s is a doubly linked list.
IsList(m, list, s) ==
    /\ IsPath(m, list.next, list.prev, s)
    /\ m[Root][list.head] = First(s)
    /\ m[Root][list.tail] = Final(s)

\* Two, three, five and six updates.
LEMMA UpdatedTwo ==
    ASSUME NEW m, NEW u, NEW v
    PROVE  Updated(<<u, v>>, m) = One(One(m, u), v)
<1> DEFINE U == <<u, v>>
<1>1. Len(U) = 2 /\ U[1] = u /\ U[2] = v
  OBVIOUS
<1> HIDE DEF U
<1>2. PICK f : f[0] = m /\ (\A n \in 1..2 : f[n] = One(f[n - 1], U[n])) /\ Updated(U, m) = f[2]
  BY <1>1, UpdatedSteps
<1>3. f[1] = One(f[0], U[1]) /\ f[2] = One(f[1], U[2])
  <2>1. 1 \in 1..2 /\ 2 \in 1..2 /\ 1 - 1 = 0 /\ 2 - 1 = 1
    OBVIOUS
  <2> QED BY ONLY <1>2, <2>1
<1> QED BY <1>1, <1>2, <1>3 DEF U

\* Three updates.
LEMMA UpdatedThree ==
    ASSUME NEW m, NEW u, NEW v, NEW w
    PROVE  Updated(<<u, v, w>>, m) = One(One(One(m, u), v), w)
<1> DEFINE U == <<u, v, w>>
<1>1. Len(U) = 3 /\ U[1] = u /\ U[2] = v /\ U[3] = w
  OBVIOUS
<1> HIDE DEF U
<1>2. PICK f : f[0] = m /\ (\A n \in 1..3 : f[n] = One(f[n - 1], U[n])) /\ Updated(U, m) = f[3]
  BY <1>1, UpdatedSteps
<1>3. f[1] = One(f[0], U[1]) /\ f[2] = One(f[1], U[2]) /\ f[3] = One(f[2], U[3])
  <2>1. /\ 1 \in 1..3 /\ 2 \in 1..3 /\ 3 \in 1..3 /\ 1 - 1 = 0 /\ 2 - 1 = 1 /\ 3 - 1 = 2
    OBVIOUS
  <2> QED BY ONLY <1>2, <2>1
<1> QED BY <1>1, <1>2, <1>3 DEF U

\* What one, two and three updates leave of a field.
LEMMA ReadsAfterOne ==
    ASSUME NEW m, NEW u, NEW a \in DOMAIN m, NEW f \in DOMAIN m[a]
    PROVE  Updated(<<u>>, m)[a][f] = IF a = u[1] /\ f = u[2] THEN u[3] ELSE m[a][f]
BY UpdatedOne, OneReads

\* What a field is after two updates.
LEMMA ReadsAfterTwo ==
    ASSUME NEW m, NEW u, NEW v, NEW a \in DOMAIN m, NEW f \in DOMAIN m[a]
    PROVE  Updated(<<u, v>>, m)[a][f] =
             IF a = v[1] /\ f = v[2] THEN v[3] ELSE IF a = u[1] /\ f = u[2] THEN u[3] ELSE m[a][f]
<1> DEFINE n == One(m, u)
<1>1. n[a][f] = IF a = u[1] /\ f = u[2] THEN u[3] ELSE m[a][f]
  BY OneReads
<1>2. a \in DOMAIN n /\ f \in DOMAIN n[a]
  BY OneReads
<1>3. Updated(<<u, v>>, m) = One(n, v)
  BY UpdatedTwo
<1> HIDE DEF n
<1>4. One(n, v)[a][f] = IF a = v[1] /\ f = v[2] THEN v[3] ELSE n[a][f]
  BY <1>2, OneReads
<1> QED BY <1>1, <1>3, <1>4

\* What a field is after three updates.
LEMMA ReadsAfterThree ==
    ASSUME NEW m, NEW u, NEW v, NEW w, NEW a \in DOMAIN m, NEW f \in DOMAIN m[a]
    PROVE  Updated(<<u, v, w>>, m)[a][f] =
             IF a = w[1] /\ f = w[2] THEN w[3]
             ELSE IF a = v[1] /\ f = v[2] THEN v[3]
             ELSE IF a = u[1] /\ f = u[2] THEN u[3] ELSE m[a][f]
<1> DEFINE n == One(One(m, u), v)
<1>1. /\ n[a][f] = IF a = v[1] /\ f = v[2] THEN v[3] ELSE IF a = u[1] /\ f = u[2] THEN u[3] ELSE m[a][f]
      /\ a \in DOMAIN n /\ f \in DOMAIN n[a]
  <2> DEFINE o == One(m, u)
  <2>1. o[a][f] = IF a = u[1] /\ f = u[2] THEN u[3] ELSE m[a][f]
    BY OneReads
  <2>2. a \in DOMAIN o /\ f \in DOMAIN o[a]
    BY OneReads
  <2> HIDE DEF o
  <2>3. /\ One(o, v)[a][f] = IF a = v[1] /\ f = v[2] THEN v[3] ELSE o[a][f]
        /\ a \in DOMAIN One(o, v) /\ f \in DOMAIN One(o, v)[a]
    BY <2>2, OneReads
  <2> QED BY <2>1, <2>3 DEF o
<1>2. Updated(<<u, v, w>>, m) = One(n, w)
  BY UpdatedThree
<1> HIDE DEF n
<1>3. One(n, w)[a][f] = IF a = w[1] /\ f = w[2] THEN w[3] ELSE n[a][f]
  BY <1>1, OneReads
<1> QED BY <1>1, <1>2, <1>3

\* The fields of a list in the memory.
LEMMA ListFields ==
    ASSUME NEW m, Shape(m), NEW list, IsLinks(list)
    PROVE  /\ Root \in DOMAIN m /\ list.head \in DOMAIN m[Root] /\ list.tail \in DOMAIN m[Root]
           /\ \A c \in Cells : /\ At(c) \in DOMAIN m
                               /\ list.next \in DOMAIN m[At(c)] /\ list.prev \in DOMAIN m[At(c)]
BY DEF Shape, IsLinks

\* Where the first and the last block of a list are.
LEMMA Ends ==
    ASSUME HashMapAssumption, NEW m, NEW list, NEW s, IsList(m, list, s), NEW k \in 1..Len(s)
    PROVE  /\ m[Root][list.head] = s[1] /\ m[Root][list.tail] = s[Len(s)]
           /\ m[Root][list.head] = s[k] <=> k = 1
           /\ m[Root][list.tail] = s[k] <=> k = Len(s)
           /\ m[At(s[k])][list.next] = IF k = Len(s) THEN 0 ELSE s[k + 1]
           /\ m[At(s[k])][list.prev] = IF k = 1 THEN 0 ELSE s[k - 1]
<1>1. IsPath(m, list.next, list.prev, s)
  BY DEF IsList
<1>2. /\ Len(s) \in Nat /\ s # <<>> /\ 1 \in 1..Len(s) /\ Len(s) \in 1..Len(s)
      /\ \A i, j \in 1..Len(s) : s[i] = s[j] => i = j
  BY <1>1, PathFacts
<1>3. m[Root][list.head] = s[1] /\ m[Root][list.tail] = s[Len(s)]
  BY <1>2 DEF IsList, First, Final
<1> QED BY <1>1, <1>2, <1>3 DEF IsPath

\* Unlink takes a block out of a list.
LEMMA UnlinkEffect ==
    ASSUME HashMapAssumption, NEW m, Shape(m), NEW list, IsLinks(list), NEW s, IsList(m, list, s),
           NEW k \in 1..Len(s)
    PROVE  IsList(Updated(Unlink(m, list, s[k]), m), list, Without(s, k))
<1> DEFINE o == Updated(Unlink(m, list, s[k]), m)
           c == s[k]
           L == Len(s)
<1>1. IsPath(m, list.next, list.prev, s)
  BY DEF IsList
<1>2. /\ L \in Nat /\ k \in 1..L /\ (\A n \in 1..L : s[n] \in Cells /\ s[n] # 0)
      /\ \A i, j \in 1..L : s[i] = s[j] => i = j
  BY <1>1, PathFacts
<1>3. /\ m[Root][list.head] = s[1] /\ m[Root][list.tail] = s[L]
      /\ (m[Root][list.head] = c <=> k = 1) /\ (m[Root][list.tail] = c <=> k = L)
      /\ m[At(c)][list.next] = (IF k = L THEN 0 ELSE s[k + 1])
      /\ m[At(c)][list.prev] = (IF k = 1 THEN 0 ELSE s[k - 1])
  BY Ends
<1>4. /\ list.head # list.tail /\ list.next # list.prev
      /\ Root \in DOMAIN m /\ list.head \in DOMAIN m[Root] /\ list.tail \in DOMAIN m[Root]
      /\ \A d \in Cells : /\ At(d) \in DOMAIN m
                          /\ list.next \in DOMAIN m[At(d)] /\ list.prev \in DOMAIN m[At(d)]
  BY ListFields DEF IsLinks
<1>5. /\ Len(Without(s, k)) = L - 1
      /\ \A n \in 1..(L - 1) : Without(s, k)[n] = IF n < k THEN s[n] ELSE s[n + 1]
      /\ Without(s, k) \in Seq(Cells)
  BY <1>1, WithoutFacts DEF IsPath
<1>6. Without(s, k) = <<>> <=> L = 1
  BY <1>2, <1>5, EmptySeq
<1>7. /\ First(Without(s, k)) = IF k = 1 THEN (IF L = 1 THEN 0 ELSE s[2]) ELSE s[1]
      /\ Final(Without(s, k)) = IF k = L THEN (IF L = 1 THEN 0 ELSE s[L - 1]) ELSE s[L]
  BY <1>2, <1>5, <1>6 DEF First, Final
<1> HIDE DEF L
<1>8. SUFFICES /\ o[Root][list.head] = IF k = 1 THEN (IF L = 1 THEN 0 ELSE s[2]) ELSE s[1]
               /\ o[Root][list.tail] = IF k = L THEN (IF L = 1 THEN 0 ELSE s[L - 1]) ELSE s[L]
               /\ \A n \in 1..L : n # k =>
                    /\ o[At(s[n])][list.next] = IF n = k - 1 THEN m[At(c)][list.next] ELSE m[At(s[n])][list.next]
                    /\ o[At(s[n])][list.prev] = IF n = k + 1 THEN m[At(c)][list.prev] ELSE m[At(s[n])][list.prev]
  <2>1. IsPath(o, list.next, list.prev, Without(s, k))
    BY <1>1, <1>8, PathRemoved DEF L
  <2> QED BY <1>7, <1>8, <2>1 DEF IsList
<1>9. CASE k = 1 /\ k = L
  <2>1. Unlink(m, list, c) = <<Put(Root, list.head, 0), Put(Root, list.tail, 0)>>
    BY <1>3, <1>9 DEF Unlink
  <2>2. ASSUME NEW a \in DOMAIN m, NEW f \in DOMAIN m[a]
        PROVE  o[a][f] = IF a = Root /\ (f = list.head \/ f = list.tail) THEN 0 ELSE m[a][f]
    BY <2>1, ReadsAfterTwo, PutReads
  <2> HIDE DEF o, c
  <2> QED BY <1>2, <1>3, <1>4, <1>9, <2>2, Addresses
<1>10. CASE k = 1 /\ k # L
  <2> DEFINE d == s[k + 1]
  <2>1. Unlink(m, list, c) = <<Put(Root, list.head, d), Put(At(d), list.prev, 0)>>
    BY <1>3, <1>10 DEF Unlink
  <2>2. ASSUME NEW a \in DOMAIN m, NEW f \in DOMAIN m[a]
        PROVE  o[a][f] = IF a = Root /\ f = list.head THEN d
                         ELSE IF a = At(d) /\ f = list.prev THEN 0 ELSE m[a][f]
    BY <2>1, ReadsAfterTwo, PutReads, Addresses
  <2>3. k + 1 \in 1..L
    BY <1>2, <1>10
  <2> HIDE DEF o, c
  <2> QED BY <1>2, <1>3, <1>4, <1>10, <2>2, <2>3, Addresses
<1>11. CASE k # 1 /\ k = L
  <2> DEFINE d == s[k - 1]
  <2>1. Unlink(m, list, c) = <<Put(Root, list.tail, d), Put(At(d), list.next, 0)>>
    BY <1>3, <1>11 DEF Unlink
  <2>2. ASSUME NEW a \in DOMAIN m, NEW f \in DOMAIN m[a]
        PROVE  o[a][f] = IF a = Root /\ f = list.tail THEN d
                         ELSE IF a = At(d) /\ f = list.next THEN 0 ELSE m[a][f]
    BY <2>1, ReadsAfterTwo, PutReads, Addresses
  <2>3. k - 1 \in 1..L
    BY <1>2, <1>11
  <2> HIDE DEF o, c
  <2> QED BY <1>2, <1>3, <1>4, <1>11, <2>2, <2>3, Addresses
<1>12. CASE k # 1 /\ k # L
  <2> DEFINE d == s[k - 1]
             e == s[k + 1]
  <2>1. Unlink(m, list, c) = <<Put(At(d), list.next, e), Put(At(e), list.prev, d)>>
    BY <1>3, <1>12 DEF Unlink
  <2>2. ASSUME NEW a \in DOMAIN m, NEW f \in DOMAIN m[a]
        PROVE  o[a][f] = IF a = At(d) /\ f = list.next THEN e
                         ELSE IF a = At(e) /\ f = list.prev THEN d ELSE m[a][f]
    BY <1>4, <2>1, ReadsAfterTwo, PutReads
  <2>3. k - 1 \in 1..L /\ k + 1 \in 1..L
    BY <1>2, <1>12
  <2> HIDE DEF o, c
  <2> QED BY <1>2, <1>3, <1>4, <1>12, <2>2, <2>3, Addresses
<1> QED BY <1>9, <1>10, <1>11, <1>12

\* Five and six updates.
LEMMA UpdatedFive ==
    ASSUME NEW m, NEW u, NEW v, NEW w, NEW x, NEW y
    PROVE  Updated(<<u, v, w, x, y>>, m) = Updated(<<x, y>>, Updated(<<u, v, w>>, m))
<1> DEFINE U == <<u, v, w, x, y>>
<1>1. Len(U) = 5 /\ U[1] = u /\ U[2] = v /\ U[3] = w /\ U[4] = x /\ U[5] = y
  OBVIOUS
<1> HIDE DEF U
<1>2. PICK f : f[0] = m /\ (\A n \in 1..5 : f[n] = One(f[n - 1], U[n])) /\ Updated(U, m) = f[5]
  <2>1. Len(U) \in Nat
    BY <1>1
  <2>2. PICK f : /\ f[0] = m /\ (\A n \in 1..Len(U) : f[n] = One(f[n - 1], U[n]))
                 /\ Updated(U, m) = f[Len(U)]
    BY ONLY <2>1, UpdatedSteps
  <2> QED BY <1>1, <2>2
<1>3. /\ f[1] = One(f[0], U[1]) /\ f[2] = One(f[1], U[2]) /\ f[3] = One(f[2], U[3])
      /\ f[4] = One(f[3], U[4]) /\ f[5] = One(f[4], U[5])
  <2>1. /\ 1 \in 1..5 /\ 2 \in 1..5 /\ 3 \in 1..5 /\ 4 \in 1..5 /\ 5 \in 1..5
        /\ 1 - 1 = 0 /\ 2 - 1 = 1 /\ 3 - 1 = 2 /\ 4 - 1 = 3 /\ 5 - 1 = 4
    OBVIOUS
  <2> QED BY ONLY <1>2, <2>1
<1>4. Updated(<<u, v, w>>, m) = f[3]
  BY <1>1, <1>2, <1>3, UpdatedThree
<1>5. Updated(<<x, y>>, f[3]) = f[5]
  BY <1>1, <1>3, UpdatedTwo
<1> QED BY <1>2, <1>4, <1>5 DEF U

\* Six updates are three and three.
LEMMA UpdatedSix ==
    ASSUME NEW m, NEW u, NEW v, NEW w, NEW x, NEW y, NEW z
    PROVE  Updated(<<u, v, w, x, y, z>>, m) = Updated(<<x, y, z>>, Updated(<<u, v, w>>, m))
<1> DEFINE U == <<u, v, w, x, y, z>>
<1>1. Len(U) = 6 /\ U[1] = u /\ U[2] = v /\ U[3] = w /\ U[4] = x /\ U[5] = y /\ U[6] = z
  OBVIOUS
<1> HIDE DEF U
<1>2. PICK f : f[0] = m /\ (\A n \in 1..6 : f[n] = One(f[n - 1], U[n])) /\ Updated(U, m) = f[6]
  <2>1. Len(U) \in Nat
    BY <1>1
  <2>2. PICK f : /\ f[0] = m /\ (\A n \in 1..Len(U) : f[n] = One(f[n - 1], U[n]))
                 /\ Updated(U, m) = f[Len(U)]
    BY ONLY <2>1, UpdatedSteps
  <2> QED BY <1>1, <2>2
<1>3. /\ f[1] = One(f[0], U[1]) /\ f[2] = One(f[1], U[2]) /\ f[3] = One(f[2], U[3])
      /\ f[4] = One(f[3], U[4]) /\ f[5] = One(f[4], U[5]) /\ f[6] = One(f[5], U[6])
  <2>1. /\ 1 \in 1..6 /\ 2 \in 1..6 /\ 3 \in 1..6 /\ 4 \in 1..6 /\ 5 \in 1..6 /\ 6 \in 1..6
        /\ 1 - 1 = 0 /\ 2 - 1 = 1 /\ 3 - 1 = 2 /\ 4 - 1 = 3 /\ 5 - 1 = 4 /\ 6 - 1 = 5
    OBVIOUS
  <2> QED BY ONLY <1>2, <2>1
<1>4. Updated(<<u, v, w>>, m) = f[3]
  BY <1>1, <1>2, <1>3, UpdatedThree
<1>5. Updated(<<x, y, z>>, f[3]) = f[6]
  BY <1>1, <1>3, UpdatedThree
<1> QED BY <1>2, <1>4, <1>5 DEF U

\* What pairs and triples of updates write.
LEMMA WritesTwo ==
    ASSUME NEW F, NEW a, NEW f \in F, NEW v, NEW b, NEW g \in F, NEW w
    PROVE  Writes(<<Put(a, f, v), Put(b, g, w)>>, F)
BY DEF Writes, Range, Put

\* Which fields three updates write.
LEMMA WritesThree ==
    ASSUME NEW F, NEW a, NEW f \in F, NEW v, NEW b, NEW g \in F, NEW w, NEW c, NEW h \in F, NEW x
    PROVE  Writes(<<Put(a, f, v), Put(b, g, w), Put(c, h, x)>>, F)
BY DEF Writes, Range, Put

\* Which fields five updates write.
LEMMA WritesFive ==
    ASSUME NEW F, NEW a, NEW f \in F, NEW v, NEW b, NEW g \in F, NEW w, NEW c, NEW h \in F, NEW x,
           NEW d, NEW i \in F, NEW y, NEW e, NEW j \in F, NEW z
    PROVE  Writes(<<Put(a, f, v), Put(b, g, w), Put(c, h, x), Put(d, i, y), Put(e, j, z)>>, F)
BY DEF Writes, Range, Put

\* Which fields six updates write.
LEMMA WritesSix ==
    ASSUME NEW F, NEW a, NEW f \in F, NEW v, NEW b, NEW g \in F, NEW w, NEW c, NEW h \in F, NEW x,
           NEW d, NEW i \in F, NEW y, NEW e, NEW j \in F, NEW z, NEW k, NEW l \in F, NEW n
    PROVE  Writes(<<Put(a, f, v), Put(b, g, w), Put(c, h, x), Put(d, i, y), Put(e, j, z),
                    Put(k, l, n)>>, F)
BY DEF Writes, Range, Put

\* ToHead puts a block of a list that is not the first in front.
LEMMA ToHeadEffect ==
    ASSUME HashMapAssumption, NEW m, Shape(m), NEW list, IsLinks(list), NEW s, IsList(m, list, s),
           NEW k \in 1..Len(s), k # 1
    PROVE  IsList(Updated(ToHead(m, list, s[k]), m), list, Raised(s, k))
<1> DEFINE o == Updated(ToHead(m, list, s[k]), m)
           c == s[k]
           L == Len(s)
           p == s[k - 1]
           next == m[At(c)][list.next]
           F == {list.head, list.tail, list.next, list.prev}
           three == <<Put(At(c), list.next, s[1]), Put(At(s[1]), list.prev, c), Put(Root, list.head, c)>>
           two == <<Put(At(c), list.prev, 0), Put(At(p), list.next, next)>>
           last == IF next # 0 THEN <<Put(At(next), list.prev, p)>> ELSE <<Put(Root, list.tail, p)>>
           o3 == Updated(three, m)
           o5 == Updated(two, o3)
<1>1. IsPath(m, list.next, list.prev, s)
  BY DEF IsList
<1>2. /\ L \in Nat /\ k \in 1..L /\ k \in 2..L /\ k - 1 \in 1..L /\ 1 \in 1..L /\ L \in 1..L
      /\ (\A n \in 1..L : s[n] \in Cells /\ s[n] # 0)
      /\ \A i, j \in 1..L : s[i] = s[j] => i = j
  BY <1>1, PathFacts
<1>3. /\ m[Root][list.head] = s[1] /\ m[Root][list.tail] = s[L]
      /\ m[At(c)][list.next] = (IF k = L THEN 0 ELSE s[k + 1])
      /\ m[At(c)][list.prev] = p
  BY Ends
<1>4. /\ list.head # list.tail /\ list.next # list.prev
      /\ Root \in DOMAIN m /\ list.head \in DOMAIN m[Root] /\ list.tail \in DOMAIN m[Root]
      /\ \A d \in Cells : /\ At(d) \in DOMAIN m
                          /\ list.next \in DOMAIN m[At(d)] /\ list.prev \in DOMAIN m[At(d)]
  BY ListFields DEF IsLinks
<1>5. ToHead(m, list, c) =
        <<Put(At(c), list.next, s[1]), Put(At(s[1]), list.prev, c), Put(Root, list.head, c),
          Put(At(c), list.prev, 0), Put(At(p), list.next, next)>> \o last
  BY <1>3 DEF ToHead
<1>6. o = Updated(last, o5)
  <2> DEFINE five == <<Put(At(c), list.next, s[1]), Put(At(s[1]), list.prev, c), Put(Root, list.head, c),
                       Put(At(c), list.prev, 0), Put(At(p), list.next, next)>>
  <2>1. Writes(five, F)
    <3>1. list.head \in F /\ list.tail \in F /\ list.next \in F /\ list.prev \in F
      OBVIOUS
    <3> HIDE DEF F, next, p, c
    <3> QED BY ONLY <3>1, WritesFive DEF five
  <2>2. Writes(last, F)
    BY WritesOne
  <2>3. Updated(five, m) = o5
    BY UpdatedFive
  <2> HIDE DEF five, last
  <2>4. Updated(five \o last, m) = Updated(last, Updated(five, m))
    BY <2>1, <2>2, Concat
  <2> QED BY <1>5, <2>3, <2>4 DEF five
<1>7. ASSUME NEW a \in DOMAIN m, NEW f \in DOMAIN m[a]
      PROVE  /\ o3[a][f] = IF a = Root /\ f = list.head THEN c
                           ELSE IF a = At(s[1]) /\ f = list.prev THEN c
                           ELSE IF a = At(c) /\ f = list.next THEN s[1] ELSE m[a][f]
             /\ a \in DOMAIN o3 /\ f \in DOMAIN o3[a]
  <2>1. Writes(three, F)
    <3>1. list.head \in F /\ list.tail \in F /\ list.next \in F /\ list.prev \in F
      OBVIOUS
    <3> QED BY ONLY <3>1, WritesThree DEF three
  <2>2. Same(m, o3, {})
    BY <2>1, Untouched
  <2> QED BY <2>2, ReadsAfterThree, PutReads DEF Same
<1> HIDE DEF o3
<1>8. ASSUME NEW a \in DOMAIN m, NEW f \in DOMAIN m[a]
      PROVE  /\ o5[a][f] = IF a = At(p) /\ f = list.next THEN next
                           ELSE IF a = At(c) /\ f = list.prev THEN 0 ELSE o3[a][f]
             /\ a \in DOMAIN o5 /\ f \in DOMAIN o5[a]
  <2>1. Writes(two, F)
    BY WritesTwo
  <2>2. Same(o3, o5, {})
    BY <2>1, Untouched
  <2>3. a \in DOMAIN o3 /\ f \in DOMAIN o3[a]
    BY <1>7
  <2> QED BY <2>2, <2>3, ReadsAfterTwo, PutReads DEF Same
<1> HIDE DEF o5
<1>9. ASSUME NEW a \in DOMAIN m, NEW f \in DOMAIN m[a]
      PROVE  o[a][f] = IF next # 0 /\ a = At(next) /\ f = list.prev THEN p
                       ELSE IF next = 0 /\ a = Root /\ f = list.tail THEN p ELSE o5[a][f]
  <2>1. a \in DOMAIN o5 /\ f \in DOMAIN o5[a]
    BY <1>8
  <2>2. CASE next # 0
    <3>1. last = <<Put(At(next), list.prev, p)>>
      BY <2>2
    <3> HIDE DEF o, last, next, p
    <3> QED BY <1>6, <2>1, <2>2, <3>1, ReadsAfterOne, PutReads
  <2>3. CASE next = 0
    <3>1. last = <<Put(Root, list.tail, p)>>
      BY <2>3
    <3> HIDE DEF o, last, next, p
    <3> QED BY <1>6, <2>1, <2>3, <3>1, ReadsAfterOne, PutReads
  <2> QED BY <2>2, <2>3
<1>10. /\ Len(Raised(s, k)) = L
       /\ \A n \in 1..L : Raised(s, k)[n] = IF n = 1 THEN s[k] ELSE IF n <= k THEN s[n - 1] ELSE s[n]
       /\ Raised(s, k) \in Seq(Cells)
  BY <1>1, RaisedFacts DEF IsPath
<1>11. /\ First(Raised(s, k)) = s[k]
       /\ Final(Raised(s, k)) = IF k = L THEN s[L - 1] ELSE s[L]
  <2>1. Raised(s, k) # <<>>
    BY <1>2, <1>10, EmptySeq
  <2> QED BY <1>2, <1>10, <2>1 DEF First, Final
<1> HIDE DEF o, L
<1>12. o[Root][list.head] = s[k] /\ o[Root][list.tail] = IF k = L THEN s[L - 1] ELSE s[L]
  <2>1. next = 0 <=> k = L
    BY <1>2, <1>3
  <2> HIDE DEF c, next
  <2> QED BY <1>2, <1>3, <1>4, <1>7, <1>8, <1>9, <2>1, Addresses DEF c
<1>13. ASSUME NEW n \in 1..L
       PROVE  /\ o[At(s[n])][list.next] = IF n = k THEN s[1]
                                          ELSE IF n = k - 1 THEN next ELSE m[At(s[n])][list.next]
              /\ o[At(s[n])][list.prev] = IF n = k THEN 0
                                          ELSE IF n = 1 THEN s[k]
                                          ELSE IF n = k + 1 THEN m[At(c)][list.prev]
                                          ELSE m[At(s[n])][list.prev]
  <2> DEFINE d == s[n]
  <2>1. d \in Cells
    BY <1>2
  <2>2. (d = c <=> n = k) /\ (d = p <=> n = k - 1) /\ (d = s[1] <=> n = 1)
    BY <1>2
  <2>3. next # 0 /\ d = next <=> n = k + 1
    BY <1>2, <1>3
  <2>4. o[At(d)][list.next] = IF d = p THEN next ELSE IF d = c THEN s[1] ELSE m[At(d)][list.next]
    <3> HIDE DEF c, d, p, next
    <3> QED BY <1>4, <1>7, <1>8, <1>9, <2>1, Addresses
  <2>5. o[At(d)][list.prev] = IF next # 0 /\ d = next THEN p
                              ELSE IF d = c THEN 0 ELSE IF d = s[1] THEN c ELSE m[At(d)][list.prev]
    <3> HIDE DEF c, d, p, next
    <3> QED BY <1>4, <1>7, <1>8, <1>9, <2>1, Addresses
  <2> HIDE DEF next
  <2> QED BY <1>2, <1>3, <2>2, <2>3, <2>4, <2>5
<1>14. IsPath(o, list.next, list.prev, Raised(s, k))
  BY <1>1, <1>2, <1>13, PathRaised DEF L
<1> QED BY <1>11, <1>12, <1>14 DEF IsList, o

\* Insert puts a new block in front of a list.
LEMMA InsertEffect ==
    ASSUME HashMapAssumption, NEW m, Shape(m), NEW list, IsLinks(list), NEW s, IsList(m, list, s),
           NEW c \in Cells, c \notin Range(s), m[At(c)][list.next] = 0, m[At(c)][list.prev] = 0
    PROVE  IsList(Updated(Insert(m, list, c), m), list, OnTop(c, s))
<1> DEFINE o == Updated(Insert(m, list, c), m)
           L == Len(s)
           d == s[1]
<1>1. IsPath(m, list.next, list.prev, s)
  BY DEF IsList
<1>2. /\ L \in Nat /\ (s = <<>> <=> L = 0)
      /\ (\A n \in 1..L : s[n] \in Cells /\ s[n] # 0 /\ s[n] # c)
      /\ \A i, j \in 1..L : s[i] = s[j] => i = j
  BY <1>1, PathFacts
<1>3. m[Root][list.head] = First(s) /\ m[Root][list.tail] = Final(s)
  BY DEF IsList
<1>4. /\ list.head # list.tail /\ list.next # list.prev
      /\ Root \in DOMAIN m /\ list.head \in DOMAIN m[Root] /\ list.tail \in DOMAIN m[Root]
      /\ \A e \in Cells : /\ At(e) \in DOMAIN m
                          /\ list.next \in DOMAIN m[At(e)] /\ list.prev \in DOMAIN m[At(e)]
  BY ListFields DEF IsLinks
<1>5. /\ OnTop(c, s) \in Seq(Cells) /\ Len(OnTop(c, s)) = L + 1
      /\ \A n \in 1..(L + 1) : OnTop(c, s)[n] = IF n = 1 THEN c ELSE s[n - 1]
  BY <1>1, OnTopFacts DEF IsPath
<1>6. First(OnTop(c, s)) = c /\ Final(OnTop(c, s)) = IF L = 0 THEN c ELSE s[L]
  <2>1. OnTop(c, s) # <<>>
    BY <1>2, <1>5, EmptySeq
  <2>2. 1 \in 1..(L + 1) /\ L + 1 \in 1..(L + 1) /\ (L + 1 = 1 <=> L = 0) /\ (L + 1) - 1 = L
    BY <1>2
  <2> QED BY <1>5, <2>1, <2>2 DEF First, Final
<1> HIDE DEF L
<1>7. SUFFICES /\ o[Root][list.head] = c /\ o[Root][list.tail] = IF L = 0 THEN c ELSE s[L]
               /\ o[At(c)][list.next] = First(s) /\ o[At(c)][list.prev] = 0
               /\ \A n \in 1..L :
                    /\ o[At(s[n])][list.next] = m[At(s[n])][list.next]
                    /\ o[At(s[n])][list.prev] = IF n = 1 THEN c ELSE m[At(s[n])][list.prev]
  <2>1. IsPath(o, list.next, list.prev, OnTop(c, s))
    BY <1>1, <1>7, PathAdded DEF L
  <2> QED BY <1>6, <1>7, <2>1 DEF IsList
<1>8. CASE L = 0
  <2>1. Insert(m, list, c) = <<Put(Root, list.head, c), Put(Root, list.tail, c)>>
    BY <1>2, <1>3, <1>8 DEF Insert, First
  <2>2. ASSUME NEW a \in DOMAIN m, NEW f \in DOMAIN m[a]
        PROVE  o[a][f] = IF a = Root /\ (f = list.head \/ f = list.tail) THEN c ELSE m[a][f]
    BY <2>1, ReadsAfterTwo, PutReads
  <2>3. First(s) = 0
    BY <1>2, <1>8 DEF First
  <2> HIDE DEF o
  <2> QED BY <1>2, <1>4, <1>8, <2>2, <2>3, Addresses
<1>9. CASE L # 0
  <2>1. 1 \in 1..L /\ First(s) = d /\ Final(s) = s[L] /\ d # 0 /\ d \in Cells /\ d # c
    BY <1>2, <1>9 DEF First, Final, L
  <2>2. Insert(m, list, c) = <<Put(At(c), list.next, d), Put(At(d), list.prev, c), Put(Root, list.head, c)>>
    BY <1>3, <2>1 DEF Insert
  <2>3. ASSUME NEW a \in DOMAIN m, NEW f \in DOMAIN m[a]
        PROVE  o[a][f] = IF a = Root /\ f = list.head THEN c
                         ELSE IF a = At(d) /\ f = list.prev THEN c
                         ELSE IF a = At(c) /\ f = list.next THEN d ELSE m[a][f]
    BY <2>2, ReadsAfterThree, PutReads
  <2>4. \A n \in 1..L : (s[n] = d <=> n = 1)
    BY <1>2, <2>1
  <2> HIDE DEF o, d
  <2> QED BY <1>2, <1>3, <1>4, <1>9, <2>1, <2>3, <2>4, Addresses
<1> QED BY <1>8, <1>9

\* The memory keeps its shape.
LEMMA ShapeKept ==
    ASSUME NEW m, Shape(m), NEW n, NEW F, Same(m, n, F)
    PROVE  Shape(n)
BY DEF Shape, Same

\* Updates leave the records and their fields.
LEMMA ShapeUpdated ==
    ASSUME NEW m, Shape(m), NEW updates, NEW F, Writes(updates, F)
    PROVE  Shape(Updated(updates, m))
<1>1. Same(m, Updated(updates, m), {})
  BY Untouched
<1> QED BY <1>1, ShapeKept

\* A list stays as it is when its fields do.
LEMMA ListKept ==
    ASSUME NEW m, Shape(m), NEW n, NEW list, IsLinks(list), NEW s, IsList(m, list, s),
           Same(m, n, {list.head, list.tail, list.next, list.prev})
    PROVE  IsList(n, list, s)
<1>1. IsPath(m, list.next, list.prev, s)
  BY DEF IsList
<1>2. \A k \in 1..Len(s) : s[k] \in Cells
  BY <1>1, ElementOfSeq DEF IsPath
<1>3. IsPath(n, list.next, list.prev, s)
  BY <1>1, <1>2, ListFields, PathKept DEF Same
<1>4. n[Root][list.head] = m[Root][list.head] /\ n[Root][list.tail] = m[Root][list.tail]
  BY ListFields DEF Same
<1> QED BY <1>3, <1>4 DEF IsList

\* The tail of a list is put in front, as erase does it.
LEMMA TailRaised ==
    ASSUME HashMapAssumption, NEW m, Shape(m), NEW list, IsLinks(list), NEW s, IsList(m, list, s),
           Len(s) # 0, Len(s) # 1, NEW c, c = s[Len(s)], NEW p, p = m[At(c)][list.prev]
    PROVE  IsList(Updated(<<Put(Root, list.tail, p), Put(At(p), list.next, 0), Put(At(c), list.prev, 0),
                            Put(At(c), list.next, s[1]), Put(At(s[1]), list.prev, c),
                            Put(Root, list.head, c)>>, m),
                  list, Raised(s, Len(s)))
<1> DEFINE L == Len(s)
           d == s[1]
           three == <<Put(Root, list.tail, p), Put(At(p), list.next, 0), Put(At(c), list.prev, 0)>>
           more == <<Put(At(c), list.next, d), Put(At(d), list.prev, c), Put(Root, list.head, c)>>
           o3 == Updated(three, m)
           o == Updated(more, o3)
           F == {list.head, list.tail, list.next, list.prev}
<1>1. IsPath(m, list.next, list.prev, s)
  BY DEF IsList
<1>2. /\ L \in Nat /\ L \in 2..L /\ L - 1 \in 1..L /\ 1 \in 1..L /\ L \in 1..L /\ L # 1
      /\ (\A n \in 1..L : s[n] \in Cells /\ s[n] # 0)
      /\ \A i, j \in 1..L : s[i] = s[j] => i = j
  <2>1. /\ L \in Nat /\ (\A n \in 1..L : s[n] \in Cells /\ s[n] # 0)
        /\ \A i, j \in 1..L : s[i] = s[j] => i = j
    BY <1>1, PathFacts
  <2>2. L # 0 /\ L # 1
    OBVIOUS
  <2> HIDE DEF L
  <2>3. L \in 2..L /\ L - 1 \in 1..L /\ 1 \in 1..L /\ L \in 1..L
    BY <2>1, <2>2
  <2> QED BY <2>1, <2>2, <2>3
<1>3. /\ p = s[L - 1] /\ m[Root][list.head] = d /\ m[Root][list.tail] = c
      /\ m[At(c)][list.next] = 0
  BY <1>2, Ends
<1>4. /\ list.head # list.tail /\ list.next # list.prev
      /\ Root \in DOMAIN m /\ list.head \in DOMAIN m[Root] /\ list.tail \in DOMAIN m[Root]
      /\ \A e \in Cells : /\ At(e) \in DOMAIN m
                          /\ list.next \in DOMAIN m[At(e)] /\ list.prev \in DOMAIN m[At(e)]
  BY ListFields DEF IsLinks
<1>5. ASSUME NEW a \in DOMAIN m, NEW f \in DOMAIN m[a]
      PROVE  /\ o3[a][f] = IF a = At(c) /\ f = list.prev THEN 0
                           ELSE IF a = At(p) /\ f = list.next THEN 0
                           ELSE IF a = Root /\ f = list.tail THEN p ELSE m[a][f]
             /\ a \in DOMAIN o3 /\ f \in DOMAIN o3[a]
  <2>1. Writes(three, F)
    <3>1. list.head \in F /\ list.tail \in F /\ list.next \in F /\ list.prev \in F
      OBVIOUS
    <3> QED BY ONLY <3>1, WritesThree DEF three
  <2>2. Same(m, o3, {})
    BY <2>1, Untouched
  <2> QED BY <2>2, ReadsAfterThree, PutReads DEF Same
<1> HIDE DEF o3
<1>6. ASSUME NEW a \in DOMAIN m, NEW f \in DOMAIN m[a]
      PROVE  o[a][f] = IF a = Root /\ f = list.head THEN c
                       ELSE IF a = At(d) /\ f = list.prev THEN c
                       ELSE IF a = At(c) /\ f = list.next THEN d ELSE o3[a][f]
  <2>1. a \in DOMAIN o3 /\ f \in DOMAIN o3[a]
    BY <1>5
  <2> QED BY <2>1, ReadsAfterThree, PutReads
<1>7. Updated(<<Put(Root, list.tail, p), Put(At(p), list.next, 0), Put(At(c), list.prev, 0),
                Put(At(c), list.next, d), Put(At(d), list.prev, c), Put(Root, list.head, c)>>, m) = o
  BY UpdatedSix DEF o3
<1>8. /\ Len(Raised(s, L)) = L /\ Raised(s, L) \in Seq(Cells)
      /\ \A n \in 1..L : Raised(s, L)[n] = IF n = 1 THEN s[L] ELSE IF n <= L THEN s[n - 1] ELSE s[n]
  BY <1>1, <1>2, RaisedFacts DEF IsPath
<1>9. First(Raised(s, L)) = c /\ Final(Raised(s, L)) = s[L - 1]
  <2>1. Raised(s, L) # <<>>
    BY <1>2, <1>8, EmptySeq
  <2> QED BY <1>2, <1>8, <2>1 DEF First, Final
<1> HIDE DEF o, L
<1>10. o[Root][list.head] = c /\ o[Root][list.tail] = p
  BY <1>4, <1>5, <1>6, Addresses
<1>11. ASSUME NEW n \in 1..L
       PROVE  /\ o[At(s[n])][list.next] = IF n = L THEN s[1]
                                          ELSE IF n = L - 1 THEN m[At(s[L])][list.next]
                                          ELSE m[At(s[n])][list.next]
              /\ o[At(s[n])][list.prev] = IF n = L THEN 0
                                          ELSE IF n = 1 THEN s[L]
                                          ELSE IF n = L + 1 THEN m[At(s[L])][list.prev]
                                          ELSE m[At(s[n])][list.prev]
  <2> DEFINE e == s[n]
  <2>1. e \in Cells
    BY <1>2
  <2>2. (e = c <=> n = L) /\ (e = p <=> n = L - 1) /\ (e = d <=> n = 1) /\ n # L + 1
    BY <1>2, <1>3 DEF L
  <2>3. o[At(e)][list.next] = IF e = c THEN d ELSE IF e = p THEN 0 ELSE m[At(e)][list.next]
    <3> HIDE DEF d, e
    <3> QED BY <1>4, <1>5, <1>6, <2>1, Addresses
  <2>4. o[At(e)][list.prev] = IF e = d THEN c ELSE IF e = c THEN 0 ELSE m[At(e)][list.prev]
    <3> HIDE DEF d, e
    <3> QED BY <1>4, <1>5, <1>6, <2>1, Addresses
  <2>5. c = s[L] /\ d # c
    BY <1>2 DEF L
  <2> QED BY <1>2, <1>3, <2>2, <2>3, <2>4, <2>5
<1>12. IsPath(o, list.next, list.prev, Raised(s, L))
  <2>1. IsPath(m, list.next, list.prev, s) /\ L \in 2..Len(s) /\ L = Len(s)
    BY <1>1, <1>2 DEF L
  <2> QED BY ONLY HashMapAssumption, <1>11, <2>1, PathRaised
<1> QED BY <1>3, <1>7, <1>9, <1>10, <1>12 DEF IsList, L

\* Unlink writes the fields of its list only.
LEMMA UnlinkWrites ==
    ASSUME NEW m, NEW list, NEW c
    PROVE  Writes(Unlink(m, list, c), {list.head, list.tail, list.next, list.prev})
<1> DEFINE F == {list.head, list.tail, list.next, list.prev}
           prev == m[At(c)][list.prev]
           next == m[At(c)][list.next]
           isHead == m[Root][list.head] = c
           isTail == m[Root][list.tail] = c
<1>1. list.head \in F /\ list.tail \in F /\ list.next \in F /\ list.prev \in F
  OBVIOUS
<1> HIDE DEF F
<1>2. CASE isHead /\ isTail
  <2>1. Unlink(m, list, c) = <<Put(Root, list.head, 0), Put(Root, list.tail, 0)>>
    BY <1>2 DEF Unlink
  <2> QED BY <1>1, <2>1, WritesTwo DEF F
<1>3. CASE isHead /\ ~isTail
  <2>1. Unlink(m, list, c) = <<Put(Root, list.head, next), Put(At(next), list.prev, 0)>>
    BY <1>3 DEF Unlink
  <2> QED BY <1>1, <2>1, WritesTwo DEF F
<1>4. CASE ~isHead /\ isTail
  <2>1. Unlink(m, list, c) = <<Put(Root, list.tail, prev), Put(At(prev), list.next, 0)>>
    BY <1>4 DEF Unlink
  <2> QED BY <1>1, <2>1, WritesTwo DEF F
<1>5. CASE ~isHead /\ ~isTail
  <2>1. Unlink(m, list, c) = <<Put(At(prev), list.next, next), Put(At(next), list.prev, prev)>>
    BY <1>5 DEF Unlink
  <2> QED BY <1>1, <2>1, WritesTwo DEF F
<1> QED BY <1>2, <1>3, <1>4, <1>5

\* Insert writes the fields of its list only.
LEMMA InsertWrites ==
    ASSUME NEW m, NEW list, NEW c
    PROVE  Writes(Insert(m, list, c), {list.head, list.tail, list.next, list.prev})
<1> DEFINE F == {list.head, list.tail, list.next, list.prev}
           first == m[Root][list.head]
<1>1. list.head \in F /\ list.tail \in F /\ list.next \in F /\ list.prev \in F
  OBVIOUS
<1> HIDE DEF F
<1>2. CASE first = 0
  <2>1. Insert(m, list, c) = <<Put(Root, list.head, c), Put(Root, list.tail, c)>>
    BY <1>2 DEF Insert
  <2> QED BY <1>1, <2>1, WritesTwo DEF F
<1>3. CASE first # 0
  <2>1. Insert(m, list, c) = <<Put(At(c), list.next, first), Put(At(first), list.prev, c),
                               Put(Root, list.head, c)>>
    BY <1>3 DEF Insert
  <2> QED BY <1>1, <2>1, WritesThree DEF F
<1> QED BY <1>2, <1>3

\* ToHead writes the fields of its list only.
LEMMA ToHeadWrites ==
    ASSUME NEW m, NEW list, NEW c
    PROVE  Writes(ToHead(m, list, c), {list.head, list.tail, list.next, list.prev})
<1> DEFINE F == {list.head, list.tail, list.next, list.prev}
           prev == m[At(c)][list.prev]
           next == m[At(c)][list.next]
           first == m[Root][list.head]
           five == <<Put(At(c), list.next, first), Put(At(first), list.prev, c),
                     Put(Root, list.head, c), Put(At(c), list.prev, 0), Put(At(prev), list.next, next)>>
           last == IF next # 0 THEN <<Put(At(next), list.prev, prev)>> ELSE <<Put(Root, list.tail, prev)>>
<1>1. list.head \in F /\ list.tail \in F /\ list.next \in F /\ list.prev \in F
  OBVIOUS
<1>2. ToHead(m, list, c) = five \o last
  BY DEF ToHead
<1> HIDE DEF F
<1>3. Writes(last, F)
  BY <1>1, WritesOne
<1>4. Writes(five, F)
  <2> HIDE DEF first, prev, next
  <2> QED BY ONLY <1>1, WritesFive DEF five
<1> HIDE DEF five, last
<1>5. Writes(five \o last, F)
  BY ONLY <1>3, <1>4, WritesConcat
<1> QED BY <1>2, <1>5 DEF F

-----------------------------------------------------------------------------
(* The chain of a bucket                                                   *)

IsChain(m, i, s) ==
    /\ IsPath(m, "iBlockNext", "iBlockPrev", s)
    /\ m[Item(i)].iBlockAddr = First(s)

\* The chain of bucket i closes behind a block between prev and next.
Closed(m, o, i, prev, next) ==
    /\ \A d \in Cells :
         /\ o[At(d)].iBlockNext = IF prev # 0 /\ d = prev THEN next ELSE m[At(d)].iBlockNext
         /\ o[At(d)].iBlockPrev = IF next # 0 /\ d = next THEN prev ELSE m[At(d)].iBlockPrev
    /\ \A j \in Buckets :
         o[Item(j)].iBlockAddr = IF prev = 0 /\ j = i THEN next ELSE m[Item(j)].iBlockAddr

\* A block is taken out of its chain; the other chains stay.
LEMMA ChainRemoved ==
    ASSUME HashMapAssumption, NEW m, NEW o, NEW i \in Buckets, NEW s, IsChain(m, i, s),
           NEW k \in 1..Len(s), NEW prev, NEW next,
           prev = m[At(s[k])].iBlockPrev, next = m[At(s[k])].iBlockNext,
           Closed(m, o, i, prev, next)
    PROVE  /\ IsChain(o, i, Without(s, k))
           /\ \A j \in Buckets : \A t : j # i /\ IsChain(m, j, t) /\ Range(t) \cap Range(s) = {}
                => IsChain(o, j, t)
<1> DEFINE L == Len(s)
<1>1. IsPath(m, "iBlockNext", "iBlockPrev", s)
  BY DEF IsChain
<1>2. /\ L \in Nat /\ k \in 1..L /\ (\A n \in 1..L : s[n] \in Cells /\ s[n] # 0)
      /\ (\A a, b \in 1..L : s[a] = s[b] => a = b)
      /\ Range(s) = {s[n] : n \in 1..L}
  BY <1>1, PathFacts
<1>3. next = (IF k = L THEN 0 ELSE s[k + 1]) /\ prev = (IF k = 1 THEN 0 ELSE s[k - 1])
  BY <1>1 DEF IsPath
<1>4. /\ Len(Without(s, k)) = L - 1 /\ Without(s, k) \in Seq(Cells)
      /\ \A n \in 1..(L - 1) : Without(s, k)[n] = IF n < k THEN s[n] ELSE s[n + 1]
  BY <1>1, WithoutFacts DEF IsPath
<1>5. First(Without(s, k)) = IF k = 1 THEN (IF L = 1 THEN 0 ELSE s[2]) ELSE s[1]
  <2>1. Without(s, k) = <<>> <=> L = 1
    BY <1>2, <1>4, EmptySeq
  <2> QED BY <1>2, <1>4, <2>1 DEF First
<1>6. s # <<>> /\ First(s) = s[1]
  BY <1>2, EmptySeq DEF First
<1> HIDE DEF L
<1>7. k - 1 \in 1..L \/ k = 1
  BY <1>2
<1>8. k + 1 \in 1..L \/ k = L
  BY <1>2
<1>9. \A n \in 1..L : n # k =>
         /\ o[At(s[n])].iBlockNext = IF n = k - 1 THEN next ELSE m[At(s[n])].iBlockNext
         /\ o[At(s[n])].iBlockPrev = IF n = k + 1 THEN prev ELSE m[At(s[n])].iBlockPrev
  BY <1>2, <1>3, <1>7, <1>8 DEF Closed
<1>10. IsPath(o, "iBlockNext", "iBlockPrev", Without(s, k))
  BY <1>1, <1>9, PathRemoved DEF L
<1>11. o[Item(i)].iBlockAddr = First(Without(s, k))
  BY <1>2, <1>3, <1>5, <1>6, <1>7 DEF IsChain, Closed
<1>12. ASSUME NEW j \in Buckets, NEW t, j # i, IsChain(m, j, t), Range(t) \cap Range(s) = {}
       PROVE  IsChain(o, j, t)
  <2>1. IsPath(m, "iBlockNext", "iBlockPrev", t)
    BY <1>12 DEF IsChain
  <2>2. \A n \in 1..Len(t) : t[n] \in Cells /\ t[n] \notin Range(s)
    BY <1>12, <2>1, PathFacts
  <2>3. \A n \in 1..Len(t) : t[n] # prev /\ t[n] # next
    <3> SUFFICES ASSUME NEW n \in 1..Len(t) PROVE t[n] # prev /\ t[n] # next
      OBVIOUS
    <3>1. t[n] # 0
      BY <2>2, CellFacts
    <3> QED BY <1>2, <1>3, <1>7, <1>8, <2>2, <3>1
  <2>4. IsPath(o, "iBlockNext", "iBlockPrev", t)
    BY <2>1, <2>2, <2>3, PathKept DEF Closed
  <2> QED BY <1>12, <2>4 DEF IsChain, Closed
<1> QED BY <1>10, <1>11, <1>12 DEF IsChain

\* Block c comes before the first of bucket i.
Opened(m, o, i, c, first) ==
    /\ \A d \in Cells :
         /\ o[At(d)].iBlockNext = IF d = c THEN first ELSE m[At(d)].iBlockNext
         /\ o[At(d)].iBlockPrev = IF first # 0 /\ d = first THEN c ELSE m[At(d)].iBlockPrev
    /\ \A j \in Buckets : o[Item(j)].iBlockAddr = IF j = i THEN c ELSE m[Item(j)].iBlockAddr

\* A new block is put in front of a chain; the other chains stay.
LEMMA ChainAdded ==
    ASSUME HashMapAssumption, NEW m, NEW o, NEW i \in Buckets, NEW s, IsChain(m, i, s),
           NEW c \in Cells, c \notin Range(s), NEW first, first = m[Item(i)].iBlockAddr,
           m[At(c)].iBlockPrev = 0,
           Opened(m, o, i, c, first)
    PROVE  /\ IsChain(o, i, OnTop(c, s))
           /\ \A j \in Buckets : \A t : /\ j # i /\ IsChain(m, j, t)
                                    /\ Range(t) \cap Range(s) = {} /\ c \notin Range(t)
                => IsChain(o, j, t)
<1> DEFINE L == Len(s)
<1>1. IsPath(m, "iBlockNext", "iBlockPrev", s)
  BY DEF IsChain
<1>2. /\ L \in Nat /\ (\A n \in 1..L : s[n] \in Cells /\ s[n] # 0 /\ s[n] # c)
      /\ (s = <<>> <=> L = 0)
      /\ (\A a, b \in 1..L : s[a] = s[b] => a = b)
      /\ Range(s) = {s[n] : n \in 1..L}
  BY <1>1, PathFacts
<1>3. first = (IF L = 0 THEN 0 ELSE s[1]) /\ first = First(s)
  BY <1>2 DEF IsChain, First
<1>4. First(OnTop(c, s)) = c
  <2>1. /\ Len(OnTop(c, s)) = L + 1 /\ OnTop(c, s) \in Seq(Cells)
        /\ \A n \in 1..(L + 1) : OnTop(c, s)[n] = IF n = 1 THEN c ELSE s[n - 1]
    BY <1>1, OnTopFacts DEF IsPath
  <2>2. OnTop(c, s) # <<>>
    BY <1>2, <2>1, EmptySeq
  <2>3. 1 \in 1..(L + 1)
    BY <1>2
  <2> QED BY <2>1, <2>2, <2>3 DEF First
<1> HIDE DEF L
<1>5. \A n \in 1..L : /\ o[At(s[n])].iBlockNext = m[At(s[n])].iBlockNext
                      /\ o[At(s[n])].iBlockPrev = IF n = 1 THEN c ELSE m[At(s[n])].iBlockPrev
  <2>1. L # 0 => 1 \in 1..L
    BY <1>2
  <2> QED BY <1>2, <1>3, <2>1 DEF Opened
<1>6. o[At(c)].iBlockNext = First(s) /\ o[At(c)].iBlockPrev = 0
  <2>1. L # 0 => 1 \in 1..L
    BY <1>2
  <2> QED BY <1>2, <1>3, <2>1 DEF Opened
<1>7. IsPath(o, "iBlockNext", "iBlockPrev", OnTop(c, s))
  BY <1>1, <1>5, <1>6, PathAdded DEF L
<1>8. ASSUME NEW j \in Buckets, NEW t, j # i, IsChain(m, j, t),
             Range(t) \cap Range(s) = {}, c \notin Range(t)
      PROVE  IsChain(o, j, t)
  <2>1. IsPath(m, "iBlockNext", "iBlockPrev", t)
    BY <1>8 DEF IsChain
  <2>2. \A n \in 1..Len(t) : t[n] \in Cells /\ t[n] \notin Range(s) /\ t[n] # c
    BY <1>8, <2>1, PathFacts
  <2>3. \A n \in 1..Len(t) : first # 0 => t[n] # first
    <3>1. first # 0 => first \in Range(s)
      <4>1. L # 0 => 1 \in 1..L
        BY <1>2
      <4> QED BY <1>2, <1>3, <4>1
    <3> QED BY <2>2, <3>1
  <2>4. IsPath(o, "iBlockNext", "iBlockPrev", t)
    BY <2>1, <2>2, <2>3, PathKept DEF Opened
  <2> QED BY <1>8, <2>4 DEF IsChain, Opened
<1> QED BY <1>4, <1>7, <1>8 DEF IsChain, Opened

-----------------------------------------------------------------------------
(* What erase and makeNew do                                               *)

SetFields == {"iSetHead", "iSetTail", "iSetNext", "iSetPrev"}
GetFields == {"iGetHead", "iGetTail", "iGetNext", "iGetPrev"}
ListFieldsOf(list) == {list.head, list.tail, list.next, list.prev}
AllFields == HeadFields \cup ItemFields \cup BlockFields

\* The fields of the two lists.
LEMMA FieldsOfLists == ListFieldsOf(SetList) = SetFields /\ ListFieldsOf(GetList) = GetFields
BY SetLinks DEF ListFieldsOf, SetFields, GetFields

\* What memory o is to memory m, of which the updates were made.
LEMMA IfPart ==
    ASSUME NEW m, NEW condition, NEW u, NEW o, o = Updated(If(condition, <<u>>), m)
    PROVE  /\ DOMAIN o = DOMAIN m
           /\ \A a \in DOMAIN m : /\ DOMAIN o[a] = DOMAIN m[a]
                                  /\ \A f \in DOMAIN m[a] :
                                       o[a][f] = IF condition /\ a = u[1] /\ f = u[2] THEN u[3] ELSE m[a][f]
<1>1. CASE condition
  BY <1>1, UpdatedOne, OneReads DEF If
<1>2. CASE ~condition
  BY <1>2, UpdatedNone DEF If
<1> QED BY <1>1, <1>2

\* What stays in the fields F stays in some of them.
LEMMA SameLess ==
    ASSUME NEW m, NEW n, NEW F, NEW G, Same(m, n, F), G \subseteq F
    PROVE  Same(m, n, G)
BY DEF Same

\* A memory is the same as itself.
LEMMA SameSelf == \A m, F : Same(m, m, F)
BY DEF Same

\* What one update leaves alone.
LEMMA IfLeaves ==
    ASSUME NEW m, NEW condition, NEW a, NEW f, NEW v, NEW G, f \notin G
    PROVE  Same(m, Updated(If(condition, <<Put(a, f, v)>>), m), G)
<1>1. Writes(If(condition, <<Put(a, f, v)>>), {f})
  BY WritesOne, WritesIf
<1> QED BY <1>1, Untouched

\* Memory o is memory m, in field f, but for one update if the condition holds.
Reads(m, o, condition, a, f, v) ==
    \A x \in DOMAIN m : f \in DOMAIN m[x] =>
        o[x][f] = IF condition /\ x = a THEN v ELSE m[x][f]

\* A field that only one update of several writes.
LEMMA StageReads ==
    ASSUME NEW m, NEW p, NEW q, NEW o, NEW condition, NEW a, NEW f, NEW v, Same(m, p, {f}),
           q = Updated(If(condition, <<Put(a, f, v)>>), p), Same(q, o, {f})
    PROVE  Reads(m, o, condition, a, f, v)
<1> SUFFICES ASSUME NEW x \in DOMAIN m, f \in DOMAIN m[x]
             PROVE  o[x][f] = IF condition /\ x = a THEN v ELSE m[x][f]
  BY DEF Reads
<1>1. x \in DOMAIN p /\ f \in DOMAIN p[x] /\ p[x][f] = m[x][f]
  BY DEF Same
<1>2. /\ x \in DOMAIN q /\ f \in DOMAIN q[x]
      /\ q[x][f] = IF condition /\ x = a THEN v ELSE p[x][f]
  BY <1>1, IfPart, PutReads
<1>3. o[x][f] = q[x][f]
  BY <1>2 DEF Same
<1> QED BY <1>1, <1>2, <1>3

-----------------------------------------------------------------------------
(* Updates in stages                                                       *)

\* An update under a condition.
PutIf(condition, a, f, v) == If(condition, <<Put(a, f, v)>>)

\* The fields that stage j writes.
StageFields(W, j) == {f \in AllFields : W[f] = j}

\* The memories M[0] to M[n], each what the updates u[j] make of that before it.
Stages(M, u, W, n) ==
    \A j \in 1..n : M[j] = Updated(u[j], M[j - 1]) /\ Writes(u[j], StageFields(W, j))

\* What the updates u make of memory m, stage by stage.
InStages(m, o, u, W, n) == \E M : M[0] = m /\ M[n] = o /\ Stages(M, u, W, n)

\* A stage of one update.
LEMMA StageOne ==
    ASSUME NEW W, NEW j, NEW f \in AllFields, W[f] = j, NEW condition, NEW a, NEW v
    PROVE  Writes(PutIf(condition, a, f, v), StageFields(W, j))
<1>1. f \in StageFields(W, j)
  BY DEF StageFields
<1> QED BY <1>1, WritesOne, WritesIf DEF PutIf

\* C[j] are the updates of the stages up to j, one after the other.
Then(s, t) == s \o t
UpTo(C, u, n) == C[1] = u[1] /\ \A j \in 1..n : j # 1 => C[j] = Then(C[j - 1], u[j])
Staged(u, W, n) == \A j \in 1..n : Writes(u[j], StageFields(W, j))

\* What the updates one after the other make is what the stages make.
LEMMA StagesOf ==
    ASSUME NEW n \in Nat, n # 0, NEW u, NEW W, Staged(u, W, n), NEW C, UpTo(C, u, n), NEW m
    PROVE  InStages(m, Updated(C[n], m), u, W, n)
<1> DEFINE S == {j \in Nat : j + 1 <= n => Writes(C[j + 1], AllFields)}
<1>1. \A j \in 1..n : Writes(u[j], AllFields)
  BY WritesMore DEF Staged, StageFields
<1>2. 0 \in S
  BY <1>1 DEF UpTo
<1>3. ASSUME NEW j \in Nat, j \in S PROVE j + 1 \in S
  <2> DEFINE k == (j + 1) + 1
  <2> SUFFICES ASSUME k <= n PROVE Writes(C[k], AllFields)
    OBVIOUS
  <2>1. k \in 1..n /\ k # 1 /\ k - 1 = j + 1 /\ Writes(C[j + 1], AllFields)
    BY <1>3
  <2> HIDE DEF k
  <2>2. C[k] = C[j + 1] \o u[k] /\ Writes(u[k], AllFields)
    BY <1>1, <2>1 DEF UpTo, Then
  <2> QED BY <2>1, <2>2, WritesConcat
<1> HIDE DEF S
<1>4. Nat \subseteq S
  BY <1>2, <1>3, Count
<1> DEFINE M == [j \in 0..n |-> IF j = 0 THEN m ELSE Updated(C[j], m)]
<1>5. ASSUME NEW j \in 1..n PROVE M[j] = Updated(u[j], M[j - 1])
  <2>1. CASE j = 1
    BY <2>1 DEF UpTo
  <2>2. CASE j # 1
    <3>1. j - 2 \in Nat /\ (j - 2) + 1 = j - 1 /\ j - 1 <= n
      BY <2>2
    <3>2. Writes(C[j - 1], AllFields) /\ Writes(u[j], AllFields) /\ C[j] = C[j - 1] \o u[j]
      BY <1>1, <1>4, <2>2, <3>1 DEF S, UpTo, Then
    <3>3. Updated(C[j], m) = Updated(u[j], Updated(C[j - 1], m))
      BY <3>2, Concat
    <3> QED BY <3>1, <3>3
  <2> QED BY <2>1, <2>2
<1>6. M[0] = m /\ M[n] = Updated(C[n], m)
  OBVIOUS
<1> QED BY <1>5, <1>6 DEF InStages, Stages, Staged

\* Stages leave alone what they do not write.
LEMMA StagesKeep ==
    ASSUME NEW n \in Nat, NEW M, NEW u, NEW W, Stages(M, u, W, n), NEW a \in 0..n, NEW b \in a..n,
           NEW F, \A f \in F \cap AllFields : W[f] \notin (a + 1)..b
    PROVE  Same(M[a], M[b], F)
<1> DEFINE S == {k \in Nat : a + k <= b => Same(M[a], M[a + k], F)}
<1>1. 0 \in S
  BY SameSelf
<1>2. ASSUME NEW k \in Nat, k \in S PROVE k + 1 \in S
  <2> SUFFICES ASSUME a + (k + 1) <= b PROVE Same(M[a], M[a + (k + 1)], F)
    OBVIOUS
  <2>1. /\ a + (k + 1) \in 1..n /\ a + (k + 1) \in (a + 1)..b /\ (a + (k + 1)) - 1 = a + k
        /\ Same(M[a], M[a + k], F)
    BY <1>2
  <2> DEFINE j == a + (k + 1)
  <2>2. /\ M[j] = Updated(u[j], M[a + k]) /\ Writes(u[j], StageFields(W, j))
        /\ StageFields(W, j) \cap F = {}
    BY <2>1 DEF Stages, StageFields
  <2>3. Same(M[a + k], M[j], F)
    BY <2>2, Untouched
  <2> QED BY <2>1, <2>3, SameTwice
<1> HIDE DEF S
<1>3. Nat \subseteq S
  BY <1>1, <1>2, Count
<1>4. b - a \in S /\ a + (b - a) = b
  BY <1>3
<1> QED BY <1>4 DEF S

\* What updates of one field leave in it.
Alters(m, o, f, updates) ==
    \A condition, a, v : updates = PutIf(condition, a, f, v) => Reads(m, o, condition, a, f, v)

\* What stages leave in a field that one update writes.
LEMMA StagesRead ==
    ASSUME NEW m, NEW o, NEW u, NEW W, NEW n \in Nat, InStages(m, o, u, W, n), NEW f \in AllFields,
           NEW j \in 1..n, W[f] = j
    PROVE  Alters(m, o, f, u[j])
<1> SUFFICES ASSUME NEW condition, NEW a, NEW v, u[j] = PutIf(condition, a, f, v)
             PROVE  Reads(m, o, condition, a, f, v)
  BY DEF Alters
<1>1. PICK M : M[0] = m /\ M[n] = o /\ Stages(M, u, W, n)
  BY DEF InStages
<1>2. j - 1 \in 0..n /\ j \notin 1..(j - 1) /\ j \notin (j + 1)..n /\ 0 + 1 = 1
  OBVIOUS
<1>3. M[j] = Updated(If(condition, <<Put(a, f, v)>>), M[j - 1])
  BY <1>1 DEF Stages, PutIf
<1>4. Same(M[0], M[j - 1], {f}) /\ Same(M[j], M[n], {f})
  <2>1. 0 \in 0..n /\ n \in j..n /\ j \in 0..n /\ j - 1 \in 0..n
    OBVIOUS
  <2> QED BY <1>1, <1>2, <2>1, StagesKeep
<1> QED BY <1>1, <1>3, <1>4, StageReads

\* What stages leave in the fields F that one of them writes.
LEMMA StagesLeave ==
    ASSUME NEW m, NEW o, NEW u, NEW W, NEW n \in Nat, InStages(m, o, u, W, n), NEW j \in 1..n,
           NEW F, \A f \in F \cap AllFields : W[f] = j
    PROVE  Same(Updated(u[j], m), o, F)
<1>1. PICK M : M[0] = m /\ M[n] = o /\ Stages(M, u, W, n)
  BY DEF InStages
<1>2. j - 1 \in 0..n /\ j \notin 1..(j - 1) /\ j \notin (j + 1)..n /\ 0 + 1 = 1
  OBVIOUS
<1>3. Same(M[0], M[j - 1], F) /\ Same(M[j], M[n], F)
  <2>1. 0 \in 0..n /\ n \in j..n /\ j \in 0..n /\ j - 1 \in 0..n
    OBVIOUS
  <2> QED BY <1>1, <1>2, <2>1, StagesKeep
<1>4. M[j] = Updated(u[j], M[j - 1]) /\ Writes(u[j], StageFields(W, j))
  BY <1>1 DEF Stages
<1>5. Same(Updated(u[j], M[0]), M[j], F)
  BY <1>3, <1>4, SameUpdates
<1> QED BY <1>1, <1>3, <1>5, SameTwice

\* What stages leave in the fields F that none of them writes.
LEMMA StagesSpare ==
    ASSUME NEW m, NEW o, NEW u, NEW W, NEW n \in Nat, InStages(m, o, u, W, n),
           NEW F, \A f \in F \cap AllFields : W[f] = 0
    PROVE  Same(m, o, F)
<1>1. 0 \in 0..n /\ n \in 0..n /\ 0 \notin (0 + 1)..n
  OBVIOUS
<1> QED BY <1>1, StagesKeep DEF InStages

\* erase in stages: the marks leave the block, both lists and the chain close behind it, and
\* the counts change.
EraseUpdates(c, b, i) ==
    <<PutIf(Map.iDirtyTail = c, Root, "iDirtyTail", b.iSetPrev),
      PutIf(Map.iSyncTail = c, Root, "iSyncTail", b.iSetPrev),
      PutIf(Map.iBackupTail = c, Root, "iBackupTail", b.iGetPrev),
      Unlink(memory, SetList, c),
      Unlink(memory, GetList, c),
      PutIf(b.iBlockPrev # 0, At(b.iBlockPrev), "iBlockNext", b.iBlockNext),
      PutIf(b.iBlockNext # 0, At(b.iBlockNext), "iBlockPrev", b.iBlockPrev),
      PutIf(TRUE, Item(i), "iListCount", memory[Item(i)].iListCount + (-1)),
      PutIf(b.iBlockPrev = 0, Item(i), "iBlockAddr", b.iBlockNext),
      PutIf(b.bDirty, Root, "iDirtyCount", Map.iDirtyCount + (-1)),
      PutIf(b.bOnlyKey, Root, "iOnlyKeyCount", Map.iOnlyKeyCount + (-1)),
      PutIf(TRUE, Root, "iElementCount", Map.iElementCount + (-1))>>

EraseOrder == [f \in AllFields |->
    CASE f = "iDirtyTail" -> 1 [] f = "iSyncTail" -> 2 [] f = "iBackupTail" -> 3
      [] f \in SetFields -> 4 [] f \in GetFields -> 5 [] f = "iBlockNext" -> 6
      [] f = "iBlockPrev" -> 7 [] f = "iListCount" -> 8 [] f = "iBlockAddr" -> 9
      [] f = "iDirtyCount" -> 10 [] f = "iOnlyKeyCount" -> 11 [] f = "iElementCount" -> 12
      [] OTHER -> 0]

\* Which stage of erase writes a field.
LEMMA EraseOrders ==
    /\ "iDirtyTail" \in AllFields /\ EraseOrder["iDirtyTail"] = 1
    /\ "iSyncTail" \in AllFields /\ EraseOrder["iSyncTail"] = 2
    /\ "iBackupTail" \in AllFields /\ EraseOrder["iBackupTail"] = 3
    /\ SetFields \subseteq AllFields /\ \A f \in SetFields : EraseOrder[f] = 4
    /\ GetFields \subseteq AllFields /\ \A f \in GetFields : EraseOrder[f] = 5
    /\ "iBlockNext" \in AllFields /\ EraseOrder["iBlockNext"] = 6
    /\ "iBlockPrev" \in AllFields /\ EraseOrder["iBlockPrev"] = 7
    /\ "iListCount" \in AllFields /\ EraseOrder["iListCount"] = 8
    /\ "iBlockAddr" \in AllFields /\ EraseOrder["iBlockAddr"] = 9
    /\ "iDirtyCount" \in AllFields /\ EraseOrder["iDirtyCount"] = 10
    /\ "iOnlyKeyCount" \in AllFields /\ EraseOrder["iOnlyKeyCount"] = 11
    /\ "iElementCount" \in AllFields /\ EraseOrder["iElementCount"] = 12
BY DEF EraseOrder, AllFields, HeadFields, ItemFields, BlockFields, SetFields, GetFields

\* erase, stage by stage.
LEMMA EraseParts ==
    ASSUME NEW c, NEW o, o = Updated(erase(c), memory), NEW b, b = memory[At(c)],
           NEW i, i = b.iIndex
    PROVE  InStages(memory, o, EraseUpdates(c, b, i), EraseOrder, 12)
<1> DEFINE u == EraseUpdates(c, b, i)
           s2 == Then(u[1], u[2])
           s3 == Then(s2, u[3])
           s4 == Then(s3, u[4])
           s5 == Then(s4, u[5])
           s6 == Then(s5, u[6])
           s7 == Then(s6, u[7])
           s8 == Then(s7, u[8])
           s9 == Then(s8, u[9])
           s10 == Then(s9, u[10])
           s11 == Then(s10, u[11])
           s12 == Then(s11, u[12])
           C == <<u[1], s2, s3, s4, s5, s6, s7, s8, s9, s10, s11, s12>>
<1>1. erase(c) = s12
  <2>1. /\ u[8] = Add(Item(i), "iListCount", -1) /\ u[12] = Add(Root, "iElementCount", -1)
        /\ u[10] = If(b.bDirty, Add(Root, "iDirtyCount", -1))
        /\ u[11] = If(b.bOnlyKey, Add(Root, "iOnlyKeyCount", -1))
    BY DEF EraseUpdates, Add, Increase, PutIf, If, Map
  <2>2. /\ u[1] = Step(memory, "iDirtyTail", SetList, c) /\ u[2] = Step(memory, "iSyncTail", SetList, c)
        /\ u[3] = Step(memory, "iBackupTail", GetList, c)
    BY SetLinks DEF EraseUpdates, PutIf, Step, Map
  <2>3. /\ u[4] = Unlink(memory, SetList, c) /\ u[5] = Unlink(memory, GetList, c)
        /\ u[6] = PutIf(b.iBlockPrev # 0, At(b.iBlockPrev), "iBlockNext", b.iBlockNext)
        /\ u[7] = PutIf(b.iBlockNext # 0, At(b.iBlockNext), "iBlockPrev", b.iBlockPrev)
        /\ u[9] = PutIf(b.iBlockPrev = 0, Item(i), "iBlockAddr", b.iBlockNext)
    BY DEF EraseUpdates
  <2> HIDE DEF u
  <2> QED BY <2>1, <2>2, <2>3 DEF erase, Block, Then, PutIf
<1>2. ASSUME NEW j \in 1..12 PROVE Writes(u[j], StageFields(EraseOrder, j))
  <2>1. /\ Writes(u[1], StageFields(EraseOrder, 1)) /\ Writes(u[2], StageFields(EraseOrder, 2))
        /\ Writes(u[3], StageFields(EraseOrder, 3)) /\ Writes(u[6], StageFields(EraseOrder, 6))
        /\ Writes(u[7], StageFields(EraseOrder, 7)) /\ Writes(u[8], StageFields(EraseOrder, 8))
        /\ Writes(u[9], StageFields(EraseOrder, 9)) /\ Writes(u[10], StageFields(EraseOrder, 10))
        /\ Writes(u[11], StageFields(EraseOrder, 11)) /\ Writes(u[12], StageFields(EraseOrder, 12))
    BY StageOne, EraseOrders DEF EraseUpdates
  <2>2. Writes(u[4], StageFields(EraseOrder, 4)) /\ Writes(u[5], StageFields(EraseOrder, 5))
    <3>1. Writes(u[4], SetFields) /\ Writes(u[5], GetFields)
      BY UnlinkWrites, FieldsOfLists DEF EraseUpdates, ListFieldsOf
    <3> QED BY <3>1, EraseOrders, WritesMore DEF StageFields
  <2> HIDE DEF u
  <2> QED BY <2>1, <2>2
<1> HIDE DEF u
<1>3. /\ s3 = Then(s2, u[3]) /\ s4 = Then(s3, u[4]) /\ s5 = Then(s4, u[5]) /\ s6 = Then(s5, u[6]) /\ s7 = Then(s6, u[7])
      /\ s8 = Then(s7, u[8]) /\ s9 = Then(s8, u[9]) /\ s10 = Then(s9, u[10]) /\ s11 = Then(s10, u[11])
      /\ s12 = Then(s11, u[12]) /\ s2 = Then(u[1], u[2])
  BY Zenon
<1> HIDE DEF s2, s3, s4, s5, s6, s7, s8, s9, s10, s11, s12
<1>4. /\ C[1] = u[1] /\ C[2] = s2 /\ C[3] = s3 /\ C[4] = s4 /\ C[5] = s5 /\ C[6] = s6
      /\ C[7] = s7 /\ C[8] = s8 /\ C[9] = s9 /\ C[10] = s10 /\ C[11] = s11 /\ C[12] = s12
  OBVIOUS
<1> HIDE DEF C
<1>5. UpTo(C, u, 12)
  <2>1. ASSUME NEW j \in 1..12, j # 1 PROVE C[j] = Then(C[j - 1], u[j])
    <3>1. \/ j = 2 \/ j = 3 \/ j = 4 \/ j = 5 \/ j = 6 \/ j = 7 \/ j = 8 \/ j = 9 \/ j = 10
          \/ j = 11 \/ j = 12
      BY <2>1
    <3> QED BY ONLY <1>3, <1>4, <3>1
  <2> QED BY <1>4, <2>1 DEF UpTo
<1>6. InStages(memory, Updated(C[12], memory), u, EraseOrder, 12)
  <2>1. 12 \in Nat /\ 12 # 0 /\ Staged(u, EraseOrder, 12)
    BY <1>2 DEF Staged
  <2> QED BY ONLY <1>5, <2>1, StagesOf
<1> QED BY <1>1, <1>4, <1>6 DEF u

-----------------------------------------------------------------------------
(* The lists and the chains together                                       *)

Marks == {"iDirtyTail", "iSyncTail", "iBackupTail"}
ChainFields == {"iBlockAddr", "iBlockNext", "iBlockPrev", "iIndex"}

\* s is the list of the last set, g that of the last get, and h[i] the chain of bucket i.
Links(m, s, g, h) ==
    /\ Shape(m)
    /\ IsList(m, SetList, s) /\ IsList(m, GetList, g)
    /\ \A i \in Buckets : IsChain(m, i, h[i]) /\ \A c \in Range(h[i]) : m[At(c)].iIndex = i
    /\ Range(g) = Range(s)
    /\ \A c : c \in Range(s) <=> \E i \in Buckets : c \in Range(h[i])

\* The marks are on blocks of S or nowhere.
MarksOn(m, S) == \A mark \in Marks : m[Root][mark] \in S \cup {0}

\* The blocks of the chains.
LinkedIn(m) == UNION {Range(Follow(m, m[Item(i)].iBlockAddr, "iBlockNext")) : i \in Buckets}

\* A chain stays when the fields of chains do.
LEMMA ChainKept ==
    ASSUME NEW m, Shape(m), NEW n, NEW i \in Buckets, NEW s, IsChain(m, i, s),
           Same(m, n, {"iBlockAddr", "iBlockNext", "iBlockPrev"})
    PROVE  IsChain(n, i, s)
<1>1. IsPath(m, "iBlockNext", "iBlockPrev", s)
  BY DEF IsChain
<1>2. \A k \in 1..Len(s) : s[k] \in Cells
  BY <1>1, ElementOfSeq DEF IsPath
<1>3. \A c \in Cells : /\ n[At(c)].iBlockNext = m[At(c)].iBlockNext
                       /\ n[At(c)].iBlockPrev = m[At(c)].iBlockPrev
  BY DEF Shape, Same, BlockFields
<1>4. IsPath(n, "iBlockNext", "iBlockPrev", s)
  BY <1>1, <1>2, <1>3, PathKept
<1>5. n[Item(i)].iBlockAddr = m[Item(i)].iBlockAddr
  BY DEF Shape, Same, ItemFields
<1> QED BY <1>4, <1>5 DEF IsChain

\* Lists and chains stay when their fields do.
LEMMA LinksKept ==
    ASSUME HashMapAssumption, NEW m, NEW n, NEW s, NEW g, NEW h, Links(m, s, g, h),
           NEW F, Same(m, n, F), SetFields \cup GetFields \cup ChainFields \subseteq F
    PROVE  Links(n, s, g, h)
<1>1. Shape(m) /\ Shape(n)
  BY ShapeKept DEF Links
<1>2. Same(m, n, SetFields) /\ Same(m, n, GetFields) /\ Same(m, n, ChainFields)
  BY DEF Same
<1>3. IsList(n, SetList, s) /\ IsList(n, GetList, g)
  <2>1. /\ Same(m, n, {SetList.head, SetList.tail, SetList.next, SetList.prev})
        /\ Same(m, n, {GetList.head, GetList.tail, GetList.next, GetList.prev})
    BY <1>2, FieldsOfLists DEF ListFieldsOf
  <2> QED BY <1>1, <2>1, SetLinks, ListKept DEF Links
<1>4. ASSUME NEW i \in Buckets
      PROVE  IsChain(n, i, h[i]) /\ \A c \in Range(h[i]) : n[At(c)].iIndex = i
  <2>1. Same(m, n, {"iBlockAddr", "iBlockNext", "iBlockPrev"})
    BY <1>2 DEF Same, ChainFields
  <2>2. IsChain(m, i, h[i]) /\ \A c \in Range(h[i]) : m[At(c)].iIndex = i
    BY DEF Links
  <2>3. IsChain(n, i, h[i])
    BY <1>1, <2>1, <2>2, ChainKept
  <2>4. Range(h[i]) \subseteq Cells
    <3>1. IsPath(m, "iBlockNext", "iBlockPrev", h[i])
      BY <2>2 DEF IsChain
    <3> QED BY <3>1, PathFacts
  <2>5. \A c \in Cells : n[At(c)].iIndex = m[At(c)].iIndex
    BY <1>1, <1>2 DEF Same, Shape, BlockFields, ChainFields
  <2> QED BY <2>2, <2>3, <2>4, <2>5
<1>5. /\ Range(g) = Range(s)
      /\ \A c : c \in Range(s) <=> \E i \in Buckets : c \in Range(h[i])
  BY DEF Links
<1> QED BY <1>1, <1>3, <1>4, <1>5 DEF Links

\* What the links tell of the operators of HashMap and BlockLists.
LEMMA LinksFound ==
    ASSUME HashMapAssumption, NEW m, NEW s, NEW g, NEW h, Links(m, s, g, h)
    PROVE  /\ \A i \in Buckets : Follow(m, m[Item(i)].iBlockAddr, "iBlockNext") = h[i]
           /\ LinkedIn(m) = Range(s) /\ LinkedIn(m) = Range(g) /\ LinkedIn(m) \subseteq Cells
           /\ SoundList(m, SetList, LinkedIn(m)) /\ SoundList(m, GetList, LinkedIn(m))
<1>1. ASSUME NEW i \in Buckets
      PROVE  Follow(m, m[Item(i)].iBlockAddr, "iBlockNext") = h[i]
  <2>1. IsPath(m, "iBlockNext", "iBlockPrev", h[i]) /\ m[Item(i)].iBlockAddr = First(h[i])
    BY DEF Links, IsChain
  <2> QED BY <2>1, PathLeads, FollowLeads
<1>2. LinkedIn(m) = Range(s)
  BY <1>1 DEF LinkedIn, Links
<1>3. ASSUME NEW list, NEW t, IsList(m, list, t), Range(t) = Range(s)
      PROVE  SoundList(m, list, Range(s)) /\ Range(t) \subseteq Cells
  <2>1. /\ IsPath(m, list.next, list.prev, t)
        /\ m[Root][list.head] = First(t) /\ m[Root][list.tail] = Final(t)
    BY <1>3 DEF IsList
  <2>2. Follow(m, m[Root][list.head], list.next) = t
    BY <2>1, PathLeads, FollowLeads
  <2>3. Follow(m, m[Root][list.tail], list.prev) = Reverse(t)
    BY <2>1, PathLeadsBack, FollowLeads
  <2>4. IsInjective(t)
    BY <2>1 DEF IsPath
  <2>5. Range(t) \subseteq Cells
    BY <2>1, PathFacts
  <2> QED BY <1>3, <2>2, <2>3, <2>4, <2>5 DEF SoundList
<1>4. IsList(m, SetList, s) /\ IsList(m, GetList, g) /\ Range(g) = Range(s)
  BY DEF Links
<1> QED BY <1>1, <1>2, <1>3, <1>4

\* A block outside of a list, or of a chain, may change.
LEMMA ListApart ==
    ASSUME HashMapAssumption, NEW m, Shape(m), NEW list, IsLinks(list), NEW s, IsList(m, list, s),
           NEW c \in Cells, c \notin Range(s), NEW b
    PROVE  IsList([m EXCEPT ![At(c)] = b], list, s)
<1> DEFINE n == [m EXCEPT ![At(c)] = b]
<1>1. IsPath(m, list.next, list.prev, s)
  BY DEF IsList
<1>2. \A k \in 1..Len(s) : s[k] \in Cells /\ s[k] # c
  BY <1>1, PathFacts
<1>3. \A k \in 1..Len(s) : n[At(s[k])] = m[At(s[k])]
  BY <1>2, Addresses DEF Shape
<1>4. n[Root] = m[Root]
  BY Addresses DEF Shape
<1> HIDE DEF n
<1>5. IsPath(n, list.next, list.prev, s)
  BY <1>1, <1>3, PathKept
<1>6. IsList(n, list, s)
  BY <1>4, <1>5 DEF IsList
<1> QED BY <1>6 DEF n

\* A block outside of a chain does not matter to it.
LEMMA ChainApart ==
    ASSUME HashMapAssumption, NEW m, Shape(m), NEW i \in Buckets, NEW s, IsChain(m, i, s),
           NEW c \in Cells, c \notin Range(s), NEW b
    PROVE  IsChain([m EXCEPT ![At(c)] = b], i, s)
<1> DEFINE n == [m EXCEPT ![At(c)] = b]
<1>1. IsPath(m, "iBlockNext", "iBlockPrev", s)
  BY DEF IsChain
<1>2. \A k \in 1..Len(s) : s[k] \in Cells /\ s[k] # c
  BY <1>1, PathFacts
<1>3. \A k \in 1..Len(s) : n[At(s[k])] = m[At(s[k])]
  BY <1>2, Addresses DEF Shape
<1>4. n[Item(i)] = m[Item(i)]
  BY Addresses DEF Shape
<1> HIDE DEF n
<1>5. IsPath(n, "iBlockNext", "iBlockPrev", s)
  BY <1>1, <1>3, PathKept
<1>6. IsChain(n, i, s)
  BY <1>4, <1>5 DEF IsChain
<1> QED BY <1>6 DEF n

\* A record of a block may be replaced by another.
LEMMA ShapeApart ==
    ASSUME NEW m, Shape(m), NEW c \in Cells, NEW b, DOMAIN b = BlockFields
    PROVE  Shape([m EXCEPT ![At(c)] = b])
<1> DEFINE n == [m EXCEPT ![At(c)] = b]
<1>1. /\ DOMAIN n = DOMAIN m /\ n[Root] = m[Root]
      /\ \A i \in Buckets : n[Item(i)] = m[Item(i)]
      /\ \A d \in Cells : n[At(d)] = IF d = c THEN b ELSE m[At(d)]
  BY Addresses DEF Shape
<1> HIDE DEF n
<1>2. Shape(n)
  BY <1>1 DEF Shape
<1> QED BY <1>2 DEF n

Contents == {"bDirty", "bOnlyKey", "chunks", "key", "data"}

\* What erase leaves in each field, but in those of the two lists.
EraseReads(m, o, c) ==
    LET b == m[At(c)]
        i == b.iIndex
    IN  /\ Same(m, o, Contents \cup {"iIndex"})
        /\ \A d \in Cells :
             /\ o[At(d)].iBlockNext = IF b.iBlockPrev # 0 /\ d = b.iBlockPrev THEN b.iBlockNext
                                      ELSE m[At(d)].iBlockNext
             /\ o[At(d)].iBlockPrev = IF b.iBlockNext # 0 /\ d = b.iBlockNext THEN b.iBlockPrev
                                      ELSE m[At(d)].iBlockPrev
        /\ \A j \in Buckets :
             /\ o[Item(j)].iBlockAddr = IF b.iBlockPrev = 0 /\ j = i THEN b.iBlockNext
                                        ELSE m[Item(j)].iBlockAddr
             /\ o[Item(j)].iListCount = m[Item(j)].iListCount + IF j = i THEN -1 ELSE 0
        /\ o[Root].iDirtyTail = IF m[Root].iDirtyTail = c THEN b.iSetPrev ELSE m[Root].iDirtyTail
        /\ o[Root].iSyncTail = IF m[Root].iSyncTail = c THEN b.iSetPrev ELSE m[Root].iSyncTail
        /\ o[Root].iBackupTail = IF m[Root].iBackupTail = c THEN b.iGetPrev ELSE m[Root].iBackupTail
        /\ o[Root].iDirtyCount = IF b.bDirty THEN m[Root].iDirtyCount + (-1) ELSE m[Root].iDirtyCount
        /\ o[Root].iOnlyKeyCount = IF b.bOnlyKey THEN m[Root].iOnlyKeyCount + (-1)
                                   ELSE m[Root].iOnlyKeyCount
        /\ o[Root].iElementCount = m[Root].iElementCount + (-1)

\* What the updates of erase do to each field.
LEMMA EraseFields ==
    ASSUME Shape(memory), NEW c \in Cells, NEW o, o = Updated(erase(c), memory),
           NEW b, b = memory[At(c)], NEW i \in Buckets, i = b.iIndex,
           \A j \in Buckets : memory[Item(j)].iListCount \in Int
    PROVE  /\ Shape(o)
           /\ Same(Updated(Unlink(memory, SetList, c), memory), o, SetFields)
           /\ Same(Updated(Unlink(memory, GetList, c), memory), o, GetFields)
           /\ EraseReads(memory, o, c)
<1> DEFINE u == EraseUpdates(c, b, i)
           W == EraseOrder
<1>1. InStages(memory, o, u, W, 12)
  BY EraseParts
<1>2. /\ u[4] = Unlink(memory, SetList, c) /\ u[5] = Unlink(memory, GetList, c)
      /\ u[1] = PutIf(Map.iDirtyTail = c, Root, "iDirtyTail", b.iSetPrev)
      /\ u[2] = PutIf(Map.iSyncTail = c, Root, "iSyncTail", b.iSetPrev)
      /\ u[3] = PutIf(Map.iBackupTail = c, Root, "iBackupTail", b.iGetPrev)
      /\ u[6] = PutIf(b.iBlockPrev # 0, At(b.iBlockPrev), "iBlockNext", b.iBlockNext)
      /\ u[7] = PutIf(b.iBlockNext # 0, At(b.iBlockNext), "iBlockPrev", b.iBlockPrev)
      /\ u[8] = PutIf(TRUE, Item(i), "iListCount", memory[Item(i)].iListCount + (-1))
      /\ u[9] = PutIf(b.iBlockPrev = 0, Item(i), "iBlockAddr", b.iBlockNext)
      /\ u[10] = PutIf(b.bDirty, Root, "iDirtyCount", Map.iDirtyCount + (-1))
      /\ u[11] = PutIf(b.bOnlyKey, Root, "iOnlyKeyCount", Map.iOnlyKeyCount + (-1))
      /\ u[12] = PutIf(TRUE, Root, "iElementCount", Map.iElementCount + (-1))
  BY DEF EraseUpdates
<1> HIDE DEF u, W
<1>3. /\ Same(Updated(Unlink(memory, SetList, c), memory), o, SetFields)
      /\ Same(Updated(Unlink(memory, GetList, c), memory), o, GetFields)
  BY <1>1, <1>2, EraseOrders, StagesLeave DEF W
<1>4. Same(memory, o, {}) /\ Same(memory, o, Contents \cup {"iIndex"})
  <2>1. \A f \in (Contents \cup {"iIndex"}) \cap AllFields : W[f] = 0
    BY DEF Contents, W, EraseOrder, SetFields, GetFields
  <2> QED BY <1>1, <2>1, StagesSpare
<1>5. Shape(o)
  BY <1>4, ShapeKept
<1>6. /\ Alters(memory, o, "iDirtyTail", u[1]) /\ Alters(memory, o, "iSyncTail", u[2])
      /\ Alters(memory, o, "iBackupTail", u[3]) /\ Alters(memory, o, "iBlockNext", u[6])
      /\ Alters(memory, o, "iBlockPrev", u[7]) /\ Alters(memory, o, "iListCount", u[8])
      /\ Alters(memory, o, "iBlockAddr", u[9]) /\ Alters(memory, o, "iDirtyCount", u[10])
      /\ Alters(memory, o, "iOnlyKeyCount", u[11]) /\ Alters(memory, o, "iElementCount", u[12])
  BY ONLY <1>1, EraseOrders, StagesRead DEF W
<1>7. /\ Reads(memory, o, Map.iDirtyTail = c, Root, "iDirtyTail", b.iSetPrev)
      /\ Reads(memory, o, Map.iSyncTail = c, Root, "iSyncTail", b.iSetPrev)
      /\ Reads(memory, o, Map.iBackupTail = c, Root, "iBackupTail", b.iGetPrev)
  BY ONLY <1>2, <1>6 DEF Alters
<1>8. /\ Reads(memory, o, b.iBlockPrev # 0, At(b.iBlockPrev), "iBlockNext", b.iBlockNext)
      /\ Reads(memory, o, b.iBlockNext # 0, At(b.iBlockNext), "iBlockPrev", b.iBlockPrev)
      /\ Reads(memory, o, TRUE, Item(i), "iListCount", memory[Item(i)].iListCount + (-1))
      /\ Reads(memory, o, b.iBlockPrev = 0, Item(i), "iBlockAddr", b.iBlockNext)
  BY ONLY <1>2, <1>6 DEF Alters
<1>9. /\ Reads(memory, o, b.bDirty, Root, "iDirtyCount", Map.iDirtyCount + (-1))
      /\ Reads(memory, o, b.bOnlyKey, Root, "iOnlyKeyCount", Map.iOnlyKeyCount + (-1))
      /\ Reads(memory, o, TRUE, Root, "iElementCount", Map.iElementCount + (-1))
  BY ONLY <1>2, <1>6 DEF Alters
<1>10. /\ Root \in DOMAIN memory /\ DOMAIN memory[Root] = HeadFields
       /\ \A d \in Cells : At(d) \in DOMAIN memory /\ DOMAIN memory[At(d)] = BlockFields
       /\ \A j \in Buckets : Item(j) \in DOMAIN memory /\ DOMAIN memory[Item(j)] = ItemFields
  BY DEF Shape
<1>11. ASSUME NEW d \in Cells
       PROVE  /\ o[At(d)].iBlockNext = IF b.iBlockPrev # 0 /\ d = b.iBlockPrev THEN b.iBlockNext
                                       ELSE memory[At(d)].iBlockNext
              /\ o[At(d)].iBlockPrev = IF b.iBlockNext # 0 /\ d = b.iBlockNext THEN b.iBlockPrev
                                       ELSE memory[At(d)].iBlockPrev
  BY ONLY <1>8, <1>10, Addresses DEF Reads, BlockFields
<1>12. ASSUME NEW j \in Buckets
       PROVE  /\ o[Item(j)].iBlockAddr = IF b.iBlockPrev = 0 /\ j = i THEN b.iBlockNext
                                         ELSE memory[Item(j)].iBlockAddr
              /\ o[Item(j)].iListCount = memory[Item(j)].iListCount + IF j = i THEN -1 ELSE 0
  <2>1. o[Item(j)].iBlockAddr = IF b.iBlockPrev = 0 /\ j = i THEN b.iBlockNext
                                ELSE memory[Item(j)].iBlockAddr
    BY ONLY <1>8, <1>10, Addresses DEF Reads, ItemFields
  <2>2. o[Item(j)].iListCount = IF j = i THEN memory[Item(i)].iListCount + (-1)
                                ELSE memory[Item(j)].iListCount
    BY ONLY <1>8, <1>10, Addresses DEF Reads, ItemFields
  <2>3. o[Item(j)].iListCount = memory[Item(j)].iListCount + IF j = i THEN -1 ELSE 0
    BY <2>2
  <2> QED BY <2>1, <2>3
<1>13. /\ o[Root].iDirtyTail = IF Map.iDirtyTail = c THEN b.iSetPrev ELSE memory[Root].iDirtyTail
       /\ o[Root].iSyncTail = IF Map.iSyncTail = c THEN b.iSetPrev ELSE memory[Root].iSyncTail
       /\ o[Root].iBackupTail = IF Map.iBackupTail = c THEN b.iGetPrev ELSE memory[Root].iBackupTail
  BY ONLY <1>7, <1>10 DEF Reads, HeadFields
<1>14. /\ o[Root].iDirtyCount = IF b.bDirty THEN Map.iDirtyCount + (-1) ELSE memory[Root].iDirtyCount
       /\ o[Root].iOnlyKeyCount = IF b.bOnlyKey THEN Map.iOnlyKeyCount + (-1)
                                  ELSE memory[Root].iOnlyKeyCount
       /\ o[Root].iElementCount = Map.iElementCount + (-1)
  BY ONLY <1>9, <1>10 DEF Reads, HeadFields
<1>15. EraseReads(memory, o, c)
  BY ONLY <1>4, <1>11, <1>12, <1>13, <1>14, b = memory[At(c)], i = b.iIndex DEF EraseReads, Map
<1> QED BY <1>3, <1>5, <1>15

\* What is in the fields of the memory.
Typed(m) ==
    /\ Shape(m)
    /\ \A f \in {"iDirtyCount", "iElementCount", "iOnlyKeyCount"} : m[Root][f] \in Int
    /\ \A i \in Buckets : m[Item(i)].iListCount \in Int
    /\ \A c \in Cells : /\ m[At(c)].bDirty \in BOOLEAN /\ m[At(c)].bOnlyKey \in BOOLEAN
                        /\ m[At(c)].key \in Keys \cup {NoKey}
                        /\ m[At(c)].data \in {"whole", "empty", "zero", "torn", "wild"}
                        /\ m[At(c)].chunks \in Seq(Cells)

\* A block of a path is linked to blocks of it or to none, never to itself.
LEMMA PathNeighbours ==
    ASSUME HashMapAssumption, NEW m, NEW next, NEW prev, NEW s, IsPath(m, next, prev, s),
           NEW k \in 1..Len(s)
    PROVE  /\ m[At(s[k])][next] \in (Range(s) \ {s[k]}) \cup {0}
           /\ m[At(s[k])][prev] \in (Range(s) \ {s[k]}) \cup {0}
<1>1. /\ Len(s) \in Nat /\ Range(s) = {s[n] : n \in 1..Len(s)}
      /\ \A i, j \in 1..Len(s) : s[i] = s[j] => i = j
  BY PathFacts
<1>2. /\ m[At(s[k])][next] = IF k = Len(s) THEN 0 ELSE s[k + 1]
      /\ m[At(s[k])][prev] = IF k = 1 THEN 0 ELSE s[k - 1]
  BY DEF IsPath
<1>3. k # Len(s) => k + 1 \in 1..Len(s) /\ k + 1 # k
  BY <1>1
<1>4. k # 1 => k - 1 \in 1..Len(s) /\ k - 1 # k
  BY <1>1
<1> QED BY <1>1, <1>2, <1>3, <1>4

\* A block of the lists is in one chain, that of its index.
LEMMA ChainOf ==
    ASSUME HashMapAssumption, NEW m, NEW s, NEW g, NEW h, Links(m, s, g, h), NEW c \in Range(s)
    PROVE  /\ c \in Cells /\ m[At(c)].iIndex \in Buckets
           /\ c \in Range(h[m[At(c)].iIndex])
           /\ \A i, j \in Buckets : i # j => Range(h[i]) \cap Range(h[j]) = {}
           /\ \A i \in Buckets : IsChain(m, i, h[i]) /\ Range(h[i]) \subseteq Cells
<1>1. PICK i \in Buckets : c \in Range(h[i])
  BY DEF Links
<1>2. m[At(c)].iIndex = i
  BY <1>1 DEF Links
<1>3. \A j \in Buckets : IsChain(m, j, h[j]) /\ Range(h[j]) \subseteq Cells
  BY PathFacts DEF Links, IsChain
<1>4. \A j, q \in Buckets : j # q => Range(h[j]) \cap Range(h[q]) = {}
  BY DEF Links
<1> QED BY <1>1, <1>2, <1>3, <1>4

\* erase takes the block out of both lists and of its chain.
LEMMA EraseEffect ==
    ASSUME HashMapAssumption, NEW s, NEW g, NEW h, Links(memory, s, g, h), Typed(memory),
           NEW k \in 1..Len(s), NEW j \in 1..Len(g), NEW c, c = s[k], c = g[j],
           NEW o, o = Updated(erase(c), memory), NEW n, n = [o EXCEPT ![At(c)] = Blank]
    PROVE  /\ \E r : Links(n, Without(s, k), Without(g, j), r)
           /\ EraseReads(memory, o, c)
           /\ Shape(o) /\ c \in Cells
<1> DEFINE b == memory[At(c)]
           i == b.iIndex
<1>1. Shape(memory) /\ IsList(memory, SetList, s) /\ IsList(memory, GetList, g)
  BY DEF Links
<1>2. IsInjective(s) /\ IsInjective(g) /\ s \in Seq(Cells) /\ g \in Seq(Cells)
  BY <1>1 DEF IsList, IsPath
<1>3. c \in Range(s)
  BY <1>2, LenProperties DEF Range
<1>4. /\ c \in Cells /\ i \in Buckets /\ c \in Range(h[i])
      /\ \A p, q \in Buckets : p # q => Range(h[p]) \cap Range(h[q]) = {}
      /\ \A q \in Buckets : IsChain(memory, q, h[q]) /\ Range(h[q]) \subseteq Cells
  BY <1>3, ChainOf
<1>5. /\ Shape(o)
      /\ Same(Updated(Unlink(memory, SetList, c), memory), o, SetFields)
      /\ Same(Updated(Unlink(memory, GetList, c), memory), o, GetFields)
      /\ EraseReads(memory, o, c)
  <2>1. \A q \in Buckets : memory[Item(q)].iListCount \in Int
    BY DEF Typed
  <2> QED BY <1>1, <1>4, <2>1, EraseFields
<1>6. IsList(o, SetList, Without(s, k))
  <2> DEFINE p == Updated(Unlink(memory, SetList, c), memory)
  <2>1. IsList(p, SetList, Without(s, k))
    BY <1>1, SetLinks, UnlinkEffect
  <2>2. Shape(p)
    BY <1>1, UnlinkWrites, ShapeUpdated
  <2>3. Same(p, o, {SetList.head, SetList.tail, SetList.next, SetList.prev})
    BY <1>5, FieldsOfLists DEF ListFieldsOf
  <2> HIDE DEF p
  <2> QED BY <2>1, <2>2, <2>3, SetLinks, ListKept
<1>7. IsList(o, GetList, Without(g, j))
  <2> DEFINE p == Updated(Unlink(memory, GetList, c), memory)
  <2>1. IsList(p, GetList, Without(g, j))
    BY <1>1, SetLinks, UnlinkEffect
  <2>2. Shape(p)
    BY <1>1, UnlinkWrites, ShapeUpdated
  <2>3. Same(p, o, {GetList.head, GetList.tail, GetList.next, GetList.prev})
    BY <1>5, FieldsOfLists DEF ListFieldsOf
  <2> HIDE DEF p
  <2> QED BY <2>1, <2>2, <2>3, SetLinks, ListKept
<1>8. PICK l \in 1..Len(h[i]) : h[i][l] = c
  BY <1>4, PathFacts DEF IsChain
<1> DEFINE r == [q \in Buckets |-> IF q = i THEN Without(h[i], l) ELSE h[q]]
<1>9. IsChain(o, i, Without(h[i], l)) /\ \A q \in Buckets : q # i => IsChain(o, q, h[q])
  <2> DEFINE prev == b.iBlockPrev
             next == b.iBlockNext
  <2>1. Closed(memory, o, i, prev, next)
    BY <1>5 DEF EraseReads, Closed
  <2>2. prev = memory[At(h[i][l])].iBlockPrev /\ next = memory[At(h[i][l])].iBlockNext
    BY <1>8
  <2> DEFINE u == h[i]
  <2>3. IsChain(memory, i, u) /\ l \in 1..Len(u) /\ i \in Buckets
    BY <1>4, <1>8
  <2>4. prev = memory[At(u[l])].iBlockPrev /\ next = memory[At(u[l])].iBlockNext
    BY <2>2
  <2> HIDE DEF prev, next, i, b, u
  <2>5. /\ IsChain(o, i, Without(u, l))
        /\ \A q \in Buckets : \A t : q # i /\ IsChain(memory, q, t) /\ Range(t) \cap Range(u) = {}
             => IsChain(o, q, t)
    BY ONLY <2>1, <2>3, <2>4, HashMapAssumption, ChainRemoved
  <2> QED BY <1>4, <2>5 DEF u
<1>10. /\ Range(Without(s, k)) = Range(s) \ {c} /\ Range(Without(g, j)) = Range(g) \ {c}
       /\ Range(Without(h[i], l)) = Range(h[i]) \ {c}
  <2>1. h[i] \in Seq(Cells) /\ IsInjective(h[i])
    BY <1>4 DEF IsChain, IsPath
  <2>2. Range(Without(h[i], l)) = Range(h[i]) \ {c}
    BY ONLY <1>8, <2>1, WithoutRange
  <2>3. Range(Without(s, k)) = Range(s) \ {c}
    BY ONLY <1>2, k \in 1..Len(s), c = s[k], WithoutRange
  <2>4. Range(Without(g, j)) = Range(g) \ {c}
    BY ONLY <1>2, j \in 1..Len(g), c = g[j], WithoutRange
  <2> QED BY ONLY <2>2, <2>3, <2>4
<1>11. \A q \in Buckets : IsChain(o, q, r[q]) /\ Range(r[q]) = Range(h[q]) \ {c}
  BY <1>4, <1>9, <1>10
<1>12. Shape(n) /\ IsList(n, SetList, Without(s, k)) /\ IsList(n, GetList, Without(g, j))
  <2>1. DOMAIN Blank = BlockFields
    BY DEF Blank, NewBlock, BlockFields
  <2> QED BY <1>4, <1>5, <1>6, <1>7, <1>10, <2>1, SetLinks, ShapeApart, ListApart
<1>13. \A q \in Buckets : IsChain(n, q, r[q])
  BY <1>4, <1>5, <1>11, ChainApart
<1>14. \A q \in Buckets : \A d \in Range(r[q]) : n[At(d)].iIndex = q
  <2> SUFFICES ASSUME NEW q \in Buckets, NEW d \in Range(r[q]) PROVE n[At(d)].iIndex = q
    OBVIOUS
  <2>1. d \in Range(h[q]) /\ d \in Cells /\ d # c
    BY <1>4, <1>11
  <2>2. n[At(d)] = o[At(d)]
    BY <1>5, <2>1, Addresses DEF Shape
  <2>3. o[At(d)].iIndex = memory[At(d)].iIndex
    BY <1>1, <1>5, <2>1 DEF EraseReads, Same, Shape, BlockFields
  <2>4. memory[At(d)].iIndex = q
    BY <2>1 DEF Links
  <2> QED BY <2>2, <2>3, <2>4
<1>15. Range(Without(g, j)) = Range(Without(s, k))
  BY <1>10 DEF Links
<1>16. \A d : d \in Range(Without(s, k)) <=> \E q \in Buckets : d \in Range(r[q])
  BY <1>10, <1>11 DEF Links
<1> HIDE DEF r
<1>17. Links(n, Without(s, k), Without(g, j), r)
  BY <1>12, <1>13, <1>14, <1>15, <1>16 DEF Links
<1> QED BY <1>4, <1>5, <1>17

\* makeNew in stages: the counts change, and the block comes first in the chain of its bucket
\* and in both lists.
MakeUpdates(c, i, first) ==
    <<PutIf(TRUE, Root, "iDirtyCount", Map.iDirtyCount + 1),
      PutIf(TRUE, Root, "iElementCount", Map.iElementCount + 1),
      PutIf(TRUE, Item(i), "iListCount", memory[Item(i)].iListCount + 1),
      PutIf(first # 0, At(first), "iBlockPrev", c),
      PutIf(TRUE, At(c), "iBlockNext", first),
      PutIf(TRUE, Item(i), "iBlockAddr", c),
      Insert(memory, SetList, c),
      Insert(memory, GetList, c)>>

MakeOrder == [f \in AllFields |->
    CASE f = "iDirtyCount" -> 1 [] f = "iElementCount" -> 2 [] f = "iListCount" -> 3
      [] f = "iBlockPrev" -> 4 [] f = "iBlockNext" -> 5 [] f = "iBlockAddr" -> 6
      [] f \in SetFields -> 7 [] f \in GetFields -> 8 [] OTHER -> 0]

\* Which stage of makeNew writes a field.
LEMMA MakeOrders ==
    /\ "iDirtyCount" \in AllFields /\ MakeOrder["iDirtyCount"] = 1
    /\ "iElementCount" \in AllFields /\ MakeOrder["iElementCount"] = 2
    /\ "iListCount" \in AllFields /\ MakeOrder["iListCount"] = 3
    /\ "iBlockPrev" \in AllFields /\ MakeOrder["iBlockPrev"] = 4
    /\ "iBlockNext" \in AllFields /\ MakeOrder["iBlockNext"] = 5
    /\ "iBlockAddr" \in AllFields /\ MakeOrder["iBlockAddr"] = 6
    /\ SetFields \subseteq AllFields /\ \A f \in SetFields : MakeOrder[f] = 7
    /\ GetFields \subseteq AllFields /\ \A f \in GetFields : MakeOrder[f] = 8
BY DEF MakeOrder, AllFields, HeadFields, ItemFields, BlockFields, SetFields, GetFields

\* A sequence of one element and another.
LEMMA OneAndOne == ASSUME NEW v, NEW w PROVE <<v>> \o <<w>> = <<v, w>>
<1> DEFINE s == <<v>>
           r == <<w>>
           t == <<v, w>>
           S == {v, w}
<1>1. /\ s \in Seq(S) /\ Len(s) = 1 /\ s[1] = v /\ r \in Seq(S) /\ Len(r) = 1 /\ r[1] = w
      /\ t \in Seq(S) /\ Len(t) = 2 /\ t[1] = v /\ t[2] = w
  OBVIOUS
<1> DEFINE q == s \o r
<1> HIDE DEF s, r, t, S
<1>2. /\ q \in Seq(S) /\ Len(q) = Len(s) + Len(r)
      /\ \A k \in 1..Len(s) + Len(r) : q[k] = IF k <= Len(s) THEN s[k] ELSE r[k - Len(s)]
  BY <1>1, ConcatProperties
<1> HIDE DEF q
<1>3. Len(q) = 2 /\ \A k \in 1..2 : q[k] = t[k]
  BY <1>1, <1>2
<1>4. q = t
  BY <1>1, <1>2, <1>3, SeqEqual
<1> QED BY <1>4 DEF q, s, r, t

\* makeNew, stage by stage.
LEMMA MakeParts ==
    ASSUME NEW c, NEW i, NEW m, NEW o, o = Updated(makeNew(c, i), m),
           NEW first, first = memory[Item(i)].iBlockAddr
    PROVE  InStages(m, o, MakeUpdates(c, i, first), MakeOrder, 8)
<1> DEFINE u == MakeUpdates(c, i, first)
           v == Put(At(c), "iBlockNext", first)
           w == Put(Item(i), "iBlockAddr", c)
           s2 == Then(u[1], u[2])
           s3 == Then(s2, u[3])
           s4 == Then(s3, u[4])
           s5 == Then(s4, u[5])
           s6 == Then(s5, u[6])
           s7 == Then(s6, u[7])
           s8 == Then(s7, u[8])
           C == <<u[1], s2, s3, s4, s5, s6, s7, s8>>
<1>1. ASSUME NEW j \in 1..8 PROVE Writes(u[j], StageFields(MakeOrder, j))
  <2>1. /\ Writes(u[1], StageFields(MakeOrder, 1)) /\ Writes(u[2], StageFields(MakeOrder, 2))
        /\ Writes(u[3], StageFields(MakeOrder, 3)) /\ Writes(u[4], StageFields(MakeOrder, 4))
        /\ Writes(u[5], StageFields(MakeOrder, 5)) /\ Writes(u[6], StageFields(MakeOrder, 6))
    BY StageOne, MakeOrders DEF MakeUpdates
  <2>2. Writes(u[7], StageFields(MakeOrder, 7)) /\ Writes(u[8], StageFields(MakeOrder, 8))
    <3>1. Writes(u[7], SetFields) /\ Writes(u[8], GetFields)
      BY InsertWrites, FieldsOfLists DEF MakeUpdates, ListFieldsOf
    <3> QED BY <3>1, MakeOrders, WritesMore DEF StageFields
  <2> HIDE DEF u
  <2> QED BY <2>1, <2>2
<1>2. makeNew(c, i) = s8
  <2>1. /\ u[1] = Add(Root, "iDirtyCount", 1) /\ u[2] = Add(Root, "iElementCount", 1)
        /\ u[3] = Add(Item(i), "iListCount", 1)
        /\ u[4] = PutIf(first # 0, At(first), "iBlockPrev", c)
        /\ u[7] = Insert(memory, SetList, c) /\ u[8] = Insert(memory, GetList, c)
    BY DEF MakeUpdates, Add, Increase, PutIf, If, Map
  <2>2. u[5] = <<v>> /\ u[6] = <<w>>
    BY DEF MakeUpdates, PutIf, If
  <2>3. /\ Writes(u[1], AllFields) /\ Writes(u[2], AllFields) /\ Writes(u[3], AllFields)
        /\ Writes(u[4], AllFields)
    BY <1>1, WritesMore DEF StageFields
  <2> HIDE DEF u, v, w
  <2>4. Writes(s4, AllFields)
    BY <2>3, WritesConcat DEF Then
  <2> HIDE DEF s4
  <2>5. s6 = s4 \o <<v, w>>
    <3> DEFINE X == Range(s4) \cup {v, w}
    <3>1. s4 \in Seq(X) /\ <<v>> \in Seq(X) /\ <<w>> \in Seq(X)
      BY <2>4, SeqMonotonic DEF Writes
    <3>2. s6 = (s4 \o <<v>>) \o <<w>>
      BY <2>2, Zenon DEF Then
    <3>3. <<v>> \o <<w>> = <<v, w>>
      BY OneAndOne
    <3> HIDE DEF s6, X
    <3>4. (s4 \o <<v>>) \o <<w>> = s4 \o (<<v>> \o <<w>>)
      BY ONLY <3>1, ConcatAssociative
    <3> QED BY ONLY <3>2, <3>3, <3>4, Zenon
  <2>6. makeNew(c, i) = s4 \o <<v, w>> \o u[7] \o u[8]
    BY <2>1, Zenon DEF makeNew, s4, v, w, Then, PutIf
  <2> QED BY <2>5, <2>6, Zenon DEF Then
<1> HIDE DEF u
<1>3. /\ s3 = Then(s2, u[3]) /\ s4 = Then(s3, u[4]) /\ s5 = Then(s4, u[5]) /\ s6 = Then(s5, u[6]) /\ s7 = Then(s6, u[7])
      /\ s8 = Then(s7, u[8]) /\ s2 = Then(u[1], u[2])
  BY Zenon
<1> HIDE DEF s2, s3, s4, s5, s6, s7, s8
<1>4. /\ C[1] = u[1] /\ C[2] = s2 /\ C[3] = s3 /\ C[4] = s4 /\ C[5] = s5 /\ C[6] = s6
      /\ C[7] = s7 /\ C[8] = s8
  OBVIOUS
<1> HIDE DEF C
<1>5. UpTo(C, u, 8)
  <2>1. ASSUME NEW j \in 1..8, j # 1 PROVE C[j] = Then(C[j - 1], u[j])
    <3>1. j = 2 \/ j = 3 \/ j = 4 \/ j = 5 \/ j = 6 \/ j = 7 \/ j = 8
      BY <2>1
    <3> QED BY ONLY <1>3, <1>4, <3>1
  <2> QED BY <1>4, <2>1 DEF UpTo
<1>6. InStages(m, Updated(C[8], m), u, MakeOrder, 8)
  <2>1. 8 \in Nat /\ 8 # 0 /\ Staged(u, MakeOrder, 8)
    BY <1>1 DEF Staged
  <2> QED BY ONLY <1>5, <2>1, StagesOf
<1> QED BY <1>2, <1>4, <1>6 DEF u

\* What makeNew leaves in each field, but in those of the two lists.
MakeReads(m, o, c, i) ==
    /\ Same(m, o, Contents \cup {"iIndex"} \cup Marks)
    /\ Opened(m, o, i, c, m[Item(i)].iBlockAddr)
    /\ \A j \in Buckets : o[Item(j)].iListCount = m[Item(j)].iListCount + IF j = i THEN 1 ELSE 0
    /\ o[Root].iDirtyCount = m[Root].iDirtyCount + 1
    /\ o[Root].iElementCount = m[Root].iElementCount + 1
    /\ o[Root].iOnlyKeyCount = m[Root].iOnlyKeyCount

\* What the updates of makeNew do to each field.
LEMMA MakeFields ==
    ASSUME Shape(memory), NEW c \in Cells, NEW i \in Buckets, NEW m, Shape(m),
           \A a \in DOMAIN m : a # At(c) => m[a] = memory[a],
           NEW o, o = Updated(makeNew(c, i), m),
           \A j \in Buckets : memory[Item(j)].iListCount \in Int
    PROVE  /\ Shape(o)
           /\ Same(Updated(Insert(m, SetList, c), m), o, SetFields)
           /\ Same(Updated(Insert(m, GetList, c), m), o, GetFields)
           /\ MakeReads(m, o, c, i)
<1> DEFINE first == m[Item(i)].iBlockAddr
           u == MakeUpdates(c, i, first)
           W == MakeOrder
<1>1. m[Root] = memory[Root] /\ \A j \in Buckets : m[Item(j)] = memory[Item(j)]
  BY Addresses DEF Shape
<1>2. InStages(m, o, u, W, 8)
  <2>1. first = memory[Item(i)].iBlockAddr
    BY <1>1
  <2> HIDE DEF first
  <2> QED BY <2>1, MakeParts
<1> HIDE DEF first
<1>3. /\ u[1] = PutIf(TRUE, Root, "iDirtyCount", Map.iDirtyCount + 1)
      /\ u[2] = PutIf(TRUE, Root, "iElementCount", Map.iElementCount + 1)
      /\ u[3] = PutIf(TRUE, Item(i), "iListCount", memory[Item(i)].iListCount + 1)
      /\ u[4] = PutIf(first # 0, At(first), "iBlockPrev", c)
      /\ u[5] = PutIf(TRUE, At(c), "iBlockNext", first)
      /\ u[6] = PutIf(TRUE, Item(i), "iBlockAddr", c)
      /\ u[7] = Insert(m, SetList, c) /\ u[8] = Insert(m, GetList, c)
  BY <1>1 DEF MakeUpdates, Insert
<1> HIDE DEF u, W
<1>4. /\ Same(Updated(Insert(m, SetList, c), m), o, SetFields)
      /\ Same(Updated(Insert(m, GetList, c), m), o, GetFields)
  BY ONLY <1>2, <1>3, MakeOrders, StagesLeave DEF W
<1>5. Same(m, o, {}) /\ Same(m, o, Contents \cup {"iIndex", "iOnlyKeyCount"} \cup Marks)
  <2>1. \A f \in (Contents \cup {"iIndex", "iOnlyKeyCount"} \cup Marks) \cap AllFields : W[f] = 0
    BY DEF Contents, Marks, W, MakeOrder, SetFields, GetFields
  <2> QED BY ONLY <1>2, <2>1, StagesSpare
<1>6. Shape(o)
  BY <1>5, ShapeKept
<1>7. /\ Alters(m, o, "iDirtyCount", u[1]) /\ Alters(m, o, "iElementCount", u[2])
      /\ Alters(m, o, "iListCount", u[3]) /\ Alters(m, o, "iBlockPrev", u[4])
      /\ Alters(m, o, "iBlockNext", u[5]) /\ Alters(m, o, "iBlockAddr", u[6])
  BY ONLY <1>2, MakeOrders, StagesRead DEF W
<1>8. /\ Reads(m, o, TRUE, Root, "iDirtyCount", Map.iDirtyCount + 1)
      /\ Reads(m, o, TRUE, Root, "iElementCount", Map.iElementCount + 1)
      /\ Reads(m, o, TRUE, Item(i), "iListCount", memory[Item(i)].iListCount + 1)
      /\ Reads(m, o, first # 0, At(first), "iBlockPrev", c)
      /\ Reads(m, o, TRUE, At(c), "iBlockNext", first)
      /\ Reads(m, o, TRUE, Item(i), "iBlockAddr", c)
  BY ONLY <1>3, <1>7 DEF Alters
<1>9. /\ Root \in DOMAIN m /\ DOMAIN m[Root] = HeadFields
       /\ \A d \in Cells : At(d) \in DOMAIN m /\ DOMAIN m[At(d)] = BlockFields
       /\ \A j \in Buckets : Item(j) \in DOMAIN m /\ DOMAIN m[Item(j)] = ItemFields
  BY DEF Shape
<1>10. Opened(m, o, i, c, first)
  <2>1. ASSUME NEW d \in Cells
        PROVE  /\ o[At(d)].iBlockNext = IF d = c THEN first ELSE m[At(d)].iBlockNext
               /\ o[At(d)].iBlockPrev = IF first # 0 /\ d = first THEN c ELSE m[At(d)].iBlockPrev
    BY ONLY <1>8, <1>9, Addresses DEF Reads, BlockFields
  <2>2. ASSUME NEW j \in Buckets
        PROVE  o[Item(j)].iBlockAddr = IF j = i THEN c ELSE m[Item(j)].iBlockAddr
    BY ONLY <1>8, <1>9, Addresses DEF Reads, ItemFields
  <2> QED BY ONLY <2>1, <2>2 DEF Opened
<1>11. ASSUME NEW j \in Buckets
       PROVE  o[Item(j)].iListCount = m[Item(j)].iListCount + IF j = i THEN 1 ELSE 0
  <2>1. o[Item(j)].iListCount = IF j = i THEN memory[Item(i)].iListCount + 1
                                ELSE m[Item(j)].iListCount
    BY ONLY <1>8, <1>9, Addresses DEF Reads, ItemFields
  <2>2. m[Item(j)].iListCount \in Int /\ m[Item(i)] = memory[Item(i)]
    BY <1>1
  <2> QED BY <2>1, <2>2
<1>12. /\ o[Root].iDirtyCount = m[Root].iDirtyCount + 1
       /\ o[Root].iElementCount = m[Root].iElementCount + 1
  BY ONLY <1>1, <1>8, <1>9 DEF Reads, HeadFields, Map
<1>13. /\ Same(m, o, Contents \cup {"iIndex"} \cup Marks)
       /\ o[Root].iOnlyKeyCount = m[Root].iOnlyKeyCount
  BY <1>5, <1>9 DEF Same, HeadFields
<1>14. MakeReads(m, o, c, i)
  BY ONLY <1>10, <1>11, <1>12, <1>13 DEF MakeReads, first
<1> QED BY <1>4, <1>6, <1>14

\* makeNew puts a block that was in no list in front of both lists and of a chain.
LEMMA MakeEffect ==
    ASSUME HashMapAssumption, NEW s, NEW g, NEW h, Links(memory, s, g, h), Typed(memory),
           NEW c \in Cells, c \notin Range(s), NEW i \in Buckets,
           NEW m, m = [memory EXCEPT ![At(c)] = NewBlock(i)],
           NEW o, o = Updated(makeNew(c, i), m)
    PROVE  /\ \E r : Links(o, OnTop(c, s), OnTop(c, g), r)
           /\ MakeReads(m, o, c, i)
           /\ Shape(m) /\ Shape(o)
<1>1. Shape(memory) /\ IsList(memory, SetList, s) /\ IsList(memory, GetList, g)
  BY DEF Links
<1>2. /\ IsInjective(s) /\ IsInjective(g) /\ s \in Seq(Cells) /\ g \in Seq(Cells)
      /\ c \notin Range(g)
  BY <1>1 DEF IsList, IsPath, Links
<1>3. DOMAIN NewBlock(i) = BlockFields
  BY DEF NewBlock, BlockFields
<1>4. \A q \in Buckets : IsChain(memory, q, h[q]) /\ Range(h[q]) \subseteq Cells /\ c \notin Range(h[q])
  BY PathFacts DEF Links, IsChain
<1>5. /\ Shape(m) /\ IsList(m, SetList, s) /\ IsList(m, GetList, g)
      /\ \A q \in Buckets : IsChain(m, q, h[q])
  BY <1>1, <1>2, <1>3, <1>4, SetLinks, ShapeApart, ListApart, ChainApart
<1>6. /\ \A a \in DOMAIN m : a # At(c) => m[a] = memory[a]
      /\ m[At(c)] = NewBlock(i)
  BY <1>1 DEF Shape
<1>7. /\ Shape(o)
      /\ Same(Updated(Insert(m, SetList, c), m), o, SetFields)
      /\ Same(Updated(Insert(m, GetList, c), m), o, GetFields)
      /\ MakeReads(m, o, c, i)
  <2>1. \A q \in Buckets : memory[Item(q)].iListCount \in Int
    BY DEF Typed
  <2> QED BY <1>1, <1>5, <1>6, <2>1, MakeFields
<1>8. /\ m[At(c)].iSetNext = 0 /\ m[At(c)].iSetPrev = 0 /\ m[At(c)].iGetNext = 0
      /\ m[At(c)].iGetPrev = 0 /\ m[At(c)].iBlockPrev = 0 /\ m[At(c)].iIndex = i
  BY <1>6 DEF NewBlock
<1>9. IsList(o, SetList, OnTop(c, s))
  <2> DEFINE p == Updated(Insert(m, SetList, c), m)
  <2>1. m[At(c)][SetList.next] = 0 /\ m[At(c)][SetList.prev] = 0
    BY <1>8, SetLinks
  <2>2. IsList(p, SetList, OnTop(c, s))
    BY ONLY <1>5, <2>1, HashMapAssumption, c \in Cells, c \notin Range(s), SetLinks, InsertEffect
  <2>3. Shape(p)
    BY <1>5, InsertWrites, ShapeUpdated
  <2>4. Same(p, o, {SetList.head, SetList.tail, SetList.next, SetList.prev})
    BY <1>7, FieldsOfLists DEF ListFieldsOf
  <2> HIDE DEF p
  <2> QED BY <2>2, <2>3, <2>4, SetLinks, ListKept
<1>10. IsList(o, GetList, OnTop(c, g))
  <2> DEFINE p == Updated(Insert(m, GetList, c), m)
  <2>1. m[At(c)][GetList.next] = 0 /\ m[At(c)][GetList.prev] = 0
    BY <1>8, SetLinks
  <2>2. IsList(p, GetList, OnTop(c, g))
    BY ONLY <1>2, <1>5, <2>1, HashMapAssumption, c \in Cells, SetLinks, InsertEffect
  <2>3. Shape(p)
    BY <1>5, InsertWrites, ShapeUpdated
  <2>4. Same(p, o, {GetList.head, GetList.tail, GetList.next, GetList.prev})
    BY <1>7, FieldsOfLists DEF ListFieldsOf
  <2> HIDE DEF p
  <2> QED BY <2>2, <2>3, <2>4, SetLinks, ListKept
<1> DEFINE u == h[i]
           first == m[Item(i)].iBlockAddr
           r == [q \in Buckets |-> IF q = i THEN OnTop(c, u) ELSE h[q]]
<1>11. IsChain(o, i, OnTop(c, u)) /\ \A q \in Buckets : q # i => IsChain(o, q, h[q])
  <2>1. Opened(m, o, i, c, first)
    BY <1>7 DEF MakeReads
  <2>2. IsChain(m, i, u) /\ c \notin Range(u) /\ m[At(c)].iBlockPrev = 0
    BY <1>4, <1>5, <1>8
  <2>3. \A q \in Buckets : q # i => Range(h[q]) \cap Range(u) = {}
    BY DEF Links
  <2>4. first = m[Item(i)].iBlockAddr
    OBVIOUS
  <2> HIDE DEF u, first
  <2>5. /\ IsChain(o, i, OnTop(c, u))
        /\ \A q \in Buckets : \A t :
             q # i /\ IsChain(m, q, t) /\ Range(t) \cap Range(u) = {} /\ c \notin Range(t)
             => IsChain(o, q, t)
    BY ONLY <2>1, <2>2, <2>4, HashMapAssumption, c \in Cells, i \in Buckets, ChainAdded
  <2> QED BY <1>4, <1>5, <2>3, <2>5
<1>12. /\ Range(OnTop(c, s)) = Range(s) \cup {c} /\ Range(OnTop(c, g)) = Range(g) \cup {c}
       /\ Range(OnTop(c, u)) = Range(u) \cup {c}
  <2>1. u \in Seq(Cells) /\ IsInjective(u) /\ c \notin Range(u)
    BY <1>4 DEF IsChain, IsPath
  <2> HIDE DEF u
  <2>2. Range(OnTop(c, u)) = Range(u) \cup {c}
    BY ONLY <2>1, c \in Cells, OnTopFacts
  <2>3. Range(OnTop(c, s)) = Range(s) \cup {c}
    BY ONLY <1>2, c \in Cells, c \notin Range(s), OnTopFacts
  <2>4. Range(OnTop(c, g)) = Range(g) \cup {c}
    BY ONLY <1>2, c \in Cells, OnTopFacts
  <2> QED BY ONLY <2>2, <2>3, <2>4
<1>13. \A q \in Buckets : IsChain(o, q, r[q]) /\ Range(r[q]) = Range(h[q]) \cup IF q = i THEN {c} ELSE {}
  BY <1>11, <1>12
<1>14. \A q \in Buckets : \A d \in Range(r[q]) : o[At(d)].iIndex = q
  <2> SUFFICES ASSUME NEW q \in Buckets, NEW d \in Range(r[q]) PROVE o[At(d)].iIndex = q
    OBVIOUS
  <2>1. d \in Cells
    BY <1>4, <1>13
  <2>2. o[At(d)].iIndex = m[At(d)].iIndex
    <3>1. Same(m, o, {"iIndex"})
      BY <1>7, SameLess DEF MakeReads
    <3>2. At(d) \in DOMAIN m /\ DOMAIN m[At(d)] = BlockFields /\ "iIndex" \in BlockFields
      BY <1>5, <2>1 DEF Shape, BlockFields
    <3> QED BY ONLY <3>1, <3>2 DEF Same
  <2>3. CASE d = c
    <3>1. q = i
      BY <1>4, <1>13, <2>3
    <3> QED BY <1>8, <2>2, <2>3, <3>1
  <2>4. CASE d # c
    <3>1. d \in Range(h[q])
      BY <1>13, <2>4
    <3>2. m[At(d)] = memory[At(d)]
      BY <1>5, <1>6, <2>1, <2>4, Addresses DEF Shape
    <3>3. memory[At(d)].iIndex = q
      BY <3>1 DEF Links
    <3> QED BY <2>2, <3>2, <3>3
  <2> QED BY <2>3, <2>4
<1>15. Range(OnTop(c, g)) = Range(OnTop(c, s))
  BY <1>12 DEF Links
<1>16. \A d : d \in Range(OnTop(c, s)) <=> \E q \in Buckets : d \in Range(r[q])
  BY <1>12, <1>13 DEF Links
<1> HIDE DEF r
<1>17. Links(o, OnTop(c, s), OnTop(c, g), r)
  BY <1>7, <1>9, <1>10, <1>13, <1>14, <1>15, <1>16 DEF Links
<1> QED BY <1>5, <1>7, <1>17

\* The last set list, or the last get list, is arranged anew.
LEMMA SetListMoved ==
    ASSUME HashMapAssumption, NEW m, NEW s, NEW g, NEW h, Links(m, s, g, h), NEW o, NEW t,
           IsList(o, SetList, t), Range(t) = Range(s), Same(m, o, GetFields \cup ChainFields)
    PROVE  Links(o, t, g, h)
<1>1. Shape(m) /\ Shape(o)
  BY ShapeKept DEF Links
<1>2. IsList(o, GetList, g)
  <2>1. Same(m, o, {GetList.head, GetList.tail, GetList.next, GetList.prev})
    BY SameLess, FieldsOfLists DEF ListFieldsOf
  <2> QED BY <1>1, <2>1, SetLinks, ListKept DEF Links
<1>3. ASSUME NEW i \in Buckets
      PROVE  IsChain(o, i, h[i]) /\ \A c \in Range(h[i]) : o[At(c)].iIndex = i
  <2>1. Same(m, o, {"iBlockAddr", "iBlockNext", "iBlockPrev"}) /\ Same(m, o, {"iIndex"})
    BY SameLess DEF ChainFields
  <2>2. IsChain(m, i, h[i]) /\ \A c \in Range(h[i]) : m[At(c)].iIndex = i
    BY DEF Links
  <2>3. Range(h[i]) \subseteq Cells
    BY <2>2, PathFacts DEF IsChain
  <2>4. \A c \in Cells : o[At(c)].iIndex = m[At(c)].iIndex
    BY <1>1, <2>1 DEF Same, Shape, BlockFields
  <2> QED BY <1>1, <2>1, <2>2, <2>3, <2>4, ChainKept
<1> QED BY <1>1, <1>2, <1>3 DEF Links

\* A list of the last get with the same blocks takes the place of the old one.
LEMMA GetListMoved ==
    ASSUME HashMapAssumption, NEW m, NEW s, NEW g, NEW h, Links(m, s, g, h), NEW o, NEW t,
           IsList(o, GetList, t), Range(t) = Range(g), Same(m, o, SetFields \cup ChainFields)
    PROVE  Links(o, s, t, h)
<1>1. Shape(m) /\ Shape(o)
  BY ShapeKept DEF Links
<1>2. IsList(o, SetList, s)
  <2>1. Same(m, o, {SetList.head, SetList.tail, SetList.next, SetList.prev})
    BY SameLess, FieldsOfLists DEF ListFieldsOf
  <2> QED BY <1>1, <2>1, SetLinks, ListKept DEF Links
<1>3. ASSUME NEW i \in Buckets
      PROVE  IsChain(o, i, h[i]) /\ \A c \in Range(h[i]) : o[At(c)].iIndex = i
  <2>1. Same(m, o, {"iBlockAddr", "iBlockNext", "iBlockPrev"}) /\ Same(m, o, {"iIndex"})
    BY SameLess DEF ChainFields
  <2>2. IsChain(m, i, h[i]) /\ \A c \in Range(h[i]) : m[At(c)].iIndex = i
    BY DEF Links
  <2>3. Range(h[i]) \subseteq Cells
    BY <2>2, PathFacts DEF IsChain
  <2>4. \A c \in Cells : o[At(c)].iIndex = m[At(c)].iIndex
    BY <1>1, <2>1 DEF Same, Shape, BlockFields
  <2> QED BY <1>1, <2>1, <2>2, <2>3, <2>4, ChainKept
<1> QED BY <1>1, <1>2, <1>3 DEF Links

\* The sequence with its kth element in front, wherever it was.
Fronted(s, k) == IF k = 1 THEN s ELSE Raised(s, k)

\* What one update under a condition leaves.
LEMMA IfReads ==
    ASSUME NEW m, NEW condition, NEW a, NEW f, NEW v,
           NEW o, o = Updated(If(condition, <<Put(a, f, v)>>), m)
    PROVE  Reads(m, o, condition, a, f, v) /\ Same(m, o, {})
<1>1. Reads(m, o, condition, a, f, v)
  BY SameSelf, StageReads
<1>2. Same(m, o, {})
  BY IfLeaves
<1> QED BY <1>1, <1>2

RefreshSetMarks(m, o, c, k) ==
    /\ o[Root].iSyncTail = IF m[Root].iSyncTail = c /\ k # 1 THEN m[At(c)].iSetPrev
                           ELSE m[Root].iSyncTail
    /\ o[Root].iDirtyTail = IF m[Root].iDirtyTail = 0 THEN c
                            ELSE IF m[Root].iDirtyTail = c /\ k # 1 THEN m[At(c)].iSetPrev
                            ELSE m[Root].iDirtyTail

\* refreshSetList puts the block in front of the list of the last set.
LEMMA RefreshSetEffect ==
    ASSUME HashMapAssumption, NEW s, NEW g, NEW h, Links(memory, s, g, h),
           NEW k \in 1..Len(s), NEW c, c = s[k], NEW o, o = Updated(refreshSetList(c), memory)
    PROVE  /\ Links(o, Fronted(s, k), g, h)
           /\ Same(memory, o, AllFields \ (SetFields \cup {"iDirtyTail", "iSyncTail"}))
           /\ RefreshSetMarks(memory, o, c, k)
<1> DEFINE away == Map.iSetHead # c
           b == memory[At(c)]
           u1 == If(Map.iSyncTail = c, <<Put(Root, "iSyncTail", b.iSetPrev)>>)
           u2 == If(Map.iDirtyTail = c, <<Put(Root, "iDirtyTail", b.iSetPrev)>>)
           u3 == If(Map.iDirtyTail = 0, <<Put(Root, "iDirtyTail", c)>>)
           u4 == ToHead(memory, SetList, c)
           m1 == IF away THEN Updated(u1, memory) ELSE memory
           m2 == IF away THEN Updated(u2, m1) ELSE m1
           m3 == Updated(u3, m2)
<1>1. Shape(memory) /\ IsList(memory, SetList, s)
  BY DEF Links
<1>2. c \in Cells /\ c # 0 /\ (away <=> k # 1)
  <2>1. IsPath(memory, SetList.next, SetList.prev, s)
    BY <1>1 DEF IsList
  <2>2. memory[Root][SetList.head] = s[k] <=> k = 1
    <3>1. IsList(memory, SetList, s)
      BY <1>1
    <3> QED BY ONLY HashMapAssumption, <3>1, k \in 1..Len(s), Ends
  <2> QED BY <2>1, <2>2, PathFacts, SetLinks DEF Map
<1>3. refreshSetList(c) = If(away, u1 \o u2) \o u3 \o If(away, u4)
  BY SetLinks DEF refreshSetList, Step, Map
<1>4. /\ Writes(u1, {"iSyncTail"}) /\ Writes(u2, {"iDirtyTail"}) /\ Writes(u3, {"iDirtyTail"})
      /\ Writes(u4, SetFields)
  BY WritesOne, WritesIf, ToHeadWrites, FieldsOfLists DEF ListFieldsOf
<1> HIDE DEF u1, u2, u3, u4, away
<1>5. o = IF away THEN Updated(u4, m3) ELSE m3
  <2> DEFINE F == {"iSyncTail", "iDirtyTail"} \cup SetFields
             v == If(away, u1 \o u2)
             w == If(away, u4)
  <2>1. Writes(u1, F) /\ Writes(u2, F) /\ Writes(u3, F) /\ Writes(u4, F)
    BY <1>4, WritesMore
  <2> HIDE DEF F
  <2>2. Writes(v, F) /\ Writes(w, F)
    BY <2>1, WritesConcat, WritesIf
  <2>3. Updated(v, memory) = m2
    <3>1. CASE away
      BY <2>1, <3>1, Concat DEF If
    <3>2. CASE ~away
      BY <3>2, UpdatedNone DEF If
    <3> QED BY <3>1, <3>2
  <2>4. \A n : Updated(w, n) = IF away THEN Updated(u4, n) ELSE n
    BY UpdatedNone DEF If
  <2> HIDE DEF v, w, m2
  <2>5. Writes(v \o u3, F) /\ Updated(v \o u3, memory) = m3
    BY <2>1, <2>2, <2>3, WritesConcat, Concat
  <2>6. Updated(v \o u3 \o w, memory) = Updated(w, m3)
    BY <2>2, <2>5, Concat
  <2> QED BY <1>3, <2>4, <2>6 DEF v, w
<1>6. Same(memory, m3, AllFields \ {"iSyncTail", "iDirtyTail"})
  <2> DEFINE G == AllFields \ {"iSyncTail", "iDirtyTail"}
  <2>0. G \cap {"iSyncTail"} = {} /\ G \cap {"iDirtyTail"} = {}
    OBVIOUS
  <2> HIDE DEF G
  <2>1. Same(memory, m1, G)
    <3>1. Same(memory, Updated(u1, memory), G)
      BY <1>4, <2>0, Untouched
    <3> QED BY <3>1, SameSelf
  <2>2. Same(m1, m2, G)
    <3>1. Same(m1, Updated(u2, m1), G)
      BY <1>4, <2>0, Untouched
    <3> QED BY <3>1, SameSelf
  <2>3. Same(m2, m3, G)
    BY <1>4, <2>0, Untouched
  <2> HIDE DEF m1, m2, m3
  <2>4. Same(memory, m3, G)
    BY <2>1, <2>2, <2>3, SameTwice
  <2> QED BY <2>4 DEF G
<1>7. IsList(o, SetList, Fronted(s, k))
  <2>1. Same(memory, m3, SetFields)
    BY <1>6, SameLess DEF AllFields, HeadFields, BlockFields, SetFields
  <2>2. CASE away
    <3> DEFINE p == Updated(u4, memory)
    <3>1. IsList(p, SetList, Raised(s, k))
      BY <1>1, <1>2, <2>2, SetLinks, ToHeadEffect DEF u4
    <3>2. Shape(p)
      BY <1>1, <1>4, ShapeUpdated
    <3> HIDE DEF p
    <3>3. Same(p, o, SetFields)
      BY <1>4, <1>5, <2>1, <2>2, SameUpdates DEF p
    <3>4. Same(p, o, {SetList.head, SetList.tail, SetList.next, SetList.prev})
      BY <3>3, FieldsOfLists DEF ListFieldsOf
    <3>5. IsList(o, SetList, Raised(s, k))
      BY <3>1, <3>2, <3>4, SetLinks, ListKept
    <3> QED BY <1>2, <2>2, <3>5 DEF Fronted
  <2>3. CASE ~away
    <3>1. Same(memory, o, {SetList.head, SetList.tail, SetList.next, SetList.prev})
      BY <1>5, <2>1, <2>3, FieldsOfLists DEF ListFieldsOf
    <3>2. IsList(o, SetList, s)
      BY <1>1, <3>1, SetLinks, ListKept
    <3> QED BY <1>2, <2>3, <3>2 DEF Fronted
  <2> QED BY <2>2, <2>3
<1>8. Same(memory, o, AllFields \ (SetFields \cup {"iDirtyTail", "iSyncTail"}))
  <2> DEFINE G == AllFields \ (SetFields \cup {"iDirtyTail", "iSyncTail"})
  <2>1. G \subseteq AllFields \ {"iSyncTail", "iDirtyTail"} /\ SetFields \cap G = {}
    OBVIOUS
  <2> HIDE DEF G, m3
  <2>2. Same(memory, m3, G)
    BY <1>6, <2>1, SameLess
  <2>3. Same(m3, o, G)
    <3>1. Same(m3, Updated(u4, m3), G)
      BY <1>4, <2>1, Untouched
    <3> QED BY <1>5, <3>1, SameSelf
  <2>4. Same(memory, o, G)
    BY <2>2, <2>3, SameTwice
  <2> QED BY <2>4 DEF G
<1>9. Links(o, Fronted(s, k), g, h)
  <2>1. Same(memory, o, GetFields \cup ChainFields)
    BY <1>8, SameLess DEF AllFields, HeadFields, ItemFields, BlockFields, SetFields, GetFields, ChainFields
  <2>2. Range(Fronted(s, k)) = Range(s)
    BY <1>1, RaisedFacts DEF Fronted, IsList, IsPath
  <2> QED BY <1>7, <2>1, <2>2, SetListMoved
<1>10. /\ m1[Root].iSyncTail = IF Map.iSyncTail = c /\ away THEN b.iSetPrev ELSE Map.iSyncTail
       /\ m1[Root].iDirtyTail = Map.iDirtyTail
       /\ Root \in DOMAIN m1 /\ DOMAIN m1[Root] = HeadFields
  <2>1. /\ Root \in DOMAIN memory /\ DOMAIN memory[Root] = HeadFields
        /\ "iSyncTail" \in HeadFields /\ "iDirtyTail" \in HeadFields
    BY <1>1 DEF Shape, HeadFields
  <2> DEFINE p == Updated(u1, memory)
  <2>2. Reads(memory, p, Map.iSyncTail = c, Root, "iSyncTail", b.iSetPrev) /\ Same(memory, p, {})
    <3>1. p = Updated(If(Map.iSyncTail = c, <<Put(Root, "iSyncTail", b.iSetPrev)>>), memory)
      BY DEF u1
    <3> QED BY ONLY <3>1, IfReads
  <2> HIDE DEF p
  <2>3. m1 = IF away THEN p ELSE memory
    BY DEF p
  <2> HIDE DEF m1
  <2>4. /\ Root \in DOMAIN p /\ DOMAIN p[Root] = HeadFields
        /\ p[Root].iSyncTail = IF Map.iSyncTail = c THEN b.iSetPrev ELSE memory[Root].iSyncTail
    BY ONLY <2>1, <2>2 DEF Reads, Same
  <2>5. p[Root].iDirtyTail = memory[Root].iDirtyTail
    <3>1. Same(memory, p, {"iDirtyTail"})
      BY IfLeaves DEF p, u1
    <3> QED BY ONLY <2>1, <3>1 DEF Same
  <2> QED BY ONLY <2>1, <2>3, <2>4, <2>5 DEF Map
<1> HIDE DEF m1
<1>11. /\ m2[Root].iSyncTail = m1[Root].iSyncTail
       /\ m2[Root].iDirtyTail = IF Map.iDirtyTail = c /\ away THEN b.iSetPrev ELSE Map.iDirtyTail
       /\ Root \in DOMAIN m2 /\ DOMAIN m2[Root] = HeadFields
  <2>1. "iSyncTail" \in HeadFields /\ "iDirtyTail" \in HeadFields
    BY DEF HeadFields
  <2> DEFINE p == Updated(u2, m1)
  <2>2. Reads(m1, p, Map.iDirtyTail = c, Root, "iDirtyTail", b.iSetPrev) /\ Same(m1, p, {})
    <3>1. p = Updated(If(Map.iDirtyTail = c, <<Put(Root, "iDirtyTail", b.iSetPrev)>>), m1)
      BY DEF u2
    <3> QED BY ONLY <3>1, IfReads
  <2> HIDE DEF p
  <2>3. m2 = IF away THEN p ELSE m1
    BY DEF p
  <2> HIDE DEF m2
  <2>4. /\ Root \in DOMAIN p /\ DOMAIN p[Root] = HeadFields
        /\ p[Root].iDirtyTail = IF Map.iDirtyTail = c THEN b.iSetPrev ELSE m1[Root].iDirtyTail
    BY ONLY <1>10, <2>1, <2>2 DEF Reads, Same
  <2>5. p[Root].iSyncTail = m1[Root].iSyncTail
    <3>1. Same(m1, p, {"iSyncTail"})
      BY IfLeaves DEF p, u2
    <3> QED BY ONLY <1>10, <2>1, <3>1 DEF Same
  <2> QED BY ONLY <1>10, <2>3, <2>4, <2>5
<1> HIDE DEF m2
<1>12. /\ m3[Root].iSyncTail = m2[Root].iSyncTail
       /\ m3[Root].iDirtyTail = IF Map.iDirtyTail = 0 THEN c ELSE m2[Root].iDirtyTail
       /\ Root \in DOMAIN m3 /\ DOMAIN m3[Root] = HeadFields
  <2>1. "iSyncTail" \in HeadFields /\ "iDirtyTail" \in HeadFields
    BY DEF HeadFields
  <2>2. Reads(m2, m3, Map.iDirtyTail = 0, Root, "iDirtyTail", c) /\ Same(m2, m3, {})
    <3>1. m3 = Updated(If(Map.iDirtyTail = 0, <<Put(Root, "iDirtyTail", c)>>), m2)
      BY DEF u3
    <3> QED BY ONLY <3>1, IfReads
  <2> HIDE DEF m3
  <2>3. /\ Root \in DOMAIN m3 /\ DOMAIN m3[Root] = HeadFields
        /\ m3[Root].iDirtyTail = IF Map.iDirtyTail = 0 THEN c ELSE m2[Root].iDirtyTail
    BY ONLY <1>11, <2>1, <2>2 DEF Reads, Same
  <2>4. m3[Root].iSyncTail = m2[Root].iSyncTail
    <3>1. Same(m2, m3, {"iSyncTail"})
      BY IfLeaves DEF m3, u3
    <3> QED BY ONLY <1>11, <2>1, <3>1 DEF Same
  <2> QED BY ONLY <2>3, <2>4
<1> HIDE DEF m3
<1>13. o[Root].iSyncTail = m3[Root].iSyncTail /\ o[Root].iDirtyTail = m3[Root].iDirtyTail
  <2>1. Same(m3, o, {"iSyncTail", "iDirtyTail"})
    <3>1. SetFields \cap {"iSyncTail", "iDirtyTail"} = {}
      BY DEF SetFields
    <3>2. Same(m3, Updated(u4, m3), {"iSyncTail", "iDirtyTail"})
      BY <1>4, <3>1, Untouched
    <3> QED BY <1>5, <3>2, SameSelf
  <2> QED BY <1>12, <2>1 DEF Same, HeadFields
<1>14. RefreshSetMarks(memory, o, c, k)
  BY <1>2, <1>10, <1>11, <1>12, <1>13 DEF RefreshSetMarks, Map
<1> QED BY <1>8, <1>9, <1>14

\* A list that is put in order after a step of the mark of the backup.
LEMMA BackupStepped ==
    ASSUME NEW c, NEW updates, Writes(updates, GetFields), Shape(memory),
           NEW o, o = Updated(Step(memory, "iBackupTail", GetList, c) \o updates, memory)
    PROVE  /\ Same(Updated(updates, memory), o, GetFields)
           /\ Same(memory, o, AllFields \ (GetFields \cup {"iBackupTail"}))
           /\ o[Root].iBackupTail = IF Map.iBackupTail = c THEN memory[At(c)].iGetPrev ELSE Map.iBackupTail
<1> DEFINE u == If(Map.iBackupTail = c, <<Put(Root, "iBackupTail", memory[At(c)].iGetPrev)>>)
           p == Updated(u, memory)
           G == AllFields \ (GetFields \cup {"iBackupTail"})
<1>1. Step(memory, "iBackupTail", GetList, c) = u
  BY SetLinks DEF Step, Map
<1>2. Writes(u, {"iBackupTail"})
  BY WritesOne, WritesIf
<1>3. o = Updated(updates, p)
  <2> HIDE DEF u
  <2> QED BY <1>1, <1>2, Concat
<1>4. /\ {"iBackupTail"} \cap GetFields = {} /\ {"iBackupTail"} \cap G = {} /\ GetFields \cap G = {}
      /\ GetFields \cap {"iBackupTail"} = {}
  BY DEF GetFields
<1> HIDE DEF G, u
<1>5. Same(memory, p, GetFields) /\ Same(memory, p, G)
  BY <1>2, <1>4, Untouched
<1> HIDE DEF p
<1>6. Same(p, o, G) /\ Same(p, o, {"iBackupTail"})
  BY <1>3, <1>4, Untouched
<1>7. Same(Updated(updates, memory), o, GetFields)
  BY <1>3, <1>5, SameUpdates
<1>8. Same(memory, o, G)
  BY <1>5, <1>6, SameTwice
<1>9. Reads(memory, p, Map.iBackupTail = c, Root, "iBackupTail", memory[At(c)].iGetPrev)
  <2>1. p = Updated(If(Map.iBackupTail = c, <<Put(Root, "iBackupTail", memory[At(c)].iGetPrev)>>), memory)
    BY DEF p, u
  <2> QED BY ONLY <2>1, IfReads
<1>10. o[Root].iBackupTail = IF Map.iBackupTail = c THEN memory[At(c)].iGetPrev ELSE Map.iBackupTail
  <2>1. /\ Root \in DOMAIN memory /\ "iBackupTail" \in DOMAIN memory[Root]
        /\ Root \in DOMAIN p /\ "iBackupTail" \in DOMAIN p[Root]
    BY <1>5 DEF Shape, Same, HeadFields
  <2>2. p[Root].iBackupTail = IF Map.iBackupTail = c THEN memory[At(c)].iGetPrev
                              ELSE memory[Root].iBackupTail
    BY ONLY <1>9, <2>1 DEF Reads
  <2>3. o[Root].iBackupTail = p[Root].iBackupTail
    BY ONLY <1>6, <2>1 DEF Same
  <2> QED BY ONLY <2>2, <2>3 DEF Map
<1> QED BY <1>7, <1>8, <1>10 DEF G

RefreshGetMarks(m, o, c, k) ==
    o[Root].iBackupTail = IF m[Root].iBackupTail = c /\ k # 1 THEN m[At(c)].iGetPrev
                          ELSE m[Root].iBackupTail

\* refreshGetList puts the block in front of the list of the last get.
LEMMA RefreshGetEffect ==
    ASSUME HashMapAssumption, NEW s, NEW g, NEW h, Links(memory, s, g, h),
           NEW k \in 1..Len(g), NEW c, c = g[k], NEW o, o = Updated(refreshGetList(c), memory)
    PROVE  /\ Links(o, s, Fronted(g, k), h)
           /\ Same(memory, o, AllFields \ (GetFields \cup {"iBackupTail"}))
           /\ RefreshGetMarks(memory, o, c, k)
<1>1. Shape(memory) /\ IsList(memory, GetList, g)
  BY DEF Links
<1>2. Map.iGetHead = c <=> k = 1
  <2>1. memory[Root][GetList.head] = c <=> k = 1
    BY <1>1, Ends
  <2> QED BY <2>1, SetLinks DEF Map
<1>3. CASE k = 1
  <2>1. refreshGetList(c) = <<>>
    BY <1>2, <1>3 DEF refreshGetList, If
  <2>2. o = memory
    BY <2>1, UpdatedNone
  <2> QED BY <1>3, <2>2, SameSelf DEF Fronted, RefreshGetMarks
<1>4. CASE k # 1
  <2> DEFINE u == ToHead(memory, GetList, c)
             p == Updated(u, memory)
  <2>1. o = Updated(Step(memory, "iBackupTail", GetList, c) \o u, memory)
    BY <1>2, <1>4 DEF refreshGetList, If
  <2>2. Writes(u, GetFields)
    BY ToHeadWrites, FieldsOfLists DEF ListFieldsOf
  <2>3. IsList(p, GetList, Raised(g, k))
    BY <1>1, <1>4, SetLinks, ToHeadEffect
  <2> HIDE DEF u
  <2>4. Shape(p)
    BY <1>1, <2>2, ShapeUpdated
  <2>5. /\ Same(p, o, GetFields)
        /\ Same(memory, o, AllFields \ (GetFields \cup {"iBackupTail"}))
        /\ o[Root].iBackupTail = IF Map.iBackupTail = c THEN memory[At(c)].iGetPrev ELSE Map.iBackupTail
    BY ONLY <1>1, <2>1, <2>2, BackupStepped
  <2> HIDE DEF p
  <2>6. IsList(o, GetList, Raised(g, k))
    <3>1. Same(p, o, {GetList.head, GetList.tail, GetList.next, GetList.prev})
      BY <2>5, FieldsOfLists DEF ListFieldsOf
    <3> QED BY <2>3, <2>4, <3>1, SetLinks, ListKept
  <2>7. Range(Raised(g, k)) = Range(g)
    BY <1>1, RaisedFacts DEF IsList, IsPath
  <2>8. Same(memory, o, SetFields \cup ChainFields)
    BY <2>5, SameLess DEF AllFields, HeadFields, ItemFields, BlockFields, SetFields, GetFields, ChainFields
  <2>9. Links(o, s, Raised(g, k), h)
    BY <2>6, <2>7, <2>8, GetListMoved
  <2> QED BY <1>4, <2>5, <2>9 DEF Fronted, RefreshGetMarks, Map
<1> QED BY <1>3, <1>4

\* What MoveTail does to the block at the tail of the list of the last get.
Moving(c) ==
    LET prev == memory[At(c)].iGetPrev
        first == memory[Root].iGetHead
    IN  Step(memory, "iBackupTail", GetList, c)
        \o <<Put(Root, "iGetTail", prev), Put(At(prev), "iGetNext", 0),
             Put(At(c), "iGetPrev", 0), Put(At(c), "iGetNext", first),
             Put(At(first), "iGetPrev", c), Put(Root, "iGetHead", c)>>

\* What the updates of MoveTail do.
LEMMA MoveTailEffect ==
    ASSUME HashMapAssumption, NEW s, NEW g, NEW h, Links(memory, s, g, h),
           Map.iGetTail # 0, Map.iGetTail # Map.iGetHead, NEW c, c = Map.iGetTail,
           NEW o, o = Updated(Moving(c), memory)
    PROVE  /\ Len(g) \in 1..Len(g) /\ c = g[Len(g)] /\ Len(g) # 1
           /\ Links(o, s, Raised(g, Len(g)), h)
           /\ Same(memory, o, AllFields \ (GetFields \cup {"iBackupTail"}))
           /\ o[Root].iBackupTail = IF Map.iBackupTail = c THEN memory[At(c)].iGetPrev ELSE Map.iBackupTail
<1> DEFINE prev == memory[At(c)].iGetPrev
           first == memory[Root].iGetHead
           u == <<Put(Root, "iGetTail", prev), Put(At(prev), "iGetNext", 0),
                  Put(At(c), "iGetPrev", 0), Put(At(c), "iGetNext", first),
                  Put(At(first), "iGetPrev", c), Put(Root, "iGetHead", c)>>
           p == Updated(u, memory)
<1>1. Shape(memory) /\ IsList(memory, GetList, g)
  BY DEF Links
<1>2. /\ Map.iGetHead = First(g) /\ Map.iGetTail = Final(g)
      /\ Len(g) \in Nat /\ (g = <<>> <=> Len(g) = 0)
      /\ \A n \in 1..Len(g) : g[n] # 0
      /\ g \in Seq(Cells) /\ IsInjective(g)
  <2>1. IsPath(memory, GetList.next, GetList.prev, g)
    BY <1>1 DEF IsList
  <2>2. /\ Len(g) \in Nat /\ (g = <<>> <=> Len(g) = 0)
        /\ \A n \in 1..Len(g) : g[n] # 0
    BY <2>1, PathFacts
  <2> QED BY <1>1, <2>1, <2>2, SetLinks DEF IsList, IsPath, Map
<1>3. /\ Len(g) # 0 /\ Len(g) # 1 /\ Len(g) \in 1..Len(g) /\ c = g[Len(g)] /\ first = g[1]
  BY <1>2 DEF First, Final, Map
<1>4. o = Updated(Step(memory, "iBackupTail", GetList, c) \o u, memory)
  BY DEF Moving
<1>5. Writes(u, GetFields)
  <2>1. {"iGetHead", "iGetTail", "iGetNext", "iGetPrev"} \subseteq GetFields
    BY DEF GetFields
  <2> HIDE DEF prev, first
  <2> QED BY ONLY <2>1, WritesSix DEF u
<1>6. IsList(p, GetList, Raised(g, Len(g)))
  <2> DEFINE list == GetList
             v == <<Put(Root, list.tail, prev), Put(At(prev), list.next, 0), Put(At(c), list.prev, 0),
                    Put(At(c), list.next, g[1]), Put(At(g[1]), list.prev, c), Put(Root, list.head, c)>>
  <2>1. u = v
    BY <1>3, SetLinks
  <2>2. prev = memory[At(c)][list.prev]
    BY SetLinks
  <2> HIDE DEF prev, first, u
  <2>3. IsList(Updated(v, memory), list, Raised(g, Len(g)))
    BY ONLY HashMapAssumption, <1>1, <1>3, <2>2, SetLinks, TailRaised
  <2> QED BY <2>1, <2>3
<1> HIDE DEF u
<1>7. Shape(p)
  BY <1>1, <1>5, ShapeUpdated
<1>8. /\ Same(p, o, GetFields)
      /\ Same(memory, o, AllFields \ (GetFields \cup {"iBackupTail"}))
      /\ o[Root].iBackupTail = IF Map.iBackupTail = c THEN memory[At(c)].iGetPrev ELSE Map.iBackupTail
  BY <1>1, <1>4, <1>5, BackupStepped
<1> HIDE DEF p
<1>9. IsList(o, GetList, Raised(g, Len(g)))
  <2>1. Same(p, o, {GetList.head, GetList.tail, GetList.next, GetList.prev})
    BY <1>8, FieldsOfLists DEF ListFieldsOf
  <2> QED BY <1>6, <1>7, <2>1, SetLinks, ListKept
<1>10. Range(Raised(g, Len(g))) = Range(g)
  BY <1>2, <1>3, RaisedFacts
<1>11. Same(memory, o, SetFields \cup ChainFields)
  BY <1>8, SameLess DEF AllFields, HeadFields, ItemFields, BlockFields, SetFields, GetFields, ChainFields
<1>12. Links(o, s, Raised(g, Len(g)), h)
  BY <1>9, <1>10, <1>11, GetListMoved
<1> QED BY <1>3, <1>8, <1>12

-----------------------------------------------------------------------------
(* The units                                                               *)

\* A sequence without repetition with one more at its end.
LEMMA AppendedOnce ==
    ASSUME NEW S, NEW s \in Seq(S), IsInjective(s), NEW x \in S, x \notin Range(s)
    PROVE  /\ Append(s, x) \in Seq(S) /\ IsInjective(Append(s, x))
           /\ Range(Append(s, x)) = Range(s) \cup {x}
<1> DEFINE t == Append(s, x)
<1>1. /\ t \in Seq(S) /\ Len(t) = Len(s) + 1 /\ Len(s) \in Nat /\ DOMAIN s = 1..Len(s)
      /\ \A n \in 1..Len(s) : t[n] = s[n]
      /\ t[Len(s) + 1] = x
  BY AppendProperties, LenProperties
<1>2. DOMAIN t = 1..(Len(s) + 1)
  BY <1>1, LenProperties
<1> HIDE DEF t
<1>3. \A n \in 1..(Len(s) + 1) : n \in 1..Len(s) \/ n = Len(s) + 1
  BY <1>1
<1>4. IsInjective(t)
  <2>1. \A n \in 1..Len(s) : t[n] # x
    BY <1>1 DEF Range
  <2>2. \A n, k \in 1..Len(s) : t[n] = t[k] => n = k
    BY <1>1 DEF IsInjective
  <2> QED BY <1>1, <1>2, <1>3, <2>1, <2>2 DEF IsInjective
<1>5. Range(t) = Range(s) \cup {x}
  BY <1>1, <1>2, <1>3 DEF Range
<1> QED BY <1>1, <1>4, <1>5 DEF t

\* Without its first.
LEMMA TailOnce ==
    ASSUME NEW S, NEW s \in Seq(S), IsInjective(s), s # <<>>
    PROVE  /\ Tail(s) \in Seq(S) /\ IsInjective(Tail(s))
           /\ s[1] \in S /\ s[1] \in Range(s) /\ Range(Tail(s)) = Range(s) \ {s[1]}
<1> DEFINE t == Tail(s)
<1>1. Len(s) \in Nat /\ Len(s) # 0 /\ DOMAIN s = 1..Len(s)
  BY LenProperties, EmptySeq
<1>2. t \in Seq(S) /\ Len(t) = Len(s) - 1 /\ \A n \in 1..(Len(s) - 1) : t[n] = s[n + 1]
  BY HeadTailProperties
<1>3. DOMAIN t = 1..(Len(s) - 1)
  BY <1>2, LenProperties
<1> HIDE DEF t
<1>4. 1 \in 1..Len(s)
  BY <1>1
<1>5. s[1] \in S /\ s[1] \in Range(s)
  BY <1>1, <1>4, ElementOfSeq DEF Range
<1>6. \A n \in 1..(Len(s) - 1) : n + 1 \in 1..Len(s) /\ n + 1 # 1
  BY <1>1
<1>7. \A i, k \in 1..Len(s) : s[i] = s[k] => i = k
  BY <1>1 DEF IsInjective
<1>8. IsInjective(t)
  <2>1. ASSUME NEW i \in 1..(Len(s) - 1), NEW k \in 1..(Len(s) - 1), t[i] = t[k] PROVE i = k
    <3>1. i + 1 = k + 1
      BY <1>2, <1>6, <1>7, <2>1
    <3> QED BY <1>1, <3>1
  <2> QED BY <1>3, <2>1 DEF IsInjective
<1>9. Range(t) = Range(s) \ {s[1]}
  <2>1. ASSUME NEW v \in Range(t) PROVE v \in Range(s) /\ v # s[1]
    <3>1. PICK n \in 1..(Len(s) - 1) : v = t[n]
      BY <1>3 DEF Range
    <3>2. v = s[n + 1] /\ n + 1 \in 1..Len(s) /\ n + 1 # 1
      BY <1>2, <1>6, <3>1
    <3> QED BY <1>1, <1>4, <1>7, <3>2 DEF Range
  <2>2. ASSUME NEW v \in Range(s), v # s[1] PROVE v \in Range(t)
    <3>1. PICK n \in 1..Len(s) : v = s[n]
      BY <1>1 DEF Range
    <3>2. n # 1
      BY <2>2, <3>1
    <3>3. n - 1 \in 1..(Len(s) - 1) /\ (n - 1) + 1 = n
      BY <1>1, <3>2
    <3>4. t[n - 1] = s[n]
      BY <1>2, <3>3
    <3> QED BY <1>3, <3>1, <3>3, <3>4 DEF Range
  <2> QED BY <2>1, <2>2
<1> QED BY <1>2, <1>5, <1>8, <1>9 DEF t

\* Cut in two.
IsCut(s, n, a, b) == a = SubSeq(s, 1, n) /\ b = SubSeq(s, n + 1, Len(s))

\* The two parts of a sequence that is cut.
LEMMA CutOnce ==
    ASSUME NEW S, NEW s \in Seq(S), IsInjective(s), NEW n \in Nat, n < Len(s),
           NEW a, NEW b, IsCut(s, n, a, b)
    PROVE  /\ a \in Seq(S) /\ IsInjective(a) /\ b \in Seq(S) /\ IsInjective(b)
           /\ Range(a) \subseteq Range(s) /\ Range(b) \subseteq Range(s)
           /\ Range(a) \cap Range(b) = {}
<1>1. Len(s) \in Nat /\ DOMAIN s = 1..Len(s)
  BY LenProperties
<1>2. a \in Seq(S) /\ Len(a) = n /\ \A k \in 1..n : a[k] = s[k]
  <2>1. \A k \in 1..n : k \in 1..Len(s)
    BY <1>1
  <2>2. a = [k \in 1..n |-> s[k]]
    <3>1. \A k \in 1..n : (1 + k) - 1 = k
      OBVIOUS
    <3>2. (n - 1) + 1 = n
      OBVIOUS
    <3> QED BY <3>1, <3>2 DEF IsCut
  <2>3. \A k \in 1..n : s[k] \in S
    BY <2>1, ElementOfSeq
  <2>4. a \in [1..n -> S]
    BY <2>2, <2>3
  <2> QED BY <2>2, <2>4, SeqMade
<1>3. b \in Seq(S) /\ Len(b) = Len(s) - n /\ \A k \in 1..(Len(s) - n) : b[k] = s[n + k]
  <2>1. \A k \in 1..(Len(s) - n) : n + k \in 1..Len(s)
    BY <1>1
  <2>2. b = [k \in 1..(Len(s) - n) |-> s[n + k]]
    <3>1. \A k \in 1..(Len(s) - n) : ((n + 1) + k) - 1 = n + k
      BY <1>1
    <3>2. (Len(s) - (n + 1)) + 1 = Len(s) - n
      BY <1>1
    <3> QED BY <3>1, <3>2 DEF IsCut
  <2>3. \A k \in 1..(Len(s) - n) : s[n + k] \in S
    BY <2>1, ElementOfSeq
  <2>4. b \in [1..(Len(s) - n) -> S]
    BY <2>2, <2>3
  <2>5. Len(s) - n \in Nat
    BY <1>1
  <2> QED BY <2>2, <2>4, <2>5, SeqMade
<1>4. DOMAIN a = 1..n /\ DOMAIN b = 1..(Len(s) - n)
  BY <1>2, <1>3, LenProperties
<1>5. /\ \A k \in 1..n : k \in 1..Len(s)
      /\ \A k \in 1..(Len(s) - n) : n + k \in 1..Len(s) /\ n + k \notin 1..n
  BY <1>1
<1>6. \A i, k \in 1..Len(s) : s[i] = s[k] => i = k
  BY <1>1 DEF IsInjective
<1>7. IsInjective(a)
  BY <1>2, <1>4, <1>5, <1>6 DEF IsInjective
<1>8. IsInjective(b)
  <2>1. ASSUME NEW i \in 1..(Len(s) - n), NEW k \in 1..(Len(s) - n), b[i] = b[k] PROVE i = k
    <3>1. n + i = n + k
      BY <1>3, <1>5, <1>6, <2>1
    <3> QED BY <1>1, <3>1
  <2> QED BY <1>4, <2>1 DEF IsInjective
<1>9. Range(a) \subseteq Range(s)
  BY <1>1, <1>2, <1>4, <1>5 DEF Range
<1>10. Range(b) \subseteq Range(s)
  BY <1>1, <1>3, <1>4, <1>5 DEF Range
<1>11. Range(a) \cap Range(b) = {}
  <2> SUFFICES ASSUME NEW v, v \in Range(a), v \in Range(b) PROVE FALSE
    OBVIOUS
  <2>1. PICK i \in 1..n : v = s[i]
    BY <1>2, <1>4 DEF Range
  <2>2. PICK k \in 1..(Len(s) - n) : v = s[n + k]
    BY <1>3, <1>4 DEF Range
  <2>3. i = n + k
    BY <1>5, <1>6, <2>1, <2>2
  <2> QED BY <1>5, <2>3
<1> QED BY <1>2, <1>3, <1>7, <1>8, <1>9, <1>10, <1>11

\* The sequence of nothing.
LEMMA NoneOnce == IsInjective(<<>>) /\ Range(<<>>) = {} /\ \A S : <<>> \in Seq(S)
<1>1. DOMAIN <<>> = {} /\ \A S : <<>> \in Seq(S)
  BY EmptySeq
<1> QED BY <1>1 DEF IsInjective, Range

\* The units of a block.
Own(m, c) == Range(m[At(c)].chunks) \cup {c}

\* No unit is in two places: with one of the blocks L, free, in g, in l or in N.
Owned(m, L, F, g, l, N) ==
    /\ F \subseteq Cells /\ N \subseteq Cells /\ g \in Seq(Cells) /\ l \in Seq(Cells)
    /\ IsInjective(g) /\ IsInjective(l)
    /\ \A c \in L : IsInjective(m[At(c)].chunks) /\ c \notin Range(m[At(c)].chunks)
    /\ \A c, d \in L : c # d => Own(m, c) \cap Own(m, d) = {}
    /\ \A c \in L : Own(m, c) \cap F = {} /\ Own(m, c) \cap Range(g) = {}
                    /\ Own(m, c) \cap Range(l) = {} /\ Own(m, c) \cap N = {}
    /\ F \cap Range(g) = {} /\ F \cap Range(l) = {} /\ F \cap N = {}
    /\ Range(g) \cap Range(l) = {} /\ Range(g) \cap N = {} /\ Range(l) \cap N = {}

\* The chunks of the blocks are the same.
SameChunks(m, o, L) == \A c \in L : o[At(c)].chunks = m[At(c)].chunks

\* The units stay apart when the chunks of the blocks stay.
LEMMA OwnedSame ==
    ASSUME NEW m, NEW o, NEW L, NEW F, NEW g, NEW l, NEW N, Owned(m, L, F, g, l, N), SameChunks(m, o, L)
    PROVE  Owned(o, L, F, g, l, N)
<1>1. \A c \in L : Own(o, c) = Own(m, c)
  BY DEF SameChunks, Own
<1> QED BY <1>1 DEF Owned, SameChunks

\* What is held is lost, or is to be given back.
LEMMA OwnedLost ==
    ASSUME NEW m, NEW L, NEW F, NEW g, NEW l, NEW N, Owned(m, L, F, g, l, N)
    PROVE  /\ Owned(m, L, F, <<>>, <<>>, {}) /\ Owned(m, L, F, g, l, {})
           /\ Owned(m, L, F, <<>>, g, N)
BY NoneOnce DEF Owned

\* A free unit is taken.
LEMMA OwnedTaken ==
    ASSUME NEW m, NEW L, NEW F, NEW g, NEW l, NEW N, Owned(m, L, F, g, l, N), NEW u \in F
    PROVE  /\ Owned(m, L, F \ {u}, g, l, {u})
           /\ Owned(m, L, F \ {u}, Append(g, u), l, N)
<1>1. u \in Cells /\ u \notin Range(g) /\ u \notin Range(l) /\ u \notin N
      /\ \A c \in L : u \notin Own(m, c)
  BY DEF Owned
<1>2. /\ Append(g, u) \in Seq(Cells) /\ IsInjective(Append(g, u))
      /\ Range(Append(g, u)) = Range(g) \cup {u}
  BY <1>1, AppendedOnce DEF Owned
<1>3. Owned(m, L, F \ {u}, g, l, {u})
  BY <1>1 DEF Owned
<1>4. Owned(m, L, F \ {u}, Append(g, u), l, N)
  <2> DEFINE q == Append(g, u)
  <2> HIDE DEF q
  <2>1. q \in Seq(Cells) /\ IsInjective(q) /\ Range(q) = Range(g) \cup {u}
    BY <1>2 DEF q
  <2>2. Owned(m, L, F \ {u}, q, l, N)
    BY <1>1, <2>1 DEF Owned
  <2> QED BY <2>2 DEF q
<1> QED BY <1>3, <1>4

\* A unit that is held becomes a block.
LEMMA OwnedMade ==
    ASSUME NEW m, NEW o, NEW L, NEW F, NEW g, NEW l, NEW c, Owned(m, L, F, g, l, {c}),
           SameChunks(m, o, L), o[At(c)].chunks = <<>>
    PROVE  Owned(o, L \cup {c}, F, g, l, {})
<1>1. \A d \in L : Own(o, d) = Own(m, d)
  BY DEF SameChunks, Own
<1>2. Own(o, c) = {c} /\ IsInjective(o[At(c)].chunks) /\ c \notin Range(o[At(c)].chunks)
  BY NoneOnce DEF Own
<1> QED BY <1>1, <1>2 DEF Owned, SameChunks

\* The chunks of a block change.
LEMMA OwnedChanged ==
    ASSUME NEW m, NEW o, NEW L, NEW F, NEW g, NEW l, NEW N, Owned(m, L, F, g, l, N),
           NEW c \in L, SameChunks(m, o, L \ {c}),
           NEW G, NEW H, G \in Seq(Cells), H \in Seq(Cells), IsInjective(G), IsInjective(H),
           IsInjective(o[At(c)].chunks), Range(G) \cap Range(H) = {},
           Range(o[At(c)].chunks) \cap Range(G) = {}, Range(o[At(c)].chunks) \cap Range(H) = {},
           Range(o[At(c)].chunks) \subseteq Range(m[At(c)].chunks) \cup Range(g) \cup Range(l),
           Range(G) \subseteq Range(m[At(c)].chunks) \cup Range(g) \cup Range(l),
           Range(H) \subseteq Range(m[At(c)].chunks) \cup Range(g) \cup Range(l)
    PROVE  Owned(o, L, F, G, H, N)
<1> DEFINE X == Range(m[At(c)].chunks) \cup Range(g) \cup Range(l)
           Y == Range(o[At(c)].chunks)
<1>1. /\ X \cap F = {} /\ X \cap N = {} /\ c \notin X /\ c \notin F /\ c \notin N
      /\ \A d \in L : d # c => X \cap Own(m, d) = {} /\ c \notin Own(m, d)
  BY DEF Owned, Own
<1>2. \A d \in L : d # c => Own(o, d) = Own(m, d) /\ o[At(d)].chunks = m[At(d)].chunks
  BY DEF SameChunks, Own
<1>3. Own(o, c) = Y \cup {c}
  BY DEF Own
<1>4. Y \subseteq X /\ Range(G) \subseteq X /\ Range(H) \subseteq X
  OBVIOUS
<1>5. \A d \in L : IsInjective(o[At(d)].chunks) /\ d \notin Range(o[At(d)].chunks)
  <2>1. c \notin Y
    BY <1>1, <1>4
  <2> QED BY <1>2, <2>1 DEF Owned
<1> HIDE DEF X, Y
<1>6. \A d \in L : d # c => Own(o, d) \cap Own(o, c) = {}
  BY <1>1, <1>2, <1>3, <1>4
<1>7. \A d, e \in L : d # e => Own(o, d) \cap Own(o, e) = {}
  <2>1. \A d, e \in L : d # c /\ e # c /\ d # e => Own(o, d) \cap Own(o, e) = {}
    BY <1>2 DEF Owned
  <2> QED BY <1>6, <2>1
<1>8. \A d \in L : Own(o, d) \cap F = {} /\ Own(o, d) \cap N = {}
  <2>1. Own(o, c) \cap F = {} /\ Own(o, c) \cap N = {}
    BY <1>1, <1>3, <1>4
  <2>2. \A d \in L : d # c => Own(o, d) \cap F = {} /\ Own(o, d) \cap N = {}
    BY <1>2 DEF Owned
  <2> QED BY <2>1, <2>2
<1>9. \A d \in L : Own(o, d) \cap Range(G) = {} /\ Own(o, d) \cap Range(H) = {}
  <2>1. Own(o, c) \cap Range(G) = {} /\ Own(o, c) \cap Range(H) = {}
    BY <1>1, <1>3, <1>4 DEF Y
  <2>2. \A d \in L : d # c => Own(o, d) \cap Range(G) = {} /\ Own(o, d) \cap Range(H) = {}
    BY <1>1, <1>2, <1>4
  <2> QED BY <2>1, <2>2
<1>10. /\ F \cap Range(G) = {} /\ F \cap Range(H) = {}
       /\ Range(G) \cap N = {} /\ Range(H) \cap N = {}
  BY <1>1, <1>4
<1>11. F \subseteq Cells /\ N \subseteq Cells /\ F \cap N = {}
  BY DEF Owned
<1> QED BY <1>5, <1>7, <1>8, <1>9, <1>10, <1>11 DEF Owned

\* Chunks are cut off a block, to be given back.
LEMMA OwnedCut ==
    ASSUME NEW m, NEW o, NEW L, NEW F, NEW g, NEW N, Owned(m, L, F, g, <<>>, N),
           NEW c \in L, SameChunks(m, o, L \ {c}),
           NEW old \in Seq(Cells), old = m[At(c)].chunks, NEW n \in Nat, n < Len(old),
           o[At(c)].chunks = SubSeq(old, 1, n)
    PROVE  Owned(o, L, F, g, SubSeq(old, n + 1, Len(old)), N)
<1>1. PICK a, b : a = SubSeq(old, 1, n) /\ b = SubSeq(old, n + 1, Len(old))
  OBVIOUS
<1>2. IsInjective(old)
  BY DEF Owned
<1>3. /\ a \in Seq(Cells) /\ IsInjective(a) /\ b \in Seq(Cells) /\ IsInjective(b)
      /\ Range(a) \subseteq Range(old) /\ Range(b) \subseteq Range(old)
      /\ Range(a) \cap Range(b) = {}
  <2>1. IsCut(old, n, a, b)
    BY <1>1 DEF IsCut
  <2> QED BY <1>2, <2>1, CutOnce
<1>4. o[At(c)].chunks = a
  BY <1>1
<1>5. g \in Seq(Cells) /\ IsInjective(g) /\ Range(g) \cap Range(old) = {}
  BY DEF Owned, Own
<1>6. Owned(o, L, F, g, b, N)
  <2> DEFINE none == <<>>
  <2>1. Owned(m, L, F, g, none, N)
    OBVIOUS
  <2> HIDE DEF none
  <2>2. /\ Range(g) \cap Range(b) = {} /\ Range(a) \cap Range(g) = {}
        /\ Range(a) \subseteq Range(old) \cup Range(g) \cup Range(none)
        /\ Range(g) \subseteq Range(old) \cup Range(g) \cup Range(none)
        /\ Range(b) \subseteq Range(old) \cup Range(g) \cup Range(none)
    BY <1>3, <1>5
  <2> QED BY <1>3, <1>4, <1>5, <2>1, <2>2, OwnedChanged
<1> QED BY <1>1, <1>6

\* A chunk is joined to a block.
LEMMA OwnedJoined ==
    ASSUME NEW m, NEW o, NEW L, NEW F, NEW g, NEW l, NEW N, Owned(m, L, F, g, l, N),
           NEW c \in L, SameChunks(m, o, L \ {c}),
           NEW old \in Seq(Cells), old = m[At(c)].chunks, g # <<>>,
           o[At(c)].chunks = Append(old, g[1])
    PROVE  /\ Owned(o, L, F, Tail(g), l, N) /\ Append(old, g[1]) \in Seq(Cells)
<1> DEFINE a == Append(old, g[1])
           b == Tail(g)
<1>1. IsInjective(old) /\ g \in Seq(Cells) /\ IsInjective(g) /\ Range(g) \cap Range(old) = {}
      /\ Range(l) \cap Range(old) = {} /\ Range(g) \cap Range(l) = {}
      /\ l \in Seq(Cells) /\ IsInjective(l)
  BY DEF Owned, Own
<1>2. /\ b \in Seq(Cells) /\ IsInjective(b)
      /\ g[1] \in Cells /\ g[1] \in Range(g) /\ Range(b) = Range(g) \ {g[1]}
  BY <1>1, TailOnce
<1>3. a \in Seq(Cells) /\ IsInjective(a) /\ Range(a) = Range(old) \cup {g[1]}
  <2>1. g[1] \notin Range(old)
    BY <1>1, <1>2
  <2> QED BY <1>1, <1>2, <2>1, AppendedOnce
<1>4. o[At(c)].chunks = a
  OBVIOUS
<1> HIDE DEF a, b
<1>5. /\ Range(b) \cap Range(l) = {} /\ Range(a) \cap Range(b) = {} /\ Range(a) \cap Range(l) = {}
      /\ Range(a) \subseteq Range(old) \cup Range(g) \cup Range(l)
      /\ Range(b) \subseteq Range(old) \cup Range(g) \cup Range(l)
      /\ Range(l) \subseteq Range(old) \cup Range(g) \cup Range(l)
  BY <1>1, <1>2, <1>3
<1>6. Owned(o, L, F, b, l, N)
  BY <1>1, <1>2, <1>3, <1>4, <1>5, OwnedChanged
<1> QED BY <1>3, <1>6 DEF a, b

\* A block is erased, and its units are to be given back.
LEMMA OwnedErased ==
    ASSUME NEW m, NEW o, NEW L, NEW F, NEW g, NEW N, Owned(m, L, F, g, <<>>, N),
           NEW c \in L, c \in Cells, SameChunks(m, o, L \ {c}),
           NEW old \in Seq(Cells), old = m[At(c)].chunks
    PROVE  Owned(o, L \ {c}, F, g, Append(old, c), N)
<1> DEFINE a == Append(old, c)
<1>1. IsInjective(old) /\ c \notin Range(old)
  BY DEF Owned
<1>2. a \in Seq(Cells) /\ IsInjective(a) /\ Range(a) = Range(old) \cup {c}
  BY <1>1, AppendedOnce
<1> HIDE DEF a
<1>3. Range(a) = Own(m, c)
  BY <1>2 DEF Own
<1>4. \A d \in L \ {c} : Own(o, d) = Own(m, d)
  BY DEF SameChunks, Own
<1>5. \A d \in L \ {c} : IsInjective(o[At(d)].chunks) /\ d \notin Range(o[At(d)].chunks)
  BY DEF Owned, SameChunks
<1>6. /\ F \subseteq Cells /\ N \subseteq Cells /\ g \in Seq(Cells) /\ IsInjective(g)
      /\ F \cap Range(g) = {} /\ F \cap N = {} /\ Range(g) \cap N = {}
  BY DEF Owned
<1>7. \A d \in L \ {c} : Own(m, d) \cap F = {} /\ Own(m, d) \cap Range(g) = {}
                         /\ Own(m, d) \cap N = {} /\ Own(m, d) \cap Own(m, c) = {}
  BY DEF Owned
<1>8. \A d, e \in L \ {c} : d # e => Own(m, d) \cap Own(m, e) = {}
  BY DEF Owned
<1>9. Own(m, c) \cap F = {} /\ Own(m, c) \cap Range(g) = {} /\ Own(m, c) \cap N = {}
  BY DEF Owned
<1>10. Owned(o, L \ {c}, F, g, a, N)
  BY <1>2, <1>3, <1>4, <1>5, <1>6, <1>7, <1>8, <1>9 DEF Owned
<1> QED BY <1>10 DEF a

\* A unit is given back.
LEMMA OwnedGiven ==
    ASSUME NEW m, NEW L, NEW F, NEW g, NEW l, NEW N, Owned(m, L, F, g, l, N), l # <<>>
    PROVE  Owned(m, L, F \cup {l[1]}, g, Tail(l), N)
<1> DEFINE b == Tail(l)
           u == l[1]
<1>1. /\ b \in Seq(Cells) /\ IsInjective(b)
      /\ u \in Cells /\ u \in Range(l) /\ Range(b) = Range(l) \ {u}
  BY TailOnce DEF Owned
<1> HIDE DEF b, u
<1>2. Owned(m, L, F \cup {u}, g, b, N)
  BY <1>1 DEF Owned
<1> QED BY <1>2 DEF b, u

-----------------------------------------------------------------------------
(* The map and the steps that change it                                    *)

TypeFields == {"iDirtyCount", "iElementCount", "iOnlyKeyCount", "iListCount"} \cup Contents

\* The fields that Typed speaks of may be all that stays.
LEMMA TypedKept ==
    ASSUME NEW m, NEW n, NEW F, Typed(m), Same(m, n, F), TypeFields \subseteq F
    PROVE  Typed(n)
<1>1. Shape(m) /\ Shape(n)
  BY ShapeKept DEF Typed
<1>2. \A f \in {"iDirtyCount", "iElementCount", "iOnlyKeyCount"} :
        f \in HeadFields /\ f \in F
  BY DEF HeadFields, TypeFields
<1>3. \A f \in {"iDirtyCount", "iElementCount", "iOnlyKeyCount"} : n[Root][f] = m[Root][f]
  BY <1>1, <1>2 DEF Same, Shape
<1>4. \A i \in Buckets : n[Item(i)].iListCount = m[Item(i)].iListCount
  BY <1>1 DEF Same, Shape, ItemFields, TypeFields
<1>5. \A f \in Contents : f \in BlockFields /\ f \in F
  BY DEF Contents, BlockFields, TypeFields
<1>6. \A c \in Cells : \A f \in Contents : n[At(c)][f] = m[At(c)][f]
  BY <1>1, <1>5 DEF Same, Shape
<1>7. \A c \in Cells : /\ n[At(c)].bDirty = m[At(c)].bDirty /\ n[At(c)].bOnlyKey = m[At(c)].bOnlyKey
                       /\ n[At(c)].chunks = m[At(c)].chunks /\ n[At(c)].key = m[At(c)].key
                       /\ n[At(c)].data = m[At(c)].data
  BY <1>6 DEF Contents
<1> QED BY <1>1, <1>3, <1>4, <1>7 DEF Typed

\* The memory of a map: its records are typed, its blocks linked, its marks on them,
\* and each bucket with a block is that of a key.
Listed(m) ==
    /\ Typed(m)
    /\ \E s, g, h : Links(m, s, g, h)
    /\ MarksOn(m, LinkedIn(m))
    /\ \A c \in LinkedIn(m) : \E k \in Keys : Index[k] = m[At(c)].iIndex

\* Memory o is that of a map with the same blocks as memory m.
StaysListed(m, o) == Listed(o) /\ LinkedIn(o) = LinkedIn(m)

\* New lists and chains of the same blocks.
LEMMA Relinked ==
    ASSUME HashMapAssumption, NEW m, NEW o, Listed(m), Typed(o), MarksOn(o, LinkedIn(m)),
           NEW s, NEW g, NEW h, Links(m, s, g, h), NEW t, NEW u, NEW r, Links(o, t, u, r),
           Range(t) = Range(s), Same(m, o, {"iIndex"})
    PROVE  StaysListed(m, o)
<1>1. LinkedIn(m) = Range(s) /\ LinkedIn(o) = Range(t) /\ LinkedIn(m) \subseteq Cells
  BY LinksFound
<1>2. \A c \in Cells : o[At(c)].iIndex = m[At(c)].iIndex
  BY DEF Links, Shape, Same, BlockFields
<1>3. \A c \in LinkedIn(o) : \E k \in Keys : Index[k] = o[At(c)].iIndex
  BY <1>1, <1>2 DEF Listed
<1>4. \E a, b, c : Links(o, a, b, c)
  OBVIOUS
<1> QED BY <1>1, <1>3, <1>4 DEF Listed, StaysListed

\* The map stays when the fields of its lists and chains do.
LEMMA LinksStay ==
    ASSUME HashMapAssumption, NEW m, NEW o, Listed(m), Typed(o), MarksOn(o, LinkedIn(m)),
           NEW F, Same(m, o, F), SetFields \cup GetFields \cup ChainFields \subseteq F
    PROVE  StaysListed(m, o)
<1>1. PICK s, g, h : Links(m, s, g, h)
  BY DEF Listed
<1>2. Links(o, s, g, h)
  BY <1>1, LinksKept
<1>3. Same(m, o, {"iIndex"})
  BY SameLess DEF ChainFields
<1> QED BY <1>1, <1>2, <1>3, Relinked

\* The neighbours of a block of the map are other blocks of it, or none.
LEMMA Neighbours ==
    ASSUME HashMapAssumption, NEW m, Listed(m), NEW c \in LinkedIn(m)
    PROVE  /\ c \in Cells /\ c # 0
           /\ m[At(c)].iSetPrev \in (LinkedIn(m) \ {c}) \cup {0}
           /\ m[At(c)].iGetPrev \in (LinkedIn(m) \ {c}) \cup {0}
<1>1. PICK s, g, h : Links(m, s, g, h)
  BY DEF Listed
<1>2. LinkedIn(m) = Range(s) /\ LinkedIn(m) = Range(g) /\ LinkedIn(m) \subseteq Cells
  BY <1>1, LinksFound
<1>3. IsPath(m, "iSetNext", "iSetPrev", s) /\ IsPath(m, "iGetNext", "iGetPrev", g)
  BY <1>1, SetLinks DEF Links, IsList
<1>4. Range(s) = {s[n] : n \in 1..Len(s)} /\ Range(g) = {g[n] : n \in 1..Len(g)}
  BY <1>3, PathFacts
<1>5. PICK k \in 1..Len(s) : c = s[k]
  BY <1>2, <1>4
<1>6. PICK j \in 1..Len(g) : c = g[j]
  BY <1>2, <1>4
<1>7. m[At(c)].iSetPrev \in (Range(s) \ {c}) \cup {0}
  BY <1>3, <1>5, PathNeighbours
<1>8. m[At(c)].iGetPrev \in (Range(g) \ {c}) \cup {0}
  BY <1>3, <1>6, PathNeighbours
<1> QED BY <1>2, <1>7, <1>8, CellFacts

\* The tails of the lists are blocks of the map, or none.
LEMMA Tails ==
    ASSUME HashMapAssumption, NEW m, Listed(m)
    PROVE  /\ m[Root].iSetTail \in LinkedIn(m) \cup {0}
           /\ m[Root].iGetTail \in LinkedIn(m) \cup {0}
<1>1. PICK s, g, h : Links(m, s, g, h)
  BY DEF Listed
<1>2. LinkedIn(m) = Range(s) /\ LinkedIn(m) = Range(g)
  BY <1>1, LinksFound
<1>3. /\ IsPath(m, "iSetNext", "iSetPrev", s) /\ IsPath(m, "iGetNext", "iGetPrev", g)
      /\ m[Root].iSetTail = Final(s) /\ m[Root].iGetTail = Final(g)
  BY <1>1, SetLinks DEF Links, IsList
<1>4. ASSUME NEW next, NEW prev, NEW t, IsPath(m, next, prev, t)
      PROVE  Final(t) \in Range(t) \cup {0}
  <2>1. /\ Len(t) \in Nat /\ (t = <<>> <=> Len(t) = 0) /\ Range(t) = {t[n] : n \in 1..Len(t)}
    BY <1>4, PathFacts
  <2>2. t # <<>> => Len(t) \in 1..Len(t)
    BY <2>1
  <2> QED BY <2>1, <2>2 DEF Final
<1> QED BY <1>2, <1>3, <1>4

\* A record of a block that differs from that of c in what it holds only.
Rewrites(b, m, c) ==
    /\ DOMAIN b = BlockFields /\ \A f \in BlockFields \ Contents : b[f] = m[At(c)][f]
    /\ b.bDirty \in BOOLEAN /\ b.bOnlyKey \in BOOLEAN /\ b.key \in Keys \cup {NoKey}
    /\ b.data \in {"whole", "empty", "zero", "torn", "wild"} /\ b.chunks \in Seq(Cells)

\* One record of a block changes what it holds, not where it is linked.
LEMMA ContentsChanged ==
    ASSUME HashMapAssumption, NEW m, Listed(m), NEW c \in Cells, NEW b, Rewrites(b, m, c),
           NEW o, o = [m EXCEPT ![At(c)] = b]
    PROVE  /\ StaysListed(m, o)
           /\ SameChunks(m, o, Cells \ {c}) /\ o[At(c)].chunks = b.chunks
<1>1. /\ DOMAIN b = BlockFields /\ \A f \in BlockFields \ Contents : b[f] = m[At(c)][f]
      /\ b.bDirty \in BOOLEAN /\ b.bOnlyKey \in BOOLEAN /\ b.key \in Keys \cup {NoKey}
      /\ b.data \in {"whole", "empty", "zero", "torn", "wild"} /\ b.chunks \in Seq(Cells)
  BY DEF Rewrites
<1>2. Shape(m)
  BY DEF Listed, Typed
<1>3. /\ DOMAIN o = DOMAIN m /\ o[At(c)] = b
      /\ \A a \in DOMAIN m : a # At(c) => o[a] = m[a]
  BY <1>2 DEF Shape
<1>4. DOMAIN m[At(c)] = BlockFields
  BY <1>2 DEF Shape
<1>5. Same(m, o, AllFields \ Contents)
  <2>1. ASSUME NEW a \in DOMAIN m, NEW f \in DOMAIN m[a], f \notin Contents
        PROVE  o[a][f] = m[a][f]
    BY <1>1, <1>3, <1>4, <2>1
  <2>2. \A a \in DOMAIN m : DOMAIN o[a] = DOMAIN m[a]
    BY <1>1, <1>3, <1>4
  <2> QED BY <1>3, <2>1, <2>2 DEF Same
<1>6. \A d \in Cells : o[At(d)] = IF d = c THEN b ELSE m[At(d)]
  BY <1>2, <1>3, Addresses DEF Shape
<1>7. o[Root] = m[Root] /\ \A i \in Buckets : o[Item(i)] = m[Item(i)]
  BY <1>2, <1>3, Addresses DEF Shape
<1>8. Typed(o)
  <2>1. Shape(o)
    BY <1>2, <1>5, ShapeKept
  <2> QED BY <1>1, <1>6, <1>7, <2>1 DEF Typed, Listed
<1>9. MarksOn(o, LinkedIn(m))
  BY <1>7 DEF MarksOn, Listed
<1>10. SetFields \cup GetFields \cup ChainFields \subseteq AllFields \ Contents
  BY DEF SetFields, GetFields, ChainFields, AllFields, HeadFields, ItemFields, BlockFields, Contents
<1>11. StaysListed(m, o)
  BY <1>5, <1>8, <1>9, <1>10, LinksStay
<1> QED BY <1>6, <1>11 DEF SameChunks

\* A field of the head of the map is written.
LEMMA RootWritten ==
    ASSUME NEW m, Root \in DOMAIN m, NEW f, NEW v, NEW o, o = One(m, Put(Root, f, v))
    PROVE  /\ DOMAIN o = DOMAIN m /\ DOMAIN o[Root] = DOMAIN m[Root]
           /\ \A e \in DOMAIN m[Root] : o[Root][e] = IF e = f THEN v ELSE m[Root][e]
           /\ \A a \in DOMAIN m : a # Root => o[a] = m[a]
<1> DEFINE u == Put(Root, f, v)
<1>1. u[1] = Root /\ u[2] = f /\ u[3] = v
  BY PutReads
<1> HIDE DEF u
<1>2. o = [m EXCEPT ![u[1]][u[2]] = u[3]]
  BY DEF One, u
<1>3. o = [m EXCEPT ![Root] = [m[Root] EXCEPT ![f] = v]]
  BY <1>1, <1>2
<1> DEFINE b == [m[Root] EXCEPT ![f] = v]
<1>4. DOMAIN b = DOMAIN m[Root] /\ \A e \in DOMAIN m[Root] : b[e] = IF e = f THEN v ELSE m[Root][e]
  OBVIOUS
<1> HIDE DEF b
<1>5. DOMAIN o = DOMAIN m /\ o[Root] = b /\ \A a \in DOMAIN m : a # Root => o[a] = m[a]
  BY <1>3 DEF b
<1> QED BY <1>4, <1>5

\* A mark is written.
LEMMA MarkWritten ==
    ASSUME HashMapAssumption, NEW m, Listed(m), NEW mark \in Marks, NEW v \in LinkedIn(m) \cup {0},
           NEW o, o = One(m, Put(Root, mark, v))
    PROVE  StaysListed(m, o) /\ SameChunks(m, o, Cells)
<1>1. Shape(m) /\ mark \in HeadFields
  BY DEF Listed, Typed, Marks, HeadFields
<1>2. /\ DOMAIN o = DOMAIN m /\ DOMAIN o[Root] = DOMAIN m[Root]
      /\ \A f \in HeadFields : o[Root][f] = IF f = mark THEN v ELSE m[Root][f]
      /\ \A a \in DOMAIN m : a # Root => o[a] = m[a]
  BY <1>1, RootWritten DEF Shape
<1>3. Same(m, o, AllFields \ Marks)
  <2>1. \A f \in DOMAIN m[Root] : f \notin Marks => o[Root][f] = m[Root][f]
    BY <1>1, <1>2 DEF Shape
  <2> QED BY <1>2, <2>1 DEF Same
<1>4. /\ SetFields \cup GetFields \cup ChainFields \subseteq AllFields \ Marks
      /\ TypeFields \subseteq AllFields \ Marks
  BY DEF SetFields, GetFields, ChainFields, AllFields, HeadFields, ItemFields, BlockFields, Marks,
         TypeFields, Contents
<1>5. Typed(o)
  BY <1>3, <1>4, TypedKept DEF Listed
<1>6. MarksOn(o, LinkedIn(m))
  <2>1. Marks \subseteq HeadFields
    BY DEF Marks, HeadFields
  <2> QED BY <1>2, <2>1 DEF MarksOn, Listed
<1>7. SameChunks(m, o, Cells)
  BY <1>1, <1>2, Addresses DEF SameChunks, Shape
<1> QED BY <1>3, <1>4, <1>5, <1>6, <1>7, LinksStay

\* A mark goes on if it is on a block.
LEMMA MarkStepped ==
    ASSUME HashMapAssumption, Listed(memory), NEW c \in LinkedIn(memory),
           NEW o, o = Updated(Step(memory, "iDirtyTail", SetList, c), memory)
    PROVE  StaysListed(memory, o) /\ SameChunks(memory, o, Cells)
<1> DEFINE v == memory[At(c)].iSetPrev
           u == <<Put(Root, "iDirtyTail", v)>>
<1>1. v \in LinkedIn(memory) \cup {0}
  BY Neighbours
<1>2. o = IF memory[Root].iDirtyTail = c THEN Updated(u, memory) ELSE memory
  BY UpdatedNone, SetLinks DEF Step, If
<1>3. CASE memory[Root].iDirtyTail = c
  <2>1. Updated(u, memory) = One(memory, Put(Root, "iDirtyTail", v))
    BY UpdatedOne
  <2>2. o = One(memory, Put(Root, "iDirtyTail", v)) /\ "iDirtyTail" \in Marks
    BY <1>2, <1>3, <2>1 DEF Marks
  <2> HIDE DEF v
  <2> QED BY <1>1, <2>2, MarkWritten
<1>4. CASE memory[Root].iDirtyTail # c
  BY <1>2, <1>4 DEF SameChunks, StaysListed
<1> QED BY <1>3, <1>4

\* A count of the map is written.
LEMMA CountWritten ==
    ASSUME HashMapAssumption, NEW m, Listed(m), NEW f \in {"iDirtyCount", "iOnlyKeyCount"},
           NEW v \in Int, NEW o, o = Updated(<<Put(Root, f, v)>>, m)
    PROVE  StaysListed(m, o) /\ SameChunks(m, o, Cells)
<1>1. o = One(m, Put(Root, f, v))
  BY UpdatedOne
<1>2. Shape(m) /\ f \in HeadFields /\ f \notin Marks
  BY DEF Listed, Typed, Marks, HeadFields
<1>3. /\ DOMAIN o = DOMAIN m /\ DOMAIN o[Root] = DOMAIN m[Root]
      /\ \A e \in HeadFields : o[Root][e] = IF e = f THEN v ELSE m[Root][e]
      /\ \A a \in DOMAIN m : a # Root => o[a] = m[a]
  <2>1. Root \in DOMAIN m /\ DOMAIN m[Root] = HeadFields
    BY <1>2 DEF Shape
  <2> QED BY ONLY <1>1, <2>1, RootWritten
<1>4. Same(m, o, AllFields \ {f})
  <2>1. \A e \in DOMAIN m[Root] : e # f => o[Root][e] = m[Root][e]
    BY <1>2, <1>3 DEF Shape
  <2> QED BY <1>3, <2>1 DEF Same
<1>5. SetFields \cup GetFields \cup ChainFields \subseteq AllFields \ {f}
  BY DEF SetFields, GetFields, ChainFields, AllFields, HeadFields, ItemFields, BlockFields
<1>6. \A c \in Cells : o[At(c)] = m[At(c)]
  BY <1>2, <1>3, Addresses DEF Shape
<1>7. \A i \in Buckets : o[Item(i)] = m[Item(i)]
  BY <1>2, <1>3, Addresses DEF Shape
<1>8. Typed(o)
  <2>1. Shape(o)
    BY <1>2, <1>4, ShapeKept
  <2>2. \A e \in {"iDirtyCount", "iElementCount", "iOnlyKeyCount"} : e \in HeadFields /\ m[Root][e] \in Int
    BY DEF HeadFields, Listed, Typed
  <2>3. \A e \in {"iDirtyCount", "iElementCount", "iOnlyKeyCount"} : o[Root][e] \in Int
    BY <1>3, <2>2
  <2> QED BY <1>6, <1>7, <2>1, <2>3 DEF Listed, Typed
<1>9. MarksOn(o, LinkedIn(m))
  <2>1. \A mark \in Marks : mark \in HeadFields /\ mark # f
    BY <1>2 DEF Marks, HeadFields
  <2> QED BY <1>3, <2>1 DEF MarksOn, Listed
<1> QED BY <1>4, <1>5, <1>6, <1>8, <1>9, LinksStay DEF SameChunks

\* The contents of the blocks, field by field.
LEMMA SameContents ==
    ASSUME NEW m, NEW o, Shape(m), NEW F, Same(m, o, F), Contents \cup {"iIndex"} \subseteq F
    PROVE  \A d \in Cells : /\ o[At(d)].bDirty = m[At(d)].bDirty
                            /\ o[At(d)].bOnlyKey = m[At(d)].bOnlyKey
                            /\ o[At(d)].chunks = m[At(d)].chunks /\ o[At(d)].key = m[At(d)].key
                            /\ o[At(d)].data = m[At(d)].data /\ o[At(d)].iIndex = m[At(d)].iIndex
<1>1. \A f \in Contents \cup {"iIndex"} : f \in BlockFields /\ f \in F
  BY DEF Contents, BlockFields
<1>2. \A d \in Cells : \A f \in Contents \cup {"iIndex"} : o[At(d)][f] = m[At(d)][f]
  BY <1>1 DEF Same, Shape
<1> QED BY <1>2 DEF Contents

\* A block that is blank or new.
LEMMA NewBlockFields ==
    /\ \A i : /\ NewBlock(i).bDirty = TRUE /\ NewBlock(i).bOnlyKey = FALSE
              /\ NewBlock(i).chunks = <<>> /\ NewBlock(i).key = NoKey
              /\ NewBlock(i).data = "empty" /\ NewBlock(i).iIndex = i
    /\ Blank.bDirty = FALSE /\ Blank.bOnlyKey = FALSE /\ Blank.chunks = <<>>
    /\ Blank.key = NoKey /\ Blank.data = "empty"
BY DEF NewBlock, Blank

\* erase leaves the memory of a map without the block.
LEMMA ListedErase ==
    ASSUME HashMapAssumption, Listed(memory), NEW c \in LinkedIn(memory),
           NEW o, o = Updated(erase(c), memory), NEW n, n = [o EXCEPT ![At(c)] = Blank]
    PROVE  /\ Listed(n) /\ LinkedIn(n) = LinkedIn(memory) \ {c}
           /\ SameChunks(memory, n, LinkedIn(memory) \ {c})
           /\ EraseReads(memory, o, c) /\ Shape(o)
<1>1. PICK s, g, h : Links(memory, s, g, h)
  BY DEF Listed
<1>2. LinkedIn(memory) = Range(s) /\ LinkedIn(memory) = Range(g) /\ LinkedIn(memory) \subseteq Cells
  BY <1>1, LinksFound
<1>3. /\ IsPath(memory, SetList.next, SetList.prev, s)
      /\ IsPath(memory, GetList.next, GetList.prev, g)
  BY <1>1 DEF Links, IsList
<1>4. Range(s) = {s[q] : q \in 1..Len(s)} /\ Range(g) = {g[q] : q \in 1..Len(g)}
  BY <1>3, PathFacts
<1>5. PICK k \in 1..Len(s) : c = s[k]
  BY <1>2, <1>4
<1>6. PICK j \in 1..Len(g) : c = g[j]
  BY <1>2, <1>4
<1>7. Typed(memory) /\ Shape(memory)
  BY DEF Listed, Typed
<1>8. /\ \E r : Links(n, Without(s, k), Without(g, j), r)
      /\ EraseReads(memory, o, c) /\ Shape(o) /\ c \in Cells
  BY <1>1, <1>5, <1>6, <1>7, EraseEffect
<1>9. PICK r : Links(n, Without(s, k), Without(g, j), r)
  BY <1>8
<1>10. LinkedIn(n) = Range(Without(s, k))
  BY <1>9, LinksFound
<1>11. Range(Without(s, k)) = Range(s) \ {c}
  <2>1. s \in Seq(Cells) /\ IsInjective(s) /\ k \in 1..Len(s) /\ c = s[k]
    BY <1>3, <1>5 DEF IsPath
  <2> QED BY ONLY <2>1, WithoutRange
<1>12. LinkedIn(n) = LinkedIn(memory) \ {c}
  BY <1>2, <1>10, <1>11
<1>13. /\ n[Root] = o[Root] /\ \A i \in Buckets : n[Item(i)] = o[Item(i)]
       /\ \A d \in Cells : n[At(d)] = IF d = c THEN Blank ELSE o[At(d)]
  BY <1>8, Addresses DEF Shape
<1>14. \A d \in Cells : /\ o[At(d)].bDirty = memory[At(d)].bDirty
                        /\ o[At(d)].bOnlyKey = memory[At(d)].bOnlyKey
                        /\ o[At(d)].chunks = memory[At(d)].chunks /\ o[At(d)].key = memory[At(d)].key
                        /\ o[At(d)].data = memory[At(d)].data /\ o[At(d)].iIndex = memory[At(d)].iIndex
  <2>1. Same(memory, o, Contents \cup {"iIndex"})
    BY <1>8 DEF EraseReads
  <2> QED BY <1>7, <2>1, SameContents
<1>15. Typed(n)
  <2>1. Shape(n)
    BY <1>9 DEF Links
  <2>2. \A f \in {"iDirtyCount", "iElementCount", "iOnlyKeyCount"} : n[Root][f] \in Int
    <3>1. n[Root].iDirtyCount \in Int /\ n[Root].iOnlyKeyCount \in Int /\ n[Root].iElementCount \in Int
      <4>1. /\ memory[Root].iDirtyCount \in Int /\ memory[Root].iOnlyKeyCount \in Int
            /\ memory[Root].iElementCount \in Int
        BY <1>7 DEF Typed
      <4>2. /\ o[Root].iDirtyCount = memory[Root].iDirtyCount
               \/ o[Root].iDirtyCount = memory[Root].iDirtyCount + (-1)
            /\ o[Root].iOnlyKeyCount = memory[Root].iOnlyKeyCount
               \/ o[Root].iOnlyKeyCount = memory[Root].iOnlyKeyCount + (-1)
            /\ o[Root].iElementCount = memory[Root].iElementCount + (-1)
        BY <1>8 DEF EraseReads
      <4>3. ASSUME NEW x \in Int, NEW y, y = x \/ y = x + (-1) PROVE y \in Int
        BY <4>3
      <4>4. n[Root].iDirtyCount \in Int
        BY ONLY <1>13, <4>1, <4>2, <4>3
      <4>5. n[Root].iOnlyKeyCount \in Int
        BY ONLY <1>13, <4>1, <4>2, <4>3
      <4>6. n[Root].iElementCount \in Int
        BY ONLY <1>13, <4>1, <4>2, <4>3
      <4> QED BY ONLY <4>4, <4>5, <4>6
    <3> QED BY <3>1
  <2>3. \A i \in Buckets : n[Item(i)].iListCount \in Int
    <3>1. ASSUME NEW i \in Buckets PROVE n[Item(i)].iListCount \in Int
      <4>1. memory[Item(i)].iListCount \in Int
        BY <1>7 DEF Typed
      <4>2. \E q \in {-1, 0} : o[Item(i)].iListCount = memory[Item(i)].iListCount + q
        BY <1>8 DEF EraseReads
      <4> QED BY <1>13, <4>1, <4>2
    <3> QED BY <3>1
  <2>4. \A d \in Cells : /\ n[At(d)].bDirty \in BOOLEAN /\ n[At(d)].bOnlyKey \in BOOLEAN
                         /\ n[At(d)].key \in Keys \cup {NoKey}
                         /\ n[At(d)].data \in {"whole", "empty", "zero", "torn", "wild"}
                         /\ n[At(d)].chunks \in Seq(Cells)
    <3>1. ASSUME NEW d \in Cells, d # c
          PROVE  /\ n[At(d)].bDirty \in BOOLEAN /\ n[At(d)].bOnlyKey \in BOOLEAN
                 /\ n[At(d)].key \in Keys \cup {NoKey}
                 /\ n[At(d)].data \in {"whole", "empty", "zero", "torn", "wild"}
                 /\ n[At(d)].chunks \in Seq(Cells)
      BY <1>7, <1>13, <1>14, <3>1 DEF Typed
    <3>2. /\ n[At(c)].bDirty \in BOOLEAN /\ n[At(c)].bOnlyKey \in BOOLEAN
          /\ n[At(c)].key \in Keys \cup {NoKey}
          /\ n[At(c)].data \in {"whole", "empty", "zero", "torn", "wild"}
          /\ n[At(c)].chunks \in Seq(Cells)
      BY ONLY <1>8, <1>13, NewBlockFields, NoneOnce
    <3> QED BY <3>1, <3>2
  <2> QED BY <2>1, <2>2, <2>3, <2>4 DEF Typed
<1>16. MarksOn(n, LinkedIn(memory) \ {c})
  <2>1. /\ memory[At(c)].iSetPrev \in (LinkedIn(memory) \ {c}) \cup {0}
        /\ memory[At(c)].iGetPrev \in (LinkedIn(memory) \ {c}) \cup {0}
    BY Neighbours
  <2>2. \A f \in Marks : memory[Root][f] \in LinkedIn(memory) \cup {0}
    BY DEF Listed, MarksOn
  <2>3. /\ n[Root].iDirtyTail \in (LinkedIn(memory) \ {c}) \cup {0}
        /\ n[Root].iSyncTail \in (LinkedIn(memory) \ {c}) \cup {0}
        /\ n[Root].iBackupTail \in (LinkedIn(memory) \ {c}) \cup {0}
    BY <1>8, <1>13, <2>1, <2>2 DEF EraseReads, Marks
  <2> QED BY <2>3 DEF MarksOn, Marks
<1>17. \A d \in LinkedIn(n) : \E q \in Keys : Index[q] = n[At(d)].iIndex
  BY <1>2, <1>12, <1>13, <1>14 DEF Listed
<1>18. \E a, b, d : Links(n, a, b, d)
  BY <1>9
<1>19. SameChunks(memory, n, LinkedIn(memory) \ {c})
  BY <1>2, <1>13, <1>14 DEF SameChunks
<1> QED BY <1>8, <1>12, <1>15, <1>16, <1>17, <1>18, <1>19 DEF Listed

\* makeNew leaves the memory of a map with the block.
LEMMA ListedMake ==
    ASSUME HashMapAssumption, Listed(memory), NEW c \in Cells, c \notin LinkedIn(memory),
           NEW i \in Buckets, \E k \in Keys : Index[k] = i,
           NEW m, m = [memory EXCEPT ![At(c)] = NewBlock(i)],
           NEW o, o = Updated(makeNew(c, i), m)
    PROVE  /\ Listed(o) /\ LinkedIn(o) = LinkedIn(memory) \cup {c}
           /\ SameChunks(memory, o, LinkedIn(memory)) /\ o[At(c)].chunks = <<>>
           /\ MakeReads(m, o, c, i) /\ Shape(m)
<1>1. PICK s, g, h : Links(memory, s, g, h)
  BY DEF Listed
<1>2. LinkedIn(memory) = Range(s) /\ LinkedIn(memory) \subseteq Cells
  BY <1>1, LinksFound
<1>3. Typed(memory) /\ Shape(memory)
  BY DEF Listed, Typed
<1>4. /\ \E r : Links(o, OnTop(c, s), OnTop(c, g), r)
      /\ MakeReads(m, o, c, i) /\ Shape(m) /\ Shape(o)
  BY <1>1, <1>2, <1>3, MakeEffect
<1>5. PICK r : Links(o, OnTop(c, s), OnTop(c, g), r)
  BY <1>4
<1>6. LinkedIn(o) = Range(OnTop(c, s))
  BY <1>5, LinksFound
<1>7. IsPath(memory, SetList.next, SetList.prev, s)
  BY <1>1 DEF Links, IsList
<1>8. Range(OnTop(c, s)) = Range(s) \cup {c}
  BY <1>2, <1>7, OnTopFacts DEF IsPath
<1>9. LinkedIn(o) = LinkedIn(memory) \cup {c}
  BY <1>2, <1>6, <1>8
<1>10. /\ m[Root] = memory[Root] /\ \A j \in Buckets : m[Item(j)] = memory[Item(j)]
       /\ \A d \in Cells : m[At(d)] = IF d = c THEN NewBlock(i) ELSE memory[At(d)]
  BY <1>3, Addresses DEF Shape
<1>11. Same(m, o, Contents \cup {"iIndex"} \cup Marks)
  BY <1>4 DEF MakeReads
<1>12. \A d \in Cells : /\ o[At(d)].bDirty = m[At(d)].bDirty
                        /\ o[At(d)].bOnlyKey = m[At(d)].bOnlyKey
                        /\ o[At(d)].chunks = m[At(d)].chunks /\ o[At(d)].key = m[At(d)].key
                        /\ o[At(d)].data = m[At(d)].data /\ o[At(d)].iIndex = m[At(d)].iIndex
  <2> DEFINE F == Contents \cup {"iIndex"} \cup Marks
  <2>1. Contents \cup {"iIndex"} \subseteq F /\ Same(m, o, F) /\ Shape(m)
    BY <1>4, <1>11
  <2> HIDE DEF F
  <2> QED BY ONLY <2>1, SameContents
<1>13. Typed(o)
  <2>1. o[Root].iDirtyCount \in Int /\ o[Root].iOnlyKeyCount \in Int /\ o[Root].iElementCount \in Int
    <3>1. /\ memory[Root].iDirtyCount \in Int /\ memory[Root].iOnlyKeyCount \in Int
          /\ memory[Root].iElementCount \in Int
      BY <1>3 DEF Typed
    <3>2. /\ o[Root].iDirtyCount = m[Root].iDirtyCount + 1
          /\ o[Root].iElementCount = m[Root].iElementCount + 1
          /\ o[Root].iOnlyKeyCount = m[Root].iOnlyKeyCount
      BY <1>4 DEF MakeReads
    <3> QED BY <1>10, <3>1, <3>2
  <2>2. \A f \in {"iDirtyCount", "iElementCount", "iOnlyKeyCount"} : o[Root][f] \in Int
    BY <2>1
  <2>3. ASSUME NEW j \in Buckets PROVE o[Item(j)].iListCount \in Int
    <3>1. memory[Item(j)].iListCount \in Int
      BY <1>3 DEF Typed
    <3>2. \E q \in {0, 1} : o[Item(j)].iListCount = m[Item(j)].iListCount + q
      BY <1>4 DEF MakeReads
    <3> QED BY <1>10, <3>1, <3>2
  <2>4. ASSUME NEW d \in Cells
        PROVE  /\ o[At(d)].bDirty \in BOOLEAN /\ o[At(d)].bOnlyKey \in BOOLEAN
               /\ o[At(d)].key \in Keys \cup {NoKey}
               /\ o[At(d)].data \in {"whole", "empty", "zero", "torn", "wild"}
               /\ o[At(d)].chunks \in Seq(Cells)
    <3>1. CASE d = c
      <4>1. m[At(d)] = NewBlock(i)
        BY <1>10, <3>1
      <4>2. /\ o[At(d)].bDirty = TRUE /\ o[At(d)].bOnlyKey = FALSE
            /\ o[At(d)].chunks = <<>> /\ o[At(d)].key = NoKey /\ o[At(d)].data = "empty"
        BY ONLY <1>12, <2>4, <4>1, NewBlockFields
      <4> QED BY <4>2, NoneOnce
    <3>2. CASE d # c
      BY ONLY <1>3, <1>10, <1>12, <2>4, <3>2 DEF Typed
    <3> QED BY <3>1, <3>2
  <2> QED BY <1>4, <2>2, <2>3, <2>4 DEF Typed
<1>14. MarksOn(o, LinkedIn(o))
  <2>1. \A mark \in Marks : o[Root][mark] = m[Root][mark]
    <3>1. Marks \subseteq HeadFields
      BY DEF Marks, HeadFields
    <3>2. Root \in DOMAIN m /\ DOMAIN m[Root] = HeadFields
      BY <1>4 DEF Shape
    <3> QED BY ONLY <1>11, <3>1, <3>2 DEF Same
  <2> QED BY <1>9, <1>10, <2>1 DEF Listed, MarksOn
<1>15. \A d \in LinkedIn(o) : \E q \in Keys : Index[q] = o[At(d)].iIndex
  <2>1. o[At(c)].iIndex = i
    BY ONLY c \in Cells, <1>10, <1>12, NewBlockFields
  <2>2. \A d \in LinkedIn(memory) : o[At(d)].iIndex = memory[At(d)].iIndex
    BY ONLY c \notin LinkedIn(memory), <1>2, <1>10, <1>12
  <2>3. \A d \in LinkedIn(memory) : \E q \in Keys : Index[q] = memory[At(d)].iIndex
    BY DEF Listed
  <2> QED BY ONLY \E k \in Keys : Index[k] = i, <1>9, <2>1, <2>2, <2>3
<1>16. \E a, b, d : Links(o, a, b, d)
  BY <1>5
<1>17. SameChunks(memory, o, LinkedIn(memory)) /\ o[At(c)].chunks = <<>>
  BY ONLY c \in Cells, c \notin LinkedIn(memory), <1>2, <1>10, <1>12, NewBlockFields DEF SameChunks
<1> QED BY <1>4, <1>9, <1>13, <1>14, <1>15, <1>16, <1>17 DEF Listed

\* What of the memory the moves in the lists leave alone.
LEMMA MovedFields ==
    ASSUME NEW m, NEW o, Typed(m), NEW F, Same(m, o, AllFields \ F),
           F \subseteq SetFields \cup GetFields \cup Marks
    PROVE  /\ Typed(o) /\ Same(m, o, {"iIndex"}) /\ SameChunks(m, o, Cells)
           /\ Same(m, o, Marks \ F)
<1>1. TypeFields \subseteq AllFields \ F
  BY DEF SetFields, GetFields, AllFields, HeadFields, ItemFields, BlockFields, Marks,
         TypeFields, Contents
<1>2. Contents \cup {"iIndex"} \subseteq AllFields \ F
  BY DEF SetFields, GetFields, AllFields, HeadFields, ItemFields, BlockFields, Marks, Contents
<1>3. Marks \ F \subseteq AllFields \ F
  BY DEF AllFields, HeadFields, Marks
<1>4. Typed(o)
  BY <1>1, TypedKept
<1>5. Same(m, o, {"iIndex"}) /\ Same(m, o, Marks \ F)
  BY <1>2, <1>3, SameLess
<1>6. SameChunks(m, o, Cells)
  BY <1>2, SameContents DEF Typed, SameChunks
<1> QED BY <1>4, <1>5, <1>6

\* A mark stays when its field does.
LEMMA MarkKept ==
    ASSUME NEW m, NEW o, Shape(m), NEW F, Same(m, o, F), NEW mark \in Marks, mark \in F
    PROVE  o[Root][mark] = m[Root][mark]
BY DEF Same, Shape, Marks, HeadFields

\* refreshSetList keeps the map and its blocks.
LEMMA ListedRefreshSet ==
    ASSUME HashMapAssumption, Listed(memory), NEW c \in LinkedIn(memory),
           NEW o, o = Updated(refreshSetList(c), memory)
    PROVE  StaysListed(memory, o) /\ SameChunks(memory, o, Cells)
<1>1. PICK s, g, h : Links(memory, s, g, h)
  BY DEF Listed
<1>2. LinkedIn(memory) = Range(s)
  BY <1>1, LinksFound
<1>3. IsPath(memory, SetList.next, SetList.prev, s)
  BY <1>1 DEF Links, IsList
<1>4. Range(s) = {s[q] : q \in 1..Len(s)}
  BY <1>3, PathFacts
<1>5. PICK k \in 1..Len(s) : c = s[k]
  BY <1>2, <1>4
<1> DEFINE F == SetFields \cup {"iDirtyTail", "iSyncTail"}
<1>6. /\ Links(o, Fronted(s, k), g, h) /\ Same(memory, o, AllFields \ F)
      /\ RefreshSetMarks(memory, o, c, k)
  BY ONLY HashMapAssumption, o = Updated(refreshSetList(c), memory), <1>1, <1>5, RefreshSetEffect DEF F
<1>7. F \subseteq SetFields \cup GetFields \cup Marks /\ "iBackupTail" \in Marks \ F
  BY DEF Marks, SetFields
<1> HIDE DEF F
<1>8. Typed(memory) /\ Shape(memory)
  BY DEF Listed, Typed
<1>9. /\ Typed(o) /\ Same(memory, o, {"iIndex"}) /\ SameChunks(memory, o, Cells)
      /\ Same(memory, o, Marks \ F)
  BY <1>6, <1>7, <1>8, MovedFields
<1>10. o[Root]["iBackupTail"] = memory[Root]["iBackupTail"]
  <2>1. "iBackupTail" \in Marks \ F /\ "iBackupTail" \in Marks
    BY <1>7
  <2>2. Shape(memory) /\ Same(memory, o, Marks \ F)
    BY ONLY <1>8, <1>9
  <2> QED BY ONLY <2>1, <2>2, MarkKept
<1>11. MarksOn(o, LinkedIn(memory))
  <2>1. memory[At(c)].iSetPrev \in LinkedIn(memory) \cup {0}
    BY Neighbours
  <2>2. \A f \in Marks : memory[Root][f] \in LinkedIn(memory) \cup {0}
    BY DEF Listed, MarksOn
  <2>3. /\ o[Root].iDirtyTail \in LinkedIn(memory) \cup {0}
        /\ o[Root].iSyncTail \in LinkedIn(memory) \cup {0}
        /\ o[Root].iBackupTail \in LinkedIn(memory) \cup {0}
    BY <1>6, <1>10, <2>1, <2>2 DEF RefreshSetMarks, Marks
  <2> QED BY <2>3 DEF MarksOn, Marks
<1>12. Range(Fronted(s, k)) = Range(s)
  BY <1>3, RaisedFacts DEF Fronted, IsPath
<1> QED BY <1>1, <1>6, <1>9, <1>11, <1>12, Relinked

\* refreshGetList keeps the map and its blocks.
LEMMA ListedRefreshGet ==
    ASSUME HashMapAssumption, Listed(memory), NEW c \in LinkedIn(memory),
           NEW o, o = Updated(refreshGetList(c), memory)
    PROVE  StaysListed(memory, o) /\ SameChunks(memory, o, Cells)
<1>1. PICK s, g, h : Links(memory, s, g, h)
  BY DEF Listed
<1>2. LinkedIn(memory) = Range(g)
  BY <1>1, LinksFound
<1>3. IsPath(memory, GetList.next, GetList.prev, g)
  BY <1>1 DEF Links, IsList
<1>4. Range(g) = {g[q] : q \in 1..Len(g)}
  BY <1>3, PathFacts
<1>5. PICK k \in 1..Len(g) : c = g[k]
  BY <1>2, <1>4
<1> DEFINE F == GetFields \cup {"iBackupTail"}
<1>6. /\ Links(o, s, Fronted(g, k), h) /\ Same(memory, o, AllFields \ F)
      /\ RefreshGetMarks(memory, o, c, k)
  BY ONLY HashMapAssumption, o = Updated(refreshGetList(c), memory), <1>1, <1>5, RefreshGetEffect DEF F
<1>7. F \subseteq SetFields \cup GetFields \cup Marks /\ {"iDirtyTail", "iSyncTail"} \subseteq Marks \ F
  BY DEF Marks, GetFields
<1> HIDE DEF F
<1>8. Typed(memory) /\ Shape(memory)
  BY DEF Listed, Typed
<1>9. /\ Typed(o) /\ Same(memory, o, {"iIndex"}) /\ SameChunks(memory, o, Cells)
      /\ Same(memory, o, Marks \ F)
  BY <1>6, <1>7, <1>8, MovedFields
<1>10. /\ o[Root]["iDirtyTail"] = memory[Root]["iDirtyTail"]
       /\ o[Root]["iSyncTail"] = memory[Root]["iSyncTail"]
  <2>1. {"iDirtyTail", "iSyncTail"} \subseteq Marks
    BY <1>7
  <2>2. "iDirtyTail" \in Marks \ F /\ "iSyncTail" \in Marks \ F
    BY <1>7
  <2>3. o[Root]["iDirtyTail"] = memory[Root]["iDirtyTail"]
    BY ONLY <1>8, <1>9, <2>1, <2>2, MarkKept
  <2>4. o[Root]["iSyncTail"] = memory[Root]["iSyncTail"]
    BY ONLY <1>8, <1>9, <2>1, <2>2, MarkKept
  <2> QED BY <2>3, <2>4
<1>11. MarksOn(o, LinkedIn(memory))
  <2>1. memory[At(c)].iGetPrev \in LinkedIn(memory) \cup {0}
    BY Neighbours
  <2>2. \A f \in Marks : memory[Root][f] \in LinkedIn(memory) \cup {0}
    BY DEF Listed, MarksOn
  <2>3. o[Root].iBackupTail \in LinkedIn(memory) \cup {0}
    BY <1>6, <2>1, <2>2 DEF RefreshGetMarks, Marks
  <2> QED BY <1>10, <2>2, <2>3 DEF MarksOn, Marks
<1> QED BY <1>1, <1>6, <1>9, <1>11, Relinked

\* The move of the tail to the head keeps the map and its blocks.
LEMMA ListedMoveTail ==
    ASSUME HashMapAssumption, Listed(memory), NEW c \in LinkedIn(memory),
           c = Map.iGetTail, c # Map.iGetHead, NEW o, o = Updated(Moving(c), memory)
    PROVE  StaysListed(memory, o) /\ SameChunks(memory, o, Cells)
<1>1. PICK s, g, h : Links(memory, s, g, h)
  BY DEF Listed
<1>2. c # 0
  BY Neighbours
<1> DEFINE F == GetFields \cup {"iBackupTail"}
<1>3. /\ Links(o, s, Raised(g, Len(g)), h) /\ Same(memory, o, AllFields \ F)
      /\ o[Root].iBackupTail = (IF Map.iBackupTail = c THEN memory[At(c)].iGetPrev ELSE Map.iBackupTail)
  BY <1>1, <1>2, MoveTailEffect
<1>4. F \subseteq SetFields \cup GetFields \cup Marks /\ {"iDirtyTail", "iSyncTail"} \subseteq Marks \ F
  BY DEF Marks, GetFields
<1> HIDE DEF F
<1>5. Typed(memory) /\ Shape(memory)
  BY DEF Listed, Typed
<1>6. /\ Typed(o) /\ Same(memory, o, {"iIndex"}) /\ SameChunks(memory, o, Cells)
      /\ Same(memory, o, Marks \ F)
  BY <1>3, <1>4, <1>5, MovedFields
<1>7. /\ o[Root]["iDirtyTail"] = memory[Root]["iDirtyTail"]
       /\ o[Root]["iSyncTail"] = memory[Root]["iSyncTail"]
  <2>1. {"iDirtyTail", "iSyncTail"} \subseteq Marks
    BY <1>4
  <2>2. "iDirtyTail" \in Marks \ F /\ "iSyncTail" \in Marks \ F
    BY <1>4
  <2>3. o[Root]["iDirtyTail"] = memory[Root]["iDirtyTail"]
    BY ONLY <1>5, <1>6, <2>1, <2>2, MarkKept
  <2>4. o[Root]["iSyncTail"] = memory[Root]["iSyncTail"]
    BY ONLY <1>5, <1>6, <2>1, <2>2, MarkKept
  <2> QED BY <2>3, <2>4
<1>8. MarksOn(o, LinkedIn(memory))
  <2>1. memory[At(c)].iGetPrev \in LinkedIn(memory) \cup {0}
    BY Neighbours
  <2>2. \A f \in Marks : memory[Root][f] \in LinkedIn(memory) \cup {0}
    BY DEF Listed, MarksOn
  <2>3. o[Root].iBackupTail \in LinkedIn(memory) \cup {0}
    BY <1>3, <2>1, <2>2 DEF Map, Marks
  <2> QED BY <1>7, <2>2, <2>3 DEF MarksOn, Marks
<1> QED BY <1>1, <1>3, <1>6, <1>8, Relinked

\* A field of a record is written.
LEMMA FieldWritten ==
    ASSUME NEW m, NEW a, NEW f, NEW v
    PROVE  \E b : /\ Updated(<<Put(a, f, v)>>, m) = [m EXCEPT ![a] = b]
                  /\ DOMAIN b = DOMAIN m[a]
                  /\ \A e \in DOMAIN m[a] : b[e] = IF e = f THEN v ELSE m[a][e]
<1> DEFINE u == Put(a, f, v)
<1>1. u[1] = a /\ u[2] = f /\ u[3] = v
  BY PutReads
<1> HIDE DEF u
<1>2. Updated(<<u>>, m) = [m EXCEPT ![u[1]][u[2]] = u[3]]
  BY UpdatedOne DEF One
<1>3. Updated(<<u>>, m) = [m EXCEPT ![a] = [m[a] EXCEPT ![f] = v]]
  BY <1>1, <1>2
<1>4. PICK b : b = [m[a] EXCEPT ![f] = v]
  BY Zenon
<1>5. DOMAIN b = DOMAIN m[a] /\ \A e \in DOMAIN m[a] : b[e] = IF e = f THEN v ELSE m[a][e]
  BY <1>4
<1>6. Updated(<<u>>, m) = [m EXCEPT ![a] = b]
  BY <1>3, <1>4
<1> QED BY <1>5, <1>6 DEF u

\* The flag bDirty of a block is written.
LEMMA DirtyWritten ==
    ASSUME HashMapAssumption, NEW m, Listed(m), NEW c \in Cells, NEW d \in BOOLEAN,
           NEW o, o = Updated(<<Put(At(c), "bDirty", d)>>, m)
    PROVE  StaysListed(m, o) /\ SameChunks(m, o, Cells)
<1>1. PICK b : /\ o = [m EXCEPT ![At(c)] = b] /\ DOMAIN b = DOMAIN m[At(c)]
               /\ \A e \in DOMAIN m[At(c)] : b[e] = IF e = "bDirty" THEN d ELSE m[At(c)][e]
  BY FieldWritten
<1>2. Shape(m) /\ DOMAIN m[At(c)] = BlockFields
  BY DEF Listed, Typed, Shape
<1>3. /\ DOMAIN b = BlockFields /\ b["bDirty"] = d
      /\ \A f \in BlockFields : f # "bDirty" => b[f] = m[At(c)][f]
  BY <1>1, <1>2 DEF BlockFields
<1>4. /\ b.bDirty \in BOOLEAN /\ b.bOnlyKey = m[At(c)].bOnlyKey /\ b.key = m[At(c)].key
      /\ b.data = m[At(c)].data /\ b.chunks = m[At(c)].chunks
  BY <1>3 DEF BlockFields
<1>5. /\ b.bOnlyKey \in BOOLEAN /\ b.key \in Keys \cup {NoKey}
      /\ b.data \in {"whole", "empty", "zero", "torn", "wild"} /\ b.chunks \in Seq(Cells)
  BY <1>4 DEF Listed, Typed
<1>6. \A f \in BlockFields \ Contents : b[f] = m[At(c)][f]
  BY <1>3 DEF Contents
<1>7. /\ StaysListed(m, o) /\ SameChunks(m, o, Cells \ {c}) /\ o[At(c)].chunks = b.chunks
  <2>1. Rewrites(b, m, c)
    BY <1>3, <1>4, <1>5, <1>6 DEF Rewrites
  <2> QED BY <1>1, <2>1, ContentsChanged
<1> QED BY <1>4, <1>7 DEF SameChunks

\* A map that stays twice stays.
LEMMA StaysTwice ==
    ASSUME NEW m, NEW n, NEW o, StaysListed(m, n), SameChunks(m, n, Cells),
           StaysListed(n, o), SameChunks(n, o, Cells)
    PROVE  StaysListed(m, o) /\ SameChunks(m, o, Cells)
BY DEF StaysListed, SameChunks

\* A map that is not written stays.
LEMMA StaysSelf ==
    ASSUME NEW m, Listed(m)
    PROVE  StaysListed(m, m) /\ SameChunks(m, m, Cells)
BY DEF StaysListed, SameChunks

\* setDirty keeps the map and its blocks.
LEMMA ListedSetDirty ==
    ASSUME HashMapAssumption, Listed(memory), NEW c \in Cells, NEW d \in BOOLEAN,
           NEW o, o = Updated(setDirty(c, d), memory)
    PROVE  StaysListed(memory, o) /\ SameChunks(memory, o, Cells)
<1> DEFINE n == Map.iDirtyCount + (IF d THEN 1 ELSE -1)
           u == <<Put(Root, "iDirtyCount", n)>>
           v == <<Put(At(c), "bDirty", d)>>
           m == Updated(u, memory)
<1>1. setDirty(c, d) = If(Block(c).bDirty # d, u \o v)
  BY DEF setDirty, Add, Increase, Map
<1>2. n \in Int
  <2>1. memory[Root].iDirtyCount \in Int
    BY DEF Listed, Typed
  <2> QED BY <2>1 DEF Map
<1> HIDE DEF n
<1>3. StaysListed(memory, m) /\ SameChunks(memory, m, Cells)
  BY <1>2, CountWritten
<1>4. Updated(u \o v, memory) = Updated(v, m)
  <2>1. Writes(u, {"iDirtyCount"}) /\ Writes(v, {"bDirty"})
    BY WritesOne
  <2> HIDE DEF u, v
  <2> QED BY <2>1, Concat
<1> HIDE DEF u, m
<1>5. StaysListed(m, Updated(v, m)) /\ SameChunks(m, Updated(v, m), Cells)
  BY <1>3, DirtyWritten DEF StaysListed
<1>6. StaysListed(memory, Updated(v, m)) /\ SameChunks(memory, Updated(v, m), Cells)
  BY <1>3, <1>5, StaysTwice
<1> HIDE DEF v
<1>7. o = IF Block(c).bDirty # d THEN Updated(v, m) ELSE memory
  BY <1>1, <1>4, UpdatedNone DEF If
<1> QED BY <1>6, <1>7, StaysSelf

\* What Block::set logs: the new counts of the dirty blocks and of those with a key only.
CountsMade(updates) ==
    \E a, b \in BOOLEAN, x, y \in Int :
      updates = If(a, <<Put(Root, "iDirtyCount", x)>>) \o If(b, <<Put(Root, "iOnlyKeyCount", y)>>)

\* What Block::set has logged of the counts keeps the map and its blocks.
LEMMA ListedCounts ==
    ASSUME HashMapAssumption, NEW m, Listed(m), NEW updates, CountsMade(updates),
           NEW o, o = Updated(updates, m)
    PROVE  StaysListed(m, o) /\ SameChunks(m, o, Cells)
<1>1. PICK a \in BOOLEAN, b \in BOOLEAN, x \in Int, y \in Int :
        updates = If(a, <<Put(Root, "iDirtyCount", x)>>) \o If(b, <<Put(Root, "iOnlyKeyCount", y)>>)
  BY DEF CountsMade
<1> DEFINE p == <<Put(Root, "iDirtyCount", x)>>
           q == <<Put(Root, "iOnlyKeyCount", y)>>
           n == Updated(If(a, p), m)
<1>2. Writes(If(a, p), {"iDirtyCount"}) /\ Writes(If(b, q), {"iOnlyKeyCount"})
  BY WritesOne, WritesIf
<1>3. \A l : Listed(l) => /\ StaysListed(l, Updated(p, l)) /\ SameChunks(l, Updated(p, l), Cells)
                          /\ StaysListed(l, Updated(q, l)) /\ SameChunks(l, Updated(q, l), Cells)
  BY CountWritten
<1> HIDE DEF p, q
<1>4. o = Updated(If(b, q), n)
  <2> DEFINE u == If(a, p)
             v == If(b, q)
  <2> HIDE DEF u, v
  <2>1. Updated(u \o v, m) = Updated(v, Updated(u, m))
    BY <1>2, Concat DEF u, v
  <2> QED BY <1>1, <2>1 DEF u, v, p, q
<1>5. StaysListed(m, n) /\ SameChunks(m, n, Cells)
  BY <1>3, UpdatedNone, StaysSelf DEF If
<1> HIDE DEF n
<1>6. StaysListed(n, o) /\ SameChunks(n, o, Cells)
  BY <1>3, <1>4, <1>5, UpdatedNone, StaysSelf DEF If, StaysListed
<1> QED BY <1>5, <1>6, StaysTwice

\* The first unit that is free is free.
LEMMA UnitIsFree ==
    ASSUME HashMapAssumption, free \subseteq Cells, free # {}
    PROVE  Unit \in free
<1>1. free \subseteq Nat
  BY CellFacts
<1>2. PICK c \in free : \A d \in free : <<d, c>> \notin OpToRel(<, Nat)
  BY <1>1, NatLessThanWellFounded, WFMin, Zenon
<1>3. \A d \in free : c <= d
  <2> SUFFICES ASSUME NEW d \in free PROVE c <= d
    OBVIOUS
  <2>1. ~ (d < c)
    BY <1>1, <1>2 DEF OpToRel
  <2> QED BY <1>1, <2>1
<1> QED BY <1>3 DEF Unit

-----------------------------------------------------------------------------
(* The invariant                                                           *)

\* The unit that is to be the new block.
Fresh == IF step = "makeNew" THEN {cell} ELSE {}

UnitsApart == Owned(memory, LinkedIn(memory), free, got, loose, Fresh)

Calls == [key : Keys \cup {NoKey}, chunks : Nat, only : BOOLEAN, dirty : BOOLEAN, fresh : BOOLEAN]

ProcessTyped ==
    /\ cell \in Cells \cup {0} /\ call \in Calls /\ evicting \in -1..EraseCount
    /\ CountsMade(counts)

HistoryTyped ==
    /\ handed \in Keys \cup {NoKey} /\ spoilt \in BOOLEAN /\ stray \in Int
    /\ setting \in Settings /\ crashes \in 0..setting.crashes

\* The steps that work on a block of the map.
OnBlock == {"allocate", "undo", "copy", "counts", "setDirty", "refreshSetList", "refreshGetList",
            "moveTail", "sync", "needSync", "dirtyTail"}

\* What a process can rely on at each of its steps.
StepFits ==
    /\ step = "idle" => got = <<>> /\ loose = <<>>
    /\ step \in OnBlock => cell \in LinkedIn(memory)
    /\ step \in {"allocateMemBlock", "makeNew"} => call.key \in Keys
    /\ evicting # -1 => step = "allocateMemBlock" \/ (step = "allocate" /\ Missing > 0)
    /\ step = "moveTail" => cell = Map.iGetTail /\ cell # Map.iGetHead

HashInv == ProcessTyped /\ HistoryTyped /\ Listed(memory) /\ UnitsApart /\ StepFits

\* The blocks of the chains.
LEMMA LinkedFound ==
    /\ Linked = LinkedIn(memory)
    /\ \A i \in Buckets : Range(Chain(i)) \subseteq LinkedIn(memory)
BY DEF Linked, LinkedIn, Chain

\* A block that find finds is one of the map.
LEMMA FoundLinked ==
    ASSUME HashMapAssumption, NEW k \in Keys
    PROVE  Found(k) \subseteq LinkedIn(memory)
<1>1. Index[k] \in Buckets
  BY DEF HashMapAssumption, Keys
<1> QED BY <1>1, LinkedFound DEF Found

\* Nothing logged is a case of what Block::set logs.
LEMMA NoCounts == CountsMade(<<>>)
<1> DEFINE u == <<Put(Root, "iDirtyCount", 0)>>
           v == <<Put(Root, "iOnlyKeyCount", 0)>>
<1>1. If(FALSE, u) = <<>> /\ If(FALSE, v) = <<>>
  BY DEF If
<1>2. <<>> \o <<>> = <<>>
  OBVIOUS
<1>3. <<>> = If(FALSE, u) \o If(FALSE, v)
  BY <1>1, <1>2
<1>4. FALSE \in BOOLEAN /\ 0 \in Int
  OBVIOUS
<1> QED BY <1>3, <1>4 DEF CountsMade

\* A process that leaves its call.
LEMMA LeaveFits ==
    ASSUME HashMapAssumption, Leave
    PROVE  /\ ProcessTyped' /\ StepFits' /\ Fresh' = {} /\ got' = <<>> /\ loose' = <<>>
<1>1. NoCall \in Calls
  BY DEF NoCall, Calls
<1>2. -1 \in -1..EraseCount
  BY DEF HashMapAssumption
<1>3. ProcessTyped'
  BY <1>1, <1>2, NoCounts DEF Leave, ProcessTyped
<1>4. StepFits'
  BY DEF Leave, StepFits, OnBlock
<1> QED BY <1>3, <1>4 DEF Leave, Fresh

\* A call that is over in one step.
LEMMA IdleFits ==
    ASSUME HashMapAssumption, HashInv, step = "idle", UNCHANGED process
    PROVE  /\ ProcessTyped' /\ StepFits' /\ Fresh' = Fresh /\ Fresh = {}
           /\ got' = got /\ loose' = loose /\ got = <<>> /\ loose = <<>>
<1>1. evicting = -1 /\ got = <<>> /\ loose = <<>>
  BY DEF HashInv, StepFits
<1>2. ProcessTyped'
  BY DEF HashInv, ProcessTyped, process
<1>3. StepFits'
  BY <1>1 DEF StepFits, OnBlock, process
<1> QED BY <1>1, <1>2, <1>3 DEF Fresh, process

\* The blocks stay, and what the process holds stays or is lost.
LEMMA StayApart ==
    ASSUME HashInv, StaysListed(memory, memory'), SameChunks(memory, memory', Cells), free' = free,
           \/ got' = got /\ loose' = loose /\ Fresh' \in {Fresh, {}}
           \/ got' = <<>> /\ loose' = <<>> /\ Fresh' = {},
           HashMapAssumption
    PROVE  Listed(memory)' /\ UnitsApart' /\ LinkedIn(memory') = LinkedIn(memory)
<1>1. Listed(memory') /\ LinkedIn(memory') = LinkedIn(memory)
  BY DEF StaysListed
<1>2. LinkedIn(memory) \subseteq Cells
  BY LinksFound DEF HashInv, Listed
<1>3. SameChunks(memory, memory', LinkedIn(memory))
  BY <1>2 DEF SameChunks
<1> DEFINE L == LinkedIn(memory)
<1> HIDE DEF L
<1>4. /\ Owned(memory, L, free, got, loose, Fresh) /\ Owned(memory, L, free, got, loose, {})
      /\ Owned(memory, L, free, <<>>, <<>>, {})
  BY OwnedLost DEF HashInv, UnitsApart, L
<1>5. /\ Owned(memory', L, free, got, loose, Fresh) /\ Owned(memory', L, free, got, loose, {})
      /\ Owned(memory', L, free, <<>>, <<>>, {})
  BY <1>3, <1>4, OwnedSame DEF L
<1>6. Owned(memory', L, free', got', loose', Fresh')
  BY <1>5
<1> QED BY <1>1, <1>6 DEF UnitsApart, L

\* The steps that end a call.
LEMMA LeaveSteps ==
    ASSUME HashMapAssumption, HashInv, Leave, HistoryTyped', free' = free,
           StaysListed(memory, memory'), SameChunks(memory, memory', Cells)
    PROVE  HashInv'
BY LeaveFits, StayApart DEF HashInv

\* A process returns from its call.
LEMMA ReturnStep == ASSUME HashMapAssumption, HashInv, Return PROVE HashInv'
<1>1. HistoryTyped'
  BY DEF Return, HashInv, HistoryTyped, history
<1>2. StaysListed(memory, memory') /\ SameChunks(memory, memory', Cells)
  BY StaysSelf DEF Return, HashInv
<1> QED BY <1>1, <1>2, LeaveSteps DEF Return

\* The block goes to the head of the list of the last get.
LEMMA RefreshGetListStep == ASSUME HashMapAssumption, HashInv, RefreshGetList PROVE HashInv'
<1>1. HistoryTyped'
  BY DEF RefreshGetList, HashInv, HistoryTyped, history
<1>2. cell \in LinkedIn(memory)
  BY DEF RefreshGetList, HashInv, StepFits, OnBlock
<1>3. memory' = Updated(refreshGetList(cell), memory)
  BY DEF RefreshGetList, Commit
<1>4. StaysListed(memory, memory') /\ SameChunks(memory, memory', Cells)
  BY <1>2, <1>3, ListedRefreshGet DEF HashInv
<1> QED BY <1>1, <1>4, LeaveSteps DEF RefreshGetList

\* erase moves a dirty tail to the head.
LEMMA MoveTailStep == ASSUME HashMapAssumption, HashInv, MoveTail PROVE HashInv'
<1>1. HistoryTyped'
  BY DEF MoveTail, HashInv, HistoryTyped, history
<1>2. cell \in LinkedIn(memory) /\ cell = Map.iGetTail /\ cell # Map.iGetHead
  BY DEF MoveTail, HashInv, StepFits, OnBlock
<1>3. memory' = Updated(Moving(cell), memory)
  BY DEF MoveTail, Commit, Moving, Block, Map
<1>4. StaysListed(memory, memory') /\ SameChunks(memory, memory', Cells)
  BY <1>2, <1>3, ListedMoveTail DEF HashInv
<1> QED BY <1>1, <1>4, LeaveSteps DEF MoveTail

\* recover is done.
LEMMA RecoveredStep == ASSUME HashMapAssumption, HashInv, Recovered PROVE HashInv'
<1>1. HistoryTyped'
  BY DEF Recovered, HashInv, HistoryTyped, history
<1>2. StaysListed(memory, memory') /\ SameChunks(memory, memory', Cells)
  BY StaysSelf DEF Recovered, HashInv
<1> QED BY <1>1, <1>2, LeaveSteps DEF Recovered

\* The mark of the dirty blocks passes the block of the process.
LEMMA PassDirtyTailStays ==
    ASSUME HashMapAssumption, HashInv, PassDirtyTail, step \in {"sync", "needSync"}
    PROVE  Leave /\ free' = free /\ StaysListed(memory, memory') /\ SameChunks(memory, memory', Cells)
<1>1. cell \in LinkedIn(memory)
  BY DEF HashInv, StepFits, OnBlock
<1>2. memory' = Updated(Step(memory, "iDirtyTail", SetList, cell), memory)
  BY DEF PassDirtyTail, Commit
<1>3. StaysListed(memory, memory') /\ SameChunks(memory, memory', Cells)
  BY <1>1, <1>2, MarkStepped DEF HashInv
<1> QED BY <1>3 DEF PassDirtyTail

\* sync passes a block.
LEMMA SyncPassesStep == ASSUME HashMapAssumption, HashInv, SyncPasses PROVE HashInv'
<1>1. HistoryTyped'
  BY DEF SyncPasses, HashInv, HistoryTyped, history
<1> QED BY <1>1, PassDirtyTailStays, LeaveSteps DEF SyncPasses

\* sync hands a block out.
LEMMA NeedSyncStep == ASSUME HashMapAssumption, HashInv, NeedSync PROVE HashInv'
<1>1. HistoryTyped'
  <2>1. cell \in LinkedIn(memory)
    BY DEF NeedSync, HashInv, StepFits, OnBlock
  <2>2. cell \in Cells
    BY <2>1, Neighbours DEF HashInv
  <2>3. Block(cell).key \in Keys \cup {NoKey}
    BY <2>2 DEF Block, HashInv, Listed, Typed
  <2> QED BY <2>3 DEF NeedSync, HashInv, HistoryTyped
<1> QED BY <1>1, PassDirtyTailStays, LeaveSteps DEF NeedSync

\* sync leaves a block for later.
LEMMA SyncLaterStep == ASSUME HashMapAssumption, HashInv, SyncLater PROVE HashInv'
<1>1. HistoryTyped'
  BY DEF SyncLater, HashInv, HistoryTyped, history
<1>2. StaysListed(memory, memory') /\ SameChunks(memory, memory', Cells)
  BY StaysSelf DEF SyncLater, HashInv
<1> QED BY <1>1, <1>2, LeaveSteps DEF SyncLater

\* What Write does to a mark.
LEMMA MarkWrite ==
    ASSUME HashMapAssumption, Listed(memory), NEW mark \in Marks, NEW v \in LinkedIn(memory) \cup {0},
           Write(mark, v)
    PROVE  StaysListed(memory, memory') /\ SameChunks(memory, memory', Cells)
<1> DEFINE u == Put(Root, mark, v)
<1>1. u[1] = Root /\ u[2] = mark /\ u[3] = v
  BY PutReads
<1> HIDE DEF u
<1>2. One(memory, u) = [memory EXCEPT ![u[1]][u[2]] = u[3]]
  BY DEF One
<1>3. memory' = One(memory, u)
  BY <1>1, <1>2 DEF Write
<1> QED BY <1>3, MarkWritten DEF u

\* The mark of the dirty blocks comes back.
LEMMA DirtyTailBackStep == ASSUME HashMapAssumption, HashInv, DirtyTailBack PROVE HashInv'
<1>1. HistoryTyped'
  BY DEF DirtyTailBack, HashInv, HistoryTyped, history
<1>2. cell \in LinkedIn(memory) /\ Map.iDirtyTail \in LinkedIn(memory) \cup {0} /\ "iDirtyTail" \in Marks
  BY DEF DirtyTailBack, HashInv, StepFits, OnBlock, Listed, MarksOn, Marks, Map
<1>3. PICK v \in LinkedIn(memory) \cup {0} : Write("iDirtyTail", v)
  BY <1>2 DEF DirtyTailBack
<1>4. StaysListed(memory, memory') /\ SameChunks(memory, memory', Cells)
  BY <1>2, <1>3, MarkWrite DEF HashInv
<1> QED BY <1>1, <1>4, LeaveSteps DEF DirtyTailBack

\* The calls of one step.
LEMMA IdleSteps ==
    ASSUME HashMapAssumption, HashInv, step = "idle", UNCHANGED process, HistoryTyped', free' = free,
           StaysListed(memory, memory'), SameChunks(memory, memory', Cells)
    PROVE  HashInv'
BY IdleFits, StayApart DEF HashInv

\* get.
LEMMA GetStep ==
    ASSUME HashMapAssumption, HashInv, NEW k \in Keys, Get(k)
    PROVE  HashInv'
<1>1. HistoryTyped'
  BY DEF Get, HashInv, HistoryTyped, history
<1>2. PICK c \in Found(k) : memory' = Updated(refreshGetList(c), memory)
  BY DEF Get, Commit
<1>3. c \in LinkedIn(memory)
  BY FoundLinked
<1>4. StaysListed(memory, memory') /\ SameChunks(memory, memory', Cells)
  BY <1>2, <1>3, ListedRefreshGet DEF HashInv
<1> QED BY <1>1, <1>4, IdleSteps DEF Get, May

\* A round of writing back begins.
LEMMA StartSyncStep == ASSUME HashMapAssumption, HashInv, StartSync PROVE HashInv'
<1>1. HistoryTyped'
  BY DEF StartSync, HashInv, HistoryTyped, history
<1>2. Map.iDirtyTail \in LinkedIn(memory) \cup {0} /\ "iSyncTail" \in Marks
  BY DEF HashInv, Listed, MarksOn, Marks, Map
<1>3. StaysListed(memory, memory') /\ SameChunks(memory, memory', Cells)
  BY <1>2, MarkWrite DEF HashInv, StartSync
<1> QED BY <1>1, <1>3, IdleSteps DEF StartSync, May

\* A backup begins.
LEMMA StartBackupStep == ASSUME HashMapAssumption, HashInv, StartBackup PROVE HashInv'
<1>1. HistoryTyped'
  BY DEF StartBackup, HashInv, HistoryTyped, history
<1>2. Map.iGetTail \in LinkedIn(memory) \cup {0} /\ "iBackupTail" \in Marks
  BY Tails DEF HashInv, Marks, Map
<1>3. StaysListed(memory, memory') /\ SameChunks(memory, memory', Cells)
  BY <1>2, MarkWrite DEF HashInv, StartBackup
<1> QED BY <1>1, <1>3, IdleSteps DEF StartBackup, May

\* A backup goes on by a block.
LEMMA BackupStep == ASSUME HashMapAssumption, HashInv, Backup PROVE HashInv'
<1>1. HistoryTyped'
  BY DEF Backup, HashInv, HistoryTyped, history
<1>2. Map.iBackupTail \in LinkedIn(memory) /\ "iBackupTail" \in Marks
  BY DEF Backup, HashInv, Listed, MarksOn, Marks, Map
<1>3. Block(Map.iBackupTail).iGetPrev \in LinkedIn(memory) \cup {0}
  BY <1>2, Neighbours DEF HashInv, Block
<1>4. StaysListed(memory, memory') /\ SameChunks(memory, memory', Cells)
  BY <1>2, <1>3, MarkWrite DEF HashInv, Backup
<1> QED BY <1>1, <1>4, IdleSteps DEF Backup, May

\* The caller has written a block back.
LEMMA WrittenBackStep == ASSUME HashMapAssumption, HashInv, WrittenBack PROVE HashInv'
<1>1. HistoryTyped'
  BY DEF WrittenBack, HashInv, HistoryTyped
<1>2. StaysListed(memory, memory') /\ SameChunks(memory, memory', Cells)
  BY StaysSelf DEF WrittenBack, HashInv
<1> QED BY <1>1, <1>2, IdleSteps DEF WrittenBack, May

\* The steps after which the process works on a block.
LEMMA BlockSteps ==
    ASSUME HashMapAssumption, HashInv, HistoryTyped', ProcessTyped', free' = free,
           got' = got, loose' = loose, step' # "makeNew",
           step' \in OnBlock => cell' \in LinkedIn(memory),
           step' # "idle", step' # "allocateMemBlock", evicting' = -1,
           step' = "moveTail" => cell' = memory'[Root].iGetTail /\ cell' # memory'[Root].iGetHead,
           StaysListed(memory, memory'), SameChunks(memory, memory', Cells)
    PROVE  HashInv'
<1>1. Fresh' = {}
  BY DEF Fresh
<1>2. Listed(memory)' /\ UnitsApart' /\ LinkedIn(memory') = LinkedIn(memory)
  BY <1>1, StayApart
<1>3. StepFits'
  BY <1>2 DEF StepFits, Map
<1> QED BY <1>2, <1>3 DEF HashInv

\* Outside of allocate nothing is being evicted.
LEMMA NotEvicting ==
    ASSUME HashInv, step # "allocateMemBlock", step # "allocate"
    PROVE  evicting = -1
BY DEF HashInv, StepFits

\* The counts of Block::set become visible.
LEMMA CommitCountsStep == ASSUME HashMapAssumption, HashInv, CommitCounts PROVE HashInv'
<1>1. HistoryTyped'
  BY DEF CommitCounts, HashInv, HistoryTyped, history
<1>2. StaysListed(memory, memory') /\ SameChunks(memory, memory', Cells)
  BY ListedCounts DEF CommitCounts, Commit, HashInv, ProcessTyped
<1>3. ProcessTyped'
  BY NoCounts DEF CommitCounts, HashInv, ProcessTyped
<1>4. cell' \in LinkedIn(memory) /\ evicting' = -1
  BY NotEvicting DEF CommitCounts, HashInv, StepFits, OnBlock
<1> QED BY <1>1, <1>2, <1>3, <1>4, BlockSteps DEF CommitCounts

\* set makes the block dirty or clean.
LEMMA SetItsDirtyStep == ASSUME HashMapAssumption, HashInv, SetItsDirty PROVE HashInv'
<1>1. HistoryTyped'
  BY DEF SetItsDirty, HashInv, HistoryTyped, history
<1>2. cell \in LinkedIn(memory) /\ evicting = -1
  BY NotEvicting DEF SetItsDirty, HashInv, StepFits, OnBlock
<1>3. cell \in Cells /\ call.dirty \in BOOLEAN
  BY <1>2, Neighbours DEF HashInv, ProcessTyped, Calls
<1>4. StaysListed(memory, memory') /\ SameChunks(memory, memory', Cells)
  BY <1>3, ListedSetDirty DEF SetItsDirty, Commit, HashInv
<1>5. ProcessTyped'
  BY DEF SetItsDirty, Goto, HashInv, ProcessTyped
<1> QED BY <1>1, <1>2, <1>4, <1>5, BlockSteps DEF SetItsDirty, Goto

\* The block goes to the head of the list of the last set.
LEMMA RefreshSetListStep == ASSUME HashMapAssumption, HashInv, RefreshSetList PROVE HashInv'
<1>1. HistoryTyped'
  BY DEF RefreshSetList, HashInv, HistoryTyped, history
<1>2. cell \in LinkedIn(memory) /\ evicting = -1
  BY NotEvicting DEF RefreshSetList, HashInv, StepFits, OnBlock
<1>3. StaysListed(memory, memory') /\ SameChunks(memory, memory', Cells)
  BY <1>2, ListedRefreshSet DEF RefreshSetList, Commit, HashInv
<1>4. ProcessTyped'
  BY DEF RefreshSetList, Goto, HashInv, ProcessTyped
<1> QED BY <1>1, <1>2, <1>3, <1>4, BlockSteps DEF RefreshSetList, Goto

\* sync makes a block clean.
LEMMA SyncDueStep == ASSUME HashMapAssumption, HashInv, SyncDue PROVE HashInv'
<1>1. HistoryTyped'
  BY DEF SyncDue, HashInv, HistoryTyped, history
<1>2. cell \in LinkedIn(memory) /\ evicting = -1
  BY NotEvicting DEF SyncDue, HashInv, StepFits, OnBlock
<1>3. cell \in Cells
  BY <1>2, Neighbours DEF HashInv
<1>4. StaysListed(memory, memory') /\ SameChunks(memory, memory', Cells)
  BY <1>3, ListedSetDirty DEF SyncDue, Commit, HashInv
<1>5. ProcessTyped'
  BY DEF SyncDue, Goto, HashInv, ProcessTyped
<1> QED BY <1>1, <1>2, <1>4, <1>5, BlockSteps DEF SyncDue, Goto

\* setDirty and setClean.
LEMMA SetDirtyStep ==
    ASSUME HashMapAssumption, HashInv, NEW k \in Keys, NEW dirty \in BOOLEAN, SetDirty(k, dirty)
    PROVE  HashInv'
<1>1. HistoryTyped'
  BY DEF SetDirty, HashInv, HistoryTyped, history
<1>2. PICK c \in Found(k) : memory' = Updated(setDirty(c, dirty), memory) /\ Begin("refreshSetList", c)
  BY DEF SetDirty, Commit
<1>3. c \in LinkedIn(memory) /\ c \in Cells /\ evicting = -1
  BY FoundLinked, Neighbours, NotEvicting DEF HashInv, SetDirty, May
<1>4. StaysListed(memory, memory') /\ SameChunks(memory, memory', Cells)
  BY <1>2, <1>3, ListedSetDirty DEF HashInv
<1>5. ProcessTyped'
  BY <1>2, <1>3 DEF Begin, HashInv, ProcessTyped
<1> QED BY <1>1, <1>2, <1>3, <1>4, <1>5, BlockSteps DEF SetDirty, Begin

\* The caller has failed to write a block back.
LEMMA setDirtyAfterSyncStep == ASSUME HashMapAssumption, HashInv, setDirtyAfterSync PROVE HashInv'
<1>1. HistoryTyped'
  BY DEF setDirtyAfterSync, HashInv, HistoryTyped
<1>2. PICK c \in Found(handed) : memory' = Updated(setDirty(c, TRUE), memory) /\ Begin("dirtyTail", c)
  BY DEF setDirtyAfterSync, Commit
<1>3. handed \in Keys
  BY DEF setDirtyAfterSync, HashInv, HistoryTyped
<1>4. c \in LinkedIn(memory) /\ c \in Cells /\ evicting = -1
  BY <1>3, FoundLinked, Neighbours, NotEvicting DEF HashInv, setDirtyAfterSync, May
<1>5. StaysListed(memory, memory') /\ SameChunks(memory, memory', Cells)
  BY <1>2, <1>4, ListedSetDirty DEF HashInv
<1>6. ProcessTyped'
  BY <1>2, <1>4 DEF Begin, HashInv, ProcessTyped
<1> QED BY <1>1, <1>2, <1>4, <1>5, <1>6, BlockSteps DEF setDirtyAfterSync, Begin

\* sync goes on by a block.
LEMMA SyncStep == ASSUME HashMapAssumption, HashInv, Sync PROVE HashInv'
<1>1. HistoryTyped'
  BY DEF Sync, HashInv, HistoryTyped, history
<1>2. Map.iSyncTail \in LinkedIn(memory) /\ "iSyncTail" \in Marks
  BY DEF Sync, HashInv, Listed, MarksOn, Marks, Map
<1>3. Map.iSyncTail \in Cells /\ Block(Map.iSyncTail).iSetPrev \in LinkedIn(memory) \cup {0}
  BY <1>2, Neighbours DEF HashInv, Block
<1>4. StaysListed(memory, memory') /\ SameChunks(memory, memory', Cells)
  BY <1>2, <1>3, MarkWrite DEF HashInv, Sync
<1>5. ProcessTyped' /\ evicting = -1
  BY <1>3, NotEvicting DEF Sync, May, Begin, HashInv, ProcessTyped
<1> QED BY <1>1, <1>2, <1>4, <1>5, BlockSteps DEF Sync, Begin

\* erase keeps a dirty tail.
LEMMA KeepDirtyTailStep == ASSUME HashMapAssumption, HashInv, KeepDirtyTail PROVE HashInv'
<1> DEFINE c == Map.iGetTail
           v == IF Map.iDirtyTail = 0 THEN c ELSE Map.iDirtyTail
<1>1. HistoryTyped'
  BY DEF KeepDirtyTail, HashInv, HistoryTyped, history
<1>2. c \in LinkedIn(memory) /\ v \in LinkedIn(memory) \cup {0} /\ "iDirtyTail" \in Marks
  <2>1. c \in LinkedIn(memory)
    BY Tails DEF HashInv, KeepDirtyTail, Map
  <2>2. Map.iDirtyTail \in LinkedIn(memory) \cup {0} /\ "iDirtyTail" \in Marks
    BY DEF HashInv, Listed, MarksOn, Marks, Map
  <2> QED BY <2>1, <2>2
<1>3. Write("iDirtyTail", v) /\ Begin(IF Map.iGetHead = c THEN "return" ELSE "moveTail", c)
  BY DEF KeepDirtyTail
<1>4. StaysListed(memory, memory') /\ SameChunks(memory, memory', Cells)
  BY <1>2, <1>3, MarkWrite DEF HashInv
<1>5. ProcessTyped' /\ evicting = -1
  <2>1. c \in Cells
    BY <1>2, Neighbours DEF HashInv
  <2> QED BY <1>3, <2>1, NotEvicting DEF KeepDirtyTail, May, Begin, HashInv, ProcessTyped
<1>6. memory'[Root].iGetTail = Map.iGetTail /\ memory'[Root].iGetHead = Map.iGetHead
  <2>1. Root \in DOMAIN memory /\ DOMAIN memory[Root] = HeadFields
    BY DEF HashInv, Listed, Typed, Shape
  <2>2. {"iGetTail", "iGetHead"} \subseteq HeadFields
    BY DEF HeadFields
  <2> HIDE DEF v
  <2>3. memory' = [memory EXCEPT ![Root]["iDirtyTail"] = v]
    BY <1>3 DEF Write
  <2> QED BY <2>1, <2>2, <2>3 DEF Map
<1>7. step' = (IF Map.iGetHead = c THEN "return" ELSE "moveTail") /\ cell' = c
      /\ evicting' = evicting /\ got' = got /\ loose' = loose
  BY <1>3 DEF Begin
<1> HIDE DEF c, v
<1>8. step' # "makeNew" /\ step' # "idle" /\ step' # "allocateMemBlock"
  BY <1>7
<1>9. step' = "moveTail" => cell' = memory'[Root].iGetTail /\ cell' # memory'[Root].iGetHead
  BY <1>6, <1>7 DEF c
<1> QED BY <1>1, <1>2, <1>4, <1>5, <1>7, <1>8, <1>9, BlockSteps DEF KeepDirtyTail

\* The steps that erase a block.
LEMMA EraseStep ==
    ASSUME HashMapAssumption, HashInv, loose = <<>>, NEW c \in LinkedIn(memory), Erase(c),
           free' = free, got' = got, Fresh' \in {Fresh, {}}
    PROVE  /\ Listed(memory)' /\ UnitsApart' /\ LinkedIn(memory') = LinkedIn(memory) \ {c}
           /\ SameChunks(memory, memory', LinkedIn(memory) \ {c})
<1> DEFINE o == Updated(erase(c), memory)
           old == memory[At(c)].chunks
           L == LinkedIn(memory)
<1>1. memory' = [o EXCEPT ![At(c)] = Blank]
  BY DEF Erase
<1>2. /\ Listed(memory') /\ LinkedIn(memory') = L \ {c}
      /\ SameChunks(memory, memory', L \ {c})
  BY <1>1, ListedErase DEF HashInv
<1>3. c \in Cells /\ old \in Seq(Cells)
  BY Neighbours DEF HashInv, Listed, Typed
<1>4. loose' = Append(old, c)
  <2>1. loose' = <<>> \o Append(old, c)
    BY DEF Erase, Units, Block
  <2>2. Append(old, c) \in Seq(Cells)
    BY <1>3, AppendProperties
  <2> QED BY <2>1, <2>2, ConcatEmptySeq
<1> HIDE DEF o, L
<1>5. c \in L
  BY DEF L
<1>6. Owned(memory, L, free, got, <<>>, Fresh) /\ Owned(memory, L, free, got, <<>>, {})
  BY OwnedLost DEF HashInv, UnitsApart, L
<1>7. /\ Owned(memory', L \ {c}, free, got, Append(old, c), Fresh)
      /\ Owned(memory', L \ {c}, free, got, Append(old, c), {})
  BY <1>2, <1>3, <1>5, <1>6, OwnedErased
<1>8. Owned(memory', LinkedIn(memory'), free', got', loose', Fresh')
  BY <1>2, <1>4, <1>7
<1> QED BY <1>2, <1>8 DEF UnitsApart, L

\* The block eraseExcept erases is one of the map, and not the one that is being set.
LEMMA VictimLinked ==
    ASSUME HashMapAssumption, HashInv, Victim # 0
    PROVE  Victim \in LinkedIn(memory) /\ Victim # cell
<1>1. /\ memory[Root].iSetTail \in LinkedIn(memory) \cup {0}
      /\ memory[Root].iGetTail \in LinkedIn(memory) \cup {0}
  BY Tails DEF HashInv
<1>2. \A c \in LinkedIn(memory) :
        /\ memory[At(c)].iSetPrev \in (LinkedIn(memory) \ {c}) \cup {0}
        /\ memory[At(c)].iGetPrev \in (LinkedIn(memory) \ {c}) \cup {0}
  BY Neighbours DEF HashInv
<1>3. CASE setting.mode = "set"
  <2>1. Victim = IF Map.iSetTail = cell /\ Map.iSetTail # 0
                 THEN Block(Map.iSetTail).iSetPrev ELSE Map.iSetTail
    BY <1>3, SetLinks DEF Victim
  <2> QED BY <1>1, <1>2, <2>1 DEF Map, Block
<1>4. CASE setting.mode # "set"
  <2>1. Victim = IF Map.iGetTail = cell /\ Map.iGetTail # 0
                 THEN Block(Map.iGetTail).iGetPrev ELSE Map.iGetTail
    BY <1>4, SetLinks DEF Victim
  <2> QED BY <1>1, <1>2, <2>1 DEF Map, Block
<1> QED BY <1>3, <1>4

\* eraseExcept erases the oldest block.
LEMMA EvictStep == ASSUME HashMapAssumption, HashInv, Evict PROVE HashInv'
<1>1. HistoryTyped'
  BY DEF Evict, HashInv, HistoryTyped, history
<1>2. Victim \in LinkedIn(memory) /\ Victim # cell
  BY VictimLinked DEF Evict
<1>3. /\ evicting # -1 /\ (evicting' = evicting \/ evicting' = evicting + 1)
      /\ evicting \in 0..(EraseCount - 1)
  BY DEF Evict, HashMapAssumption
<1>4. /\ Listed(memory)' /\ UnitsApart' /\ LinkedIn(memory') = LinkedIn(memory) \ {Victim}
      /\ SameChunks(memory, memory', LinkedIn(memory) \ {Victim})
  <2>1. Fresh' = Fresh
    BY DEF Evict, Fresh
  <2> QED BY <1>2, <2>1, EraseStep DEF Evict
<1>5. ProcessTyped'
  <2>1. evicting' \in -1..EraseCount
    BY <1>3 DEF HashMapAssumption
  <2> QED BY <2>1 DEF Evict, HashInv, ProcessTyped
<1>6. StepFits'
  <2>1. step = "allocateMemBlock" \/ (step = "allocate" /\ Missing > 0)
    BY <1>3 DEF HashInv, StepFits
  <2>2. step' = step /\ cell' = cell /\ call' = call /\ got' = got
    BY DEF Evict
  <2>3. CASE step = "allocateMemBlock"
    BY <2>2, <2>3 DEF StepFits, OnBlock, HashInv
  <2>4. CASE step = "allocate" /\ Missing > 0
    <3>1. cell \in LinkedIn(memory)
      BY <2>4 DEF HashInv, StepFits, OnBlock
    <3>2. cell \in LinkedIn(memory') /\ memory'[At(cell)].chunks = memory[At(cell)].chunks
      BY <1>2, <1>4, <3>1 DEF SameChunks
    <3>3. Missing' = Missing
      BY <2>2, <3>2 DEF Missing, Block
    <3> QED BY <2>2, <2>4, <3>2, <3>3 DEF StepFits, OnBlock
  <2> QED BY <2>1, <2>3, <2>4
<1> QED BY <1>1, <1>4, <1>5, <1>6 DEF HashInv

\* The steps after which the process gives units back, or returns.
LEMMA ReturningSteps ==
    ASSUME HashInv, HistoryTyped', ProcessTyped', step' \in {"return", "recover"}, evicting' = -1,
           Listed(memory)', UnitsApart'
    PROVE  HashInv'
<1>1. StepFits'
  BY DEF StepFits, OnBlock
<1> QED BY <1>1 DEF HashInv

\* set gives up.
LEMMA UndoStep == ASSUME HashMapAssumption, HashInv, Undo PROVE HashInv'
<1>1. HistoryTyped' /\ ProcessTyped'
  BY DEF Undo, HashInv, HistoryTyped, ProcessTyped, history
<1>2. cell \in LinkedIn(memory) /\ Fresh' = {} /\ evicting' = -1
  BY NotEvicting DEF Undo, HashInv, StepFits, OnBlock, Fresh
<1>3. Listed(memory)' /\ UnitsApart'
  <2>1. CASE call.fresh
    BY <1>2, <2>1, EraseStep DEF Undo
  <2>2. CASE ~call.fresh
    <3>1. StaysListed(memory, memory') /\ SameChunks(memory, memory', Cells)
      BY <2>2, StaysSelf DEF Undo, HashInv
    <3> QED BY <1>2, <2>2, <3>1, StayApart DEF Undo
  <2> QED BY <2>1, <2>2
<1> QED BY <1>1, <1>2, <1>3, ReturningSteps DEF Undo

\* del.
LEMMA DelStep ==
    ASSUME HashMapAssumption, HashInv, NEW k \in Keys, Del(k)
    PROVE  HashInv'
<1>1. HistoryTyped' /\ ProcessTyped'
  BY DEF Del, HashInv, HistoryTyped, ProcessTyped, history
<1>2. PICK c \in Found(k) : Erase(c)
  BY DEF Del
<1>3. c \in LinkedIn(memory) /\ Fresh' = {} /\ evicting' = -1 /\ loose = <<>>
  BY FoundLinked, NotEvicting DEF Del, May, HashInv, StepFits, Fresh
<1>4. Listed(memory)' /\ UnitsApart'
  BY <1>2, <1>3, EraseStep DEF Del
<1> QED BY <1>1, <1>3, <1>4, ReturningSteps DEF Del

\* erase erases the tail.
LEMMA EraseTailStep == ASSUME HashMapAssumption, HashInv, EraseTail PROVE HashInv'
<1>1. HistoryTyped' /\ ProcessTyped'
  BY DEF EraseTail, HashInv, HistoryTyped, ProcessTyped, history
<1>2. Map.iGetTail \in LinkedIn(memory)
  BY Tails DEF EraseTail, HashInv, Map
<1>3. Fresh' = {} /\ evicting' = -1 /\ loose = <<>>
  BY NotEvicting DEF EraseTail, May, HashInv, StepFits, Fresh
<1>4. Listed(memory)' /\ UnitsApart'
  BY <1>2, <1>3, EraseStep DEF EraseTail
<1> QED BY <1>1, <1>3, <1>4, ReturningSteps DEF EraseTail

\* recover erases a block that it cannot read.
LEMMA RecoverStep ==
    ASSUME HashMapAssumption, HashInv, NEW i \in Buckets, Recover(i)
    PROVE  HashInv'
<1>1. PICK c \in Range(Chain(i)) : Erase(c)
  BY DEF Recover
<1>2. c \in LinkedIn(memory)
  BY LinkedFound
<1>3. Fresh' = {} /\ evicting' = -1 /\ loose = <<>>
  BY NotEvicting DEF Recover, May, HashInv, StepFits, Fresh
<1>4. Listed(memory)' /\ UnitsApart'
  BY <1>1, <1>2, <1>3, EraseStep DEF Recover
<1>5. \E k \in Keys : Index[k] = i
  <2>1. PICK s, g, h : Links(memory, s, g, h)
    BY DEF HashInv, Listed
  <2>2. Chain(i) = h[i]
    BY <2>1, LinksFound DEF Chain
  <2>3. memory[At(c)].iIndex = i
    BY <2>1, <2>2 DEF Links
  <2> QED BY <1>2, <2>3 DEF HashInv, Listed
<1>6. HistoryTyped' /\ ProcessTyped'
  <2>1. PICK k \in Keys : call' = [NoCall EXCEPT !.key = k]
    BY <1>5 DEF Recover
  <2>2. call' \in Calls
    BY <2>1 DEF NoCall, Calls
  <2> QED BY <2>2 DEF Recover, HashInv, HistoryTyped, ProcessTyped, history
<1> QED BY <1>3, <1>4, <1>6, ReturningSteps DEF Recover

\* The steps that take and give units.
LEMMA SetCallStep ==
    ASSUME HashMapAssumption, HashInv, NEW k \in Keys, NEW n \in Nat, NEW only \in BOOLEAN,
           NEW dirty \in BOOLEAN, Set(k, n, only, dirty)
    PROVE  HashInv'
<1>1. HistoryTyped'
  BY DEF Set, HashInv, HistoryTyped, history
<1>2. evicting = -1 /\ loose = <<>>
  BY NotEvicting DEF Set, May, HashInv, StepFits
<1>3. \/ step' = "allocateMemBlock" /\ cell' = 0
      \/ step' = "allocate" /\ cell' \in LinkedIn(memory)
  BY FoundLinked DEF Set
<1>4. cell' \in Cells \cup {0}
  BY <1>3, Neighbours DEF HashInv
<1>5. call' \in Calls /\ call'.key \in Keys
  BY DEF Set, Calls
<1>6. ProcessTyped'
  BY <1>4, <1>5 DEF Set, HashInv, ProcessTyped
<1>7. Fresh' = {}
  BY <1>3 DEF Fresh
<1>8. StaysListed(memory, memory') /\ SameChunks(memory, memory', Cells)
  BY StaysSelf DEF Set, HashInv
<1>9. Listed(memory)' /\ UnitsApart' /\ LinkedIn(memory') = LinkedIn(memory)
  BY <1>7, <1>8, StayApart DEF Set
<1>10. StepFits'
  <2>1. evicting' = -1
    BY <1>2 DEF Set
  <2> QED BY <1>3, <1>5, <1>9, <2>1 DEF StepFits, OnBlock
<1> QED BY <1>1, <1>6, <1>9, <1>10 DEF HashInv

\* A free unit is to be the new block.
LEMMA allocateMemBlockStep == ASSUME HashMapAssumption, HashInv, allocateMemBlock PROVE HashInv'
<1>1. HistoryTyped'
  BY DEF allocateMemBlock, HashInv, HistoryTyped, history
<1>2. Unit \in free /\ Unit \in Cells
  BY UnitIsFree DEF allocateMemBlock, HashInv, UnitsApart, Owned
<1>3. ProcessTyped'
  BY <1>2 DEF allocateMemBlock, HashInv, ProcessTyped
<1>4. memory' = memory /\ Fresh' = {Unit} /\ free' = free \ {Unit} /\ got' = got /\ loose' = loose
  BY DEF allocateMemBlock, Fresh
<1>5. UnitsApart'
  <2>1. Owned(memory, LinkedIn(memory), free \ {Unit}, got, loose, {Unit})
    BY <1>2, OwnedTaken DEF HashInv, UnitsApart
  <2>2. Owned(memory', LinkedIn(memory'), free', got', loose', Fresh')
    BY <1>4, <2>1
  <2> QED BY <2>2 DEF UnitsApart
<1>6. StepFits'
  BY DEF allocateMemBlock, StepFits, OnBlock, HashInv
<1> QED BY <1>1, <1>3, <1>4, <1>5, <1>6 DEF HashInv

\* makeNew links the new block.
LEMMA MakeNewStep == ASSUME HashMapAssumption, HashInv, MakeNew PROVE HashInv'
<1> DEFINE i == Index[call.key]
           L == LinkedIn(memory)
<1>1. HistoryTyped' /\ ProcessTyped'
  BY DEF MakeNew, Goto, HashInv, HistoryTyped, ProcessTyped, history
<1>2. Owned(memory, L, free, got, loose, {cell})
  BY DEF HashInv, UnitsApart, MakeNew, Fresh
<1>3. cell \in Cells /\ cell \notin L
  BY <1>2 DEF Owned, Own
<1>4. i \in Buckets /\ \E k \in Keys : Index[k] = i
  BY DEF MakeNew, HashInv, StepFits, HashMapAssumption, Keys
<1>5. memory' = Updated(makeNew(cell, i), [memory EXCEPT ![At(cell)] = NewBlock(i)])
  BY DEF MakeNew
<1> HIDE DEF i
<1>6. /\ Listed(memory') /\ LinkedIn(memory') = L \cup {cell}
      /\ SameChunks(memory, memory', L) /\ memory'[At(cell)].chunks = <<>>
  <2>1. PICK m : m = [memory EXCEPT ![At(cell)] = NewBlock(i)]
    OBVIOUS
  <2>2. PICK o : o = Updated(makeNew(cell, i), m)
    OBVIOUS
  <2>3. Listed(memory) /\ cell \notin LinkedIn(memory)
    BY <1>3 DEF HashInv
  <2>4. /\ Listed(o) /\ LinkedIn(o) = LinkedIn(memory) \cup {cell}
        /\ SameChunks(memory, o, LinkedIn(memory)) /\ o[At(cell)].chunks = <<>>
    BY ONLY HashMapAssumption, <1>3, <1>4, <2>1, <2>2, <2>3, ListedMake
  <2> QED BY <1>5, <2>1, <2>2, <2>4
<1> HIDE DEF L
<1>7. Owned(memory', L \cup {cell}, free, got, loose, {})
  BY <1>2, <1>6, OwnedMade
<1>8. /\ free' = free /\ got' = got /\ loose' = loose /\ step' = "allocate" /\ cell' = cell
      /\ evicting' = evicting /\ Fresh' = {}
  BY DEF MakeNew, Goto, Fresh
<1>9. Owned(memory', LinkedIn(memory'), free', got', loose', Fresh')
  BY <1>6, <1>7, <1>8
<1>10. StepFits'
  <2>1. evicting = -1
    BY NotEvicting DEF MakeNew
  <2> QED BY <1>6, <1>8, <2>1 DEF StepFits, OnBlock
<1> QED BY <1>1, <1>6, <1>9, <1>10 DEF HashInv, UnitsApart

\* A free unit is to be a chunk.
LEMMA allocateChunkStep == ASSUME HashMapAssumption, HashInv, allocateChunk PROVE HashInv'
<1>1. HistoryTyped' /\ ProcessTyped'
  BY DEF allocateChunk, HashInv, HistoryTyped, ProcessTyped, history
<1>2. Unit \in free
  BY UnitIsFree DEF allocateChunk, HashInv, UnitsApart, Owned
<1>3. /\ memory' = memory /\ Fresh' = Fresh /\ free' = free \ {Unit} /\ got' = Append(got, Unit)
      /\ loose' = loose
  BY DEF allocateChunk, Fresh
<1>4. UnitsApart'
  <2>1. Owned(memory, LinkedIn(memory), free \ {Unit}, Append(got, Unit), loose, Fresh)
    BY <1>2, OwnedTaken DEF HashInv, UnitsApart
  <2>2. Owned(memory', LinkedIn(memory'), free', got', loose', Fresh')
    BY <1>3, <2>1
  <2> QED BY <2>2 DEF UnitsApart
<1>5. StepFits'
  BY DEF allocateChunk, StepFits, OnBlock, HashInv
<1> QED BY <1>1, <1>3, <1>4, <1>5 DEF HashInv

\* A unit is given back.
LEMMA deallocateStep == ASSUME HashMapAssumption, HashInv, deallocate PROVE HashInv'
<1>1. HistoryTyped' /\ ProcessTyped'
  BY DEF deallocate, HashInv, HistoryTyped, ProcessTyped, history
<1>2. /\ memory' = memory /\ Fresh' = Fresh /\ free' = free \cup {loose[1]} /\ got' = got
      /\ loose' = Tail(loose)
  BY DEF deallocate, Fresh
<1>3. UnitsApart'
  <2>1. Owned(memory, LinkedIn(memory), free \cup {loose[1]}, got, Tail(loose), Fresh)
    BY OwnedGiven DEF HashInv, UnitsApart, deallocate
  <2>2. Owned(memory', LinkedIn(memory'), free', got', loose', Fresh')
    BY <1>2, <2>1
  <2> QED BY <2>2 DEF UnitsApart
<1>4. StepFits'
  <2>1. step # "idle"
    BY DEF deallocate, HashInv, StepFits
  <2>2. /\ memory' = memory /\ step' = step /\ cell' = cell /\ call' = call /\ evicting' = evicting
        /\ got' = got
    BY DEF deallocate
  <2> QED BY <2>1, <2>2 DEF StepFits, OnBlock, HashInv, Missing, Block, Map
<1> QED BY <1>1, <1>2, <1>3, <1>4 DEF HashInv

\* eraseExcept begins.
LEMMA StartEvictingStep == ASSUME HashMapAssumption, HashInv, StartEvicting PROVE HashInv'
<1>1. HistoryTyped'
  BY DEF StartEvicting, HashInv, HistoryTyped, history
<1>2. ProcessTyped'
  BY DEF StartEvicting, HashInv, ProcessTyped, HashMapAssumption
<1>3. Listed(memory)' /\ UnitsApart' /\ LinkedIn(memory') = LinkedIn(memory)
  <2>1. StaysListed(memory, memory') /\ SameChunks(memory, memory', Cells)
    BY StaysSelf DEF StartEvicting, HashInv
  <2> QED BY <2>1, StayApart DEF StartEvicting, Fresh
<1>4. StepFits'
  BY DEF StartEvicting, Starved, StepFits, OnBlock, HashInv, Missing, Block, Map
<1> QED BY <1>1, <1>2, <1>3, <1>4 DEF HashInv

\* eraseExcept has made room.
LEMMA EvictedStep == ASSUME HashMapAssumption, HashInv, Evicted PROVE HashInv'
<1>1. HistoryTyped'
  BY DEF Evicted, HashInv, HistoryTyped, history
<1>2. ProcessTyped'
  BY DEF Evicted, HashInv, ProcessTyped, HashMapAssumption
<1>3. Listed(memory)' /\ UnitsApart' /\ LinkedIn(memory') = LinkedIn(memory)
  <2>1. StaysListed(memory, memory') /\ SameChunks(memory, memory', Cells)
    BY StaysSelf DEF Evicted, HashInv
  <2> QED BY <2>1, StayApart DEF Evicted, Fresh
<1>4. StepFits'
  BY DEF Evicted, StepFits, OnBlock, HashInv, Map
<1> QED BY <1>1, <1>2, <1>3, <1>4 DEF HashInv

\* There is no memory.
LEMMA NoMemoryStep == ASSUME HashMapAssumption, HashInv, NoMemory PROVE HashInv'
<1>1. HistoryTyped'
  BY DEF NoMemory, HashInv, HistoryTyped, history
<1>2. ProcessTyped'
  BY DEF NoMemory, HashInv, ProcessTyped, HashMapAssumption
<1>3. step = "allocateMemBlock" \/ step = "allocate"
  BY DEF NoMemory, Starved, HashInv, StepFits
<1>4. /\ step' = (IF step = "allocateMemBlock" THEN "return" ELSE "undo") /\ Fresh' = Fresh
      /\ Fresh = {} /\ memory' = memory /\ free' = free /\ loose' = got /\ got' = <<>>
      /\ cell' = cell /\ evicting' = -1
  BY <1>3 DEF NoMemory, Fresh
<1>5. UnitsApart'
  <2>1. Owned(memory, LinkedIn(memory), free, <<>>, got, Fresh)
    BY OwnedLost DEF HashInv, UnitsApart
  <2>2. Owned(memory', LinkedIn(memory'), free', got', loose', Fresh')
    BY <1>4, <2>1
  <2> QED BY <2>2 DEF UnitsApart
<1>6. StepFits'
  BY <1>3, <1>4 DEF StepFits, OnBlock, HashInv
<1> QED BY <1>1, <1>2, <1>4, <1>5, <1>6 DEF HashInv

\* The steps that write the record of a block.
LEMMA RecordWritten ==
    ASSUME HashMapAssumption, HashInv, NEW c \in LinkedIn(memory), NEW b,
           memory' = [memory EXCEPT ![At(c)] = b], Rewrites(b, memory, c)
    PROVE  /\ StaysListed(memory, memory') /\ LinkedIn(memory) \subseteq Cells /\ c \in Cells
           /\ SameChunks(memory, memory', Cells \ {c}) /\ memory'[At(c)].chunks = b.chunks
<1>1. LinkedIn(memory) \subseteq Cells
  BY LinksFound DEF HashInv, Listed
<1>2. PICK o : o = [memory EXCEPT ![At(c)] = b]
  OBVIOUS
<1>3. Listed(memory) /\ c \in Cells
  BY <1>1 DEF HashInv
<1>4. /\ StaysListed(memory, o) /\ SameChunks(memory, o, Cells \ {c}) /\ o[At(c)].chunks = b.chunks
  <2>1. StaysListed(memory, o)
    BY <1>2, <1>3, ContentsChanged
  <2>2. SameChunks(memory, o, Cells \ {c})
    BY <1>2, <1>3, ContentsChanged
  <2>3. o[At(c)].chunks = b.chunks
    BY <1>2, <1>3 DEF Listed, Typed, Shape
  <2> QED BY <2>1, <2>2, <2>3
<1> QED BY <1>1, <1>2, <1>3, <1>4

\* The record of a block, field by field.
LEMMA RecordTyped ==
    ASSUME HashInv, NEW c \in Cells
    PROVE  /\ At(c) \in DOMAIN memory /\ DOMAIN memory[At(c)] = BlockFields
           /\ memory[At(c)].bDirty \in BOOLEAN /\ memory[At(c)].bOnlyKey \in BOOLEAN
           /\ memory[At(c)].key \in Keys \cup {NoKey}
           /\ memory[At(c)].data \in {"whole", "empty", "zero", "torn", "wild"}
           /\ memory[At(c)].chunks \in Seq(Cells)
BY DEF HashInv, Listed, Typed, Shape

\* Block::set writes the flags.
LEMMA SetFlagsStep == ASSUME HashMapAssumption, HashInv, SetFlags PROVE HashInv'
<1>1. HistoryTyped'
  BY DEF SetFlags, HashInv, HistoryTyped, history
<1>2. cell \in LinkedIn(memory) /\ cell \in Cells
  BY Neighbours DEF SetFlags, HashInv, StepFits, OnBlock
<1>3. call.only \in BOOLEAN
  BY DEF HashInv, ProcessTyped, Calls
<1>4. PICK b : b = [memory[At(cell)] EXCEPT !.bDirty = ~call.only, !.bOnlyKey = call.only]
  OBVIOUS
<1>5. memory' = [memory EXCEPT ![At(cell)] = b]
  BY <1>2, <1>4, RecordTyped DEF SetFlags
<1>6. /\ DOMAIN b = BlockFields
      /\ \A f \in BlockFields \ Contents : b[f] = memory[At(cell)][f]
      /\ b.bDirty = (~call.only) /\ b.bOnlyKey = call.only /\ b.key = memory[At(cell)].key
      /\ b.data = memory[At(cell)].data /\ b.chunks = memory[At(cell)].chunks
  BY <1>2, <1>4, RecordTyped DEF BlockFields, Contents
<1>7. /\ b.bDirty \in BOOLEAN /\ b.bOnlyKey \in BOOLEAN /\ b.key \in Keys \cup {NoKey}
      /\ b.data \in {"whole", "empty", "zero", "torn", "wild"} /\ b.chunks \in Seq(Cells)
  BY <1>2, <1>3, <1>6, RecordTyped
<1>8. StaysListed(memory, memory') /\ SameChunks(memory, memory', Cells)
  <2>0. Rewrites(b, memory, cell)
    BY <1>6, <1>7 DEF Rewrites
  <2>1. /\ StaysListed(memory, memory') /\ SameChunks(memory, memory', Cells \ {cell})
        /\ memory'[At(cell)].chunks = memory[At(cell)].chunks
    BY <1>2, <1>5, <1>6, <2>0, RecordWritten
  <2> QED BY <2>1 DEF SameChunks
<1>9. evicting = -1
  BY DEF SetFlags, HashInv, StepFits
<1>10. CountsMade(counts')
  <2> DEFINE dirty == memory[Root].iDirtyCount + (IF call.only THEN -1 ELSE 1)
             only == memory[Root].iOnlyKeyCount + (IF call.only THEN 1 ELSE -1)
             p == Block(cell).bDirty = call.only
             q == Block(cell).bOnlyKey # call.only
  <2>1. counts' = If(p, <<Put(Root, "iDirtyCount", dirty)>>) \o If(q, <<Put(Root, "iOnlyKeyCount", only)>>)
    BY DEF SetFlags, Add, Increase
  <2>2. dirty \in Int /\ only \in Int
    <3>1. memory[Root].iDirtyCount \in Int /\ memory[Root].iOnlyKeyCount \in Int
      BY DEF HashInv, Listed, Typed
    <3> QED BY <3>1
  <2>3. p \in BOOLEAN /\ q \in BOOLEAN
    OBVIOUS
  <2> HIDE DEF p, q, dirty, only
  <2> QED BY <2>1, <2>2, <2>3 DEF CountsMade
<1>11. ProcessTyped'
  BY <1>10 DEF SetFlags, HashInv, ProcessTyped
<1> QED BY <1>1, <1>2, <1>8, <1>9, <1>11, BlockSteps DEF SetFlags

\* Block::set copies the bytes.
LEMMA CopyDataStep == ASSUME HashMapAssumption, HashInv, CopyData PROVE HashInv'
<1>1. HistoryTyped'
  BY DEF CopyData, HashInv, HistoryTyped, history
<1>2. cell \in LinkedIn(memory) /\ cell \in Cells /\ evicting = -1
  BY Neighbours, NotEvicting DEF CopyData, HashInv, StepFits, OnBlock
<1>3. call.key \in Keys \cup {NoKey}
  BY DEF HashInv, ProcessTyped, Calls
<1>4. PICK b : b = [memory[At(cell)] EXCEPT !.key = call.key, !.data = "whole"]
  OBVIOUS
<1>5. memory' = [memory EXCEPT ![At(cell)] = b]
  BY <1>2, <1>4, RecordTyped DEF CopyData
<1>6. /\ DOMAIN b = BlockFields
      /\ \A f \in BlockFields \ Contents : b[f] = memory[At(cell)][f]
      /\ b.bDirty = memory[At(cell)].bDirty /\ b.bOnlyKey = memory[At(cell)].bOnlyKey
      /\ b.key = call.key /\ b.data = "whole" /\ b.chunks = memory[At(cell)].chunks
  BY <1>2, <1>4, RecordTyped DEF BlockFields, Contents
<1>7. /\ b.bDirty \in BOOLEAN /\ b.bOnlyKey \in BOOLEAN /\ b.key \in Keys \cup {NoKey}
      /\ b.data \in {"whole", "empty", "zero", "torn", "wild"} /\ b.chunks \in Seq(Cells)
  BY <1>2, <1>3, <1>6, RecordTyped
<1>8. StaysListed(memory, memory') /\ SameChunks(memory, memory', Cells)
  <2>0. Rewrites(b, memory, cell)
    BY <1>6, <1>7 DEF Rewrites
  <2>1. /\ StaysListed(memory, memory') /\ SameChunks(memory, memory', Cells \ {cell})
        /\ memory'[At(cell)].chunks = memory[At(cell)].chunks
    BY <1>2, <1>5, <1>6, <2>0, RecordWritten
  <2> QED BY <2>1 DEF SameChunks
<1>9. ProcessTyped'
  BY DEF CopyData, Goto, HashInv, ProcessTyped
<1> QED BY <1>1, <1>2, <1>8, <1>9, BlockSteps DEF CopyData, Goto

\* The process is killed.
LEMMA CrashStep == ASSUME HashMapAssumption, HashInv, Crash PROVE HashInv'
<1>1. HistoryTyped'
  <2>1. setting' = setting /\ setting.crashes \in Nat
    BY DEF Crash, HashInv, HistoryTyped, HashMapAssumption
  <2>2. crashes' \in 0..setting.crashes
    BY <2>1 DEF Crash, HashInv, HistoryTyped
  <2>3. spoilt' \in BOOLEAN
    BY DEF Crash
  <2> QED BY <2>1, <2>2, <2>3 DEF Crash, HashInv, HistoryTyped
<1>2. StaysListed(memory, memory') /\ SameChunks(memory, memory', Cells)
  <2>1. CASE memory' = memory
    BY <2>1, StaysSelf DEF HashInv
  <2>2. CASE memory' # memory
    <3>1. /\ step = "copy"
          /\ memory' = [memory EXCEPT ![At(cell)].data = "torn", ![At(cell)].key = call.key]
      BY <2>2 DEF Crash
    <3>2. cell \in LinkedIn(memory) /\ cell \in Cells
      BY <3>1, Neighbours DEF HashInv, StepFits, OnBlock
    <3>3. call.key \in Keys \cup {NoKey}
      BY DEF HashInv, ProcessTyped, Calls
    <3>4. PICK b : b = [memory[At(cell)] EXCEPT !.data = "torn", !.key = call.key]
      OBVIOUS
    <3>5. memory' = [memory EXCEPT ![At(cell)] = b]
      BY <3>1, <3>2, <3>4, RecordTyped
    <3>6. /\ DOMAIN b = BlockFields
          /\ \A f \in BlockFields \ Contents : b[f] = memory[At(cell)][f]
          /\ b.bDirty = memory[At(cell)].bDirty /\ b.bOnlyKey = memory[At(cell)].bOnlyKey
          /\ b.key = call.key /\ b.data = "torn" /\ b.chunks = memory[At(cell)].chunks
      BY <3>2, <3>4, RecordTyped DEF BlockFields, Contents
    <3>7. /\ b.bDirty \in BOOLEAN /\ b.bOnlyKey \in BOOLEAN /\ b.key \in Keys \cup {NoKey}
          /\ b.data \in {"whole", "empty", "zero", "torn", "wild"} /\ b.chunks \in Seq(Cells)
      BY <3>2, <3>3, <3>6, RecordTyped
    <3>8. /\ StaysListed(memory, memory') /\ SameChunks(memory, memory', Cells \ {cell})
          /\ memory'[At(cell)].chunks = memory[At(cell)].chunks
      <4>1. Rewrites(b, memory, cell)
        BY <3>6, <3>7 DEF Rewrites
      <4> QED BY <3>2, <3>5, <3>6, <4>1, RecordWritten
    <3> QED BY <3>8 DEF SameChunks
  <2> QED BY <2>1, <2>2
<1> QED BY <1>1, <1>2, LeaveSteps DEF Crash

\* The steps that change the chunks of the block that is being set.
LEMMA ChunkSteps ==
    ASSUME HashMapAssumption, HashInv, step = "allocate", evicting = -1,
           UNCHANGED <<free, step, call, cell, evicting, counts, history>>,
           NEW b, memory' = [memory EXCEPT ![At(cell)] = b], Rewrites(b, memory, cell),
           Owned(memory', LinkedIn(memory), free, got', loose', {})
    PROVE  HashInv'
<1>1. HistoryTyped' /\ ProcessTyped'
  BY DEF HashInv, HistoryTyped, ProcessTyped, history
<1>2. cell \in LinkedIn(memory)
  BY DEF HashInv, StepFits, OnBlock
<1>3. Listed(memory') /\ LinkedIn(memory') = LinkedIn(memory)
  BY <1>2, RecordWritten DEF StaysListed
<1>4. Fresh' = {}
  BY DEF Fresh
<1>5. Owned(memory', LinkedIn(memory'), free', got', loose', Fresh')
  BY <1>3, <1>4
<1>6. StepFits'
  BY <1>2, <1>3 DEF StepFits, OnBlock
<1> QED BY <1>1, <1>3, <1>5, <1>6 DEF HashInv, UnitsApart

\* The units while chunks are cut off and joined.
LEMMA AllocateApart ==
    ASSUME HashInv, step = "allocate"
    PROVE  Owned(memory, LinkedIn(memory), free, got, loose, {})
BY DEF HashInv, UnitsApart, Fresh

\* Block::allocate cuts the chunks off that are too many.
LEMMA ShrinkStep == ASSUME HashMapAssumption, HashInv, Shrink PROVE HashInv'
<1> DEFINE old == Block(cell).chunks
           n == call.chunks
           L == LinkedIn(memory)
<1>1. cell \in LinkedIn(memory) /\ cell \in Cells
  BY Neighbours DEF Shrink, HashInv, StepFits, OnBlock
<1>2. n \in Nat /\ old \in Seq(Cells) /\ n < Len(old) /\ Len(got) \in Nat
  <2>1. n \in Nat /\ got \in Seq(Cells)
    BY DEF HashInv, ProcessTyped, Calls, UnitsApart, Owned
  <2>2. old \in Seq(Cells)
    BY <1>1, RecordTyped DEF Block
  <2>3. Len(old) > n /\ Len(old) \in Nat /\ Len(got) \in Nat
    BY <2>1, <2>2, LenProperties DEF Shrink
  <2> QED BY <2>1, <2>2, <2>3
<1>3. evicting = -1
  <2>1. Len(old) \in Nat
    BY <1>2, LenProperties
  <2>2. ~ (Missing > 0)
    BY <1>2, <2>1 DEF Missing
  <2> QED BY <2>2 DEF Shrink, HashInv, StepFits
<1>4. PICK b : b = [memory[At(cell)] EXCEPT !.chunks = SubSeq(old, 1, n),
                                             !.data = IF n = 0 THEN "empty" ELSE "wild",
                                             !.key = IF n = 0 THEN NoKey ELSE memory[At(cell)].key]
  OBVIOUS
<1>5. memory' = [memory EXCEPT ![At(cell)] = b]
  BY <1>1, <1>4, RecordTyped DEF Shrink
<1>6. b.chunks = SubSeq(old, 1, n) /\ loose' = SubSeq(old, n + 1, Len(old))
  BY <1>1, <1>4, RecordTyped DEF BlockFields, Shrink
<1>7. /\ DOMAIN b = BlockFields
      /\ \A f \in BlockFields \ Contents : b[f] = memory[At(cell)][f]
      /\ b.bDirty = memory[At(cell)].bDirty /\ b.bOnlyKey = memory[At(cell)].bOnlyKey
      /\ b.key \in {NoKey, memory[At(cell)].key} /\ b.data \in {"empty", "wild"}
  BY <1>1, <1>4, RecordTyped DEF BlockFields, Contents
<1>8. old = memory[At(cell)].chunks
  BY DEF Block
<1> HIDE DEF old, n, L
<1>9. b.chunks \in Seq(Cells)
  <2>1. PICK c, d : IsCut(old, n, c, d)
    BY DEF IsCut
  <2>2. IsInjective(old)
    BY <1>1, <1>8, AllocateApart DEF Shrink, Owned
  <2>3. c \in Seq(Cells)
    BY <1>2, <2>1, <2>2, CutOnce
  <2> QED BY <1>6, <2>1, <2>3 DEF IsCut
<1>10. /\ b.bDirty \in BOOLEAN /\ b.bOnlyKey \in BOOLEAN /\ b.key \in Keys \cup {NoKey}
       /\ b.data \in {"whole", "empty", "zero", "torn", "wild"}
  BY <1>1, <1>7, RecordTyped
<1>11. Rewrites(b, memory, cell)
  BY <1>7, <1>9, <1>10 DEF Rewrites
<1>12. Owned(memory', LinkedIn(memory), free, got', loose', {})
  <2>1. /\ StaysListed(memory, memory') /\ L \subseteq Cells
        /\ SameChunks(memory, memory', Cells \ {cell}) /\ memory'[At(cell)].chunks = b.chunks
    BY <1>1, <1>5, <1>11, RecordWritten DEF L
  <2>2. SameChunks(memory, memory', L \ {cell})
    BY <2>1 DEF SameChunks
  <2>3. Owned(memory, L, free, got, <<>>, {})
    BY AllocateApart DEF Shrink, L
  <2>4. memory'[At(cell)].chunks = SubSeq(old, 1, n)
    BY <1>6, <2>1
  <2>5. Owned(memory', L, free, got, SubSeq(old, n + 1, Len(old)), {})
    BY <1>1, <1>2, <1>8, <2>2, <2>3, <2>4, OwnedCut DEF L
  <2> QED BY <1>6, <2>5 DEF L, Shrink
<1> QED BY <1>3, <1>5, <1>12, <1>11, ChunkSteps DEF Shrink

\* joinChunk chains a chunk.
LEMMA joinChunkStep == ASSUME HashMapAssumption, HashInv, joinChunk PROVE HashInv'
<1> DEFINE old == memory[At(cell)].chunks
           L == LinkedIn(memory)
<1>1. cell \in LinkedIn(memory) /\ cell \in Cells
  BY Neighbours DEF joinChunk, HashInv, StepFits, OnBlock
<1>2. old \in Seq(Cells)
  BY <1>1, RecordTyped
<1>3. evicting = -1
  BY DEF joinChunk, HashInv, StepFits
<1>4. PICK b : b = [memory[At(cell)] EXCEPT !.chunks = Append(old, got[1]),
                                             !.data = IF Block(cell).key # NoKey THEN "torn" ELSE "zero"]
  OBVIOUS
<1>5. memory' = [memory EXCEPT ![At(cell)] = b]
  BY <1>1, <1>4, RecordTyped DEF joinChunk
<1>6. b.chunks = Append(old, got[1]) /\ got' = Tail(got) /\ loose' = loose
  BY <1>1, <1>4, RecordTyped DEF BlockFields, joinChunk
<1>7. /\ DOMAIN b = BlockFields
      /\ \A f \in BlockFields \ Contents : b[f] = memory[At(cell)][f]
      /\ b.bDirty = memory[At(cell)].bDirty /\ b.bOnlyKey = memory[At(cell)].bOnlyKey
      /\ b.key = memory[At(cell)].key /\ b.data \in {"torn", "zero"}
  BY <1>1, <1>4, RecordTyped DEF BlockFields, Contents
<1> HIDE DEF L
<1>8. Owned(memory, L, free, got, loose, {}) /\ got # <<>>
  BY AllocateApart DEF joinChunk, L
<1>9. b.chunks \in Seq(Cells)
  <2>1. got[1] \in Cells
    BY <1>8, TailOnce DEF Owned
  <2> QED BY <1>2, <1>6, <2>1, AppendProperties
<1>10. /\ b.bDirty \in BOOLEAN /\ b.bOnlyKey \in BOOLEAN /\ b.key \in Keys \cup {NoKey}
       /\ b.data \in {"whole", "empty", "zero", "torn", "wild"}
  BY <1>1, <1>7, RecordTyped
<1>11. Rewrites(b, memory, cell)
  BY <1>7, <1>9, <1>10 DEF Rewrites
<1>12. Owned(memory', LinkedIn(memory), free, got', loose', {})
  <2>1. /\ StaysListed(memory, memory') /\ L \subseteq Cells
        /\ SameChunks(memory, memory', Cells \ {cell}) /\ memory'[At(cell)].chunks = b.chunks
    BY <1>1, <1>5, <1>11, RecordWritten DEF L
  <2>2. SameChunks(memory, memory', L \ {cell})
    BY <2>1 DEF SameChunks
  <2>3. memory'[At(cell)].chunks = Append(old, got[1]) /\ cell \in L
    BY <1>1, <1>6, <2>1 DEF L
  <2>4. Owned(memory', L, free, Tail(got), loose, {})
    BY <1>2, <1>8, <2>2, <2>3, OwnedJoined
  <2> QED BY <1>6, <2>4 DEF L
<1> QED BY <1>3, <1>5, <1>12, <1>11, ChunkSteps DEF joinChunk

\* A map without a block.
LEMMA EmptyListed ==
    ASSUME HashMapAssumption, NEW m, Typed(m), \A mark \in Marks : m[Root][mark] = 0,
           \A f \in {"iSetHead", "iSetTail", "iGetHead", "iGetTail"} : m[Root][f] = 0,
           \A i \in Buckets : m[Item(i)].iBlockAddr = 0
    PROVE  Listed(m) /\ LinkedIn(m) = {}
<1> DEFINE h == [i \in Buckets |-> <<>>]
<1>1. \A next, prev : IsPath(m, next, prev, <<>>)
  <2>1. <<>> \in Seq(Cells) /\ IsInjective(<<>>) /\ 1..Len(<<>>) = {}
    BY NoneOnce
  <2> QED BY <2>1 DEF IsPath
<1>2. First(<<>>) = 0 /\ Final(<<>>) = 0
  BY DEF First, Final
<1>3. IsList(m, SetList, <<>>) /\ IsList(m, GetList, <<>>)
  BY <1>1, <1>2, SetLinks DEF IsList
<1>4. \A i \in Buckets : IsChain(m, i, <<>>)
  BY <1>1, <1>2 DEF IsChain
<1>5. \A i \in Buckets : h[i] = <<>>
  OBVIOUS
<1> HIDE DEF h
<1>6. Links(m, <<>>, <<>>, h)
  BY <1>3, <1>4, <1>5, NoneOnce DEF Links, Typed
<1>7. LinkedIn(m) = {}
  BY <1>6, LinksFound, NoneOnce
<1>8. \E s, g, j : Links(m, s, g, j)
  BY <1>6
<1> QED BY <1>7, <1>8 DEF Listed, MarksOn

\* The memory of a new map.
LEMMA NewReads ==
    /\ NewMemory[Root] = NewHead
    /\ \A i \in Buckets : NewMemory[Item(i)] = [iBlockAddr |-> 0, iListCount |-> 0]
    /\ \A c \in Cells : NewMemory[At(c)] = Blank
    /\ DOMAIN NewMemory = {Root} \cup {Item(i) : i \in Buckets} \cup {At(c) : c \in Cells}
<1> DEFINE D == {Root} \cup {Item(i) : i \in Buckets} \cup {At(c) : c \in Cells}
           V(a) == CASE a[1] = "map" -> NewHead
                     [] a[1] = "item" -> [iBlockAddr |-> 0, iListCount |-> 0]
                     [] a[1] = "block" -> Blank
<1>1. Root[1] = "map" /\ (\A i : Item(i)[1] = "item") /\ (\A c : At(c)[1] = "block")
  BY DEF Root, Item, At
<1>2. V(Root) = NewHead
  BY <1>1
<1>3. \A i : V(Item(i)) = [iBlockAddr |-> 0, iListCount |-> 0]
  BY <1>1
<1>4. \A c : V(At(c)) = Blank
  BY <1>1
<1>5. NewMemory = [a \in D |-> V(a)]
  BY DEF NewMemory
<1> HIDE DEF V
<1> QED BY <1>2, <1>3, <1>4, <1>5

\* The fields of a blank block.
LEMMA BlankReads ==
    /\ DOMAIN Blank = BlockFields /\ Blank.bDirty = FALSE /\ Blank.bOnlyKey = FALSE
    /\ Blank.key = NoKey /\ Blank.data = "empty" /\ Blank.chunks = <<>>
BY DEF Blank, NewBlock, BlockFields

\* A new map is one without a block; the count that clear leaves makes no difference.
LEMMA NewListed ==
    ASSUME HashMapAssumption, NEW v \in Int, NEW m,
           \/ m = NewMemory
           \/ m = [NewMemory EXCEPT ![Root].iOnlyKeyCount = v]
    PROVE  Listed(m) /\ LinkedIn(m) = {}
<1>1. /\ DOMAIN m = DOMAIN NewMemory
      /\ \A i \in Buckets : m[Item(i)] = NewMemory[Item(i)]
      /\ \A c \in Cells : m[At(c)] = NewMemory[At(c)]
  BY NewReads, Addresses
<1>2. DOMAIN m[Root] = HeadFields /\ m[Root].iOnlyKeyCount \in Int
      /\ \A f \in HeadFields : f # "iOnlyKeyCount" => m[Root][f] = 0
  <2>1. m[Root] = NewHead \/ m[Root] = [NewHead EXCEPT !.iOnlyKeyCount = v]
    BY NewReads
  <2>2. DOMAIN NewHead = HeadFields /\ \A f \in HeadFields : NewHead[f] = 0
    BY DEF NewHead, HeadFields
  <2>3. "iOnlyKeyCount" \in HeadFields
    BY DEF HeadFields
  <2> QED BY <2>1, <2>2, <2>3
<1>3. \A i \in Buckets : /\ DOMAIN m[Item(i)] = ItemFields
                         /\ m[Item(i)].iBlockAddr = 0 /\ m[Item(i)].iListCount = 0
  BY <1>1, NewReads DEF ItemFields
<1>4. \A c \in Cells : m[At(c)] = Blank
  BY <1>1, NewReads
<1>5. Shape(m)
  BY <1>1, <1>2, <1>3, <1>4, NewReads, BlankReads DEF Shape
<1>6. \A f \in {"iDirtyCount", "iElementCount", "iOnlyKeyCount"} : m[Root][f] \in Int
  BY <1>2 DEF HeadFields
<1>7. Typed(m)
  <2>1. \A i \in Buckets : m[Item(i)].iListCount \in Int
    BY <1>3
  <2>2. \A c \in Cells :
          /\ m[At(c)].bDirty \in BOOLEAN /\ m[At(c)].bOnlyKey \in BOOLEAN
          /\ m[At(c)].key \in Keys \cup {NoKey}
          /\ m[At(c)].data \in {"whole", "empty", "zero", "torn", "wild"}
    BY <1>4, BlankReads
  <2>3. \A c \in Cells : m[At(c)].chunks \in Seq(Cells)
    BY <1>4, BlankReads, NoneOnce
  <2> QED BY <1>5, <1>6, <2>1, <2>2, <2>3 DEF Typed
<1>8. /\ \A mark \in Marks : m[Root][mark] = 0
      /\ \A f \in {"iSetHead", "iSetTail", "iGetHead", "iGetTail"} : m[Root][f] = 0
  BY <1>2 DEF Marks, HeadFields
<1> QED BY <1>3, <1>7, <1>8, EmptyListed

\* Without a block, all units are free.
LEMMA EmptyOwned == ASSUME NEW m PROVE Owned(m, {}, Cells, <<>>, <<>>, {})
BY NoneOnce DEF Owned

\* clear.
LEMMA ClearStep == ASSUME HashMapAssumption, HashInv, Clear PROVE HashInv'
<1>1. Map.iOnlyKeyCount \in Int
  BY DEF HashInv, Listed, Typed, Map
<1>2. Listed(memory)' /\ LinkedIn(memory)' = {}
  <2>1. memory' = [NewMemory EXCEPT ![Root].iOnlyKeyCount = Map.iOnlyKeyCount]
    BY DEF Clear
  <2> QED BY <1>1, <2>1, NewListed
<1>3. HistoryTyped'
  BY <1>1 DEF Clear, HashInv, HistoryTyped
<1>4. /\ ProcessTyped' /\ StepFits' /\ Fresh' = {} /\ got' = <<>> /\ loose' = <<>>
  BY IdleFits DEF Clear, May
<1>5. UnitsApart'
  <2>1. free' = Cells
    BY DEF Clear
  <2> QED BY <1>2, <1>4, <2>1, EmptyOwned DEF UnitsApart
<1> QED BY <1>2, <1>3, <1>4, <1>5 DEF HashInv

\* A call that does nothing, and the steps in which nothing changes.
LEMMA FruitlessStep == ASSUME HashInv, UNCHANGED vars PROVE HashInv'
<1>1. HistoryTyped' /\ ProcessTyped'
  BY DEF HashInv, HistoryTyped, ProcessTyped, vars, process, history
<1>2. Listed(memory)' /\ StepFits'
  BY DEF HashInv, StepFits, vars, process, Missing, Block, Map
<1>3. UnitsApart'
  BY DEF HashInv, UnitsApart, Fresh, vars, process
<1> QED BY <1>1, <1>2, <1>3 DEF HashInv

\* A new map satisfies the invariant.
LEMMA HashInit == ASSUME HashMapAssumption, Init PROVE HashInv
<1>1. Listed(memory) /\ LinkedIn(memory) = {}
  <2>1. memory = NewMemory /\ 0 \in Int
    BY DEF Init
  <2> QED BY <2>1, NewListed
<1>2. HistoryTyped
  <2>1. setting \in Settings /\ setting.crashes \in Nat
    BY DEF Init, HashMapAssumption
  <2>2. 0 \in 0..setting.crashes
    BY <2>1
  <2>3. crashes \in 0..setting.crashes /\ stray \in Int
    BY <2>2 DEF Init
  <2> QED BY <2>1, <2>3 DEF Init, HistoryTyped
<1>3. ProcessTyped
  BY NoCounts DEF Init, ProcessTyped, NoCall, Calls, HashMapAssumption
<1>4. UnitsApart
  <2>1. free = Cells /\ got = <<>> /\ loose = <<>> /\ Fresh = {}
    BY DEF Init, Fresh
  <2> QED BY <1>1, <2>1, EmptyOwned DEF UnitsApart
<1>5. StepFits
  BY DEF Init, StepFits, OnBlock
<1> QED BY <1>1, <1>2, <1>3, <1>4, <1>5 DEF HashInv

\* Every step keeps the invariant.
LEMMA HashStep == ASSUME HashMapAssumption, HashInv, [Next]_vars PROVE HashInv'
<1>1. setting.keys \subseteq Keys /\ setting.chunks \subseteq Nat /\ setting.dirty \subseteq BOOLEAN
  BY DEF HashInv, HistoryTyped, HashMapAssumption, Keys
<1>2. CASE SetCall
  <2>1. PICK k \in setting.keys :
          \/ \E n \in setting.chunks, dirty \in setting.dirty : Set(k, n, FALSE, dirty)
          \/ Set(k, 0, TRUE, FALSE)
    BY <1>2 DEF SetCall
  <2>2. \E n \in Nat, only \in BOOLEAN, dirty \in BOOLEAN : Set(k, n, only, dirty)
    BY <1>1, <2>1
  <2> QED BY <1>1, <2>2, SetCallStep
<1>3. CASE SetStep
  BY <1>3, allocateMemBlockStep, MakeNewStep, ShrinkStep, allocateChunkStep, joinChunkStep,
     StartEvictingStep, EvictStep, EvictedStep, NoMemoryStep, UndoStep, SetFlagsStep,
     CopyDataStep, CommitCountsStep, SetItsDirtyStep DEF SetStep
<1>4. CASE KeyCall
  BY <1>1, <1>4, GetStep, DelStep, SetDirtyStep DEF KeyCall
<1>5. CASE Others
  BY <1>5, EraseTailStep, KeepDirtyTailStep, MoveTailStep, RecoverStep, RecoveredStep, ClearStep,
     RefreshSetListStep, RefreshGetListStep, deallocateStep, ReturnStep DEF Others
<1>6. CASE Syncing
  BY <1>6, StartSyncStep, SyncStep, SyncPassesStep, SyncLaterStep, SyncDueStep, NeedSyncStep,
     WrittenBackStep, setDirtyAfterSyncStep, DirtyTailBackStep, StartBackupStep, BackupStep
     DEF Syncing
<1>7. CASE Fruitless
  BY <1>7, FruitlessStep DEF Fruitless
<1>8. CASE Crash
  BY <1>8, CrashStep
<1>9. CASE UNCHANGED vars
  BY <1>9, FruitlessStep
<1> QED BY <1>2, <1>3, <1>4, <1>5, <1>6, <1>7, <1>8, <1>9 DEF Next

\* The invariant of the hash map.
THEOREM HashMapInvariant == ASSUME HashMapAssumption PROVE Spec => []HashInv
<1>1. Init => HashInv
  BY HashInit
<1>2. HashInv /\ [Next]_vars => HashInv'
  BY HashStep
<1> QED BY <1>1, <1>2, PTL DEF Spec

-----------------------------------------------------------------------------
(* What the invariant shows                                                *)

\* Two sequences without a common element, one after the other.
LEMMA ConcatOnce ==
    ASSUME NEW S, NEW s \in Seq(S), NEW t \in Seq(S), IsInjective(s), IsInjective(t),
           Range(s) \cap Range(t) = {}
    PROVE  IsInjective(s \o t) /\ Range(s \o t) = Range(s) \cup Range(t)
<1> DEFINE r == s \o t
<1>1. /\ Len(s) \in Nat /\ Len(t) \in Nat /\ Len(r) = Len(s) + Len(t)
      /\ DOMAIN s = 1..Len(s) /\ DOMAIN t = 1..Len(t) /\ DOMAIN r = 1..Len(r)
      /\ \A n \in 1..Len(r) : r[n] = IF n <= Len(s) THEN s[n] ELSE t[n - Len(s)]
  BY LenProperties, ConcatProperties
<1> HIDE DEF r
<1>2. /\ \A n \in 1..Len(s) : n \in 1..Len(r) /\ r[n] = s[n]
      /\ \A n \in 1..Len(t) : n + Len(s) \in 1..Len(r) /\ r[n + Len(s)] = t[n]
  <2>1. ASSUME NEW n \in 1..Len(s) PROVE n \in 1..Len(r) /\ r[n] = s[n]
    BY <1>1
  <2>2. ASSUME NEW n \in 1..Len(t) PROVE n + Len(s) \in 1..Len(r) /\ r[n + Len(s)] = t[n]
    <3>1. n + Len(s) \in 1..Len(r) /\ ~ (n + Len(s) <= Len(s)) /\ (n + Len(s)) - Len(s) = n
      BY <1>1
    <3> QED BY <1>1, <3>1
  <2> QED BY <2>1, <2>2
<1>3. ASSUME NEW n \in 1..Len(r)
      PROVE  \/ n \in 1..Len(s) /\ r[n] = s[n]
             \/ n - Len(s) \in 1..Len(t) /\ r[n] = t[n - Len(s)]
  BY <1>1
<1>4. Range(r) = Range(s) \cup Range(t)
  <2>1. Range(r) \subseteq Range(s) \cup Range(t)
    BY <1>1, <1>3 DEF Range
  <2>2. ASSUME NEW x \in Range(s) PROVE x \in Range(r)
    <3>1. PICK n \in 1..Len(s) : s[n] = x
      BY <1>1 DEF Range
    <3>2. n \in 1..Len(r) /\ r[n] = x
      BY <1>2, <3>1
    <3> QED BY <1>1, <3>2 DEF Range
  <2>3. ASSUME NEW x \in Range(t) PROVE x \in Range(r)
    <3>1. PICK n \in 1..Len(t) : t[n] = x
      BY <1>1 DEF Range
    <3>2. n + Len(s) \in 1..Len(r) /\ r[n + Len(s)] = x
      BY <1>2, <3>1
    <3> QED BY <1>1, <3>2 DEF Range
  <2> QED BY <2>1, <2>2, <2>3
<1>5. IsInjective(r)
  <2> SUFFICES ASSUME NEW i \in 1..Len(r), NEW j \in 1..Len(r), r[i] = r[j] PROVE i = j
    BY <1>1 DEF IsInjective
  <2>1. \A k \in 1..Len(s) : s[k] \in Range(s)
    BY <1>1 DEF Range
  <2>2. \A k \in 1..Len(t) : t[k] \in Range(t)
    BY <1>1 DEF Range
  <2>3. CASE i \in 1..Len(s) /\ j \in 1..Len(s)
    BY <1>1, <1>2, <2>3 DEF IsInjective
  <2>4. CASE i - Len(s) \in 1..Len(t) /\ j - Len(s) \in 1..Len(t)
    <3>1. t[i - Len(s)] = t[j - Len(s)]
      BY <1>1, <2>4
    <3>2. i - Len(s) = j - Len(s)
      BY <1>1, <2>4, <3>1 DEF IsInjective
    <3> QED BY <1>1, <3>2
  <2>5. CASE i \in 1..Len(s) /\ j - Len(s) \in 1..Len(t)
    <3>1. r[i] \in Range(s) /\ r[j] \in Range(t)
      BY <1>1, <2>1, <2>2, <2>5
    <3> QED BY <3>1
  <2>6. CASE i - Len(s) \in 1..Len(t) /\ j \in 1..Len(s)
    <3>1. r[i] \in Range(t) /\ r[j] \in Range(s)
      BY <1>1, <2>1, <2>2, <2>6
    <3> QED BY <3>1
  <2> QED BY <1>3, <2>3, <2>4, <2>5, <2>6
<1> QED BY <1>4, <1>5 DEF r

\* The invariant shows that all is of its type.
LEMMA HashTypes == ASSUME HashMapAssumption, HashInv PROVE TypeOK
<1>1. Shape(memory)
  BY DEF HashInv, Listed, Typed
<1>2. DOMAIN memory = DOMAIN NewMemory
  BY <1>1, NewReads DEF Shape
<1>3. ASSUME NEW c \in Cells
      PROVE  /\ DOMAIN Block(c) = DOMAIN Blank
             /\ Block(c).bDirty \in BOOLEAN /\ Block(c).bOnlyKey \in BOOLEAN
             /\ Block(c).key \in Keys \cup {NoKey}
             /\ Block(c).data \in {"whole", "empty", "zero", "torn", "wild"}
             /\ Range(Block(c).chunks) \subseteq Cells
  <2>1. DOMAIN Block(c) = DOMAIN Blank
    BY RecordTyped, BlankReads DEF Block
  <2>2. Block(c).chunks \in Seq(Cells)
    BY RecordTyped DEF Block
  <2>3. Range(Block(c).chunks) \subseteq Cells
    BY <2>2, RangeOfSeq
  <2> QED BY <2>1, <2>3, RecordTyped DEF Block
<1>4. free \subseteq Cells /\ Range(got) \cup Range(loose) \subseteq Cells
  BY RangeOfSeq DEF HashInv, UnitsApart, Owned
<1>5. call.key \in Keys \cup {NoKey}
  BY DEF HashInv, ProcessTyped, Calls
<1> QED BY <1>2, <1>3, <1>4, <1>5 DEF TypeOK, HashInv, ProcessTyped, HistoryTyped

\* The invariant shows that the map is usable.
LEMMA HashUsable == ASSUME HashMapAssumption, HashInv PROVE StaysUsable
<1>1. PICK s, g, h : Links(memory, s, g, h)
  BY DEF HashInv, Listed
<1>2. /\ Linked = LinkedIn(memory) /\ Linked \subseteq Cells
      /\ SoundList(memory, SetList, Linked) /\ SoundList(memory, GetList, Linked)
      /\ \A i \in Buckets : Chain(i) = h[i]
  BY <1>1, LinksFound, LinkedFound DEF Chain
<1>3. ASSUME NEW i \in Buckets
      PROVE  LET chain == Chain(i)
             IN  /\ IsInjective(chain)
                 /\ \A n \in DOMAIN chain :
                      /\ Block(chain[n]).iBlockPrev = (IF n = 1 THEN 0 ELSE chain[n - 1])
                      /\ Block(chain[n]).iIndex = i
  <2>1. /\ IsPath(memory, "iBlockNext", "iBlockPrev", h[i])
        /\ \A c \in Range(h[i]) : memory[At(c)].iIndex = i
    BY <1>1 DEF Links, IsChain
  <2>2. DOMAIN h[i] = 1..Len(h[i])
    BY <2>1, PathFacts
  <2>3. IsInjective(h[i]) /\ \A n \in DOMAIN h[i] :
             /\ memory[At(h[i][n])].iBlockPrev = (IF n = 1 THEN 0 ELSE h[i][n - 1])
             /\ h[i][n] \in Range(h[i])
    BY <2>1, <2>2 DEF IsPath, Range
  <2>4. Chain(i) = h[i]
    BY <1>2
  <2> QED BY <2>1, <2>3, <2>4 DEF Block
<1>4. {Map.iDirtyTail, Map.iSyncTail, Map.iBackupTail} \subseteq Linked \cup {0}
  BY <1>2 DEF HashInv, Listed, MarksOn, Marks, Map
<1>5. Owned(memory, Linked, free, got, loose, Fresh)
  BY <1>2 DEF HashInv, UnitsApart
<1>6. PICK held : held = got \o loose
  OBVIOUS
<1>7. IsInjective(held) /\ Range(held) = Range(got) \cup Range(loose)
  BY <1>5, <1>6, ConcatOnce DEF Owned
<1>8. \A c \in Linked : IsInjective(Units(c)) /\ Range(Units(c)) = Own(memory, c)
  <2> TAKE c \in Linked
  <2>1. PICK old : old = memory[At(c)].chunks
    OBVIOUS
  <2>2. old \in Seq(Cells) /\ c \in Cells
    BY <1>2, <2>1, RecordTyped
  <2>3. IsInjective(old) /\ c \notin Range(old)
    BY <1>5, <2>1 DEF Owned
  <2>4. IsInjective(Append(old, c)) /\ Range(Append(old, c)) = Range(old) \cup {c}
    BY <2>2, <2>3, AppendedOnce
  <2> QED BY <2>1, <2>4 DEF Units, Block, Own
<1>9. /\ IsInjective(held) /\ Range(held) \cap free = {}
      /\ \A c \in Linked :
           /\ IsInjective(Units(c)) /\ Range(Units(c)) \cap (Range(held) \cup free) = {}
           /\ \A d \in Linked \ {c} : Range(Units(c)) \cap Range(Units(d)) = {}
  <2>1. Range(held) \cap free = {}
    BY <1>5, <1>7 DEF Owned
  <2>2. ASSUME NEW c \in Linked PROVE Range(Units(c)) \cap (Range(held) \cup free) = {}
    <3>1. /\ Own(memory, c) \cap free = {} /\ Own(memory, c) \cap Range(got) = {}
          /\ Own(memory, c) \cap Range(loose) = {}
      BY <1>5 DEF Owned
    <3> QED BY <1>7, <1>8, <3>1
  <2>3. ASSUME NEW c \in Linked, NEW d \in Linked \ {c}
        PROVE  Range(Units(c)) \cap Range(Units(d)) = {}
    BY <1>5, <1>8 DEF Owned
  <2> QED BY <1>7, <1>8, <2>1, <2>2, <2>3
<1> QED BY <1>2, <1>3, <1>4, <1>6, <1>9 DEF StaysUsable

\* At any time, whatever call a process is in, the shared memory, the process and the
\* caller are what the code takes them for.
THEOREM TypeCorrectness == ASSUME HashMapAssumption PROVE Spec => []TypeOK
<1>1. HashInv => TypeOK
  BY HashTypes
<1> QED BY <1>1, HashMapInvariant, PTL

\* Whatever write a process is killed between, the map stays usable: its lists and
\* chains are doubly linked and hold the same blocks, its marks are on them, and no unit
\* of the allocator is in two places (tc_hashmap.cpp:658, 681).
THEOREM MapStaysUsable == ASSUME HashMapAssumption PROVE Spec => []StaysUsable
<1>1. HashInv => StaysUsable
  BY HashUsable
<1> QED BY <1>1, HashMapInvariant, PTL
-----------------------------------------------------------------------------
(* The counts                                                              *)

DirtyIn(m) == {c \in LinkedIn(m) : m[At(c)].bDirty}
OnlyKeyIn(m) == {c \in LinkedIn(m) : m[At(c)].bOnlyKey}
InBucket(m, i) == {c \in LinkedIn(m) : m[At(c)].iIndex = i}

\* The counts of all blocks, which the lists and chains keep.
Sized(m) ==
    /\ m[Root].iElementCount = Cardinality(LinkedIn(m))
    /\ \A i \in Buckets : m[Item(i)].iListCount = Cardinality(InBucket(m, i))

\* The counts of the flags of the blocks of m, in the head of n; extra is what clear has left.
Flagged(m, n, extra) ==
    /\ n[Root].iDirtyCount = Cardinality(DirtyIn(m))
    /\ n[Root].iOnlyKeyCount = extra + Cardinality(OnlyKeyIn(m))

\* The counts agree with the blocks; while Block::set has written the flags and not their
\* counts, those do that it has logged.
Tallied ==
    /\ Sized(memory)
    /\ ~spoilt => Flagged(memory, Updated(counts, memory), stray)
    /\ counts # <<>> => step \in {"copy", "counts"}

\* The fields that tell what is linked, and what is counted.
KeptFields == {"iBlockAddr", "iBlockNext", "iBlockPrev", "iIndex", "iElementCount", "iListCount"}
FlagFields == {"bDirty", "bOnlyKey", "iDirtyCount", "iOnlyKeyCount"}

\* The blocks of a map are some of the units, finitely many.
LEMMA CountedBlocks ==
    ASSUME HashMapAssumption, NEW m, Listed(m)
    PROVE  /\ LinkedIn(m) \subseteq Cells
           /\ \A S : S \subseteq LinkedIn(m) => IsFiniteSet(S) /\ Cardinality(S) \in Nat
<1>1. LinkedIn(m) \subseteq Cells
  BY LinksFound DEF Listed
<1>2. ASSUME NEW S, S \subseteq LinkedIn(m)
      PROVE  IsFiniteSet(S) /\ Cardinality(S) \in Nat
  <2>1. S \in SUBSET Cells
    BY <1>1, <1>2
  <2>2. IsFiniteSet(S)
    BY <2>1, CellFacts, FS_Subset
  <2> QED BY <2>2, FS_CardinalityType
<1> QED BY <1>1, <1>2

\* What one element more or less makes of a number of elements.
LEMMA OneApart ==
    ASSUME NEW S, NEW T, IsFiniteSet(S), NEW c, S \ {c} = T \ {c}
    PROVE  Cardinality(T) = Cardinality(S) + (IF c \in T THEN 1 ELSE 0) - (IF c \in S THEN 1 ELSE 0)
<1> DEFINE R == S \ {c}
<1>1. /\ IsFiniteSet(R) /\ Cardinality(S) \in Nat
      /\ Cardinality(R) = IF c \in S THEN Cardinality(S) - 1 ELSE Cardinality(S)
  BY FS_RemoveElement, FS_CardinalityType
<1>2. /\ c \in T => T = R \cup {c}
      /\ c \notin T => T = R
      /\ c \notin R
  OBVIOUS
<1> HIDE DEF R
<1>3. Cardinality(R \cup {c}) = Cardinality(R) + 1
  BY <1>1, <1>2, FS_AddElement
<1>4. Cardinality(R) \in Nat
  BY <1>1, FS_CardinalityType
<1>5. Cardinality(T) = IF c \in T THEN Cardinality(R) + 1 ELSE Cardinality(R)
  BY <1>2, <1>3
<1> QED BY <1>1, <1>4, <1>5

\* The blocks of a map stay when the fields of its chains do.
LEMMA LinkedKept ==
    ASSUME HashMapAssumption, NEW m, NEW o, Listed(m),
           Same(m, o, {"iBlockAddr", "iBlockNext", "iBlockPrev"})
    PROVE  LinkedIn(o) = LinkedIn(m)
<1>1. PICK s, g, h : Links(m, s, g, h)
  BY DEF Listed
<1>2. Shape(m)
  BY DEF Listed, Typed
<1>3. ASSUME NEW i \in Buckets
      PROVE  /\ Follow(m, m[Item(i)].iBlockAddr, "iBlockNext") = h[i]
             /\ Follow(o, o[Item(i)].iBlockAddr, "iBlockNext") = h[i]
  <2>1. IsChain(m, i, h[i])
    BY <1>1 DEF Links
  <2>2. IsChain(o, i, h[i])
    BY <1>2, <2>1, ChainKept
  <2> QED BY <2>1, <2>2, PathLeads, FollowLeads DEF IsChain
<1> QED BY <1>3 DEF LinkedIn

\* The lengths of the chains are the numbers of blocks in their buckets.
LEMMA ChainLength ==
    ASSUME HashMapAssumption, NEW m, Listed(m), NEW i \in Buckets
    PROVE  Len(Follow(m, m[Item(i)].iBlockAddr, "iBlockNext")) = Cardinality(InBucket(m, i))
<1>1. PICK s, g, h : Links(m, s, g, h)
  BY DEF Listed
<1> DEFINE t == h[i]
<1>2. LinkedIn(m) = Range(s) /\ Follow(m, m[Item(i)].iBlockAddr, "iBlockNext") = t
  BY <1>1, LinksFound
<1>3. IsPath(m, "iBlockNext", "iBlockPrev", t)
  BY <1>1 DEF Links, IsChain
<1>4. Range(t) = InBucket(m, i)
  <2>1. ASSUME NEW c \in Range(t) PROVE c \in InBucket(m, i)
    BY <1>1, <1>2 DEF InBucket, Links
  <2>2. ASSUME NEW c \in InBucket(m, i) PROVE c \in Range(t)
    BY <1>1, <1>2, ChainOf DEF InBucket
  <2> QED BY <2>1, <2>2
<1> HIDE DEF t
<1>5. Len(t) \in Nat /\ IsInjective(t) /\ Range(t) = {t[k] : k \in 1..Len(t)}
  <2>1. Len(t) \in Nat /\ Range(t) = {t[k] : k \in 1..Len(t)}
    BY <1>3, PathFacts
  <2> QED BY <1>3, <2>1 DEF IsPath
<1>6. t \in [1..Len(t) -> Range(t)]
  <2>1. t \in [1..Len(t) -> Cells]
    BY <1>3, LenProperties DEF IsPath
  <2> QED BY <1>5, <2>1
<1>7. t \in Injection(1..Len(t), Range(t)) /\ t \in Surjection(1..Len(t), Range(t))
  <2>1. t \in Injection(1..Len(t), Range(t))
    BY <1>5, <1>6 DEF Injection
  <2>2. t \in Surjection(1..Len(t), Range(t))
    BY <1>5, <1>6 DEF Surjection
  <2> QED BY <2>1, <2>2
<1>8. Cardinality(1..Len(t)) = Len(t)
  <2>1. Len(t) \in Nat
    BY <1>5
  <2> QED BY ONLY <2>1, UpToN
<1>9. IsFiniteSet(Range(t))
  BY <1>4, CountedBlocks DEF InBucket
<1>10. Cardinality(1..Len(t)) = Cardinality(Range(t))
  BY <1>7, <1>9, FS_Injection
<1> QED BY <1>2, <1>4, <1>8, <1>10


\* The numbers of blocks stay when the fields that tell what is linked do, and those of
\* the flags when the flags do.
LEMMA SizesKept ==
    ASSUME HashMapAssumption, NEW m, NEW o, Listed(m), Same(m, o, KeptFields)
    PROVE  /\ LinkedIn(o) = LinkedIn(m)
           /\ Sized(m) => Sized(o)
<1>1. LinkedIn(o) = LinkedIn(m) /\ LinkedIn(m) \subseteq Cells
  <2>1. Same(m, o, {"iBlockAddr", "iBlockNext", "iBlockPrev"})
    BY SameLess DEF KeptFields
  <2> QED BY <2>1, LinkedKept, CountedBlocks
<1>2. Shape(m)
  BY DEF Listed, Typed
<1>3. o[Root].iElementCount = m[Root].iElementCount
  BY <1>2 DEF Same, Shape, KeptFields, HeadFields
<1>4. \A i \in Buckets : o[Item(i)].iListCount = m[Item(i)].iListCount
  BY <1>2 DEF Same, Shape, KeptFields, ItemFields
<1>5. \A c \in Cells : o[At(c)].iIndex = m[At(c)].iIndex
  BY <1>2 DEF Same, Shape, KeptFields, BlockFields
<1>6. \A i \in Buckets : InBucket(o, i) = InBucket(m, i)
  BY <1>1, <1>5 DEF InBucket
<1> QED BY <1>1, <1>3, <1>4, <1>6 DEF Sized

\* The numbers of blocks with a flag.
LEMMA FlagsKept ==
    ASSUME HashMapAssumption, NEW m, NEW o, Listed(m), Same(m, o, KeptFields),
           Same(m, o, {"bDirty", "bOnlyKey"})
    PROVE  DirtyIn(o) = DirtyIn(m) /\ OnlyKeyIn(o) = OnlyKeyIn(m)
<1>1. LinkedIn(o) = LinkedIn(m) /\ LinkedIn(m) \subseteq Cells
  BY SizesKept, CountedBlocks
<1>2. Shape(m)
  BY DEF Listed, Typed
<1>3. \A c \in Cells : o[At(c)].bDirty = m[At(c)].bDirty /\ o[At(c)].bOnlyKey = m[At(c)].bOnlyKey
  BY <1>2 DEF Same, Shape, BlockFields
<1> QED BY <1>1, <1>3 DEF DirtyIn, OnlyKeyIn

\* What Block::set logs writes the counts of the flags.
LEMMA CountsWrite ==
    ASSUME NEW updates, CountsMade(updates)
    PROVE  Writes(updates, {"iDirtyCount", "iOnlyKeyCount"})
<1>1. PICK a \in BOOLEAN, b \in BOOLEAN, v \in Int, w \in Int :
        updates = If(a, <<Put(Root, "iDirtyCount", v)>>) \o If(b, <<Put(Root, "iOnlyKeyCount", w)>>)
  BY DEF CountsMade
<1> DEFINE F == {"iDirtyCount", "iOnlyKeyCount"}
           p == If(a, <<Put(Root, "iDirtyCount", v)>>)
           q == If(b, <<Put(Root, "iOnlyKeyCount", w)>>)
<1>2. Writes(p, F) /\ Writes(q, F)
  BY WritesOne, WritesIf
<1> HIDE DEF F, p, q
<1>3. Writes(p \o q, F)
  BY <1>2, WritesConcat
<1> QED BY <1>1, <1>3 DEF F, p, q

\* The steps that write nothing of what is counted, or after which the counts of flags
\* are not known any more.
LEMMA UncountedSteps ==
    ASSUME HashMapAssumption, HashInv, Tallied, Same(memory, memory', KeptFields),
           \/ spoilt'
           \/ /\ Same(memory, memory', FlagFields)
              /\ counts' = counts /\ spoilt' = spoilt /\ stray' = stray,
           counts' # <<>> => step' \in {"copy", "counts"}
    PROVE  Tallied'
<1>1. Listed(memory) /\ Sized(memory')
  BY SizesKept DEF HashInv, Tallied
<1>2. ASSUME ~spoilt' PROVE Flagged(memory', Updated(counts', memory'), stray')
  <2>1. /\ Same(memory, memory', FlagFields) /\ counts' = counts /\ spoilt' = spoilt /\ stray' = stray
        /\ Flagged(memory, Updated(counts, memory), stray)
    BY <1>2 DEF Tallied
  <2>2. DirtyIn(memory') = DirtyIn(memory) /\ OnlyKeyIn(memory') = OnlyKeyIn(memory)
    <3>1. Same(memory, memory', {"bDirty", "bOnlyKey"})
      BY <2>1, SameLess DEF FlagFields
    <3> QED BY <1>1, <3>1, FlagsKept
  <2> DEFINE p == Updated(counts, memory)
             q == Updated(counts, memory')
  <2>3. Writes(counts, {"iDirtyCount", "iOnlyKeyCount"})
    BY CountsWrite DEF HashInv, ProcessTyped
  <2>4. Same(p, q, FlagFields)
    BY <2>1, <2>3, SameUpdates
  <2>5. Shape(p)
    BY <1>1, <2>3, ShapeUpdated DEF Listed, Typed
  <2> HIDE DEF p, q
  <2>6. q[Root].iDirtyCount = p[Root].iDirtyCount /\ q[Root].iOnlyKeyCount = p[Root].iOnlyKeyCount
    BY <2>4, <2>5 DEF Same, Shape, HeadFields, FlagFields
  <2>7. Flagged(memory', q, stray)
    BY <2>1, <2>2, <2>6 DEF Flagged, p
  <2> QED BY <2>1, <2>7 DEF q
<1> QED BY <1>1, <1>2 DEF Tallied

\* The steps with nothing logged.
LEMMA PlainTally ==
    ASSUME HashMapAssumption, HashInv, Tallied, step \notin {"copy", "counts"}
    PROVE  /\ counts = <<>> /\ Updated(counts, memory) = memory
           /\ ~spoilt => Flagged(memory, memory, stray)
BY UpdatedNone DEF Tallied

\* The fields that put the blocks in order, and that are not counted.
OrderFields == SetFields \cup GetFields \cup Marks

\* What puts blocks in order changes no count.
LEMMA OrderUncounted ==
    ASSUME NEW m, NEW updates, Writes(updates, OrderFields)
    PROVE  /\ Same(m, Updated(updates, m), KeptFields)
           /\ Same(m, Updated(updates, m), FlagFields)
<1>1. OrderFields \cap KeptFields = {} /\ OrderFields \cap FlagFields = {}
  BY DEF OrderFields, SetFields, GetFields, Marks, KeptFields, FlagFields
<1> QED BY <1>1, Untouched

\* The step of a mark.
LEMMA MarkUncounted ==
    ASSUME NEW m, NEW mark \in Marks, NEW list, NEW c
    PROVE  Writes(Step(m, mark, list, c), OrderFields)
<1>1. mark \in OrderFields
  BY DEF OrderFields
<1> QED BY <1>1, WritesOne, WritesIf DEF Step

\* A mark that is written.
LEMMA WriteUncounted ==
    ASSUME NEW mark \in Marks, NEW v, Write(mark, v)
    PROVE  Same(memory, memory', KeptFields) /\ Same(memory, memory', FlagFields)
<1> DEFINE u == Put(Root, mark, v)
<1>1. u[1] = Root /\ u[2] = mark /\ u[3] = v
  BY PutReads
<1>2. mark \in OrderFields
  BY DEF OrderFields
<1>3. Writes(<<u>>, OrderFields)
  BY <1>2, WritesOne
<1> HIDE DEF u
<1>4. Updated(<<u>>, memory) = [memory EXCEPT ![u[1]][u[2]] = u[3]]
  BY UpdatedOne DEF One
<1>5. memory' = Updated(<<u>>, memory)
  BY <1>1, <1>4 DEF Write
<1> QED BY <1>3, <1>5, OrderUncounted

\* The lists are put in order.
LEMMA ListsUncounted ==
    ASSUME NEW c
    PROVE  /\ Writes(refreshSetList(c), OrderFields)
           /\ Writes(refreshGetList(c), OrderFields)
           /\ Writes(Moving(c), OrderFields)
<1> DEFINE s1 == Step(memory, "iSyncTail", SetList, c)
           s2 == Step(memory, "iDirtyTail", SetList, c)
           s3 == Step(memory, "iBackupTail", GetList, c)
           u == If(Map.iDirtyTail = 0, <<Put(Root, "iDirtyTail", c)>>)
           t1 == ToHead(memory, SetList, c)
           t2 == ToHead(memory, GetList, c)
           prev == memory[At(c)].iGetPrev
           first == memory[Root].iGetHead
           t3 == <<Put(Root, "iGetTail", prev), Put(At(prev), "iGetNext", 0),
                   Put(At(c), "iGetPrev", 0), Put(At(c), "iGetNext", first),
                   Put(At(first), "iGetPrev", c), Put(Root, "iGetHead", c)>>
<1>1. {"iSyncTail", "iDirtyTail", "iBackupTail"} \subseteq Marks /\ "iDirtyTail" \in OrderFields
  BY DEF Marks, OrderFields
<1>2. Writes(s1, OrderFields) /\ Writes(s2, OrderFields) /\ Writes(s3, OrderFields)
  BY <1>1, MarkUncounted
<1>3. Writes(u, OrderFields)
  BY <1>1, WritesOne, WritesIf
<1>4. Writes(t1, OrderFields) /\ Writes(t2, OrderFields)
  <2>1. Writes(t1, SetFields) /\ Writes(t2, GetFields)
    BY ToHeadWrites, FieldsOfLists DEF ListFieldsOf
  <2>2. SetFields \subseteq OrderFields /\ GetFields \subseteq OrderFields
    BY DEF OrderFields
  <2> QED BY <2>1, <2>2, WritesMore
<1>5. Writes(t3, OrderFields)
  <2> HIDE DEF prev, first
  <2>1. {"iGetTail", "iGetNext", "iGetPrev", "iGetHead"} \subseteq OrderFields
    BY DEF OrderFields, GetFields
  <2> QED BY <2>1, WritesSix
<1>6. refreshSetList(c) = If(Map.iSetHead # c, s1 \o s2) \o u \o If(Map.iSetHead # c, t1)
  BY DEF refreshSetList
<1>7. refreshGetList(c) = If(Map.iGetHead # c, s3 \o t2)
  BY DEF refreshGetList
<1>8. Moving(c) = s3 \o t3
  BY DEF Moving
<1> HIDE DEF s1, s2, s3, u, t1, t2, t3
<1>9. /\ Writes(If(Map.iSetHead # c, s1 \o s2), OrderFields)
      /\ Writes(If(Map.iSetHead # c, t1), OrderFields)
  <2>1. Writes(s1 \o s2, OrderFields)
    BY <1>2, WritesConcat
  <2> QED BY <1>4, <2>1, WritesIf
<1>10. Writes(refreshSetList(c), OrderFields)
  <2> DEFINE v == If(Map.iSetHead # c, s1 \o s2)
             w == If(Map.iSetHead # c, t1)
  <2> HIDE DEF v, w
  <2>1. Writes((v \o u) \o w, OrderFields)
    BY <1>3, <1>9, WritesConcat DEF v, w
  <2> QED BY <1>6, <2>1 DEF v, w
<1>11. Writes(refreshGetList(c), OrderFields)
  <2>1. Writes(s3 \o t2, OrderFields)
    BY <1>2, <1>4, WritesConcat
  <2> QED BY <1>7, <2>1, WritesIf
<1>12. Writes(Moving(c), OrderFields)
  BY <1>2, <1>5, <1>8, WritesConcat
<1> QED BY <1>10, <1>11, <1>12

\* A record of a block that is replaced by one with the same in the fields F.
LEMMA RecordUncounted ==
    ASSUME NEW m, Shape(m), NEW c \in Cells, NEW b, DOMAIN b = BlockFields, NEW F,
           \A f \in BlockFields : f \in F => b[f] = m[At(c)][f],
           NEW o, o = [m EXCEPT ![At(c)] = b]
    PROVE  Same(m, o, F)
<1>1. /\ DOMAIN o = DOMAIN m /\ DOMAIN m[At(c)] = BlockFields
      /\ \A a \in DOMAIN m : o[a] = IF a = At(c) THEN b ELSE m[a]
  BY DEF Shape
<1>2. \A a \in DOMAIN m : DOMAIN o[a] = DOMAIN m[a]
  BY <1>1
<1>3. ASSUME NEW a \in DOMAIN m, NEW f \in DOMAIN m[a], f \in F PROVE o[a][f] = m[a][f]
  BY <1>1, <1>3
<1> QED BY <1>1, <1>2, <1>3 DEF Same

\* The steps that change what a block holds, but not its flags.
LEMMA RecordSteps ==
    ASSUME HashMapAssumption, HashInv, Tallied, NEW c \in LinkedIn(memory), NEW b,
           memory' = [memory EXCEPT ![At(c)] = b], DOMAIN b = BlockFields,
           \A f \in BlockFields : f \notin {"chunks", "key", "data"} => b[f] = memory[At(c)][f],
           spoilt' \/ (counts' = counts /\ spoilt' = spoilt /\ stray' = stray),
           counts' # <<>> => step' \in {"copy", "counts"}
    PROVE  Tallied'
<1>1. Shape(memory) /\ c \in Cells
  BY Neighbours DEF HashInv, Listed, Typed
<1>2. Same(memory, memory', KeptFields) /\ Same(memory, memory', FlagFields)
  <2>1. /\ \A f \in BlockFields : f \in KeptFields => b[f] = memory[At(c)][f]
        /\ \A f \in BlockFields : f \in FlagFields => b[f] = memory[At(c)][f]
    BY DEF KeptFields, FlagFields
  <2> QED BY <1>1, <2>1, RecordUncounted
<1> QED BY <1>2, UncountedSteps

\* The steps that write nothing in the shared memory.
LEMMA StillSteps ==
    ASSUME HashMapAssumption, HashInv, Tallied, memory' = memory, spoilt' = spoilt, stray' = stray,
           \/ counts' = counts /\ (step' = step \/ step \notin {"copy", "counts"})
           \/ step \notin {"copy", "counts"} /\ Leave
    PROVE  Tallied'
<1>1. counts' = counts /\ (counts' # <<>> => step' \in {"copy", "counts"})
  BY DEF Tallied, Leave
<1>2. Same(memory, memory', KeptFields) /\ Same(memory, memory', FlagFields)
  BY DEF Same
<1> QED BY <1>1, <1>2, UncountedSteps

\* The steps that put blocks in order or write marks.
LEMMA OrderSteps ==
    ASSUME HashMapAssumption, HashInv, Tallied, step \notin {"copy", "counts"},
           Same(memory, memory', KeptFields), Same(memory, memory', FlagFields),
           spoilt' = spoilt, stray' = stray, counts' = counts \/ Leave
    PROVE  Tallied'
<1>1. counts' = counts /\ counts' = <<>>
  BY DEF Tallied, Leave
<1> QED BY <1>1, UncountedSteps

\* refreshSetList, refreshGetList, the tail that moves, get.
LEMMA RefreshTallied ==
    ASSUME HashMapAssumption, HashInv, Tallied,
           \/ RefreshSetList \/ RefreshGetList \/ MoveTail \/ \E k \in Keys : Get(k)
    PROVE  Tallied'
<1>1. CASE RefreshSetList
  <2>1. memory' = Updated(refreshSetList(cell), memory)
    BY <1>1 DEF RefreshSetList, Commit
  <2>2. Same(memory, memory', KeptFields) /\ Same(memory, memory', FlagFields)
    BY <2>1, ListsUncounted, OrderUncounted
  <2> QED BY <1>1, <2>2, OrderSteps DEF RefreshSetList, Goto, history
<1>2. CASE RefreshGetList
  <2>1. memory' = Updated(refreshGetList(cell), memory)
    BY <1>2 DEF RefreshGetList, Commit
  <2>2. Same(memory, memory', KeptFields) /\ Same(memory, memory', FlagFields)
    BY <2>1, ListsUncounted, OrderUncounted
  <2> QED BY <1>2, <2>2, OrderSteps DEF RefreshGetList, history
<1>3. CASE MoveTail
  <2>1. memory' = Updated(Moving(cell), memory)
    BY <1>3 DEF MoveTail, Commit, Moving, Block, Map
  <2>2. Same(memory, memory', KeptFields) /\ Same(memory, memory', FlagFields)
    BY <2>1, ListsUncounted, OrderUncounted
  <2> QED BY <1>3, <2>2, OrderSteps DEF MoveTail, history
<1>4. CASE \E k \in Keys : Get(k)
  <2>1. PICK k \in Keys : Get(k)
    BY <1>4
  <2>2. PICK c \in Found(k) : memory' = Updated(refreshGetList(c), memory)
    BY <2>1 DEF Get, Commit
  <2>3. Same(memory, memory', KeptFields) /\ Same(memory, memory', FlagFields)
    BY <2>2, ListsUncounted, OrderUncounted
  <2> QED BY <2>1, <2>3, OrderSteps DEF Get, May, process, history
<1> QED BY <1>1, <1>2, <1>3, <1>4

\* Writing back and backing up move marks.
LEMMA MarksTallied ==
    ASSUME HashMapAssumption, HashInv, Tallied,
           \/ SyncPasses \/ NeedSync \/ StartSync \/ Sync \/ KeepDirtyTail \/ DirtyTailBack
           \/ StartBackup \/ Backup
    PROVE  Tallied'
<1>1. {"iDirtyTail", "iSyncTail", "iBackupTail"} \subseteq Marks
  BY DEF Marks
<1>2. ASSUME PassDirtyTail
      PROVE  Same(memory, memory', KeptFields) /\ Same(memory, memory', FlagFields) /\ Leave
  <2>1. memory' = Updated(Step(memory, "iDirtyTail", SetList, cell), memory)
    BY <1>2 DEF PassDirtyTail, Commit
  <2>2. Writes(Step(memory, "iDirtyTail", SetList, cell), OrderFields)
    BY <1>1, MarkUncounted
  <2> QED BY <1>2, <2>1, <2>2, OrderUncounted DEF PassDirtyTail
<1>3. ASSUME NEW mark \in Marks, NEW v, Write(mark, v)
      PROVE  Same(memory, memory', KeptFields) /\ Same(memory, memory', FlagFields)
  BY <1>3, WriteUncounted
<1>4. CASE SyncPasses
  BY <1>2, <1>4, OrderSteps DEF SyncPasses, history
<1>5. CASE NeedSync
  BY <1>2, <1>5, OrderSteps DEF NeedSync
<1>6. CASE StartSync
  BY <1>1, <1>3, <1>6, OrderSteps DEF StartSync, May, process, history
<1>7. CASE Sync
  BY <1>1, <1>3, <1>7, OrderSteps DEF Sync, May, Begin, history
<1>8. CASE KeepDirtyTail
  BY <1>1, <1>3, <1>8, OrderSteps DEF KeepDirtyTail, May, Begin, history
<1>9. CASE DirtyTailBack
  BY <1>1, <1>3, <1>9, OrderSteps DEF DirtyTailBack, history
<1>10. CASE StartBackup
  BY <1>1, <1>3, <1>10, OrderSteps DEF StartBackup, May, process, history
<1>11. CASE Backup
  BY <1>1, <1>3, <1>11, OrderSteps DEF Backup, May, process, history
<1> QED BY <1>4, <1>5, <1>6, <1>7, <1>8, <1>9, <1>10, <1>11

\* The chunks and the bytes of a block are not counted.
LEMMA BytesTallied ==
    ASSUME HashMapAssumption, HashInv, Tallied, Shrink \/ joinChunk \/ CopyData
    PROVE  Tallied'
<1>1. cell \in LinkedIn(memory) /\ cell \in Cells
  BY Neighbours DEF Shrink, joinChunk, CopyData, HashInv, StepFits, OnBlock
<1>2. /\ counts' = counts /\ spoilt' = spoilt /\ stray' = stray
      /\ counts' # <<>> => step' \in {"copy", "counts"}
  BY DEF Shrink, joinChunk, CopyData, Goto, Tallied, history
<1>3. CASE Shrink
  <2> DEFINE old == Block(cell).chunks
             n == call.chunks
  <2>1. PICK b : b = [memory[At(cell)] EXCEPT !.chunks = SubSeq(old, 1, n),
                                               !.data = IF n = 0 THEN "empty" ELSE "wild",
                                               !.key = IF n = 0 THEN NoKey ELSE memory[At(cell)].key]
    OBVIOUS
  <2>2. memory' = [memory EXCEPT ![At(cell)] = b]
    BY <1>1, <1>3, <2>1, RecordTyped DEF Shrink
  <2>3. /\ DOMAIN b = BlockFields
        /\ \A f \in BlockFields : f \notin {"chunks", "key", "data"} => b[f] = memory[At(cell)][f]
    BY <1>1, <2>1, RecordTyped DEF BlockFields
  <2> QED BY <1>1, <1>2, <2>2, <2>3, RecordSteps
<1>4. CASE joinChunk
  <2>1. PICK b : b = [memory[At(cell)] EXCEPT !.chunks = Append(memory[At(cell)].chunks, got[1]),
                                               !.data = IF Block(cell).key # NoKey THEN "torn" ELSE "zero"]
    OBVIOUS
  <2>2. memory' = [memory EXCEPT ![At(cell)] = b]
    BY <1>1, <1>4, <2>1, RecordTyped DEF joinChunk
  <2>3. /\ DOMAIN b = BlockFields
        /\ \A f \in BlockFields : f \notin {"chunks", "key", "data"} => b[f] = memory[At(cell)][f]
    BY <1>1, <2>1, RecordTyped DEF BlockFields
  <2> QED BY <1>1, <1>2, <2>2, <2>3, RecordSteps
<1>5. CASE CopyData
  <2>1. PICK b : b = [memory[At(cell)] EXCEPT !.key = call.key, !.data = "whole"]
    OBVIOUS
  <2>2. memory' = [memory EXCEPT ![At(cell)] = b]
    BY <1>1, <1>5, <2>1, RecordTyped DEF CopyData
  <2>3. /\ DOMAIN b = BlockFields
        /\ \A f \in BlockFields : f \notin {"chunks", "key", "data"} => b[f] = memory[At(cell)][f]
    BY <1>1, <2>1, RecordTyped DEF BlockFields
  <2> QED BY <1>1, <1>2, <2>2, <2>3, RecordSteps
<1> QED BY <1>3, <1>4, <1>5

\* A process that is killed between the flags and their counts is one that makes a block dirty.
LEMMA CrashTallied == ASSUME HashMapAssumption, HashInv, Tallied, Crash PROVE Tallied'
<1>1. counts' = <<>> /\ (spoilt' \/ (counts' = counts /\ spoilt' = spoilt /\ stray' = stray))
  BY DEF Crash, Leave, MakesDirty, Tallied, HashInv, HistoryTyped
<1>2. CASE memory' = memory
  <2>1. Same(memory, memory', KeptFields) /\ Same(memory, memory', FlagFields)
    BY <1>2 DEF Same
  <2> QED BY <1>1, <2>1, UncountedSteps
<1>3. CASE memory' # memory
  <2>1. /\ step = "copy"
        /\ memory' = [memory EXCEPT ![At(cell)].data = "torn", ![At(cell)].key = call.key]
    BY <1>3 DEF Crash
  <2>2. cell \in LinkedIn(memory) /\ cell \in Cells
    BY <2>1, Neighbours DEF HashInv, StepFits, OnBlock
  <2>3. PICK b : b = [memory[At(cell)] EXCEPT !.data = "torn", !.key = call.key]
    OBVIOUS
  <2>4. memory' = [memory EXCEPT ![At(cell)] = b]
    BY <2>1, <2>2, <2>3, RecordTyped
  <2>5. /\ DOMAIN b = BlockFields
        /\ \A f \in BlockFields : f \notin {"chunks", "key", "data"} => b[f] = memory[At(cell)][f]
    BY <2>2, <2>3, RecordTyped DEF BlockFields
  <2> QED BY <1>1, <2>2, <2>4, <2>5, RecordSteps
<1> QED BY <1>2, <1>3

\* The steps after which nothing is logged.
LEMMA NowTallied ==
    ASSUME counts' = <<>>, Sized(memory'), ~spoilt' => Flagged(memory', memory', stray')
    PROVE  Tallied'
<1>1. Updated(<<>>, memory') = memory'
  BY UpdatedNone
<1> QED BY <1>1 DEF Tallied

\* One block less.
LEMMA OneLess ==
    ASSUME HashMapAssumption, NEW m, Listed(m), NEW S, S \subseteq LinkedIn(m), NEW c
    PROVE  Cardinality(S \ {c}) = Cardinality(S) + (IF c \in S THEN -1 ELSE 0)
<1>1. IsFiniteSet(S) /\ Cardinality(S) \in Nat
  BY CountedBlocks
<1>2. Cardinality(S \ {c}) = IF c \in S THEN Cardinality(S) - 1 ELSE Cardinality(S)
  BY <1>1, FS_RemoveElement
<1> QED BY <1>1, <1>2

\* erase counts the block out.
LEMMA EraseTally ==
    ASSUME HashMapAssumption, HashInv, Tallied, step \notin {"copy", "counts"},
           NEW c \in LinkedIn(memory), Erase(c), counts' = counts, spoilt' = spoilt, stray' = stray
    PROVE  Tallied'
<1> DEFINE o == Updated(erase(c), memory)
           L == LinkedIn(memory)
<1>1. memory' = [o EXCEPT ![At(c)] = Blank]
  BY DEF Erase
<1>2. LinkedIn(memory') = L \ {c} /\ EraseReads(memory, o, c) /\ Shape(o)
  BY <1>1, ListedErase DEF HashInv
<1>3. c \in Cells /\ L \subseteq Cells /\ Shape(memory)
  BY Neighbours, CountedBlocks DEF HashInv, Listed, Typed
<1> HIDE DEF o, L
<1>4. /\ memory'[Root] = o[Root] /\ \A i \in Buckets : memory'[Item(i)] = o[Item(i)]
      /\ \A d \in Cells : d # c => memory'[At(d)] = o[At(d)]
  BY <1>1, <1>2, <1>3, Addresses DEF Shape
<1>5. \A d \in Cells : d # c => /\ memory'[At(d)].bDirty = memory[At(d)].bDirty
                                /\ memory'[At(d)].bOnlyKey = memory[At(d)].bOnlyKey
                                /\ memory'[At(d)].iIndex = memory[At(d)].iIndex
  <2>1. Same(memory, o, Contents \cup {"iIndex"})
    BY <1>2 DEF EraseReads
  <2> QED BY <1>3, <1>4, <2>1, SameContents
<1>6. /\ DirtyIn(memory') = DirtyIn(memory) \ {c}
      /\ OnlyKeyIn(memory') = OnlyKeyIn(memory) \ {c}
      /\ \A i : InBucket(memory', i) = InBucket(memory, i) \ {c}
  BY <1>2, <1>3, <1>5 DEF DirtyIn, OnlyKeyIn, InBucket, L
<1>7. /\ c \in L /\ (c \in DirtyIn(memory) <=> memory[At(c)].bDirty)
      /\ (c \in OnlyKeyIn(memory) <=> memory[At(c)].bOnlyKey)
      /\ \A i : c \in InBucket(memory, i) <=> i = memory[At(c)].iIndex
  BY DEF DirtyIn, OnlyKeyIn, InBucket, L
<1>8. /\ Cardinality(L \ {c}) = Cardinality(L) + (-1)
      /\ Cardinality(DirtyIn(memory) \ {c}) = Cardinality(DirtyIn(memory)) + (IF memory[At(c)].bDirty THEN -1 ELSE 0)
      /\ Cardinality(OnlyKeyIn(memory) \ {c})
           = Cardinality(OnlyKeyIn(memory)) + (IF memory[At(c)].bOnlyKey THEN -1 ELSE 0)
      /\ \A i : Cardinality(InBucket(memory, i) \ {c})
                  = Cardinality(InBucket(memory, i)) + (IF i = memory[At(c)].iIndex THEN -1 ELSE 0)
  <2>1. /\ DirtyIn(memory) \subseteq L /\ OnlyKeyIn(memory) \subseteq L
        /\ \A i : InBucket(memory, i) \subseteq L
    BY DEF DirtyIn, OnlyKeyIn, InBucket, L
  <2>2. \A S : S \subseteq L => Cardinality(S \ {c}) = Cardinality(S) + (IF c \in S THEN -1 ELSE 0)
    BY OneLess DEF HashInv, L
  <2> QED BY <1>7, <2>1, <2>2
<1>9. Sized(memory')
  <2>1. memory'[Root].iElementCount = Cardinality(LinkedIn(memory'))
    BY <1>2, <1>4, <1>8 DEF EraseReads, Tallied, Sized, L
  <2>2. ASSUME NEW i \in Buckets
        PROVE  memory'[Item(i)].iListCount = Cardinality(InBucket(memory', i))
    <3>1. memory[Item(i)].iListCount = Cardinality(InBucket(memory, i))
      BY DEF Tallied, Sized
    <3>2. o[Item(i)].iListCount
            = memory[Item(i)].iListCount + (IF i = memory[At(c)].iIndex THEN -1 ELSE 0)
      BY <1>2 DEF EraseReads
    <3> QED BY <1>4, <1>6, <1>8, <3>1, <3>2
  <2> QED BY <2>1, <2>2 DEF Sized
<1>10. ASSUME ~spoilt PROVE Flagged(memory', memory', stray)
  <2>1. /\ memory[Root].iDirtyCount = Cardinality(DirtyIn(memory))
        /\ memory[Root].iOnlyKeyCount = stray + Cardinality(OnlyKeyIn(memory))
    BY <1>10, PlainTally DEF Flagged
  <2>2. /\ memory'[Root].iDirtyCount = IF memory[At(c)].bDirty THEN memory[Root].iDirtyCount + (-1)
                                       ELSE memory[Root].iDirtyCount
        /\ memory'[Root].iOnlyKeyCount = IF memory[At(c)].bOnlyKey THEN memory[Root].iOnlyKeyCount + (-1)
                                         ELSE memory[Root].iOnlyKeyCount
    BY <1>2, <1>4 DEF EraseReads
  <2>3. /\ Cardinality(DirtyIn(memory)) \in Nat /\ Cardinality(OnlyKeyIn(memory)) \in Nat /\ stray \in Int
    BY CountedBlocks DEF HashInv, HistoryTyped, DirtyIn, OnlyKeyIn
  <2>4. memory'[Root].iDirtyCount = Cardinality(DirtyIn(memory'))
    BY <1>6, <1>8, <2>1, <2>2, <2>3
  <2>5. memory'[Root].iOnlyKeyCount = stray + Cardinality(OnlyKeyIn(memory'))
    BY <1>6, <1>8, <2>1, <2>2, <2>3
  <2> QED BY <2>4, <2>5 DEF Flagged
<1>11. counts' = <<>>
  BY PlainTally
<1> QED BY <1>9, <1>10, <1>11, NowTallied

\* The steps that erase a block.
LEMMA EraseTallied ==
    ASSUME HashMapAssumption, HashInv, Tallied,
           \/ Evict \/ Undo \/ EraseTail \/ (\E k \in Keys : Del(k)) \/ (\E i \in Buckets : Recover(i))
    PROVE  Tallied'
<1>1. CASE Evict
  <2>1. Victim \in LinkedIn(memory)
    BY <1>1, VictimLinked DEF Evict
  <2>2. step \notin {"copy", "counts"}
    BY <1>1, NotEvicting DEF Evict
  <2> QED BY <1>1, <2>1, <2>2, EraseTally DEF Evict, history
<1>2. CASE Undo
  <2>1. cell \in LinkedIn(memory)
    BY <1>2 DEF Undo, HashInv, StepFits, OnBlock
  <2>2. CASE call.fresh
    BY <1>2, <2>1, <2>2, EraseTally DEF Undo, history
  <2>3. CASE ~call.fresh
    BY <1>2, <2>3, StillSteps DEF Undo, history
  <2> QED BY <2>2, <2>3
<1>3. CASE EraseTail
  <2>1. Map.iGetTail \in LinkedIn(memory)
    BY <1>3, Tails DEF EraseTail, HashInv, Map
  <2> QED BY <1>3, <2>1, EraseTally DEF EraseTail, May, history
<1>4. CASE \E k \in Keys : Del(k)
  <2>1. PICK k \in Keys : Del(k)
    BY <1>4
  <2>2. PICK c \in Found(k) : Erase(c)
    BY <2>1 DEF Del
  <2>3. c \in LinkedIn(memory)
    BY FoundLinked
  <2> QED BY <2>1, <2>2, <2>3, EraseTally DEF Del, May, history
<1>5. CASE \E i \in Buckets : Recover(i)
  <2>1. PICK i \in Buckets : Recover(i)
    BY <1>5
  <2>2. PICK c \in Range(Chain(i)) : Erase(c)
    BY <2>1 DEF Recover
  <2>3. c \in LinkedIn(memory)
    BY LinkedFound
  <2> QED BY <2>1, <2>2, <2>3, EraseTally DEF Recover, May, history
<1> QED BY <1>1, <1>2, <1>3, <1>4, <1>5

\* The steps that write nothing in the shared memory, one by one.
LEMMA QuietTallied ==
    ASSUME HashMapAssumption, HashInv, Tallied,
           \/ Return \/ SyncLater \/ Recovered \/ WrittenBack \/ deallocate
           \/ allocateMemBlock \/ allocateChunk \/ StartEvicting \/ Evicted \/ NoMemory
           \/ (\E k, n, only, dirty : Set(k, n, only, dirty))
           \/ UNCHANGED vars
    PROVE  Tallied'
<1>1. CASE Return
  BY <1>1, StillSteps DEF Return, history
<1>2. CASE SyncLater
  BY <1>2, StillSteps DEF SyncLater, history
<1>3. CASE Recovered
  BY <1>3, StillSteps DEF Recovered, history
<1>4. CASE WrittenBack
  BY <1>4, StillSteps DEF WrittenBack, process
<1>5. CASE deallocate
  BY <1>5, StillSteps DEF deallocate, history
<1>6. CASE allocateMemBlock
  BY <1>6, StillSteps DEF allocateMemBlock, history
<1>7. CASE allocateChunk
  BY <1>7, StillSteps DEF allocateChunk, history
<1>8. CASE StartEvicting
  BY <1>8, StillSteps DEF StartEvicting, history
<1>9. CASE Evicted
  <2>1. step \notin {"copy", "counts"}
    BY <1>9, NotEvicting DEF Evicted
  <2> QED BY <1>9, <2>1, StillSteps DEF Evicted, history
<1>10. CASE NoMemory
  <2>1. step \notin {"copy", "counts"}
    BY <1>10, NotEvicting DEF NoMemory, Starved
  <2> QED BY <1>10, <2>1, StillSteps DEF NoMemory, history
<1>11. CASE \E k, n, only, dirty : Set(k, n, only, dirty)
  BY <1>11, StillSteps DEF Set, May, history
<1>12. CASE UNCHANGED vars
  BY <1>12, StillSteps DEF vars, process, history
<1> QED BY <1>1, <1>2, <1>3, <1>4, <1>5, <1>6, <1>7, <1>8, <1>9, <1>10, <1>11, <1>12

\* One block more.
LEMMA OneMore ==
    ASSUME HashMapAssumption, NEW m, Listed(m), NEW S, S \subseteq LinkedIn(m),
           NEW c, c \notin LinkedIn(m)
    PROVE  Cardinality(S \cup {c}) = Cardinality(S) + 1
<1>1. IsFiniteSet(S) /\ c \notin S
  BY CountedBlocks
<1> QED BY <1>1, FS_AddElement

\* makeNew counts the block in.
LEMMA MakeTallied == ASSUME HashMapAssumption, HashInv, Tallied, MakeNew PROVE Tallied'
<1> DEFINE i == Index[call.key]
           L == LinkedIn(memory)
<1>1. cell \in Cells /\ cell \notin L
  BY DEF HashInv, UnitsApart, MakeNew, Fresh, Owned, Own
<1>2. i \in Buckets /\ \E k \in Keys : Index[k] = i
  BY DEF MakeNew, HashInv, StepFits, HashMapAssumption, Keys
<1>3. memory' = Updated(makeNew(cell, i), [memory EXCEPT ![At(cell)] = NewBlock(i)])
  BY DEF MakeNew
<1> HIDE DEF i
<1>4. PICK m : m = [memory EXCEPT ![At(cell)] = NewBlock(i)]
  OBVIOUS
<1>5. LinkedIn(memory') = L \cup {cell} /\ MakeReads(m, memory', cell, i) /\ Shape(m)
  <2>1. PICK o : o = Updated(makeNew(cell, i), m)
    OBVIOUS
  <2>2. Listed(memory) /\ cell \notin LinkedIn(memory)
    BY <1>1 DEF HashInv
  <2>3. LinkedIn(o) = LinkedIn(memory) \cup {cell} /\ MakeReads(m, o, cell, i) /\ Shape(m)
    BY ONLY HashMapAssumption, <1>1, <1>2, <1>4, <2>1, <2>2, ListedMake
  <2> QED BY <1>3, <1>4, <2>1, <2>3
<1>6. L \subseteq Cells /\ Shape(memory)
  BY CountedBlocks DEF HashInv, Listed, Typed
<1>7. /\ m[Root] = memory[Root] /\ \A j \in Buckets : m[Item(j)] = memory[Item(j)]
      /\ \A d \in Cells : m[At(d)] = IF d = cell THEN NewBlock(i) ELSE memory[At(d)]
  BY <1>1, <1>4, <1>6, Addresses DEF Shape
<1>8. \A d \in Cells : /\ memory'[At(d)].bDirty = m[At(d)].bDirty
                       /\ memory'[At(d)].bOnlyKey = m[At(d)].bOnlyKey
                       /\ memory'[At(d)].iIndex = m[At(d)].iIndex
  <2> DEFINE F == Contents \cup {"iIndex"} \cup Marks
  <2>1. Same(m, memory', F)
    BY <1>5 DEF MakeReads
  <2>2. Contents \cup {"iIndex"} \subseteq F
    OBVIOUS
  <2> HIDE DEF F
  <2> QED BY ONLY <1>5, <2>1, <2>2, SameContents
<1>9. /\ memory'[At(cell)].bDirty = TRUE /\ memory'[At(cell)].bOnlyKey = FALSE
      /\ memory'[At(cell)].iIndex = i
  BY <1>1, <1>7, <1>8, NewBlockFields
<1>10. \A d \in L : /\ memory'[At(d)].bDirty = memory[At(d)].bDirty
                    /\ memory'[At(d)].bOnlyKey = memory[At(d)].bOnlyKey
                    /\ memory'[At(d)].iIndex = memory[At(d)].iIndex
  BY <1>1, <1>6, <1>7, <1>8
<1>11. /\ DirtyIn(memory') = DirtyIn(memory) \cup {cell}
       /\ OnlyKeyIn(memory') = OnlyKeyIn(memory)
       /\ \A j : InBucket(memory', j) = IF j = i THEN InBucket(memory, j) \cup {cell} ELSE InBucket(memory, j)
  BY <1>5, <1>9, <1>10 DEF DirtyIn, OnlyKeyIn, InBucket, L
<1>12. /\ DirtyIn(memory) \subseteq LinkedIn(memory) /\ L \subseteq LinkedIn(memory)
       /\ \A j : InBucket(memory, j) \subseteq LinkedIn(memory)
  BY DEF DirtyIn, InBucket, L
<1> HIDE DEF L
<1>13. /\ Cardinality(L \cup {cell}) = Cardinality(L) + 1
       /\ Cardinality(DirtyIn(memory) \cup {cell}) = Cardinality(DirtyIn(memory)) + 1
       /\ \A j : Cardinality(InBucket(memory, j) \cup {cell}) = Cardinality(InBucket(memory, j)) + 1
  <2>1. Listed(memory) /\ cell \notin LinkedIn(memory)
    BY <1>1 DEF HashInv, L
  <2> QED BY ONLY HashMapAssumption, <1>12, <2>1, OneMore
<1>14. Sized(memory')
  <2>1. memory'[Root].iElementCount = Cardinality(LinkedIn(memory'))
    BY <1>5, <1>7, <1>13 DEF MakeReads, Tallied, Sized, L
  <2>2. ASSUME NEW j \in Buckets
        PROVE  memory'[Item(j)].iListCount = Cardinality(InBucket(memory', j))
    <3>1. memory[Item(j)].iListCount = Cardinality(InBucket(memory, j))
      BY DEF Tallied, Sized
    <3>2. memory'[Item(j)].iListCount = m[Item(j)].iListCount + IF j = i THEN 1 ELSE 0
      BY <1>5 DEF MakeReads
    <3>3. Cardinality(InBucket(memory, j)) \in Nat
      BY <1>12, CountedBlocks DEF HashInv
    <3> QED BY <1>7, <1>11, <1>13, <3>1, <3>2, <3>3
  <2> QED BY <2>1, <2>2 DEF Sized
<1>15. counts' = <<>> /\ spoilt' = spoilt /\ stray' = stray
  BY PlainTally DEF MakeNew, Goto, history
<1>16. ASSUME ~spoilt PROVE Flagged(memory', memory', stray)
  <2>1. /\ memory[Root].iDirtyCount = Cardinality(DirtyIn(memory))
        /\ memory[Root].iOnlyKeyCount = stray + Cardinality(OnlyKeyIn(memory))
    BY <1>16, PlainTally DEF MakeNew, Flagged
  <2>2. /\ memory'[Root].iDirtyCount = m[Root].iDirtyCount + 1
        /\ memory'[Root].iOnlyKeyCount = m[Root].iOnlyKeyCount
    BY <1>5 DEF MakeReads
  <2> QED BY <1>7, <1>11, <1>13, <2>1, <2>2 DEF Flagged
<1> QED BY <1>14, <1>15, <1>16, NowTallied

\* What setDirty writes: the mark of the block, and the count when it changes.
LEMMA DirtyWrites ==
    ASSUME HashMapAssumption, Shape(memory), NEW c \in Cells, NEW d \in BOOLEAN,
           memory' = Updated(setDirty(c, d), memory)
    PROVE  /\ \A F : {"iDirtyCount", "bDirty"} \cap F = {} => Same(memory, memory', F)
           /\ Block(c).bDirty # d => memory'[Root].iDirtyCount = Map.iDirtyCount + (IF d THEN 1 ELSE -1)
           /\ \A e \in Cells : memory'[At(e)].bDirty = IF e = c THEN d ELSE memory[At(e)].bDirty
<1> DEFINE n == Map.iDirtyCount + (IF d THEN 1 ELSE -1)
           changes == Block(c).bDirty # d
           u == <<Put(Root, "iDirtyCount", n)>>
           v == <<Put(At(c), "bDirty", d)>>
           p == If(changes, u)
           q == If(changes, v)
           m == Updated(p, memory)
<1>1. Writes(u, {"iDirtyCount"}) /\ Writes(v, {"bDirty"})
  BY WritesOne
<1>2. Writes(p, {"iDirtyCount"}) /\ Writes(q, {"bDirty"})
  <2> HIDE DEF u, v, changes
  <2> QED BY <1>1, WritesIf
<1>3. setDirty(c, d) = p \o q
  <2>1. setDirty(c, d) = If(changes, u \o v)
    BY DEF setDirty, Add, Increase, Map
  <2>2. u \o v = u \o v /\ <<>> \o <<>> = <<>>
    OBVIOUS
  <2> HIDE DEF u, v, changes
  <2> QED BY <2>1, <2>2 DEF If
<1>4. memory' = Updated(q, m) /\ Writes(p \o q, {"iDirtyCount", "bDirty"})
  <2> HIDE DEF p, q
  <2>1. Writes(p, {"iDirtyCount", "bDirty"}) /\ Writes(q, {"iDirtyCount", "bDirty"})
    BY <1>2, WritesMore
  <2> QED BY <1>2, <1>3, <2>1, WritesConcat, Concat
<1>5. \A F : {"iDirtyCount", "bDirty"} \cap F = {} => Same(memory, memory', F)
  <2> HIDE DEF p, q
  <2> QED BY <1>3, <1>4, Untouched
<1>6. Reads(memory, memory', changes, Root, "iDirtyCount", n)
  <2>1. Same(memory, memory, {"iDirtyCount"}) /\ Same(m, memory', {"iDirtyCount"})
    BY <1>2, <1>4, Untouched, SameSelf
  <2>2. m = Updated(If(changes, <<Put(Root, "iDirtyCount", n)>>), memory)
    OBVIOUS
  <2> HIDE DEF p, q, m, changes, n
  <2> QED BY <2>1, <2>2, StageReads
<1>7. Reads(memory, memory', changes, At(c), "bDirty", d)
  <2>1. Same(memory, m, {"bDirty"}) /\ Same(memory', memory', {"bDirty"})
    BY <1>2, Untouched, SameSelf
  <2>2. memory' = Updated(If(changes, <<Put(At(c), "bDirty", d)>>), m)
    BY <1>4
  <2> HIDE DEF p, q, m, changes
  <2> QED BY <2>1, <2>2, StageReads
<1>8. \A e \in Cells : memory'[At(e)].bDirty = IF changes /\ e = c THEN d ELSE memory[At(e)].bDirty
  BY <1>7, Addresses DEF Reads, Shape, BlockFields
<1>9. changes => memory'[Root].iDirtyCount = n
  BY <1>6 DEF Reads, Shape, HeadFields
<1> QED BY <1>5, <1>8, <1>9 DEF Block

\* A flag of a block of the map, and its count, change together.
LEMMA DirtyTally ==
    ASSUME HashMapAssumption, HashInv, Tallied, step \notin {"copy", "counts"},
           NEW c \in LinkedIn(memory), NEW d \in BOOLEAN,
           memory' = Updated(setDirty(c, d), memory),
           counts' = counts, spoilt' = spoilt, stray' = stray
    PROVE  Tallied'
<1>1. Shape(memory) /\ c \in Cells /\ LinkedIn(memory) \subseteq Cells
  BY Neighbours, CountedBlocks DEF HashInv, Listed, Typed
<1>2. CASE Block(c).bDirty = d
  <2>1. memory' = memory
    BY <1>2, UpdatedNone DEF setDirty, If
  <2> QED BY <2>1, StillSteps
<1>3. CASE Block(c).bDirty # d
  <2>4. memory'[Root].iDirtyCount = Map.iDirtyCount + (IF d THEN 1 ELSE -1)
    BY <1>1, <1>3, DirtyWrites
  <2>5. \A e \in Cells : memory'[At(e)].bDirty = IF e = c THEN d ELSE memory[At(e)].bDirty
    BY <1>1, DirtyWrites
  <2>6. Same(memory, memory', KeptFields) /\ Same(memory, memory', {"bOnlyKey", "iOnlyKeyCount"})
    BY <1>1, DirtyWrites DEF KeptFields
  <2>7. LinkedIn(memory') = LinkedIn(memory) /\ Sized(memory')
    BY <2>6, SizesKept DEF HashInv, Tallied
  <2>8. OnlyKeyIn(memory') = OnlyKeyIn(memory) /\ memory'[Root].iOnlyKeyCount = memory[Root].iOnlyKeyCount
    <3>1. \A e \in Cells : memory'[At(e)].bOnlyKey = memory[At(e)].bOnlyKey
      BY <1>1, <2>6 DEF Same, Shape, BlockFields
    <3>2. memory'[Root].iOnlyKeyCount = memory[Root].iOnlyKeyCount
      BY <1>1, <2>6 DEF Same, Shape, HeadFields
    <3> QED BY <1>1, <2>7, <3>1, <3>2 DEF OnlyKeyIn
  <2>9. /\ DirtyIn(memory) \ {c} = DirtyIn(memory') \ {c}
        /\ (c \in DirtyIn(memory') <=> d) /\ (c \in DirtyIn(memory) <=> ~d)
    <3>1. memory[At(c)].bDirty = ~d
      BY <1>1, <1>3, RecordTyped DEF Block
    <3> QED BY <1>1, <2>5, <2>7, <3>1 DEF DirtyIn
  <2>10. IsFiniteSet(DirtyIn(memory)) /\ Cardinality(DirtyIn(memory)) \in Nat
    BY CountedBlocks DEF HashInv, DirtyIn
  <2>11. Cardinality(DirtyIn(memory')) = Cardinality(DirtyIn(memory)) + (IF d THEN 1 ELSE -1)
    <3>1. Cardinality(DirtyIn(memory')) = Cardinality(DirtyIn(memory)) + (IF c \in DirtyIn(memory') THEN 1 ELSE 0)
                                           - (IF c \in DirtyIn(memory) THEN 1 ELSE 0)
      BY <2>9, <2>10, OneApart
    <3> QED BY <2>9, <2>10, <3>1
  <2>12. ASSUME ~spoilt PROVE Flagged(memory', memory', stray)
    BY <2>4, <2>8, <2>11, <2>12, PlainTally DEF Flagged, Map
  <2> QED BY <2>7, <2>12, PlainTally, NowTallied
<1> QED BY <1>2, <1>3

\* setDirty, setClean, and what set and sync make of the flag.
LEMMA DirtyTallied ==
    ASSUME HashMapAssumption, HashInv, Tallied,
           \/ SetItsDirty \/ SyncDue \/ setDirtyAfterSync
           \/ \E k \in Keys, dirty \in BOOLEAN : SetDirty(k, dirty)
    PROVE  Tallied'
<1>1. CASE SetItsDirty
  <2>1. cell \in LinkedIn(memory) /\ call.dirty \in BOOLEAN
    BY <1>1 DEF SetItsDirty, HashInv, StepFits, OnBlock, ProcessTyped, Calls
  <2> QED BY <1>1, <2>1, DirtyTally DEF SetItsDirty, Commit, Goto, history
<1>2. CASE SyncDue
  <2>1. cell \in LinkedIn(memory)
    BY <1>2 DEF SyncDue, HashInv, StepFits, OnBlock
  <2> QED BY <1>2, <2>1, DirtyTally DEF SyncDue, Commit, Goto, history
<1>3. CASE setDirtyAfterSync
  <2>1. PICK c \in Found(handed) : memory' = Updated(setDirty(c, TRUE), memory) /\ Begin("dirtyTail", c)
    BY <1>3 DEF setDirtyAfterSync, Commit
  <2>2. c \in LinkedIn(memory)
    BY <1>3, FoundLinked DEF setDirtyAfterSync, HashInv, HistoryTyped
  <2> QED BY <1>3, <2>1, <2>2, DirtyTally DEF setDirtyAfterSync, May, Begin
<1>4. CASE \E k \in Keys, dirty \in BOOLEAN : SetDirty(k, dirty)
  <2>1. PICK k \in Keys, dirty \in BOOLEAN : SetDirty(k, dirty)
    BY <1>4
  <2>2. PICK c \in Found(k) : memory' = Updated(setDirty(c, dirty), memory) /\ Begin("refreshSetList", c)
    BY <2>1 DEF SetDirty, Commit
  <2>3. c \in LinkedIn(memory)
    BY FoundLinked
  <2> QED BY <2>1, <2>2, <2>3, DirtyTally DEF SetDirty, May, Begin, history
<1> QED BY <1>1, <1>2, <1>3, <1>4

\* Block::set writes the flags, and logs what they change in the counts.
LEMMA SetFlagsTallied == ASSUME HashMapAssumption, HashInv, Tallied, SetFlags PROVE Tallied'
<1> DEFINE c == cell
           only == call.only
           dirtyCount == memory[Root].iDirtyCount + (IF only THEN -1 ELSE 1)
           onlyCount == memory[Root].iOnlyKeyCount + (IF only THEN 1 ELSE -1)
           p == memory[At(c)].bDirty = only
           q == memory[At(c)].bOnlyKey # only
           u == If(p, <<Put(Root, "iDirtyCount", dirtyCount)>>)
           v == If(q, <<Put(Root, "iOnlyKeyCount", onlyCount)>>)
           n == Updated(counts', memory')
<1>1. c \in LinkedIn(memory) /\ c \in Cells /\ only \in BOOLEAN /\ Shape(memory)
      /\ LinkedIn(memory) \subseteq Cells
  BY Neighbours, CountedBlocks DEF SetFlags, HashInv, StepFits, OnBlock, ProcessTyped, Calls, Listed, Typed
<1>2. counts' = u \o v
  BY DEF SetFlags, Add, Increase, Block
<1>3. PICK b : b = [memory[At(c)] EXCEPT !.bDirty = ~only, !.bOnlyKey = only]
  OBVIOUS
<1>4. memory' = [memory EXCEPT ![At(c)] = b]
  BY <1>1, <1>3, RecordTyped DEF SetFlags
<1>5. /\ DOMAIN b = BlockFields /\ b.bDirty = ~only /\ b.bOnlyKey = only
      /\ \A f \in BlockFields : f \in KeptFields => b[f] = memory[At(c)][f]
  BY <1>1, <1>3, RecordTyped DEF BlockFields, KeptFields
<1> HIDE DEF n, c, only
<1>6. Same(memory, memory', KeptFields)
  BY <1>1, <1>4, <1>5, RecordUncounted
<1>7. LinkedIn(memory') = LinkedIn(memory) /\ Sized(memory')
  BY <1>6, SizesKept DEF HashInv, Tallied
<1>8. /\ memory'[Root] = memory[Root] /\ Root \in DOMAIN memory' /\ DOMAIN memory'[Root] = HeadFields
      /\ \A d \in Cells : memory'[At(d)] = IF d = c THEN b ELSE memory[At(d)]
  BY <1>1, <1>4, Addresses DEF Shape
<1>9. /\ n[Root].iDirtyCount = IF p THEN dirtyCount ELSE memory[Root].iDirtyCount
      /\ n[Root].iOnlyKeyCount = IF q THEN onlyCount ELSE memory[Root].iOnlyKeyCount
  <2> HIDE DEF p, q, dirtyCount, onlyCount
  <2>1. Writes(u, {"iDirtyCount"}) /\ Writes(v, {"iOnlyKeyCount"})
    BY WritesOne, WritesIf
  <2> DEFINE o == Updated(u, memory')
  <2>2. n = Updated(v, o)
    <3> HIDE DEF u, v
    <3> QED BY <1>2, <2>1, Concat DEF n
  <2>3. Reads(memory', n, p, Root, "iDirtyCount", dirtyCount)
    <3>1. Same(o, n, {"iDirtyCount"})
      BY <2>1, <2>2, Untouched
    <3>2. Same(memory', memory', {"iDirtyCount"})
      BY SameSelf
    <3>3. o = Updated(If(p, <<Put(Root, "iDirtyCount", dirtyCount)>>), memory')
      OBVIOUS
    <3> HIDE DEF o, u, v
    <3> QED BY <3>1, <3>2, <3>3, StageReads
  <2>4. Reads(memory', n, q, Root, "iOnlyKeyCount", onlyCount)
    <3>1. Same(memory', o, {"iOnlyKeyCount"})
      BY <2>1, Untouched
    <3>2. Same(n, n, {"iOnlyKeyCount"})
      BY SameSelf
    <3> HIDE DEF o, u
    <3>3. n = Updated(If(q, <<Put(Root, "iOnlyKeyCount", onlyCount)>>), o)
      BY <2>2
    <3> HIDE DEF v
    <3> QED BY <3>1, <3>2, <3>3, StageReads
  <2> QED BY <1>8, <2>3, <2>4 DEF Reads, HeadFields
<1> HIDE DEF u, v
<1>10. /\ DirtyIn(memory) \ {c} = DirtyIn(memory') \ {c}
       /\ OnlyKeyIn(memory) \ {c} = OnlyKeyIn(memory') \ {c}
       /\ (c \in DirtyIn(memory') <=> ~only) /\ (c \in DirtyIn(memory) <=> memory[At(c)].bDirty)
       /\ (c \in OnlyKeyIn(memory') <=> only) /\ (c \in OnlyKeyIn(memory) <=> memory[At(c)].bOnlyKey)
  BY <1>1, <1>5, <1>7, <1>8 DEF DirtyIn, OnlyKeyIn
<1>11. /\ IsFiniteSet(DirtyIn(memory)) /\ Cardinality(DirtyIn(memory)) \in Nat
       /\ IsFiniteSet(OnlyKeyIn(memory)) /\ Cardinality(OnlyKeyIn(memory)) \in Nat
  BY CountedBlocks DEF HashInv, DirtyIn, OnlyKeyIn
<1>12. /\ Cardinality(DirtyIn(memory'))
            = Cardinality(DirtyIn(memory)) + (IF c \in DirtyIn(memory') THEN 1 ELSE 0)
                                           - (IF c \in DirtyIn(memory) THEN 1 ELSE 0)
       /\ Cardinality(OnlyKeyIn(memory'))
            = Cardinality(OnlyKeyIn(memory)) + (IF c \in OnlyKeyIn(memory') THEN 1 ELSE 0)
                                             - (IF c \in OnlyKeyIn(memory) THEN 1 ELSE 0)
  BY <1>10, <1>11, OneApart
<1>13. spoilt' = spoilt /\ stray' = stray /\ step' = "copy" /\ step = "allocate"
  BY DEF SetFlags, history
<1>14. ASSUME ~spoilt PROVE Flagged(memory', n, stray)
  <2>1. /\ memory[Root].iDirtyCount = Cardinality(DirtyIn(memory))
        /\ memory[Root].iOnlyKeyCount = stray + Cardinality(OnlyKeyIn(memory))
    BY <1>13, <1>14, PlainTally DEF Flagged
  <2>2. memory[At(c)].bDirty \in BOOLEAN /\ memory[At(c)].bOnlyKey \in BOOLEAN /\ stray \in Int
    BY <1>1, RecordTyped DEF HashInv, HistoryTyped
  <2>3. n[Root].iDirtyCount = Cardinality(DirtyIn(memory'))
    BY <1>1, <1>9, <1>10, <1>11, <1>12, <2>1, <2>2
  <2>4. n[Root].iOnlyKeyCount = stray + Cardinality(OnlyKeyIn(memory'))
    BY <1>1, <1>9, <1>10, <1>11, <1>12, <2>1, <2>2
  <2> QED BY <2>3, <2>4 DEF Flagged
<1> QED BY <1>7, <1>13, <1>14 DEF Tallied, n

\* The counts that Block::set has logged become visible.
LEMMA CommitTallied == ASSUME HashMapAssumption, HashInv, Tallied, CommitCounts PROVE Tallied'
<1>1. memory' = Updated(counts, memory) /\ counts' = <<>> /\ spoilt' = spoilt /\ stray' = stray
  BY DEF CommitCounts, Commit, history
<1>2. Writes(counts, {"iDirtyCount", "iOnlyKeyCount"})
  BY CountsWrite DEF HashInv, ProcessTyped
<1>3. Same(memory, memory', KeptFields) /\ Same(memory, memory', {"bDirty", "bOnlyKey"})
  <2>1. /\ {"iDirtyCount", "iOnlyKeyCount"} \cap KeptFields = {}
        /\ {"iDirtyCount", "iOnlyKeyCount"} \cap {"bDirty", "bOnlyKey"} = {}
    BY DEF KeptFields
  <2> QED BY <1>1, <1>2, <2>1, Untouched
<1>4. Sized(memory') /\ DirtyIn(memory') = DirtyIn(memory) /\ OnlyKeyIn(memory') = OnlyKeyIn(memory)
  BY <1>3, SizesKept, FlagsKept DEF HashInv, Tallied
<1>5. ~spoilt => Flagged(memory', memory', stray)
  BY <1>1, <1>4 DEF Tallied, Flagged
<1> QED BY <1>1, <1>4, <1>5, NowTallied

\* The counts of a map without a block.
LEMMA NewTallied ==
    ASSUME HashMapAssumption, NEW v \in Int, NEW m,
           \/ m = NewMemory /\ v = 0
           \/ m = [NewMemory EXCEPT ![Root].iOnlyKeyCount = v]
    PROVE  Sized(m) /\ Flagged(m, m, v)
<1>1. LinkedIn(m) = {}
  BY NewListed
<1>2. DirtyIn(m) = {} /\ OnlyKeyIn(m) = {} /\ \A i : InBucket(m, i) = {}
  BY <1>1 DEF DirtyIn, OnlyKeyIn, InBucket
<1>3. \A i \in Buckets : m[Item(i)].iListCount = 0
  BY NewReads, Addresses
<1>4. m[Root].iElementCount = 0 /\ m[Root].iDirtyCount = 0 /\ m[Root].iOnlyKeyCount = v
  BY NewReads DEF NewHead
<1>5. Cardinality({}) = 0
  BY FS_EmptySet
<1> QED BY <1>1, <1>2, <1>3, <1>4, <1>5 DEF Sized, Flagged

\* clear.
LEMMA ClearTallied == ASSUME HashMapAssumption, HashInv, Tallied, Clear PROVE Tallied'
<1>1. Map.iOnlyKeyCount \in Int
  BY DEF HashInv, Listed, Typed, Map
<1>2. /\ memory' = [NewMemory EXCEPT ![Root].iOnlyKeyCount = Map.iOnlyKeyCount]
      /\ stray' = Map.iOnlyKeyCount /\ counts' = <<>>
  BY PlainTally DEF Clear, May, process
<1> QED BY <1>1, <1>2, NewTallied, NowTallied

\* The counts of a new map agree.
LEMMA TalliedInit == ASSUME HashMapAssumption, Init PROVE Tallied
<1>1. memory = NewMemory /\ stray = 0 /\ counts = <<>> /\ 0 \in Int
  BY DEF Init
<1>2. Sized(memory) /\ Flagged(memory, memory, stray)
  BY <1>1, NewTallied
<1>3. Updated(<<>>, memory) = memory
  BY UpdatedNone
<1> QED BY <1>1, <1>2, <1>3 DEF Tallied

\* Every step keeps them so.
LEMMA TalliedStep == ASSUME HashMapAssumption, HashInv, Tallied, [Next]_vars PROVE Tallied'
<1>1. setting.keys \subseteq Keys
  BY DEF HashInv, HistoryTyped, HashMapAssumption, Keys
<1>2. CASE SetCall
  BY <1>2, QuietTallied DEF SetCall
<1>3. CASE SetStep
  BY <1>3, QuietTallied, MakeTallied, BytesTallied, EraseTallied, SetFlagsTallied, CommitTallied,
     DirtyTallied DEF SetStep
<1>4. CASE KeyCall
  BY <1>1, <1>4, RefreshTallied, EraseTallied, DirtyTallied DEF KeyCall
<1>5. CASE Others
  BY <1>5, EraseTallied, MarksTallied, RefreshTallied, QuietTallied, ClearTallied DEF Others
<1>6. CASE Syncing
  BY <1>6, MarksTallied, QuietTallied, DirtyTallied DEF Syncing
<1>7. CASE Fruitless
  BY <1>7, QuietTallied DEF Fruitless
<1>8. CASE Crash
  BY <1>8, CrashTallied
<1>9. CASE UNCHANGED vars
  BY <1>9, QuietTallied
<1> QED BY <1>2, <1>3, <1>4, <1>5, <1>6, <1>7, <1>8, <1>9 DEF Next

\* The counts that the lists, the chains and the flags of the blocks give, in the state
\* that a process between two writes sees.
THEOREM CountsInvariant == ASSUME HashMapAssumption PROVE Spec => [](HashInv /\ Tallied)
<1>1. Init => HashInv /\ Tallied
  BY HashInit, TalliedInit
<1>2. HashInv /\ Tallied /\ [Next]_vars => (HashInv /\ Tallied)'
  BY HashStep, TalliedStep
<1> QED BY <1>1, <1>2, PTL DEF Spec

\* The counts between two calls.
LEMMA TalliedCounts == ASSUME HashMapAssumption, HashInv, Tallied PROVE HashCountsAgree
<1>1. Linked = LinkedIn(memory)
  BY LinkedFound
<1>2. Map.iElementCount = Cardinality(Linked)
  BY <1>1 DEF Tallied, Sized, Map
<1>3. \A i \in Buckets : memory[Item(i)].iListCount = Len(Chain(i))
  BY ChainLength DEF HashInv, Tallied, Sized, Chain
<1>4. ASSUME step = "idle", ~spoilt
      PROVE  /\ Map.iDirtyCount = Cardinality({c \in Linked : Block(c).bDirty})
             /\ Map.iOnlyKeyCount = stray + Cardinality({c \in Linked : Block(c).bOnlyKey})
  BY <1>1, <1>4, PlainTally DEF Flagged, DirtyIn, OnlyKeyIn, Map, Block
<1> QED BY <1>2, <1>3, <1>4 DEF HashCountsAgree

\* The counts of the map are those of its blocks: of all of them whatever write a process
\* is killed between, of the dirty ones and those with a key only between two calls.
THEOREM MapCountsAgree == ASSUME HashMapAssumption PROVE Spec => []HashCountsAgree
<1>1. HashInv /\ Tallied => HashCountsAgree
  BY TalliedCounts
<1> QED BY <1>1, CountsInvariant, PTL

-----------------------------------------------------------------------------
(* The dirty blocks                                                        *)

\* The mark is on the pth block of s, none when p is 0; it has passed no block of W, and of
\* those of R at most the last.
Reach(s, p, mark, W, R) ==
    /\ p \in 0..Len(s) /\ mark = (IF p = 0 THEN 0 ELSE s[p])
    /\ \A n \in 1..Len(s) : (s[n] \in W => n <= p) /\ (s[n] \in R => n <= p + 1)

\* What s is when it is a path.
Path(s) ==
    /\ Len(s) \in Nat /\ \A n \in 1..Len(s) : s[n] # 0
    /\ \A i, j \in 1..Len(s) : s[i] = s[j] => i = j

\* The list of the last set is one.
LEMMA SetPath ==
    ASSUME HashMapAssumption, NEW m, NEW s, IsList(m, SetList, s)
    PROVE  Path(s) /\ s \in Seq(Cells) /\ IsInjective(s) /\ \A n \in 1..Len(s) : s[n] \in Cells
<1>1. IsPath(m, SetList.next, SetList.prev, s)
  BY DEF IsList
<1>2. s \in Seq(Cells) /\ IsInjective(s)
  BY <1>1 DEF IsPath
<1> QED BY <1>1, <1>2, PathFacts DEF Path

\* Fewer blocks to come to.
LEMMA ReachLess ==
    ASSUME NEW s, NEW p, NEW v, NEW W, NEW R, Reach(s, p, v, W, R), NEW X, X \subseteq W,
           NEW Y, Y \subseteq R
    PROVE  Reach(s, p, v, X, Y)
BY DEF Reach

\* A block is taken out, and the mark, if it is there, goes to the block before it.
LEMMA ReachWithout ==
    ASSUME NEW s, Path(s), s \in Seq(Cells), IsInjective(s), NEW p, NEW v, NEW W, NEW R,
           Reach(s, p, v, W, R), NEW k \in 1..Len(s), NEW c, c = s[k],
           NEW d, d = IF k = 1 THEN 0 ELSE s[k - 1]
    PROVE  \E q : Reach(Without(s, k), q, IF v = c THEN d ELSE v, W \ {c}, R \ {c})
<1> DEFINE t == Without(s, k)
           q == IF p < k THEN p ELSE p - 1
           w == IF v = c THEN d ELSE v
<1>1. /\ Len(t) = Len(s) - 1
      /\ \A n \in 1..(Len(s) - 1) : t[n] = IF n < k THEN s[n] ELSE s[n + 1]
  BY WithoutFacts
<1> HIDE DEF t
<1>2. Len(s) \in Nat /\ p \in 0..Len(s) /\ v = (IF p = 0 THEN 0 ELSE s[p]) /\ c # 0
  BY DEF Path, Reach
<1>3. v = c <=> p = k
  BY <1>2 DEF Path
<1>4. q \in 0..(Len(s) - 1)
  BY <1>2
<1>5. w = IF q = 0 THEN 0 ELSE t[q]
  <2>1. CASE p < k
    BY <1>1, <1>2, <1>3, <2>1
  <2>2. CASE p = k
    BY <1>1, <1>2, <1>3, <2>2
  <2>3. CASE p > k
    <3>1. t[q] = s[q + 1] /\ q + 1 = p /\ q # 0
      BY <1>1, <1>2, <2>3
    <3> QED BY <1>2, <1>3, <2>3, <3>1
  <2> QED BY <1>2, <2>1, <2>2, <2>3
<1>6. ASSUME NEW n \in 1..(Len(s) - 1)
      PROVE  (t[n] \in W \ {c} => n <= q) /\ (t[n] \in R \ {c} => n <= q + 1)
  <2> DEFINE e == IF n < k THEN n ELSE n + 1
  <2>1. e \in 1..Len(s) /\ t[n] = s[e]
    BY <1>1, <1>2
  <2>2. (s[e] \in W => e <= p) /\ (s[e] \in R => e <= p + 1)
    BY <2>1 DEF Reach
  <2> QED BY <1>2, <2>1, <2>2
<1> HIDE DEF q, w
<1>7. Reach(t, q, w, W \ {c}, R \ {c})
  BY <1>1, <1>4, <1>5, <1>6 DEF Reach
<1> QED BY <1>7 DEF t, w

\* A block comes in front of the list; if there is no mark it will be on it.
LEMMA ReachOnTop ==
    ASSUME NEW s, Path(s), s \in Seq(Cells), IsInjective(s), NEW p, NEW v, NEW W, NEW R,
           Reach(s, p, v, W, R), NEW c \in Cells, c \notin Range(s)
    PROVE  \E q : Reach(OnTop(c, s), q, IF v = 0 THEN c ELSE v, W \cup {c}, R \cup {c})
<1> DEFINE t == OnTop(c, s)
           w == IF v = 0 THEN c ELSE v
<1>1. /\ Len(t) = Len(s) + 1
      /\ \A n \in 1..(Len(s) + 1) : t[n] = IF n = 1 THEN c ELSE s[n - 1]
  BY OnTopFacts
<1> HIDE DEF t
<1>2. /\ Len(s) \in Nat /\ p \in 0..Len(s) /\ v = (IF p = 0 THEN 0 ELSE s[p])
      /\ \A n \in 1..Len(s) : s[n] # 0 /\ s[n] # c
  BY DEF Path, Reach, Range
<1>3. p + 1 \in 0..(Len(s) + 1) /\ p + 1 # 0 /\ t[p + 1] = w
  BY <1>1, <1>2
<1>4. ASSUME NEW n \in 1..(Len(s) + 1)
      PROVE  (t[n] \in W \cup {c} => n <= p + 1) /\ (t[n] \in R \cup {c} => n <= (p + 1) + 1)
  <2>1. CASE n = 1
    BY <1>2, <2>1
  <2>2. CASE n # 1
    <3>1. n - 1 \in 1..Len(s) /\ t[n] = s[n - 1]
      BY <1>1, <1>2, <2>2
    <3>2. (s[n - 1] \in W => n - 1 <= p) /\ (s[n - 1] \in R => n - 1 <= p + 1)
      BY <3>1 DEF Reach
    <3>3. s[n - 1] # c
      BY <1>2, <3>1
    <3> QED BY <1>2, <3>1, <3>2, <3>3
  <2> QED BY <2>1, <2>2
<1> HIDE DEF w
<1>5. Reach(t, p + 1, w, W \cup {c}, R \cup {c})
  BY <1>1, <1>3, <1>4 DEF Reach
<1> QED BY <1>5 DEF t, w

\* A block is moved to the front of the list: the mark, if it is there, goes to the block
\* before it, and if there was none it comes on the block.
LEMMA ReachFronted ==
    ASSUME NEW s, Path(s), s \in Seq(Cells), IsInjective(s), NEW p, NEW v, NEW W, NEW R,
           Reach(s, p, v, W, R), NEW k \in 1..Len(s), NEW c, c = s[k],
           NEW d, d = IF k = 1 THEN 0 ELSE s[k - 1]
    PROVE  \E q : Reach(Fronted(s, k), q, IF v = 0 THEN c ELSE IF v = c /\ k # 1 THEN d ELSE v,
                        W \cup {c}, R \cup {c})
<1> DEFINE t == Fronted(s, k)
           q == IF p = 0 THEN 1 ELSE IF p < k THEN p + 1 ELSE p
           w == IF v = 0 THEN c ELSE IF v = c /\ k # 1 THEN d ELSE v
<1>1. Len(s) \in Nat /\ p \in 0..Len(s) /\ v = (IF p = 0 THEN 0 ELSE s[p]) /\ c # 0
  BY DEF Path, Reach
<1>2. /\ Len(t) = Len(s)
      /\ \A n \in 1..Len(s) : t[n] = IF n = 1 THEN s[k] ELSE IF n <= k THEN s[n - 1] ELSE s[n]
  <2>1. CASE k = 1
    <3>1. t = s
      BY <2>1 DEF Fronted
    <3> QED BY <1>1, <2>1, <3>1
  <2>2. CASE k # 1
    <3>1. t = Raised(s, k)
      BY <2>2 DEF Fronted
    <3> QED BY <3>1, RaisedFacts
  <2> QED BY <2>1, <2>2
<1> HIDE DEF t
<1>3. (v = c <=> p = k) /\ (v = 0 <=> p = 0)
  BY <1>1 DEF Path
<1>4. q \in 0..Len(s) /\ q # 0
  BY <1>1
<1>5. w = t[q]
  <2>1. CASE p = 0
    BY <1>1, <1>2, <1>3, <1>4, <2>1
  <2>2. CASE p # 0 /\ p < k
    <3>1. t[q] = s[p] /\ v = s[p]
      BY <1>1, <1>2, <1>4, <2>2
    <3> QED BY <1>1, <1>3, <2>2, <3>1
  <2>3. CASE p # 0 /\ p = k
    BY <1>1, <1>2, <1>3, <1>4, <2>3
  <2>4. CASE p # 0 /\ p > k
    BY <1>1, <1>2, <1>3, <1>4, <2>4
  <2> QED BY <1>1, <2>1, <2>2, <2>3, <2>4
<1>6. ASSUME NEW n \in 1..Len(s)
      PROVE  (t[n] \in W \cup {c} => n <= q) /\ (t[n] \in R \cup {c} => n <= q + 1)
  <2>1. CASE n = 1
    BY <1>1, <2>1
  <2>2. CASE n # 1
    <3> DEFINE e == IF n <= k THEN n - 1 ELSE n
    <3>1. e \in 1..Len(s) /\ t[n] = s[e] /\ e # k
      BY <1>1, <1>2, <2>2
    <3>2. (s[e] \in W => e <= p) /\ (s[e] \in R => e <= p + 1)
      BY <3>1 DEF Reach
    <3>3. s[e] # c
      BY <3>1 DEF Path
    <3> QED BY <1>1, <2>2, <3>1, <3>2, <3>3
  <2> QED BY <2>1, <2>2
<1> HIDE DEF q, w
<1>7. Reach(t, q, w, W \cup {c}, R \cup {c})
  BY <1>2, <1>4, <1>5, <1>6 DEF Reach
<1> QED BY <1>7 DEF t, w

\* The mark passes the block it is on, which is the only one it may have just passed.
LEMMA ReachPassed ==
    ASSUME NEW s, Path(s), NEW p, NEW v, NEW W, NEW R, Reach(s, p, v, W, R),
           NEW k \in 1..Len(s), v = s[k], NEW d, d = IF k = 1 THEN 0 ELSE s[k - 1]
    PROVE  \E q : Reach(s, q, d, W \ {v}, {v})
<1>1. Len(s) \in Nat /\ p \in 0..Len(s) /\ v = (IF p = 0 THEN 0 ELSE s[p]) /\ v # 0
  BY DEF Path, Reach
<1>2. p = k
  <2>1. p # 0 /\ p \in 1..Len(s) /\ s[p] = s[k]
    BY <1>1
  <2>2. \A i, j \in 1..Len(s) : s[i] = s[j] => i = j
    BY DEF Path
  <2> QED BY <2>1, <2>2
<1>3. p - 1 \in 0..Len(s) /\ d = (IF p - 1 = 0 THEN 0 ELSE s[p - 1])
  BY <1>1, <1>2
<1>4. ASSUME NEW n \in 1..Len(s)
      PROVE  (s[n] \in W \ {v} => n <= p - 1) /\ (s[n] \in {v} => n <= (p - 1) + 1)
  <2>1. s[n] \in W => n <= p
    BY DEF Reach
  <2>2. s[n] = v <=> n = k
    BY DEF Path
  <2> QED BY <1>1, <1>2, <2>1, <2>2
<1> QED BY <1>3, <1>4 DEF Reach

\* The mark comes back to a block that it may have just passed.
LEMMA ReachBack ==
    ASSUME NEW s, Path(s), NEW p, NEW v, NEW W, NEW R, Reach(s, p, v, W, R),
           NEW k \in 1..Len(s), NEW c, c = s[k], c \in R, NEW d, d = IF k = 1 THEN 0 ELSE s[k - 1]
    PROVE  \E q : Reach(s, q, IF v = d THEN c ELSE v, W \cup {c}, R)
<1>1. Len(s) \in Nat /\ p \in 0..Len(s) /\ v = (IF p = 0 THEN 0 ELSE s[p]) /\ k <= p + 1
  BY DEF Path, Reach
<1>2. v = d <=> p = k - 1
  <2>1. \A i \in 1..Len(s) : s[i] # 0
    BY DEF Path
  <2>2. \A i, j \in 1..Len(s) : s[i] = s[j] => i = j
    BY DEF Path
  <2>3. k # 1 => k - 1 \in 1..Len(s)
    BY <1>1
  <2>4. p # 0 => p \in 1..Len(s)
    BY <1>1
  <2> QED BY <1>1, <2>1, <2>2, <2>3, <2>4
<1> DEFINE q == IF v = d THEN k ELSE p
           w == IF v = d THEN c ELSE v
<1>3. q \in 0..Len(s) /\ w = (IF q = 0 THEN 0 ELSE s[q]) /\ p <= q /\ k <= q
  BY <1>1, <1>2
<1> HIDE DEF q, w
<1>4. ASSUME NEW n \in 1..Len(s)
      PROVE  (s[n] \in W \cup {c} => n <= q) /\ (s[n] \in R => n <= q + 1)
  <2>1. (s[n] \in W => n <= p) /\ (s[n] \in R => n <= p + 1)
    BY DEF Reach
  <2>2. s[n] = c <=> n = k
    BY DEF Path
  <2> QED BY <1>1, <1>3, <2>1, <2>2
<1> QED BY <1>3, <1>4 DEF Reach, w

\* The blocks that the mark must not have passed may be the last it has passed as well.
LEMMA ReachMore ==
    ASSUME NEW s, Path(s), NEW p, NEW v, NEW W, NEW R, Reach(s, p, v, W, R)
    PROVE  Reach(s, p, v, W, R \cup W)
<1>1. Len(s) \in Nat /\ p \in 0..Len(s)
  BY DEF Path, Reach
<1>2. ASSUME NEW n \in 1..Len(s) PROVE s[n] \in R \cup W => n <= p + 1
  <2>1. (s[n] \in W => n <= p) /\ (s[n] \in R => n <= p + 1)
    BY DEF Reach
  <2>2. p \in Int /\ n \in Int
    BY <1>1
  <2> QED BY <2>1, <2>2
<1> QED BY <1>2 DEF Reach

\* The blocks from the head of the list of the last set on.
SetOrder(m) == Follow(m, m[Root].iSetHead, "iSetNext")

\* That is the list.
LEMMA OrderIs ==
    ASSUME HashMapAssumption, NEW m, NEW s, IsList(m, SetList, s)
    PROVE  SetOrder(m) = s
<1>1. IsPath(m, "iSetNext", "iSetPrev", s) /\ m[Root].iSetHead = First(s)
  BY SetLinks DEF IsList
<1> QED BY <1>1, PathLeads, FollowLeads DEF SetOrder

\* What the list is.
LEMMA OrderFacts ==
    ASSUME HashMapAssumption, NEW m, Listed(m), NEW s, s = SetOrder(m)
    PROVE  /\ IsList(m, SetList, s) /\ Range(s) = LinkedIn(m)
           /\ Path(s) /\ s \in Seq(Cells) /\ IsInjective(s)
           /\ \A n \in 1..Len(s) : s[n] \in LinkedIn(m)
           /\ \A c \in LinkedIn(m) : \E k \in 1..Len(s) : c = s[k]
<1>1. PICK t, g, h : Links(m, t, g, h)
  BY DEF Listed
<1>2. IsList(m, SetList, t) /\ LinkedIn(m) = Range(t)
  BY <1>1, LinksFound DEF Links
<1>3. s = t
  BY <1>2, OrderIs
<1>4. Path(s) /\ s \in Seq(Cells) /\ IsInjective(s)
  BY <1>2, <1>3, SetPath
<1>5. Range(s) = {s[n] : n \in 1..Len(s)}
  BY <1>2, <1>3, PathFacts DEF IsList
<1> QED BY <1>2, <1>3, <1>4, <1>5

\* A key is in one block at most, in the bucket that is its own; what a process sets is
\* in no block before makeNew, and then in none but the one it works on.
KeysFit ==
    /\ \A c \in LinkedIn(memory) : memory[At(c)].key \in Keys => memory[At(c)].iIndex = Index[memory[At(c)].key]
    /\ \A c, d \in LinkedIn(memory) :
         memory[At(c)].key \in Keys /\ memory[At(c)].key = memory[At(d)].key => c = d
    /\ step \in {"allocateMemBlock", "makeNew"} =>
         call.key \in Keys /\ \A c \in LinkedIn(memory) : memory[At(c)].key # call.key
    /\ step \in {"allocate", "copy"} =>
         /\ call.key \in Keys /\ memory[At(cell)].iIndex = Index[call.key]
         /\ \A c \in LinkedIn(memory) : memory[At(c)].key = call.key => c = cell

\* The block a process works on, while its flag is written and its place not yet.
Urgent(c) == c = cell /\ step \in {"copy", "counts", "setDirty", "refreshSetList", "dirtyTail"}

\* A new block is the first of the list of the last set, until the mark is set to it.
Pending == call.fresh /\ step \in {"allocate", "undo", "copy", "counts", "setDirty", "refreshSetList"}

\* The mark of the dirty blocks, or where it will be.
DirtyMark == IF memory[Root].iDirtyTail = 0 /\ Pending THEN cell ELSE memory[Root].iDirtyTail

\* The blocks that the mark must not have passed, and those it may have just passed: the
\* one that is written back, whose flag is set again when that fails.
Waits(c) == (memory[At(c)].bDirty /\ ~Urgent(c)) \/ (step = "needSync" /\ c = cell)
Returns(c) ==
    \/ handed \in Keys /\ memory[At(c)].key = handed /\ ~Urgent(c)
    \/ step = "dirtyTail" /\ c = cell

WaitingIn == {c \in LinkedIn(memory) : Waits(c)}
ReturningIn == {c \in LinkedIn(memory) : Returns(c)}

InReach == ~spoilt => \E p : Reach(SetOrder(memory), p, DirtyMark, WaitingIn, ReturningIn)

\* Only the block that is being set may be half written, if no process was killed.
Damaged(c) ==
    /\ c = cell
    /\ \/ step = "copy"
       \/ step \in {"allocate", "undo"} /\ call.fresh
       \/ step = "allocate" /\ Missing <= 0

Intact == ~spoilt => \A c \in LinkedIn(memory) : memory[At(c)].data = "whole" \/ Damaged(c)

\* What a process can rely on besides.
CallFits ==
    /\ step \in {"allocateMemBlock", "makeNew"} => call.fresh
    /\ step = "idle" => ~call.fresh
    /\ Pending => cell = memory[Root].iSetHead
    /\ step = "needSync" => ~memory[At(cell)].bDirty
    /\ step \in {"sync", "needSync"} => handed = NoKey

Reaching == KeysFit /\ CallFits /\ Intact /\ InReach

\* The fields that tell where a block is linked, but for the list of the last get.
PlaceFields == SetFields \cup {"iBlockAddr", "iBlockNext", "iBlockPrev", "iIndex"}

\* The same list of the last set.
Unmoved(m, o) ==
    /\ LinkedIn(o) = LinkedIn(m) /\ SetOrder(o) = SetOrder(m)
    /\ o[Root].iSetHead = m[Root].iSetHead

\* The same contents, but for the flags.
Alike(m, o, S) ==
    \A c \in S : /\ o[At(c)].key = m[At(c)].key /\ o[At(c)].data = m[At(c)].data
                 /\ o[At(c)].chunks = m[At(c)].chunks /\ o[At(c)].iIndex = m[At(c)].iIndex

\* What keeps the fields of places keeps the list.
LEMMA PlacesKept ==
    ASSUME HashMapAssumption, NEW m, NEW o, Listed(m), Same(m, o, PlaceFields)
    PROVE  Unmoved(m, o) /\ \A c \in LinkedIn(m) : o[At(c)].iIndex = m[At(c)].iIndex
<1>1. Shape(m) /\ LinkedIn(m) \subseteq Cells
  BY CountedBlocks DEF Listed, Typed
<1>2. LinkedIn(o) = LinkedIn(m)
  <2>1. Same(m, o, {"iBlockAddr", "iBlockNext", "iBlockPrev"})
    BY SameLess DEF PlaceFields
  <2> QED BY <2>1, LinkedKept
<1>3. \A c \in Cells : /\ o[At(c)].iSetNext = m[At(c)].iSetNext /\ o[At(c)].iSetPrev = m[At(c)].iSetPrev
                       /\ o[At(c)].iIndex = m[At(c)].iIndex
  BY <1>1 DEF Same, Shape, PlaceFields, SetFields, BlockFields
<1>4. o[Root].iSetHead = m[Root].iSetHead /\ o[Root].iSetTail = m[Root].iSetTail
  BY <1>1 DEF Same, Shape, PlaceFields, SetFields, HeadFields
<1> DEFINE s == SetOrder(m)
<1>5. IsList(m, SetList, s) /\ \A n \in 1..Len(s) : s[n] \in Cells
  BY <1>1, OrderFacts
<1> HIDE DEF s
<1>6. IsPath(o, SetList.next, SetList.prev, s)
  BY <1>3, <1>5, PathKept, SetLinks DEF IsList
<1>7. IsList(o, SetList, s)
  BY <1>4, <1>5, <1>6, SetLinks DEF IsList
<1>8. SetOrder(o) = s
  BY <1>7, OrderIs
<1> QED BY <1>1, <1>2, <1>3, <1>4, <1>8 DEF Unmoved, s

\* What keeps the contents besides.
LEMMA ContentsKept ==
    ASSUME HashMapAssumption, NEW m, NEW o, Listed(m),
           Same(m, o, PlaceFields \cup {"key", "data", "chunks"})
    PROVE  Unmoved(m, o) /\ Alike(m, o, LinkedIn(m))
<1>1. Shape(m) /\ LinkedIn(m) \subseteq Cells
  BY CountedBlocks DEF Listed, Typed
<1>2. Same(m, o, PlaceFields)
  BY SameLess
<1>3. \A c \in Cells : /\ o[At(c)].key = m[At(c)].key /\ o[At(c)].data = m[At(c)].data
                       /\ o[At(c)].chunks = m[At(c)].chunks
  BY <1>1 DEF Same, Shape, BlockFields
<1> QED BY <1>1, <1>2, <1>3, PlacesKept DEF Alike

\* The same list and blocks.
SameMap ==
    /\ Unmoved(memory, memory') /\ Alike(memory, memory', LinkedIn(memory))
    /\ \A c \in LinkedIn(memory) : memory'[At(c)].bDirty = memory[At(c)].bDirty

\* What keeps the fields of places and blocks keeps them, and the mark when it is one of them.
LEMMA SameMapKept ==
    ASSUME HashMapAssumption, HashInv, NEW F, PlaceFields \cup Contents \subseteq F,
           Same(memory, memory', F)
    PROVE  SameMap /\ ("iDirtyTail" \in F => memory'[Root].iDirtyTail = memory[Root].iDirtyTail)
<1>1. Shape(memory) /\ LinkedIn(memory) \subseteq Cells /\ Listed(memory)
  BY CountedBlocks DEF HashInv, Listed, Typed
<1>2. Same(memory, memory', PlaceFields \cup {"key", "data", "chunks"})
  BY SameLess DEF Contents
<1>3. Unmoved(memory, memory') /\ Alike(memory, memory', LinkedIn(memory))
  BY <1>1, <1>2, ContentsKept
<1>4. \A c \in Cells : memory'[At(c)].bDirty = memory[At(c)].bDirty
  BY <1>1 DEF Same, Shape, BlockFields, Contents
<1>5. "iDirtyTail" \in F => memory'[Root].iDirtyTail = memory[Root].iDirtyTail
  BY <1>1 DEF Same, Shape, HeadFields
<1> QED BY <1>1, <1>3, <1>4, <1>5 DEF SameMap

\* What is read there.
LEMMA SameMapReads ==
    ASSUME SameMap
    PROVE  /\ LinkedIn(memory') = LinkedIn(memory) /\ SetOrder(memory') = SetOrder(memory)
           /\ memory'[Root].iSetHead = memory[Root].iSetHead
           /\ \A c \in LinkedIn(memory) : /\ memory'[At(c)].key = memory[At(c)].key
                                          /\ memory'[At(c)].data = memory[At(c)].data
                                          /\ memory'[At(c)].iIndex = memory[At(c)].iIndex
                                          /\ memory'[At(c)].bDirty = memory[At(c)].bDirty
BY DEF SameMap, Unmoved, Alike

\* Where the keys that the blocks have are the same or less.
LEMMA KeysKept ==
    ASSUME HashMapAssumption, KeysFit, LinkedIn(memory') \subseteq LinkedIn(memory),
           \A c \in LinkedIn(memory') : /\ memory'[At(c)].key \in {memory[At(c)].key, NoKey}
                                        /\ memory'[At(c)].iIndex = memory[At(c)].iIndex,
           step' \in {"allocateMemBlock", "makeNew"} =>
             step \in {"allocateMemBlock", "makeNew"} /\ call'.key = call.key,
           step' \in {"allocate", "copy"} =>
             step \in {"allocate", "copy"} /\ call'.key = call.key /\ cell' = cell /\ cell \in LinkedIn(memory')
    PROVE  KeysFit'
<1>1. NoKey \notin Keys
  BY DEF HashMapAssumption, Keys
<1>2. ASSUME NEW c \in LinkedIn(memory'), memory'[At(c)].key \in Keys
      PROVE  memory'[At(c)].key = memory[At(c)].key /\ c \in LinkedIn(memory)
  BY <1>1, <1>2
<1>3. \A c \in LinkedIn(memory') : memory'[At(c)].key \in Keys =>
        memory'[At(c)].iIndex = Index[memory'[At(c)].key]
  BY <1>2 DEF KeysFit
<1>4. \A c, d \in LinkedIn(memory') :
        memory'[At(c)].key \in Keys /\ memory'[At(c)].key = memory'[At(d)].key => c = d
  BY <1>2 DEF KeysFit
<1>5. step' \in {"allocateMemBlock", "makeNew"} =>
        call'.key \in Keys /\ \A c \in LinkedIn(memory') : memory'[At(c)].key # call'.key
  BY <1>2 DEF KeysFit
<1>6. step' \in {"allocate", "copy"} =>
        /\ call'.key \in Keys /\ memory'[At(cell')].iIndex = Index[call'.key]
        /\ \A c \in LinkedIn(memory') : memory'[At(c)].key = call'.key => c = cell'
  BY <1>2 DEF KeysFit
<1> QED BY <1>3, <1>4, <1>5, <1>6 DEF KeysFit

\* Where the list and the mark are the same, and no more blocks wait for it.
LEMMA ReachKept ==
    ASSUME HashMapAssumption, HashInv, InReach, ~spoilt' => ~spoilt, Unmoved(memory, memory'),
           ~spoilt' => DirtyMark' = DirtyMark,
           ~spoilt' => \A c \in LinkedIn(memory) : (Waits(c)' => Waits(c)) /\ (Returns(c)' => Returns(c))
    PROVE  InReach'
<1> SUFFICES ASSUME ~spoilt' PROVE \E p : Reach(SetOrder(memory), p, DirtyMark, WaitingIn, ReturningIn)'
  BY DEF InReach
<1>1. PICK p : Reach(SetOrder(memory), p, DirtyMark, WaitingIn, ReturningIn)
  BY DEF InReach
<1>2. LinkedIn(memory') = LinkedIn(memory) /\ SetOrder(memory') = SetOrder(memory)
  BY DEF Unmoved
<1>3. WaitingIn' \subseteq WaitingIn /\ ReturningIn' \subseteq ReturningIn
  BY <1>2 DEF WaitingIn, ReturningIn
<1> HIDE DEF WaitingIn, ReturningIn, DirtyMark
<1>4. Reach(SetOrder(memory), p, DirtyMark, WaitingIn', ReturningIn')
  BY <1>1, <1>3, ReachLess
<1>5. Reach(SetOrder(memory'), p, DirtyMark', WaitingIn', ReturningIn')
  BY <1>2, <1>4
<1> QED BY <1>5

\* The steps at which a block is on its way to its place in the list.
Busy == {"makeNew", "allocate", "undo", "copy", "counts", "setDirty", "refreshSetList", "dirtyTail"}

\* The steps of a call that does not set, or at its end.
Plain == {"idle", "return", "recover", "moveTail", "sync", "refreshGetList"}

\* The steps to such a step that keep the list, the blocks and the mark.
LEMMA PlainSteps ==
    ASSUME HashMapAssumption, HashInv, Reaching, SameMap, ~spoilt' => ~spoilt,
           ~spoilt' => memory'[Root].iDirtyTail = memory[Root].iDirtyTail,
           spoilt' \/ step \notin Busy \/ (step = "undo" /\ ~call.fresh),
           step' \in Plain, handed' \in {handed, NoKey}, step' = "sync" => handed' = NoKey,
           step' = "idle" => ~call'.fresh
    PROVE  Reaching'
<1>1. KeysFit'
  BY SameMapReads, KeysKept DEF Reaching, Plain
<1>2. CallFits'
  BY DEF CallFits, Pending, Plain
<1>3. Intact'
  BY SameMapReads DEF Reaching, Intact, Damaged, Plain, Busy
<1>4. ~spoilt' => DirtyMark' = DirtyMark
  BY DEF DirtyMark, Pending, Plain, Busy
<1>5. NoKey \notin Keys
  BY DEF HashMapAssumption, Keys
<1>6. ~spoilt' => \A c \in LinkedIn(memory) : (Waits(c)' => Waits(c)) /\ (Returns(c)' => Returns(c))
  BY <1>5, SameMapReads DEF Waits, Returns, Urgent, Plain, Busy
<1>7. InReach'
  BY <1>4, <1>6, ReachKept DEF Reaching, SameMap
<1> QED BY <1>1, <1>2, <1>3, <1>7 DEF Reaching

\* Nothing is written.
LEMMA SameMemory == ASSUME memory' = memory PROVE SameMap
BY DEF SameMap, Unmoved, Alike

\* The steps that go on with the same, and write nothing.
LEMMA SameSteps ==
    ASSUME HashMapAssumption, HashInv, Reaching, memory' = memory, spoilt' = spoilt, handed' = handed,
           step' = step, call' = call, cell' = cell, got' = got \/ ~(Missing <= 0)
    PROVE  Reaching'
<1>1. KeysFit' /\ CallFits'
  BY DEF Reaching, KeysFit, CallFits, Pending
<1>2. Missing <= 0 => Missing' <= 0
  <2>1. CASE got' = got
    BY <2>1 DEF Missing, Block
  <2> QED BY <2>1
<1> HIDE DEF Missing
<1>3. \A c : Damaged(c) => Damaged(c)'
  BY <1>2 DEF Damaged
<1>4. Intact'
  BY <1>3 DEF Reaching, Intact
<1>5. DirtyMark' = DirtyMark /\ \A c : (Waits(c)' => Waits(c)) /\ (Returns(c)' => Returns(c))
  BY DEF DirtyMark, Pending, Waits, Returns, Urgent
<1>6. InReach'
  BY <1>5, SameMemory, ReachKept DEF Reaching, SameMap
<1> QED BY <1>1, <1>4, <1>6 DEF Reaching

\* How many chunks are missing is a number.
LEMMA MissingNumber ==
    ASSUME HashMapAssumption, HashInv, cell \in LinkedIn(memory)
    PROVE  Missing \in Int
<1>1. call.chunks \in Nat /\ got \in Seq(Cells)
  BY DEF HashInv, ProcessTyped, Calls, UnitsApart, Owned
<1>2. Block(cell).chunks \in Seq(Cells)
  BY Neighbours, RecordTyped DEF Block, HashInv
<1> QED BY <1>1, <1>2, LenProperties DEF Missing

\* The steps that write nothing in the shared memory and go on with the same.
LEMMA WaitingSteps ==
    ASSUME HashMapAssumption, HashInv, Reaching,
           deallocate \/ allocateChunk \/ StartEvicting \/ Evicted \/ UNCHANGED vars
    PROVE  Reaching'
<1>1. CASE deallocate
  BY <1>1, SameSteps DEF deallocate, history
<1>2. CASE allocateChunk
  <2>1. Missing > 0 /\ cell \in LinkedIn(memory)
    BY <1>2 DEF allocateChunk, HashInv, StepFits, OnBlock
  <2>2. ~(Missing <= 0)
    BY <2>1, MissingNumber
  <2> QED BY <1>2, <2>2, SameSteps DEF allocateChunk, history
<1>3. CASE StartEvicting
  BY <1>3, SameSteps DEF StartEvicting, history
<1>4. CASE Evicted
  BY <1>4, SameSteps DEF Evicted, history
<1>5. CASE UNCHANGED vars
  BY <1>5, SameSteps DEF vars, process, history
<1> QED BY <1>1, <1>2, <1>3, <1>4, <1>5

\* The steps that write nothing at the end of a call, or between two.
LEMMA EndingSteps ==
    ASSUME HashMapAssumption, HashInv, Reaching,
           Return \/ SyncLater \/ Recovered \/ WrittenBack \/ (Undo /\ ~call.fresh)
    PROVE  Reaching'
<1>1. ~NoCall.fresh
  BY DEF NoCall
<1>2. CASE Return
  BY <1>1, <1>2, SameMemory, PlainSteps DEF Return, Leave, history, Plain, Busy
<1>3. CASE SyncLater
  BY <1>1, <1>3, SameMemory, PlainSteps DEF SyncLater, Leave, history, Plain, Busy
<1>4. CASE Recovered
  BY <1>1, <1>4, SameMemory, PlainSteps DEF Recovered, Leave, history, Plain, Busy
<1>5. CASE WrittenBack
  <2>1. ~call'.fresh
    BY <1>5 DEF WrittenBack, May, process, Reaching, CallFits
  <2> QED BY <1>5, <2>1, SameMemory, PlainSteps DEF WrittenBack, May, process, Plain, Busy
<1>6. CASE Undo /\ ~call.fresh
  BY <1>6, SameMemory, PlainSteps DEF Undo, history, Plain
<1> QED BY <1>2, <1>3, <1>4, <1>5, <1>6

\* The record of a block is written, not where it is linked.
LEMMA RecordPlaces ==
    ASSUME HashMapAssumption, HashInv, NEW c \in LinkedIn(memory), NEW b,
           memory' = [memory EXCEPT ![At(c)] = b], DOMAIN b = BlockFields,
           \A f \in BlockFields : f \notin Contents => b[f] = memory[At(c)][f]
    PROVE  /\ Unmoved(memory, memory') /\ LinkedIn(memory') = LinkedIn(memory)
           /\ memory'[Root] = memory[Root] /\ memory'[At(c)] = b
           /\ \A d \in LinkedIn(memory) : /\ d # c => memory'[At(d)] = memory[At(d)]
                                          /\ memory'[At(d)].iIndex = memory[At(d)].iIndex
<1>1. Shape(memory) /\ Listed(memory) /\ c \in Cells /\ LinkedIn(memory) \subseteq Cells
  BY Neighbours, CountedBlocks DEF HashInv, Listed, Typed
<1>2. /\ memory'[Root] = memory[Root] /\ memory'[At(c)] = b
      /\ \A d \in Cells : d # c => memory'[At(d)] = memory[At(d)]
  BY <1>1, Addresses DEF Shape
<1>3. \A f \in BlockFields : f \in PlaceFields => b[f] = memory[At(c)][f]
  BY DEF PlaceFields, SetFields, Contents
<1>4. Same(memory, memory', PlaceFields)
  BY <1>1, <1>3, RecordUncounted
<1> QED BY <1>1, <1>2, <1>4, PlacesKept DEF Unmoved

\* The key is written that is being set.
LEMMA KeyCopied ==
    ASSUME HashMapAssumption, HashInv, KeysFit, step = "copy", cell \in LinkedIn(memory), NEW b,
           memory' = [memory EXCEPT ![At(cell)] = b], DOMAIN b = BlockFields, b.key = call.key,
           \A f \in BlockFields : f \notin Contents => b[f] = memory[At(cell)][f],
           step' \notin {"allocateMemBlock", "makeNew", "allocate", "copy"}
    PROVE  KeysFit'
<1> DEFINE L == LinkedIn(memory)
<1>1. /\ LinkedIn(memory') = L /\ memory'[At(cell)].key = call.key
      /\ \A d \in L : /\ d # cell => memory'[At(d)].key = memory[At(d)].key
                      /\ memory'[At(d)].iIndex = memory[At(d)].iIndex
  <2>1. /\ LinkedIn(memory') = LinkedIn(memory) /\ memory'[At(cell)] = b
        /\ \A d \in LinkedIn(memory) : /\ d # cell => memory'[At(d)] = memory[At(d)]
                                       /\ memory'[At(d)].iIndex = memory[At(d)].iIndex
    BY RecordPlaces, ZenonT(30)
  <2> QED BY <2>1
<1>2. /\ call.key \in Keys /\ memory[At(cell)].iIndex = Index[call.key]
      /\ \A c \in L : memory[At(c)].key = call.key => c = cell
      /\ \A c \in L : memory[At(c)].key \in Keys => memory[At(c)].iIndex = Index[memory[At(c)].key]
      /\ \A c, d \in L : memory[At(c)].key \in Keys /\ memory[At(c)].key = memory[At(d)].key => c = d
  BY DEF KeysFit
<1> HIDE DEF L
<1>3. \A c \in L : memory'[At(c)].key \in Keys => memory'[At(c)].iIndex = Index[memory'[At(c)].key]
  BY <1>1, <1>2
<1>4. \A c, d \in L : memory'[At(c)].key \in Keys /\ memory'[At(c)].key = memory'[At(d)].key => c = d
  BY <1>1, <1>2
<1> QED BY <1>1, <1>3, <1>4 DEF KeysFit

\* A process is killed: at a step that makes no block dirty it leaves all as it is.
LEMMA CrashReaching == ASSUME HashMapAssumption, HashInv, Reaching, Crash PROVE Reaching'
<1>1. /\ step' = "idle" /\ call' = NoCall /\ ~NoCall.fresh /\ handed' = NoKey
      /\ ~spoilt' => ~spoilt /\ ~MakesDirty
  BY DEF Crash, Leave, NoCall
<1>2. CASE memory' = memory
  <2>1. spoilt' \/ step \notin Busy
    BY <1>1 DEF MakesDirty, Busy
  <2> QED BY <1>1, <1>2, <2>1, SameMemory, PlainSteps DEF Plain
<1>3. CASE memory' # memory
  <2>1. /\ step = "copy" /\ spoilt'
        /\ memory' = [memory EXCEPT ![At(cell)].data = "torn", ![At(cell)].key = call.key]
    BY <1>3 DEF Crash, MakesDirty
  <2>2. cell \in LinkedIn(memory) /\ cell \in Cells
    BY <2>1, Neighbours DEF HashInv, StepFits, OnBlock
  <2>3. PICK b : b = [memory[At(cell)] EXCEPT !.data = "torn", !.key = call.key]
    OBVIOUS
  <2>4. memory' = [memory EXCEPT ![At(cell)] = b]
    BY <2>1, <2>2, <2>3, RecordTyped
  <2>5. /\ DOMAIN b = BlockFields /\ b.key = call.key
        /\ \A f \in BlockFields : f \notin Contents => b[f] = memory[At(cell)][f]
    BY <2>2, <2>3, RecordTyped DEF BlockFields, Contents
  <2>6. KeysFit'
    BY <1>1, <2>1, <2>2, <2>4, <2>5, KeyCopied DEF Reaching
  <2>7. CallFits' /\ Intact' /\ InReach'
    BY <1>1, <2>1 DEF CallFits, Pending, Intact, InReach
  <2> QED BY <2>6, <2>7 DEF Reaching
<1> QED BY <1>2, <1>3

\* Chunks are cut off and joined.
LEMMA ChunksReaching == ASSUME HashMapAssumption, HashInv, Reaching, Shrink \/ joinChunk PROVE Reaching'
<1>1. cell \in LinkedIn(memory) /\ cell \in Cells /\ step = "allocate"
  BY Neighbours DEF Shrink, joinChunk, HashInv, StepFits, OnBlock
<1>2. UNCHANGED <<step, call, cell, history>>
  BY DEF Shrink, joinChunk
<1> DEFINE old == Block(cell).chunks
           n == call.chunks
<1>3. n \in Nat /\ got \in Seq(Cells) /\ old \in Seq(Cells) /\ Len(got) \in Nat /\ Len(old) \in Nat
  <2>1. n \in Nat /\ got \in Seq(Cells)
    BY DEF HashInv, ProcessTyped, Calls, UnitsApart, Owned
  <2>2. old \in Seq(Cells)
    BY <1>1, RecordTyped DEF Block
  <2> QED BY <2>1, <2>2, LenProperties
<1>4. \E b : /\ memory' = [memory EXCEPT ![At(cell)] = b] /\ DOMAIN b = BlockFields
             /\ b.key \in {memory[At(cell)].key, NoKey} /\ b.bDirty = memory[At(cell)].bDirty
             /\ \A f \in BlockFields : f \notin Contents => b[f] = memory[At(cell)][f]
             /\ n - Len(b.chunks) - Len(got') <= 0
  <2>1. CASE Shrink
    <3>1. PICK b : b = [memory[At(cell)] EXCEPT !.chunks = SubSeq(old, 1, n),
                                                 !.data = IF n = 0 THEN "empty" ELSE "wild",
                                                 !.key = IF n = 0 THEN NoKey ELSE memory[At(cell)].key]
      OBVIOUS
    <3>2. memory' = [memory EXCEPT ![At(cell)] = b]
      BY <1>1, <2>1, <3>1, RecordTyped DEF Shrink
    <3>3. /\ DOMAIN b = BlockFields /\ b.chunks = SubSeq(old, 1, n)
          /\ b.key \in {memory[At(cell)].key, NoKey} /\ b.bDirty = memory[At(cell)].bDirty
          /\ \A f \in BlockFields : f \notin Contents => b[f] = memory[At(cell)][f]
      BY <1>1, <3>1, RecordTyped DEF BlockFields, Contents
    <3>4. Len(SubSeq(old, 1, n)) = n /\ got' = got
      <4>1. Len(old) > n /\ got' = got
        BY <2>1 DEF Shrink
      <4> HIDE DEF old, n
      <4> QED BY <1>3, <4>1, LenProperties
    <3>5. n - Len(b.chunks) - Len(got') <= 0
      BY <1>3, <3>3, <3>4
    <3> HIDE DEF n
    <3> QED BY <3>2, <3>3, <3>5
  <2>2. CASE joinChunk
    <3>1. PICK b : b = [memory[At(cell)] EXCEPT !.chunks = Append(memory[At(cell)].chunks, got[1]),
                                                 !.data = IF Block(cell).key # NoKey THEN "torn" ELSE "zero"]
      OBVIOUS
    <3>2. memory' = [memory EXCEPT ![At(cell)] = b]
      BY <1>1, <2>2, <3>1, RecordTyped DEF joinChunk
    <3>3. /\ DOMAIN b = BlockFields /\ b.chunks = Append(old, got[1])
          /\ b.key \in {memory[At(cell)].key, NoKey} /\ b.bDirty = memory[At(cell)].bDirty
          /\ \A f \in BlockFields : f \notin Contents => b[f] = memory[At(cell)][f]
      BY <1>1, <3>1, RecordTyped DEF BlockFields, Contents, Block
    <3>4. n - Len(old) - Len(got) = 0 /\ got # <<>> /\ got' = Tail(got)
      BY <2>2 DEF joinChunk, Missing
    <3> HIDE DEF old, n
    <3>5. Len(Append(old, got[1])) = Len(old) + 1 /\ Len(Tail(got)) = Len(got) - 1
      BY <1>3, <3>4
    <3>6. n - Len(b.chunks) - Len(got') <= 0
      BY <1>3, <3>3, <3>4, <3>5
    <3> QED BY <3>2, <3>3, <3>6
  <2> QED BY <2>1, <2>2
<1>5. PICK b : /\ memory' = [memory EXCEPT ![At(cell)] = b] /\ DOMAIN b = BlockFields
               /\ b.key \in {memory[At(cell)].key, NoKey} /\ b.bDirty = memory[At(cell)].bDirty
               /\ \A f \in BlockFields : f \notin Contents => b[f] = memory[At(cell)][f]
               /\ n - Len(b.chunks) - Len(got') <= 0
  BY <1>4
<1>6. /\ Unmoved(memory, memory') /\ LinkedIn(memory') = LinkedIn(memory)
      /\ memory'[Root] = memory[Root] /\ memory'[At(cell)] = b
      /\ \A d \in LinkedIn(memory) : /\ d # cell => memory'[At(d)] = memory[At(d)]
                                     /\ memory'[At(d)].iIndex = memory[At(d)].iIndex
  BY <1>1, <1>5, RecordPlaces
<1>7. KeysFit'
  <2>1. \A d \in LinkedIn(memory) : memory'[At(d)].key \in {memory[At(d)].key, NoKey}
    BY <1>5, <1>6
  <2> QED BY <1>1, <1>2, <1>6, <2>1, KeysKept DEF Reaching
<1>8. CallFits'
  BY <1>1, <1>2, <1>6 DEF Reaching, CallFits, Pending
<1>9. Intact'
  <2>1. Missing' <= 0
    BY <1>2, <1>5, <1>6 DEF Missing, Block
  <2>2. Damaged(cell)'
    BY <1>1, <1>2, <2>1 DEF Damaged
  <2>3. \A d \in LinkedIn(memory) : Damaged(d) => d = cell
    BY DEF Damaged
  <2> QED BY <1>2, <1>6, <2>2, <2>3 DEF Reaching, Intact, history
<1>10. InReach'
  <2>1. DirtyMark' = DirtyMark
    BY <1>1, <1>2, <1>6 DEF DirtyMark, Pending
  <2>2. NoKey \notin Keys
    BY DEF HashMapAssumption, Keys
  <2>3. \A d \in LinkedIn(memory) : (Waits(d)' => Waits(d)) /\ (Returns(d)' => Returns(d))
    BY <1>1, <1>2, <1>5, <1>6, <2>2 DEF Waits, Returns, Urgent, history
  <2> QED BY <1>2, <1>6, <2>1, <2>3, ReachKept DEF Reaching, history
<1> QED BY <1>7, <1>8, <1>9, <1>10 DEF Reaching

\* The flags are written: from now on the block is on its way.
LEMMA SetFlagsReaching == ASSUME HashMapAssumption, HashInv, Reaching, SetFlags PROVE Reaching'
<1>1. cell \in LinkedIn(memory) /\ cell \in Cells /\ step = "allocate" /\ step' = "copy"
  BY Neighbours DEF SetFlags, HashInv, StepFits, OnBlock
<1>2. UNCHANGED <<call, cell, history>>
  BY DEF SetFlags
<1>3. PICK b : b = [memory[At(cell)] EXCEPT !.bDirty = ~call.only, !.bOnlyKey = call.only]
  OBVIOUS
<1>4. memory' = [memory EXCEPT ![At(cell)] = b]
  BY <1>1, <1>3, RecordTyped DEF SetFlags
<1>5. /\ DOMAIN b = BlockFields /\ b.key = memory[At(cell)].key /\ b.data = memory[At(cell)].data
      /\ \A f \in BlockFields : f \notin Contents => b[f] = memory[At(cell)][f]
  BY <1>1, <1>3, RecordTyped DEF BlockFields, Contents
<1>6. /\ Unmoved(memory, memory') /\ LinkedIn(memory') = LinkedIn(memory)
      /\ memory'[Root] = memory[Root] /\ memory'[At(cell)] = b
      /\ \A d \in LinkedIn(memory) : /\ d # cell => memory'[At(d)] = memory[At(d)]
                                     /\ memory'[At(d)].iIndex = memory[At(d)].iIndex
  BY <1>1, <1>4, <1>5, RecordPlaces
<1>7. KeysFit'
  <2>1. \A d \in LinkedIn(memory) : memory'[At(d)].key \in {memory[At(d)].key, NoKey}
    BY <1>5, <1>6
  <2> QED BY <1>1, <1>2, <1>6, <2>1, KeysKept DEF Reaching
<1>8. CallFits'
  BY <1>1, <1>2, <1>6 DEF Reaching, CallFits, Pending
<1>9. Intact'
  BY <1>1, <1>2, <1>6 DEF Reaching, Intact, Damaged, history
<1>10. InReach'
  <2>1. DirtyMark' = DirtyMark
    BY <1>1, <1>2, <1>6 DEF DirtyMark, Pending
  <2>2. \A d \in LinkedIn(memory) : (Waits(d)' => Waits(d)) /\ (Returns(d)' => Returns(d))
    BY <1>1, <1>2, <1>6 DEF Waits, Returns, Urgent, history
  <2> QED BY <1>2, <1>6, <2>1, <2>2, ReachKept DEF Reaching, history
<1> QED BY <1>7, <1>8, <1>9, <1>10 DEF Reaching

\* The bytes are copied.
LEMMA CopyDataReaching == ASSUME HashMapAssumption, HashInv, Reaching, CopyData PROVE Reaching'
<1>1. cell \in LinkedIn(memory) /\ cell \in Cells /\ step = "copy" /\ step' = "counts"
  BY Neighbours DEF CopyData, Goto, HashInv, StepFits, OnBlock
<1>2. UNCHANGED <<call, cell, history>>
  BY DEF CopyData, Goto
<1>3. PICK b : b = [memory[At(cell)] EXCEPT !.key = call.key, !.data = "whole"]
  OBVIOUS
<1>4. memory' = [memory EXCEPT ![At(cell)] = b]
  BY <1>1, <1>3, RecordTyped DEF CopyData
<1>5. /\ DOMAIN b = BlockFields /\ b.key = call.key /\ b.data = "whole"
      /\ \A f \in BlockFields : f \notin Contents => b[f] = memory[At(cell)][f]
  BY <1>1, <1>3, RecordTyped DEF BlockFields, Contents
<1>6. /\ Unmoved(memory, memory') /\ LinkedIn(memory') = LinkedIn(memory)
      /\ memory'[Root] = memory[Root] /\ memory'[At(cell)] = b
      /\ \A d \in LinkedIn(memory) : /\ d # cell => memory'[At(d)] = memory[At(d)]
                                     /\ memory'[At(d)].iIndex = memory[At(d)].iIndex
  BY <1>1, <1>4, <1>5, RecordPlaces
<1>7. KeysFit'
  BY <1>1, <1>4, <1>5, KeyCopied DEF Reaching
<1>8. CallFits'
  BY <1>1, <1>2, <1>6 DEF Reaching, CallFits, Pending
<1>9. Intact'
  BY <1>1, <1>2, <1>5, <1>6 DEF Reaching, Intact, Damaged, history
<1>10. InReach'
  <2>1. DirtyMark' = DirtyMark
    BY <1>1, <1>2, <1>6 DEF DirtyMark, Pending
  <2>2. \A d \in LinkedIn(memory) : (Waits(d)' => Waits(d)) /\ (Returns(d)' => Returns(d))
    BY <1>1, <1>2, <1>6 DEF Waits, Returns, Urgent, history
  <2> QED BY <1>2, <1>6, <2>1, <2>2, ReachKept DEF Reaching, history
<1> QED BY <1>7, <1>8, <1>9, <1>10 DEF Reaching

\* A key that find does not find is in no block, and one that it finds in one only.
LEMMA FoundKey ==
    ASSUME HashMapAssumption, HashInv, KeysFit, NEW k \in Keys
    PROVE  /\ Found(k) = {} => \A c \in LinkedIn(memory) : memory[At(c)].key # k
           /\ \A c \in Found(k) : /\ c \in LinkedIn(memory) /\ memory[At(c)].key = k
                                  /\ memory[At(c)].iIndex = Index[k]
                                  /\ \A d \in LinkedIn(memory) : memory[At(d)].key = k => d = c
<1>1. ASSUME NEW c \in LinkedIn(memory), memory[At(c)].key = k PROVE c \in Found(k)
  <2>1. memory[At(c)].iIndex = Index[k]
    BY <1>1 DEF KeysFit
  <2>2. PICK s, g, h : Links(memory, s, g, h)
    BY DEF HashInv, Listed
  <2>3. c \in Range(s) /\ \A i \in Buckets : Chain(i) = h[i]
    BY <2>2, LinksFound DEF Chain
  <2>4. Index[k] \in Buckets /\ c \in Range(h[Index[k]])
    BY <2>1, <2>2, <2>3, ChainOf
  <2> QED BY <1>1, <2>3, <2>4 DEF Found, Block
<1>2. ASSUME NEW c \in Found(k) PROVE c \in LinkedIn(memory) /\ memory[At(c)].key = k
  BY <1>2, FoundLinked DEF Found, Block
<1> QED BY <1>1, <1>2 DEF KeysFit

\* set begins.
LEMMA SetReaching ==
    ASSUME HashMapAssumption, HashInv, Reaching, NEW k \in Keys, NEW n, NEW only, NEW dirty,
           Set(k, n, only, dirty)
    PROVE  Reaching'
<1>1. /\ step = "idle" /\ memory' = memory /\ UNCHANGED history
      /\ call'.key = k /\ call'.fresh = (Found(k) = {})
      /\ \/ Found(k) = {} /\ step' = "allocateMemBlock"
         \/ Found(k) # {} /\ step' = "allocate" /\ cell' \in Found(k)
  BY DEF Set, May
<1>2. KeysFit'
  BY <1>1, FoundKey DEF Reaching, KeysFit
<1>3. CallFits'
  BY <1>1 DEF CallFits, Pending
<1>4. Intact'
  BY <1>1 DEF Reaching, Intact, Damaged, history
<1>5. DirtyMark' = DirtyMark
  BY <1>1 DEF DirtyMark, Pending
<1>6. \A d \in LinkedIn(memory) : (Waits(d)' => Waits(d)) /\ (Returns(d)' => Returns(d))
  BY <1>1 DEF Waits, Returns, Urgent, history
<1>7. InReach'
  BY <1>1, <1>5, <1>6, SameMemory, ReachKept DEF Reaching, SameMap, history
<1> QED BY <1>2, <1>3, <1>4, <1>7 DEF Reaching

\* A unit is taken for the new block, or there is none.
LEMMA UnitReaching ==
    ASSUME HashMapAssumption, HashInv, Reaching, allocateMemBlock \/ NoMemory \/ CommitCounts
    PROVE  Reaching'
<1>1. CASE allocateMemBlock
  <2>1. memory' = memory /\ step = "allocateMemBlock" /\ step' = "makeNew" /\ UNCHANGED <<call, history>>
    BY <1>1 DEF allocateMemBlock
  <2>2. KeysFit'
    BY <2>1, KeysKept DEF Reaching
  <2>3. CallFits' /\ Intact'
    BY <2>1 DEF Reaching, CallFits, Pending, Intact, Damaged, history
  <2>4. DirtyMark' = DirtyMark
    BY <2>1 DEF DirtyMark, Pending
  <2>5. \A d \in LinkedIn(memory) : (Waits(d)' => Waits(d)) /\ (Returns(d)' => Returns(d))
    BY <2>1 DEF Waits, Returns, Urgent, history
  <2>6. InReach'
    BY <2>1, <2>4, <2>5, SameMemory, ReachKept DEF Reaching, SameMap, history
  <2> QED BY <2>2, <2>3, <2>6 DEF Reaching
<1>2. CASE NoMemory
  <2>1. /\ memory' = memory /\ UNCHANGED <<call, cell, history>>
        /\ step' = IF step = "allocateMemBlock" THEN "return" ELSE "undo"
    BY <1>2 DEF NoMemory
  <2>2. step = "allocateMemBlock" \/ (step = "allocate" /\ Missing > 0)
    BY <1>2 DEF NoMemory, Starved, HashInv, StepFits
  <2>3. CASE step = "allocateMemBlock"
    BY <2>1, <2>3, SameMemory, PlainSteps DEF Plain, Busy, history
  <2>4. CASE step = "allocate" /\ Missing > 0
    <3>1. ~(Missing <= 0)
      BY <2>4, MissingNumber DEF HashInv, StepFits, OnBlock
    <3>2. KeysFit' /\ CallFits'
      BY <2>1, <2>4, KeysKept DEF Reaching, CallFits, Pending
    <3> HIDE DEF Missing
    <3>3. Intact'
      BY <2>1, <2>4, <3>1 DEF Reaching, Intact, Damaged, history
    <3>4. DirtyMark' = DirtyMark
      BY <2>1, <2>4 DEF DirtyMark, Pending
    <3>5. \A d \in LinkedIn(memory) : (Waits(d)' => Waits(d)) /\ (Returns(d)' => Returns(d))
      BY <2>1, <2>4 DEF Waits, Returns, Urgent, history
    <3>6. InReach'
      BY <2>1, <3>4, <3>5, SameMemory, ReachKept DEF Reaching, SameMap, history
    <3> QED BY <3>2, <3>3, <3>6 DEF Reaching
  <2> QED BY <2>2, <2>3, <2>4
<1>3. CASE CommitCounts
  <2>1. /\ memory' = Updated(counts, memory) /\ UNCHANGED <<call, cell, history>>
        /\ step = "counts" /\ step' \in {"refreshSetList", "setDirty"}
    BY <1>3 DEF CommitCounts, Commit
  <2> DEFINE F == PlaceFields \cup Contents \cup {"iDirtyTail"}
  <2>2. Same(memory, memory', F)
    <3>1. Writes(counts, {"iDirtyCount", "iOnlyKeyCount"})
      BY CountsWrite DEF HashInv, ProcessTyped
    <3>2. {"iDirtyCount", "iOnlyKeyCount"} \cap F = {}
      BY DEF PlaceFields, SetFields, Contents
    <3> HIDE DEF F
    <3> QED BY <2>1, <3>1, <3>2, Untouched
  <2>3. /\ SameMap /\ memory'[Root].iDirtyTail = memory[Root].iDirtyTail
    BY <2>2, SameMapKept
  <2>5. KeysFit'
    BY <2>1, <2>3, SameMapReads, KeysKept DEF Reaching
  <2>6. CallFits' /\ Intact'
    BY <2>1, <2>3, SameMapReads DEF Reaching, CallFits, Pending, Intact, Damaged, history
  <2>7. DirtyMark' = DirtyMark
    BY <2>1, <2>3 DEF DirtyMark, Pending
  <2>8. \A d \in LinkedIn(memory) : (Waits(d)' => Waits(d)) /\ (Returns(d)' => Returns(d))
    BY <2>1, <2>3, SameMapReads DEF Waits, Returns, Urgent, history
  <2>9. InReach'
    BY <2>1, <2>3, <2>7, <2>8, ReachKept DEF Reaching, SameMap, history
  <2> QED BY <2>5, <2>6, <2>9 DEF Reaching
<1> QED BY <1>1, <1>2, <1>3

\* What setDirty writes.
LEMMA DirtyEffect ==
    ASSUME HashMapAssumption, HashInv, NEW c \in LinkedIn(memory), NEW d \in BOOLEAN,
           memory' = Updated(setDirty(c, d), memory)
    PROVE  /\ Unmoved(memory, memory') /\ Alike(memory, memory', LinkedIn(memory))
           /\ memory'[Root].iDirtyTail = memory[Root].iDirtyTail
           /\ \A e \in LinkedIn(memory) : memory'[At(e)].bDirty = IF e = c THEN d ELSE memory[At(e)].bDirty
<1>1. Shape(memory) /\ Listed(memory) /\ c \in Cells /\ LinkedIn(memory) \subseteq Cells
  BY Neighbours, CountedBlocks DEF HashInv, Listed, Typed
<1>2. Unmoved(memory, memory') /\ Alike(memory, memory', LinkedIn(memory))
  <2>1. Same(memory, memory', PlaceFields \cup {"key", "data", "chunks"})
    BY <1>1, DirtyWrites DEF PlaceFields, SetFields
  <2> QED BY <1>1, <2>1, ContentsKept
<1>3. memory'[Root].iDirtyTail = memory[Root].iDirtyTail
  <2>1. Same(memory, memory', {"iDirtyTail"})
    BY <1>1, DirtyWrites
  <2> QED BY <1>1, <2>1 DEF Same, Shape, HeadFields
<1>4. \A e \in Cells : memory'[At(e)].bDirty = IF e = c THEN d ELSE memory[At(e)].bDirty
  BY <1>1, DirtyWrites
<1> QED BY <1>1, <1>2, <1>3, <1>4

\* A flag is written of a block that is on its way from then on, or is to be written back.
LEMMA FlagSteps ==
    ASSUME HashMapAssumption, HashInv, Reaching, NEW c \in LinkedIn(memory), NEW d \in BOOLEAN,
           memory' = Updated(setDirty(c, d), memory), spoilt' = spoilt, call' = call, cell' = c,
           \/ /\ step = "setDirty" /\ step' = "refreshSetList" /\ cell = c /\ handed' = handed
           \/ /\ step = "idle" /\ step' = "refreshSetList" /\ handed' = handed
           \/ /\ step = "idle" /\ step' = "dirtyTail" /\ handed' = NoKey /\ memory[At(c)].key = handed
              /\ handed \in Keys
           \/ /\ step = "sync" /\ step' = "needSync" /\ cell = c /\ handed' = handed /\ ~d
              /\ memory[At(c)].bDirty
    PROVE  Reaching'
<1>1. /\ Unmoved(memory, memory') /\ memory'[Root].iDirtyTail = memory[Root].iDirtyTail
      /\ LinkedIn(memory') = LinkedIn(memory) /\ memory'[Root].iSetHead = memory[Root].iSetHead
      /\ \A e \in LinkedIn(memory) : /\ memory'[At(e)].key = memory[At(e)].key
                                     /\ memory'[At(e)].data = memory[At(e)].data
                                     /\ memory'[At(e)].iIndex = memory[At(e)].iIndex
                                     /\ memory'[At(e)].bDirty = IF e = c THEN d ELSE memory[At(e)].bDirty
  BY DirtyEffect DEF Unmoved, Alike
<1>2. KeysFit'
  BY <1>1, KeysKept DEF Reaching
<1>3. CallFits'
  BY <1>1 DEF Reaching, CallFits, Pending
<1>4. Intact'
  BY <1>1 DEF Reaching, Intact, Damaged
<1>5. DirtyMark' = DirtyMark
  BY <1>1 DEF DirtyMark, Pending, Reaching, CallFits
<1>6. NoKey \notin Keys
  BY DEF HashMapAssumption, Keys
<1>7. \A e \in LinkedIn(memory) : (Waits(e)' => Waits(e)) /\ (Returns(e)' => Returns(e))
  BY <1>1, <1>6 DEF Waits, Returns, Urgent
<1>8. InReach'
  BY <1>1, <1>5, <1>7, ReachKept DEF Reaching
<1> QED BY <1>2, <1>3, <1>4, <1>8 DEF Reaching

\* setDirty, setClean, and what set and sync make of the flag.
LEMMA DirtyReaching ==
    ASSUME HashMapAssumption, HashInv, Reaching,
           \/ SetItsDirty \/ SyncDue \/ setDirtyAfterSync
           \/ \E k \in Keys, dirty \in BOOLEAN : SetDirty(k, dirty)
    PROVE  Reaching'
<1>1. CASE SetItsDirty
  <2>1. cell \in LinkedIn(memory) /\ call.dirty \in BOOLEAN
    BY <1>1 DEF SetItsDirty, HashInv, StepFits, OnBlock, ProcessTyped, Calls
  <2> QED BY <1>1, <2>1, FlagSteps DEF SetItsDirty, Commit, Goto, history
<1>2. CASE SyncDue
  <2>1. cell \in LinkedIn(memory)
    BY <1>2 DEF SyncDue, HashInv, StepFits, OnBlock
  <2> QED BY <1>2, <2>1, FlagSteps DEF SyncDue, Commit, Goto, history, Block
<1>3. CASE setDirtyAfterSync
  <2>1. PICK c \in Found(handed) : memory' = Updated(setDirty(c, TRUE), memory) /\ Begin("dirtyTail", c)
    BY <1>3 DEF setDirtyAfterSync, Commit
  <2>2. handed \in Keys /\ c \in LinkedIn(memory) /\ memory[At(c)].key = handed
    BY <1>3, FoundLinked DEF setDirtyAfterSync, HashInv, HistoryTyped, Found, Block
  <2> QED BY <1>3, <2>1, <2>2, FlagSteps DEF setDirtyAfterSync, May, Begin
<1>4. CASE \E k \in Keys, dirty \in BOOLEAN : SetDirty(k, dirty)
  <2>1. PICK k \in Keys, dirty \in BOOLEAN : SetDirty(k, dirty)
    BY <1>4
  <2>2. PICK c \in Found(k) : memory' = Updated(setDirty(c, dirty), memory) /\ Begin("refreshSetList", c)
    BY <2>1 DEF SetDirty, Commit
  <2>3. c \in LinkedIn(memory)
    BY FoundLinked
  <2> QED BY <2>1, <2>2, <2>3, FlagSteps DEF SetDirty, May, Begin, history
<1> QED BY <1>1, <1>2, <1>3, <1>4

\* The steps that keep the list of the last set, and the blocks.
LEMMA OrderReaching ==
    ASSUME HashMapAssumption, HashInv, Reaching,
           \/ RefreshGetList \/ MoveTail \/ (\E k \in Keys : Get(k))
           \/ StartSync \/ Sync \/ StartBackup \/ Backup \/ KeepDirtyTail
    PROVE  Reaching'
<1> DEFINE F == PlaceFields \cup Contents
           G == GetFields \cup {"iBackupTail"}
           H == F \cup {"iDirtyTail"}
<1>1. /\ {"iSyncTail"} \cap H = {} /\ {"iBackupTail"} \cap H = {} /\ {"iDirtyTail"} \cap F = {}
      /\ H \subseteq AllFields \ G
  BY DEF PlaceFields, SetFields, GetFields, Contents, AllFields, HeadFields, ItemFields, BlockFields
<1>2. ~NoCall.fresh
  BY DEF NoCall
<1>3. ASSUME Same(memory, memory', H)
      PROVE  SameMap /\ memory'[Root].iDirtyTail = memory[Root].iDirtyTail
  <2>1. PlaceFields \cup Contents \subseteq H /\ "iDirtyTail" \in H
    OBVIOUS
  <2> HIDE DEF H
  <2> QED BY <1>3, <2>1, SameMapKept
<1>4. ASSUME NEW mark \in {"iSyncTail", "iBackupTail", "iDirtyTail"}, NEW v, Write(mark, v), NEW K,
             {mark} \cap K = {}
      PROVE  Same(memory, memory', K)
  <2> DEFINE u == Put(Root, mark, v)
  <2>1. u[1] = Root /\ u[2] = mark /\ u[3] = v /\ Writes(<<u>>, {mark})
    BY PutReads, WritesOne
  <2> HIDE DEF u
  <2>2. Updated(<<u>>, memory) = [memory EXCEPT ![u[1]][u[2]] = u[3]]
    BY UpdatedOne DEF One
  <2>3. memory' = Updated(<<u>>, memory)
    BY <1>4, <2>1, <2>2 DEF Write
  <2> QED BY <1>4, <2>1, <2>3, Untouched
<1>5. ASSUME NEW c \in LinkedIn(memory),
             \/ memory' = Updated(refreshGetList(c), memory)
             \/ /\ memory' = Updated(Moving(c), memory)
                /\ c = Map.iGetTail /\ c # Map.iGetHead
      PROVE  SameMap /\ memory'[Root].iDirtyTail = memory[Root].iDirtyTail
  <2>1. PICK s, g, h : Links(memory, s, g, h)
    BY DEF HashInv, Listed
  <2>2. Same(memory, memory', AllFields \ G)
    <3>1. CASE memory' = Updated(refreshGetList(c), memory)
      <4>1. c \in Range(g) /\ IsList(memory, GetList, g)
        BY <2>1, LinksFound DEF Links
      <4>2. PICK k \in 1..Len(g) : c = g[k]
        BY <4>1, PathFacts DEF IsList
      <4> QED BY <2>1, <3>1, <4>2, RefreshGetEffect
    <3>2. CASE /\ memory' = Updated(Moving(c), memory)
               /\ c = Map.iGetTail /\ c # Map.iGetHead
      BY <2>1, <3>2, MoveTailEffect, Neighbours DEF HashInv
    <3> QED BY <1>5, <3>1, <3>2
  <2>3. Same(memory, memory', H)
    BY <1>1, <2>2, SameLess
  <2> QED BY <1>3, <2>3
<1> HIDE DEF F, G, H
<1>6. CASE RefreshGetList
  <2>1. cell \in LinkedIn(memory) /\ memory' = Updated(refreshGetList(cell), memory)
    BY <1>6 DEF RefreshGetList, Commit, HashInv, StepFits, OnBlock
  <2>2. SameMap /\ memory'[Root].iDirtyTail = memory[Root].iDirtyTail
    BY <1>5, <2>1
  <2> QED BY <1>2, <1>6, <2>2, PlainSteps DEF RefreshGetList, Leave, history, Plain, Busy
<1>7. CASE MoveTail
  <2>1. /\ cell \in LinkedIn(memory) /\ memory' = Updated(Moving(cell), memory)
        /\ cell = Map.iGetTail /\ cell # Map.iGetHead
    BY <1>7 DEF MoveTail, Commit, HashInv, StepFits, OnBlock, Moving, Block, Map
  <2>2. SameMap /\ memory'[Root].iDirtyTail = memory[Root].iDirtyTail
    BY <1>5, <2>1
  <2> QED BY <1>2, <1>7, <2>2, PlainSteps DEF MoveTail, Leave, history, Plain, Busy
<1>8. ASSUME step = "idle"
      PROVE  ~call.fresh
  BY <1>8 DEF Reaching, CallFits
<1>9. CASE \E k \in Keys : Get(k)
  <2>1. PICK k \in Keys : Get(k)
    BY <1>9
  <2>2. PICK c \in Found(k) : memory' = Updated(refreshGetList(c), memory)
    BY <2>1 DEF Get, Commit
  <2>3. SameMap /\ memory'[Root].iDirtyTail = memory[Root].iDirtyTail
    BY <1>5, <2>2, FoundLinked
  <2> QED BY <1>8, <2>1, <2>3, PlainSteps DEF Get, May, process, history, Plain, Busy
<1>10. CASE StartSync \/ StartBackup \/ Backup
  <2>1. PICK mark \in {"iSyncTail", "iBackupTail"} : \E v : Write(mark, v)
    BY <1>10 DEF StartSync, StartBackup, Backup
  <2>2. SameMap /\ memory'[Root].iDirtyTail = memory[Root].iDirtyTail
    BY <1>1, <1>3, <1>4, <2>1
  <2> QED BY <1>8, <1>10, <2>2, PlainSteps
      DEF StartSync, StartBackup, Backup, May, process, history, Plain, Busy
<1>11. CASE Sync
  <2>1. SameMap /\ memory'[Root].iDirtyTail = memory[Root].iDirtyTail
    BY <1>1, <1>3, <1>4, <1>11 DEF Sync
  <2> QED BY <1>11, <2>1, PlainSteps DEF Sync, May, Begin, history, Plain, Busy
<1>12. CASE KeepDirtyTail
  <2> DEFINE c == memory[Root].iGetTail
  <2>1. /\ c # 0 /\ memory[At(c)].bDirty /\ step = "idle" /\ spoilt' = spoilt /\ handed' = handed
        /\ step' \in {"return", "moveTail"}
        /\ Write("iDirtyTail", IF Map.iDirtyTail = 0 THEN c ELSE Map.iDirtyTail)
    BY <1>12 DEF KeepDirtyTail, May, Begin, history, Map, Block
  <2>2. c \in LinkedIn(memory)
    BY <2>1, Tails DEF HashInv
  <2>3. SameMap
    <3>1. PlaceFields \cup Contents \subseteq F
      BY DEF F
    <3>2. Same(memory, memory', F)
      BY <1>1, <1>4, <2>1
    <3> QED BY <3>1, <3>2, SameMapKept
  <2>4. ASSUME ~spoilt PROVE memory[Root].iDirtyTail # 0
    <3>1. PICK p : Reach(SetOrder(memory), p, DirtyMark, WaitingIn, ReturningIn)
      BY <2>4 DEF Reaching, InReach
    <3>2. DirtyMark = memory[Root].iDirtyTail /\ c \in WaitingIn
      BY <2>1, <2>2 DEF DirtyMark, Pending, WaitingIn, Waits, Urgent
    <3>3. /\ Path(SetOrder(memory))
          /\ \E k \in 1..Len(SetOrder(memory)) : c = SetOrder(memory)[k]
      BY <2>2, OrderFacts DEF HashInv
    <3> HIDE DEF c, WaitingIn, ReturningIn, DirtyMark
    <3> QED BY <3>1, <3>2, <3>3 DEF Reach, Path
  <2>5. ~spoilt => memory'[Root].iDirtyTail = memory[Root].iDirtyTail
    <3>1. Root \in DOMAIN memory /\ "iDirtyTail" \in DOMAIN memory[Root]
      BY DEF HashInv, Listed, Typed, Shape, HeadFields
    <3> QED BY <2>1, <2>4, <3>1 DEF Write, Map
  <2> QED BY <2>1, <2>3, <2>5, PlainSteps DEF Plain, Busy
<1> QED BY <1>6, <1>7, <1>9, <1>10, <1>11, <1>12

\* A block is erased: another than the one that is set, or the new one, or between calls.
LEMMA EraseReaching ==
    ASSUME HashMapAssumption, HashInv, Reaching, NEW c \in LinkedIn(memory), Erase(c),
           spoilt' = spoilt, handed' = handed,
           \/ /\ step \in {"allocateMemBlock", "allocate"} /\ step' = step /\ c # cell
              /\ call' = call /\ cell' = cell /\ ~(step = "allocate" /\ Missing <= 0)
           \/ step \in {"idle", "recover"} /\ step' \in {"return", "recover"}
           \/ step = "undo" /\ call.fresh /\ c = cell /\ step' = "return"
    PROVE  Reaching'
<1> DEFINE o == Updated(erase(c), memory)
           L == LinkedIn(memory)
           d == memory[At(c)].iSetPrev
<1>1. memory' = [o EXCEPT ![At(c)] = Blank]
  BY DEF Erase
<1>2. LinkedIn(memory') = L \ {c} /\ EraseReads(memory, o, c) /\ Shape(o)
  BY <1>1, ListedErase DEF HashInv
<1>3. c \in Cells /\ c # 0 /\ L \subseteq Cells /\ Shape(memory)
  BY Neighbours, CountedBlocks DEF HashInv, Listed, Typed
<1>4. PICK s, g, h : Links(memory, s, g, h)
  BY DEF HashInv, Listed
<1>5. /\ IsList(memory, SetList, s) /\ IsList(memory, GetList, g) /\ s = SetOrder(memory)
      /\ Path(s) /\ s \in Seq(Cells) /\ IsInjective(s)
  BY <1>4, OrderIs, SetPath DEF Links
<1>6. PICK k \in 1..Len(s) : c = s[k]
  BY <1>5, OrderFacts DEF HashInv
<1>7. PICK j \in 1..Len(g) : c = g[j]
  BY <1>4, <1>5, LinksFound, PathFacts DEF IsList
<1>8. IsList(memory', SetList, Without(s, k))
  <2>1. PICK n : n = [o EXCEPT ![At(c)] = Blank]
    OBVIOUS
  <2>2. Typed(memory)
    BY DEF HashInv, Listed
  <2>3. \E r : Links(n, Without(s, k), Without(g, j), r)
    BY <1>4, <1>6, <1>7, <2>1, <2>2, EraseEffect
  <2> QED BY <1>1, <2>1, <2>3 DEF Links
<1>9. SetOrder(memory') = Without(s, k)
  BY <1>8, OrderIs
<1>10. d = (IF k = 1 THEN 0 ELSE s[k - 1]) /\ (memory[Root].iSetHead = c <=> k = 1)
       /\ memory[Root].iSetHead = s[1]
  BY <1>5, <1>6, Ends, SetLinks
<1> HIDE DEF o, L
<1>11. /\ memory'[Root] = o[Root]
       /\ \A e \in Cells : e # c => memory'[At(e)] = o[At(e)]
  BY <1>1, <1>2, <1>3, Addresses DEF Shape
<1>12. \A e \in L \ {c} : /\ memory'[At(e)].key = memory[At(e)].key
                          /\ memory'[At(e)].data = memory[At(e)].data
                          /\ memory'[At(e)].iIndex = memory[At(e)].iIndex
                          /\ memory'[At(e)].bDirty = memory[At(e)].bDirty
  <2>1. Same(memory, o, Contents \cup {"iIndex"})
    BY <1>2 DEF EraseReads
  <2> QED BY <1>3, <1>11, <2>1, SameContents
<1>13. k # 1 => memory'[Root].iSetHead = memory[Root].iSetHead /\ d # 0
  <2>1. Len(s) \in Nat /\ \A n \in 1..Len(s) : s[n] # 0
    BY <1>5 DEF Path
  <2>2. ASSUME k # 1 PROVE 1 \in 1..Len(Without(s, k)) /\ Without(s, k)[1] = s[1] /\ k - 1 \in 1..Len(s)
    <3>1. /\ Len(Without(s, k)) = Len(s) - 1
          /\ \A n \in 1..(Len(s) - 1) : Without(s, k)[n] = IF n < k THEN s[n] ELSE s[n + 1]
      BY <1>5, <1>6, WithoutFacts, Zenon
    <3> QED BY <1>6, <2>1, <2>2, <3>1
  <2> QED BY <1>8, <1>10, <2>1, <2>2, Ends, SetLinks
<1>14. Pending' => Pending /\ k # 1 /\ cell' = cell
  BY <1>10 DEF Pending, Reaching, CallFits
<1>15. KeysFit'
  <2>1. step' = "allocate" => cell \in LinkedIn(memory')
    BY <1>2 DEF HashInv, StepFits, OnBlock, L
  <2> QED BY <1>2, <1>12, <2>1, KeysKept DEF Reaching, L
<1>16. CallFits'
  BY <1>13, <1>14 DEF Reaching, CallFits
<1>17. Intact'
  BY <1>2, <1>12 DEF Reaching, Intact, Damaged, L
<1>18. ASSUME ~spoilt' PROVE \E p : Reach(SetOrder(memory), p, DirtyMark, WaitingIn, ReturningIn)'
  <2>1. PICK p : Reach(s, p, DirtyMark, WaitingIn, ReturningIn)
    BY <1>5, <1>18 DEF Reaching, InReach
  <2>2. PICK q : Reach(Without(s, k), q, IF DirtyMark = c THEN d ELSE DirtyMark,
                       WaitingIn \ {c}, ReturningIn \ {c})
    <3> HIDE DEF DirtyMark, WaitingIn, ReturningIn, d
    <3>1. d = IF k = 1 THEN 0 ELSE s[k - 1]
      BY <1>10
    <3> QED BY ONLY <1>5, <1>6, <2>1, <3>1, ReachWithout
  <2>3. DirtyMark' = IF DirtyMark = c THEN d ELSE DirtyMark
    <3>1. memory'[Root].iDirtyTail = IF memory[Root].iDirtyTail = c THEN d ELSE memory[Root].iDirtyTail
      BY <1>2, <1>11 DEF EraseReads
    <3>2. Pending => cell = memory[Root].iSetHead
      BY DEF Reaching, CallFits
    <3> HIDE DEF d
    <3>3. CASE step \in {"allocateMemBlock", "allocate"}
      BY <1>3, <1>10, <1>13, <3>1, <3>2, <3>3 DEF DirtyMark, Pending
    <3>4. CASE step \in {"idle", "recover"}
      BY <3>1, <3>4 DEF DirtyMark, Pending
    <3>5. CASE step = "undo"
      BY <1>3, <1>10, <3>1, <3>2, <3>5 DEF DirtyMark, Pending
    <3> QED BY <3>3, <3>4, <3>5
  <2>4. WaitingIn' \subseteq WaitingIn \ {c} /\ ReturningIn' \subseteq ReturningIn \ {c}
    BY <1>2, <1>12 DEF WaitingIn, ReturningIn, Waits, Returns, Urgent, L
  <2> HIDE DEF DirtyMark, WaitingIn, ReturningIn, d
  <2>5. Reach(Without(s, k), q, DirtyMark', WaitingIn', ReturningIn')
    BY <2>2, <2>3, <2>4, ReachLess
  <2> QED BY <1>9, <2>5
<1> QED BY <1>15, <1>16, <1>17, <1>18 DEF Reaching, InReach

\* The steps that erase a block.
LEMMA ErasingReaching ==
    ASSUME HashMapAssumption, HashInv, Reaching,
           \/ Evict \/ (Undo /\ call.fresh) \/ EraseTail
           \/ (\E k \in Keys : Del(k)) \/ (\E i \in Buckets : Recover(i))
    PROVE  Reaching'
<1>1. CASE Evict
  <2>1. Victim \in LinkedIn(memory) /\ Victim # cell
    BY <1>1, VictimLinked DEF Evict
  <2>2. step = "allocateMemBlock" \/ (step = "allocate" /\ Missing > 0)
    BY <1>1 DEF Evict, HashInv, StepFits, HashMapAssumption
  <2>3. ~(step = "allocate" /\ Missing <= 0)
    BY <2>2, MissingNumber DEF HashInv, StepFits, OnBlock
  <2> HIDE DEF Missing
  <2> QED BY <1>1, <2>1, <2>2, <2>3, EraseReaching DEF Evict, history
<1>2. CASE Undo /\ call.fresh
  <2>1. cell \in LinkedIn(memory)
    BY <1>2 DEF Undo, HashInv, StepFits, OnBlock
  <2> QED BY <1>2, <2>1, EraseReaching DEF Undo, history
<1>3. CASE EraseTail
  <2>1. Map.iGetTail \in LinkedIn(memory)
    BY <1>3, Tails DEF EraseTail, HashInv, Map
  <2> QED BY <1>3, <2>1, EraseReaching DEF EraseTail, May, history
<1>4. CASE \E k \in Keys : Del(k)
  <2>1. PICK k \in Keys : Del(k)
    BY <1>4
  <2>2. PICK c \in Found(k) : Erase(c)
    BY <2>1 DEF Del
  <2> QED BY <2>1, <2>2, FoundLinked, EraseReaching DEF Del, May, history
<1>5. CASE \E i \in Buckets : Recover(i)
  <2>1. PICK i \in Buckets : Recover(i)
    BY <1>5
  <2>2. PICK c \in Range(Chain(i)) : Erase(c)
    BY <2>1 DEF Recover
  <2> QED BY <2>1, <2>2, LinkedFound, EraseReaching DEF Recover, May, history
<1> QED BY <1>1, <1>2, <1>3, <1>4, <1>5

\* The new block is in front of the list, and has no key.
LEMMA MakeReaching == ASSUME HashMapAssumption, HashInv, Reaching, MakeNew PROVE Reaching'
<1> DEFINE i == Index[call.key]
           L == LinkedIn(memory)
<1>1. cell \in Cells /\ cell # 0 /\ cell \notin L /\ L \subseteq Cells /\ Shape(memory)
  <2>1. cell \in Cells /\ cell \notin L
    BY DEF HashInv, UnitsApart, MakeNew, Fresh, Owned, Own
  <2> QED BY <2>1, CellFacts, CountedBlocks DEF HashInv, Listed, Typed, HashMapAssumption
<1>2. i \in Buckets /\ call.key \in Keys /\ NoKey \notin Keys
  BY DEF MakeNew, HashInv, StepFits, HashMapAssumption, Keys
<1> HIDE DEF i
<1>3. PICK m : m = [memory EXCEPT ![At(cell)] = NewBlock(i)]
  OBVIOUS
<1>4. memory' = Updated(makeNew(cell, i), m)
  BY <1>3 DEF MakeNew, i
<1>5. LinkedIn(memory') = L \cup {cell} /\ MakeReads(m, memory', cell, i) /\ Shape(m)
  <2>1. Listed(memory) /\ cell \notin LinkedIn(memory)
    BY <1>1 DEF HashInv
  <2>2. \E k \in Keys : Index[k] = i
    BY <1>2 DEF i
  <2>3. LinkedIn(memory') = LinkedIn(memory) \cup {cell} /\ MakeReads(m, memory', cell, i) /\ Shape(m)
    BY ONLY HashMapAssumption, <1>1, <1>2, <1>3, <1>4, <2>1, <2>2, ListedMake
  <2> QED BY <2>3
<1>6. PICK s, g, h : Links(memory, s, g, h)
  BY DEF HashInv, Listed
<1>7. /\ s = SetOrder(memory) /\ Path(s) /\ s \in Seq(Cells) /\ IsInjective(s) /\ cell \notin Range(s)
  BY <1>1, <1>6, OrderIs, SetPath, LinksFound DEF Links
<1>8. IsList(memory', SetList, OnTop(cell, s))
  <2>1. Typed(memory)
    BY DEF HashInv, Listed
  <2>2. \E r : Links(memory', OnTop(cell, s), OnTop(cell, g), r)
    BY ONLY HashMapAssumption, <1>1, <1>2, <1>3, <1>4, <1>6, <1>7, <2>1, MakeEffect
  <2> QED BY <2>2 DEF Links
<1>9. SetOrder(memory') = OnTop(cell, s) /\ memory'[Root].iSetHead = cell
  <2>1. SetOrder(memory') = OnTop(cell, s)
    BY <1>8, OrderIs
  <2>2. Len(OnTop(cell, s)) = Len(s) + 1 /\ OnTop(cell, s)[1] = cell /\ Len(s) \in Nat
    <3>1. Len(s) \in Nat
      BY <1>7 DEF Path
    <3> QED BY <3>1 DEF OnTop
  <2>3. 1 \in 1..Len(OnTop(cell, s))
    BY <2>2
  <2> QED BY <1>8, <2>1, <2>2, <2>3, Ends, SetLinks
<1>10. /\ memory'[Root].iDirtyTail = memory[Root].iDirtyTail
       /\ \A d \in Cells : /\ d # cell => /\ memory'[At(d)].key = memory[At(d)].key
                                          /\ memory'[At(d)].data = memory[At(d)].data
                                          /\ memory'[At(d)].iIndex = memory[At(d)].iIndex
                                          /\ memory'[At(d)].bDirty = memory[At(d)].bDirty
                           /\ d = cell => memory'[At(d)].key = NoKey /\ memory'[At(d)].iIndex = i
  <2> DEFINE F == Contents \cup {"iIndex"} \cup Marks
  <2>1. Same(m, memory', F)
    BY <1>5 DEF MakeReads
  <2>2. Contents \cup {"iIndex"} \subseteq F /\ "iDirtyTail" \in F
    BY DEF Marks
  <2> HIDE DEF F
  <2>3. m[Root] = memory[Root] /\ \A d \in Cells : m[At(d)] = IF d = cell THEN NewBlock(i) ELSE memory[At(d)]
    BY <1>1, <1>3, Addresses DEF Shape
  <2>4. memory'[Root].iDirtyTail = m[Root].iDirtyTail
    BY <1>5, <2>1, <2>2 DEF Same, Shape, HeadFields
  <2>5. \A d \in Cells : /\ memory'[At(d)].bDirty = m[At(d)].bDirty /\ memory'[At(d)].key = m[At(d)].key
                         /\ memory'[At(d)].data = m[At(d)].data /\ memory'[At(d)].iIndex = m[At(d)].iIndex
    BY ONLY <1>5, <2>1, <2>2, SameContents
  <2> QED BY <2>3, <2>4, <2>5, NewBlockFields
<1>11. /\ step = "makeNew" /\ step' = "allocate" /\ cell' = cell /\ call' = call /\ call.fresh
       /\ spoilt' = spoilt /\ handed' = handed
  BY DEF MakeNew, Goto, history, Reaching, CallFits
<1>12. KeysFit'
  <2>1. /\ \A c \in L : memory[At(c)].key \in Keys => memory[At(c)].iIndex = Index[memory[At(c)].key]
        /\ \A c, d \in L : memory[At(c)].key \in Keys /\ memory[At(c)].key = memory[At(d)].key => c = d
        /\ \A c \in L : memory[At(c)].key # call.key
    BY <1>11 DEF Reaching, KeysFit
  <2>2. /\ \A c \in L : memory'[At(c)].key = memory[At(c)].key /\ memory'[At(c)].iIndex = memory[At(c)].iIndex
        /\ memory'[At(cell)].key \notin Keys /\ memory'[At(cell)].iIndex = Index[call.key]
    BY <1>1, <1>2, <1>10 DEF i
  <2> HIDE DEF L
  <2> QED BY <1>2, <1>5, <1>11, <2>1, <2>2 DEF KeysFit
<1>13. CallFits'
  BY <1>9, <1>11 DEF CallFits, Pending
<1>14. Intact'
  BY <1>1, <1>5, <1>10, <1>11 DEF Reaching, Intact, Damaged
<1>15. ASSUME ~spoilt' PROVE \E p : Reach(SetOrder(memory), p, DirtyMark, WaitingIn, ReturningIn)'
  <2>1. PICK p : Reach(s, p, DirtyMark, WaitingIn, ReturningIn)
    BY <1>7, <1>11, <1>15 DEF Reaching, InReach
  <2>2. DirtyMark' = IF DirtyMark = 0 THEN cell ELSE DirtyMark
    BY <1>10, <1>11 DEF DirtyMark, Pending
  <2>3. WaitingIn' \subseteq WaitingIn \cup {cell} /\ ReturningIn' \subseteq ReturningIn \cup {cell}
    BY <1>1, <1>5, <1>10, <1>11 DEF WaitingIn, ReturningIn, Waits, Returns, Urgent
  <2> HIDE DEF DirtyMark, WaitingIn, ReturningIn
  <2>4. PICK q : Reach(OnTop(cell, s), q, IF DirtyMark = 0 THEN cell ELSE DirtyMark,
                       WaitingIn \cup {cell}, ReturningIn \cup {cell})
    BY ONLY <1>1, <1>7, <2>1, ReachOnTop
  <2>5. Reach(OnTop(cell, s), q, DirtyMark', WaitingIn', ReturningIn')
    BY <2>2, <2>3, <2>4, ReachLess
  <2> QED BY <1>9, <2>5
<1> QED BY <1>12, <1>13, <1>14, <1>15 DEF Reaching, InReach

\* The block that is set goes to the front of the list, and the mark to it if there is none.
LEMMA RefreshReaching == ASSUME HashMapAssumption, HashInv, Reaching, RefreshSetList PROVE Reaching'
<1>1. /\ cell \in LinkedIn(memory) /\ step = "refreshSetList" /\ step' = "refreshGetList"
      /\ memory' = Updated(refreshSetList(cell), memory) /\ UNCHANGED <<call, cell, history>>
  BY DEF RefreshSetList, Commit, Goto, HashInv, StepFits, OnBlock
<1>2. PICK s, g, h : Links(memory, s, g, h)
  BY DEF HashInv, Listed
<1>3. /\ IsList(memory, SetList, s) /\ s = SetOrder(memory) /\ Path(s) /\ s \in Seq(Cells) /\ IsInjective(s)
  BY <1>2, OrderIs, SetPath DEF Links
<1>4. PICK k \in 1..Len(s) : cell = s[k]
  BY <1>1, <1>3, OrderFacts DEF HashInv
<1>5. /\ Links(memory', Fronted(s, k), g, h) /\ RefreshSetMarks(memory, memory', cell, k)
      /\ Same(memory, memory', AllFields \ (SetFields \cup {"iDirtyTail", "iSyncTail"}))
  BY <1>1, <1>2, <1>4, RefreshSetEffect
<1>6. SetOrder(memory') = Fronted(s, k)
  BY <1>5, OrderIs DEF Links
<1>7. LinkedIn(memory') = LinkedIn(memory)
  <2>1. Listed(memory) /\ Same(memory, memory', {"iBlockAddr", "iBlockNext", "iBlockPrev"})
    BY <1>5, SameLess DEF HashInv, AllFields, HeadFields, ItemFields, BlockFields, SetFields
  <2> QED BY <2>1, LinkedKept
<1>8. \A d \in LinkedIn(memory) : /\ memory'[At(d)].key = memory[At(d)].key
                                  /\ memory'[At(d)].data = memory[At(d)].data
                                  /\ memory'[At(d)].iIndex = memory[At(d)].iIndex
                                  /\ memory'[At(d)].bDirty = memory[At(d)].bDirty
  <2>1. Shape(memory) /\ LinkedIn(memory) \subseteq Cells
    BY CountedBlocks DEF HashInv, Listed, Typed
  <2>2. Contents \cup {"iIndex"} \subseteq AllFields \ (SetFields \cup {"iDirtyTail", "iSyncTail"})
    BY DEF Contents, AllFields, BlockFields, SetFields
  <2> QED BY <1>5, <2>1, <2>2, SameContents
<1>9. /\ memory[At(cell)].iSetPrev = (IF k = 1 THEN 0 ELSE s[k - 1])
      /\ memory[Root].iSetHead = cell <=> k = 1
  BY <1>3, <1>4, Ends, SetLinks
<1>10. KeysFit'
  BY <1>1, <1>7, <1>8, KeysKept DEF Reaching
<1>11. CallFits' /\ Intact'
  BY <1>1, <1>7, <1>8 DEF Reaching, CallFits, Pending, Intact, Damaged, history
<1>12. ASSUME ~spoilt' PROVE \E p : Reach(SetOrder(memory), p, DirtyMark, WaitingIn, ReturningIn)'
  <2> DEFINE d == memory[At(cell)].iSetPrev
             v == DirtyMark
  <2>1. PICK p : Reach(s, p, v, WaitingIn, ReturningIn)
    BY <1>1, <1>3, <1>12 DEF Reaching, InReach, history
  <2>2. DirtyMark' = IF v = 0 THEN cell ELSE IF v = cell /\ k # 1 THEN d ELSE v
    <3>1. Pending => cell = memory[Root].iSetHead
      BY DEF Reaching, CallFits
    <3> QED BY <1>1, <1>5, <1>9, <3>1 DEF DirtyMark, Pending, RefreshSetMarks
  <2>3. WaitingIn' \subseteq WaitingIn \cup {cell} /\ ReturningIn' \subseteq ReturningIn \cup {cell}
    BY <1>1, <1>7, <1>8 DEF WaitingIn, ReturningIn, Waits, Returns, Urgent, history
  <2>4. d = IF k = 1 THEN 0 ELSE s[k - 1]
    BY <1>9
  <2> HIDE DEF v, d, WaitingIn, ReturningIn
  <2>5. PICK q : Reach(Fronted(s, k), q, IF v = 0 THEN cell ELSE IF v = cell /\ k # 1 THEN d ELSE v,
                       WaitingIn \cup {cell}, ReturningIn \cup {cell})
    <3>1. Path(s) /\ s \in Seq(Cells) /\ IsInjective(s) /\ cell = s[k]
      BY <1>3, <1>4
    <3> QED BY ONLY <2>1, <2>4, <3>1, ReachFronted
  <2>6. Reach(Fronted(s, k), q, DirtyMark', WaitingIn', ReturningIn')
    BY <2>2, <2>3, <2>5, ReachLess
  <2> QED BY <1>6, <2>6
<1> QED BY <1>10, <1>11, <1>12 DEF Reaching, InReach

\* sync passes a block that is clean, or that it has made so.
LEMMA PassReaching ==
    ASSUME HashMapAssumption, HashInv, Reaching, SyncPasses \/ NeedSync PROVE Reaching'
<1> DEFINE d == memory[At(cell)].iSetPrev
<1>1. /\ cell \in LinkedIn(memory) /\ step \in {"sync", "needSync"} /\ handed = NoKey /\ ~NoCall.fresh
      /\ step' = "idle" /\ call' = NoCall /\ spoilt' = spoilt
      /\ handed' = IF step = "sync" THEN NoKey ELSE memory[At(cell)].key
      /\ memory' = Updated(Step(memory, "iDirtyTail", SetList, cell), memory)
  BY DEF SyncPasses, NeedSync, PassDirtyTail, Commit, Leave, NoCall, HashInv, StepFits, OnBlock,
     Reaching, CallFits, history, Block
<1>2. /\ SameMap
      /\ memory'[Root].iDirtyTail = IF memory[Root].iDirtyTail = cell THEN d ELSE memory[Root].iDirtyTail
  <2> DEFINE F == PlaceFields \cup Contents
             changes == memory[Root].iDirtyTail = cell
  <2>1. memory' = Updated(If(changes, <<Put(Root, "iDirtyTail", d)>>), memory)
    BY <1>1, SetLinks DEF Step
  <2> HIDE DEF changes, d
  <2>2. Writes(If(changes, <<Put(Root, "iDirtyTail", d)>>), {"iDirtyTail"})
    BY WritesOne, WritesIf
  <2>3. {"iDirtyTail"} \cap F = {} /\ PlaceFields \cup Contents \subseteq F
    BY DEF PlaceFields, SetFields, Contents
  <2> HIDE DEF F
  <2>4. Same(memory, memory', F)
    BY <2>1, <2>2, <2>3, Untouched
  <2>5. Reads(memory, memory', changes, Root, "iDirtyTail", d)
    <3>1. Same(memory, memory, {"iDirtyTail"}) /\ Same(memory', memory', {"iDirtyTail"})
      BY SameSelf
    <3> QED BY <2>1, <3>1, StageReads
  <2>6. memory'[Root].iDirtyTail = IF changes THEN d ELSE memory[Root].iDirtyTail
    BY <2>5 DEF Reads, HashInv, Listed, Typed, Shape, HeadFields
  <2> QED BY <2>3, <2>4, <2>6, SameMapKept DEF changes
<1>3. KeysFit'
  BY <1>1, <1>2, SameMapReads, KeysKept DEF Reaching
<1>4. CallFits' /\ Intact'
  BY <1>1, <1>2, SameMapReads DEF Reaching, CallFits, Pending, Intact, Damaged
<1>5. ASSUME ~spoilt' PROVE \E p : Reach(SetOrder(memory), p, DirtyMark, WaitingIn, ReturningIn)'
  <2> DEFINE s == SetOrder(memory)
             v == DirtyMark
  <2>1. PICK p : Reach(s, p, v, WaitingIn, ReturningIn)
    BY <1>1, <1>5 DEF Reaching, InReach
  <2>2. ~memory[At(cell)].bDirty
    <3>1. CASE step = "sync"
      <4>1. memory[At(cell)].data = "whole"
        BY <1>1, <1>5, <3>1 DEF Reaching, Intact, Damaged
      <4> QED BY <3>1, <4>1 DEF SyncPasses, NeedSync, Unreadable, Garbled, Block
    <3>2. CASE step = "needSync"
      BY <3>2 DEF Reaching, CallFits
    <3> QED BY <1>1, <3>1, <3>2
  <2>3. WaitingIn' \subseteq WaitingIn \ {cell}
    BY <1>1, <1>2, SameMapReads, <2>2 DEF WaitingIn, Waits, Urgent
  <2>4. ReturningIn' \subseteq {cell} /\ (ReturningIn' = {} \/ cell \in WaitingIn)
    <3>1. \A c \in LinkedIn(memory) : memory[At(c)].key = memory[At(cell)].key
                                       /\ memory[At(c)].key \in Keys => c = cell
      BY <1>1 DEF Reaching, KeysFit
    <3>2. NoKey \notin Keys
      BY DEF HashMapAssumption, Keys
    <3> QED BY <1>1, <1>2, SameMapReads, <3>1, <3>2 DEF WaitingIn, ReturningIn, Waits, Returns, Urgent
  <2>5. v = memory[Root].iDirtyTail /\ DirtyMark' = memory'[Root].iDirtyTail
    BY <1>1 DEF DirtyMark, Pending
  <2>6. Path(s) /\ IsList(memory, SetList, s) /\ \E k \in 1..Len(s) : cell = s[k]
    BY <1>1, OrderFacts DEF HashInv
  <2> HIDE DEF s, v, WaitingIn, ReturningIn
  <2>7. CASE v = cell
    <3>1. PICK k \in 1..Len(s) : v = s[k]
      BY <2>6, <2>7
    <3>2. d = IF k = 1 THEN 0 ELSE s[k - 1]
      BY <2>6, <2>7, <3>1, Ends, SetLinks
    <3> HIDE DEF d
    <3>3. PICK q : Reach(s, q, d, WaitingIn \ {v}, {v})
      BY ONLY <2>1, <2>6, <3>1, <3>2, ReachPassed
    <3>4. Reach(s, q, DirtyMark', WaitingIn', ReturningIn')
      BY <1>2, <2>3, <2>4, <2>5, <2>7, <3>3, ReachLess
    <3> QED BY <1>2, SameMapReads, <3>4 DEF s
  <2>8. CASE v # cell
    <3>1. Reach(s, p, v, WaitingIn, ReturningIn \cup WaitingIn)
      BY <2>1, <2>6, ReachMore
    <3>2. WaitingIn' \subseteq WaitingIn /\ ReturningIn' \subseteq ReturningIn \cup WaitingIn
      BY <2>3, <2>4
    <3>3. Reach(s, p, v, WaitingIn', ReturningIn')
      BY <3>1, <3>2, ReachLess
    <3> QED BY <1>2, SameMapReads, <2>5, <2>8, <3>3 DEF s
  <2> QED BY <2>7, <2>8
<1> QED BY <1>3, <1>4, <1>5 DEF Reaching, InReach

\* The mark comes back to the block that could not be written back.
LEMMA BackReaching == ASSUME HashMapAssumption, HashInv, Reaching, DirtyTailBack PROVE Reaching'
<1> DEFINE d == memory[At(cell)].iSetPrev
           F == PlaceFields \cup Contents
           w == IF Map.iDirtyTail = d THEN cell ELSE Map.iDirtyTail
<1>1. /\ cell \in LinkedIn(memory) /\ step = "dirtyTail" /\ Write("iDirtyTail", w) /\ ~NoCall.fresh
      /\ step' = "idle" /\ call' = NoCall /\ spoilt' = spoilt /\ handed' = handed
  BY DEF DirtyTailBack, Leave, NoCall, HashInv, StepFits, OnBlock, history, Block
<1>2. SameMap /\ memory'[Root].iDirtyTail = w
  <2>1. Shape(memory)
    BY DEF HashInv, Listed, Typed
  <2> HIDE DEF w
  <2>2. memory' = [memory EXCEPT ![Root]["iDirtyTail"] = w]
    BY <1>1 DEF Write
  <2>3. PlaceFields \cup Contents \subseteq F /\ "iDirtyTail" \notin F
    BY DEF PlaceFields, SetFields, Contents
  <2> HIDE DEF F
  <2>4. Same(memory, memory', F)
    BY <2>1, <2>2, <2>3 DEF Same
  <2>5. memory'[Root].iDirtyTail = w
    BY <2>1, <2>2 DEF Shape, HeadFields
  <2> QED BY <2>3, <2>4, <2>5, SameMapKept
<1>3. KeysFit'
  BY <1>1, <1>2, SameMapReads, KeysKept DEF Reaching
<1>4. CallFits' /\ Intact'
  BY <1>1, <1>2, SameMapReads DEF Reaching, CallFits, Pending, Intact, Damaged
<1>5. ASSUME ~spoilt' PROVE \E p : Reach(SetOrder(memory), p, DirtyMark, WaitingIn, ReturningIn)'
  <2> DEFINE s == SetOrder(memory)
             v == DirtyMark
  <2>1. PICK p : Reach(s, p, v, WaitingIn, ReturningIn)
    BY <1>1, <1>5 DEF Reaching, InReach
  <2>2. DirtyMark' = IF v = d THEN cell ELSE v
    BY <1>1, <1>2 DEF DirtyMark, Pending, Map
  <2>3. /\ cell \in ReturningIn /\ WaitingIn' \subseteq WaitingIn \cup {cell}
        /\ ReturningIn' \subseteq ReturningIn
    BY <1>1, <1>2, SameMapReads DEF WaitingIn, ReturningIn, Waits, Returns, Urgent
  <2>4. Path(s) /\ IsList(memory, SetList, s) /\ \E k \in 1..Len(s) : cell = s[k]
    BY <1>1, OrderFacts DEF HashInv
  <2> HIDE DEF s, v, WaitingIn, ReturningIn
  <2>5. PICK k \in 1..Len(s) : cell = s[k]
    BY <2>4
  <2>6. d = IF k = 1 THEN 0 ELSE s[k - 1]
    BY <2>4, <2>5, Ends, SetLinks
  <2> HIDE DEF d
  <2>7. PICK q : Reach(s, q, IF v = d THEN cell ELSE v, WaitingIn \cup {cell}, ReturningIn)
    BY ONLY <2>1, <2>3, <2>4, <2>5, <2>6, ReachBack
  <2>8. Reach(s, q, DirtyMark', WaitingIn', ReturningIn')
    BY <2>2, <2>3, <2>7, ReachLess
  <2> QED BY <1>2, SameMapReads, <2>8 DEF s
<1> QED BY <1>3, <1>4, <1>5 DEF Reaching, InReach

\* A map without a block.
LEMMA NewReaching ==
    ASSUME HashMapAssumption, NEW v \in Int, NEW m,
           m = NewMemory \/ m = [NewMemory EXCEPT ![Root].iOnlyKeyCount = v]
    PROVE  LinkedIn(m) = {} /\ Reach(SetOrder(m), 0, m[Root].iDirtyTail, {}, {})
<1>1. Listed(m) /\ LinkedIn(m) = {}
  BY NewListed
<1>2. Path(SetOrder(m))
  BY <1>1, OrderFacts
<1>3. m[Root].iDirtyTail = 0
  BY NewReads DEF NewHead
<1>4. 0 \in 0..Len(SetOrder(m))
  BY <1>2 DEF Path
<1> QED BY <1>1, <1>3, <1>4 DEF Reach

\* At first, and after clear.
LEMMA ReachingInit == ASSUME HashMapAssumption, Init PROVE Reaching
<1>1. /\ step = "idle" /\ ~call.fresh /\ 0 \in Int
      /\ LinkedIn(memory) = {} /\ Reach(SetOrder(memory), 0, memory[Root].iDirtyTail, {}, {})
  <2>1. step = "idle" /\ ~call.fresh /\ memory = NewMemory /\ 0 \in Int
    BY DEF Init, NoCall
  <2> QED BY <2>1, NewReaching
<1>2. WaitingIn = {} /\ ReturningIn = {} /\ DirtyMark = memory[Root].iDirtyTail
  BY <1>1 DEF WaitingIn, ReturningIn, DirtyMark, Pending
<1>3. InReach
  BY <1>1, <1>2 DEF InReach
<1>4. KeysFit /\ CallFits /\ Intact
  BY <1>1 DEF KeysFit, CallFits, Intact, Pending
<1> QED BY <1>3, <1>4 DEF Reaching

\* clear leaves no block to reach.
LEMMA ClearReaching == ASSUME HashMapAssumption, HashInv, Reaching, Clear PROVE Reaching'
<1>1. Map.iOnlyKeyCount \in Int /\ step' = "idle" /\ ~call'.fresh
  BY DEF HashInv, Listed, Typed, Map, Clear, May, process, Reaching, CallFits
<1>2. LinkedIn(memory') = {} /\ Reach(SetOrder(memory'), 0, memory'[Root].iDirtyTail, {}, {})
  BY <1>1, NewReaching DEF Clear
<1>3. WaitingIn' = {} /\ ReturningIn' = {} /\ DirtyMark' = memory'[Root].iDirtyTail
  BY <1>1, <1>2 DEF WaitingIn, ReturningIn, DirtyMark, Pending
<1>4. InReach'
  BY <1>2, <1>3 DEF InReach
<1>5. KeysFit' /\ CallFits' /\ Intact'
  BY <1>1, <1>2 DEF KeysFit, CallFits, Intact, Pending
<1> QED BY <1>4, <1>5 DEF Reaching

\* Every step keeps the dirty blocks in reach.
LEMMA ReachingStep == ASSUME HashMapAssumption, HashInv, Reaching, [Next]_vars PROVE Reaching'
<1>1. setting.keys \subseteq Keys /\ setting.chunks \subseteq Nat
  BY DEF HashInv, HistoryTyped, HashMapAssumption, Keys
<1>2. CASE SetCall
  BY <1>1, <1>2, SetReaching DEF SetCall
<1>3. Undo => (Undo /\ call.fresh) \/ (Undo /\ ~call.fresh)
  OBVIOUS
<1>4. CASE SetStep
  BY <1>3, <1>4, UnitReaching, MakeReaching, ChunksReaching, WaitingSteps, ErasingReaching, EndingSteps,
     SetFlagsReaching, CopyDataReaching, DirtyReaching DEF SetStep
<1>5. CASE KeyCall
  BY <1>1, <1>5, OrderReaching, ErasingReaching, DirtyReaching DEF KeyCall
<1>6. CASE Others
  BY <1>6, ErasingReaching, OrderReaching, EndingSteps, WaitingSteps, RefreshReaching, ClearReaching DEF Others
<1>7. CASE Syncing
  BY <1>7, OrderReaching, EndingSteps, PassReaching, BackReaching, DirtyReaching DEF Syncing
<1>8. CASE Fruitless
  BY <1>8, WaitingSteps DEF Fruitless
<1>9. CASE Crash
  BY <1>9, CrashReaching
<1>10. CASE UNCHANGED vars
  BY <1>10, WaitingSteps
<1> QED BY <1>2, <1>4, <1>5, <1>6, <1>7, <1>8, <1>9, <1>10 DEF Next

\* Whatever steps the calls take and wherever processes are killed, the mark of the dirty
\* blocks is behind all blocks that wait to be written back, in the list of the last set.
THEOREM ReachInvariant == ASSUME HashMapAssumption PROVE Spec => [](HashInv /\ Reaching)
<1>1. Init => HashInv /\ Reaching
  BY HashInit, ReachingInit
<1>2. HashInv /\ Reaching /\ [Next]_vars => (HashInv /\ Reaching)'
  BY HashStep, ReachingStep
<1> QED BY <1>1, <1>2, PTL DEF Spec

\* Between two calls, sync comes to all dirty blocks.
LEMMA ReachAhead == ASSUME HashMapAssumption, HashInv, Reaching PROVE DirtyIsReached
<1> SUFFICES ASSUME step = "idle", ~spoilt, NEW c \in Linked, Block(c).bDirty
             PROVE  c \in Ahead(memory, "iDirtyTail", SetList)
  BY DEF DirtyIsReached
<1> DEFINE s == SetOrder(memory)
<1>1. Path(s) /\ s \in Seq(Cells) /\ IsList(memory, SetList, s)
  BY OrderFacts DEF HashInv
<1>2. PICK p : Reach(s, p, memory[Root].iDirtyTail, WaitingIn, ReturningIn)
  BY DEF Reaching, InReach, DirtyMark, Pending
<1>3. c \in LinkedIn(memory) /\ c \in WaitingIn
  BY LinkedFound DEF WaitingIn, Waits, Urgent, Block
<1>4. PICK k \in 1..Len(s) : c = s[k]
  BY <1>3, OrderFacts DEF HashInv
<1> HIDE DEF s
<1>5. p \in 1..Len(s) /\ k <= p /\ memory[Root].iDirtyTail = s[p] /\ Len(s) \in Nat
  BY <1>1, <1>2, <1>3, <1>4 DEF Reach, Path
<1> DEFINE t == [n \in 1..p |-> s[(p - n) + 1]]
<1>6. \A n \in 1..p : (p - n) + 1 \in 1..Len(s) /\ s[(p - n) + 1] \in Cells
  <2>1. \A n \in 1..p : (p - n) + 1 \in 1..Len(s)
    BY <1>5
  <2>2. \A n \in 1..Len(s) : s[n] \in Cells
    BY <1>1
  <2> QED BY <2>1, <2>2
<1>7. t \in Seq(Cells) /\ Len(t) = p /\ DOMAIN t = 1..p
  BY <1>5, <1>6
<1>8. IsInjective(t)
  <2>1. ASSUME NEW i \in 1..p, NEW j \in 1..p, t[i] = t[j] PROVE i = j
    <3>1. (p - i) + 1 = (p - j) + 1
      BY <1>1, <1>6, <2>1 DEF Path
    <3> QED BY <1>5, <3>1
  <2> HIDE DEF t
  <2> QED BY <1>7, <2>1 DEF IsInjective
<1>9. \A n \in 1..p : memory[At(t[n])]["iSetPrev"] = IF n = p THEN 0 ELSE t[n + 1]
  <2> SUFFICES ASSUME NEW n \in 1..p PROVE memory[At(t[n])]["iSetPrev"] = IF n = p THEN 0 ELSE t[n + 1]
    OBVIOUS
  <2> DEFINE e == (p - n) + 1
  <2>1. e \in 1..Len(s) /\ t[n] = s[e]
    BY <1>6
  <2>2. memory[At(s[e])]["iSetPrev"] = IF e = 1 THEN 0 ELSE s[e - 1]
    BY <1>1, <2>1, Ends, SetLinks
  <2>3. (e = 1 <=> n = p) /\ (n # p => n + 1 \in 1..p /\ (p - (n + 1)) + 1 = e - 1)
    BY <1>5
  <2>4. n # p => t[n + 1] = s[e - 1]
    BY <2>3
  <2> QED BY <2>1, <2>2, <2>3, <2>4
<1>10. t # <<>> /\ t[1] = memory[Root].iDirtyTail
  BY <1>5, <1>7
<1>11. t[(p - k) + 1] = c /\ (p - k) + 1 \in 1..p
  BY <1>4, <1>5
<1> HIDE DEF t
<1>12. Leads(memory, memory[Root].iDirtyTail, "iSetPrev", t)
  BY <1>7, <1>8, <1>9, <1>10 DEF Leads
<1>13. Ahead(memory, "iDirtyTail", SetList) = Range(t)
  BY <1>12, FollowLeads, SetLinks DEF Ahead
<1> QED BY <1>7, <1>11, <1>13 DEF Range

\* A dirty block is written back some day: a round of writing back that begins at the mark
\* of the dirty blocks comes to each of them, unless a process was killed in a call that
\* makes a block dirty.
THEOREM DirtyBlocksReached == ASSUME HashMapAssumption PROVE Spec => []DirtyIsReached
<1>1. HashInv /\ Reaching => DirtyIsReached
  BY ReachAhead
<1> QED BY <1>1, ReachInvariant, PTL
=============================================================================
