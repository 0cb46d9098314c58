-------------------------- MODULE HttpAsyncProofs ---------------------------
(***************************************************************************)
(* Proofs about the queue of the requests and about the client that uses   *)
(* it, for any number of messages, requests and sockets.                   *)
(*                                                                         *)
(* PopsInOrder is, with the types, inductive as it stands.  What its proof *)
(* needs besides is that the front of a list exists, that is that a set of *)
(* numbers has a least one.                                                *)
(*                                                                         *)
(* For TypeOK, EndsOnce and WaitsForAll of the client the invariant says   *)
(* where each request is: not yet made, live in the queue, ended, or in    *)
(* the hands of run, in which case the place of run says how far its end   *)
(* has come.  All its parts rest on one fact: but for the push of a new    *)
(* request, only run takes requests out of the queue and closes them.      *)
(***************************************************************************)
EXTENDS HttpAsync, FiniteSetTheorems, WellFoundedInduction, TLAPS

-----------------------------------------------------------------------------
(* The queue                                                               *)

\* The messages up to m.
UpTo(messages, m) == {k \in messages : k <= m}

QueueIInv == QueueTypeOK /\ PopsInOrder

-----------------------------------------------------------------------------
(* The front of the list                                                   *)

\* The messages up to m are finitely many numbers.
LEMMA UpToFinite ==
    ASSUME NEW M \in SUBSET Nat, NEW m \in M
    PROVE  UpTo(M, m) \in SUBSET Nat /\ IsFiniteSet(UpTo(M, m))
<1>1. m \in Nat /\ IsFiniteSet(0..m)
  BY FS_Interval
<1>2. ASSUME NEW k \in UpTo(M, m) PROVE k \in 0..m
  <2>1. k \in Nat /\ k <= m
    BY DEF UpTo
  <2> QED BY <1>1, <2>1
<1>3. UpTo(M, m) \subseteq 0..m
  BY <1>2
<1> QED BY <1>1, <1>3, FS_Subset DEF UpTo

\* There are more messages up to the later of two.
LEMMA UpToGrows ==
    ASSUME NEW M \in SUBSET Nat, NEW m \in M, NEW n \in M, n < m
    PROVE  <<UpTo(M, n), UpTo(M, m)>> \in StrictSubsetOrdering(Nat)
<1>1. m \in Nat /\ n \in Nat
  OBVIOUS
<1>2. ASSUME NEW k \in UpTo(M, n) PROVE k \in UpTo(M, m)
  <2>1. k \in M /\ k \in Nat /\ k <= n
    BY DEF UpTo
  <2>2. k <= m
    BY <1>1, <2>1
  <2> QED BY <2>1, <2>2 DEF UpTo
<1>3. m \in UpTo(M, m) /\ m \notin UpTo(M, n)
  BY <1>1 DEF UpTo
<1>4. UpTo(M, m) \in SUBSET Nat /\ UpTo(M, n) \in SUBSET Nat
  BY UpToFinite
<1> QED BY <1>2, <1>3, <1>4 DEF StrictSubsetOrdering

\* There is an oldest message.
LEMMA OldestExists ==
    ASSUME NEW M \in SUBSET Nat, M # {}
    PROVE  \E m \in M : \A n \in M : m <= n
<1> DEFINE F == {UpTo(M, m) : m \in M}
<1>1. F \subseteq FiniteSubsetsOf(Nat)
  BY UpToFinite DEF FiniteSubsetsOf
<1>2. F # {}
  OBVIOUS
<1>3. \A m \in M : UpTo(M, m) \in F
  OBVIOUS
<1>4. \A x \in F : \E m \in M : x = UpTo(M, m)
  OBVIOUS
<1> HIDE DEF F
<1>5. PICK x \in F : \A y \in F : <<y, x>> \notin StrictSubsetOrdering(Nat)
  BY <1>1, <1>2, FS_StrictSubsetOrderingWellFounded, WFMin
<1>6. PICK m \in M : x = UpTo(M, m)
  BY <1>4
<1>7. \A n \in M : ~ (n < m)
  BY <1>3, <1>5, <1>6, UpToGrows
<1>8. \A n \in M : m \in Nat /\ n \in Nat
  OBVIOUS
<1>9. \A n \in M : m <= n
  BY <1>7, <1>8
<1> QED BY <1>9

\* What Front is of a list, and of the empty one.
LEMMA FrontIsOldest ==
    ASSUME NEW M \in SUBSET (Nat \ {0})
    PROVE  /\ M = {} => Front(M) = End
           /\ M # {} => /\ Front(M) \in M
                        /\ Front(M) # End
                        /\ \A n \in M : Front(M) <= n
<1>1. CASE M = {}
  BY <1>1 DEF Front
<1>2. CASE M # {}
  <2>1. \E m \in M : \A n \in M : m <= n
    BY <1>2, OldestExists
  <2>2. Oldest(M) \in M /\ \A n \in M : Oldest(M) <= n
    BY <2>1 DEF Oldest
  <2>3. Oldest(M) # End
    BY <2>2 DEF End
  <2> QED BY <1>2, <2>2, <2>3 DEF Front
<1> QED BY <1>1, <1>2

\* The messages in the queue are numbers.
LEMMA TimeIsNumbers ==
    ASSUME QueueTypeOK
    PROVE  time \in SUBSET (Nat \ {0}) /\ uniqId \in Nat
<1>1. uniqId \in Nat
  BY TimeoutQueueAssumption DEF QueueTypeOK
<1>2. ASSUME NEW m \in time PROVE m \in Nat \ {0}
  BY <1>1 DEF QueueTypeOK
<1> QED BY <1>1, <1>2

\* The place after a message is the end of the list or the first message that follows.
LEMMA FollowingIsNext ==
    ASSUME QueueTypeOK, NEW m \in time
    PROVE  LET later == {n \in time : n > m}
           IN /\ Following(m) \in time \cup {End}
              /\ later = IF Following(m) = End THEN {} ELSE {n \in time : n >= Following(m)}
<1> DEFINE later == {n \in time : n > m}
<1>1. later \in SUBSET (Nat \ {0}) /\ m \in Nat
  BY TimeIsNumbers
<1>2. Following(m) = Front(later)
  BY DEF Following
<1>3. CASE later = {}
  BY <1>1, <1>2, <1>3, FrontIsOldest
<1>4. CASE later # {}
  <2>1. /\ Front(later) \in later /\ Front(later) # End
        /\ \A n \in later : Front(later) <= n
    BY <1>1, <1>4, FrontIsOldest
  <2>2. ASSUME NEW n \in time PROVE n > m <=> n >= Front(later)
    <3>1. n \in Nat /\ Front(later) \in Nat /\ Front(later) > m
      BY <2>1, TimeIsNumbers
    <3>2. n > m => n >= Front(later)
      BY <2>1, <3>1
    <3>3. n >= Front(later) => n > m
      BY <1>1, <3>1
    <3> QED BY <3>2, <3>3
  <2>3. later = {n \in time : n >= Front(later)}
    BY <2>2
  <2> QED BY <1>2, <2>1, <2>3
<1> QED BY <1>3, <1>4

-----------------------------------------------------------------------------
(* The steps                                                               *)

\* The beginning.
LEMMA InitQueueIInv == QueueInit => QueueIInv
<1> SUFFICES ASSUME QueueInit PROVE QueueIInv
  OBVIOUS
<1>1. QueueTypeOK
  BY TimeoutQueueAssumption DEF QueueInit, QueueTypeOK, End, NoPass
<1>2. PopsInOrder
  BY DEF QueueInit, PopsInOrder, End
<1> QED BY <1>1, <1>2 DEF QueueIInv

\* A step that leaves the list alone.
LEMMA QuietIInv ==
    ASSUME QueueIInv, UNCHANGED <<time, poped, firstNoPop, handed>>, uniqId' = uniqId,
           horizon' \in 0..uniqId, deadline' \in 0..uniqId \cup {NoPass}
    PROVE  QueueIInv'
<1>1. QueueTypeOK'
  BY DEF QueueIInv, QueueTypeOK, NoPass
<1>2. PopsInOrder'
  BY DEF QueueIInv, PopsInOrder
<1> QED BY <1>1, <1>2 DEF QueueIInv

\* A message leaves the list.
LEMMA RemoveIInv ==
    ASSUME QueueIInv, NEW m \in time, Remove(m), UNCHANGED <<uniqId, horizon, deadline, handed>>
    PROVE  QueueIInv'
<1> USE DEF QueueIInv
<1>1. /\ time' = time \ {m} /\ poped' = poped \ {m}
      /\ firstNoPop' = IF firstNoPop = m THEN Following(m) ELSE firstNoPop
  BY DEF Remove
<1>2. /\ Following(m) \in time \cup {End}
      /\ {n \in time : n > m}
           = IF Following(m) = End THEN {} ELSE {n \in time : n >= Following(m)}
  BY FollowingIsNext
<1>3. m \in Nat /\ \A n \in time : n \in Nat
  BY TimeIsNumbers
<1>4. firstNoPop' \in time' \cup {End}
  <2>1. CASE firstNoPop # m
    BY <1>1, <2>1 DEF QueueTypeOK
  <2>2. CASE Following(m) = End /\ firstNoPop = m
    BY <1>1, <2>2
  <2>3. CASE Following(m) # End /\ firstNoPop = m
    <3>1. Following(m) \in time
      BY <1>2, <2>3
    <3>2. Following(m) >= Following(m)
      <4>1. \A n \in Nat : n >= n
        OBVIOUS
      <4> QED BY <1>3, <3>1, <4>1
    <3>3. Following(m) \in {n \in time : n > m}
      BY <1>2, <2>3, <3>1, <3>2
    <3>4. Following(m) # m
      BY <1>3, <3>3
    <3> QED BY <1>1, <2>3, <3>1, <3>4
  <2> QED BY <2>1, <2>2, <2>3
<1>5. QueueTypeOK'
  BY <1>1, <1>4 DEF QueueTypeOK, NoPass
<1>6. poped' = time' \cap handed'
  BY <1>1 DEF PopsInOrder
<1>7. \A n \in time' \ handed', h \in handed' : h < n
  BY <1>1 DEF PopsInOrder
<1>8. {n \in time' : n \notin handed'}
        = IF firstNoPop' = End THEN {} ELSE {n \in time' : n >= firstNoPop'}
  <2>1. {n \in time : n \notin handed}
          = IF firstNoPop = End THEN {} ELSE {n \in time : n >= firstNoPop}
    BY DEF PopsInOrder
  <2>2. CASE firstNoPop # m
    BY <1>1, <2>1, <2>2
  <2>3. CASE firstNoPop = m
    <3>1. m # End
      BY TimeIsNumbers DEF End
    <3>2. {n \in time' : n \notin handed'} = {n \in time : n >= m} \ {m}
      BY <1>1, <2>1, <2>3, <3>1
    <3>3. {n \in time : n >= m} \ {m} = {n \in time : n > m}
      <4>1. ASSUME NEW n \in time PROVE n > m <=> n >= m /\ n # m
        <5>1. n \in Nat
          BY <1>3
        <5> QED BY <1>3, <5>1
      <4> QED BY <4>1
    <3>4. firstNoPop' = Following(m)
      BY <1>1, <2>3
    <3>5. CASE Following(m) = End
      BY <1>2, <3>2, <3>3, <3>4, <3>5
    <3>6. CASE Following(m) # End
      <4>1. {n \in time : n > m} = {n \in time : n >= Following(m)}
        BY <1>2, <3>6
      <4>2. m \notin {n \in time : n > m}
        BY <1>3
      <4>3. {n \in time' : n >= Following(m)} = {n \in time : n >= Following(m)}
        BY <1>1, <4>1, <4>2
      <4> QED BY <3>2, <3>3, <3>4, <3>6, <4>1, <4>3
    <3> QED BY <3>5, <3>6
  <2> QED BY <2>2, <2>3
<1> QED BY <1>5, <1>6, <1>7, <1>8 DEF PopsInOrder

\* A message is put at the end of the list.
LEMMA PushIInv ==
    ASSUME QueueIInv, push
    PROVE  QueueIInv'
<1> USE DEF QueueIInv
<1> DEFINE u == uniqId + 1
<1>1. /\ uniqId < MaxIds /\ uniqId' = u /\ time' = time \cup {u}
      /\ firstNoPop' = IF firstNoPop = End THEN u ELSE firstNoPop
      /\ poped' = poped /\ handed' = handed /\ horizon' = horizon /\ deadline' = deadline
  BY DEF push
<1>2. uniqId \in Nat /\ MaxIds \in Nat /\ u \in Nat /\ u # End
  BY TimeIsNumbers, TimeoutQueueAssumption DEF End
<1>3. 0..uniqId \subseteq 0..u /\ 1..uniqId \subseteq 1..u /\ u \in 0..MaxIds
      /\ u \in 1..u
  BY <1>1, <1>2
<1>4. \A n \in 1..uniqId : n < u /\ n \in Nat
  BY <1>2
<1> HIDE DEF u
<1>5. QueueTypeOK'
  BY <1>1, <1>3 DEF QueueTypeOK, NoPass
<1>6. u \notin handed /\ u \notin time
  BY <1>2, <1>4 DEF QueueTypeOK
<1>7. poped' = time' \cap handed'
  BY <1>1, <1>6 DEF PopsInOrder
<1>8. \A n \in time' \ handed', h \in handed' : h < n
  BY <1>1, <1>4 DEF PopsInOrder, QueueTypeOK
<1>9. {n \in time' : n \notin handed'}
        = IF firstNoPop' = End THEN {} ELSE {n \in time' : n >= firstNoPop'}
  <2>1. {n \in time : n \notin handed}
          = IF firstNoPop = End THEN {} ELSE {n \in time : n >= firstNoPop}
    BY DEF PopsInOrder
  <2>2. {n \in time' : n \notin handed'} = {n \in time : n \notin handed} \cup {u}
    BY <1>1, <1>6
  <2>3. CASE firstNoPop = End
    <3>1. \A n \in time : ~ (n >= u)
      BY <1>2, <1>4 DEF QueueTypeOK
    <3>2. u >= u
      BY <1>2
    <3>3. {n \in time' : n >= u} = {u}
      BY <1>1, <3>1, <3>2
    <3> QED BY <1>1, <1>2, <2>1, <2>2, <2>3, <3>3
  <2>4. CASE firstNoPop # End
    <3>1. firstNoPop \in 1..uniqId
      BY <2>4 DEF QueueTypeOK
    <3>2. u >= firstNoPop
      BY <1>2, <1>4, <3>1
    <3> QED BY <1>1, <2>1, <2>2, <2>4, <3>2
  <2> QED BY <2>3, <2>4
<1> QED BY <1>5, <1>7, <1>8, <1>9 DEF PopsInOrder

\* What pop and swap begin with is the first message not handed out.
LEMMA NextIsFirstNoPop ==
    ASSUME QueueIInv
    PROVE  NextToPop = firstNoPop
<1> USE DEF QueueIInv
<1>1. CASE time = {}
  BY <1>1 DEF NextToPop, QueueTypeOK
<1>2. CASE time # {}
  <2>1. Oldest(time) \in time /\ \A n \in time : Oldest(time) <= n
    BY <1>2, TimeIsNumbers, FrontIsOldest DEF Front
  <2>2. CASE Oldest(time) \in poped
    BY <1>2, <2>2 DEF NextToPop
  <2>3. CASE Oldest(time) \notin poped
    <3>1. Oldest(time) \in {n \in time : n \notin handed}
      BY <2>1, <2>3 DEF PopsInOrder
    <3>2. firstNoPop # End /\ Oldest(time) >= firstNoPop
      BY <3>1 DEF PopsInOrder
    <3>3. firstNoPop \in time /\ Oldest(time) <= firstNoPop
      BY <2>1, <3>2 DEF QueueTypeOK
    <3>4. Oldest(time) \in Nat /\ firstNoPop \in Nat
      BY <2>1, <3>3, TimeIsNumbers
    <3>5. Oldest(time) = firstNoPop
      BY <3>2, <3>3, <3>4
    <3> QED BY <1>2, <2>3, <3>5 DEF NextToPop
  <2> QED BY <2>2, <2>3
<1> QED BY <1>1, <1>2

\* Messages from the first one not handed out up to the last are handed out.
LEMMA HandOutIInv ==
    ASSUME QueueIInv, firstNoPop # End, NEW last \in time, last >= firstNoPop,
           HandOut({m \in time : m >= firstNoPop /\ m <= last}, last)
    PROVE  QueueIInv'
<1> USE DEF QueueIInv
<1> DEFINE out == {m \in time : m >= firstNoPop /\ m <= last}
<1>1. /\ poped' = poped \cup out /\ handed' = handed \cup out
      /\ firstNoPop' = Following(last)
      /\ uniqId' = uniqId /\ time' = time /\ horizon' = horizon /\ deadline' = deadline
  BY DEF HandOut
<1>2. /\ Following(last) \in time \cup {End}
      /\ {n \in time : n > last}
           = IF Following(last) = End THEN {} ELSE {n \in time : n >= Following(last)}
  BY FollowingIsNext
<1>3. firstNoPop \in time /\ firstNoPop \in Nat /\ last \in Nat /\ \A n \in time : n \in Nat
  BY TimeIsNumbers DEF QueueTypeOK
<1>4. QueueTypeOK'
  BY <1>1, <1>2 DEF QueueTypeOK, NoPass
<1>5. poped' = time' \cap handed'
  BY <1>1 DEF PopsInOrder
<1>6. {n \in time : n \notin handed} = {n \in time : n >= firstNoPop}
  BY DEF PopsInOrder
<1>7. ASSUME NEW n \in time PROVE n \notin handed' <=> n > last
  <2>1. n \notin handed <=> n >= firstNoPop
    BY <1>6
  <2>2. n \notin handed' <=> n >= firstNoPop /\ ~ (n >= firstNoPop /\ n <= last)
    BY <1>1, <2>1
  <2>3. n \in Nat
    BY <1>3
  <2> QED BY <1>3, <2>2, <2>3
<1>8. {n \in time' : n \notin handed'}
        = IF firstNoPop' = End THEN {} ELSE {n \in time' : n >= firstNoPop'}
  <2>1. {n \in time' : n \notin handed'} = {n \in time : n > last}
    BY <1>1, <1>7
  <2> QED BY <1>1, <1>2, <2>1
<1>9. ASSUME NEW n \in time' \ handed', NEW h \in handed' PROVE h < n
  <2>1. n \in time /\ n > last /\ n \in Nat /\ n \notin handed
    BY <1>1, <1>3, <1>7
  <2>2. CASE h \in handed
    BY <2>1, <2>2 DEF PopsInOrder
  <2>3. CASE h \in out
    <3>1. h \in Nat /\ h <= last
      BY <1>3, <2>3
    <3> QED BY <1>3, <2>1, <3>1
  <2> QED BY <1>1, <2>2, <2>3
<1> QED BY <1>4, <1>5, <1>8, <1>9 DEF PopsInOrder

\* pop hands out the first one.
LEMMA PopIInv ==
    ASSUME QueueIInv, pop
    PROVE  QueueIInv'
<1>1. firstNoPop # End /\ HandOut({firstNoPop}, firstNoPop)
  BY NextIsFirstNoPop DEF pop
<1>2. firstNoPop \in time
  BY <1>1 DEF QueueIInv, QueueTypeOK
<1>3. firstNoPop \in Nat /\ \A m \in time : m \in Nat
  BY <1>2, TimeIsNumbers DEF QueueIInv
<1>4. {m \in time : m >= firstNoPop /\ m <= firstNoPop} = {firstNoPop}
  <2>1. ASSUME NEW m \in time PROVE m >= firstNoPop /\ m <= firstNoPop <=> m = firstNoPop
    <3>1. m \in Nat
      BY <1>3
    <3> QED BY <1>3, <3>1
  <2> QED BY <1>2, <2>1
<1>5. firstNoPop >= firstNoPop
  BY <1>3
<1> QED BY <1>1, <1>2, <1>4, <1>5, HandOutIInv

\* swap hands out the rest.
LEMMA SwapIInv ==
    ASSUME QueueIInv, swap
    PROVE  QueueIInv'
<1>1. firstNoPop # End
  BY NextIsFirstNoPop DEF swap
<1>2. PICK last \in time : /\ \A m \in time : m <= last
                           /\ HandOut({m \in time : m >= firstNoPop}, last)
  BY NextIsFirstNoPop DEF swap
<1>3. {m \in time : m >= firstNoPop /\ m <= last} = {m \in time : m >= firstNoPop}
  BY <1>2
<1>4. firstNoPop \in time
  BY <1>1 DEF QueueIInv, QueueTypeOK
<1>5. firstNoPop \in Nat /\ last \in Nat /\ firstNoPop <= last
  BY <1>2, <1>4, TimeIsNumbers DEF QueueIInv
<1>6. last >= firstNoPop
  BY <1>5
<1> QED BY <1>1, <1>2, <1>3, <1>6, HandOutIInv

\* Every step keeps it.
LEMMA NextQueueIInv ==
    ASSUME QueueIInv, [QueueNext]_queueVars
    PROVE  QueueIInv'
<1>1. CASE push
  BY <1>1, PushIInv
<1>2. CASE pop
  BY <1>2, PopIInv
<1>3. CASE swap
  BY <1>3, SwapIInv
<1>4. ASSUME NEW m \in time, erase(m) PROVE QueueIInv'
  BY <1>4, RemoveIInv DEF erase
<1>5. CASE StartTimeout
  BY <1>5, QuietIInv DEF StartTimeout, QueueIInv, QueueTypeOK
<1>6. CASE TimeoutFront
  <2>1. /\ Front(time) \in 1..deadline /\ Remove(Front(time))
        /\ UNCHANGED <<uniqId, horizon, deadline, handed>>
    BY <1>6 DEF TimeoutFront
  <2>2. Front(time) \in time
    <3>1. Front(time) # End
      BY <2>1 DEF End
    <3> QED BY <3>1, FrontIsOldest, TimeIsNumbers DEF QueueIInv
  <2> QED BY <2>1, <2>2, RemoveIInv
<1>7. CASE FinishTimeout
  BY <1>7, QuietIInv DEF FinishTimeout, QueueIInv, QueueTypeOK
<1>8. CASE Age
  <2>1. uniqId \in Nat /\ horizon \in 0..uniqId /\ horizon < uniqId /\ horizon' = horizon + 1
    BY <1>8, TimeIsNumbers DEF Age, QueueIInv, QueueTypeOK
  <2>2. horizon' \in 0..uniqId
    BY <2>1
  <2> QED BY <1>8, <2>2, QuietIInv DEF Age, QueueIInv, QueueTypeOK
<1>9. CASE UNCHANGED queueVars
  BY <1>9, QuietIInv DEF queueVars, QueueIInv, QueueTypeOK
<1> QED BY <1>1, <1>2, <1>3, <1>4, <1>5, <1>6, <1>7, <1>8, <1>9 DEF QueueNext

-----------------------------------------------------------------------------
\* The messages that pop and swap have not handed out are always the end of the list,
\* from _firstNoPopIter on, and later than all they did, whatever is got, erased or
\* timed out in between: each is handed out once at most, and in their order.
THEOREM MessagesPopInOrder == QueueSpec => []PopsInOrder
<1>1. QueueInit => QueueIInv
  BY InitQueueIInv
<1>2. QueueIInv /\ [QueueNext]_queueVars => QueueIInv'
  BY NextQueueIInv
<1>3. QueueIInv => PopsInOrder
  BY DEF QueueIInv
<1> QED BY <1>1, <1>2, <1>3, PTL DEF QueueSpec

-----------------------------------------------------------------------------
(* The client                                                              *)

Unborn(r) == closes[r] = 0 /\ finals[r] = 0 /\ fd[r] = Invalid
Live(r) == closes[r] = 0 /\ finals[r] = 0 /\ fd[r] # Invalid
Ended(r) == closes[r] = 1 /\ finals[r] \in {0, 1} /\ fd[r] = Invalid

\* The requests made are numbered, and the sockets epoll has news of are open.
Numbers ==
    /\ uniqId <= MaxRequests
    /\ \A c \in Callers : issuing[c] # "idle" => added[c] \in 1..uniqId
    /\ \A f \in ready : Open(f)

\* The requests that are not in the hands of run.
Others ==
    \A r \in Requests :
        /\ r > uniqId => Unborn(r)
        /\ r \in time => Live(r)
        /\ r <= uniqId /\ r \notin time /\ r # current => Ended(r)

\* The one that is.
Hands ==
    /\ run \in {"none", "queued", "loop", "collect", "poll", "events", "done"} => current = 0
    /\ run \in {"receive", "send"} => current \in time
    /\ run = "close" => current \in 1..uniqId /\ Live(current)
    /\ run = "closefd" => /\ current \in 1..uniqId /\ current \notin time
                          /\ closes[current] = 1 /\ finals[current] = 0
    /\ run = "called" => current \in 1..uniqId /\ current \notin time /\ Ended(current)

\* What waitForAllDone has seen lasts.
Waits == program = "terminating" /\ ~limited /\ ~chained => time = {}

IInv == TypeOK /\ PopsInOrder /\ Numbers /\ Others /\ Hands /\ Waits

-----------------------------------------------------------------------------
(* Facts about the numbers                                                 *)

\* What is made is a request.
LEMMA MadeAreRequests ==
    ASSUME TypeOK, Numbers
    PROVE  /\ uniqId \in Nat /\ MaxRequests \in Nat /\ MaxIds \in Nat
           /\ 1..uniqId \subseteq Requests /\ Requests \subseteq 1..MaxIds
           /\ time \subseteq Requests
           /\ 0 \notin Requests /\ uniqId + 1 \notin 1..uniqId
<1>1. uniqId \in Nat /\ MaxRequests \in Nat /\ MaxIds \in Nat /\ uniqId <= MaxRequests
      /\ MaxRequests <= MaxIds
  BY TimeoutQueueAssumption, HttpAsyncAssumption DEF TypeOK, QueueTypeOK, Numbers
<1>2. 1..uniqId \subseteq 1..MaxRequests /\ 1..MaxRequests \subseteq 1..MaxIds
      /\ 0 \notin 1..MaxRequests /\ uniqId + 1 \notin 1..uniqId
  BY <1>1
<1> QED BY <1>1, <1>2 DEF Requests, TypeOK, QueueTypeOK

\* A message that leaves the queue is all that leaves it.
LEMMA EraseTakes ==
    ASSUME NEW m, erase(m)
    PROVE  time' = time \ {m} /\ uniqId' = uniqId
  BY DEF erase, Remove

\* What the timeout takes is a request in the queue.
LEMMA TimeoutTakes ==
    ASSUME QueueTypeOK, TimeoutFront
    PROVE  Front(time) \in time /\ time' = time \ {Front(time)} /\ uniqId' = uniqId
<1>1. Front(time) # End
  BY DEF TimeoutFront, End
<1> QED BY <1>1, FrontIsOldest, TimeIsNumbers DEF TimeoutFront, Remove

\* A step of the client is a step of the queue, or none.
LEMMA StepOfQueue ==
    ASSUME IInv, [Next]_vars
    PROVE  [QueueNext]_queueVars
<1>1. CASE \E c \in Callers : Submit(c) \/ GetFd(c) \/ Add(c)
  BY <1>1 DEF Submit, GetFd, Add, QueueNext
<1>2. CASE Collect
  BY <1>2 DEF Collect, QueueNext
<1>3. CASE Close
  <2>1. CASE UNCHANGED queueVars
    BY <2>1
  <2>2. CASE erase(current)
    <3>1. CASE current \in time
      BY <2>2, <3>1 DEF QueueNext
    <3>2. CASE current \notin time
      BY <2>2, <3>2 DEF erase, queueVars
    <3> QED BY <3>1, <3>2
  <2> QED BY <1>3, <2>1, <2>2 DEF Close
<1>4. CASE LoopTimeout
  BY <1>4 DEF LoopTimeout, QueueNext
<1>5. CASE Clock
  BY <1>5 DEF Clock, QueueNext
<1>6. CASE \E r \in Requests : Peer(r)
  BY <1>6 DEF Peer, Becomes
<1>7. CASE start \/ Begin \/ LoopEnds \/ Poll \/ NextEvent \/ NoMoreEvents
  BY <1>7 DEF start, Begin, LoopEnds, Poll, NextEvent, NoMoreEvents
<1>8. CASE Receive \/ Send \/ CloseFd \/ CallReturns
  BY <1>8 DEF Receive, Send, CloseFd, CallReturns
<1>9. CASE CallWait \/ Terminate \/ Return
  BY <1>9 DEF CallWait, Terminate, Return
<1>10. CASE UNCHANGED vars
  BY <1>10 DEF vars
<1> QED BY <1>1, <1>2, <1>3, <1>4, <1>5, <1>6, <1>7, <1>8, <1>9, <1>10 DEF Next, Network

\* The queue keeps its own invariant.
LEMMA QueueKept ==
    ASSUME IInv, [Next]_vars
    PROVE  QueueTypeOK' /\ PopsInOrder'
<1>1. QueueIInv
  BY DEF IInv, TypeOK, QueueIInv
<1>2. QueueIInv'
  BY <1>1, StepOfQueue, NextQueueIInv
<1> QED BY <1>2 DEF QueueIInv

-----------------------------------------------------------------------------
(* The beginning                                                           *)

\* No request is made.
LEMMA InitIInv == Init => IInv
<1> SUFFICES ASSUME Init PROVE IInv
  OBVIOUS
<1>1. QueueTypeOK /\ PopsInOrder /\ uniqId = 0 /\ time = {}
  BY InitQueueIInv DEF Init, QueueIInv, QueueInit
<1>2. MaxRequests \in Nat /\ MaxIds \in Nat /\ 0 \in 0..MaxIds
  BY TimeoutQueueAssumption, HttpAsyncAssumption
<1>3. TypeOK
  <2>1. /\ fd \in [Requests -> Fds \cup {Invalid}] /\ conn \in [Requests -> Stages]
        /\ closes \in [Requests -> 0..2] /\ finals \in [Requests -> 0..2]
    BY DEF Init, Stages
  <2>2. registered \in [Fds -> 0..MaxIds] /\ ready \subseteq Fds
    BY <1>2 DEF Init
  <2>3. /\ issuing \in [Callers -> {"idle", "getfd", "add"}]
        /\ added \in [Callers -> 0..MaxIds] /\ addFd \in [Callers -> Fds \cup {Invalid}]
    BY <1>2 DEF Init
  <2> QED BY <1>1, <1>2, <2>1, <2>2, <2>3 DEF Init, TypeOK
<1>4. Numbers
  BY <1>1, <1>2 DEF Init, Numbers
<1>5. Others
  <2>1. ASSUME NEW r \in Requests PROVE Unborn(r) /\ ~ (r <= uniqId)
    BY <1>1, <1>2 DEF Init, Unborn, Requests
  <2> QED BY <1>1, <2>1 DEF Others
<1>6. Hands
  BY DEF Init, Hands
<1>7. Waits
  BY DEF Init, Waits
<1> QED BY <1>1, <1>3, <1>4, <1>5, <1>6, <1>7 DEF IInv

-----------------------------------------------------------------------------
(* The types                                                               *)

\* The types of what is not the queue.
RestTypeOK ==
    /\ fd \in [Requests -> Fds \cup {Invalid}] /\ conn \in [Requests -> Stages]
    /\ registered \in [Fds -> 0..MaxIds] /\ ready \subseteq Fds
    /\ issuing \in [Callers -> {"idle", "getfd", "add"}]
    /\ added \in [Callers -> 0..MaxIds] /\ addFd \in [Callers -> Fds \cup {Invalid}]
    /\ run \in {"none", "queued", "loop", "collect", "poll", "events", "receive", "send",
                "close", "closefd", "called", "done"}
    /\ batch \subseteq [id : 0..MaxIds, fd : Fds, events : SUBSET {"in", "out", "err"}]
    /\ current \in 0..MaxIds
    /\ outcome \in {"none", "response", "timeout", "exception"}
    /\ terminate \in BOOLEAN
    /\ program \in {"idle", "waiting", "terminating"} /\ limited \in BOOLEAN
    /\ closes \in [Requests -> 0..2] /\ finals \in [Requests -> 0..2]
    /\ failed \subseteq Requests /\ chained \in BOOLEAN

\* A socket that is open has an owner.
LEMMA OwnerIsRequest ==
    ASSUME NEW f, Open(f)
    PROVE  Owner(f) \in Requests /\ fd[Owner(f)] = f
  BY DEF Open, Owner

\* Every step keeps the types.
LEMMA TypeKept ==
    ASSUME IInv, [Next]_vars
    PROVE  TypeOK'
<1> SUFFICES RestTypeOK'
  BY QueueKept DEF RestTypeOK, TypeOK, Requests, Stages, Callers
<1>1. RestTypeOK
  BY DEF IInv, TypeOK, RestTypeOK
<1>2. /\ uniqId \in Nat /\ 1..uniqId \subseteq Requests /\ Requests \subseteq 1..MaxIds
      /\ time \subseteq Requests /\ 0 \in 0..MaxIds /\ 1..MaxIds \subseteq 0..MaxIds
  BY MadeAreRequests DEF IInv
<1>3. ASSUME NEW c \in Callers, Submit(c) PROVE RestTypeOK'
  <2>1. uniqId + 1 \in Requests /\ uniqId + 1 \in 0..MaxIds
    BY <1>2, <1>3, MadeAreRequests DEF Submit, Requests, IInv
  <2>2. PICK f \in Fds : fd' = [fd EXCEPT ![uniqId + 1] = f]
    BY <1>3 DEF Submit
  <2>3. /\ conn' = [conn EXCEPT ![uniqId + 1] = "connecting"]
        /\ issuing' = [issuing EXCEPT ![c] = "getfd"]
        /\ added' = [added EXCEPT ![c] = uniqId + 1]
        /\ chained' \in BOOLEAN
        /\ UNCHANGED <<registered, ready, addFd, working, terminate, waiting,
                       closes, finals, failed>>
    BY <1>1, <1>3 DEF Submit, RestTypeOK
  <2>4. fd' \in [Requests -> Fds \cup {Invalid}] /\ conn' \in [Requests -> Stages]
    BY <1>1, <2>2, <2>3 DEF RestTypeOK, Stages
  <2>5. /\ issuing' \in [Callers -> {"idle", "getfd", "add"}]
        /\ added' \in [Callers -> 0..MaxIds]
    BY <1>1, <2>1, <2>3 DEF RestTypeOK
  <2> QED BY <1>1, <2>3, <2>4, <2>5 DEF RestTypeOK, working, waiting
<1>4. ASSUME NEW c \in Callers, GetFd(c) PROVE RestTypeOK'
  <2>1. added[c] \in Requests
    BY <1>2, <1>4 DEF GetFd, IInv, Numbers
  <2> QED BY <1>1, <1>4, <2>1 DEF GetFd, RestTypeOK, connections, working, waiting, history
<1>5. ASSUME NEW c \in Callers, Add(c) PROVE RestTypeOK'
  <2>1. /\ registered' \in [Fds -> 0..MaxIds] /\ ready' \subseteq Fds
    BY <1>1, <1>5 DEF Add, RestTypeOK
  <2>2. /\ issuing' \in [Callers -> {"idle", "getfd", "add"}]
        /\ added' \in [Callers -> 0..MaxIds] /\ addFd' \in [Callers -> Fds \cup {Invalid}]
    BY <1>1, <1>2, <1>5 DEF Add, RestTypeOK
  <2> QED BY <1>1, <1>5, <2>1, <2>2 DEF Add, RestTypeOK, working, waiting, history
<1>6. ASSUME NEW r \in Requests, Peer(r) PROVE RestTypeOK'
  <2>1. ASSUME NEW stages, NEW stage \in Stages, Becomes(r, stages, stage) PROVE RestTypeOK'
    <3>1. fd[r] \in Fds
      BY <1>1, <2>1 DEF Becomes, RestTypeOK
    <3> QED BY <1>1, <2>1, <3>1 DEF Becomes, RestTypeOK, issue, working, waiting, history
  <2> QED BY <1>6, <2>1 DEF Peer, Stages
<1>7. CASE start \/ Begin \/ LoopEnds \/ LoopTimeout \/ NoMoreEvents
  BY <1>1, <1>7 DEF start, Begin, LoopEnds, LoopTimeout, NoMoreEvents, Goto, RestTypeOK,
                    connections, issue, waiting, history
<1>8. CASE Collect
  <2>1. current' \in 0..MaxIds
    BY <1>1, <1>2, <1>8, TimeoutTakes DEF Collect, RestTypeOK, IInv, TypeOK
  <2> QED BY <1>1, <1>8, <2>1 DEF Collect, Goto, RestTypeOK, connections, issue, waiting,
                                  history
<1>9. CASE Poll
  <2>1. \A f \in ready : /\ f \in Fds /\ registered[f] \in 0..MaxIds
                         /\ conn[Owner(f)] \in Stages
    BY <1>1, OwnerIsRequest DEF IInv, Numbers, RestTypeOK
  <2>2. \A stage \in Stages : Readiness(stage) \in SUBSET {"in", "out", "err"}
    BY DEF Stages, Readiness
  <2>3. batch' \subseteq [id : 0..MaxIds, fd : Fds, events : SUBSET {"in", "out", "err"}]
    <3> HIDE DEF Stages
    <3> QED BY <1>9, <2>1, <2>2 DEF Poll
  <2>4. ready' = {} /\ run' = "events"
        /\ UNCHANGED <<fd, conn, registered, issue, current, outcome, terminate, waiting,
                       history>>
    BY <1>9 DEF Poll, Goto
  <2> QED BY <1>1, <2>3, <2>4 DEF RestTypeOK, issue, waiting, history
<1>10. CASE NextEvent
  BY <1>1, <1>2, <1>10 DEF NextEvent, Goto, RestTypeOK, connections, issue, waiting, history
<1>11. CASE Receive
  <2>1. current \in Requests
    BY <1>2, <1>11 DEF Receive, IInv, Hands
  <2> QED BY <1>1, <1>11, <2>1 DEF Receive, AfterReceive, CloseWith, Goto, RestTypeOK,
                                   connections, issue, waiting
<1>12. CASE Send
  <2>1. conn' \in [Requests -> Stages]
    BY <1>1, <1>12 DEF Send, RestTypeOK, Stages
  <2>2. run' \in {"close", "events"} /\ current' \in {current, 0}
        /\ outcome' \in {outcome, "exception"}
        /\ UNCHANGED <<fd, registered, ready, issue, batch, terminate, waiting, history>>
    BY <1>12 DEF Send, CloseWith, Goto
  <2> QED BY <1>1, <1>2, <2>1, <2>2 DEF RestTypeOK, issue, waiting, history
<1>13. CASE Close
  <2>1. closes' \in [Requests -> 0..2]
    <3>1. \A n \in 0..2 : Count(n) \in 0..2
      BY DEF Count
    <3> QED BY <1>1, <1>13, <3>1 DEF Close, RestTypeOK
  <2>2. run' = "closefd"
        /\ UNCHANGED <<connections, issue, batch, current, outcome, terminate, waiting,
                       finals, failed, chained>>
    BY <1>13 DEF Close, Goto
  <2> QED BY <1>1, <2>1, <2>2 DEF RestTypeOK, connections, issue, waiting
<1>14. CASE CloseFd
  <2>1. finals' \in [Requests -> 0..2]
    <3>1. \A n \in 0..2 : Count(n) \in 0..2
      BY DEF Count
    <3> QED BY <1>1, <1>14, <3>1 DEF CloseFd, RestTypeOK
  <2>2. /\ fd' \in [Requests -> Fds \cup {Invalid}] /\ registered' \in [Fds -> 0..MaxIds]
        /\ ready' \subseteq Fds
    BY <1>1, <1>2, <1>14 DEF CloseFd, RestTypeOK
  <2>3. run' = "called"
        /\ UNCHANGED <<conn, issue, batch, current, outcome, terminate, waiting,
                       closes, failed, chained>>
    BY <1>14 DEF CloseFd, Goto
  <2> QED BY <1>1, <2>1, <2>2, <2>3 DEF RestTypeOK, issue, waiting
<1>15. CASE CallReturns
  BY <1>1, <1>2, <1>15 DEF CallReturns, Goto, RestTypeOK, connections, issue, waiting, history
<1>16. CASE CallWait \/ Terminate \/ Return
  BY <1>1, <1>16 DEF CallWait, Terminate, Return, RestTypeOK, connections, issue, working,
                     history
<1>17. CASE Clock \/ UNCHANGED vars
  BY <1>1, <1>17 DEF Clock, vars, RestTypeOK, connections, issue, working, waiting, history
<1> QED BY <1>3, <1>4, <1>5, <1>6, <1>7, <1>8, <1>9, <1>10, <1>11, <1>12, <1>13, <1>14,
           <1>15, <1>16, <1>17 DEF Next, Network

-----------------------------------------------------------------------------
(* The requests                                                            *)

\* A step of the thread of run, of the program or of the network that neither makes a
\* request nor takes one out of the queue, closes it or calls it back.
Uneventful == UNCHANGED <<uniqId, time, fd, closes, finals>>

\* Such a step only moves the requests in and out of the hands of run.
LEMMA OthersKept ==
    ASSUME IInv, Uneventful,
           current' = current \/ current \in time \/ current \notin Requests
    PROVE  Others'
<1>1. Others /\ (current' = current \/ current \in time \/ current \notin Requests)
  BY DEF IInv
<1> QED BY <1>1 DEF Uneventful, IInv, Others, Unborn, Live, Ended

\* The numbers after a step that adds nothing to the queue.
LEMMA NumbersKept ==
    ASSUME IInv, UNCHANGED <<uniqId, issuing, added, fd>>, \A f \in ready' : Open(f)
    PROVE  Numbers'
  BY DEF IInv, Numbers, Open

\* doAsyncRequest.
LEMMA SubmitKept ==
    ASSUME IInv, NEW c \in Callers, Submit(c)
    PROVE  Numbers' /\ Others' /\ Hands' /\ Waits'
<1>r. PICK r : r = uniqId + 1
  OBVIOUS
<1>1. /\ uniqId \in Nat /\ MaxRequests \in Nat /\ uniqId < MaxRequests
      /\ 1..uniqId \subseteq Requests /\ time \subseteq 1..uniqId
  BY MadeAreRequests DEF IInv, Submit, TypeOK, QueueTypeOK
<1>2. /\ r \in Requests /\ r \notin 1..uniqId /\ r > uniqId /\ 1..r = 1..uniqId \cup {r}
      /\ r <= MaxRequests
  BY <1>1, <1>r DEF Requests
<1>3. PICK f \in Fds : fd' = [fd EXCEPT ![r] = f]
  BY <1>r DEF Submit
<1>4. /\ uniqId' = r /\ time' = time \cup {r}
      /\ issuing' = [issuing EXCEPT ![c] = "getfd"] /\ added' = [added EXCEPT ![c] = r]
      /\ UNCHANGED <<ready, run, current, program, limited, closes, finals>>
      /\ chained' = (chained \/ c = "callback")
  BY <1>r DEF Submit, push, working, waiting
<1>5. /\ fd \in [Requests -> Fds \cup {Invalid}]
      /\ issuing \in [Callers -> {"idle", "getfd", "add"}] /\ added \in [Callers -> 0..MaxIds]
  BY DEF IInv, TypeOK
<1>6. f # Invalid
  BY HttpAsyncAssumption
<1>7. Unborn(r)
  BY <1>2 DEF IInv, Others
<1>8. fd'[r] = f /\ \A q \in Requests : q # r => fd'[q] = fd[q]
  BY <1>2, <1>3, <1>5
<1>9. Live(r)'
  BY <1>4, <1>6, <1>7, <1>8 DEF Live, Unborn
<1>10. ASSUME NEW q \in Requests, q # r
       PROVE  Live(q)' = Live(q) /\ Ended(q)' = Ended(q) /\ Unborn(q)' = Unborn(q)
  BY <1>4, <1>8, <1>10 DEF Live, Ended, Unborn
<1>11. Numbers'
  <2>1. \A g \in ready' : Open(g)'
    <3>1. ASSUME NEW g \in ready PROVE \E q \in Requests : fd'[q] = g
      <4>1. PICK q \in Requests : fd[q] = g
        BY DEF IInv, Numbers, Open
      <4>2. g # Invalid
        BY HttpAsyncAssumption DEF IInv, TypeOK
      <4>3. q # r
        BY <1>7, <4>1, <4>2 DEF Unborn
      <4> QED BY <1>8, <4>1, <4>3
    <3> QED BY <1>4, <3>1 DEF Open
  <2>2. ASSUME NEW d \in Callers, issuing'[d] # "idle" PROVE added'[d] \in 1..uniqId'
    BY <1>2, <1>4, <1>5, <2>2 DEF IInv, Numbers
  <2> QED BY <1>2, <1>4, <2>1, <2>2 DEF Numbers
<1>12. Others'
  <2>1. ASSUME NEW q \in Requests
        PROVE  /\ q > r => Unborn(q)'
               /\ q \in time' => Live(q)'
               /\ q <= r /\ q \notin time' /\ q # current' => Ended(q)'
    <3>1. CASE q = r
      <4>1. ~ (r > r)
        BY <1>1, <1>r
      <4> QED BY <1>4, <1>9, <3>1, <4>1
    <3>2. CASE q # r
      <4>1. q \in Nat
        BY DEF Requests
      <4>2. (q > r => q > uniqId) /\ (q <= r => q <= uniqId)
        BY <1>1, <1>r, <3>2, <4>1
      <4> QED BY <1>4, <1>10, <3>2, <4>2 DEF IInv, Others
    <3> QED BY <3>1, <3>2
  <2> QED BY <1>4, <2>1 DEF Others
<1>13. Hands'
  <2>1. current \in 1..uniqId => current # r /\ current \in Requests /\ current \in 1..r
    BY <1>1, <1>2
  <2>2. time \subseteq 1..uniqId
    BY <1>1
  <2> QED BY <1>4, <1>10, <2>1, <2>2 DEF IInv, Hands
<1>14. Waits'
  BY <1>4 DEF IInv, Waits, Submit, Callers
<1> QED BY <1>11, <1>12, <1>13, <1>14

\* The other steps of those who add a request, and the network.
LEMMA OutsideKept ==
    ASSUME IInv, NEW c \in Callers, NEW r \in Requests, GetFd(c) \/ Add(c) \/ Peer(r)
    PROVE  Numbers' /\ Others' /\ Hands' /\ Waits'
<1>1. /\ UNCHANGED <<uniqId, time, fd, run, current, program, limited, chained, closes, finals>>
  BY DEF GetFd, Add, Peer, Becomes, queueVars, connections, working, waiting, history
<1>2. Others' /\ Hands' /\ Waits'
  BY <1>1, OthersKept DEF Uneventful, IInv, Hands, Waits, Live, Ended
<1>3. \A d \in Callers : issuing'[d] # "idle" => issuing[d] # "idle" /\ added'[d] = added[d]
  BY DEF GetFd, Add, Peer, Becomes, issue, IInv, TypeOK
<1>4. \A f \in ready' : Open(f)
  <2>1. Open(fd[r])
    BY DEF Open
  <2> QED BY <2>1 DEF GetFd, Add, Peer, Becomes, connections, IInv, Numbers
<1> QED BY <1>1, <1>2, <1>3, <1>4 DEF IInv, Numbers, Open

\* The steps of run between the ends of requests.
LEMMA RunKept ==
    ASSUME IInv,
           \/ start \/ Begin \/ LoopEnds \/ LoopTimeout \/ Poll \/ NextEvent \/ NoMoreEvents
           \/ Receive \/ Send
    PROVE  Numbers' /\ Others' /\ Hands' /\ Waits'
<1>1. UNCHANGED <<uniqId, time, fd, issuing, added, program, limited, closes, finals, chained>>
  BY DEF start, Begin, LoopEnds, LoopTimeout, StartTimeout, Poll, NextEvent, NoMoreEvents,
         Receive, Send, queueVars, connections, issue, waiting, history
<1>2. ready' \subseteq ready
  BY DEF start, Begin, LoopEnds, LoopTimeout, Poll, NextEvent, NoMoreEvents, Receive, Send,
         connections
<1>3. /\ uniqId \in Nat /\ 0 \notin Requests /\ time \subseteq Requests
      /\ time \subseteq 1..uniqId
  BY MadeAreRequests DEF IInv, TypeOK, QueueTypeOK
<1>4. Numbers' /\ Waits'
  BY <1>1, <1>2, NumbersKept DEF IInv, Numbers, Waits
<1>5. current' = current \/ current \in time \/ current \notin Requests
  BY <1>3 DEF start, Begin, LoopEnds, LoopTimeout, Poll, NextEvent, NoMoreEvents,
              Receive, Send, AfterReceive, CloseWith, IInv, Hands
<1>6. Others'
  BY <1>1, <1>5, OthersKept DEF Uneventful
<1>7. Hands'
  <2>1. CASE start \/ Begin \/ LoopEnds \/ LoopTimeout \/ Poll \/ NoMoreEvents
    <3>1. /\ run' \in {"none", "queued", "loop", "collect", "poll", "events", "done"}
          /\ current' = current /\ current = 0
      BY <2>1 DEF start, Begin, LoopEnds, LoopTimeout, Poll, NoMoreEvents, Goto, IInv, Hands
    <3> QED BY <3>1 DEF Hands
  <2>2. CASE NextEvent
    <3>1. PICK e \in batch :
             IF e.id \notin time THEN UNCHANGED <<run, current, outcome>>
             ELSE /\ current' = e.id
                  /\ run' \in {"close", "receive", "send"}
      BY <2>2 DEF NextEvent, Goto
    <3>2. CASE e.id \notin time
      BY <1>1, <3>1, <3>2, <2>2 DEF NextEvent, IInv, Hands
    <3>3. CASE e.id \in time
      <4>1. Live(e.id)
        BY <1>3, <3>3 DEF IInv, Others
      <4>2. e.id \in 1..uniqId /\ Live(current)'
        BY <1>1, <1>3, <3>1, <3>3, <4>1 DEF Live
      <4> QED BY <1>1, <3>1, <3>3, <4>2 DEF Hands
    <3> QED BY <3>2, <3>3
  <2>3. CASE Receive \/ Send
    <3>1. /\ current \in time
          /\ \/ run' \in {"close", "send"} /\ current' = current
             \/ run' = "events" /\ current' = 0
      BY <2>3 DEF Receive, Send, AfterReceive, CloseWith, Goto, IInv, Hands
    <3>2. Live(current) /\ current \in 1..uniqId
      BY <1>3, <3>1 DEF IInv, Others
    <3>3. current' = current => Live(current)'
      BY <1>1, <3>2 DEF Live
    <3> QED BY <1>1, <3>1, <3>2, <3>3 DEF Hands
  <2> QED BY <2>1, <2>2, <2>3
<1> QED BY <1>4, <1>6, <1>7

\* timeout(df).
LEMMA CollectKept ==
    ASSUME IInv, Collect
    PROVE  Numbers' /\ Others' /\ Hands' /\ Waits'
<1>1. /\ UNCHANGED <<fd, ready, issuing, added, program, limited, closes, finals, chained>>
      /\ current = 0
  BY DEF Collect, connections, issue, waiting, history, IInv, Hands
<1>2. /\ uniqId \in Nat /\ 0 \notin Requests /\ time \subseteq Requests
      /\ time \subseteq 1..uniqId
  BY MadeAreRequests DEF IInv, TypeOK, QueueTypeOK
<1>3. CASE TimeoutFront /\ current' = Front(time) /\ run' = "close"
  <2>1. PICK r \in time : r = Front(time) /\ time' = time \ {r} /\ uniqId' = uniqId
    BY <1>3, TimeoutTakes DEF IInv, TypeOK
  <2>2. Live(r) /\ r \in 1..uniqId
    BY <1>2 DEF IInv, Others
  <2>3. Live(r)'
    BY <1>1, <2>2 DEF Live
  <2>4. Numbers' /\ Waits'
    BY <1>1, <2>1, NumbersKept DEF IInv, Numbers, Waits
  <2>5. Hands'
    <3>1. current' = r
      BY <1>3, <2>1
    <3>2. Live(current)'
      BY <2>3, <3>1 DEF Live
    <3> QED BY <1>3, <2>1, <2>2, <3>1, <3>2 DEF Hands
  <2>6. Others'
    BY <1>1, <1>2, <1>3, <2>1 DEF IInv, Others, Unborn, Live, Ended
  <2> QED BY <2>4, <2>5, <2>6
<1>4. CASE FinishTimeout /\ run' = "poll" /\ UNCHANGED <<current, outcome>>
  <2>1. Uneventful
    BY <1>1, <1>4 DEF FinishTimeout, Uneventful
  <2>2. Numbers' /\ Waits' /\ Hands'
    BY <1>1, <1>4, <2>1, NumbersKept DEF IInv, Numbers, Waits, Hands, Uneventful
  <2> QED BY <1>4, <2>1, <2>2, OthersKept
<1> QED BY <1>3, <1>4 DEF Collect, Goto

\* doClose calls onClose and takes the request out of the queue.
LEMMA CloseKept ==
    ASSUME IInv, Close
    PROVE  Numbers' /\ Others' /\ Hands' /\ Waits'
<1>1. current \in 1..uniqId /\ Live(current)
  BY DEF Close, IInv, Hands
<1>2. /\ closes' = [closes EXCEPT ![current] = Count(@)] /\ erase(current)
      /\ run' = "closefd" /\ current' = current
      /\ UNCHANGED <<fd, ready, issuing, added, program, limited, finals, chained>>
  BY <1>1 DEF Close, Goto, Live, connections, issue, waiting
<1>3. time' = time \ {current} /\ uniqId' = uniqId
  BY <1>2, EraseTakes
<1>4. current \in Requests /\ closes \in [Requests -> 0..2]
  BY <1>1, MadeAreRequests DEF IInv, TypeOK
<1>5. closes'[current] = 1 /\ \A r \in Requests : r # current => closes'[r] = closes[r]
  BY <1>1, <1>2, <1>4 DEF Count, Live
<1>6. Numbers' /\ Waits'
  BY <1>2, <1>3, NumbersKept DEF IInv, Numbers, Waits
<1>7. Hands'
  BY <1>1, <1>2, <1>3, <1>5 DEF Hands, Live
<1>8. Others'
  <2>1. ASSUME NEW r \in Requests, r # current
        PROVE  /\ r > uniqId' => Unborn(r)'
               /\ r \in time' => Live(r)'
               /\ r <= uniqId' /\ r \notin time' => Ended(r)'
    BY <1>2, <1>3, <1>5, <2>1 DEF IInv, Others, Unborn, Live, Ended
  <2>2. current \notin time' /\ ~ (current > uniqId')
    <3>1. uniqId \in Nat
      BY MadeAreRequests DEF IInv
    <3>2. ~ (current > uniqId)
      BY <1>1, <3>1
    <3> QED BY <1>1, <1>3, <3>2
  <2> QED BY <1>2, <2>1, <2>2 DEF Others
<1> QED BY <1>6, <1>7, <1>8

\* doClose closes the socket, and the last callback is called.
LEMMA CloseFdKept ==
    ASSUME IInv, CloseFd
    PROVE  Numbers' /\ Others' /\ Hands' /\ Waits'
<1>1. /\ current \in 1..uniqId /\ current \notin time
      /\ closes[current] = 1 /\ finals[current] = 0
  BY DEF CloseFd, IInv, Hands
<1>2. /\ fd' = [fd EXCEPT ![current] = Invalid]
      /\ ready' = ready \ {fd[current]}
      /\ finals' = IF outcome = "none" THEN finals ELSE [finals EXCEPT ![current] = Count(@)]
      /\ run' = "called" /\ current' = current
      /\ UNCHANGED <<uniqId, time, issuing, added, program, limited, closes, chained>>
  BY DEF CloseFd, Goto, queueVars, issue, waiting
<1>3. /\ current \in Requests /\ finals \in [Requests -> 0..2]
      /\ fd \in [Requests -> Fds \cup {Invalid}]
  BY <1>1, MadeAreRequests DEF IInv, TypeOK
<1>4. /\ finals'[current] \in {0, 1} /\ fd'[current] = Invalid
      /\ \A r \in Requests : r # current => finals'[r] = finals[r] /\ fd'[r] = fd[r]
  BY <1>1, <1>2, <1>3 DEF Count
<1>5. Numbers'
  <2>1. ASSUME NEW f \in ready' PROVE \E r \in Requests : fd'[r] = f
    BY <1>2, <1>4 DEF IInv, Numbers, Open
  <2> QED BY <1>2, <2>1 DEF IInv, Numbers, Open
<1>6. Waits'
  BY <1>2 DEF IInv, Waits
<1>7. Ended(current)'
  BY <1>1, <1>2, <1>4 DEF Ended
<1>8. Hands'
  BY <1>1, <1>2, <1>7 DEF Hands
<1>9. Others'
  <2>1. ASSUME NEW r \in Requests, r # current
        PROVE  /\ r > uniqId' => Unborn(r)'
               /\ r \in time' => Live(r)'
               /\ r <= uniqId' /\ r \notin time' => Ended(r)'
    BY <1>2, <1>4, <2>1 DEF IInv, Others, Unborn, Live, Ended
  <2>2. current \notin time' /\ ~ (current > uniqId')
    <3>1. uniqId \in Nat
      BY MadeAreRequests DEF IInv
    <3>2. ~ (current > uniqId)
      BY <1>1, <3>1
    <3> QED BY <1>1, <1>2, <3>2
  <2> QED BY <1>2, <2>1, <2>2 DEF Others
<1> QED BY <1>5, <1>6, <1>8, <1>9

\* The callback returns.
LEMMA CallReturnsKept ==
    ASSUME IInv, CallReturns
    PROVE  Numbers' /\ Others' /\ Hands' /\ Waits'
<1>1. /\ current \in 1..uniqId /\ current \notin time /\ Ended(current)
  BY DEF CallReturns, IInv, Hands
<1>2. /\ run' \in {"collect", "events"} /\ current' = 0
      /\ UNCHANGED <<uniqId, time, fd, ready, issuing, added, program, limited, closes, finals,
                     chained>>
  BY DEF CallReturns, Goto, queueVars, connections, issue, waiting, history
<1>3. Numbers' /\ Waits' /\ Hands'
  BY <1>2, NumbersKept DEF IInv, Numbers, Waits, Hands
<1>4. Others'
  BY <1>1, <1>2 DEF IInv, Others, Unborn, Live, Ended
<1> QED BY <1>3, <1>4

\* waitForAllDone, and time.
LEMMA WaitingKept ==
    ASSUME IInv, CallWait \/ Terminate \/ Return \/ Clock \/ UNCHANGED vars
    PROVE  Numbers' /\ Others' /\ Hands' /\ Waits'
<1>1. UNCHANGED <<uniqId, time, fd, ready, issuing, added, run, current, closes, finals, chained>>
  BY DEF CallWait, Terminate, Return, Clock, Age, vars, queueVars, connections, issue, working,
         history
<1>2. Numbers' /\ Others' /\ Hands'
  BY <1>1, NumbersKept, OthersKept DEF Uneventful, IInv, Numbers, Hands, Live, Ended
<1>3. Waits'
  BY <1>1 DEF CallWait, Terminate, Return, Clock, vars, waiting, IInv, Waits
<1> QED BY <1>2, <1>3

-----------------------------------------------------------------------------
(* The theorems                                                            *)

\* Every step keeps the invariant.
LEMMA NextIInv ==
    ASSUME IInv, [Next]_vars
    PROVE  IInv'
<1>1. TypeOK' /\ PopsInOrder'
  BY TypeKept, QueueKept
<1>2. Numbers' /\ Others' /\ Hands' /\ Waits'
  <2>1. ASSUME NEW c \in Callers, Submit(c) \/ GetFd(c) \/ Add(c)
        PROVE  Numbers' /\ Others' /\ Hands' /\ Waits'
    <3>1. CASE Submit(c)
      BY <3>1, SubmitKept
    <3>2. CASE GetFd(c) \/ Add(c)
      <4>1. 1 \in Requests
        <5>1. MaxRequests >= 1
          <6>1. added[c] \in 1..uniqId
            BY <3>2 DEF GetFd, Add, IInv, Numbers
          <6>2. uniqId \in Nat /\ MaxRequests \in Nat /\ uniqId <= MaxRequests
            BY MadeAreRequests DEF IInv, Numbers
          <6> QED BY <6>1, <6>2
        <5> QED BY <5>1, MadeAreRequests DEF Requests, IInv
      <4> QED BY <3>2, <4>1, OutsideKept
    <3> QED BY <2>1, <3>1, <3>2
  <2>2. ASSUME NEW r \in Requests, Peer(r) PROVE Numbers' /\ Others' /\ Hands' /\ Waits'
    BY <2>2, OutsideKept DEF Callers
  <2>3. CASE \/ start \/ Begin \/ LoopEnds \/ LoopTimeout \/ Poll \/ NextEvent
             \/ NoMoreEvents \/ Receive \/ Send
    BY <2>3, RunKept
  <2>4. CASE Collect
    BY <2>4, CollectKept
  <2>5. CASE Close
    BY <2>5, CloseKept
  <2>6. CASE CloseFd
    BY <2>6, CloseFdKept
  <2>7. CASE CallReturns
    BY <2>7, CallReturnsKept
  <2>8. CASE CallWait \/ Terminate \/ Return \/ Clock \/ UNCHANGED vars
    BY <2>8, WaitingKept
  <2> QED BY <2>1, <2>2, <2>3, <2>4, <2>5, <2>6, <2>7, <2>8 DEF Next, Network
<1> QED BY <1>1, <1>2 DEF IInv

\* The invariant holds, and with it the queue's.
THEOREM Invariance == Spec => []IInv
<1>1. Init => IInv
  BY InitIInv
<1>2. IInv /\ [Next]_vars => IInv'
  BY NextIInv
<1> QED BY <1>1, <1>2, PTL DEF Spec

\* The variables keep their types; of run, that it never is at a place it does not know.
THEOREM TypeCorrectness == Spec => []TypeOK
<1>1. IInv => TypeOK
  BY DEF IInv
<1> QED BY <1>1, Invariance, PTL

\* However the answer of a request, its timeout, the end of its connection and the requests
\* that others add race, its onClose is called once and at most one of onResponse, onTimeout
\* and onException after it, and not before it has left the queue.
THEOREM RequestsEndOnce == Spec => []EndsOnce
<1>1. IInv => EndsOnce
  <2>1. SUFFICES ASSUME IInv, NEW r \in Requests
                 PROVE  /\ closes[r] <= 1 /\ finals[r] <= closes[r]
                        /\ r \in time /\ conn[r] # "none" => closes[r] = 0 /\ fd[r] # Invalid
                        /\ closes[r] = 1 /\ current # r => fd[r] = Invalid
    BY DEF EndsOnce
  <2>2. r \in Nat /\ uniqId \in Nat
    BY <2>1, MadeAreRequests DEF IInv, Requests
  <2>3. CASE r # current
    <3>1. Unborn(r) \/ Live(r) \/ Ended(r)
      BY <2>1, <2>2, <2>3 DEF IInv, Others
    <3>2. r \in time => Live(r)
      BY <2>1 DEF IInv, Others
    <3> QED BY <2>3, <3>1, <3>2 DEF Unborn, Live, Ended
  <2>4. CASE r = current
    <3>1. r # 0
      BY <2>1, MadeAreRequests DEF IInv
    <3>2. run \in {"receive", "send", "close", "closefd", "called"}
      BY <2>1, <2>4, <3>1 DEF IInv, Hands, TypeOK
    <3>3. r \in time => Live(r)
      BY <2>1 DEF IInv, Others
    <3>4. Live(r) \/ (closes[r] = 1 /\ finals[r] \in {0, 1})
      BY <2>1, <2>4, <3>2, <3>3 DEF IInv, Hands, Ended
    <3> QED BY <2>4, <3>3, <3>4 DEF Live
  <2> QED BY <2>3, <2>4
<1> QED BY <1>1, Invariance, PTL

\* When waitForAllDone without a limit returns and no callback has added a request, every
\* request has ended and no callback is under way.
THEOREM WaitIsForAll == Spec => WaitsForAll
<1>1. IInv /\ [Next]_vars
        => [program = "terminating" /\ program' = "idle" /\ ~limited /\ ~chained
            => /\ time = {} /\ current = 0
               /\ \A r \in Requests : closes[r] = IF r <= uniqId THEN 1 ELSE 0]_vars
  <2>1. SUFFICES ASSUME IInv, [Next]_vars, program = "terminating", program' = "idle",
                        ~limited, ~chained
                 PROVE  /\ time = {} /\ current = 0
                        /\ \A r \in Requests : closes[r] = IF r <= uniqId THEN 1 ELSE 0
    OBVIOUS
  <2>2. Return
    BY <2>1 DEF Next, Network, start, Begin, LoopTimeout, LoopEnds, Collect, Poll, NextEvent,
                NoMoreEvents, Receive, Send, Close, CloseFd, CallReturns, Submit, GetFd, Add,
                Peer, Becomes, CallWait, Terminate, Clock, waiting, vars
  <2>3. time = {} /\ current = 0
    BY <2>1, <2>2 DEF Return, IInv, Waits, Hands
  <2>4. ASSUME NEW r \in Requests PROVE closes[r] = IF r <= uniqId THEN 1 ELSE 0
    <3>1. r \in Nat /\ uniqId \in Nat /\ r # current
      BY <2>1, <2>3, MadeAreRequests DEF IInv, Requests
    <3> QED BY <2>1, <2>3, <3>1 DEF IInv, Others, Unborn, Ended
  <2> QED BY <2>3, <2>4
<1> QED BY <1>1, Invariance, PTL DEF Spec, WaitsForAll
=============================================================================
