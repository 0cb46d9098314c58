----------------------------- MODULE BlockLists -----------------------------
(***************************************************************************)
(* What TC_HashMap and TC_RBTree of src/tcinclude have in common: a memory *)
(* of records, the head of the map and the heads of the blocks, and the    *)
(* two doubly linked lists of the blocks, of the last set and of the last  *)
(* get, with marks on them for the dirty blocks, for a round of writing    *)
(* back and for a backup.                                                  *)
(*                                                                         *)
(* An address in a record is 0 when there is nothing.  A change is a       *)
(* sequence of updates, each an address, the name of a field and its new   *)
(* value; what an operator returns is worked out from the memory m before  *)
(* any of them is made.                                                    *)
(***************************************************************************)
EXTENDS Integers, FiniteSets, Functions, SequencesExt

CONSTANT Cells    \* the units of the allocator, numbers from 1 up

Root == <<"map", 0>>
At(c) == <<"block", c>>

Put(address, field, value) == <<address, field, value>>

\* The memory when the updates have been made, in their order.
Updated(updates, m) ==
    LET After[n \in 0..Len(updates)] ==
          IF n = 0 THEN m
          ELSE LET u == updates[n] IN [After[n - 1] EXCEPT ![u[1]][u[2]] = u[3]]
    IN  After[Len(updates)]

If(condition, updates) == IF condition THEN updates ELSE <<>>

Increase(m, address, field, n) == <<Put(address, field, m[address][field] + n)>>

\* The blocks from c on along a link; one more than there are if it leads in a circle.
Follow(m, c, link) ==
    LET From[n \in 0..(Cardinality(Cells) + 1)] == [d \in Cells \cup {0} |->
          IF n = 0 \/ d = 0 THEN <<>> ELSE <<d>> \o From[n - 1][m[At(d)][link]]]
    IN  From[Cardinality(Cells) + 1][c]

-----------------------------------------------------------------------------
(* The lists                                                               *)

SetList == [head |-> "iSetHead", tail |-> "iSetTail", next |-> "iSetNext", prev |-> "iSetPrev"]
GetList == [head |-> "iGetHead", tail |-> "iGetTail", next |-> "iGetNext", prev |-> "iGetPrev"]

Insert(m, list, c) ==
    LET first == m[Root][list.head]
    IN  IF first = 0 THEN <<Put(Root, list.head, c), Put(Root, list.tail, c)>>
        ELSE <<Put(At(c), list.next, first), Put(At(first), list.prev, c), Put(Root, list.head, c)>>

Unlink(m, list, c) ==
    LET prev == m[At(c)][list.prev]
        next == m[At(c)][list.next]
        isHead == m[Root][list.head] = c
        isTail == m[Root][list.tail] = c
    IN  CASE isHead /\ isTail -> <<Put(Root, list.head, 0), Put(Root, list.tail, 0)>>
          [] isHead /\ ~isTail -> <<Put(Root, list.head, next), Put(At(next), list.prev, 0)>>
          [] ~isHead /\ isTail -> <<Put(Root, list.tail, prev), Put(At(prev), list.next, 0)>>
          [] OTHER -> <<Put(At(prev), list.next, next), Put(At(next), list.prev, prev)>>

ToHead(m, list, c) ==
    LET prev == m[At(c)][list.prev]
        next == m[At(c)][list.next]
        first == m[Root][list.head]
    IN  <<Put(At(c), list.next, first), Put(At(first), list.prev, c),
          Put(Root, list.head, c), Put(At(c), list.prev, 0), Put(At(prev), list.next, next)>>
        \o IF next # 0 THEN <<Put(At(next), list.prev, prev)>>
           ELSE <<Put(Root, list.tail, prev)>>

\* A mark on block c goes to the block before it.
Step(m, mark, list, c) == If(m[Root][mark] = c, <<Put(Root, mark, m[At(c)][list.prev])>>)

\* The list holds the blocks, and is doubly linked without a gap or a circle.
SoundList(m, list, blocks) ==
    LET forward == Follow(m, m[Root][list.head], list.next)
    IN  /\ IsInjective(forward) /\ Range(forward) = blocks
        /\ Follow(m, m[Root][list.tail], list.prev) = Reverse(forward)

\* The blocks that a mark has not come to yet.
Ahead(m, mark, list) == Range(Follow(m, m[Root][mark], list.prev))
=============================================================================
