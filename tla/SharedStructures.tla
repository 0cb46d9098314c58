-------------------------- MODULE SharedStructures --------------------------
(***************************************************************************)
(* The structures in shared memory that there are theorems about, side by  *)
(* side: the queue with a redo log under the names of MemQueue; the queue  *)
(* without a lock as Q, over the same messages and a ring of the same      *)
(* size; the hash map as H, which is HashMap with its theorems, so that    *)
(* they can be cited.                                                      *)
(***************************************************************************)
EXTENDS MemQueue

CONSTANTS
    ReserveLen, MaxNum,                                     \* of SQueue
    Slots, Buckets, Index, NoKey, EraseCount, Settings      \* of HashMap

VARIABLES
    \* SQueue
    iBegin, iEnd, iNum, sring, writer, pushed, oldBegin, pushNum, reader, popped, oldEnd, popNum,
    \* HashMap
    heap, free, step, setCall, cell, got, loose, evicting, counts, handed, spoilt, stray,
    crashes, setting

squeue == <<iBegin, iEnd, iNum, sring, writer, pushed, oldBegin, pushNum, reader, popped,
            oldEnd, popNum>>
hashmap == <<heap, free, step, setCall, cell, got, loose, evicting, counts, handed, spoilt,
             stray, crashes, setting>>

Q == INSTANCE SQueue WITH ring <- sring

H == INSTANCE HashMapProofs WITH Cells <- Slots, memory <- heap, call <- setCall

ASSUME QAssumption == Q!SQueueAssumption

ASSUME HAssumption == H!HashMapAssumption

\* SQueue is a first in, first out queue for its two processes, either of which may be
\* killed (tc_squeue.h).
SQueueImplementsFifo == Q!ImplementsFifo

\* The asserts of SQueue hold although each process works with an index that the other
\* may have moved (tc_squeue.h).
SQueueAssertsHold == Q!AssertsHold

\* Whatever write a process is killed between, the hash map stays usable, and the worst is
\* that units are lost (tc_hashmap.cpp:658, 681).
StaysUsable == H!StaysUsable

\* The counts of the hash map are those of its blocks, although every write of a call is a
\* step of its own and the process may be killed before each (tc_hashmap.cpp, update).
CountsAgree == H!HashCountsAgree

\* The write-back of the hash map comes to every dirty block (tc_hashmap.cpp, sync).
DirtyIsReached == H!DirtyIsReached
=============================================================================
