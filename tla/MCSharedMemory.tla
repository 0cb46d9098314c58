--------------------------- MODULE MCSharedMemory ---------------------------
(***************************************************************************)
(* The structures src/tcinclude keeps in shared memory, side by side for   *)
(* TLC: the queue with a redo log, the queue without a lock, the hash map  *)
(* and the tree.  They have nothing to do with each other, so a behaviour  *)
(* works with one of them, the structure, and the others stay as they are. *)
(***************************************************************************)
EXTENDS SharedStructures, TLC

CONSTANTS
    short, long,    \* messages
    x, y, z,        \* keys
    TreeUnits, TreeKeys                 \* of RBTree

VARIABLES
    structure,      \* "mem", "squeue", "hashmap" or "rbtree"
    \* RBTree
    tree, treeLog, treeFree, treeStep, treeCall, node, treeGot, treeLoose, treeEvicting,
    treeSpoilt, shared, treeStray, treeCrashes, treeSetting

MCLength == short :> 1 @@ long :> 2
MCIndex == [k \in {x, y, z} |-> IF k = z THEN 1 ELSE 0]

rbtree == <<tree, treeLog, treeFree, treeStep, treeCall, node, treeGot, treeLoose, treeEvicting,
            treeSpoilt, shared, treeStray, treeCrashes, treeSetting>>

\* Which calls, keys and sizes of records a behaviour of the hash map has; each setting
\* is about calls that disturb each other.  Eviction with chunks and by either list;
\* deletion, clear; crashes in a set, and while dirty blocks are written back.
Base == [keys |-> {x, y}, chunks |-> {0}, dirty |-> {TRUE}, mode |-> "get", crashes |-> 0]

MCSettings ==
    {[calls |-> {"set", "sync"}] @@ [Base EXCEPT !.keys = {x, y, z}],
     [calls |-> {"set", "get", "erase", "backup"}] @@ [Base EXCEPT !.keys = {x, y, z}],
     [calls |-> {"set", "get", "erase", "backup"}] @@ [Base EXCEPT !.dirty = {TRUE, FALSE}],
     [calls |-> {"set", "only", "del", "clear"}]
        @@ [Base EXCEPT !.chunks = {0, 1, 2}, !.mode = "set"],
     [calls |-> {"set", "get"}] @@ [Base EXCEPT !.chunks = {0, 2}, !.mode = "none"],
     [calls |-> {"set", "only", "recover"}]
        @@ [Base EXCEPT !.chunks = {0, 1, 2}, !.mode = "set", !.crashes = 1],
     [calls |-> {"set", "setDirty", "sync"}] @@ [Base EXCEPT !.crashes = 1]}

\* The same of the tree.  The first three are about its shape: all orders in which five
\* keys can be put, with all deletions, and ten and eight keys that are put in order,
\* since it takes ten for a deletion to mend the tree on more than one level.
TreeBase == [keys |-> 1..2, units |-> 1..3, chunks |-> {0}, dirty |-> {TRUE}, mode |-> "get",
             order |-> "any", crashes |-> 0]

TreeSettings ==
    {[calls |-> {"set", "del"}]
        @@ [TreeBase EXCEPT !.keys = 1..5, !.units = 1..5, !.order = "new"],
     [calls |-> {"set", "del"}]
        @@ [TreeBase EXCEPT !.keys = 1..10, !.units = 1..10, !.order = "up"],
     [calls |-> {"set", "del"}]
        @@ [TreeBase EXCEPT !.keys = 1..8, !.units = 1..8, !.order = "down"],
     [calls |-> {"set", "get", "only", "erase", "backup"}] @@ [TreeBase EXCEPT !.keys = 1..3],
     [calls |-> {"set", "only", "del", "setDirty", "sync", "clear"}]
        @@ [TreeBase EXCEPT !.mode = "set"],
     [calls |-> {"set", "only", "del", "setDirty", "sync"}]
        @@ [TreeBase EXCEPT !.chunks = {0, 2}, !.mode = "set"],
     [calls |-> {"set", "get"}] @@ [TreeBase EXCEPT !.chunks = {0, 1, 2}, !.mode = "none"],
     [calls |-> {"set", "only"}] @@ [TreeBase EXCEPT !.chunks = {0, 2}, !.crashes = 1],
     [calls |-> {"set", "only", "sync"}] @@ [TreeBase EXCEPT !.crashes = 1]}

T == INSTANCE RBTree WITH
       Cells <- TreeUnits, Keys <- TreeKeys, Settings <- TreeSettings,
       memory <- tree, log <- treeLog, free <- treeFree, step <- treeStep, call <- treeCall,
       cell <- node, got <- treeGot, loose <- treeLoose, evicting <- treeEvicting,
       spoilt <- treeSpoilt,
       stray <- treeStray, crashes <- treeCrashes, setting <- treeSetting

ASSUME TreeAssumption == T!RBTreeAssumption

\* The keys in one bucket are interchangeable.
Symmetry == Permutations({x, y})

SharedInit ==
    /\ Init /\ Q!Init /\ H!Init /\ T!Init
    /\ structure \in {"mem", "squeue", "hashmap", "rbtree"}
    /\ structure # "hashmap" => setting = CHOOSE s \in Settings : TRUE
    /\ structure # "rbtree" => treeSetting = CHOOSE s \in TreeSettings : TRUE

SharedNext ==
    \/ structure = "mem" /\ Next /\ UNCHANGED <<structure, squeue, hashmap, rbtree>>
    \/ structure = "squeue" /\ Q!Next /\ UNCHANGED <<structure, vars, hashmap, rbtree>>
    \/ structure = "hashmap" /\ H!Next /\ UNCHANGED <<structure, vars, squeue, rbtree>>
    \/ structure = "rbtree" /\ T!Next /\ UNCHANGED <<structure, vars, squeue, hashmap>>

SharedSpec == SharedInit /\ [][SharedNext]_<<structure, vars, squeue, hashmap, rbtree>>

-----------------------------------------------------------------------------
(* The properties of the four, where no module above this one names them   *)

\* Every variable of the structure at work has its type.
SharedTypeOK ==
    /\ structure = "mem" => TypeOK
    /\ structure = "squeue" => Q!TypeOK
    /\ structure = "hashmap" => H!TypeOK
    /\ structure = "rbtree" => T!TypeOK

\* Whatever call a process is killed in, the tree is a red-black tree in the order of its
\* keys (tc_rbtree.cpp:141-512), stays usable (tc_rbtree.cpp:3075), its counts are
\* those of its blocks (tc_rbtree.cpp:670-706), and its write-back comes to every dirty
\* block (sync).
TreeIsSound ==
    structure = "rbtree" => T!TreeIsSound /\ T!StaysUsable /\ T!CountsAgree /\ T!DirtyIsReached

\* No block of the hash map or of the tree escapes a write-back or a backup that has begun.
NothingSkipped == H!NothingSkipped /\ T!NothingSkipped
=============================================================================
