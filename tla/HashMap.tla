------------------------------ MODULE HashMap ------------------------------
(***************************************************************************)
(* TC_HashMap of src/tcinclude/tc_hashmap.h and .cpp: a hash map in shared *)
(* memory that is a cache.  Its blocks are on three doubly linked lists,   *)
(* the one of their bucket and those of the last set and the last get; a   *)
(* block and the chunks chained to it are units of an allocator; the       *)
(* oldest blocks make room for new ones; dirty blocks are handed out to be *)
(* written back, and all of them to be backed up.                          *)
(*                                                                         *)
(* The callers lock the map, so one process is in a call at a time.  It    *)
(* may be killed between any two of its writes.  What update has logged    *)
(* becomes visible at once with doUpdate(true): that this is so whatever   *)
(* write a process is killed after is what MemQueue shows of the same log. *)
(* A value is the number of chunks its record needs.  The read only switch,*)
(* the counts of gets, hits and chunks and the two times are left out.     *)
(***************************************************************************)
EXTENDS BlockLists

CONSTANTS
    Buckets,    \* the indexes of the hash table
    Index,      \* the bucket of each key (hashIndex)
    NoKey,
    EraseCount, \* how many blocks eraseExcept erases
    Settings    \* the values of the variable setting

\* What the constants must satisfy.
HashMapAssumption ==
    /\ Cells \subseteq Nat \ {0} /\ IsFiniteSet(Cells)
    /\ NoKey \notin DOMAIN Index /\ Index \in [DOMAIN Index -> Buckets]
    /\ EraseCount \in Nat \ {0}
    /\ \A s \in Settings : /\ s.keys \subseteq DOMAIN Index /\ s.chunks \subseteq Nat
                          /\ s.dirty \subseteq BOOLEAN /\ s.crashes \in Nat

Keys == DOMAIN Index

VARIABLES
    \* The shared memory
    memory,     \* tagMapHead, the items of the hash table, the heads of the blocks
    free,       \* the units the allocator has to give
    \* The process in a call
    step,       \* "idle", or what comes next
    call,       \* what set was given; fresh: it makes a block (bNewBlock)
    cell,       \* the block it works on
    got,        \* the chunks allocated for it and not joined yet
    loose,      \* the units to give back before it goes on
    evicting,   \* how many blocks eraseExcept has counted, -1 outside of it
    counts,     \* what Block::set has logged and not made visible yet
    \* The caller, and what the history of the map tells of it
    handed,     \* the key it writes back, from sync to setDirtyAfterSync
    spoilt,     \* a process was killed in a call that makes a block dirty
    stray,      \* what clear has left in iOnlyKeyCount
    crashes,    \* how many processes were killed
    setting     \* what can happen in this behaviour, and _cEraseMode

process == <<step, call, cell, got, loose, evicting, counts>>
history == <<handed, spoilt, stray, crashes, setting>>
vars == <<memory, free, process, history>>

NoCall == [key |-> NoKey, chunks |-> 0, only |-> FALSE, dirty |-> FALSE, fresh |-> FALSE]

-----------------------------------------------------------------------------
(* The shared memory.                                                     *)

Item(i) == <<"item", i>>

NewHead == [iSetHead |-> 0, iSetTail |-> 0, iGetHead |-> 0, iGetTail |-> 0,
            iDirtyTail |-> 0, iSyncTail |-> 0, iBackupTail |-> 0,
            iDirtyCount |-> 0, iElementCount |-> 0, iOnlyKeyCount |-> 0]

\* A block that makeNew has prepared.  data tells what its bytes are: "whole";
\* "empty", their length is zero and no key can be read; "zero", they are those of a
\* new block; "torn", the key is there, the value not; "wild", torn, and the length
\* is the address of a chunk that was cut off, which shares its word.
NewBlock(i) == [iIndex |-> i, iSetNext |-> 0, iSetPrev |-> 0, iGetNext |-> 0,
                iGetPrev |-> 0, iBlockNext |-> 0, iBlockPrev |-> 0, bDirty |-> TRUE,
                bOnlyKey |-> FALSE, chunks |-> <<>>, key |-> NoKey, data |-> "empty"]

Blank == [NewBlock(0) EXCEPT !.bDirty = FALSE]

NewMemory ==
    [a \in {Root} \cup {Item(i) : i \in Buckets} \cup {At(c) : c \in Cells} |->
        CASE a[1] = "map" -> NewHead
          [] a[1] = "item" -> [iBlockAddr |-> 0, iListCount |-> 0]
          [] a[1] = "block" -> Blank]

Map == memory[Root]
Block(c) == memory[At(c)]

Commit(updates) == memory' = Updated(updates, memory)
Write(field, value) == memory' = [memory EXCEPT ![Root][field] = value]

Add(address, field, n) == Increase(memory, address, field, n)

Chain(i) == Follow(memory, memory[Item(i)].iBlockAddr, "iBlockNext")
Linked == UNION {Range(Chain(i)) : i \in Buckets}

Unreadable(c) == Block(c).data = "empty"
Garbled(c) == Block(c).data \in {"torn", "wild"}

\* find: the blocks with key k, and whether it has failed to read the last of a
\* bucket that has none.
Found(k) == {c \in Range(Chain(Index[k])) : Block(c).key = k}

CannotTell(k) ==
    LET chain == Chain(Index[k])
    IN  Found(k) = {} /\ chain # <<>> /\ Unreadable(Last(chain))

-----------------------------------------------------------------------------
(* The lists                                                               *)

makeNew(c, i) ==
    LET first == memory[Item(i)].iBlockAddr
    IN  Add(Root, "iDirtyCount", 1) \o Add(Root, "iElementCount", 1) \o Add(Item(i), "iListCount", 1)
        \o If(first # 0, <<Put(At(first), "iBlockPrev", c)>>)
        \o <<Put(At(c), "iBlockNext", first), Put(Item(i), "iBlockAddr", c)>>
        \o Insert(memory, SetList, c) \o Insert(memory, GetList, c)

\* Mutant: the mark of the backup stays on a block that is erased.
eraseKeepingBackup(c) ==
    LET b == Block(c)
    IN  Step(memory, "iDirtyTail", SetList, c) \o Step(memory, "iSyncTail", SetList, c)
        \o Unlink(memory, SetList, c) \o Unlink(memory, GetList, c)
        \o If(b.iBlockPrev # 0, <<Put(At(b.iBlockPrev), "iBlockNext", b.iBlockNext)>>)
        \o If(b.iBlockNext # 0, <<Put(At(b.iBlockNext), "iBlockPrev", b.iBlockPrev)>>)
        \o Add(Item(b.iIndex), "iListCount", -1)
        \o If(b.iBlockPrev = 0, <<Put(Item(b.iIndex), "iBlockAddr", b.iBlockNext)>>)
        \o If(b.bDirty, Add(Root, "iDirtyCount", -1))
        \o If(b.bOnlyKey, Add(Root, "iOnlyKeyCount", -1))
        \o Add(Root, "iElementCount", -1)

erase(c) ==
    LET b == Block(c)
    IN  Step(memory, "iDirtyTail", SetList, c) \o Step(memory, "iSyncTail", SetList, c)
        \o Step(memory, "iBackupTail", GetList, c)
        \o Unlink(memory, SetList, c) \o Unlink(memory, GetList, c)
        \o If(b.iBlockPrev # 0, <<Put(At(b.iBlockPrev), "iBlockNext", b.iBlockNext)>>)
        \o If(b.iBlockNext # 0, <<Put(At(b.iBlockNext), "iBlockPrev", b.iBlockPrev)>>)
        \o Add(Item(b.iIndex), "iListCount", -1)
        \o If(b.iBlockPrev = 0, <<Put(Item(b.iIndex), "iBlockAddr", b.iBlockNext)>>)
        \o If(b.bDirty, Add(Root, "iDirtyCount", -1))
        \o If(b.bOnlyKey, Add(Root, "iOnlyKeyCount", -1))
        \o Add(Root, "iElementCount", -1)

refreshSetList(c) ==
    If(Map.iSetHead # c, Step(memory, "iSyncTail", SetList, c) \o Step(memory, "iDirtyTail", SetList, c))
    \o If(Map.iDirtyTail = 0, <<Put(Root, "iDirtyTail", c)>>)
    \o If(Map.iSetHead # c, ToHead(memory, SetList, c))

\* Mutant: the mark of the backup moves with the block.
refreshGetListOnly(c) == If(Map.iGetHead # c, ToHead(memory, GetList, c))

refreshGetList(c) ==
    If(Map.iGetHead # c, Step(memory, "iBackupTail", GetList, c) \o ToHead(memory, GetList, c))

setDirty(c, dirty) ==
    If(Block(c).bDirty # dirty,
       Add(Root, "iDirtyCount", IF dirty THEN 1 ELSE -1) \o <<Put(At(c), "bDirty", dirty)>>)

-----------------------------------------------------------------------------
(* The steps that calls share                                              *)

Init ==
    /\ memory = NewMemory
    /\ free = Cells
    /\ step = "idle" /\ call = NoCall /\ cell = 0 /\ got = <<>> /\ loose = <<>>
    /\ evicting = -1 /\ counts = <<>>
    /\ handed = NoKey /\ spoilt = FALSE /\ stray = 0 /\ crashes = 0
    /\ setting \in Settings

May(name) == step = "idle" /\ name \in setting.calls

\* The process goes on with s; with nothing, when it is at the end of its call.
Goto(s) == step' = s /\ UNCHANGED <<call, cell, got, loose, evicting, counts>>
Begin(s, c) == step' = s /\ cell' = c /\ UNCHANGED <<call, got, loose, evicting, counts>>
Leave ==
    /\ step' = "idle" /\ call' = NoCall /\ cell' = 0
    /\ got' = <<>> /\ loose' = <<>> /\ evicting' = -1 /\ counts' = <<>>

Units(c) == Append(Block(c).chunks, c)

\* Block::erase: the block leaves all lists at once, then its units are given back.
\* What an unlinked block still holds is not read any more.
Erase(c) ==
    /\ memory' = [Updated(erase(c), memory) EXCEPT ![At(c)] = Blank]
    /\ loose' = loose \o Units(c)

deallocate ==
    /\ loose # <<>>
    /\ free' = free \cup {loose[1]}
    /\ loose' = Tail(loose)
    /\ UNCHANGED <<memory, step, call, cell, got, evicting, counts, history>>

Return ==
    /\ step = "return" /\ loose = <<>>
    /\ Leave
    /\ UNCHANGED <<memory, free, history>>

-----------------------------------------------------------------------------
(* set                                                                     *)

\* set(k, v, bDirty), and set(k), only. Where the bucket ends with a block that cannot be
\* read and k is not found, set returns an error and does nothing.
Set(k, n, only, dirty) ==
    /\ May("set") /\ ~CannotTell(k)
    /\ call' = [key |-> k, chunks |-> n, only |-> only, dirty |-> dirty,
                fresh |-> Found(k) = {}]
    /\ IF Found(k) = {} THEN step' = "allocateMemBlock" /\ cell' = 0
       ELSE step' = "allocate" /\ cell' \in Found(k)
    /\ UNCHANGED <<memory, free, got, loose, evicting, counts, history>>

\* The first unit that is free; which one makes no difference.
Unit == CHOOSE c \in free : \A d \in free : c <= d

allocateMemBlock ==
    /\ step = "allocateMemBlock" /\ evicting = -1 /\ free # {}
    /\ cell' = Unit /\ free' = free \ {Unit}
    /\ step' = "makeNew"
    /\ UNCHANGED <<memory, call, got, loose, evicting, counts, history>>

MakeNew ==
    /\ step = "makeNew"
    /\ LET i == Index[call.key]
       IN  memory' = Updated(makeNew(cell, i), [memory EXCEPT ![At(cell)] = NewBlock(i)])
    /\ Goto("allocate")
    /\ UNCHANGED <<free, history>>

\* Block::allocate: the chunks that are too many are cut off and then given back.
Shrink ==
    /\ step = "allocate" /\ loose = <<>>
    /\ LET old == Block(cell).chunks
           n == call.chunks
       IN  /\ Len(old) > n
           /\ memory' = [memory EXCEPT
                  ![At(cell)].chunks = SubSeq(old, 1, n),
                  ![At(cell)].data = IF n = 0 THEN "empty" ELSE "wild",
                  ![At(cell)].key = IF n = 0 THEN NoKey ELSE @]
           /\ loose' = SubSeq(old, n + 1, Len(old))
    /\ UNCHANGED <<free, step, call, cell, got, evicting, counts, history>>

Missing == call.chunks - Len(Block(cell).chunks) - Len(got)

allocateChunk ==
    /\ step = "allocate" /\ evicting = -1 /\ free # {} /\ loose = <<>>
    /\ Missing > 0
    /\ got' = Append(got, Unit) /\ free' = free \ {Unit}
    /\ UNCHANGED <<memory, step, call, cell, loose, evicting, counts, history>>

\* joinChunk: the chunks are chained one by one, each with the length zero.
joinChunk ==
    /\ step = "allocate" /\ Missing = 0 /\ got # <<>>
    /\ memory' = [memory EXCEPT
           ![At(cell)].chunks = Append(@, got[1]),
           ![At(cell)].data = IF Block(cell).key # NoKey THEN "torn" ELSE "zero"]
    /\ got' = Tail(got)
    /\ UNCHANGED <<free, step, call, cell, loose, evicting, counts, history>>

\* eraseExcept, when there is no unit left and eviction is on: the oldest block but
\* the one that is being set, by the list that _cEraseMode names.
Starved ==
    /\ free = {} /\ loose = <<>> /\ evicting = -1
    /\ \/ step = "allocateMemBlock"
       \/ step = "allocate" /\ Missing > 0

Victim ==
    LET list == IF setting.mode = "set" THEN SetList ELSE GetList
        oldest == Map[list.tail]
    IN  IF oldest = cell /\ oldest # 0 THEN Block(oldest)[list.prev] ELSE oldest

StartEvicting ==
    /\ Starved /\ setting.mode # "none"
    /\ evicting' = 0
    /\ UNCHANGED <<memory, free, step, call, cell, got, loose, counts, history>>

\* A block with a key only, or that cannot be read, is erased and not counted.
Evict ==
    /\ evicting \in 0..(EraseCount - 1) /\ loose = <<>> /\ Victim # 0
    /\ LET b == Block(Victim)
           read == b.data \in {"whole", "zero"} /\ ~b.bOnlyKey
       IN  \E counted \in IF Garbled(Victim) THEN {FALSE, ~b.bOnlyKey} ELSE {read} :
             evicting' = IF counted THEN evicting + 1 ELSE evicting
    /\ Erase(Victim)
    /\ UNCHANGED <<free, step, call, cell, got, counts, history>>

Evicted ==
    /\ loose = <<>> /\ evicting > 0
    /\ evicting = EraseCount \/ Victim = 0
    /\ evicting' = -1
    /\ UNCHANGED <<memory, free, step, call, cell, got, loose, counts, history>>

\* RT_NO_MEMORY: the chunks are given back, and a new block is erased.
NoMemory ==
    /\ \/ Starved /\ setting.mode = "none"
       \/ loose = <<>> /\ evicting = 0 /\ Victim = 0
    /\ step' = IF step = "allocateMemBlock" THEN "return" ELSE "undo"
    /\ loose' = got /\ got' = <<>> /\ evicting' = -1
    /\ UNCHANGED <<memory, free, call, cell, counts, history>>

Undo ==
    /\ step = "undo" /\ loose = <<>>
    /\ IF call.fresh THEN Erase(cell) ELSE UNCHANGED <<memory, loose>>
    /\ step' = "return"
    /\ UNCHANGED <<free, call, cell, got, evicting, counts, history>>

\* Mutant: the flags are written before they are compared, so the counts stay.
SetFlagsFirst ==
    /\ step = "allocate" /\ loose = <<>> /\ got = <<>> /\ Missing = 0
    /\ counts' = <<>>
    /\ memory' = [memory EXCEPT ![At(cell)].bDirty = ~call.only, ![At(cell)].bOnlyKey = call.only]
    /\ step' = "copy"
    /\ UNCHANGED <<free, call, cell, got, loose, evicting, history>>

\* Block::set: the two flags are written at once, and what they change in the counts
\* is logged; then the bytes are copied; then the counts become visible.
SetFlags ==
    /\ step = "allocate" /\ loose = <<>> /\ got = <<>> /\ Missing = 0
    /\ LET b == Block(cell)
           only == call.only
       IN  counts' = If(b.bDirty = only, Add(Root, "iDirtyCount", IF only THEN -1 ELSE 1))
                     \o If(b.bOnlyKey # only, Add(Root, "iOnlyKeyCount", IF only THEN 1 ELSE -1))
    /\ memory' = [memory EXCEPT ![At(cell)].bDirty = ~call.only, ![At(cell)].bOnlyKey = call.only]
    /\ step' = "copy"
    /\ UNCHANGED <<free, call, cell, got, loose, evicting, history>>

CopyData ==
    /\ step = "copy"
    /\ memory' = [memory EXCEPT ![At(cell)].key = call.key, ![At(cell)].data = "whole"]
    /\ Goto("counts")
    /\ UNCHANGED <<free, history>>

CommitCounts ==
    /\ step = "counts"
    /\ Commit(counts) /\ counts' = <<>>
    /\ step' = IF call.only THEN "refreshSetList" ELSE "setDirty"
    /\ UNCHANGED <<free, call, cell, got, loose, evicting, history>>

SetItsDirty ==
    /\ step = "setDirty"
    /\ Commit(setDirty(cell, call.dirty))
    /\ Goto("refreshSetList")
    /\ UNCHANGED <<free, history>>

RefreshSetList ==
    /\ step = "refreshSetList"
    /\ Commit(refreshSetList(cell))
    /\ Goto("refreshGetList")
    /\ UNCHANGED <<free, history>>

RefreshGetList ==
    /\ step = "refreshGetList"
    /\ Commit(refreshGetList(cell))
    /\ Leave
    /\ UNCHANGED <<free, history>>

-----------------------------------------------------------------------------
(* get, del, setDirty, setClean, erase, recover, clear                     *)

\* get, del: where the value is torn, it may not be read; then nothing is done.
Get(k) ==
    /\ May("get")
    /\ \E c \in Found(k) : ~Block(c).bOnlyKey /\ Commit(refreshGetList(c))
    /\ UNCHANGED <<free, process, history>>

Del(k) ==
    /\ May("del")
    /\ \E c \in Found(k) : Erase(c)
    /\ step' = "return"
    /\ UNCHANGED <<free, call, cell, got, evicting, counts, history>>

\* setDirty and setClean.
SetDirty(k, dirty) ==
    /\ May("setDirty")
    /\ \E c \in Found(k) :
         /\ ~Block(c).bOnlyKey
         /\ Commit(setDirty(c, dirty))
         /\ Begin("refreshSetList", c)
    /\ UNCHANGED <<free, history>>

\* erase(radio, data, bCheckDirty), when more is used than radio allows: the block at
\* the tail of the get list goes, or to the head, when it is dirty and that matters.
EraseTail ==
    /\ May("erase") /\ Map.iGetTail # 0
    /\ Erase(Map.iGetTail)
    /\ step' = "return"
    /\ UNCHANGED <<free, call, cell, got, evicting, counts, history>>

KeepDirtyTail ==
    LET c == Map.iGetTail
    IN  /\ May("erase") /\ c # 0 /\ Block(c).bDirty
        /\ Write("iDirtyTail", IF Map.iDirtyTail = 0 THEN c ELSE Map.iDirtyTail)
        /\ Begin(IF Map.iGetHead = c THEN "return" ELSE "moveTail", c)
        /\ UNCHANGED <<free, history>>

MoveTail ==
    /\ step = "moveTail"
    /\ LET prev == Block(cell).iGetPrev
           first == Map.iGetHead
       IN  Commit(Step(memory, "iBackupTail", GetList, cell)
                  \o <<Put(Root, "iGetTail", prev), Put(At(prev), "iGetNext", 0),
                       Put(At(cell), "iGetPrev", 0), Put(At(cell), "iGetNext", first),
                       Put(At(first), "iGetPrev", cell), Put(Root, "iGetHead", cell)>>)
    /\ Leave
    /\ UNCHANGED <<free, history>>

\* recover(i, true) erases one after the other the blocks of a bucket that it cannot
\* read, and goes through it again.
Recover(i) ==
    /\ \/ May("recover")
       \/ step = "recover" /\ loose = <<>> /\ Index[call.key] = i
    /\ call' = [NoCall EXCEPT !.key = CHOOSE k \in Keys : Index[k] = i]
    /\ \E c \in Range(Chain(i)) : (Unreadable(c) \/ Garbled(c)) /\ Erase(c)
    /\ step' = "recover"
    /\ UNCHANGED <<free, cell, got, evicting, counts, history>>

Recovered ==
    /\ step = "recover" /\ loose = <<>>
    /\ \A c \in Range(Chain(Index[call.key])) : ~Unreadable(c)
    /\ Leave
    /\ UNCHANGED <<memory, free, history>>

\* clear forgets iOnlyKeyCount.
Clear ==
    /\ May("clear")
    /\ stray = 0    \* bound
    /\ memory' = [NewMemory EXCEPT ![Root].iOnlyKeyCount = Map.iOnlyKeyCount]
    /\ free' = Cells
    /\ stray' = Map.iOnlyKeyCount /\ spoilt' = FALSE
    /\ UNCHANGED <<process, handed, crashes, setting>>

-----------------------------------------------------------------------------
(* Writing back and backing up                                             *)

\* sync() begins to write back.
StartSync ==
    /\ May("sync")
    /\ Write("iSyncTail", Map.iDirtyTail)
    /\ UNCHANGED <<free, process, history>>

\* sync(iNowTime, data) goes on by a block.
Sync ==
    /\ May("sync") /\ handed = NoKey /\ Map.iSyncTail # 0
    /\ Write("iSyncTail", Block(Map.iSyncTail).iSetPrev)
    /\ Begin("sync", Map.iSyncTail)
    /\ UNCHANGED <<free, history>>

PassDirtyTail ==
    /\ Commit(Step(memory, "iDirtyTail", SetList, cell))
    /\ Leave
    /\ UNCHANGED free

\* A block that is clean, or of which not all can be read.
SyncPasses ==
    /\ step = "sync"
    /\ ~Block(cell).bDirty \/ Unreadable(cell) \/ Garbled(cell)
    /\ PassDirtyTail
    /\ UNCHANGED history

\* A dirty one: its time has not come, or it is handed out to be written back.
SyncLater ==
    /\ step = "sync" /\ Block(cell).bDirty /\ ~Unreadable(cell)
    /\ Leave
    /\ UNCHANGED <<memory, free, history>>

SyncDue ==
    /\ step = "sync" /\ Block(cell).bDirty /\ ~Unreadable(cell)
    /\ Commit(setDirty(cell, FALSE))
    /\ Goto("needSync")
    /\ UNCHANGED <<free, history>>

NeedSync ==
    /\ step = "needSync"
    /\ PassDirtyTail
    /\ handed' = Block(cell).key
    /\ UNCHANGED <<spoilt, stray, crashes, setting>>

\* The caller has written it back, or it has failed to: setDirtyAfterSync.  It writes
\* back one block at a time.
WrittenBack ==
    /\ May("sync") /\ handed # NoKey
    /\ handed' = NoKey
    /\ UNCHANGED <<memory, free, process, spoilt, stray, crashes, setting>>

setDirtyAfterSync ==
    /\ May("sync") /\ handed # NoKey
    /\ \E c \in Found(handed) :
         /\ ~Block(c).bOnlyKey
         /\ Commit(setDirty(c, TRUE))
         /\ Begin("dirtyTail", c)
    /\ handed' = NoKey
    /\ UNCHANGED <<free, spoilt, stray, crashes, setting>>

\* Mutant: the mark of the dirty blocks does not come back to the block.
ForgetDirtyTail ==
    /\ step = "dirtyTail"
    /\ Leave
    /\ UNCHANGED <<memory, free, history>>

DirtyTailBack ==
    /\ step = "dirtyTail"
    /\ Write("iDirtyTail", IF Map.iDirtyTail = Block(cell).iSetPrev THEN cell ELSE Map.iDirtyTail)
    /\ Leave
    /\ UNCHANGED <<free, history>>

\* backup(bForceFromBegin) and backup(data).
StartBackup ==
    /\ May("backup")
    /\ Write("iBackupTail", Map.iGetTail)
    /\ UNCHANGED <<free, process, history>>

Backup ==
    /\ May("backup") /\ Map.iBackupTail # 0
    /\ Write("iBackupTail", Block(Map.iBackupTail).iGetPrev)
    /\ UNCHANGED <<free, process, history>>

-----------------------------------------------------------------------------
\* A call that fails before it writes anything, or that only reads.
Fruitless == step = "idle" /\ UNCHANGED vars

\* The process is killed.  The units it has taken and not linked, or unlinked and not
\* given back, are lost.  In the copy of a record some bytes are old and some new.
MakesDirty == step \in {"makeNew", "allocate", "copy", "counts", "setDirty",
                        "refreshSetList", "refreshGetList", "undo", "dirtyTail"}

Crash ==
    /\ step # "idle"
    /\ crashes < setting.crashes   \* bound
    /\ crashes' = crashes + 1
    /\ Leave
    /\ handed' = NoKey
    /\ spoilt' = (spoilt \/ MakesDirty)
    /\ IF step = "copy" /\ ~Unreadable(cell)
         THEN \E torn \in BOOLEAN :
                memory' = IF torn THEN [memory EXCEPT ![At(cell)].data = "torn", ![At(cell)].key = call.key]
                          ELSE memory
         ELSE UNCHANGED memory
    /\ UNCHANGED <<free, stray, setting>>

SetCall == \E k \in setting.keys :
    \/ \E n \in setting.chunks, dirty \in setting.dirty : Set(k, n, FALSE, dirty)
    \/ "only" \in setting.calls /\ Set(k, 0, TRUE, FALSE)

SetStep == allocateMemBlock \/ MakeNew \/ Shrink \/ allocateChunk \/ joinChunk
           \/ StartEvicting \/ Evict \/ Evicted \/ NoMemory \/ Undo
           \/ SetFlags \/ CopyData \/ CommitCounts \/ SetItsDirty

KeyCall == \E k \in setting.keys : Get(k) \/ Del(k) \/ \E dirty \in BOOLEAN : SetDirty(k, dirty)

Others == EraseTail \/ KeepDirtyTail \/ MoveTail \/ (\E i \in Buckets : Recover(i)) \/ Recovered
          \/ Clear \/ RefreshSetList \/ RefreshGetList \/ deallocate \/ Return

Syncing == StartSync \/ Sync \/ SyncPasses \/ SyncLater \/ SyncDue \/ NeedSync \/ WrittenBack
           \/ setDirtyAfterSync \/ DirtyTailBack \/ StartBackup \/ Backup

Next == SetCall \/ SetStep \/ KeyCall \/ Others \/ Syncing \/ Fruitless \/ Crash

Spec == Init /\ [][Next]_vars

-----------------------------------------------------------------------------
(* Properties                                                              *)

TypeOK ==
    /\ DOMAIN memory = DOMAIN NewMemory
    /\ \A c \in Cells : /\ DOMAIN Block(c) = DOMAIN Blank
                        /\ Block(c).bDirty \in BOOLEAN /\ Block(c).bOnlyKey \in BOOLEAN
                        /\ Block(c).key \in Keys \cup {NoKey}
                        /\ Block(c).data \in {"whole", "empty", "zero", "torn", "wild"}
                        /\ Range(Block(c).chunks) \subseteq Cells
    /\ free \subseteq Cells
    /\ cell \in Cells \cup {0} /\ Range(got) \cup Range(loose) \subseteq Cells
    /\ evicting \in -1..EraseCount
    /\ call.key \in Keys \cup {NoKey} /\ handed \in Keys \cup {NoKey}
    /\ spoilt \in BOOLEAN /\ stray \in Int /\ crashes \in 0..setting.crashes
    /\ setting \in Settings

\* Whatever write a process is killed between, the map stays usable, and the worst is
\* that units are lost (tc_hashmap.cpp:658, 681): the three lists hold the same blocks
\* and are doubly linked without a gap or a circle, the three marks are on blocks of
\* them or nowhere, and no unit is in two places.
StaysUsable ==
    /\ SoundList(memory, SetList, Linked) /\ SoundList(memory, GetList, Linked)
    /\ \A i \in Buckets :
         LET chain == Chain(i)
         IN  /\ IsInjective(chain)
             /\ \A n \in DOMAIN chain :
                  /\ Block(chain[n]).iBlockPrev = (IF n = 1 THEN 0 ELSE chain[n - 1])
                  /\ Block(chain[n]).iIndex = i
    /\ {Map.iDirtyTail, Map.iSyncTail, Map.iBackupTail} \subseteq Linked \cup {0}
    /\ LET held == got \o loose
       IN  /\ IsInjective(held) /\ Range(held) \cap free = {}
           /\ \A c \in Linked :
                /\ IsInjective(Units(c)) /\ Range(Units(c)) \cap (Range(held) \cup free) = {}
                /\ \A d \in Linked \ {c} : Range(Units(c)) \cap Range(Units(d)) = {}

\* The counts of the map are those of its blocks: of all of them at any time, of the
\* dirty ones and those with a key only between two calls, unless a process was killed
\* in a call that makes a block dirty; clear leaves the last count as it is.
HashCountsAgree ==
    /\ Map.iElementCount = Cardinality(Linked)
    /\ \A i \in Buckets : memory[Item(i)].iListCount = Len(Chain(i))
    /\ (step = "idle" /\ ~spoilt) =>
         /\ Map.iDirtyCount = Cardinality({c \in Linked : Block(c).bDirty})
         /\ Map.iOnlyKeyCount = stray + Cardinality({c \in Linked : Block(c).bOnlyKey})

\* A dirty block is written back some day: sync(), which begins at the mark of the
\* dirty blocks, comes to each of them, as long as the caller writes back one block at
\* a time, unless a process was killed in a call that makes a block dirty.
DirtyIsReached ==
    (step = "idle" /\ ~spoilt) =>
        {c \in Linked : Block(c).bDirty} \subseteq Ahead(memory, "iDirtyTail", SetList)

\* Nothing escapes a round of writing back or a backup that has begun, although gets,
\* sets, evictions and the deaths of processes reorder the lists meanwhile: a block that
\* stays in the map stays ahead of the mark until the round itself comes to it.
NothingSkipped ==
    [][memory' # memory =>
       LET kept == {c \in Linked \cap Linked' : Block(c).key = Block(c)'.key}
           inBackup == kept \cap (Ahead(memory, "iBackupTail", GetList) \ Ahead(memory', "iBackupTail", GetList))
           inSync == kept \cap (Ahead(memory, "iSyncTail", SetList) \ Ahead(memory', "iSyncTail", SetList))
           dirty == kept \cap (Ahead(memory, "iDirtyTail", SetList) \ Ahead(memory', "iDirtyTail", SetList))
       IN  /\ inBackup # {} => /\ inBackup = {Map.iBackupTail}
                              /\ step = "idle" /\ step' = "idle"
           /\ inSync # {} => inSync = {Map.iSyncTail} /\ step' = "sync"
           /\ \A c \in dirty : ~Block(c)'.bDirty \/ Block(c).data # "whole"]_vars
=============================================================================
