------------------------------- MODULE RBTree -------------------------------
(***************************************************************************)
(* TC_RBTree of src/tcinclude/tc_rbtree.h and .cpp: an ordered map in      *)
(* shared memory that is a cache.  Its blocks are the nodes of a red-black *)
(* tree and on the lists of BlockLists; chunks, eviction and writing back  *)
(* are as in HashMap.                                                      *)
(*                                                                         *)
(* Its log is another one.  saveValue notes the old value and makes the    *)
(* change at once; the end of a call forgets the notes (doUpdate), and the *)
(* first thing a call does is to undo what notes it finds (doRecover).  A  *)
(* process that is killed, by a failed assert too, has thereby done        *)
(* nothing since the last doUpdate but what it wrote without a note.  So a *)
(* step ends at such a write, and a crash undoes the notes.                *)
(*                                                                         *)
(* A value is the number of chunks its record needs.  The read only        *)
(* switch, the counts of gets, hits and chunks and the times are left out. *)
(***************************************************************************)
EXTENDS BlockLists

CONSTANTS
    Keys,       \* numbers, since they have an order
    NoKey,      \* what is no key
    EraseCount, \* how many blocks eraseExcept erases
    Settings    \* the values of the variable setting

\* What the constants must satisfy.
RBTreeAssumption ==
    /\ Cells \subseteq Nat \ {0} /\ IsFiniteSet(Cells)
    /\ Keys \subseteq Nat /\ NoKey \notin Keys
    /\ EraseCount \in Nat \ {0}

VARIABLES
    \* The shared memory
    memory,     \* tagMapHead and the heads of the blocks
    log,        \* tagModifyHead: the updates that undo what was saved, the last first
    free,       \* the units the allocator has to give
    \* The process in a call
    step,       \* "idle", or what comes next
    call,       \* what set was given; fresh: it makes a block (bNewBlock)
    cell,       \* the block it works on
    got,        \* the chunks allocated for it and not joined yet
    loose,      \* the units to give back before it goes on
    evicting,   \* how many blocks eraseExcept has counted, -1 outside of it
    \* What the history of the map tells of it
    spoilt,     \* a process was killed between a flag and the count that goes with it
    shared,     \* a process was killed after it gave chunks back, before its call was over
    stray,      \* what clear has left in iOnlyKeyCount
    crashes,    \* how many processes were killed
    setting     \* what can happen in this behaviour, and _cEraseMode

process == <<step, call, cell, got, loose, evicting>>
history == <<spoilt, shared, stray, crashes, setting>>
vars == <<memory, log, free, process, history>>

NoCall == [key |-> NoKey, chunks |-> 0, only |-> FALSE, dirty |-> FALSE, fresh |-> FALSE]

-----------------------------------------------------------------------------
(* The shared memory                                                       *)

RED == 0
BLACK == 1

NewHead == [iRootAddr |-> 0, iSetHead |-> 0, iSetTail |-> 0, iGetHead |-> 0, iGetTail |-> 0,
            iDirtyTail |-> 0, iSyncTail |-> 0, iBackupTail |-> 0,
            iDirtyCount |-> 0, iElementCount |-> 0, iOnlyKeyCount |-> 0]

\* A block that makeNew has prepared.  data tells of a block in the tree what its bytes
\* are: "whole", or "torn", the key is there, the value not: reading it fails an assert,
\* or gives a value nobody has set.
NewBlock == [iColor |-> RED, iParent |-> 0, iLeftChild |-> 0, iRightChild |-> 0,
             iSetNext |-> 0, iSetPrev |-> 0, iGetNext |-> 0, iGetPrev |-> 0,
             bDirty |-> TRUE, bOnlyKey |-> FALSE, chunks |-> <<>>, key |-> NoKey, data |-> "none"]

NewMemory == [a \in {Root} \cup {At(c) : c \in Cells} |-> IF a = Root THEN NewHead ELSE NewBlock]

Map == memory[Root]
Block(c) == memory[At(c)]
Torn(c) == Block(c).data = "torn" /\ ~Block(c).bOnlyKey

\* saveValue: t is the memory and the log.
Saved(t, updates) ==
    FoldLeft(LAMBDA s, u : [mem |-> [s.mem EXCEPT ![u[1]][u[2]] = u[3]],
                            log |-> <<Put(u[1], u[2], s.mem[u[1]][u[2]])>> \o s.log], t, updates)

Now == [mem |-> memory, log |-> log]

doRecover == Updated(log, memory)

\* The call, or a part of it, is over: doUpdate.
Update(t) == memory' = t.mem /\ log' = <<>>
Commit(updates) == Update(Saved(Now, updates))

\* What is written without a note.
Write(field, value) == memory' = [memory EXCEPT ![Root][field] = value] /\ UNCHANGED log

-----------------------------------------------------------------------------
(* The tree                                                                *)

Left == "iLeftChild"
Right == "iRightChild"
Other(side) == IF side = Left THEN Right ELSE Left

Color(m, c) == IF c = 0 THEN BLACK ELSE m[At(c)].iColor
Paint(c, color) == Put(At(c), "iColor", color)

\* i, or nothing, takes the place that c has below its parent.
Replace(m, c, i) ==
    LET p == m[At(c)].iParent
    IN  IF p = 0 THEN Put(Root, "iRootAddr", i)
        ELSE Put(At(p), IF m[At(p)].iLeftChild = c THEN Left ELSE Right, i)

\* rotateLeft and rotateRight: i goes down to that side.
Rotate(m, side, i) ==
    LET r == m[At(i)][Other(side)]
        b == m[At(r)][side]
    IN  <<Put(At(i), Other(side), b)>> \o If(b # 0, <<Put(At(b), "iParent", i)>>)
        \o <<Put(At(r), side, i), Put(At(r), "iParent", m[At(i)].iParent), Replace(m, i, r),
             Put(At(i), "iParent", r)>>

Rotated(t, side, i) == Saved(t, Rotate(t.mem, side, i))

RECURSIVE insertFixUp(_, _)
insertFixUp(t, i) ==
    LET p == t.mem[At(i)].iParent
        g == t.mem[At(p)].iParent
        side == IF p = t.mem[At(g)].iLeftChild THEN Left ELSE Right
        u == t.mem[At(g)][Other(side)]
        inner == t.mem[At(p)][Other(side)] = i
        low == IF inner THEN p ELSE i
        high == IF inner THEN i ELSE p
        turned == IF inner THEN Rotated(t, side, p) ELSE t
    IN  IF p = 0 \/ Color(t.mem, p) = BLACK
        THEN Saved(t, <<Paint(t.mem[Root].iRootAddr, BLACK)>>)
        ELSE IF Color(t.mem, u) = RED
        THEN insertFixUp(Saved(t, <<Paint(u, BLACK), Paint(p, BLACK), Paint(g, RED)>>), g)
        ELSE insertFixUp(Rotated(Saved(turned, <<Paint(high, BLACK), Paint(g, RED)>>),
                                 Other(side), g), low)

\* One side's child is missing a black node: i, which may be nothing, below p.
\* Mutant: a brother whose child on the far side is black is not turned.
RECURSIVE eraseFixUpStraight(_, _, _)
eraseFixUpStraight(t, i, p) ==
    LET side == IF t.mem[At(p)].iLeftChild = i THEN Left ELSE Right
        far == Other(side)
        red == t.mem[At(p)][far]
        t1 == IF Color(t.mem, red) = RED
              THEN Rotated(Saved(t, <<Paint(red, BLACK), Paint(p, RED)>>), side, p) ELSE t
        o == t1.mem[At(p)][far]
        child(s) == t1.mem[At(o)][s]
    IN  IF Color(t.mem, i) = RED \/ i = t.mem[Root].iRootAddr
        THEN Saved(t, If(i # 0, <<Paint(i, BLACK)>>))
        ELSE IF \A s \in {Left, Right} : Color(t1.mem, child(s)) = BLACK
        THEN eraseFixUpStraight(Saved(t1, <<Paint(o, RED)>>), p, t1.mem[At(p)].iParent)
        ELSE Rotated(Saved(t1, <<Paint(o, Color(t1.mem, p)), Paint(p, BLACK)>>), side, p)

RECURSIVE eraseFixUp(_, _, _)
eraseFixUp(t, i, p) ==
    LET side == IF t.mem[At(p)].iLeftChild = i THEN Left ELSE Right
        far == Other(side)
        red == t.mem[At(p)][far]
        t1 == IF Color(t.mem, red) = RED
              THEN Rotated(Saved(t, <<Paint(red, BLACK), Paint(p, RED)>>), side, p) ELSE t
        o == t1.mem[At(p)][far]
        child(s) == t1.mem[At(o)][s]
        t2 == IF Color(t1.mem, child(far)) = BLACK
              THEN Rotated(Saved(t1, <<Paint(child(side), BLACK), Paint(o, RED)>>), far, o)
              ELSE t1
        brother == t2.mem[At(p)][far]
        t3 == Rotated(Saved(t2, <<Paint(brother, Color(t2.mem, p)), Paint(p, BLACK),
                                  Paint(t2.mem[At(brother)][far], BLACK)>>), side, p)
    IN  IF Color(t.mem, i) = RED \/ i = t.mem[Root].iRootAddr
        THEN Saved(t, If(i # 0, <<Paint(i, BLACK)>>))
        ELSE IF \A s \in {Left, Right} : Color(t1.mem, child(s)) = BLACK
        THEN eraseFixUp(Saved(t1, <<Paint(o, RED)>>), p, t1.mem[At(p)].iParent)
        ELSE Saved(t3, <<Paint(t3.mem[Root].iRootAddr, BLACK)>>)

\* The node z leaves the tree, and what of its subtree takes its place: its only child,
\* or the leftmost node next of its right subtree.
eraseNode(t, z) ==
    LET b == t.mem[At(z)]
        next == Last(Follow(t.mem, b.iRightChild, Left))
        cut(n) == LET c == IF n = z /\ b.iLeftChild # 0 THEN b.iLeftChild
                           ELSE t.mem[At(n)].iRightChild
                  IN  [c |-> c, p |-> t.mem[At(n)].iParent, color |-> Color(t.mem, n),
                       t |-> Saved(t, If(c # 0, <<Put(At(c), "iParent", t.mem[At(n)].iParent)>>)
                                      \o <<Replace(t.mem, n, c)>>)]
        single == b.iLeftChild = 0 \/ b.iRightChild = 0
        way == cut(IF single THEN z ELSE next)
        old == way.t.mem[At(z)]
        moved == Saved(way.t,
            <<Put(At(next), "iParent", old.iParent), Put(At(next), "iColor", old.iColor),
              Put(At(next), Right, old.iRightChild), Put(At(next), Left, old.iLeftChild),
              Replace(way.t.mem, z, next), Put(At(old.iLeftChild), "iParent", next)>>
            \o If(old.iRightChild # 0, <<Put(At(old.iRightChild), "iParent", next)>>))
        done == IF single THEN way.t ELSE moved
    IN  IF way.color = RED THEN done
        ELSE eraseFixUp(done, way.c, IF ~single /\ way.p = z THEN next ELSE way.p)

\* The blocks that find and getLastBlock look at for k.  The last one has the key, or is
\* where it would be put.
Path(m, k) ==
    LET below(b) == IF b.key = k THEN 0 ELSE b[IF k < b.key THEN Left ELSE Right]
        From[n \in 0..(Cardinality(Cells) + 1)] == [d \in Cells \cup {0} |->
          IF n = 0 \/ d = 0 THEN <<>> ELSE <<d>> \o From[n - 1][below(m[At(d)])]]
    IN  From[Cardinality(Cells) + 1][m[Root].iRootAddr]

Found(k) == {c \in Range(Path(memory, k)) : Block(c).key = k}

\* The block is put below the last one of the path.
insertRBTree(t, i, k) ==
    LET path == Path(t.mem, k)
        last == Last(path)
        below == <<Put(At(i), "iParent", last),
                   Put(At(last), IF k < t.mem[At(last)].key THEN Left ELSE Right, i)>>
    IN  insertFixUp(Saved(t, IF path = <<>> THEN <<Put(Root, "iRootAddr", i)>> ELSE below), i)

\* nextItem to the right, prevItem to the left: the neighbour in the order of the keys.
Neighbour(m, side, c) ==
    LET up == Follow(m, c, "iParent")
        turn == {n \in 1..(Len(up) - 1) : m[At(up[n + 1])][side] # up[n]}
    IN  IF m[At(c)][side] # 0 THEN Last(Follow(m, m[At(c)][side], Other(side)))
        ELSE IF turn = {} THEN 0
        ELSE up[1 + CHOOSE n \in turn : \A o \in turn : n <= o]

\* lower_bound and upper_bound; 0 is end().
Bound(m, k, below(_, _)) ==
    LET last == Last(Path(m, k))
    IN  IF m[Root].iRootAddr = 0 THEN 0
        ELSE IF below(m[At(last)].key, k) THEN Neighbour(m, Right, last) ELSE last

lower_bound(m, k) == Bound(m, k, <)
upper_bound(m, k) == Bound(m, k, LAMBDA a, b : a <= b)

-----------------------------------------------------------------------------
(* A block and the lists                                                   *)

Units(c) == Append(Block(c).chunks, c)

Add(t, field, n) == Saved(t, Increase(t.mem, Root, field, n))

\* Block::erase without the return of the units.
erase(t, c) ==
    LET m == t.mem
        b == m[At(c)]
        marks == Step(m, "iDirtyTail", SetList, c) \o Step(m, "iSyncTail", SetList, c)
                 \o Step(m, "iBackupTail", GetList, c)
        counts == If(b.bDirty, Increase(m, Root, "iDirtyCount", -1))
                  \o If(b.bOnlyKey, Increase(m, Root, "iOnlyKeyCount", -1))
                  \o Increase(m, Root, "iElementCount", -1)
    IN  Saved(eraseNode(t, c), marks \o Unlink(m, SetList, c) \o Unlink(m, GetList, c) \o counts)

refreshGetList(t, c) ==
    Saved(t, If(t.mem[Root].iGetHead # c,
                Step(t.mem, "iBackupTail", GetList, c) \o ToHead(t.mem, GetList, c)))

\* The get list too.
refreshSetList(t, c) ==
    LET m == t.mem
        first == m[Root].iSetHead = c
        dirty == IF m[Root].iDirtyTail = 0 THEN <<Put(Root, "iDirtyTail", c)>>
                 ELSE If(~first, Step(m, "iDirtyTail", SetList, c))
    IN  refreshGetList(Saved(t, If(~first, Step(m, "iSyncTail", SetList, c)) \o dirty
                                \o If(~first, ToHead(m, SetList, c))), c)

setDirty(t, c, dirty) ==
    IF t.mem[At(c)].bDirty = dirty THEN t
    ELSE Saved(Add(t, "iDirtyCount", IF dirty THEN 1 ELSE -1), <<Put(At(c), "bDirty", dirty)>>)

\* The parts of Block::set that come after the bytes: a new block becomes one of the map;
\* the flags, which are written without a note, and their counts, which are not.
insertNew(t, c, k) ==
    LET m == t.mem
        listed == Saved(insertRBTree(t, c, k), Insert(m, SetList, c) \o Insert(m, GetList, c))
    IN  Add(Add(listed, "iDirtyCount", 1), "iElementCount", 1)

SetFlag(t, c, flag, count, value) ==
    LET counted == IF t.mem[At(c)][flag] = value THEN t
                   ELSE Add(t, count, IF value THEN 1 ELSE -1)
    IN  [counted EXCEPT !.mem = [@ EXCEPT ![At(c)][flag] = value]]

FlagDirty(t, c, only) == SetFlag(t, c, "bDirty", "iDirtyCount", ~only)
FlagOnlyKey(t, c, only) == SetFlag(t, c, "bOnlyKey", "iOnlyKeyCount", only)

\* What set does after Block::set.
finish(t, c) == refreshSetList(IF call.only THEN t ELSE setDirty(t, c, call.dirty), c)

-----------------------------------------------------------------------------
(* The steps that calls share                                              *)

Init ==
    /\ memory = NewMemory /\ log = <<>>
    /\ setting \in Settings
    /\ free = setting.units
    /\ step = "idle" /\ call = NoCall /\ cell = 0 /\ got = <<>> /\ loose = <<>>
    /\ evicting = -1
    /\ spoilt = FALSE /\ shared = FALSE /\ stray = 0 /\ crashes = 0

\* bound: what comes of a unit that is free and a chunk at once is left open.
May(name) == step = "idle" /\ name \in setting.calls /\ ~shared

Goto(s) == step' = s /\ UNCHANGED <<call, cell, got, loose, evicting>>
Begin(s, c) == step' = s /\ cell' = c /\ UNCHANGED <<call, got, loose, evicting>>
Leave ==
    /\ step' = "idle" /\ call' = NoCall /\ cell' = 0
    /\ got' = <<>> /\ loose' = <<>> /\ evicting' = -1

\* Block::erase: the block is out of everything at once, then its units are given back.
Erase(c) ==
    /\ Update([erase(Now, c) EXCEPT !.mem = [@ EXCEPT ![At(c)] = NewBlock]])
    /\ loose' = loose \o Units(c)

deallocate ==
    /\ loose # <<>>
    /\ free' = free \cup {loose[1]}
    /\ loose' = Tail(loose)
    /\ UNCHANGED <<memory, log, step, call, cell, got, evicting, history>>

Return ==
    /\ step = "return" /\ loose = <<>>
    /\ Leave /\ Commit(<<>>)
    /\ UNCHANGED <<free, history>>

\* The process is killed, in a call or by an assert.  In a record that is being copied
\* some bytes are old and some new; when the copy is done, the chunks that were new are
\* not chained any more, and a record without a value is not marked as such.
BetweenWrites == step \in {"flags", "flagged", "synced"}
Copied == step \in {"flags", "flagged"}
GaveBack == \E n \in DOMAIN log : log[n][2] = "chunks" /\ Len(log[n][3]) > call.chunks + Len(loose)

Tears == Copied /\ (call.only \/ Len(doRecover[At(cell)].chunks) < call.chunks)

Die ==
    /\ Leave /\ log' = <<>>
    /\ \E torn \in BOOLEAN :
         /\ torn => step = "copy" \/ Tears
         /\ Tears => torn
         /\ memory' = IF call.fresh /\ cell # 0 THEN [doRecover EXCEPT ![At(cell)] = NewBlock]
                      ELSE IF torn THEN [doRecover EXCEPT ![At(cell)].data = "torn"]
                      ELSE doRecover
    /\ spoilt' = (spoilt \/ BetweenWrites)
    /\ shared' = (shared \/ GaveBack)
    /\ UNCHANGED <<free, stray, setting>>

-----------------------------------------------------------------------------
(* set                                                                     *)

\* bound: which keys a setting sets: any, or new ones only, in falling order, or in rising
\* order as long as none is missing.
Ordered(k) ==
    LET keys == {Block(c).key : c \in Range(Follow(memory, Map.iSetHead, "iSetNext"))}
    IN  CASE setting.order = "any" -> TRUE
          [] setting.order = "new" -> k \notin keys
          [] setting.order = "up" -> keys = 1..(k - 1)
          [] setting.order = "down" -> \A other \in keys : k < other

\* set(k, v, bDirty), and set(k), only.
Set(k, n, only, dirty) ==
    /\ May("set") /\ Ordered(k)
    /\ call' = [key |-> k, chunks |-> n, only |-> only, dirty |-> dirty,
                fresh |-> Found(k) = {}]
    /\ IF Found(k) = {} THEN step' = "allocateMemBlock" /\ cell' = 0
       ELSE step' = "allocate" /\ cell' \in Found(k)
    /\ UNCHANGED <<memory, log, free, got, loose, evicting, history>>

\* A unit that is free; which one makes no difference.
Unit == IF call.key \in free THEN call.key ELSE CHOOSE c \in free : \A d \in free : c <= d

\* The new block, of makeNew, is not in the tree before the bytes are there.
allocateMemBlock ==
    /\ step = "allocateMemBlock" /\ evicting = -1 /\ loose = <<>> /\ free # {}
    /\ cell' = Unit /\ free' = free \ {Unit}
    /\ memory' = [memory EXCEPT ![At(Unit)] = NewBlock]
    /\ step' = "allocate"
    /\ UNCHANGED <<log, call, got, loose, evicting, history>>

\* Block::allocate: the chunks that are too many are cut off, and given back while the
\* note of the cut is still there.
Shrink ==
    /\ step = "allocate" /\ loose = <<>>
    /\ LET old == Block(cell).chunks
           n == call.chunks
           t == Saved(Now, <<Put(At(cell), "chunks", SubSeq(old, 1, n))>>)
       IN  /\ Len(old) > n
           /\ memory' = t.mem /\ log' = t.log
           /\ loose' = SubSeq(old, n + 1, Len(old))
    /\ UNCHANGED <<free, step, call, cell, got, evicting, history>>

Missing == call.chunks - Len(Block(cell).chunks) - Len(got)

allocateChunk ==
    /\ step = "allocate" /\ evicting = -1 /\ free # {} /\ loose = <<>>
    /\ Missing > 0
    /\ got' = Append(got, Unit) /\ free' = free \ {Unit}
    /\ UNCHANGED <<memory, log, step, call, cell, loose, evicting, history>>

\* eraseExcept, when there is no unit left: the oldest block but the one that is being
\* set, by the list that _cEraseMode names.
Starved ==
    /\ free = {} /\ loose = <<>> /\ evicting = -1
    /\ \/ step = "allocateMemBlock"
       \/ step = "allocate" /\ Missing > 0

Victim ==
    LET list == IF setting.mode = "set" THEN SetList ELSE GetList
        oldest == Map[list.tail]
    IN  IF oldest = cell /\ oldest # 0 THEN Block(oldest)[list.prev] ELSE oldest

StartEvicting ==
    /\ Starved /\ setting.mode # "none"
    /\ evicting' = 0
    /\ Commit(<<>>)
    /\ UNCHANGED <<free, step, call, cell, got, loose, history>>

\* A block with a key only is erased and not counted.
Evict ==
    /\ evicting \in 0..(EraseCount - 1) /\ loose = <<>> /\ Victim # 0
    /\ evicting' = IF Block(Victim).bOnlyKey THEN evicting ELSE evicting + 1
    /\ Erase(Victim)
    /\ UNCHANGED <<free, step, call, cell, got, history>>

Evicted ==
    /\ loose = <<>> /\ evicting > 0
    /\ evicting = EraseCount \/ Victim = 0
    /\ evicting' = -1
    /\ UNCHANGED <<memory, log, free, step, call, cell, got, loose, history>>

\* RT_NO_MEMORY: the chunks are given back.
NoMemory ==
    /\ \/ Starved /\ setting.mode = "none"
       \/ loose = <<>> /\ evicting = 0 /\ Victim = 0
    /\ step' = IF step = "allocate" /\ call.fresh THEN "undo" ELSE "return"
    /\ loose' = got /\ got' = <<>> /\ evicting' = -1
    /\ UNCHANGED <<memory, log, free, call, cell, history>>

\* Then a new block is erased; it is on no list, so an assert of Block::erase fails.
Undo ==
    /\ step = "undo" /\ loose = <<>>
    /\ Die /\ UNCHANGED crashes

Fits == step = "allocate" /\ loose = <<>> /\ evicting = -1 /\ Missing = 0

\* A new block: the bytes, then the rest of Block::set and of set.  getLastBlock reads the
\* records on the path, and its assert fails when one cannot be read.
SetNew ==
    /\ Fits /\ call.fresh
    /\ LET whole == [Now EXCEPT !.mem = [@ EXCEPT ![At(cell)] =
                        [@ EXCEPT !.key = call.key, !.data = "whole", !.chunks = got]]]
           inMap == insertNew(whole, cell, call.key)
       IN  Update(finish(FlagOnlyKey(FlagDirty(inMap, cell, call.only), cell, call.only), cell))
    /\ Leave
    /\ UNCHANGED <<free, history>>

PathUnreadable == Fits /\ call.fresh /\ \E c \in Range(Path(memory, call.key)) : Torn(c)

\* A block of the map: joinChunk, the copy, the two flags, the rest.
joinChunk ==
    /\ Fits /\ ~call.fresh
    /\ LET t == Saved(Now, If(got # <<>>, <<Put(At(cell), "chunks", Block(cell).chunks \o got)>>))
       IN  memory' = t.mem /\ log' = t.log
    /\ got' = <<>> /\ step' = "copy"
    /\ UNCHANGED <<free, call, cell, loose, evicting, history>>

CopyData ==
    /\ step = "copy"
    /\ LET whole == [Now EXCEPT !.mem = [@ EXCEPT ![At(cell)].data = "whole"]]
           t == FlagDirty(whole, cell, call.only)
       IN  memory' = t.mem /\ log' = t.log
    /\ Goto("flags")
    /\ UNCHANGED <<free, history>>

WriteOnlyKey ==
    /\ step = "flags"
    /\ LET t == FlagOnlyKey(Now, cell, call.only) IN memory' = t.mem /\ log' = t.log
    /\ Goto("flagged")
    /\ UNCHANGED <<free, history>>

Finish ==
    /\ step = "flagged"
    /\ Update(finish(Now, cell))
    /\ Leave
    /\ UNCHANGED <<free, history>>

-----------------------------------------------------------------------------
(* get, del, setDirty, setClean, erase, clear.  Where a value is torn, the  *)
(* process may be killed instead: then nothing is changed.                  *)

Get(k) ==
    /\ May("get")
    /\ \E c \in Found(k) : ~Block(c).bOnlyKey /\ Update(refreshGetList(Now, c))
    /\ UNCHANGED <<free, process, history>>

Del(k) ==
    /\ May("del")
    /\ \E c \in Found(k) : Erase(c)
    /\ step' = "return"
    /\ UNCHANGED <<free, call, cell, got, evicting, history>>

\* setDirty and setClean.
SetDirty(k, dirty) ==
    /\ May("setDirty")
    /\ \E c \in Found(k) :
         ~Block(c).bOnlyKey /\ Update(refreshSetList(setDirty(Now, c, dirty), c))
    /\ UNCHANGED <<free, process, history>>

\* erase(radio, data, bCheckDirty), when more is used than radio allows: the block at
\* the tail of the get list goes, unless it is dirty and that matters.
EraseTail ==
    /\ May("erase") /\ Map.iGetTail # 0
    /\ Erase(Map.iGetTail)
    /\ step' = "return"
    /\ UNCHANGED <<free, call, cell, got, evicting, history>>

KeepDirtyTail ==
    LET c == Map.iGetTail
    IN  /\ May("erase") /\ c # 0 /\ Block(c).bDirty
        /\ Write("iDirtyTail", IF Map.iDirtyTail = 0 THEN c ELSE Map.iDirtyTail)
        /\ UNCHANGED <<free, process, history>>

\* clear forgets iOnlyKeyCount.
Clear ==
    /\ May("clear")
    /\ stray = 0    \* bound
    /\ memory' = [NewMemory EXCEPT ![Root].iOnlyKeyCount = Map.iOnlyKeyCount]
    /\ free' = setting.units
    /\ stray' = Map.iOnlyKeyCount /\ spoilt' = FALSE
    /\ UNCHANGED <<log, process, shared, crashes, setting>>

-----------------------------------------------------------------------------
(* Writing back and backing up: the marks are written without a note       *)

\* sync() begins to write back.
StartSync ==
    /\ May("sync")
    /\ Write("iSyncTail", Map.iDirtyTail)
    /\ UNCHANGED <<free, process, history>>

\* sync(iNowTime, data) goes on by a block.
Sync ==
    /\ May("sync") /\ Map.iSyncTail # 0
    /\ Write("iSyncTail", Block(Map.iSyncTail).iSetPrev)
    /\ Begin("sync", Map.iSyncTail)
    /\ UNCHANGED <<free, history>>

DirtyTailPassed(m) == Updated(Step(m, "iDirtyTail", SetList, cell), m)

\* A block that is clean, or has a key only.
SyncPasses ==
    /\ step = "sync" /\ (~Block(cell).bDirty \/ Block(cell).bOnlyKey)
    /\ memory' = DirtyTailPassed(memory)
    /\ Leave
    /\ UNCHANGED <<log, free, history>>

\* A dirty one: its time has not come, or it is handed out to be written back.
SyncLater ==
    /\ step = "sync" /\ Block(cell).bDirty /\ ~Block(cell).bOnlyKey
    /\ Leave
    /\ UNCHANGED <<memory, log, free, history>>

SyncDue ==
    /\ step = "sync" /\ Block(cell).bDirty /\ ~Block(cell).bOnlyKey
    /\ LET t == setDirty(Now, cell, FALSE)
       IN  memory' = DirtyTailPassed(t.mem) /\ log' = t.log
    /\ Goto("synced")
    /\ UNCHANGED <<free, history>>

NeedSync ==
    /\ step = "synced"
    /\ Commit(<<>>)
    /\ Leave
    /\ UNCHANGED <<free, history>>

\* backup(bForceFromBegin) and backup(data).
StartBackup ==
    /\ May("backup")
    /\ Write("iBackupTail", Map.iGetTail)
    /\ UNCHANGED <<free, process, history>>

Backup ==
    /\ May("backup") /\ Map.iBackupTail # 0
    /\ Write("iBackupTail", Block(Map.iBackupTail).iGetPrev)
    /\ UNCHANGED <<free, process, history>>

-----------------------------------------------------------------------------
\* A call that fails before it writes anything, or that only reads.
Fruitless == step = "idle" /\ UNCHANGED vars

\* The assert of getBlockData fails on a torn value.
AssertFails ==
    /\ \/ PathUnreadable
       \/ evicting # -1 /\ loose = <<>> /\ Victim # 0 /\ Torn(Victim)
       \/ step = "sync" /\ Block(cell).bDirty /\ Torn(cell)
    /\ Die /\ UNCHANGED crashes

Crash ==
    /\ step # "idle"
    /\ crashes < setting.crashes   \* bound
    /\ crashes' = crashes + 1
    /\ Die

SetCall == \E k \in setting.keys :
    \/ \E n \in setting.chunks, dirty \in setting.dirty : Set(k, n, FALSE, dirty)
    \/ "only" \in setting.calls /\ Set(k, 0, TRUE, FALSE)

SetStep == allocateMemBlock \/ Shrink \/ allocateChunk \/ joinChunk \/ StartEvicting \/ Evict
           \/ Evicted \/ NoMemory \/ Undo \/ SetNew \/ CopyData \/ WriteOnlyKey \/ Finish

KeyCall == \E k \in setting.keys : Get(k) \/ Del(k) \/ \E dirty \in BOOLEAN : SetDirty(k, dirty)

Others == EraseTail \/ KeepDirtyTail \/ Clear \/ deallocate \/ Return

Syncing == StartSync \/ Sync \/ SyncPasses \/ SyncLater \/ SyncDue \/ NeedSync
           \/ StartBackup \/ Backup

Next == SetCall \/ SetStep \/ KeyCall \/ Others \/ Syncing \/ Fruitless \/ AssertFails \/ Crash

Spec == Init /\ [][Next]_vars

-----------------------------------------------------------------------------
(* Properties.  All of them are about what the next call finds, when the   *)
(* process is killed now.                                                  *)

TypeOK ==
    /\ DOMAIN memory = DOMAIN NewMemory /\ DOMAIN Map = DOMAIN NewHead
    /\ \A c \in Cells : /\ DOMAIN Block(c) = DOMAIN NewBlock
                        /\ Block(c).iColor \in {RED, BLACK}
                        /\ Block(c).key \in Keys \cup {NoKey}
                        /\ Block(c).data \in {"none", "whole", "torn"}
                        /\ Range(Block(c).chunks) \subseteq Cells
    /\ free \subseteq Cells
    /\ cell \in Cells \cup {0} /\ Range(got) \cup Range(loose) \subseteq Cells
    /\ evicting \in -1..EraseCount
    /\ call.key \in Keys \cup {NoKey}
    /\ spoilt \in BOOLEAN /\ shared \in BOOLEAN /\ stray \in Int
    /\ crashes \in 0..setting.crashes /\ setting \in Settings

\* The nodes below c in order, and how many black ones lead down from it; depth keeps a
\* circle from being followed for ever.
RECURSIVE InOrder(_, _, _), Heights(_, _, _)
InOrder(m, c, depth) ==
    IF c = 0 \/ depth = 0 THEN <<>>
    ELSE InOrder(m, m[At(c)].iLeftChild, depth - 1) \o <<c>>
         \o InOrder(m, m[At(c)].iRightChild, depth - 1)
Heights(m, c, depth) ==
    IF c = 0 \/ depth = 0 THEN {0}
    ELSE {h + Color(m, c) : h \in Heights(m, m[At(c)].iLeftChild, depth - 1)
                                  \cup Heights(m, m[At(c)].iRightChild, depth - 1)}

Nodes(m) == InOrder(m, m[Root].iRootAddr, Cardinality(Cells))

FirstOf(nodes) == IF nodes = <<>> THEN 0 ELSE Head(nodes)

\* The tree is a red-black tree in the order of its keys, whose nodes know their parents,
\* whatever call a process is killed in (tc_rbtree.cpp:141-512, 3075): a lookup is short
\* and comes to its key, and the iterators and the bounds give the keys in their order.
TreeIsSound ==
    LET m == doRecover
        root == m[Root].iRootAddr
        nodes == Nodes(m)
        key(c) == m[At(c)].key
    IN  /\ \A n \in 1..(Len(nodes) - 1) : key(nodes[n]) < key(nodes[n + 1])
        /\ root # 0 => m[At(root)].iParent = 0 /\ Color(m, root) = BLACK
        /\ \A c \in Range(nodes), side \in {Left, Right} :
             LET child == m[At(c)][side]
             IN  child # 0 => /\ m[At(child)].iParent = c
                              /\ Color(m, c) = BLACK \/ Color(m, child) = BLACK
        /\ Cardinality(Heights(m, root, Cardinality(Cells))) = 1
        /\ \A n \in 1..(Len(nodes) - 1) : /\ Neighbour(m, Right, nodes[n]) = nodes[n + 1]
                                          /\ Neighbour(m, Left, nodes[n + 1]) = nodes[n]
        /\ \A k \in setting.keys :
             /\ lower_bound(m, k) = FirstOf(SelectSeq(nodes, LAMBDA c : key(c) >= k))
             /\ upper_bound(m, k) = FirstOf(SelectSeq(nodes, LAMBDA c : key(c) > k))

\* The lists hold the nodes of the tree, the marks are on them, and no unit is in two
\* places, unless a process was killed after it had given chunks back and before its call
\* was over: then the chunks are in the block again and free (tc_rbtree.cpp:1188, 1210).
StaysUsable ==
    LET m == doRecover
        nodes == Nodes(m)
        owned == FlattenSeq([n \in DOMAIN nodes |-> Append(m[At(nodes[n])].chunks, nodes[n])])
    IN  /\ SoundList(m, SetList, Range(nodes)) /\ SoundList(m, GetList, Range(nodes))
        /\ {m[Root].iDirtyTail, m[Root].iSyncTail, m[Root].iBackupTail}
              \subseteq Range(nodes) \cup {0}
        /\ ~shared /\ ~GaveBack => IsInjective(owned) /\ Range(owned) \cap free = {}
        /\ Range(owned) \cap Range(got) = {}

\* The counts are those of the blocks: of all of them at any time, of the dirty ones and
\* those with a key only between two calls, unless a process was killed between a flag
\* and its count.
CountsAgree ==
    LET nodes == Range(Nodes(doRecover))
    IN  /\ doRecover[Root].iElementCount = Cardinality(nodes)
        /\ (step = "idle" /\ ~spoilt) =>
             /\ Map.iDirtyCount = Cardinality({c \in nodes : Block(c).bDirty})
             /\ Map.iOnlyKeyCount = stray + Cardinality({c \in nodes : Block(c).bOnlyKey})

\* sync(), which begins at the mark of the dirty blocks, comes to each of them, unless a
\* process was killed between a flag and its count.
DirtyIsReached ==
    (step = "idle" /\ ~spoilt) =>
        {c \in Range(Nodes(memory)) : Block(c).bDirty}
            \subseteq Ahead(memory, "iDirtyTail", SetList)

\* A block that stays in the map stays ahead of the mark of a backup or of a round of
\* writing back until the round itself comes to it.
NothingSkipped ==
    [][memory' # memory =>
       LET kept == {c \in Range(Nodes(memory)) \cap Range(Nodes(memory')) :
                      Block(c).key = Block(c)'.key}
           inBackup == kept \cap (Ahead(memory, "iBackupTail", GetList)
                                 \ Ahead(memory', "iBackupTail", GetList))
           inSync == kept \cap (Ahead(memory, "iSyncTail", SetList)
                               \ Ahead(memory', "iSyncTail", SetList))
           dirty == kept \cap (Ahead(memory, "iDirtyTail", SetList)
                              \ Ahead(memory', "iDirtyTail", SetList))
       IN  /\ inBackup # {} => inBackup = {Map.iBackupTail} /\ step = "idle" /\ step' = "idle"
           /\ inSync # {} => inSync = {Map.iSyncTail} /\ step' = "sync"
           /\ \A c \in dirty : ~Block(c)'.bDirty \/ Block(c).bOnlyKey]_vars
=============================================================================
