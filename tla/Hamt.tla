-------------------------------- MODULE Hamt --------------------------------
(***************************************************************************)
(* The index (hamt.rs) and the open that rebuilds what the vault knows of  *)
(* it (vault.rs: resume_unsettled, settle_step, finish_open,               *)
(* open_repairing): a copy-on-write trie over the tract, keys routed by    *)
(* their chunks, values as one leaf or as an extent over furrows.          *)
(*                                                                         *)
(* The tract is the sequence of its blocks, never reused within a session  *)
(* (Vault is about reuse), so a position identifies a block as the code's  *)
(* (hash, position) pair does.  Space is a choice: any append may be       *)
(* refused.                                                                *)
(***************************************************************************)
EXTENDS Integers, FiniteSets, Sequences, SequencesExt, FiniteSetsExt, TLC

CONSTANTS
    Chunks,    \* the fan-out of a node
    Keys,      \* sequences of chunks, all of one length
    Values,
    Big,       \* the values that take furrows
    Absent,
    Furrows,   \* furrows of a big value
    Windows,   \* sizes of a reap window
    WalkStep,  \* pointers one step of the open's walk reads
    MaxOps     \* bound on the operations of a behaviour

ASSUME HamtAssumption ==
    /\ Big \subseteq Values /\ Absent \notin Values
    /\ Furrows \in Nat \ {0} /\ WalkStep \in Nat \ {0}
    /\ MaxOps \in Nat
    /\ Chunks \subseteq Nat /\ IsFiniteSet(Chunks)
    /\ Keys # {} /\ Keys \subseteq Seq(Chunks)
    /\ \A j, k \in Keys : Len(j) = Len(k) /\ Len(k) > 0
    /\ \A w \in Windows : w \in Nat

VARIABLES
    \* On the media
    tract,    \* the blocks, by position
    head,     \* the committed root, and the plow and live count of its entry
    \* In memory
    mem,      \* the slots the session has of its own: path -> child
    delta,    \* blocks added and removed since the last commit
    live,     \* LiveSet
    reap, pendingReap,
    pc,
    work,     \* what the operation under way has still to do
    \* History, not in the code
    want,     \* the map as the session has it
    saved,    \* the map as the committed head has it
    lost,     \* the keys a lost block or a cut erase may have hurt, in the
              \* session and in the head; past: the session went back to such a head
    stray,    \* a batch's own blocks in a window reaped under it
    ops       \* operations so far

index == <<mem, delta>>
space == <<reap, pendingReap, live>>
ghosts == <<want, saved, lost, stray>>
vars == <<tract, head, index, space, pc, work, ghosts, ops>>

(***************************************************************************)
(* Blocks, and what a read of one says.                                    *)
(***************************************************************************)
Node(path, kids) == [kind |-> "node", path |-> path, kids |-> kids]
Lone(key, value) == [kind |-> "lone", key |-> key, value |-> value]
Extent(key, runs) == [kind |-> "extent", key |-> key, runs |-> runs]
Furrow(key, i, value) ==
    [kind |-> "furrow", key |-> key, i |-> i, value |-> value]
Zero == [kind |-> "zero"]
Bad == [kind |-> "bad"]
Dead == [kind |-> "dead"]   \* nothing reads it any more

Nil == 0      \* no child
Dirty == -1   \* a node in the arena

Kind(c) == IF c = Nil THEN "none" ELSE IF c = Dirty THEN "node" ELSE tract[c].kind
Sealed(c) == Kind(c) \notin {"none", "zero", "bad", "dead"}
IsLeaf(c) == Kind(c) \in {"lone", "extent"}
Plow == Len(tract)

\* Runs of consecutive positions, and the positions of a list of runs.
Joined(runs, p) ==
    IF runs # <<>> /\ Last(runs)[1] + Last(runs)[2] = p
    THEN Append(Front(runs), <<Last(runs)[1], Last(runs)[2] + 1>>)
    ELSE Append(runs, <<p, 1>>)

CompressRuns(positions) ==
    LET runs[n \in 0 .. Len(positions)] ==
            IF n = 0 THEN <<>> ELSE Joined(runs[n - 1], positions[n])
    IN  runs[Len(positions)]

ExpandRuns(runs) ==
    FlattenSeq([n \in 1 .. Len(runs) |->
                    [j \in 1 .. runs[n][2] |-> runs[n][1] + j - 1]])

FurrowsOf(c) == IF Kind(c) = "extent" THEN ExpandRuns(tract[c].runs) ELSE <<>>

\* The furrows of a leaf as read_furrows and repair_check_furrows verify them.
FurrowsSound(c) ==
    \A j \in DOMAIN FurrowsOf(c) :
        LET b == tract[FurrowsOf(c)[j]]
        IN  b.kind = "furrow" /\ b.key = tract[c].key /\ b.i = j

(***************************************************************************)
(* The trie: the arena's slots over the committed nodes.                   *)
(***************************************************************************)
Prefix(k, n) == SubSeq(k, 1, n)
Above(q) == {Prefix(q, n) : n \in 0 .. (Len(q) - 1)}
Paths == UNION {{Prefix(k, n) : n \in 0 .. Len(k)} : k \in Keys}

Routes == Paths \cup {Append(p, c) : p \in Paths, c \in Chunks}

\* The child in slot s of a committed node.
Kid(c, s) == IF c > 0 /\ Kind(c) = "node" THEN tract[c].kids[s] ELSE Nil

Slot(m, q) ==
    LET at[p \in Routes] ==
            IF p \in DOMAIN m THEN m[p]
            ELSE IF p = <<>> THEN Nil ELSE Kid(at[Front(p)], Last(p))
    IN  at[q]

\* Where the descent along k leaves the nodes.
End(m, k) ==
    Prefix(k, CHOOSE n \in 0 .. Len(k) :
        /\ Kind(Slot(m, Prefix(k, n))) # "node"
        /\ \A j \in 0 .. (n - 1) : Kind(Slot(m, Prefix(k, j))) = "node")

\* The leaf of k, or Nil (a zeroed leaf is no leaf).
FindLeaf(m, k) ==
    LET c == Slot(m, End(m, k))
    IN  IF IsLeaf(c) /\ tract[c].key = k THEN c ELSE Nil

Lookup(m, k) ==
    LET c == Slot(m, End(m, k))
        values == {tract[FurrowsOf(c)[j]].value : j \in DOMAIN FurrowsOf(c)}
    IN  IF Kind(c) = "bad" THEN "err"
        ELSE IF FindLeaf(m, k) = Nil THEN Absent
        ELSE IF Kind(c) = "lone" THEN tract[c].value
        ELSE IF ~FurrowsSound(c) THEN "err"
        ELSE IF Cardinality(values) = 1 THEN CHOOSE v \in values : TRUE
        ELSE "mixed"

\* The slots in `over` changed, every node above them in the arena.
Thread(m, over) ==
    LET arena == UNION {Above(q) : q \in DOMAIN over}
    IN  [q \in DOMAIN m \cup DOMAIN over
                \cup {Append(p, c) : p \in arena, c \in Chunks} |->
            IF q \in arena THEN Dirty
            ELSE IF q \in DOMAIN over THEN over[q]
            ELSE Slot(m, q)]

\* The committed nodes that change supersedes.
Superseded(m, over) ==
    {c \in {Slot(m, q) : q \in UNION {Above(p) : p \in DOMAIN over}} :
        c # Dirty /\ Kind(c) = "node"}

\* remove_leaf_blocks: the leaf, and the furrows of it that still have a seal.
LeafBlocks(c) == {c} \cup {f \in ToSet(FurrowsOf(c)) : Sealed(f)}

\* Everything the index m reaches.
Children(m) == {Slot(m, q) : q \in Paths} \ {Nil, Dirty}

\* What the tree-only walk takes for live: furrows by position, unread.
Walked(m) ==
    UNION {{c} \cup ToSet(FurrowsOf(c)) : c \in {c \in Children(m) : Sealed(c)}}

Reach(m) == {c \in Walked(m) : Sealed(c)}

\* The one slot q, holding c.
At(q, c) == [p \in {q} |-> c]

FromRoot(c) == At(<<>>, c)
Root(m) == m[<<>>]
NoDelta == [added |-> {}, removed |-> {}]
HasUncommitted == Root(mem) = Dirty \/ delta # NoDelta

\* Mutant: the removals applied before the additions.
LiveSetApplyRemovedFirst == (live \ delta.removed) \cup delta.added

LiveSetApply == (live \cup delta.added) \ delta.removed

\* One change of the index: the slots, and the blocks it adds and removes.
Change(over, adds, drops) ==
    /\ mem' = Thread(mem, over)
    /\ delta' = [added   |-> delta.added \cup adds,
                 removed |-> delta.removed \cup drops \cup Superseded(mem, over)]

(***************************************************************************)
(* Put and delete.                                                         *)
(***************************************************************************)
Idle == pc = "idle" /\ work.settled

Op == ops < MaxOps /\ ops' = ops + 1

\* The blocks a put appends: the furrows, then the leaf over them.
Blocks(k, v) ==
    IF v \in Big
    THEN [j \in 1 .. Furrows |-> Furrow(k, j, v)]
             \o <<Extent(k, CompressRuns([j \in 1 .. Furrows |-> Plow + j]))>>
    ELSE <<Lone(k, v)>>

Common(j, k) == CHOOSE n \in 0 .. Len(k) :
    /\ Prefix(j, n) = Prefix(k, n)
    /\ n = Len(k) \/ j[n + 1] # k[n + 1]

\* Mutant: a leaf of another key is taken for an older one of this key.
InsertionUnsplit(k, leaf) == At(End(mem, k), leaf)

\* insert_child: the new leaf in a free slot, over a zeroed or an older leaf of
\* its key, or beside the leaf of another key under a chain of new nodes.
Insertion(k, leaf) ==
    LET q == End(mem, k)
        c == Slot(mem, q)
        o == IF IsLeaf(c) THEN tract[c].key ELSE k
        n == Common(o, k) + 1
    IN  IF o = k THEN At(q, leaf)
        ELSE [p \in {Prefix(k, n), Prefix(o, n)} |-> IF p = Prefix(k, n) THEN leaf ELSE c]

Put(k, v) ==
    LET new == Blocks(k, v)
        old == FindLeaf(mem, k)
    IN  /\ Idle /\ Op
        /\ Kind(Slot(mem, End(mem, k))) # "bad"
        /\ tract' = tract \o new
        /\ Change(Insertion(k, Plow + Len(new)),
                  (Plow + 1) .. (Plow + Len(new)),
                  IF old = Nil THEN {} ELSE LeafBlocks(old))
        /\ want' = [want EXCEPT ![k] = v]
        /\ lost' = [lost EXCEPT !.mem = @ \ {k}]
        /\ UNCHANGED <<head, space, pc, work, saved, stray>>

\* The leaf of a big value is refused after its furrows landed: orphans.
PutRefused(k, v) ==
    /\ Idle /\ Op
    /\ v \in Big
    /\ tract' = tract \o Front(Blocks(k, v))
    /\ UNCHANGED <<head, index, space, pc, work, ghosts>>

Delete(k) ==
    LET leaf == FindLeaf(mem, k)
    IN  /\ Idle /\ Op
        /\ leaf # Nil
        /\ Change(At(End(mem, k), Nil), {}, LeafBlocks(leaf))
        /\ want' = [want EXCEPT ![k] = Absent]
        /\ lost' = [lost EXCEPT !.mem = @ \ {k}]
        /\ UNCHANGED <<tract, head, space, pc, work, saved, stray>>

\* Under ZeroIsErase the blocks are zeroed in place, furrows first, before the
\* unlink and long before the commit that retires them.
DeleteErasing(k) ==
    LET leaf == FindLeaf(mem, k)
    IN  /\ Idle /\ Op
        /\ leaf # Nil
        /\ lost.head = {}   \* bound: one damage at a time
        /\ delta' = [delta EXCEPT !.removed = @ \cup LeafBlocks(leaf)]
        /\ pc' = "erase"
        /\ work' = [work EXCEPT !.key = k, !.todo = Append(FurrowsOf(leaf), leaf)]
        /\ lost' = [lost EXCEPT
                        !.mem = @ \cup {k},
                        !.head = IF LeafBlocks(leaf) \cap Reach(FromRoot(head.root)) = {}
                                 THEN @ ELSE @ \cup {k}]
        /\ UNCHANGED <<tract, head, mem, space, want, saved, stray>>

ZeroDelete ==
    /\ pc = "erase"
    /\ work.todo # <<>>
    /\ tract' = [tract EXCEPT ![Head(work.todo)] = Zero]
    /\ work' = [work EXCEPT !.todo = Tail(@)]
    /\ UNCHANGED <<head, index, space, pc, ghosts, ops>>

Unlink ==
    LET k == work.key
    IN  /\ pc = "erase"
        /\ work.todo = <<>>
        /\ Change(At(End(mem, k), Nil), {}, {})
        /\ pc' = "idle"
        /\ work' = [work EXCEPT !.key = <<>>]
        /\ want' = [want EXCEPT ![k] = Absent]
        /\ lost' = [lost EXCEPT !.mem = @ \ {k}]
        /\ UNCHANGED <<tract, head, space, saved, stray, ops>>

(***************************************************************************)
(* Commit: the arena written bottom-up, then the delta applied and the     *)
(* entry landed.                                                           *)
(***************************************************************************)
Commit ==
    /\ Idle
    /\ HasUncommitted \/ pendingReap # 0 \/ Plow # head.plow
    /\ pc' = "flush"
    /\ UNCHANGED <<tract, head, index, space, work, ghosts, ops>>

\* The first node to be written: down the first dirty slot while there is one.
DirtySlots(q) == {c \in Chunks : mem[Append(q, c)] = Dirty}

FirstClean ==
    CHOOSE q \in DOMAIN mem :
        /\ mem[q] = Dirty /\ DirtySlots(q) = {}
        /\ \A n \in 1 .. Len(q) : q[n] = Min(DirtySlots(Prefix(q, n - 1)))

\* Mutant: the slots of the node written stay in the arena.
FlushNodeKeepsSlots ==
    LET q == FirstClean
    IN  /\ pc = "flush"
        /\ Root(mem) = Dirty
        /\ tract' = Append(tract, Node(q, [c \in Chunks |-> mem[Append(q, c)]]))
        /\ mem' = [mem EXCEPT ![q] = Plow + 1]
        /\ delta' = [delta EXCEPT !.added = @ \cup {Plow + 1}]
        /\ UNCHANGED <<head, space, pc, work, ghosts, ops>>

FlushNode ==
    LET q == FirstClean
        below == {Append(q, c) : c \in Chunks}
    IN  /\ pc = "flush"
        /\ Root(mem) = Dirty
        /\ tract' = Append(tract, Node(q, [c \in Chunks |-> mem[Append(q, c)]]))
        /\ mem' = [p \in DOMAIN mem \ below |-> IF p = q THEN Plow + 1 ELSE mem[p]]
        /\ delta' = [delta EXCEPT !.added = @ \cup {Plow + 1}]
        /\ UNCHANGED <<head, space, pc, work, ghosts, ops>>

\* Refused: the nodes already written stay, the arena keeps the rest.  (The
\* refused commit of a repairing open is the open's error: no vault, Crash.)
FlushRefused ==
    /\ pc = "flush" /\ ~work.repair /\ Op
    /\ Root(mem) = Dirty
    /\ pc' = "idle"
    /\ work' = [work EXCEPT !.landing = FALSE]
    /\ UNCHANGED <<tract, head, index, space, ghosts>>

\* A block neither the index nor the live set has is never read again.
Forget(blocks) ==
    [l \in DOMAIN tract |->
        IF l \in blocks \cup Children(mem) \cup Walked(mem) THEN tract[l] ELSE Dead]

Land ==
    /\ pc = "flush"
    /\ Root(mem) # Dirty
    /\ live' = LiveSetApply
    /\ head' = [root |-> Root(mem), plow |-> Plow, live |-> Cardinality(live')]
    /\ delta' = NoDelta
    /\ reap' = IF pendingReap # 0 THEN pendingReap ELSE reap
    /\ pendingReap' = 0
    /\ pc' = "idle"
    /\ saved' = want
    /\ lost' = [lost EXCEPT !.head = lost.mem]
    /\ work' = [work EXCEPT !.repair = FALSE, !.landing = FALSE]
    /\ tract' = Forget(live')
    /\ UNCHANGED <<mem, want, stray, ops>>

BackToHead == [lost EXCEPT !.mem = lost.head, !.past = @ \/ lost.head # {}]

\* A barrier of the ladders: the arena dropped for the committed head.
Rollback ==
    /\ Idle
    /\ HasUncommitted
    /\ mem' = FromRoot(head.root)
    /\ delta' = NoDelta
    /\ pendingReap' = 0
    /\ want' = saved
    /\ lost' = BackToHead
    /\ UNCHANGED <<tract, head, reap, live, pc, work, saved, stray, ops>>

\* The barrier of a grow walks the tree again, and the whole of the old tract
\* awaits the reap; its own commit follows.
Grow ==
    LET committed == FromRoot(head.root)
    IN  /\ Idle /\ Op
        /\ mem' = committed
        /\ delta' = NoDelta
        /\ live' = Walked(committed)
        /\ reap' = 0 /\ pendingReap' = 0
        /\ pc' = "flush"
        /\ want' = saved
        /\ lost' = BackToHead
        /\ stray' = {}
        /\ UNCHANGED <<tract, head, work, saved>>

(***************************************************************************)
(* The reap of one window: its survivors copied to the plow.               *)
(***************************************************************************)
\* Mutant: blocks this epoch retired are moved once more.
SurvivorsUnretired(w) ==
    {l \in (reap + 1) .. (reap + w) : Sealed(l) /\ l \in live}

\* What is live, still has its seal, and was not retired by this epoch.
Survivors(w) ==
    {l \in (reap + 1) .. (reap + w) :
        Sealed(l) /\ l \in live /\ l \notin delta.removed}

ReapWindow(window) ==
    LET w == Min({window, Plow - reap})
    IN  /\ Idle /\ Op
        /\ pendingReap = 0
        /\ w > 0
        /\ pc' = "reap"
        /\ work' = [work EXCEPT !.left = Survivors(w), !.upto = reap + w]
        /\ stray' = stray \cup (delta.added \cap (reap + 1) .. (reap + w))
        /\ UNCHANGED <<tract, head, index, space, want, saved, lost>>

\* The elements of S in the order of their numbers.
SortedBy(S, number) ==
    CHOOSE f \in [1 .. Cardinality(S) -> S] :
        /\ ToSet(f) = S
        /\ \A a, b \in 1 .. Cardinality(S) :
              a < b => f[a] # f[b] /\ number[f[a]] <= number[f[b]]

LeftOf(kinds) == {l \in work.left : Kind(l) \in kinds}

FurrowGroup(k) ==
    LET group == {l \in LeftOf({"furrow"}) : tract[l].key = k}
    IN  SortedBy(group, [l \in group |-> tract[l].i])

Copies(moved) == [n \in DOMAIN moved |-> tract[moved[n]]]

\* The furrows of one owner move together, and its leaf is rebuilt over them.
MoveFurrows(k) ==
    LET moved == FurrowGroup(k)
        leaf == FindLeaf(mem, k)
        owned == leaf # Nil /\ Kind(leaf) = "extent"
        at == Plow + Len(moved) + 1
        positions ==
            [j \in 1 .. Len(FurrowsOf(leaf)) |->
                IF \E n \in DOMAIN moved : tract[moved[n]].i = j
                THEN Plow + (CHOOSE n \in DOMAIN moved : tract[moved[n]].i = j)
                ELSE FurrowsOf(leaf)[j]]
    IN  /\ pc = "reap"
        /\ moved # <<>>
        /\ work' = [work EXCEPT !.left = @ \ ToSet(moved)]
        /\ IF owned
           THEN /\ tract' = tract \o Copies(moved)
                                  \o <<Extent(k, CompressRuns(positions))>>
                /\ Change(At(End(mem, k), at), (Plow + 1) .. at,
                          ToSet(moved) \cup {leaf})
           ELSE UNCHANGED <<tract, index>>
        /\ UNCHANGED <<head, space, pc, ghosts, ops>>

\* Lones first, then extents, then nodes, each kind by position.
NextUp ==
    LET first == CHOOSE kinds \in {{"lone"}, {"extent"}, {"node"}} :
                    /\ LeftOf(kinds) # {}
                    /\ kinds = {"extent"} => LeftOf({"lone"}) = {}
                    /\ kinds = {"node"} => LeftOf({"lone", "extent"}) = {}
    IN  Min(LeftOf(first))

\* The slot a block's self-address leads to: its key's, or its own path.
Address(l) == IF Kind(l) = "node" THEN tract[l].path ELSE End(mem, tract[l].key)

MoveBlock ==
    LET l == NextUp
    IN  /\ pc = "reap"
        /\ work.left # {} /\ LeftOf({"furrow"}) = {}
        /\ work' = [work EXCEPT !.left = @ \ {l}]
        /\ IF l \in delta.removed
           THEN UNCHANGED <<tract, index>>
           ELSE /\ Slot(mem, Address(l)) = l
                /\ tract' = Append(tract, tract[l])
                /\ Change(At(Address(l), Plow + 1), {Plow + 1}, {l})
        /\ UNCHANGED <<head, space, pc, ghosts, ops>>

\* No room for a survivor, or for a rebuilt leaf after its furrows: the window
\* fails, what was moved stays moved.
ReapRefused ==
    /\ pc = "reap"
    /\ work.left # {}
    /\ \/ UNCHANGED tract
       \/ \E k \in Keys : /\ FurrowGroup(k) # <<>> /\ FindLeaf(mem, k) # Nil
                          /\ tract' = tract \o Copies(FurrowGroup(k))
    /\ pc' = "idle"
    /\ work' = [work EXCEPT !.left = {}, !.upto = 0]
    /\ UNCHANGED <<head, index, space, ghosts, ops>>

ReapStaged ==
    /\ pc = "reap"
    /\ work.left = {}
    /\ pendingReap' = work.upto
    /\ pc' = "flush"
    /\ work' = [work EXCEPT !.upto = 0]
    /\ UNCHANGED <<tract, head, index, reap, live, ghosts, ops>>

(***************************************************************************)
(* Power loss, lost blocks, and the open.                                  *)
(***************************************************************************)
NoWork == [settled |-> FALSE, failed |-> FALSE, todo |-> <<>>, out |-> {},
           stale |-> {}, left |-> {}, upto |-> 0, key |-> <<>>, repair |-> FALSE,
           landing |-> FALSE]

\* The open takes up the plow of the head: what came after is overwritten.
Crash ==
    /\ pc # "down"
    /\ tract' = SubSeq(tract, 1, head.plow)
    /\ mem' = FromRoot(head.root)
    /\ delta' = NoDelta
    /\ live' = {} /\ reap' = 0 /\ pendingReap' = 0
    /\ pc' = "down"
    /\ work' = NoWork
    /\ want' = saved
    /\ lost' = BackToHead
    /\ stray' = {}
    /\ UNCHANGED <<head, saved, ops>>

\* The keys that need block l.
Needs(l) == {k \in Keys :
    \/ \E n \in 0 .. Len(k) : Slot(mem, Prefix(k, n)) = l
    \/ l \in ToSet(FurrowsOf(FindLeaf(mem, k)))}

Rot(l) ==
    /\ pc = "down"
    /\ lost.head = {} /\ Op
    /\ l \in Reach(mem)
    /\ tract' = [tract EXCEPT ![l] = Bad]
    /\ lost' = [mem |-> lost.mem \cup Needs(l), head |-> lost.head \cup Needs(l),
                past |-> TRUE]
    /\ UNCHANGED <<head, index, space, pc, work, want, saved, stray>>

\* resume_unsettled: readable at once, the walk still to do.
OpenLazy ==
    /\ pc = "down"
    /\ pc' = "idle"
    /\ work' = [work EXCEPT !.todo = IF head.root = Nil THEN <<>> ELSE <<<<>>>>]
    /\ UNCHANGED <<tract, head, index, space, ghosts, ops>>

\* walk_tree_step: the last WalkStep pointers read together.  Those before an
\* unreadable one are taken, those after it are on no list any more.
Part == SubSeq(work.todo, Max({0, Len(work.todo) - WalkStep}) + 1, Len(work.todo))
Rest == SubSeq(work.todo, 1, Max({0, Len(work.todo) - WalkStep}))
Unreadable == {j \in DOMAIN Part : Kind(Slot(mem, Part[j])) = "bad"}
Taken == IF Unreadable = {} THEN Part ELSE SubSeq(Part, 1, Min(Unreadable) - 1)

KidsToWalk(q) ==
    LET c == Slot(mem, q)
        slots == IF Kind(c) = "node"
                 THEN {s \in Chunks : tract[c].kids[s] # Nil} ELSE {}
    IN  [j \in 1 .. Cardinality(slots) |->
            Append(q, SortedBy(slots, [s \in slots |-> s])[j])]

WalkTreeStep ==
    LET taken == {Slot(mem, Taken[j]) : j \in DOMAIN Taken}
    IN  [work EXCEPT
            !.todo = Rest \o FlattenSeq([j \in DOMAIN Taken |-> KidsToWalk(Taken[j])]),
            !.out = @ \cup UNION {{c} \cup ToSet(FurrowsOf(c)) :
                                    c \in {c \in taken : Kind(c) # "zero"}},
            !.stale = @ \cup {Taken[j] : j \in {j \in DOMAIN Taken :
                                    Kind(Slot(mem, Taken[j])) = "zero"}},
            !.failed = Unreadable # {}]

SettleStep ==
    /\ pc = "idle" /\ ~work.settled /\ ~work.failed
    /\ work.todo # <<>>
    /\ work' = WalkTreeStep
    /\ UNCHANGED <<tract, head, index, space, pc, ghosts, ops>>

\* Mutant: one block too far.
DeriveReapLong(blocks) == IF blocks = {} THEN Plow ELSE Min(blocks)

\* No live block below it: the largest clean region the live set allows.
DeriveReap(blocks) == IF blocks = {} THEN Plow ELSE Min(blocks) - 1

\* Mutant: the route ends one chunk short of the pointer.
PruneShort(pruned) ==
    Change([q \in {Prefix(p, Max({0, Len(p) - 1})) : p \in pruned} |-> Nil], {}, {})

\* Every pointer in `pruned` unlinked, along its route.
Prune(pruned) == Change([q \in pruned |-> Nil], {}, {})

\* finish_open: the damaged pointers unlinked, the live set and the reap
\* derived, and the pruned index committed at once.
FinishOpen(blocks, pruned, repairing) ==
    /\ Prune(pruned)
    /\ live' = blocks
    /\ reap' = DeriveReap(blocks)
    /\ pc' = IF pruned = {} THEN "idle" ELSE "flush"
    /\ work' = [NoWork EXCEPT !.settled = TRUE, !.landing = pruned # {},
                               !.repair = repairing /\ pruned # {}]
    /\ LET given == {k \in lost.mem : \E q \in pruned : IsPrefix(q, k)}
       IN  /\ want' = [k \in Keys |-> IF k \in given THEN Absent ELSE want[k]]
           /\ lost' = [lost EXCEPT !.mem = @ \ given]
    /\ UNCHANGED <<tract, head, pendingReap, saved, stray, ops>>

\* The commit of the pruned index was refused: a growth without the barrier, the
\* pruned index and its live set kept, and its own commit.
GrowPreserving ==
    /\ pc = "flush" /\ work.landing
    /\ Root(mem) = Dirty
    /\ reap' = 0 /\ pendingReap' = 0
    /\ work' = [work EXCEPT !.landing = FALSE]
    /\ UNCHANGED <<tract, head, index, live, pc, ghosts, ops>>

Settle ==
    /\ pc = "idle" /\ ~work.settled /\ ~work.failed
    /\ work.todo = <<>>
    /\ FinishOpen(work.out, work.stale, FALSE)

\* walk_live_repair: every pointer whose block, or a furrow of it, is not what
\* it should be.
Broken(q) ==
    LET c == Slot(mem, q)
    IN  c # Nil /\ (~Sealed(c) \/ ~FurrowsSound(c))

OpenRepairing ==
    LET pruned == {q \in Paths : Broken(q)}
        sound == {Slot(mem, q) : q \in Paths \ pruned} \ {Nil}
    IN  /\ pc = "down"
        /\ FinishOpen(UNION {{c} \cup ToSet(FurrowsOf(c)) : c \in sound}, pruned, TRUE)

(***************************************************************************)
(* The inspector (inspect.rs), which reads one device and knows nothing of *)
(* the session: every block from the head's root verified against the path *)
(* that led to it, the furrows against their leaf, and the count.          *)
(***************************************************************************)
\* Mutant: furrows taken by their positions, unread.
InspectSoundUnread(q, c) ==
    /\ Sealed(c)
    /\ IsLeaf(c) => IsPrefix(q, tract[c].key)
    /\ Kind(c) = "node" => Len(tract[c].path) = Len(q)

InspectSound(q, c) ==
    /\ Sealed(c) /\ FurrowsSound(c)
    /\ IsLeaf(c) => IsPrefix(q, tract[c].key)
    /\ Kind(c) = "node" => Len(tract[c].path) = Len(q)

\* A zeroed target is a stale pointer: legal, not live.
InspectTree ==
    {t \in {<<q, Slot(FromRoot(head.root), q)>> : q \in Paths} :
        Kind(t[2]) \notin {"none", "zero"}}

InspectPasses ==
    /\ \A t \in InspectTree : InspectSound(t[1], t[2])
    /\ Cardinality(UNION {{t[2]} \cup ToSet(FurrowsOf(t[2])) : t \in InspectTree})
         = head.live

Init ==
    /\ tract = <<>>
    /\ head = [root |-> Nil, plow |-> 0, live |-> 0]
    /\ mem = FromRoot(Nil)
    /\ delta = NoDelta
    /\ live = {} /\ reap = 0 /\ pendingReap = 0
    /\ pc = "idle"
    /\ work = [NoWork EXCEPT !.settled = TRUE]
    /\ want = [k \in Keys |-> Absent]
    /\ saved = want
    /\ lost = [mem |-> {}, head |-> {}, past |-> FALSE]
    /\ stray = {}
    /\ ops = 0

Next ==
    \/ \E k \in Keys, v \in Values : Put(k, v)
    \/ \E k \in Keys, v \in Values : PutRefused(k, v)
    \/ \E k \in Keys : Delete(k)
    \/ \E k \in Keys : DeleteErasing(k)
    \/ ZeroDelete
    \/ Unlink
    \/ Commit
    \/ FlushNode
    \/ FlushRefused
    \/ Land
    \/ Rollback
    \/ Grow
    \/ \E w \in Windows : ReapWindow(w)
    \/ \E k \in Keys : MoveFurrows(k)
    \/ MoveBlock
    \/ ReapRefused
    \/ ReapStaged
    \/ Crash
    \/ \E l \in DOMAIN tract : Rot(l)
    \/ OpenLazy
    \/ SettleStep
    \/ Settle
    \/ OpenRepairing
    \/ GrowPreserving

Spec == Init /\ [][Next]_vars

(***************************************************************************)
(* Properties.                                                             *)
(***************************************************************************)
\* Types; every dirty node has all its slots in memory and a dirty parent.
TypeOK ==
    /\ ops <= MaxOps /\ head.plow <= Plow /\ head.root \in 0 .. head.plow
    /\ DOMAIN mem \subseteq Routes
    /\ \A q \in DOMAIN mem :
        /\ mem[q] \in {Dirty} \cup 0 .. Plow
        /\ q # <<>> => Front(q) \in DOMAIN mem /\ mem[Front(q)] = Dirty
        /\ mem[q] = Dirty => \A c \in Chunks : Append(q, c) \in DOMAIN mem
    /\ delta.added \subseteq 1 .. Plow /\ delta.removed \subseteq 1 .. Plow
    /\ live \subseteq 1 .. Plow
    /\ reap \in 0 .. Plow /\ pendingReap \in 0 .. Plow
    /\ pc \in {"down", "idle", "erase", "flush", "reap"}
    /\ want \in [Keys -> Values \cup {Absent}]
    /\ saved \in [Keys -> Values \cup {Absent}]

\* A key the index m should answer v for; a key hurt by a lost block or by an
\* erase that was cut reads as gone or fails, never as something else.
Answers(m, v, hurt) ==
    \A k \in Keys :
        \/ Lookup(m, k) = v[k]
        \/ k \in hurt /\ Lookup(m, k) \in {Absent, "err"}

\* Whatever splits, overwrites, prunes, moves and half-flushed arenas came
\* before, settled or not, the session's index answers every get with the last
\* value put (Hamt::lookup, insert_child, prune, reap_window).
IndexAnswers == pc \in {"idle", "flush", "reap"} => Answers(mem, want, lost.mem)

\* At every step the committed head alone answers with what was committed: no
\* in-place erase, no move and no lost block takes another key with it
\* (Hamt::delete under ZeroIsErase, Vault::finish_open).
HeadAnswers == Answers(FromRoot(head.root), saved, lost.head)

\* The live set under the delta is what the index reaches, block for block
\* (Vault::live_map_divergence); a block without a seal is nobody's.
LiveIsIndex ==
    Idle => {l \in LiveSetApply : Sealed(l)} = Reach(mem)

\* Every survivor of a window is found where its self-address leads, so no
\* relocation repoints nothing (Hamt::repair_relocs, replace_leaf).
RepointFinds ==
    pc = "reap" =>
        \A l \in work.left :
            l \in delta.removed \/ Kind(l) = "furrow" \/ Slot(mem, Address(l)) = l

\* A retired window holds nothing the head needs for a sound value, but for a
\* batch's own blocks the window was reaped under (Hamt::reap_window,
\* Vault::reap_staged, derive_reap).
RetiredIsEmpty ==
    LET committed == FromRoot(head.root)
        hurt == UNION {LeafBlocks(FindLeaf(committed, k)) : k \in lost.head}
    IN  pc # "down" /\ work.settled =>
            \A l \in Reach(committed) \ (hurt \cup stray) : l > reap

\* A vault the inspector passes answers every get, with what was committed or,
\* for a key whose erase the head outlived, with nothing; and it faults no vault
\* whose head never lost a block (inspect::build_checks, Vault::commit's live).
InspectorRight ==
    /\ InspectPasses =>
        \A k \in Keys :
            LET got == Lookup(FromRoot(head.root), k)
            IN  got = saved[k] \/ (k \in lost.head /\ got = Absent)
    /\ lost.head = {} /\ ~lost.past => InspectPasses
=============================================================================
