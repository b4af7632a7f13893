------------------------------- MODULE Vault -------------------------------
(***************************************************************************)
(* Space and generations: how the vault (vault.rs) shares one circular     *)
(* tract (tract.rs) between what the committed head references, what the   *)
(* last K generations reference, and what is being written.                *)
(*                                                                         *)
(* The index (hamt.rs) is abstracted to the set of tract positions it      *)
(* reaches, the values to nothing at all; every cursor, guard, early       *)
(* return and the order of the media writes is kept.  An operation is cut  *)
(* only where it writes to the media (a spine entry, a drain), because a   *)
(* power cut can fall there.                                               *)
(***************************************************************************)
EXTENDS Integers, FiniteSets, FiniteSetsExt

CONSTANTS
    K,           \* FENCE_K: generations the rollback fence protects
    Reserve,     \* RESERVE: clean blocks kept for the retiring commit's flush
    WindowMin,   \* REAP_WINDOW_MIN
    GenesisLen,  \* tract_blocks at genesis
    MaxBatch,    \* operations applied between two commits
    MaxBlocks,   \* blocks one value takes (furrows and leaf)
    MaxDirty,    \* dirty index nodes one flush has to write
    MaxLen,      \* bound on growth
    MaxPlow,     \* bound on the append cursor at which operations still start
    MaxGen       \* bound on the generation at which operations still start

ASSUME KAssumption == K \in Nat \ {0}
ASSUME LenAssumption == GenesisLen \in Nat \ {0}
ASSUME SizeAssumption ==
    /\ Reserve \in Nat
    /\ WindowMin \in Nat \ {0}
    /\ MaxBatch \in Nat \ {0}
    /\ MaxBlocks \in Nat \ {0}
    /\ MaxDirty \in Nat
    /\ MaxLen \in Nat
    /\ MaxPlow \in Nat
    /\ MaxGen \in Nat

VARIABLES
    \* On the media
    gens,        \* generation -> spine entry, for the last K generations
    head,        \* the newest generation
    \* In memory: the tract's cursors
    plow, reap, len, fence,
    \* In memory: the live set, and the index as its difference from it
    live, added, removed,
    dirty,       \* index nodes in the arena the next flush appends
    pendingReap, \* the cursor a reaped window reaches at its retiring commit
    staged,      \* positions appended and not yet written (Mirror.pending)
    phase,       \* "down", "idle" or "flush" (inside commit)
    attempts,    \* heartbeats the last commit wrote; 0 once the arena changes
    items,       \* operations applied since the last commit
    \* History, not in the code
    unfenced,    \* the head when an append last passed without a fence
    dropped      \* index positions whose block never reached the media

disk == <<gens, head>>
cursors == <<plow, reap, len, fence>>
index == <<added, removed, dirty>>
ghosts == <<unfenced, dropped>>
vars == <<disk, cursors, live, index, pendingReap, staged, phase, attempts,
          items, ghosts>>

None == -1
Positions(lo, hi, n) == {m % n : m \in lo .. (hi - 1)}

(***************************************************************************)
(* Spine entries.  refs is what the entry's Merkle root reaches; whole is  *)
(* history: no position in refs was overwritten since the entry was        *)
(* written.                                                                *)
(***************************************************************************)
Entry == [refs : SUBSET Nat, plow : Nat, reap : Nat, len : Nat \ {0},
          whole : BOOLEAN]

\* Mutant: a lap past the append cursor, not past the cleaned space.
FenceBudgetFromPlow(e) == e.plow + e.len

FenceBudget(e) == e.reap + e.len

RecentGens(h) == {g \in 0 .. h : h - K < g}

Push(gs, h, e) ==
    [g \in RecentGens(h + 1) |-> IF g = h + 1 THEN e ELSE gs[g]]

FenceFrom(gs, h) ==
    IF h + 1 < K THEN None
                 ELSE Min({FenceBudget(gs[g]) : g \in RecentGens(h)})

\* A drain overwrites what the older generations kept at those positions.
Written(gs, ps) ==
    [g \in DOMAIN gs |->
        [gs[g] EXCEPT !.whole = @ /\ gs[g].refs \cap ps = {}]]

(***************************************************************************)
(* The tract.                                                              *)
(***************************************************************************)
CleanBlocks == len - (plow - reap)
Occupied == plow - reap
ReapWindow == Max({len \div 64, WindowMin})
Index == (live \cup added) \ removed
HasUncommitted == dirty > 0 \/ added # {} \/ removed # {}

Fits(n) == n <= CleanBlocks
WithinFence(n, limit) == limit = None \/ plow + n <= limit
Lapless(n) == Positions(plow, plow + n, len) \cap live = {}
\* Mutant: the fence alone guards an append.
CanAppendFenceOnly(n, limit) == WithinFence(n, limit)

CanAppend(n, limit) == Fits(n) /\ WithinFence(n, limit) /\ Lapless(n)

AppendWith(n, limit) ==
    /\ CanAppend(n, limit)
    /\ plow' = plow + n
    /\ staged' = staged \cup Positions(plow, plow + n, len)
    /\ dropped' = dropped \ Positions(plow, plow + n, len)
    /\ unfenced' = IF limit = None /\ n > 0 THEN head ELSE unfenced

\* One change of the index: n blocks appended, the first m of them referenced,
\* old retired, the copied-on-write path left dirty for the flush.
Rewrite(n, m, old, d, limit) ==
    /\ m <= n
    /\ old \in SUBSET Index
    /\ d \in 0 .. MaxDirty
    /\ attempts' = 0
    /\ AppendWith(n, limit)
    /\ added' = added \cup Positions(plow, plow + m, len)
    /\ removed' = removed \cup old
    /\ dirty' = d

\* The next operation of a batch, or of a call of its own.
NextItem ==
    /\ phase = "idle" /\ items < MaxBatch
    /\ plow < MaxPlow /\ head < MaxGen

(***************************************************************************)
(* Operations on entries, provisional until the commit.                    *)
(***************************************************************************)
Put(n, old, d) ==
    /\ NextItem
    /\ n \in 1 .. MaxBlocks
    /\ Rewrite(n, n, old, d, fence)
    /\ items' = items + 1
    /\ UNCHANGED <<disk, reap, len, fence, live, pendingReap, phase>>

\* The furrows landed and the leaf was refused: orphans, nothing referenced.
PutRefused(n) ==
    /\ NextItem
    /\ n \in 1 .. (MaxBlocks - 1)
    /\ ~CanAppend(n + 1, fence)
    /\ AppendWith(n, fence)
    /\ UNCHANGED <<disk, reap, len, fence, live, index, pendingReap, phase,
                   attempts, items>>

\* Under UnlinkOnly; the zeroing of ZeroIsErase is in Hamt and in Batch.
Delete(old, d) ==
    /\ NextItem
    /\ old # {}
    /\ Rewrite(0, 0, old, d, fence)
    /\ items' = items + 1
    /\ UNCHANGED <<disk, reap, len, fence, live, pendingReap, phase>>

(***************************************************************************)
(* Commit: flush, then one spine entry.                                    *)
(***************************************************************************)
Commit ==
    /\ phase = "idle" /\ head < MaxGen
    /\ phase' = "flush"
    /\ attempts' = 0
    /\ UNCHANGED <<disk, cursors, live, index, pendingReap, staged, items,
                   ghosts>>

FlushNode ==
    /\ phase = "flush" /\ dirty > 0
    /\ AppendWith(1, fence)
    /\ added' = added \cup {plow % len}
    /\ dirty' = dirty - 1
    /\ UNCHANGED <<disk, reap, len, fence, live, removed, pendingReap, phase,
                   attempts, items>>

AppendHeartbeat ==
    /\ phase = "flush" /\ dirty > 0
    /\ Fits(1) /\ ~WithinFence(1, fence)
    /\ attempts <= K + 2
    /\ LET gs == Written(gens, staged)
       IN  gens' = Push(gs, head, gs[head])
    /\ head' = head + 1
    /\ fence' = FenceFrom(gens', head')
    /\ staged' = {}
    /\ attempts' = attempts + 1
    /\ UNCHANGED <<plow, reap, len, live, index, pendingReap, phase, items,
                   ghosts>>

\* Mutant: a full tract is retried, never surfaced.
CommitRefusedFencedOnly ==
    /\ phase = "flush" /\ dirty > 0
    /\ Fits(1) /\ ~WithinFence(1, fence)
    /\ attempts > K + 2
    /\ phase' = "idle"
    /\ UNCHANGED <<disk, cursors, live, index, pendingReap, staged, attempts,
                   items, ghosts>>

CommitRefused ==
    /\ phase = "flush" /\ dirty > 0
    /\ ~CanAppend(1, fence)
    /\ (Fits(1) /\ ~WithinFence(1, fence)) => attempts > K + 2
    /\ phase' = "idle"
    /\ UNCHANGED <<disk, cursors, live, index, pendingReap, staged, attempts,
                   items, ghosts>>

\* Mutant: removals before additions.
LiveSetApplyRemovedFirst == (live \ removed) \cup added

LiveSetApply == (live \cup added) \ removed

\* Mutant: the retired window counted one block long.
RetiredReapLong == IF pendingReap = None THEN reap ELSE pendingReap + 1

RetiredReap == IF pendingReap = None THEN reap ELSE pendingReap

NewEntry == [refs |-> Index, plow |-> plow, reap |-> RetiredReap, len |-> len,
             whole |-> Index \cap dropped = {}]

Land ==
    /\ phase = "flush" /\ dirty = 0
    /\ live' = LiveSetApply
    /\ added' = {} /\ removed' = {}
    /\ reap' = RetiredReap
    /\ pendingReap' = None
    /\ gens' = Push(Written(gens, staged), head, NewEntry)
    /\ head' = head + 1
    /\ fence' = FenceFrom(gens', head')
    /\ staged' = {}
    /\ phase' = "idle"
    /\ items' = 0
    /\ UNCHANGED <<plow, len, dirty, attempts, ghosts>>

(***************************************************************************)
(* Cleaning.                                                               *)
(***************************************************************************)
Survivors(w) == Positions(reap, reap + w, len) \cap (live \ removed)

\* Every survivor of the window leaves the index at its old position; what
\* moves is appended, and a rebuilt leaf or a copied node may go with it.
ReapStaged(w, n, old, d, limit) ==
    /\ Survivors(w) \subseteq old
    /\ Survivors(w) = {} => old = {} /\ d = dirty
    /\ n <= Cardinality(old)
    /\ Rewrite(n, n, old, d, limit)
    /\ pendingReap' = reap + w
    /\ phase' = "flush"

\* The append after the first n blocks is refused (a survivor takes at most
\* two: itself and its rebuilt leaf).
CutAfter(w, n, limit) ==
    \E upto \in (n + 1) .. (2 * Cardinality(Survivors(w))) :
        ~CanAppend(upto, limit)

\* The m blocks of finished moves stay in the arena, what came after them is
\* orphaned, the window stays where it was.
ReapCut(n, m, old, d, limit) ==
    /\ m <= Cardinality(old)
    /\ Rewrite(n, m, old, d, limit)
    /\ items' = items + 1

\* With a batch in the arena the reap runs only for an entry the tract refused
\* as full; with none, after a commit (maybe_reap) or at the embedder's idle
\* edge (reclaim_ahead, whose cap is any w).
TractFull(n) == ~Fits(n) \/ (WithinFence(n, fence) /\ ~Lapless(n))
ReapCalled == items = 0 \/ \E n \in 1 .. MaxBlocks : TractFull(n)

\* The clean blocks are counted before the commit that slides a tight fence:
\* that commit's nodes may have gone to some of them since.
CleanCounted ==
    IF fence = None \/ HasUncommitted THEN CleanBlocks ELSE CleanBlocks + MaxDirty

WindowFits(w) ==
    /\ w <= ReapWindow /\ w <= Occupied /\ w <= CleanCounted - Reserve
    /\ fence = None \/ w <= fence - plow - Reserve

ReapOneWindow ==
    /\ NextItem
    /\ ReapCalled /\ pendingReap = None
    /\ \E w \in 1 .. len :
           /\ WindowFits(w)
           /\ \E n \in 0 .. len, old \in SUBSET Index, d \in 0 .. MaxDirty :
                  ReapStaged(w, n, old, d, fence)
    /\ UNCHANGED <<disk, reap, len, fence, live, items>>

ReapRefused ==
    /\ NextItem
    /\ ReapCalled /\ pendingReap = None
    /\ \E w \in 1 .. len, n \in 0 .. len :
           /\ WindowFits(w) /\ CutAfter(w, n, fence)
           /\ \E m \in 0 .. n, old \in SUBSET Index, d \in 0 .. MaxDirty :
                  ReapCut(n, m, old, d, fence)
    /\ UNCHANGED <<disk, reap, len, fence, live, pendingReap, phase>>

\* The clean blocks can stage the survivors of every prefix of w blocks.
RescueFits(w) ==
    \A i \in 1 .. w :
        LET s == Cardinality(Positions(reap, reap + i, len) \cap live)
        IN  s = 0 \/ s + Reserve <= CleanBlocks

\* The longest such window.
RescueWindow(w) ==
    /\ w <= ReapWindow /\ w <= Occupied /\ RescueFits(w)
    /\ w = ReapWindow \/ w = Occupied \/ ~RescueFits(w + 1)

\* The ladders rescue from the committed head, with nothing uncommitted and no
\* window staged (rollback_to_head and rescue_from_committed_head come first).
\* Vault::rescue itself asks for neither.
RescueCalled ==
    /\ NextItem
    /\ ~HasUncommitted /\ pendingReap = None

Rescue ==
    /\ RescueCalled
    /\ fence' = None
    /\ \E w \in 1 .. len :
           /\ RescueWindow(w)
           /\ \E n \in 0 .. len, old \in SUBSET Index, d \in 0 .. MaxDirty :
                  ReapStaged(w, n, old, d, None)
    /\ UNCHANGED <<disk, reap, len, live, items>>

RescueRefused ==
    /\ RescueCalled
    /\ fence' = None
    /\ \E w \in 1 .. len, n \in 0 .. len :
           /\ RescueWindow(w) /\ CutAfter(w, n, None)
           /\ \E m \in 0 .. n, old \in SUBSET Index, d \in 0 .. MaxDirty :
                  ReapCut(n, m, old, d, None)
    /\ UNCHANGED <<disk, reap, len, live, pendingReap, phase>>

(***************************************************************************)
(* Barriers: the arena is discarded for the committed head.                *)
(***************************************************************************)
FromCommittedHead ==
    /\ added' = {} /\ removed' = {} /\ dirty' = 0
    /\ pendingReap' = None
    /\ items' = 0

\* Uncommitted work is discarded only once its commit ended Fenced: the batch
\* caller holds every item and replays (rescue_from_committed_head).
RollbackToHead ==
    /\ phase = "idle"
    /\ HasUncommitted => attempts > K + 2
    /\ FromCommittedHead
    /\ UNCHANGED <<disk, cursors, live, staged, phase, attempts, ghosts>>

\* The smallest cursor not below p that continues at position old of a tract
\* of new blocks.
\* Mutant: aligned down to the lap's start, behind the committed cursor.
RealignDown(p, old, new) == (p \div new) * new + old

Realign(p, old, new) == p + ((old + new - (p % new)) % new)

Grow(new) ==
    /\ phase = "idle" /\ head < MaxGen
    /\ new \in (len + 1) .. MaxLen
    /\ gens' = Written(gens, staged)
    /\ staged' = {}
    /\ FromCommittedHead
    /\ live' = gens[head].refs
    /\ plow' = Realign(gens[head].plow, len, new)
    /\ reap' = plow' - len
    /\ len' = new
    /\ phase' = "flush"
    /\ attempts' = 0
    /\ UNCHANGED <<head, fence, ghosts>>

(***************************************************************************)
(* Power loss and open.                                                    *)
(***************************************************************************)
\* Any part of a drain in flight may have reached the media.
Crash ==
    /\ phase # "down"
    /\ \E landed \in SUBSET staged : gens' = Written(gens, landed)
    /\ phase' = "down"
    /\ staged' = {}
    /\ FromCommittedHead
    /\ attempts' = 0
    /\ UNCHANGED <<head, cursors, live, ghosts>>

\* The live-free run downstream of the plow, as a reap cursor.
\* Mutant: the nearest live block counted as clean.
DeriveReapLong(p, n, refs) ==
    LET clean == Min({n} \cup {((q + n - (p % n)) % n) + 1 : q \in refs})
    IN  IF p + clean < n THEN 0 ELSE p + clean - n

DeriveReap(p, n, refs) ==
    LET clean == Min({n} \cup {(q + n - (p % n)) % n : q \in refs})
    IN  IF p + clean < n THEN 0 ELSE p + clean - n

Open ==
    /\ phase = "down"
    /\ plow' = gens[head].plow
    /\ len' = gens[head].len
    /\ live' = gens[head].refs
    /\ reap' = DeriveReap(plow', len', live')
    /\ fence' = FenceFrom(gens, head)
    /\ phase' = "idle"
    /\ UNCHANGED <<disk, index, pendingReap, staged, attempts, items, ghosts>>

Genesis == [refs |-> {}, plow |-> 0, reap |-> 0, len |-> GenesisLen,
            whole |-> TRUE]

Init ==
    /\ gens = [g \in {0} |-> Genesis]
    /\ head = 0
    /\ plow = 0 /\ reap = 0 /\ len = GenesisLen /\ fence = None
    /\ live = {} /\ added = {} /\ removed = {} /\ dirty = 0
    /\ pendingReap = None
    /\ staged = {}
    /\ phase = "idle" /\ attempts = 0 /\ items = 0
    /\ unfenced = -1 /\ dropped = {}

FlushStep == FlushNode \/ AppendHeartbeat \/ CommitRefused \/ Land

Next ==
    \/ \E n \in 1 .. MaxBlocks, old \in SUBSET Index, d \in 0 .. MaxDirty :
           Put(n, old, d)
    \/ \E n \in 1 .. MaxBlocks : PutRefused(n)
    \/ \E old \in SUBSET Index, d \in 0 .. MaxDirty : Delete(old, d)
    \/ Commit
    \/ FlushNode
    \/ AppendHeartbeat
    \/ CommitRefused
    \/ Land
    \/ ReapOneWindow
    \/ ReapRefused
    \/ Rescue
    \/ RescueRefused
    \/ RollbackToHead
    \/ \E new \in (len + 1) .. MaxLen : Grow(new)
    \/ Crash
    \/ Open

Spec == Init /\ [][Next]_vars
FairSpec == Spec /\ WF_vars(FlushStep)

(***************************************************************************)
(* Properties.                                                             *)
(***************************************************************************)
\* Types, and the order of the cursors that keeps the unsigned differences
\* plow - reap and len - (plow - reap) (Tract::clean_blocks) from wrapping.
TypeOK ==
    /\ head \in Nat
    /\ gens \in [RecentGens(head) -> Entry]
    /\ plow \in Nat /\ reap \in Nat /\ len \in Nat \ {0}
    /\ fence \in Nat \cup {None}
    /\ reap <= plow /\ plow <= reap + len
    /\ live \subseteq 0 .. (len - 1)
    /\ added \subseteq 0 .. (len - 1)
    /\ removed \subseteq 0 .. (len - 1)
    /\ staged \subseteq 0 .. (len - 1)
    /\ dirty \in Nat /\ attempts \in Nat /\ items \in Nat
    /\ pendingReap \in Nat \cup {None}
    /\ phase \in {"down", "idle", "flush"}
    /\ unfenced \in Nat \cup {-1}
    /\ dropped \subseteq 0 .. (len - 1)

\* The committed head can always be read back: no append, heartbeat, reap,
\* rescue, grow or power cut overwrites a block it references, whatever the
\* batches (Tract::append_with, Vault::commit).
HeadIntact == gens[head].whole

\* The live set the reap and the lap guard trust is exactly what the
\* committed head references (LiveSet::apply, the open's walk, grow's rewalk).
LiveIsCommitted == phase # "down" => live = gens[head].refs

\* No block the index or the head references sits in the clean region
\* [plow, reap + len), so no append can meet one (tract.rs, the lap guard).
CleanInvariant ==
    phase # "down" =>
        Positions(plow, reap + len, len) \cap (live \cup Index) = {}

\* The rollback fence: every generation of the last K that was written after
\* the last unfenced append is whole (Vault::commit, fence_from).  Deletes unlink
\* here; an erasing one destroys the older copies on purpose (Hamt, Batch).
FencedGensIntact ==
    \A g \in RecentGens(head) : g > unfenced => gens[g].whole

\* A new generation never records an append cursor behind its predecessor's,
\* a grow's realignment and an open's reload included (Vault::grow).
CommittedPlowMonotone ==
    [][head' # head => gens'[head'].plow >= gens[head].plow]_vars

\* What the proofs add to these: the head's own geometry, the staged blocks
\* apart from it, the cursors between which a staged reap lies, the append
\* cursor never behind the head's, and nothing in memory while down.
HeadGeometry ==
    /\ gens[head].len <= len
    /\ gens[head].refs \subseteq 0 .. (gens[head].len - 1)
StagedApart == staged \cap gens[head].refs = {} /\ dropped = {}
PendingBetween ==
    pendingReap # None => reap <= pendingReap /\ pendingReap <= plow
PlowAhead == phase # "down" => gens[head].plow <= plow
DownIsEmpty ==
    phase = "down" =>
        added = {} /\ removed = {} /\ staged = {} /\ pendingReap = None

IInv ==
    /\ TypeOK /\ HeadGeometry
    /\ LiveIsCommitted /\ StagedApart /\ HeadIntact
    /\ PendingBetween /\ PlowAhead /\ DownIsEmpty

\* A commit ends: the heartbeat ladder raises the fence or gives up
\* (Vault::commit).
CommitEnds == phase = "flush" ~> phase # "flush"
=============================================================================
