# Manifestus in TLA+

Manifestus is a crash-safe key-value vault over one or two block devices: a *spine* (a ring of
commit entries), a *tract* (a circular log of sealed blocks), a copy-on-write *hamt* index whose
Merkle root each spine entry records, and a *mirror* that writes two devices in lock step. There is
no journal and no shutdown: the open path is the recovery path. This directory models the parts
where an order of steps nobody tested could lose data, checks them with TLC, and proves the safety
of the vault core, its calls, the index, the spine and the mirror with TLAPS.

## Inventory

| part | state | operations | hard behaviour | what makes it correct | module |
|---|---|---|---|---|---|
| vault core (`src/vault.rs`) | index arena, live set, cursors, staged window | commit, heartbeat, reap, rescue, rollback, grow | power cuts anywhere, a full tract, a fence that must rise | the head stays readable; live set = head; clean region holds nothing live | `Vault` |
| vault calls (`src/vault.rs`) | the batch, the ladder's counters | put, put_batch, apply_batch, delete | barriers that drop work the caller will be told is done, replays, retries after an error | an acknowledged call is durable, in order, and every call returns | `Batch`, `KV` |
| vault open (`src/vault.rs`) | the settling walk | lazy, eager and repairing open | erased and lost blocks, a walk that stops half way | the open prunes what is damaged and nothing else | `Hamt` |
| tract (`src/tract.rs`) | plow, reap, len, fence | append, zero_delete, reads | wrap-around, the lap guard, unsigned differences | no append over a live or fenced block | `Vault`, `Hamt`, `Batch` |
| spine (`src/ring.rs`) | N slots, cached head | append, head search, recent entries, bootstrap, format check | torn and lost slots, wrap | the newest entry is found, a returned append is never lost | `Spine` |
| migrating ring (`src/vault.rs`, `src/ring.rs`) | root ring, residence | hop, fallback open, genesis | a cut inside the hop | the newest head is where the open looks | `Spine` |
| mirror (`src/mirror.rs`) | two devices, staged batch, cache, degraded flag | stage, drain, verified writes, reads, grow | threads writing two devices, one failing; a cache over reused positions | a spine entry only over blocks on media | `Replica`, `VaultFaults` |
| replication (`src/vault.rs`) | both media | resolve, pick the winner, grow and copy | solo sessions, a cut while copying | one history, no acknowledged commit replaced | `Replica` |
| hamt (`src/hamt.rs`) | arena of dirty nodes, delta | put, delete, prune, flush, walk, reap, repoint | relocation under a batch, half-flushed arenas, erase before commit | every get is right; the delta is what the root gained and lost | `Hamt` |
| inspector (`src/inspect.rs`) | none | chain walk, tree walk, checks | it judges the head alone | passes only vaults that answer | `Spine`, `Hamt` |
| file device (`src/host.rs`, `src/block.rs`) | a locked file | read, write, grow, flush | host I/O | | growth in `Replica` |

Calls go one way: vault → hamt → tract → mirror → devices, and vault → ring → mirror. The vault is
single-threaded behind its owner; concurrency is in the mirror's two writer threads and in what a
power cut leaves behind. Everything appended is *staged* in the mirror and written when the next
spine entry is (`Mirror::drain`), so a cut can fall at a spine write, a drain, a root write, an
in-place erase or one block of a replication. Those are the steps of the models.

The modules are layers, each taking the one below as a choice: `Batch` has keys and leaves the
outcome of an append open; `Hamt` has the blocks of the trie and leaves space open; `Vault` has
space and leaves the trie's shape open; `Spine` and `Replica` have the media of the entries and of
the two devices. What a layer leaves open is meant to cover what the layer below can do; that is by
reading, no refinement between the layers is checked (see the plan), and *Assumptions* below lists
where a layer covers less.

## Modules

**`Vault`** — space and generations. The index is the set of tract positions it reaches: `live` is
`LiveSet`, `added`/`removed` are `Hamt.delta`, `dirty` counts arena nodes the flush must append,
`staged` is `Mirror.pending`, `pendingReap` is `pending_reap`, `plow`/`reap`/`len`/`fence` are
`Tract`. `gens` keeps the spine entries of the last K generations, each with the positions its root
reaches (`refs`) and a history bit: has one of them been overwritten since (`whole`)? `Put` and
`Delete` are one item of a batch; `Commit`, `FlushNode`, `AppendHeartbeat`, `CommitRefused` and
`Land` are `Vault::commit`, split where it writes; `ReapOneWindow`/`ReapRefused` and
`Rescue`/`RescueRefused` are the two cleaners, refused half way or not; `RollbackToHead` and `Grow`
are the barriers; `Crash` and `Open` are power loss and resume. Which index nodes a change rewrites
is left open: `Rewrite` retires any set of index positions and leaves any number of dirty nodes up
to a bound. Cleaning calls that trail a commit (`maybe_reap`, the open's wedge probe) are
operations with media writes of their own, also reachable through the public `reap_one_window`,
`reclaim_ahead` and `rescue`; the model lets them follow or not, which only adds behaviours.
`MCVault` is the module TLC runs, `VaultFaults` adds a write error of the primary device at a
commit, `VaultProofs` holds the theorems.

**`Batch`** — one call from its first item to its reply. `head` is the map the committed index
holds, `index` the session's, `held` the keys whose leaf is in the live set, `dirty` is
`Hamt::has_uncommitted`. `SkipItem` is `holds_committed` (and the delete of an absent key).
`DeleteItem` is a delete of either policy: `UnlinkOnly` changes the arena alone; `ZeroIsErase`
(`ZeroDelete`, allowed where `Erases`) zeroes the leaf and its furrows on the media before anything of
the call is committed, so a leaf the head references is gone from `head` in that very step, and from
then on a value with a zeroed block counts as absent. `DeleteErrs` is a delete that ends in an error
before, during or after the zeroing. Each delete chooses its policy, which includes the vaults that
keep to one;
`PutFenced`, `PutFull`, `LadderCommit`, `LadderReap`, `RollbackToHead`, `LadderRescue` and
`PutExhausted` are the rungs of `put_no_commit`; `ItemsFull` and `FinalCommit` are
`apply_batch`'s grow-and-replay; `MaybeReap` is the trailing reap, whose error the caller hears
although its items landed. **`KV`** is what the vault promises: a map; a call that succeeds has
stored its last value for each of its keys, a call that fails or is cut has stored, per key,
nothing or something it asked for; what a failed call left in the arena may land later. `Batch`
implements it (`KeepsPromise == Promise!Spec`; the abstract `loose` is `Loose`, the values the
arena and the call under way may still bring to the media).

**`Hamt`** — the trie block by block: nodes, lone leaves, extent leaves over furrows given as runs.
`mem` holds the slots the arena has of its own, everything else is read through the committed
nodes (`Slot`). `Put` splits, replaces or fills; `Delete` unlinks; `DeleteErasing`, `ZeroDelete`
and `Unlink` are the delete under `ZeroIsErase`, one zeroed block per step; `FlushNode` writes the
arena bottom-up, `FlushRefused` leaves it half written; `ReapWindow`, `MoveFurrows`, `MoveBlock`,
`ReapStaged` are `reap_window` with its repoints. `Crash`, `Rot` (a lost block), `OpenLazy`,
`SettleStep`, `Settle`, `OpenRepairing` and `GrowPreserving` are the open. `want` and `saved` are
the reference: the maps the session and the head should answer with. Choices: positions are not
reused within a session (reuse is `Vault`'s subject); either delete policy may be taken by each
delete; one damage at a time (`lost`); a block that nothing reaches becomes `Dead`, so a read of
one would show; a refused repair commit is the open's error, so a power cut stands for it; an I/O
error of `read_many` puts the whole chunk back and is a stuttering step. `MCHamt` starts empty or
from a loaded vault, `HamtFaults` adds callers that go on after an error; `TrieProofs` has the lemmas
about the trie, `HamtProofs` the theorems.

**`Spine`** — a slot is its class (generation, empty, corrupt). `Genesis`, `Append`, `ZeroRingAt`
and `AppendRoot` are single block writes; `PowerCut` leaves the one in flight undone, torn or done;
`Rot` loses a slot between sessions. `durable` is the generation that returned last, as long as it
can be read where an open looks (`Named`); `behind` records that some open went back behind it,
which `spine_lost_commit` shows possible. `Search` is `Ring::search` with its two-sided branch on
corrupt slots, compared with `Newest`, the maximum over all slots. `migrating` is the profile of
the behaviour. `window` is what `recent_fences` read for the fence. `ChainStop` and
`InspectPasses` are the inspector's walk and its checks 1 to 3.

**`Replica`** — two devices, each a fixed ring of N slots, a tag per position and a size; the head is
the newest entry of the ring (`best_gen`). `Begin`, `Drain`, `DataWrite`, `SpineWrite`,
`SpineWriteSecond` are a commit over two devices, `Degrade` the loss of the secondary, `Grow` a growth
that may reach one device only, `ReadCached` a cached index read, `OpenSolo` a session with one
device. `OpenBoth`, `CopySpine`, `CompareTract` and `CopyTract` are `verified_replicate`: the head
compare, the growth of the loser, one slot of the ring per step in the order of the slots, the walk of
the winner's live set, one block per step. A power cut may come at any step, and may tear the slot
being written, of a commit (`TornCommit`) or of a replication (`TornCopy`). `gapped` marks the loser
from the first slot it takes until its last block is there: in between its newest entry may be the
winner's head or an entry of some older generation, over blocks it does not have. `MCReplica` adds the
symmetry of the positions for TLC.

## Runs

| run | shows |
|---|---|
| `vault` | the committed head is never overwritten (`HeadIntact`), the live set is the head's (`LiveIsCommitted`), the clean region holds nothing live (`CleanInvariant`), fenced generations stay restorable (`FencedGensIntact`), generations never record an older plow (`CommittedPlowMonotone`), every commit ends (`CommitEnds`) |
| `batch` | the calls implement the durable map (`KeepsPromise`); the skip trusts only committed leaves (`HeldIsCommitted`); earlier items of a batch are never dropped and acknowledged (`EarlierItemsKept`), what is on the media is a prefix of the batch, but for the keys an erasing delete has zeroed (`LandsInOrder`); every call returns (`CallReturns`) |
| `index` | the session and the head answer every get (`IndexAnswers`, `HeadAnswers`); the live set is what the index reaches (`LiveIsIndex`); relocations find their pointer (`RepointFinds`); retired windows are empty (`RetiredIsEmpty`); the inspector passes only what answers (`InspectorRight`) |
| `spine` | the bisection finds the newest entry of every ring filled from slot 0 (`SearchFindsNewest`); a fixed ring loses no commit and always opens (`FixedKeepsCommits`, `FixedOpens`); a hop keeps the head at one of the two named residences (`NewestAtEitherResidence`); the fence's window refills after hops, fallbacks and cuts, as long as no open went back (`FenceWindowFills`); the inspector's chain check (`InspectorRight`) |
| `replica` | each device of a session holds its head (`SessionHoldsHead`), files fit the geometry (`GeometryFits`), the cache is the media (`CacheIsMedia`), no acknowledged generation is replaced (`NoAckLost`), one history (`HeadsAgree`); cuts between and inside the slot writes of a commit and of a replication included |

Seven runs are expected to fail; each is a place where the code does something other than what its
own text says.

| run | what TLC finds |
|---|---|
| `vault_midbatch_reap` | `put_no_commit` reaps while earlier items of the batch are in the arena. The window is classified by the committed live set, so the batch's own blocks count as garbage and the retiring commit leaves them in the clean region. The lap guard still keeps them (`HeadIntact` holds, and is proved), but the space is unusable until a reopen derives the cursor. |
| `vault_drain_fault` | a failed drain has already let go of the batch while live set and index count it; the next commit references blocks that were never written. |
| `spine_lost_commit` | after a hop the first entries lie in the middle of an empty ring; the bisection can prune the half that holds them, the open falls back to the old residence, and a returned commit is lost. |
| `spine_genesis_cut` | a cut between the first root entry and generation 0 leaves media that neither opens nor may be formatted. |
| `replica_cut` | replication copies the spine before the blocks; a cut in between makes the heads equal and the next open skips the copy. |
| `batch_delete_retry` | a delete whose commit was refused is left in the arena; asked for again it finds the key absent and answers without a commit, and a power cut brings the key back. |
| `settle_retry` | a settle step that meets a corrupt block drops the rest of its chunk from the work list; the next write settles again, finishes, and runs with a live set that misses blocks of the index. |

Seen while modelling, without a run of their own:

- The inspector's chain check counts the lapped parent as a broken link while N ≤ head < 2N − 1
  (`src/inspect.rs:750` compares the generation with N, its comment excludes lapped parents).
  `InspectorRight` of `Spine` states the laps where it is right.
- Under `ZeroIsErase` a delete of a batch takes effect before the operations in front of it.
  `apply_items` (`src/vault.rs:775`) calls `Hamt::delete`, which zeroes the blocks on the media at
  once (`src/hamt.rs:424-440`), while the earlier operations wait in the arena for the commit at the
  end. Of the batch [put k2, delete k1] a power cut before that commit leaves k1 erased and k2 never
  written. `src/vault.rs:716` says "an op only ever lands after everything before it", and names the
  caller whose last operation is the delete that retires its journal. With `UnlinkOnly`, which
  `src/lib.rs:36` gives to all current targets, the sentence holds: `LandsPrefix` of `BatchProofs`
  says it without exception and `UnlinkLandsPrefix` proves it. With `Erases = TRUE` TLC refutes
  `LandsPrefix` by that batch. `LandsInOrder`, which the run `batch` checks with both policies, says
  what is left: only the zeroed keys are out of order.
- `Vault::rescue` is public and asks neither that the arena be empty nor that no window be staged; the
  ladders call it from the committed head only. Called after a refused commit, with that commit's work
  still in the arena, it is the reap inside a batch again: its window is classified by the committed
  live set and `CleanInvariant` breaks as in `vault_midbatch_reap`.
- `remove_leaf_blocks` records the leaf as removed before it reads the furrows; a read error leaves
  the delta changed and the leaf linked. `HamtFaults` with `Faults = {"delete"}` breaks
  `LiveIsIndex`. No run of this project enables that fault.
- Furrows zeroed by an erase that was cut have no seal to be removed by; when the open marked them
  by position they stay in the live set. They are no part of the index, so `LiveIsIndex` leaves
  blocks without a seal out, and `InspectorRight` makes no claim about faulting such a vault (`past`).
- After a failed spine write the live set already counts the new leaves, so an identical put asked
  for again is skipped and acknowledged (`Batch` with `SpineFaults = TRUE` breaks `HeldIsCommitted`).
  It is the same root cause as `vault_drain_fault`.

### Bounds

`Vault`: K = 2 where the code has 4, tracts of 4 to 6 blocks, a window of 2, a reserve of 1: small
enough that the tract wraps, the fence binds and rises, a window holds survivors, a rescue is
needed, and a grow realigns across a lap. `MaxPlow` and `MaxGen` stop new operations, never a commit
under way. The passing run has one item per commit, where `CleanInvariant` holds; batches of two are
in `vault_midbatch_reap`, and what holds for every batch is proved. `Batch`: two keys, two values,
batches of two, so a batch can write, overwrite and delete one key or touch both; two attempts stand
for the code's bound (a lap of windows and some more), enough for each rung to be met twice and for
the growth and the replay after it. `Hamt`: three keys in two levels (one pair shares a prefix, so
splits and prunes happen at both levels), big values of two furrows, windows of three blocks, a walk
of two pointers per step, three operations from the empty and from a loaded vault; commits, flush
steps, moves and opens are not counted. `Spine`: a fixed ring of 8 and two migrating rings of 4 over
three laps, so every slot is overwritten, the newest entry sits at every position and residences are
reused; two lost slots. `Replica`: a ring of two slots, which is overwritten from the second commit
on and which a cut can leave mixed of two histories; three positions and three commits allow
overwriting a position a stale device still needs; a cache of one block, one growth. Nothing tells
the positions apart, so `MCReplica` takes them as symmetric (no liveness is checked there). Deadlock
is not checked in the models whose bounds stop them (`Vault`, `Spine`, `Replica`); `Batch` and
`Hamt` never stop.

### Fairness

`CommitEnds` and `CallReturns` assume weak fairness of a commit's own steps and of a call's own
steps. `Vault::commit` and `apply_batch` are synchronous calls that wait for nothing, so they run to
their end unless the power goes; which answer the tract gives to an append is left open.

## Proofs

The theorems hold for every value of the constants that satisfies the named ASSUMEs, with no bound
on the number of steps beyond the models' own. Eight modules hold them; each inductive invariant was
checked by TLC on small instances first. `Numbers` has what several of them need about integers:
least and greatest elements of a set, remainders, and a strong induction.

**`VaultProofs`** (any K ≥ 1, any tract, window, reserve, batch and value sizes):

- `TypeCorrect` — `plow - reap` and `len - (plow - reap)` never wrap, positions lie in the tract;
- `HeadAlwaysIntact` — nothing overwrites a block of the committed head;
- `LiveAlwaysCommitted` — the live set is what the head references;
- `PlowNeverBack` — no generation records an older append cursor than its predecessor.

None of these is inductive alone. The lap guard protects the head only if the live set *is* the
head's (`LiveIsCommitted`), the blocks staged earlier are still apart from it when they are drained
(`StagedApart`), and the head's positions fit both the current and, after a crash inside a grow, the
old tract (`HeadGeometry`). The retired window keeps the cursors ordered only if it was staged
between them (`PendingBetween`), and the plow recorded next is not older only if memory never runs
behind the head (`PlowAhead`). `RewriteStep` covers every action that changes the index, with its
fence and phase as parameters; `DrainKeepsHead` covers every media write.

Its second half is about space. `CleanBetweenBatches` and `FencedBetweenBatches`: along every
behaviour that reaps only between batches, nothing live lies in the clean region, and no fenced
generation loses a block. `CleanAlways` and `FencedAlways` are the same for one item per commit,
where the hypothesis always holds. The hypothesis is needed: `vault_midbatch_reap` violates
`CleanInvariant` without it. `SpaceInv` adds that the arena is empty between calls, that a window to
be retired holds nothing of the index (`WindowRetired`), that before the first wrap everything lies
below `plow` (`FirstLap`), and that nothing is appended between a grow and its commit (`JustGrown`).
`FenceInv` ties the fence to the spine entries it was read from (`FenceIsRead`) and says of each
recent generation that an append below the budgets of it and of all newer ones meets none of its
blocks (`Guarded`), and that what is staged lies below them too (`StagedFenced`).

**`BatchProofs`** (any keys, values, batches and attempts) — `TypeCorrect`; with spine writes that do
not fail, `HeldAlwaysCommitted`, `EarlierAlwaysKept`, `AlwaysLandsInOrder` (under both policies of
deletion, the zeroed keys excepted) and `UnlinkLandsPrefix` (where no delete erases: a prefix of the
batch, with no exception); and, where callers do not ask again for a deletion that failed either,
`PromiseKept`: `Batch` implements `KV`. Without the
first hypothesis the identical put is wrong (see above), without the second the run
`batch_delete_retry` breaks the promise. `IInv` needs that an arena without work is the head's
(`CleanIsHead`) and that head and session are both prefixes of the batch (`Prefixes`); the
refinement also needs that a pass that changed nothing met only operations the head already holds
(`SkipsCommitted`) and that a call commits at the end of its batch only (`EndsAtEnd`).
`CallStepForms` sorts the steps of a call by what they do to the store; each form is one step of
`KV` or none.

**`ReplicaProofs`** (any ring of two slots or more, any tract, growth, cache and number of commits)
— `TypeCorrect`, `HeadsAlwaysAgree`, `SessionAlwaysHoldsHead`, `GeometryAlwaysFits`,
`CacheIsAlwaysMedia` and `AckNeverLost`, from one invariant `IInv`: the devices of a session share a
head but for the second spine write (`OneHead`), every valid entry lies in the slot of its
generation (`Placed`) and the one on its way is the next generation of each ring it goes to
(`EntryNext`), so that writing it makes it the head and tearing it leaves the head in place, an
entry on its way fits the devices it goes to (`EntryFits`), nothing cached is being written
(`CacheApart`), a commit writes only where no head of the session references (`WritesApart`), the
loser of a replication has gaps exactly where blocks are still to be copied (`CopiesGaps`), and the
newest acknowledged generation is at the primary, at the winner or, with no session, at one of the
two (`AckHeld`).

**`SpineProofs`** (any ring, band, root ring, residency, probe and number of lost slots):

- `SearchIsRight` — on a ring of any size filled from slot 0 the bisection with its two-sided branch
  finds the maximum. `Search` is a recursive function on spans of slots; that it is well defined and
  what it returns are proved by strong induction on the length of the span, applied to a set of
  lengths. `LappedRises` is the reason it works: along the slots generations rise, but for one place.
- `TypeCorrect`, `SearchAlwaysFinds`, from `SpineInv`: every ring is lapped (entries lie at the slot of
  their generation, within one lap of each other), the ring in use lies within a lap of the head, a
  hop finds its next residence cleared, root entries lie at their slots and name residences.
- `FixedAlwaysKeepsCommits`, `FixedAlwaysOpens`, `InspectorAlwaysRight`, from `FixedInv`: the fixed ring
  is filled from slot 0, a session's head is its newest entry, what returned is still in the ring,
  and with no slot lost the only hole is the slot after the head.
- `NewestAlwaysNamed`, from `HomeInv`: a session's root is the newest on the media, the session is at
  one of the residences it names, what returned is at one of them, and a session never writes over
  the last copy of it. A fallback open may miss the newest entry of a ring (`spine_lost_commit`), and
  the next append goes to the slot after the head it took. That it is not the missed entry's slot is
  `SearchNotBefore`: the bisection may miss the newest entry, but it then never answers the one
  before it, because no step parts the two.

**`HopProofs`** (the same constants, any fence depth) — `WindowAlwaysFills`: in both profiles the
fence's window misses only generations from before the hop, as long as no open went back and no slot
was lost. After a hop the entries of a ring begin in its middle, where the bisection may miss them, so
the question is what an open can find then. `Run` says that a ring holds the generations since its
start without a gap. `SearchSure` is the fact about the bisection: on such a ring it answers the
newest entry or nothing, and the newest one once a lap is full (`RunFound`). `Stays` is the
invariant: the ring is at the residence the newest root names, without a gap from the hop on, while the
residence before keeps a whole lap until the first append returns (`AtHome`); or an open went back
before that, and the ring goes on from that lap, while the torn start at the other residence is not
found until the next hop clears it (`FellBack`). The fixed ring follows from `FixedInv`.

Two things came out of these proofs. `NewestAtEitherResidence` failed for three residences or more
as long as a lost slot was measured against every residence of the band instead of the two an open
looks at; the history variable was wrong, not the code, and `Rot` now uses `Named`. And
`FenceWindowFills` is false once an open went back behind a returned generation: with eight slots the
leftover ring of the earlier stay can be torn twice, which the four slots of the run are too few to
show. Its antecedent now says so (`behind`), and the theorem covers every size.

**`TrieProofs`** and **`HamtProofs`** (any set of keys of one length, any finite fan-out, any values,
furrow count, windows and walk step) — all that the run `index` checks: `IndexTypes`,
`IndexAlwaysAnswers`, `HeadAlwaysAnswers`, `LiveSetIsIndex`, `RepointAlwaysFinds`,
`RetiredWindowsEmpty`, `InspectorAlwaysRight`; and `RunsRoundTrip`, that the runs of an extent
expand to the positions they were compressed from. `Slots(t, m)` is the whole trie as a function from
routes to children, over a tract `t` that need not be the current one; `TrieProofs` shows it well
defined, by induction on the length of a route, and says what becomes of it when its blocks stay as
they are (`Frame`), when some slots change and the nodes above them go to the arena (`ThreadSlots`,
`ThreadTree`, `ThreadReach`), when a block is zeroed or lost (`Hurt`) and when a node is flushed
(`FlushedTree`). `OwnerUnique` is what the accounting rests on: no block is held at two paths.

`Inv` of `HamtProofs` is the inductive invariant; TLC checked it on the instance of `index`. Its
parts:

- `Trees` — both the session's trie and the head's are sound (`Tree`): nodes lie on the way to every
  child at the path they record, a leaf lies on the way of its key with the value the reference map
  has, its furrows in order, whole unless the key was hurt; a key nothing happened to has its leaf.
  A get is right because of this alone. It needs the head's trie as well, since a crash, a rollback
  and a grow make it the session's.
- `LiveInv` — live set and delta are what the session's trie reaches, the live set alone is what the
  head's reaches; during an erase the blocks still to be zeroed are the only exception, during the
  commit of a repairing open the head may reach more.
- `EraseInv` — an erase has its leaf in the trie until the last block, which is the leaf: a cut at any
  step hurts that key and no other.
- `ReapInv`, `RetiredInv` — what a window has not moved yet is live, sealed and, if a furrow, not
  retired; all else the trie reaches lies past the window. So the window is empty when it is retired.
- `WalkInv` — every pointer of the trie was read by the walk of a lazy open or lies under one still on
  its list, so an empty list means that the live set is complete. `Unsettled` says that until then
  the session is the head.
- `CountInv` — with no block lost and no erase cut, every live block has its seal and the count in the
  head's entry is the number of blocks it reaches: what the inspector compares.

`IndexInductive` has one lemma for each action. `ChangeCore` is shared by all that change the index:
from a few facts about the changed slots (`ChangeOK`) it gives the new trie and exactly the blocks it
reaches, which `ChangeStep` turns into the invariant for a put, a delete, an unlink and the moves of a
reap; `FinishStep` uses it for the prune of both opens. The theorems are about `Spec`, which starts
from an empty vault; the loaded start of `MCHamt` only brings the interesting states within reach of
TLC's bounds.

Only model-checked: `CommitEnds` and `CallReturns`, since liveness under fairness is out of the
prover's reach.

## Assumptions

What the results take for granted, beyond the ASSUMEs of the modules:

- *Replication before every open of both devices.* `Vault::open` does not call `verified_replicate`;
  it is an explicit call of the embedder (`src/vault.rs:1287`, `src/README.md:75`). `OpenBoth` is the
  embedder that makes it each time, as the tests do and as the comment at `src/vault.rs:1295` expects.
  `HeadsAgree`, `NoAckLost` and, for two devices, `SessionHoldsHead` rest on it and say nothing of an
  embedder that opens two diverged devices without it.
- *Deletes in `Vault` are unlinks.* The in-place zeroing of `ZeroIsErase` is in `Hamt` (block by block)
  and in `Batch` (by key). `HeadIntact` and `FencedGensIntact` are about overwriting and make no claim
  about an erasing delete, which destroys the older generations' copies of its value on purpose; what
  it may hurt in the head is `HeadAnswers` of `Hamt`.
- *Rescue from the committed head.* `RescueCalled` has the precondition every caller inside
  `src/vault.rs` establishes, not one that `Vault::rescue` checks (see *Seen while modelling*).
- *A window's size* is fixed by the code before the commit that slides the fence and used after it.
  `WindowFits` takes the clean blocks counted then to be those there are at the reap, or as many more as
  such a commit can have taken (`CleanCounted`), without tying the two to one execution: it allows every
  window the code takes, and some more.
- *Spine writes* fail in no passing run (`vault_drain_fault` is what happens when one does), and
  callers of the `batch` run do not ask again for a delete that failed (`batch_delete_retry`).

## Not modelled

- Host I/O (`src/host.rs` apart from the growth of a file, `src/block.rs`), the command lines, the
  rendering and the orphan scan of the inspector, events and error types.
- Block encodings: a block is its content, a seal holds or not. The checks against crafted blocks
  (`Visited`, `node_at_depth`, the geometry checks at decode) refuse media no run of the program
  writes.
- The legacy `Direct` leaf, which only a test helper writes, and entries without a reap cursor.
- Error exits of `finish_open` other than its commit: they leave the session settled with whatever
  live set it had (`settle_step` has already taken the walk's state).
- `Mirror::read` asks the first device present and no other; a failing primary read is an error
  of the caller, and a failing primary write is `VaultFaults`.
- Root slots and residences inside `Replica`: it replicates the fixed ring. `replicate_into` copies
  the root slots before the spine, one by one, and only the active residence after them.
- The fault of `remove_leaf_blocks` (a read error between its two halves): `HamtFaults` has it, no run
  enables it.

## Plan

1. Done: `Vault`, `VaultFaults`, `Spine`, `Replica`; the first theorems.
2. Done: `Batch` and its refinement of `KV`, `Hamt` with the open and the repair, mirror reads,
   growth, the inspector, the fence's window over hops.
3. Done: `Batch` and its refinement of `KV`, `Replica`, the clean region and the fence of `Vault`,
   the bisection, the fixed ring, the hop and the fence's window of `Spine` proved.
4. Done: the reads of `Hamt` as recursive functions over the routes of the trie, and every invariant
   of its run proved.
5. Open: the layers joined by refinement (the positions `Hamt` reaches as the `live` and `added` of
   `Vault`, the map of `Batch` as the answers of `Hamt`), which would also let `Hamt` reuse positions.
