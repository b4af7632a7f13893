------------------------------ MODULE Replica ------------------------------
(***************************************************************************)
(* The two mirrors (mirror.rs) across sessions: a commit writes its blocks *)
(* to every device of the session and then the spine entry to each, the    *)
(* primary first; a secondary that fails is dropped for the session; a     *)
(* device may be absent from one.                                          *)
(*                                                                         *)
(* Vault::open does not replicate: verified_replicate (vault.rs) is a call *)
(* of the embedder's.  OpenBoth is the embedder that makes it before every *)
(* open of both devices; nothing is said of one that does not.             *)
(*                                                                         *)
(* The spine is a fixed ring of N slots, and a block is the tag of the     *)
(* commit that wrote it.  A power cut may tear the slot being written; a   *)
(* torn block is one that still holds its old tag.                         *)
(* Within a session the appends are staged and drained together, and the   *)
(* blocks the index walk reads are cached.                                 *)
(***************************************************************************)
EXTENDS Integers, FiniteSets, Functions

CONSTANTS
    N,            \* slots of the spine
    Pos,          \* positions of the tract
    Solo,         \* whether a session may run with one device absent
    CacheBlocks,  \* CACHE_BLOCKS
    MaxSize,      \* bound on the growth of a device
    MaxTag        \* bound on the commits

ASSUME ReplicaAssumption ==
    /\ N \in Nat /\ N >= 2 /\ Pos # {} /\ IsFiniteSet(Pos) /\ Solo \in BOOLEAN
    /\ CacheBlocks \in Nat \ {0} /\ MaxTag \in Nat /\ MaxSize \in Nat

VARIABLES
    \* On the media, per device
    spine,     \* slot -> entry, the ring
    tract,     \* position -> tag
    size,      \* blocks the device has, in units of growth
    \* In memory
    attached,  \* devices of the session
    pc,        \* "down", "up", or the writes under way: "copySpine" and
               \* "copyTract"; "staged", "data", "commit" and "second"
    winner,    \* source of the replication
    todo,      \* writes still to make, pairs of device and position
    entry,     \* the entry being committed
    cache,     \* position -> tag, for the blocks read last
    \* History, not in the code
    tags,      \* commits so far
    acked,     \* newest generation acknowledged since both devices were one
    gapped     \* devices a cut replication left without blocks of their head

media == <<spine, tract, size>>
vars == <<media, attached, pc, winner, todo, entry, cache, tags, acked, gapped>>

Devices == {"a", "b"}
Other(d) == IF d = "a" THEN "b" ELSE "a"
Entry == [gen : Nat, tag : Nat, len : Nat, refs : [Pos -> Nat]]
Genesis == [gen |-> 0, tag |-> 0, len |-> 0, refs |-> [p \in Pos |-> 0]]

Slots == 0 .. (N - 1)
\* A slot with no valid entry, never written or torn, is older than any.
Blank == [Genesis EXCEPT !.gen = -1]

\* The entry of the highest generation.
Newest(ring) ==
    ring[CHOOSE s \in Slots : \A t \in Slots : ring[t].gen <= ring[s].gen]

Head(d) == Newest(spine[d])

Slot(e) == e.gen % N
Appended(d, e) == [spine EXCEPT ![d][Slot(e)] = e]

Live(e) == {p \in Pos : e.refs[p] # 0}
Holds(d, e) == \A p \in Live(e) : tract[d][p] = e.refs[p]
Primary == IF "a" \in attached THEN "a" ELSE "b"

(***************************************************************************)
(* Opening, and verified_replicate.                                        *)
(***************************************************************************)
\* Mutant: one generation number is taken for one history.
ConvergedByGen == Head("a").gen = Head("b").gen

Converged == Head("a") = Head("b") /\ size["a"] = size["b"]

\* Mutant: the stale device wins.
WinnerStale == IF Head("a").gen <= Head("b").gen THEN "a" ELSE "b"

Winner == IF Head("a").gen >= Head("b").gen THEN "a" ELSE "b"

\* A file at or beyond the size asked for is left as it is.
DeviceGrown(d, n) == IF size[d] < n THEN n ELSE size[d]

\* Mutant: the loser keeps its size.
GrowLoserNot == size

\* A winner that grew while the loser was absent is larger.
GrowLoser ==
    [size EXCEPT ![Other(Winner)] = DeviceGrown(Other(Winner), size[Winner])]

OpenBoth ==
    /\ pc = "down"
    /\ attached' = Devices
    /\ pc' = IF Converged THEN "up" ELSE "copySpine"
    /\ winner' = Winner
    /\ size' = IF Converged THEN size ELSE GrowLoser
    /\ UNCHANGED <<spine, tract, todo, entry, cache, tags, acked, gapped>>

OpenSolo(d) ==
    /\ pc = "down" /\ Solo /\ Head(d) # Blank
    /\ attached' = {d}
    /\ pc' = "up"
    /\ acked' = 0
    /\ UNCHANGED <<media, winner, todo, entry, cache, tags, gapped>>

\* The loser takes the winner's spine, slot after slot where they differ.
SlotsToCopy == {s \in Slots : spine[winner][s] # spine[Other(winner)][s]}
SlotToCopy == CHOOSE s \in SlotsToCopy : \A t \in SlotsToCopy : s <= t

CopySpine ==
    LET dst == Other(winner)
    IN  /\ pc = "copySpine" /\ SlotsToCopy # {}
        /\ spine' = [spine EXCEPT ![dst][SlotToCopy] = spine[winner][SlotToCopy]]
        /\ gapped' = gapped \cup {dst}
        /\ UNCHANGED <<tract, size, attached, pc, winner, todo, entry, cache, tags,
                       acked>>

\* Then the winner's live set is walked for the blocks that differ.
CompareTract ==
    LET dst == Other(winner)
    IN  /\ pc = "copySpine" /\ SlotsToCopy = {}
        /\ todo' = {<<dst, p>> : p \in {p \in Live(Head(winner)) :
                                           tract[winner][p] # tract[dst][p]}}
        /\ pc' = IF todo' = {} THEN "up" ELSE "copyTract"
        /\ gapped' = IF winner \in gapped \/ todo' # {} THEN gapped \cup {dst}
                     ELSE gapped \ {dst}
        /\ UNCHANGED <<media, attached, winner, entry, cache, tags, acked>>

CopyTract ==
    /\ pc = "copyTract"
    /\ \E w \in todo :
           /\ tract' = [tract EXCEPT ![w[1]][w[2]] = tract[winner][w[2]]]
           /\ todo' = todo \ {w}
    /\ pc' = IF todo' = {} THEN "up" ELSE "copyTract"
    /\ gapped' = IF winner \notin gapped /\ todo' = {} THEN gapped \ {Other(winner)}
                 ELSE gapped
    /\ UNCHANGED <<spine, size, attached, winner, entry, cache, tags, acked>>

(***************************************************************************)
(* A commit: blocks nothing live occupies, on every device; then the spine *)
(* entry, the primary first.                                               *)
(***************************************************************************)
NewEntry(ps, kept) ==
    [gen  |-> Head(Primary).gen + 1,
     tag  |-> tags + 1,
     len  |-> Head(Primary).len,
     refs |-> [p \in Pos |-> CASE p \in ps   -> tags + 1
                               [] p \in kept -> Head(Primary).refs[p]
                               [] OTHER      -> 0]]

\* Mutant: a staged position stays in the cache.
ForgetNothing(ps) == cache

Forget(ps) == Restrict(cache, DOMAIN cache \ ps)

\* Mutant: the entry goes out before the blocks it references.
BeginEntryFirst(ps, kept) ==
    /\ pc = "up" /\ tags < MaxTag
    /\ entry' = NewEntry(ps, kept)
    /\ tags' = tags + 1
    /\ todo' = attached \X ps
    /\ cache' = Forget(ps)
    /\ spine' = Appended(Primary, entry')
    /\ pc' = "staged"
    /\ UNCHANGED <<tract, size, attached, winner, acked, gapped>>

Begin(ps, kept) ==
    /\ pc = "up" /\ tags < MaxTag
    /\ entry' = NewEntry(ps, kept)
    /\ tags' = tags + 1
    /\ todo' = attached \X ps
    /\ cache' = Forget(ps)
    /\ pc' = "staged"
    /\ UNCHANGED <<media, attached, winner, acked, gapped>>

Drain ==
    /\ pc = "staged"
    /\ pc' = "data"
    /\ UNCHANGED <<media, attached, winner, todo, entry, cache, tags, acked,
                   gapped>>

\* The index walk reads a block that is neither staged nor cached from the
\* primary, and keeps it; a full cache gives up another (the oldest: any).
ReadCached(p) ==
    /\ pc \in {"up", "staged"}
    /\ p \in Live(Head(Primary)) \ DOMAIN cache
    /\ <<Primary, p>> \notin todo
    /\ \E kept \in SUBSET DOMAIN cache :
           /\ Cardinality(DOMAIN cache \ kept)
                = (IF Cardinality(DOMAIN cache) >= CacheBlocks THEN 1 ELSE 0)
           /\ cache' = [q \in kept \cup {p} |->
                          IF q = p THEN tract[Primary][p] ELSE cache[q]]
    /\ UNCHANGED <<media, attached, pc, winner, todo, entry, tags, acked,
                   gapped>>

\* The devices are written concurrently, each in its own order.
DataWrite ==
    /\ pc = "data"
    /\ \E w \in todo :
           /\ tract' = [tract EXCEPT ![w[1]][w[2]] = entry.tag]
           /\ todo' = todo \ {w}
    /\ pc' = IF todo' = {} THEN "commit" ELSE "data"
    /\ UNCHANGED <<spine, size, attached, winner, entry, cache, tags, acked, gapped>>

\* Every device is extended, the primary first, and a commit records the larger
\* tract; a secondary that refuses leaves the session.
Grow(refused) ==
    /\ pc = "up" /\ tags < MaxTag
    /\ Head(Primary).len < MaxSize
    /\ attached' = IF refused /\ attached = Devices THEN {"a"} ELSE attached
    /\ entry' = [Head(Primary) EXCEPT !.gen = @ + 1, !.tag = tags + 1, !.len = @ + 1]
    /\ size' = [d \in Devices |->
                  IF d \in attached' THEN DeviceGrown(d, entry'.len) ELSE size[d]]
    /\ tags' = tags + 1
    /\ pc' = "commit"
    /\ UNCHANGED <<spine, tract, winner, todo, cache, acked, gapped>>

SpineWrite ==
    /\ pc = "commit"
    /\ spine' = Appended(Primary, entry)
    /\ pc' = IF attached = Devices THEN "second" ELSE "up"
    /\ acked' = IF attached = Devices THEN acked ELSE entry.gen
    /\ UNCHANGED <<tract, size, attached, winner, todo, entry, cache, tags, gapped>>

SpineWriteSecond ==
    /\ pc = "second"
    /\ spine' = Appended("b", entry)
    /\ pc' = "up"
    /\ acked' = entry.gen
    /\ UNCHANGED <<tract, size, attached, winner, todo, entry, cache, tags, gapped>>

\* Mutant: the writes to the dropped device stay queued.
DegradeKeepsWrites ==
    /\ attached = Devices
    /\ pc \in {"data", "second"}
    /\ attached' = {"a"}
    /\ pc' = IF pc = "second" THEN "up" ELSE pc
    /\ acked' = IF pc = "second" THEN entry.gen ELSE acked
    /\ UNCHANGED <<media, winner, todo, entry, cache, tags, gapped>>

\* The secondary refuses a write: it leaves the session, the primary goes on.
Degrade ==
    /\ attached = Devices
    /\ pc \in {"data", "second"}
    /\ pc = "data" => \E p \in Pos : <<"b", p>> \in todo
    /\ attached' = {"a"}
    /\ todo' = {w \in todo : w[1] = "a"}
    /\ pc' = IF pc = "second" THEN "up"
             ELSE IF todo' = {} THEN "commit" ELSE "data"
    /\ acked' = IF pc = "second" THEN entry.gen ELSE acked
    /\ UNCHANGED <<media, winner, entry, cache, tags, gapped>>

\* The power goes, and nothing is left of what is in memory.
Off ==
    /\ pc' = "down"
    /\ attached' = {}
    /\ todo' = {} /\ cache' = <<>>
    /\ UNCHANGED <<tract, size, winner, entry, tags, acked>>

PowerCut ==
    /\ pc # "down"
    /\ Off
    /\ UNCHANGED <<spine, gapped>>

\* The cut tears the slot being written: of a commit, or of a replication.
TornCommit(d) ==
    /\ \/ pc = "commit" /\ d = Primary
       \/ pc = "second" /\ d = "b"
    /\ Off
    /\ spine' = [spine EXCEPT ![d][Slot(entry)] = Blank]
    /\ UNCHANGED gapped

TornCopy ==
    /\ pc = "copySpine" /\ SlotsToCopy # {}
    /\ Off
    /\ spine' = [spine EXCEPT ![Other(winner)][SlotToCopy] = Blank]
    /\ gapped' = gapped \cup {Other(winner)}

Init ==
    /\ spine = [d \in Devices |->
                  [s \in Slots |-> IF s = 0 THEN Genesis ELSE Blank]]
    /\ tract = [d \in Devices |-> [p \in Pos |-> 0]]
    /\ size = [d \in Devices |-> 0]
    /\ attached = {} /\ pc = "down" /\ winner = "a" /\ todo = {}
    /\ entry = Genesis /\ cache = <<>>
    /\ tags = 0 /\ acked = 0 /\ gapped = {}

Next ==
    \/ OpenBoth
    \/ \E d \in Devices : OpenSolo(d)
    \/ CopySpine
    \/ CompareTract
    \/ CopyTract
    \/ \E ps \in SUBSET (Pos \ Live(Head(Primary))) \ {{}},
          kept \in SUBSET Live(Head(Primary)) : Begin(ps, kept)
    \/ \E refused \in BOOLEAN : Grow(refused)
    \/ \E p \in Pos : ReadCached(p)
    \/ Drain
    \/ DataWrite
    \/ SpineWrite
    \/ SpineWriteSecond
    \/ Degrade
    \/ PowerCut
    \/ \E d \in Devices : TornCommit(d)
    \/ TornCopy

Spec == Init /\ [][Next]_vars

(***************************************************************************)
(* Properties.                                                             *)
(***************************************************************************)
\* Types; the writes in flight are to devices of the session.
TypeOK ==
    /\ spine \in [Devices -> [Slots -> Entry \cup {Blank}]]
    /\ tract \in [Devices -> [Pos -> Nat]]
    /\ size \in [Devices -> 0 .. MaxSize]
    /\ attached \subseteq Devices
    /\ pc \in {"down", "up", "copySpine", "copyTract", "staged", "data",
              "commit", "second"}
    /\ winner \in Devices
    /\ todo \subseteq attached \X Pos
    /\ entry \in Entry
    /\ DOMAIN cache \subseteq Pos /\ Cardinality(DOMAIN cache) <= CacheBlocks
    /\ tags \in Nat /\ acked \in Nat /\ gapped \subseteq Devices

\* A session of both devices runs on one history, even after each ran alone and
\* reached the same generation number (verified_replicate, the head compare).
HeadsAgree == pc = "up" /\ attached = Devices => Head("a") = Head("b")

\* Every device of the session holds every block of its head, through degraded
\* sessions, sessions alone and power cuts in commits and replications; only a
\* replication cut short leaves a device with gaps (Mirror::read asks the first
\* device present and no other).
SessionHoldsHead ==
    pc = "up" => \A d \in attached \ gapped : Holds(d, Head(d))

\* No device is smaller than the geometry its own head commits to, whoever grew
\* alone and wherever a growth or a replication was cut (Mirror::grow, Vault::grow,
\* replicate_into; resume_unsettled refuses such a device as truncated).
GeometryFits == \A d \in Devices : Head(d).len <= size[d]

\* A cached block is what the device holds, when its position was retired, staged
\* and written again since it was read too (Mirror::forget, read_cached).
CacheIsMedia == \A p \in DOMAIN cache : cache[p] = tract[Primary][p]

\* An acknowledged generation is never replaced by an older one at an open
\* (verified_replicate's choice of the winner).
NoAckLost == pc = "up" => Head(Primary).gen >= acked

\* vault.rs, the converged fast path: every live block reached both devices
\* before that head was committed.
MirrorsConverged ==
    pc = "up" /\ attached = Devices =>
        \A d \in Devices : Holds(d, Head(d))
=============================================================================
