------------------------------- MODULE Spine -------------------------------
(***************************************************************************)
(* The spine (ring.rs): a ring of N slots holding one commit entry per     *)
(* generation, the search that finds the newest one at open, and the       *)
(* migrating profile (vault.rs), where the ring hops between residences    *)
(* and a root ring of four slots says where it is and where it was.        *)
(*                                                                         *)
(* A slot is its class (ring::classify): the generation of a valid entry,  *)
(* Empty or Corrupt.  A write is one block; a power cut leaves the block   *)
(* in flight as it was, torn or written.                                   *)
(***************************************************************************)
EXTENDS Integers, FiniteSetsExt

CONSTANTS
    FixedN, MigratingN,  \* slots of a ring, by profile
    Residences,  \* residences in the band
    Residency,   \* rotations at one residence
    Profiles,    \* TRUE: migrating, FALSE: a ring fixed at block 0
    K,           \* FENCE_K
    Probe,       \* slots the bootstrap looks at
    RootSlots,   \* ROOT_SLOTS
    MaxLaps,     \* bound on the generations, in laps of the ring
    MaxRot       \* bound on the slots the media loses

\* A ring exponent of 0 is refused (SpineEntry::parse), and so are fewer than
\* two residences (Vault::genesis_migrating); ROOT_SLOTS is 4, the probe 16.
ASSUME RingAssumption ==
    /\ FixedN \in Nat \ {0, 1} /\ MigratingN \in Nat \ {0, 1}
    /\ Residences \in Nat \ {0, 1} /\ Residency \in Nat \ {0}
    /\ Profiles \subseteq BOOLEAN /\ K \in Nat \ {0}
    /\ Probe \in Nat \ {0, 1} /\ RootSlots \in Nat \ {0, 1}
    /\ MaxLaps \in Nat /\ MaxRot \in Nat

VARIABLES
    \* On the media
    rings,    \* residence -> slot -> class
    roots,    \* root slot -> root entry
    sealed,   \* some block of the tract is sealed
    \* In memory
    migrating, \* the profile the vault is opened with
    base,     \* the residence the ring is at
    head,     \* the generation of the cached head
    root,     \* the newest root entry
    window,   \* the generations the rollback fence was last computed from
    pc,       \* "down", "idle", or the write in flight: "append" (a commit),
              \* "beat" (a heartbeat), "zero", "root"
    zeroed,   \* slots of the next residence already zeroed
    \* History, not in the code
    durable,  \* the generation whose append last returned, while still readable
              \* where an open looks
    behind,   \* some open went back behind it
    rots

media == <<rings, roots, sealed>>
memory == <<base, head, root, zeroed, window>>
history == <<durable, behind, rots>>
vars == <<media, migrating, memory, pc, history>>

N == IF migrating THEN MigratingN ELSE FixedN
MaxGen == MaxLaps * N
Slots == 0 .. (N - 1)
Empty == -1
Corrupt == -2
Entries == 0 .. (MaxGen + 1)
EmptyRing == [s \in Slots |-> Empty]

RootEntry == [gen : Nat \cup {-1}, at : Nat, was : Nat, since : Nat]
NoRoot == [gen |-> -1, at |-> 0, was |-> 0, since |-> 0]

(***************************************************************************)
(* Finding the head.                                                       *)
(***************************************************************************)
Newest(ring) == Max({Empty} \cup {ring[s] : s \in Slots})

Spans == (0 .. N) \X Slots

\* Mutant: a corrupt slot ranks as the oldest.
SearchNaive(ring) ==
    LET f[p \in Spans] ==
            LET lo  == p[1]
                hi  == p[2]
                mid == (lo + hi + 1) \div 2
            IN  IF lo >= hi THEN Max({Empty, ring[lo]})
                ELSE IF ring[mid] > ring[lo] THEN f[<<mid, hi>>]
                ELSE f[<<lo, mid - 1>>]
    IN  f[<<0, N - 1>>]

\* Bisection for the rotated maximum; a corrupt block prunes nothing.
SearchStep(ring, f, lo, hi) ==
    LET mid == (lo + hi + 1) \div 2
    IN  IF lo > hi THEN Empty
        ELSE IF ring[lo] = Corrupt THEN f[<<lo + 1, hi>>]
        ELSE IF lo = hi THEN ring[lo]
        ELSE IF ring[mid] = Corrupt THEN Max({f[<<lo, mid - 1>>], f[<<mid, hi>>]})
        ELSE IF ring[mid] > ring[lo] THEN f[<<mid, hi>>]
        ELSE f[<<lo, mid - 1>>]

Search(ring) ==
    LET f[p \in Spans] == SearchStep(ring, f, p[1], p[2])
    IN  f[<<0, N - 1>>]

ReadRoot ==
    CHOOSE e \in {roots[s] : s \in DOMAIN roots} :
        \A s \in DOMAIN roots : roots[s].gen <= e.gen

\* The residences an open looks at.
Named == {ReadRoot.at, ReadRoot.was}

\* Where the ring is found: the residence the newest root names, or, with no
\* head there, the one before.
FoundAt ==
    IF Search(rings[ReadRoot.at]) = Empty THEN ReadRoot.was ELSE ReadRoot.at

BootstrapN == \E s \in 0 .. (Probe - 1) : s \in Slots /\ rings[0][s] >= 0

(***************************************************************************)
(* Genesis: only on media where nothing is sealed, neither an entry nor a  *)
(* block of the tract.                                                     *)
(***************************************************************************)
AnySealed ==
    \/ ReadRoot # NoRoot
    \/ \E r \in DOMAIN rings : Newest(rings[r]) # Empty
    \/ sealed

\* Mutant: trash in the ring refuses the format.
MayFormatClean ==
    /\ ReadRoot = NoRoot /\ ~AnySealed
    /\ rings[0] = EmptyRing

MayFormat == ReadRoot = NoRoot /\ ~BootstrapN /\ ~AnySealed

Genesis ==
    /\ pc = "down" /\ MayFormat
    /\ rings' = [rings EXCEPT ![0] = EmptyRing]
    /\ base' = 0 /\ head' = -1 /\ root' = NoRoot /\ zeroed' = 0 /\ window' = {}
    /\ pc' = IF migrating THEN "root" ELSE "append"
    /\ UNCHANGED <<roots, sealed, migrating, history>>

(***************************************************************************)
(* A generation, and the hop that may follow it.                           *)
(***************************************************************************)
NextSlot == (head + 1) % N

\* Mutant: the fallback names where the root said the ring was.
NextRootStale ==
    [gen   |-> root.gen + 1,
     at    |-> IF root = NoRoot THEN 0 ELSE (base + 1) % Residences,
     was   |-> root.at,
     since |-> IF root = NoRoot THEN 0 ELSE head + 1]

\* Mutant: the band does not wrap.
NextRootUnwrapped ==
    [gen   |-> root.gen + 1,
     at    |-> IF root = NoRoot THEN 0 ELSE base + 1,
     was   |-> base,
     since |-> IF root = NoRoot THEN 0 ELSE head + 1]

NextRoot ==
    [gen   |-> root.gen + 1,
     at    |-> IF root = NoRoot THEN 0 ELSE (base + 1) % Residences,
     was   |-> base,
     since |-> IF root = NoRoot THEN 0 ELSE head + 1]

\* Mutant: read at the next residence, not where the ring is.
RecentEntriesNextRing(b, h) ==
    {g \in 0 .. h : h - K < g /\ rings'[(b + 1) % Residences][g % N] = g}

\* The last K generations, as the ring at residence b still has them.
RecentEntries(b, h) == {g \in 0 .. h : h - K < g /\ rings'[b][g % N] = g}

Commit ==
    /\ pc = "idle" /\ head < MaxGen
    /\ sealed' \in {sealed, TRUE}
    /\ pc' = "append"
    /\ UNCHANGED <<rings, roots, migrating, memory, history>>

AppendHeartbeat ==
    /\ pc = "idle" /\ head < MaxGen
    /\ pc' = "beat"
    /\ UNCHANGED <<media, migrating, memory, history>>

Append ==
    /\ pc \in {"append", "beat"}
    /\ rings' = [rings EXCEPT ![base][NextSlot] = head + 1]
    /\ head' = head + 1
    /\ durable' = head + 1
    /\ zeroed' = 0
    /\ window' = RecentEntries(base, head')
    /\ pc' = IF migrating /\ pc = "append" /\ head' - root.since >= Residency * N
             THEN "zero" ELSE "idle"
    /\ UNCHANGED <<roots, sealed, migrating, base, root, behind, rots>>

ZeroRingAt ==
    /\ pc = "zero"
    /\ rings' = [rings EXCEPT ![NextRoot.at][zeroed] = Empty]
    /\ zeroed' = zeroed + 1
    /\ pc' = IF zeroed' = N THEN "root" ELSE "zero"
    /\ UNCHANGED <<roots, sealed, migrating, base, head, root, window, history>>

AppendRoot ==
    /\ pc = "root"
    /\ roots' = [roots EXCEPT ![NextRoot.gen % RootSlots] = NextRoot]
    /\ root' = NextRoot
    /\ base' = NextRoot.at
    /\ pc' = IF root = NoRoot THEN "append" ELSE "idle"
    /\ UNCHANGED <<rings, sealed, migrating, head, zeroed, window, history>>

(***************************************************************************)
(* Power cuts, rot and the open.                                           *)
(***************************************************************************)
\* The block in flight is torn, or written without the writer knowing.
Tear ==
    \/ /\ pc \in {"append", "beat"}
       /\ \E c \in {Corrupt, head + 1} :
              rings' = [rings EXCEPT ![base][NextSlot] = c]
       /\ UNCHANGED <<roots, sealed>>
    \/ /\ pc = "zero"
       /\ \E c \in {Corrupt, Empty} :
              rings' = [rings EXCEPT ![NextRoot.at][zeroed] = c]
       /\ UNCHANGED <<roots, sealed>>
    \/ /\ pc = "root"
       /\ \E e \in {NoRoot, NextRoot} :
              roots' = [roots EXCEPT ![NextRoot.gen % RootSlots] = e]
       /\ UNCHANGED <<rings, sealed>>

PowerCut ==
    /\ pc # "down"
    /\ Tear \/ UNCHANGED media
    /\ pc' = "down"
    /\ UNCHANGED <<migrating, memory, history>>

\* External: the media loses a slot between two sessions.
Rot(s) ==
    /\ pc = "down" /\ rots < MaxRot
    /\ rings[base][s] # Corrupt
    /\ rings' = [rings EXCEPT ![base][s] = Corrupt]
    /\ durable' = Min({durable, Max({Newest(rings'[r]) : r \in Named})})
    /\ rots' = rots + 1
    /\ UNCHANGED <<roots, sealed, migrating, memory, pc, behind>>

Opens == (ReadRoot # NoRoot \/ BootstrapN) /\ Search(rings[FoundAt]) # Empty

Open ==
    /\ pc = "down" /\ Opens
    /\ root' = ReadRoot
    /\ base' = FoundAt
    /\ head' = Search(rings[FoundAt])
    /\ zeroed' = 0
    /\ behind' = (behind \/ head' < durable)
    /\ UNCHANGED <<media, migrating, durable, rots>>
    /\ window' = RecentEntries(base', head')
    /\ pc' = "idle"

(***************************************************************************)
(* The inspector (inspect.rs) on a fixed ring: the highest entry of all    *)
(* slots, and the chain of parents behind it.                              *)
(***************************************************************************)
\* Mutant: the parent is looked for in its child's slot.
ChainStopAtChild(h) == Max({0} \cup {g \in 1 .. h : rings[0][g % N] # g - 1})

\* The generation whose parent is not in its slot, or 0 at genesis.
ChainStop(h) == Max({0} \cup {g \in 1 .. h : rings[0][(g - 1) % N] # g - 1})

\* No corrupt slot, a head, and no link broken below generation N.
InspectPasses ==
    LET h == Newest(rings[0])
    IN  /\ \A s \in Slots : rings[0][s] # Corrupt
        /\ h # Empty
        /\ ChainStop(h) \notin 1 .. (N - 1)

Init ==
    /\ migrating \in Profiles
    /\ rings = [r \in 0 .. (Residences - 1) |-> EmptyRing]
    /\ roots = [s \in 0 .. (RootSlots - 1) |-> NoRoot]
    /\ sealed = FALSE
    /\ base = 0 /\ head = -1 /\ root = NoRoot /\ zeroed = 0 /\ window = {}
    /\ pc = "down"
    /\ durable = -1 /\ behind = FALSE /\ rots = 0

Next ==
    \/ Genesis
    \/ Commit
    \/ AppendHeartbeat
    \/ Append
    \/ ZeroRingAt
    \/ AppendRoot
    \/ PowerCut
    \/ \E s \in Slots : Rot(s)
    \/ Open

Spec == Init /\ [][Next]_vars

(***************************************************************************)
(* Properties.                                                             *)
(***************************************************************************)
\* Types.
TypeOK ==
    /\ rings \in [0 .. (Residences - 1) -> [Slots -> Entries \cup {Empty, Corrupt}]]
    /\ roots \in [0 .. (RootSlots - 1) -> RootEntry]
    /\ sealed \in BOOLEAN /\ migrating \in Profiles
    /\ base \in 0 .. (Residences - 1)
    /\ head \in Entries \cup {-1}
    /\ root \in RootEntry
    /\ zeroed \in 0 .. N
    /\ window \subseteq Entries
    /\ pc \in {"down", "idle", "append", "beat", "zero", "root"}
    /\ durable \in Entries \cup {-1} /\ behind \in BOOLEAN
    /\ rots \in Nat

\* The bisection finds the newest readable entry of every ring that was filled
\* from slot 0, wherever it wrapped and whichever slots are torn or lost
\* (Ring::search).
FilledFromZero(ring) == \A s, t \in Slots : s < t /\ ring[s] = Empty => ring[t] < 0
SearchFindsNewest ==
    pc = "down" => \A r \in DOMAIN rings :
        FilledFromZero(rings[r]) => Search(rings[r]) = Newest(rings[r])

\* No open goes back behind a generation whose append returned (Ring::append,
\* Vault::open).
NoCommitLost == pc = "idle" => head >= durable

\* So in the fixed profile, where every ring is filled from slot 0.
FixedKeepsCommits == ~migrating => NoCommitLost

\* A power cut never leaves media that neither opens nor can be formatted
\* (Vault::open_with, Vault::genesis).
Openable == pc = "down" /\ rots = 0 => Opens \/ MayFormat

\* So in the fixed profile, whose genesis writes one entry over a zeroed ring.
FixedOpens == ~migrating => Openable

\* The order of the hop's writes keeps the newest generation at one of the two
\* residences the newest readable root names (Vault::migrate_ring).
NewestAtEitherResidence ==
    pc = "down" => Max({Newest(rings[r]) : r \in Named}) >= durable

\* The fence sees every generation of the last K that was written where the
\* ring now is, through hops, fallbacks and cuts: the gaps of its window are the
\* generations from before the hop, and K generations fill it, as long as no
\* open went back (Ring::recent_entries; the slot of generation head + 1 - N may
\* be torn).
FenceWindowFills ==
    pc = "idle" /\ rots = 0 /\ ~behind =>
        \A g \in 0 .. head :
            /\ head - K < g /\ head - N + 1 < g
            /\ base = root.at => g >= root.since
            => g \in window

\* The inspector passes every whole ring in its first lap and from its third on;
\* what it passes is the last N generations without a gap (inspect::walk_chain,
\* build_checks; in the second lap the lapped parent counts as a broken link).
InspectorRight ==
    LET h == Newest(rings[0])
        whole == \A g \in 0 .. h : h - N < g => rings[0][g % N] = g
    IN  pc = "down" /\ ~migrating /\ h # Empty =>
            /\ InspectPasses => whole
            /\ whole /\ (\A s \in Slots : rings[0][s] # Corrupt)
                 /\ (h < N \/ h >= 2 * N - 1) => InspectPasses
=============================================================================
