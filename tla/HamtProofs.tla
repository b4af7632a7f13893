----------------------------- MODULE HamtProofs -----------------------------
(*****************************************************************************)
(* The inductive invariant of Hamt, its proof, one lemma an action, and the  *)
(* properties of the index that follow from it.                              *)
(*****************************************************************************)
EXTENDS TrieProofs

(***************************************************************************)
(* The inductive invariant.                                                *)
(***************************************************************************)
LiveOK(t, S, X, E) ==
    \A l \in Nat : (l \in X /\ SealedIn(t, l)) <=> (Reached(t, S, l) /\ l \notin E)

\* What the trie reaches is past position n, or one of X.
Past(t, S, n, X) == \A l \in Nat : Reached(t, S, l) => l > n \/ l \in X

\* The session's trie and the head's.
MemS == Slots(tract, mem)
HeadS == Slots(tract, FromRoot(head.root))

\* The blocks an erase has still to zero.
Pending == IF pc = "erase" THEN ToSet(work.todo) ELSE {}

WorkShape(w) ==
    w = [settled |-> w.settled, failed |-> w.failed, todo |-> w.todo, out |-> w.out,
         stale |-> w.stale, left |-> w.left, upto |-> w.upto, key |-> w.key,
         repair |-> w.repair, landing |-> w.landing]

\* Types.
Basic ==
    /\ IsSeq(tract)
    /\ head = [root |-> head.root, plow |-> head.plow, live |-> head.live]
    /\ head.plow \in 0 .. Len(tract) /\ head.root \in 0 .. head.plow
    /\ delta = [added |-> delta.added, removed |-> delta.removed]
    /\ delta.added \subseteq 1 .. Len(tract) /\ delta.removed \subseteq 1 .. Len(tract)
    /\ live \subseteq 1 .. Len(tract)
    /\ reap \in 0 .. Len(tract) /\ pendingReap \in 0 .. Len(tract)
    /\ pc \in {"down", "idle", "erase", "flush", "reap"}
    /\ WorkShape(work)
    /\ want \in [Keys -> Values \cup {Absent}] /\ saved \in [Keys -> Values \cup {Absent}]
    /\ lost = [mem |-> lost.mem, head |-> lost.head, past |-> lost.past]
    /\ lost.mem \subseteq Keys /\ lost.head \subseteq Keys
    /\ ops \in Nat /\ ops <= MaxOps

\* Both tries are sound: the session's over its arena, the head's all on the media.
Trees ==
    /\ Arena(mem, MemS)
    /\ Tree(tract, MemS, want, lost.mem, Len(tract))
    /\ Tree(tract, HeadS, saved, lost.head, head.plow)
    /\ \A q \in Routes : HeadS[q] # Dirty

\* Before the open is settled the session is the head.
Unsettled ==
    /\ pc = "down" => ~work.settled /\ work.out = {} /\ work.stale = {}
    /\ work.repair => pc = "flush"
    /\ ~work.settled =>
        /\ pc \in {"down", "idle"}
        /\ mem = FromRoot(head.root) /\ delta = NoDelta
        /\ want = saved /\ lost.mem = lost.head
        /\ live = {} /\ reap = 0 /\ pendingReap = 0 /\ ~work.repair
        /\ stray = {}
        /\ lost.past \/ lost.head = {}

\* The live set is what the tries reach: with the delta the session, without it the head.
LiveInv ==
    work.settled =>
        /\ LiveOK(tract, MemS, LiveSetApply, Pending)
        /\ ~work.repair => LiveOK(tract, HeadS, live, {})

\* An erase zeroes the furrows of its leaf and the leaf last.
EraseInv ==
    pc = "erase" =>
        /\ work.key \in Keys /\ work.key \in lost.mem
        /\ IsSeq(work.todo)
        /\ \A j \in 1 .. Len(work.todo) :
             /\ work.todo[j] \in 1 .. Len(tract)
             /\ Reached(tract, HeadS, work.todo[j]) => work.key \in lost.head
        /\ \E q \in Along(work.key) :
             /\ work.todo = <<>> => KindIn(tract, MemS[q]) = "zero"
             /\ work.todo # <<>> =>
                 /\ LeafIn(tract, MemS[q]) /\ tract[MemS[q]].key = work.key
                 /\ work.todo[Len(work.todo)] = MemS[q]
                 /\ \A j \in 1 .. (Len(work.todo) - 1) :
                       work.todo[j] \in ToSet(FurrowsIn(tract, MemS[q]))
                 /\ \A l \in ToSet(FurrowsIn(tract, MemS[q])) : SealedIn(tract, l) =>
                       \E j \in 1 .. (Len(work.todo) - 1) : work.todo[j] = l

\* What a window has left is live and sealed; the rest of the window is free.
ReapInv ==
    pc = "reap" =>
        /\ work.left \subseteq live
        /\ pendingReap = 0 /\ work.upto \in 1 .. Len(tract)
        /\ \A l \in work.left :
             SealedIn(tract, l) /\ (KindIn(tract, l) = "furrow" => l \notin delta.removed)
        /\ Past(tract, MemS, work.upto, stray \cup work.left)

\* Nothing either trie reaches lies in a retired window, or in one to be retired.
RetiredInv ==
    work.settled =>
        /\ Past(tract, MemS, reap, stray)
        /\ Past(tract, MemS, pendingReap, stray)
        /\ ~work.repair => Past(tract, HeadS, reap, stray)
        /\ work.repair =>
            \A l \in Nat : Reached(tract, HeadS, l) =>
               \/ l > reap \/ l \in stray
               \/ \E q \in Paths : /\ LeafIn(tract, HeadS[q]) /\ tract[HeadS[q]].key \in lost.head
                                   /\ Holds(tract, HeadS[q], l)

\* Without damage every live block has its seal, and the count of the head is right.
CountInv ==
    /\ work.settled /\ ~lost.past => \A l \in LiveSetApply : SealedIn(tract, l)
    /\ work.settled /\ ~lost.past /\ lost.head = {} => \A l \in live : SealedIn(tract, l)
    /\ ~lost.past /\ lost.head = {} =>
          head.live = Cardinality({l \in 1 .. head.plow : Reached(tract, HeadS, l)})

\* A pointer the walk of the open has read.
Read(q) ==
    /\ KindIn(tract, MemS[q]) # "bad"
    /\ KindIn(tract, MemS[q]) = "zero" => q \in work.stale
    /\ KindIn(tract, MemS[q]) # "zero" =>
          MemS[q] \in work.out /\ ToSet(FurrowsIn(tract, MemS[q])) \subseteq work.out

\* The walk of the open: every pointer was read or is under one on the list.
WalkInv ==
    pc = "idle" /\ ~work.settled /\ ~work.failed =>
        /\ IsSeq(work.todo)
        /\ \A j \in 1 .. Len(work.todo) : work.todo[j] \in Paths /\ MemS[work.todo[j]] # Nil
        /\ \A q \in Paths : MemS[q] # Nil =>
              Read(q) \/ \E j \in 1 .. Len(work.todo) : work.todo[j] \in Above(q) \cup {q}
        /\ \A l \in work.out : \E q \in Paths : Holds(tract, MemS[q], l)
        /\ \A q \in work.stale : q \in Paths /\ KindIn(tract, MemS[q]) = "zero"

\* The inductive invariant.
Inv == Basic /\ Trees /\ Unsettled /\ LiveInv /\ EraseInv /\ ReapInv /\ RetiredInv
       /\ CountInv /\ WalkInv

\* The arena and the slots it stands for agree.
LEMMA MemFacts ==
    ASSUME Basic, Trees
    PROVE  /\ \A q \in DOMAIN mem : MemS[q] = mem[q] /\ q \in Routes
           /\ \A q \in Routes : MemS[q] \in -1 .. Len(tract)
           /\ Len(tract) \in Nat /\ Nil = 0 /\ Dirty = -1
           /\ \A q \in DOMAIN mem : mem[q] \in -1 .. Len(tract)
           /\ <<>> \in DOMAIN mem
           /\ \A q \in DOMAIN mem : mem[q] = Dirty => q \in Paths
<1>1. DOMAIN mem \subseteq Routes /\ <<>> \in DOMAIN mem
  BY DEF Trees, Arena
<1>2. \A q \in Routes : MemS[q] = SlotStep(tract, mem, MemS, q)
  BY SlotsUnfold DEF MemS
<1>3. \A q \in DOMAIN mem : MemS[q] = mem[q] /\ q \in Routes
  BY <1>1, <1>2 DEF SlotStep
<1>4. \A q \in Routes : /\ MemS[q] \in -1 .. Len(tract)
                        /\ MemS[q] # Nil => q \in Paths
  BY DEF Trees, Tree, Shape
<1>5. Len(tract) \in Nat
  BY SeqFacts DEF Basic
<1> QED
  BY <1>1, <1>3, <1>4, <1>5 DEF Nil, Dirty

\* The invariant gives the types.
LEMMA InvTypeOK ==
    ASSUME Basic, Trees
    PROVE  TypeOK
<1>1. Len(tract) \in Nat /\ Plow = Len(tract)
  BY MemFacts DEF Plow
<1>2. ASSUME NEW q \in DOMAIN mem
      PROVE  /\ mem[q] \in {Dirty} \cup 0 .. Plow
             /\ q # <<>> => Front(q) \in DOMAIN mem /\ mem[Front(q)] = Dirty
             /\ mem[q] = Dirty => \A c \in Chunks : Append(q, c) \in DOMAIN mem
  <2>1. q \in Routes /\ mem[q] \in -1 .. Len(tract) /\ Dirty = -1
    BY MemFacts
  <2>2. q # <<>> => Front(q) \in Above(q)
    BY <2>1, AboveFront
  <2>3. q # <<>> => Front(q) \in DOMAIN mem /\ mem[Front(q)] = Dirty
    BY <2>2 DEF Trees, Arena
  <2>4. mem[q] = Dirty => \A c \in Chunks : Append(q, c) \in DOMAIN mem
    BY DEF Trees, Arena
  <2> QED
    BY <1>1, <2>1, <2>3, <2>4
<1>3. DOMAIN mem \subseteq Routes
  BY DEF Trees, Arena
<1>4. head.plow <= Plow
  BY <1>1 DEF Basic
<1> QED
  BY <1>1, <1>2, <1>3, <1>4 DEF Basic, TypeOK

\* Both tries answer what they should (Hamt::lookup).
LEMMA InvAnswers ==
    ASSUME Basic, Trees
    PROVE  IndexAnswers /\ HeadAnswers
<1>1. Len(tract) \in Nat /\ head.plow \in Nat
  BY SeqFacts DEF Basic
<1>2. Answers(mem, want, lost.mem)
  BY <1>1, TreeAnswers DEF Trees, MemS
<1>3. Answers(FromRoot(head.root), saved, lost.head)
  BY <1>1, TreeAnswers DEF Trees, HeadS
<1> QED
  BY <1>2, <1>3 DEF IndexAnswers, HeadAnswers

\* Reach and Walked, slot by slot.
LEMMA ReachIs ==
    ASSUME NEW m, NEW S, S = Slots(tract, m)
    PROVE  /\ \A l : l \in Walked(m) <=> \E q \in Paths : S[q] # Dirty /\ Holds(tract, S[q], l)
           /\ \A l \in Nat : l \in Reach(m) <=> Reached(tract, S, l)
           /\ \A l \in Reach(m) : l \in Walked(m)
           /\ \A l : l \in Children(m) <=> l # Nil /\ l # Dirty /\ \E q \in Paths : S[q] = l
<1>1. \A q : Slot(m, q) = S[q]
  BY NowIs
<1>2. \A c : (Sealed(c) <=> SealedIn(tract, c)) /\ FurrowsOf(c) = FurrowsIn(tract, c)
  BY NowIs
<1>3. \A l : l \in Children(m) <=> l # Nil /\ l # Dirty /\ \E q \in Paths : S[q] = l
  BY <1>1, Zenon DEF Children
<1>4. ASSUME NEW l
      PROVE  l \in Walked(m) <=> \E c : c \in Children(m) /\ Sealed(c)
                                        /\ (l = c \/ l \in ToSet(FurrowsOf(c)))
  <2> DEFINE F(c) == {c} \cup ToSet(FurrowsOf(c))
             live0 == {c \in Children(m) : Sealed(c)}
  <2>1. Walked(m) = UNION {F(c) : c \in live0}
    BY DEF Walked
  <2>2. \A c : l \in F(c) <=> l = c \/ l \in ToSet(FurrowsOf(c))
    OBVIOUS
  <2>3. \A c : c \in live0 <=> c \in Children(m) /\ Sealed(c)
    OBVIOUS
  <2> HIDE DEF F, live0
  <2>4. l \in UNION {F(c) : c \in live0} <=> \E c \in live0 : l \in F(c)
    BY Zenon
  <2> QED
    BY <2>1, <2>2, <2>3, <2>4
<1>5. ASSUME NEW l
      PROVE  l \in Walked(m) <=> \E q \in Paths : S[q] # Dirty /\ Holds(tract, S[q], l)
  <2>1. ~SealedIn(tract, Nil)
    BY KindNil
  <2> QED
    BY <1>2, <1>3, <1>4, <2>1 DEF Holds
<1>6. \A l : l \in Reach(m) <=> l \in Walked(m) /\ SealedIn(tract, l)
  BY <1>2, Zenon DEF Reach
<1>7. ASSUME NEW l \in Nat PROVE l \in Reach(m) <=> Reached(tract, S, l)
  <2>1. l # Dirty
    BY DEF Dirty
  <2>2. ~Holds(tract, Dirty, l)
    BY <2>1, KindNil DEF Holds, ToSet
  <2> QED
    BY <1>5, <1>6, <2>2 DEF Reached
<1> QED
  BY <1>3, <1>5, <1>6, <1>7

\* The walk of a trie stays inside the tract.
LEMMA WalkedBelow ==
    ASSUME NEW m, NEW S, S = Slots(tract, m), NEW v, NEW hurt, NEW b \in Nat,
           Tree(tract, S, v, hurt, b)
    PROVE  Walked(m) \subseteq 1 .. b /\ Reach(m) \subseteq 1 .. b
<1>1. ASSUME NEW l \in Walked(m) PROVE l \in 1 .. b
  <2>1. PICK q \in Paths : S[q] # Dirty /\ Holds(tract, S[q], l)
    BY ReachIs
  <2>2. l = Dirty => l # S[q]
    BY <2>1
  <2>3. l # Dirty
    <3>1. l # S[q] => l \in 1 .. b
      BY <2>1, HeldBelow
    <3> QED
      BY <2>2, <3>1 DEF Dirty
  <2> QED
    BY <2>1, <2>3, HeldBelow
<1> QED
  BY <1>1, ReachIs

\* The live set under the delta is the index.
LEMMA InvLive ==
    ASSUME Basic, Trees, LiveInv
    PROVE  LiveIsIndex
<1>1. SUFFICES ASSUME Idle PROVE {l \in LiveSetApply : Sealed(l)} = Reach(mem)
  BY DEF LiveIsIndex
<1>2. Len(tract) \in Nat
  BY MemFacts
<1>3. LiveOK(tract, MemS, LiveSetApply, {})
  BY <1>1 DEF LiveInv, Idle, Pending
<1>4. LiveSetApply \subseteq Nat
  BY <1>2 DEF LiveSetApply, Basic
<1>5. Reach(mem) \subseteq Nat
  BY <1>2, WalkedBelow DEF Trees, MemS
<1>6. \A l \in Nat : l \in Reach(mem) <=> Reached(tract, MemS, l)
  BY ReachIs DEF MemS
<1>7. \A l : Sealed(l) <=> SealedIn(tract, l)
  BY NowIs
<1> QED
  BY <1>3, <1>4, <1>5, <1>6, <1>7 DEF LiveOK

\* A block the trie reaches that is no furrow is where its self-address leads.
LEMMA FoundAt ==
    ASSUME NEW m, NEW S, S = Slots(tract, m), NEW v, NEW hurt, NEW b \in Nat,
           Tree(tract, S, v, hurt, b), NEW l \in Nat, Reached(tract, S, l)
    PROVE  /\ l \in 1 .. b
           /\ KindIn(tract, l) \in {"node", "lone", "extent", "furrow"}
           /\ KindIn(tract, l) = "node" => tract[l].path \in Paths /\ S[tract[l].path] = l
           /\ LeafIn(tract, l) => /\ tract[l].key \in Keys /\ S[End(m, tract[l].key)] = l
                                  /\ FindLeaf(m, tract[l].key) = l
           /\ KindIn(tract, l) = "furrow" =>
                /\ tract[l].key \in Keys /\ FindLeaf(m, tract[l].key) # Nil
                /\ KindIn(tract, FindLeaf(m, tract[l].key)) = "extent"
                /\ \E j \in 1 .. Len(FurrowsIn(tract, FindLeaf(m, tract[l].key))) :
                     l = FurrowsIn(tract, FindLeaf(m, tract[l].key))[j] /\ tract[l].i = j
<1>0. l # Dirty
  BY DEF Dirty
<1>1. PICK q \in Paths : Holds(tract, S[q], l) /\ SealedIn(tract, l)
  BY DEF Reached
<1>2. q \in Routes /\ S[q] # Nil /\ l \in 1 .. b /\ S[q] \in 1 .. b
  BY <1>0, <1>1, HeldBelow
<1>3. CASE l = S[q]
  <2>1. KindIn(tract, l) \in {"node", "lone", "extent"}
    BY <1>1, <1>2, <1>3 DEF Tree, Shape, SealedIn
  <2>2. KindIn(tract, l) = "node" => tract[l].path = q
    BY <1>2, <1>3 DEF Tree, Shape
  <2>3. LeafIn(tract, l) => /\ tract[l].key \in Keys /\ q = End(m, tract[l].key)
                            /\ FindLeaf(m, tract[l].key) = l
    <3>1. SUFFICES ASSUME LeafIn(tract, l) PROVE /\ tract[l].key \in Keys /\ q = End(m, tract[l].key)
                                                 /\ FindLeaf(m, tract[l].key) = l
      OBVIOUS
    <3>2. tract[l].key \in Keys
      BY <1>3, <3>1 DEF Tree, Leaves, LeafOK
    <3> QED
      BY <1>3, <3>1, <3>2, FindIs
  <2> QED
    BY <1>2, <1>3, <2>1, <2>2, <2>3
<1>4. CASE l # S[q]
  <2>1. l \in ToSet(FurrowsIn(tract, S[q]))
    BY <1>1, <1>4 DEF Holds
  <2>2. KindIn(tract, S[q]) = "extent"
    BY <2>1 DEF FurrowsIn, ToSet
  <2>3. LeafIn(tract, S[q]) /\ LeafOK(tract, S[q], q, v, hurt, b)
    BY <2>2 DEF LeafIn, Tree, Leaves
  <2>4. PICK j \in 1 .. Len(FurrowsIn(tract, S[q])) : l = FurrowsIn(tract, S[q])[j]
    BY <2>1, <2>3, SeqFacts DEF LeafOK
  <2>5. FurrowOK(tract, l, tract[S[q]].key, j, v[tract[S[q]].key])
    BY <2>3, <2>4 DEF LeafOK
  <2>6. KindIn(tract, l) = "furrow" /\ tract[l].key = tract[S[q]].key /\ tract[l].i = j
    BY <1>1, <2>5 DEF FurrowOK, SealedIn
  <2>7. tract[S[q]].key \in Keys
    BY <2>3 DEF LeafOK
  <2>8. FindLeaf(m, tract[l].key) = S[q] /\ tract[l].key \in Keys
    BY <2>3, <2>6, <2>7, FindIs
  <2>9. ~LeafIn(tract, l)
    BY <2>6 DEF LeafIn
  <2> QED
    BY <1>2, <2>2, <2>4, <2>6, <2>8, <2>9
<1> QED
  BY <1>3, <1>4

\* What a window has left to move, and was not retired, is reached.
LEMMA LeftReached ==
    ASSUME Basic, Trees, Unsettled, LiveInv, ReapInv, pc = "reap",
           NEW l \in work.left, l \notin delta.removed
    PROVE  l \in Nat /\ Reached(tract, MemS, l) /\ l \in live /\ l \in 1 .. Len(tract)
<1>1. work.settled /\ Pending = {}
  BY DEF Unsettled, Pending
<1>2. l \in live /\ SealedIn(tract, l)
  BY DEF ReapInv
<1>3. l \in 1 .. Len(tract) /\ l \in Nat
  BY <1>2 DEF Basic
<1>4. l \in LiveSetApply
  BY <1>2 DEF LiveSetApply
<1> QED
  BY <1>1, <1>2, <1>3, <1>4 DEF LiveInv, LiveOK

\* A survivor is where its self-address leads (Hamt::repair_relocs).
LEMMA InvRepoint ==
    ASSUME Basic, Trees, Unsettled, LiveInv, ReapInv
    PROVE  RepointFinds
<1>1. SUFFICES ASSUME pc = "reap", NEW l \in work.left, l \notin delta.removed, Kind(l) # "furrow"
      PROVE  Slot(mem, Address(l)) = l
  BY DEF RepointFinds
<1>2. l \in Nat /\ Reached(tract, MemS, l)
  BY <1>1, LeftReached
<1>3. Kind(l) = KindIn(tract, l) /\ \A q : Slot(mem, q) = MemS[q]
  BY NowIs DEF MemS
<1>4. Len(tract) \in Nat
  BY MemFacts
<1>5. /\ KindIn(tract, l) \in {"node", "lone", "extent", "furrow"}
      /\ KindIn(tract, l) = "node" => tract[l].path \in Paths /\ MemS[tract[l].path] = l
      /\ LeafIn(tract, l) => MemS[End(mem, tract[l].key)] = l
  <2>1. MemS = Slots(tract, mem) /\ Tree(tract, MemS, want, lost.mem, Len(tract))
    BY DEF Trees, MemS
  <2> QED
    BY <1>2, <1>4, <2>1, FoundAt
<1>6. CASE KindIn(tract, l) = "node"
  BY <1>3, <1>5, <1>6 DEF Address
<1>7. CASE KindIn(tract, l) # "node"
  <2>1. LeafIn(tract, l)
    BY <1>1, <1>3, <1>5, <1>7 DEF LeafIn
  <2> QED
    BY <1>3, <1>5, <1>7, <2>1 DEF Address
<1> QED
  BY <1>6, <1>7

\* Retired windows are empty (Vault::reap_staged).
LEMMA InvRetired ==
    ASSUME Basic, Trees, RetiredInv
    PROVE  RetiredIsEmpty
<1> DEFINE committed == FromRoot(head.root)
           hurt == UNION {LeafBlocks(FindLeaf(committed, k)) : k \in lost.head}
<1>1. SUFFICES ASSUME pc # "down", work.settled, NEW l \in Reach(committed),
                      l \notin hurt, l \notin stray
               PROVE  l > reap
  BY DEF RetiredIsEmpty
<1>2. head.plow \in Nat
  BY SeqFacts DEF Basic
<1>3. HeadS = Slots(tract, committed) /\ Tree(tract, HeadS, saved, lost.head, head.plow)
  BY DEF Trees, HeadS
<1> HIDE DEF committed
<1>4. l \in Nat
  BY <1>2, <1>3, WalkedBelow
<1>5. Reached(tract, HeadS, l)
  BY <1>3, <1>4, ReachIs
<1>6. CASE ~work.repair
  BY <1>1, <1>4, <1>5, <1>6 DEF RetiredInv, Past
<1>7. CASE work.repair
  <2>1. SUFFICES ASSUME NEW q \in Paths, LeafIn(tract, HeadS[q]), tract[HeadS[q]].key \in lost.head,
                        Holds(tract, HeadS[q], l)
                 PROVE  FALSE
    BY <1>1, <1>4, <1>5, <1>7 DEF RetiredInv
  <2> DEFINE k == tract[HeadS[q]].key
  <2>2. k \in Keys
    BY <2>1 DEF Basic
  <2>3. FindLeaf(committed, k) = HeadS[q]
    BY <1>2, <1>3, <2>1, <2>2, FindIs
  <2>4. l \in LeafBlocks(HeadS[q])
    <3>1. SealedIn(tract, l)
      BY <1>5 DEF Reached
    <3> QED
      BY <2>1, <3>1, NowIs DEF LeafBlocks, Holds
  <2>5. l \in hurt
    <3> HIDE DEF k
    <3>1. l \in LeafBlocks(FindLeaf(committed, k)) /\ k \in lost.head
      BY <2>1, <2>3, <2>4 DEF k
    <3> QED
      BY <3>1, Zenon
  <2> QED
    BY <1>1, <2>5
<1> QED
  BY <1>6, <1>7

\* What FurrowsSound reads, in terms of the tract.
LEMMA SoundIs ==
    ASSUME NEW c
    PROVE  /\ KindIn(tract, c) # "extent" => FurrowsSound(c)
           /\ FurrowsSound(c) <=> \A j \in DOMAIN FurrowsIn(tract, c) :
                /\ tract[FurrowsIn(tract, c)[j]].kind = "furrow"
                /\ tract[FurrowsIn(tract, c)[j]].key = tract[c].key
                /\ tract[FurrowsIn(tract, c)[j]].i = j
<1>1. FurrowsOf(c) = FurrowsIn(tract, c)
  BY NowIs
<1>2. FurrowsSound(c) <=> \A j \in DOMAIN FurrowsIn(tract, c) :
        /\ tract[FurrowsIn(tract, c)[j]].kind = "furrow"
        /\ tract[FurrowsIn(tract, c)[j]].key = tract[c].key
        /\ tract[FurrowsIn(tract, c)[j]].i = j
  BY <1>1 DEF FurrowsSound
<1>3. KindIn(tract, c) # "extent" => DOMAIN FurrowsIn(tract, c) = {}
  BY DEF FurrowsIn
<1> QED
  BY <1>2, <1>3

\* The leaf of a key nothing happened to is whole.
LEMMA LeafSound ==
    ASSUME NEW S, NEW v, NEW hurt, NEW b \in Nat, Tree(tract, S, v, hurt, b),
           NEW q \in Paths, LeafIn(tract, S[q])
    PROVE  /\ tract[S[q]].key \notin hurt => FurrowsSound(S[q])
           /\ FurrowsSound(S[q]) => \A l \in ToSet(FurrowsIn(tract, S[q])) : SealedIn(tract, l)
<1> DEFINE F == FurrowsIn(tract, S[q])
           k == tract[S[q]].key
<1>1. LeafOK(tract, S[q], q, v, hurt, b)
  BY DEF Tree, Leaves
<1>2. IsSeq(F) /\ DOMAIN F = 1 .. Len(F) /\ ToSet(F) = {F[i] : i \in 1 .. Len(F)}
  BY <1>1, SeqFacts DEF LeafOK
<1>3. \A j \in 1 .. Len(F) : F[j] \in 1 .. b /\ FurrowOK(tract, F[j], k, j, v[k])
         /\ (k \notin hurt => KindIn(tract, F[j]) = "furrow")
  BY <1>1 DEF LeafOK
<1>4. \A j \in 1 .. Len(F) : KindIn(tract, F[j]) = tract[F[j]].kind
  BY <1>3 DEF KindIn, Nil, Dirty
<1>5. k \notin hurt => FurrowsSound(S[q])
  BY <1>2, <1>3, <1>4, SoundIs DEF FurrowOK
<1>6. FurrowsSound(S[q]) => \A j \in 1 .. Len(F) : SealedIn(tract, F[j])
  BY <1>2, <1>4, SoundIs DEF SealedIn
<1> QED
  BY <1>2, <1>5, <1>6

\* The inspector is right both ways (inspect::build_checks).
LEMMA InvInspector ==
    ASSUME Basic, Trees, CountInv
    PROVE  InspectorRight
<1> DEFINE m == FromRoot(head.root)
           S == HeadS
           b == head.plow
<1>1. S = Slots(tract, m) /\ Tree(tract, S, saved, lost.head, b) /\ b \in Nat
  BY SeqFacts DEF Trees, HeadS, Basic
<1>2. \A q : Slot(m, q) = S[q]
  BY <1>1, NowIs
<1>3. \A t : t \in InspectTree <=> \E q \in Paths : t = <<q, S[q]>> /\ KindIn(tract, S[q]) \notin {"none", "zero"}
  <2>1. \A c : Kind(c) = KindIn(tract, c)
    BY NowIs
  <2>2. InspectTree = {t \in {<<q, S[q]>> : q \in Paths} : KindIn(tract, t[2]) \notin {"none", "zero"}}
    BY <1>2, <2>1, Zenon DEF InspectTree
  <2>3. \A q : <<q, S[q]>>[2] = S[q]
    OBVIOUS
  <2> HIDE DEF S
  <2> QED
    BY <2>2, <2>3
<1> HIDE DEF m, S, b
<1>4. ASSUME InspectPasses, NEW k \in Keys
      PROVE  Lookup(m, k) = saved[k] \/ (k \in lost.head /\ Lookup(m, k) = Absent)
  <2> DEFINE e == End(m, k)
  <2>1. e \in Paths
    BY <1>1, EndIs DEF Tree
  <2>2. Slot(m, e) = S[e] /\ Kind(S[e]) = KindIn(tract, S[e])
    BY <1>2, NowIs
  <2>3. SUFFICES ASSUME KindIn(tract, S[e]) = "bad" \/ ~FurrowsSound(S[e]) PROVE FALSE
    BY <1>1, <2>2, TreeAnswers
  <2>4. KindIn(tract, S[e]) \notin {"none", "zero"}
    BY <2>3, SoundIs
  <2>5. InspectSound(e, S[e])
    <3>1. <<e, S[e]>> \in InspectTree
      BY <1>3, <2>1, <2>4
    <3>2. InspectSound(<<e, S[e]>>[1], <<e, S[e]>>[2])
      BY <1>4, <3>1 DEF InspectPasses
    <3> QED
      BY <3>2
  <2>6. SealedIn(tract, S[e]) /\ FurrowsSound(S[e])
    BY <2>5, NowIs DEF InspectSound
  <2> QED
    BY <2>3, <2>6 DEF SealedIn
<1>5. ASSUME lost.head = {}, ~lost.past PROVE InspectPasses
  <2>1. ASSUME NEW q \in Paths, KindIn(tract, S[q]) \notin {"none", "zero"}
        PROVE  /\ SealedIn(tract, S[q]) /\ FurrowsSound(S[q]) /\ InspectSound(q, S[q])
               /\ \A l \in ToSet(FurrowsIn(tract, S[q])) : SealedIn(tract, l)
    <3>1. S[q] # Nil /\ q \in Routes
      BY <2>1, KindNil, PathFacts
    <3>2. PICK k \in Keys : q \in Along(k)
      BY PathFacts
    <3>3. KindIn(tract, S[q]) # "bad"
      BY <1>1, <1>5, <3>2 DEF Tree, Kept
    <3>4. KindIn(tract, S[q]) \in {"node", "lone", "extent"}
      BY <1>1, <2>1, <3>1, <3>3 DEF Tree, Shape
    <3>5. SealedIn(tract, S[q])
      BY <3>4 DEF SealedIn
    <3>6. FurrowsSound(S[q]) /\ \A l \in ToSet(FurrowsIn(tract, S[q])) : SealedIn(tract, l)
      <4>1. CASE LeafIn(tract, S[q])
        BY <1>1, <1>5, <4>1, LeafSound
      <4>2. CASE ~LeafIn(tract, S[q])
        <5>1. KindIn(tract, S[q]) # "extent"
          BY <4>2 DEF LeafIn
        <5> QED
          BY <5>1, SoundIs DEF FurrowsIn, ToSet
      <4> QED
        BY <4>1, <4>2
    <3>7. LeafIn(tract, S[q]) => IsPrefix(q, tract[S[q]].key)
      <4>1. SUFFICES ASSUME LeafIn(tract, S[q]) PROVE IsPrefix(q, tract[S[q]].key)
        OBVIOUS
      <4>2. tract[S[q]].key \in Keys /\ q \in Along(tract[S[q]].key)
        BY <1>1, <4>1 DEF Tree, Leaves, LeafOK
      <4> QED
        BY <4>2, PrefixAlong
    <3>8. KindIn(tract, S[q]) = "node" => Len(tract[S[q]].path) = Len(q)
      <4>1. S[q] # Dirty /\ S[q] \in -1 .. b
        BY <1>1, <3>1 DEF Trees, S, Tree, Shape
      <4>2. S[q] > 0
        BY <1>1, <3>1, <4>1 DEF Nil, Dirty
      <4> QED
        BY <1>1, <3>1, <4>2 DEF Tree, Shape
    <3> QED
      BY <3>5, <3>6, <3>7, <3>8, NowIs DEF InspectSound
  <2>2. ASSUME NEW t \in InspectTree PROVE InspectSound(t[1], t[2])
    <3>1. PICK q \in Paths : t = <<q, S[q]>> /\ KindIn(tract, S[q]) \notin {"none", "zero"}
      BY <1>3
    <3>2. InspectSound(q, S[q])
      BY <2>1, <3>1
    <3> QED
      BY <3>1, <3>2
  <2> DEFINE U == UNION {{t[2]} \cup ToSet(FurrowsOf(t[2])) : t \in InspectTree}
             W == {l \in 1 .. head.plow : Reached(tract, HeadS, l)}
  <2>3. \A l : l \in U <=> \E t \in InspectTree : l = t[2] \/ l \in ToSet(FurrowsOf(t[2]))
    BY Zenon
  <2>4. \A l : l \in U <=> \E q \in Paths : /\ KindIn(tract, S[q]) \notin {"none", "zero"}
                                            /\ l = S[q] \/ l \in ToSet(FurrowsIn(tract, S[q]))
    <3>1. \A q : <<q, S[q]>>[2] = S[q]
      OBVIOUS
    <3>2. \A c : FurrowsOf(c) = FurrowsIn(tract, c)
      BY NowIs
    <3> HIDE DEF U
    <3>3. ASSUME NEW l, NEW t \in InspectTree, l = t[2] \/ l \in ToSet(FurrowsOf(t[2]))
          PROVE  \E q \in Paths : /\ KindIn(tract, S[q]) \notin {"none", "zero"}
                                  /\ l = S[q] \/ l \in ToSet(FurrowsIn(tract, S[q]))
      <4>1. PICK q \in Paths : t = <<q, S[q]>> /\ KindIn(tract, S[q]) \notin {"none", "zero"}
        BY <1>3
      <4>2. t[2] = S[q] /\ FurrowsOf(t[2]) = FurrowsIn(tract, S[q])
        BY <3>2, <4>1
      <4> QED
        BY <3>3, <4>1, <4>2
    <3>4. ASSUME NEW l, NEW q \in Paths, KindIn(tract, S[q]) \notin {"none", "zero"},
                 l = S[q] \/ l \in ToSet(FurrowsIn(tract, S[q]))
          PROVE  \E t \in InspectTree : l = t[2] \/ l \in ToSet(FurrowsOf(t[2]))
      <4>1. <<q, S[q]>> \in InspectTree
        BY <1>3, <3>4
      <4>2. l = <<q, S[q]>>[2] \/ l \in ToSet(FurrowsOf(<<q, S[q]>>[2]))
        BY <3>1, <3>2, <3>4
      <4> QED
        BY <4>1, <4>2
    <3> QED
      BY <2>3, <3>3, <3>4
  <2> HIDE DEF U
  <2>5. ASSUME NEW l \in U PROVE l \in W
    <3>1. PICK q \in Paths : /\ KindIn(tract, S[q]) \notin {"none", "zero"}
                             /\ l = S[q] \/ l \in ToSet(FurrowsIn(tract, S[q]))
      BY <2>4
    <3>2. SealedIn(tract, S[q]) /\ SealedIn(tract, l)
      BY <2>1, <3>1
    <3>3. Holds(tract, S[q], l)
      BY <3>1, <3>2 DEF Holds
    <3>4. l # Dirty
      <4>1. S[q] # Dirty
        BY PathFacts DEF Trees, S
      <4>2. l # S[q] => l \in 1 .. b
        BY <1>1, <3>3, HeldBelow
      <4> QED
        BY <4>1, <4>2 DEF Dirty
    <3>5. l \in 1 .. b
      BY <1>1, <3>3, <3>4, HeldBelow
    <3> QED
      BY <3>2, <3>3, <3>5 DEF Reached, S, b
  <2>6. ASSUME NEW l \in W PROVE l \in U
    <3>1. PICK q \in Paths : Holds(tract, S[q], l)
      BY DEF Reached, S
    <3>2. KindIn(tract, S[q]) \notin {"none", "zero"}
      BY <3>1 DEF Holds, SealedIn
    <3> QED
      BY <2>4, <3>1, <3>2 DEF Holds
  <2>7. U = W
    BY <2>5, <2>6
  <2>8. Cardinality(U) = head.live
    BY <1>5, <2>7 DEF CountInv
  <2> QED
    BY <2>2, <2>8 DEF InspectPasses, U
<1> QED
  BY <1>4, <1>5 DEF InspectorRight, m

\* The trie of a committed root has one slot of its own.
LEMMA RootIs ==
    ASSUME NEW c
    PROVE  /\ DOMAIN FromRoot(c) = {<<>>} /\ FromRoot(c)[<<>>] = c /\ Root(FromRoot(c)) = c
           /\ \A t : Slots(t, FromRoot(c))[<<>>] = c
           /\ \A q \in DOMAIN FromRoot(c) : Above(q) = {}
<1>1. DOMAIN FromRoot(c) = {<<>>} /\ FromRoot(c)[<<>>] = c /\ Root(FromRoot(c)) = c
  BY DEF FromRoot, At, Root
<1>2. <<>> \in Routes /\ Above(<<>>) = {}
  BY PathFacts, AboveFront
<1>3. ASSUME NEW t PROVE Slots(t, FromRoot(c))[<<>>] = c
  <2>1. Slots(t, FromRoot(c))[<<>>] = SlotStep(t, FromRoot(c), Slots(t, FromRoot(c)), <<>>)
    BY <1>2, SlotsUnfold
  <2> QED
    BY <1>1, <2>1 DEF SlotStep
<1> QED
  BY <1>1, <1>2, <1>3

\* A committed root is an arena with nothing in it.
LEMMA ArenaRoot ==
    ASSUME NEW t, NEW c, NEW S, S = Slots(t, FromRoot(c)), \A q \in Routes : S[q] # Dirty
    PROVE  Arena(FromRoot(c), S)
<1>1. /\ DOMAIN FromRoot(c) = {<<>>} /\ FromRoot(c)[<<>>] = c /\ S[<<>>] = c
      /\ \A q \in DOMAIN FromRoot(c) : Above(q) = {}
  BY RootIs
<1>2. <<>> \in Routes
  BY PathFacts
<1> QED
  BY <1>1, <1>2 DEF Arena

\* A trie whose blocks u has as well.
LEMMA SameBelow ==
    ASSUME NEW t, NEW u, NEW S, NEW v, NEW hurt, NEW b \in Nat, Tree(t, S, v, hurt, b),
           \A l \in 1 .. b : u[l] = t[l]
    PROVE  Same(t, u, S)
<1>1. SUFFICES ASSUME NEW q \in Paths, S[q] > 0
               PROVE  u[S[q]] = t[S[q]] /\ \A l \in ToSet(FurrowsIn(t, S[q])) : u[l] = t[l]
  BY DEF Same
<1>2. q \in Routes /\ S[q] \in 1 .. b
  BY <1>1, PathFacts DEF Tree, Shape
<1>3. ASSUME NEW l \in ToSet(FurrowsIn(t, S[q])) PROVE l \in 1 .. b
  <2>1. KindIn(t, S[q]) = "extent"
    BY <1>3 DEF FurrowsIn, ToSet
  <2>2. LeafOK(t, S[q], q, v, hurt, b)
    BY <2>1 DEF Tree, Leaves, LeafIn
  <2> QED
    BY <2>2, SeqFacts DEF LeafOK
<1> QED
  BY <1>2, <1>3

\* A trie stays one in a longer tract.
LEMMA TreeWiden ==
    ASSUME NEW t, NEW S, NEW v, NEW hurt, NEW b \in Nat, NEW b2 \in Nat, b <= b2,
           Tree(t, S, v, hurt, b)
    PROVE  Tree(t, S, v, hurt, b2)
<1>1. Shape(t, S, b2)
  <2>1. S \in [Routes -> -1 .. b2]
    <3>1. \A x \in -1 .. b : x \in -1 .. b2
      OBVIOUS
    <3> QED
      BY <3>1 DEF Tree, Shape
  <2> QED
    BY <2>1 DEF Tree, Shape
<1>2. Leaves(t, S, v, hurt, b2)
  <2>1. \A x \in 1 .. b : x \in 1 .. b2
    OBVIOUS
  <2>2. ASSUME NEW q \in Paths, LeafIn(t, S[q]) PROVE LeafOK(t, S[q], q, v, hurt, b2)
    <3>1. LeafOK(t, S[q], q, v, hurt, b)
      BY <2>2 DEF Tree, Leaves
    <3> QED
      BY <2>1, <3>1 DEF LeafOK
  <2> QED
    BY <2>2 DEF Leaves
<1> QED
  BY <1>1, <1>2 DEF Tree

\* The head under steps that leave its part of the tract alone.
LEMMA HeadStays ==
    ASSUME Basic, Trees, NEW u, \A l \in 1 .. head.plow : u[l] = tract[l]
    PROVE  /\ Slots(u, FromRoot(head.root)) = HeadS
           /\ Tree(u, HeadS, saved, lost.head, head.plow)
           /\ \A l \in Nat : Reached(u, HeadS, l) <=> Reached(tract, HeadS, l)
           /\ \A q \in Paths, l \in Nat : Holds(u, HeadS[q], l) <=> Holds(tract, HeadS[q], l)
           /\ \A l \in Nat : Reached(tract, HeadS, l) => l \in 1 .. head.plow
           /\ \A q \in Paths : /\ LeafIn(u, HeadS[q]) <=> LeafIn(tract, HeadS[q])
                               /\ LeafIn(u, HeadS[q]) => u[HeadS[q]] = tract[HeadS[q]]
<1>1. /\ head.plow \in Nat /\ HeadS = Slots(tract, FromRoot(head.root))
      /\ Tree(tract, HeadS, saved, lost.head, head.plow)
  BY SeqFacts DEF Basic, Trees, HeadS
<1>2. Same(tract, u, HeadS)
  BY <1>1, SameBelow
<1>3. /\ Slots(u, FromRoot(head.root)) = HeadS
      /\ Tree(u, HeadS, saved, lost.head, head.plow)
      /\ \A l \in Nat : Reached(u, HeadS, l) <=> Reached(tract, HeadS, l)
      /\ \A q \in Paths, l \in Nat : Holds(u, HeadS[q], l) <=> Holds(tract, HeadS[q], l)
  <2> DEFINE m == FromRoot(head.root)
             b == head.plow
             v == saved
             h == lost.head
  <2>1. HeadS = Slots(tract, m) /\ b \in Nat /\ Tree(tract, HeadS, v, h, b)
    BY <1>1
  <2> HIDE DEF m, b, v, h
  <2>2. /\ Slots(u, m) = HeadS
        /\ Tree(u, HeadS, v, h, b)
        /\ \A l \in Nat : Reached(u, HeadS, l) <=> Reached(tract, HeadS, l)
        /\ \A q \in Paths, l \in Nat : Holds(u, HeadS[q], l) <=> Holds(tract, HeadS[q], l)
    BY <1>2, <2>1, Frame
  <2> QED
    BY <2>2 DEF m, b, v, h
<1>4. ASSUME NEW l \in Nat, Reached(tract, HeadS, l) PROVE l \in 1 .. head.plow
  <2>1. PICK q \in Paths : Holds(tract, HeadS[q], l)
    BY <1>4 DEF Reached
  <2> QED
    BY <1>1, <2>1, HeldBelow DEF Dirty
<1>5. ASSUME NEW q \in Paths
      PROVE  /\ LeafIn(u, HeadS[q]) <=> LeafIn(tract, HeadS[q])
             /\ LeafIn(u, HeadS[q]) => u[HeadS[q]] = tract[HeadS[q]]
  <2>1. HeadS[q] \in -1 .. head.plow /\ HeadS[q] # Dirty
    BY <1>1, PathFacts DEF Tree, Shape, Trees
  <2>2. HeadS[q] \in Int /\ HeadS[q] >= -1 /\ (HeadS[q] > 0 => u[HeadS[q]] = tract[HeadS[q]])
    BY <1>1, <2>1
  <2>3. LeafIn(u, HeadS[q]) => HeadS[q] # 0 /\ HeadS[q] # -1
    BY KindNil
  <2> QED
    BY <2>2, <2>3, SameBlock
<1> QED
  BY <1>3, <1>4, <1>5

\* Both tries under an append.
LEMMA Grown ==
    ASSUME Basic, Trees, NEW u, Len(u) \in Nat, Len(tract) <= Len(u),
           \A l \in 1 .. Len(tract) : u[l] = tract[l]
    PROVE  /\ Slots(u, mem) = MemS
           /\ Tree(u, MemS, want, lost.mem, Len(u))
           /\ \A l \in Nat : Reached(u, MemS, l) <=> Reached(tract, MemS, l)
           /\ \A l \in 1 .. head.plow : u[l] = tract[l]
           /\ \A l \in 1 .. Len(tract) : /\ SealedIn(u, l) <=> SealedIn(tract, l)
                                         /\ KindIn(u, l) = KindIn(tract, l)
<1>1. /\ Len(tract) \in Nat /\ MemS = Slots(tract, mem)
      /\ Tree(tract, MemS, want, lost.mem, Len(tract))
  BY MemFacts DEF Trees, MemS
<1>2. Same(tract, u, MemS)
  BY <1>1, SameBelow
<1>3. /\ Slots(u, mem) = MemS
      /\ Tree(u, MemS, want, lost.mem, Len(tract))
      /\ \A l \in Nat : Reached(u, MemS, l) <=> Reached(tract, MemS, l)
  BY <1>1, <1>2, Frame
<1>4. Tree(u, MemS, want, lost.mem, Len(u))
  BY <1>1, <1>3, TreeWiden
<1>5. \A l \in 1 .. head.plow : u[l] = tract[l]
  BY <1>1 DEF Basic
<1>6. ASSUME NEW l \in 1 .. Len(tract)
      PROVE  (SealedIn(u, l) <=> SealedIn(tract, l)) /\ KindIn(u, l) = KindIn(tract, l)
  <2>1. l \in Int /\ l >= -1 /\ (l > 0 => u[l] = tract[l])
    BY <1>1
  <2> QED
    BY <2>1, SameBlock
<1> QED
  BY <1>3, <1>4, <1>5, <1>6

(***************************************************************************)
(* The steps that write no block and change no slot.                       *)
(***************************************************************************)
LEMMA QuietTrees ==
    ASSUME Inv, tract' = tract, mem' = mem, head' = head, want' = want, saved' = saved, lost' = lost
    PROVE  Trees' /\ MemS' = MemS /\ HeadS' = HeadS
<1>1. MemS' = MemS /\ HeadS' = HeadS
  BY DEF MemS, HeadS
<1> QED
  BY <1>1 DEF Inv, Trees

\* A stuttering step keeps the invariant.
LEMMA StutterStep ==
    ASSUME Inv, UNCHANGED vars
    PROVE  Inv'
<1>0. /\ tract' = tract /\ head' = head /\ mem' = mem /\ delta' = delta /\ live' = live
      /\ reap' = reap /\ pendingReap' = pendingReap /\ pc' = pc /\ work' = work /\ want' = want
      /\ saved' = saved /\ lost' = lost /\ stray' = stray /\ ops' = ops
  BY DEF vars, index, space, ghosts
<1>1. Trees' /\ MemS' = MemS /\ HeadS' = HeadS
  BY <1>0, QuietTrees
<1>2. LiveSetApply' = LiveSetApply /\ Pending' = Pending
  BY <1>0 DEF LiveSetApply, Pending
<1>3. Basic'
  BY <1>0 DEF Inv, Basic
<1>4. Unsettled' /\ RetiredInv' /\ ReapInv'
  BY <1>0, <1>1 DEF Inv, Unsettled, RetiredInv, ReapInv
<1>5. LiveInv' /\ EraseInv' /\ CountInv'
  BY <1>0, <1>1, <1>2 DEF Inv, LiveInv, EraseInv, CountInv
<1>6. WalkInv'
  BY <1>0, <1>1 DEF Inv, WalkInv, Read
<1> QED
  BY <1>1, <1>3, <1>4, <1>5, <1>6 DEF Inv

\* The start of a commit keeps the invariant (Vault::commit).
LEMMA CommitStep ==
    ASSUME Inv, Commit
    PROVE  Inv'
<1>0. /\ tract' = tract /\ head' = head /\ mem' = mem /\ delta' = delta /\ live' = live
      /\ reap' = reap /\ pendingReap' = pendingReap /\ work' = work /\ want' = want
      /\ saved' = saved /\ lost' = lost /\ stray' = stray /\ ops' = ops
      /\ pc = "idle" /\ work.settled /\ pc' = "flush"
  BY DEF Commit, Idle, index, space, ghosts
<1>1. Trees' /\ MemS' = MemS /\ HeadS' = HeadS
  BY <1>0, QuietTrees
<1>2. LiveSetApply' = LiveSetApply /\ Pending' = Pending
  BY <1>0 DEF LiveSetApply, Pending
<1>3. Basic'
  BY <1>0 DEF Inv, Basic
<1>4. Unsettled' /\ RetiredInv' /\ ReapInv' /\ EraseInv' /\ WalkInv'
  BY <1>0, <1>1 DEF Inv, Unsettled, RetiredInv, ReapInv, EraseInv, WalkInv
<1>5. LiveInv' /\ CountInv'
  BY <1>0, <1>1, <1>2 DEF Inv, LiveInv, CountInv
<1> QED
  BY <1>1, <1>3, <1>4, <1>5 DEF Inv

\* A refused flush keeps the invariant (Hamt::flush, Error::Full).
LEMMA FlushRefusedStep ==
    ASSUME Inv, FlushRefused
    PROVE  Inv'
<1>0. /\ tract' = tract /\ head' = head /\ mem' = mem /\ delta' = delta /\ live' = live
      /\ reap' = reap /\ pendingReap' = pendingReap /\ want' = want
      /\ saved' = saved /\ lost' = lost /\ stray' = stray /\ ops < MaxOps /\ ops' = ops + 1
      /\ pc = "flush" /\ pc' = "idle" /\ ~work.repair
      /\ work' = [work EXCEPT !.landing = FALSE]
  BY DEF FlushRefused, Op, index, space, ghosts
<1>9. work.settled /\ WorkShape(work)
  BY <1>0 DEF Inv, Unsettled, Basic
<1>8. WorkShape(work') /\ work'.settled /\ ~work'.repair
  BY <1>0, <1>9 DEF WorkShape
<1>1. Trees' /\ MemS' = MemS /\ HeadS' = HeadS
  BY <1>0, QuietTrees
<1>2. LiveSetApply' = LiveSetApply /\ Pending' = Pending
  BY <1>0 DEF LiveSetApply, Pending
<1>3. Basic'
  <2>1. ops' \in Nat /\ ops' <= MaxOps
    BY <1>0, HamtAssumption DEF Inv, Basic
  <2> QED
    BY <1>0, <1>8, <2>1 DEF Inv, Basic
<1>4. Unsettled' /\ RetiredInv' /\ ReapInv' /\ EraseInv' /\ WalkInv'
  BY <1>0, <1>1, <1>8, <1>9 DEF Inv, Unsettled, RetiredInv, ReapInv, EraseInv, WalkInv
<1>5. LiveInv' /\ CountInv'
  BY <1>0, <1>1, <1>2, <1>8, <1>9 DEF Inv, LiveInv, CountInv
<1> QED
  BY <1>1, <1>3, <1>4, <1>5 DEF Inv

\* A trie reaches sealed blocks inside the tract.
LEMMA ReachedBelow ==
    ASSUME NEW t, NEW S, NEW v, NEW hurt, NEW b \in Nat, Tree(t, S, v, hurt, b),
           NEW l \in Nat, Reached(t, S, l)
    PROVE  l \in 1 .. b /\ SealedIn(t, l)
<1>1. PICK q \in Paths : Holds(t, S[q], l)
  BY DEF Reached
<1>2. l # Dirty
  BY DEF Dirty
<1> QED
  BY <1>1, <1>2, HeldBelow DEF Reached

\* Nothing lies at position 0.
LEMMA PastZero ==
    ASSUME NEW t, NEW S, NEW v, NEW hurt, NEW b \in Nat, Tree(t, S, v, hurt, b), NEW X
    PROVE  Past(t, S, 0, X)
BY ReachedBelow DEF Past

\* The parts of the invariant most steps use.
LEMMA InvTrees ==
    ASSUME Inv
    PROVE  /\ Basic /\ Trees /\ Len(tract) \in Nat /\ head.plow \in Nat /\ head.plow <= Len(tract)
           /\ MemS = Slots(tract, mem) /\ Tree(tract, MemS, want, lost.mem, Len(tract))
           /\ HeadS = Slots(tract, FromRoot(head.root))
           /\ Tree(tract, HeadS, saved, lost.head, head.plow)
           /\ Past(tract, MemS, 0, {}) /\ Past(tract, HeadS, 0, {})
<1>1. Basic /\ Trees
  BY DEF Inv
<1>2. Len(tract) \in Nat /\ head.plow \in Nat /\ head.plow <= Len(tract)
  BY <1>1, SeqFacts DEF Basic
<1>3. Tree(tract, MemS, want, lost.mem, Len(tract)) /\ Tree(tract, HeadS, saved, lost.head, head.plow)
  BY <1>1 DEF Trees
<1>4. Past(tract, MemS, 0, {})
  BY <1>2, <1>3, PastZero
<1>5. Past(tract, HeadS, 0, {})
  <2> DEFINE b == head.plow
             h == lost.head
  <2>1. b \in Nat /\ Tree(tract, HeadS, saved, h, b)
    BY <1>2, <1>3
  <2> HIDE DEF b, h
  <2> QED
    BY <2>1, PastZero
<1> QED
  BY <1>1, <1>2, <1>3, <1>4, <1>5 DEF MemS, HeadS

\* A growth that keeps the pruned index keeps the invariant.
LEMMA GrowPreservingStep ==
    ASSUME Inv, GrowPreserving
    PROVE  Inv'
<1>0. /\ tract' = tract /\ head' = head /\ mem' = mem /\ delta' = delta /\ live' = live
      /\ reap' = 0 /\ pendingReap' = 0 /\ want' = want
      /\ saved' = saved /\ lost' = lost /\ stray' = stray /\ ops' = ops
      /\ pc = "flush" /\ pc' = "flush"
      /\ work' = [work EXCEPT !.landing = FALSE]
  BY DEF GrowPreserving, index, space, ghosts
<1>9. work.settled /\ WorkShape(work)
  BY <1>0 DEF Inv, Unsettled, Basic
<1>8. WorkShape(work') /\ work'.settled /\ work'.repair = work.repair
  BY <1>0, <1>9 DEF WorkShape
<1>1. Trees' /\ MemS' = MemS /\ HeadS' = HeadS
  BY <1>0, QuietTrees
<1>2. LiveSetApply' = LiveSetApply /\ Pending' = Pending
  BY <1>0 DEF LiveSetApply, Pending
<1>3. Basic'
  <2>1. reap' \in 0 .. Len(tract) /\ pendingReap' \in 0 .. Len(tract)
    BY <1>0, InvTrees
  <2> QED
    BY <1>0, <1>8, <2>1 DEF Inv, Basic
<1>4. Unsettled' /\ ReapInv' /\ EraseInv' /\ WalkInv'
  BY <1>0, <1>1, <1>8, <1>9 DEF Inv, Unsettled, ReapInv, EraseInv, WalkInv
<1>5. LiveInv' /\ CountInv'
  BY <1>0, <1>1, <1>2, <1>8, <1>9 DEF Inv, LiveInv, CountInv
<1>6. RetiredInv'
  BY <1>0, <1>1, <1>8, InvTrees DEF RetiredInv, Past
<1> QED
  BY <1>1, <1>3, <1>4, <1>5, <1>6 DEF Inv

\* The staging of a reaped window keeps the invariant (Vault::reap_staged).
LEMMA ReapStagedStep ==
    ASSUME Inv, ReapStaged
    PROVE  Inv'
<1>0. /\ tract' = tract /\ head' = head /\ mem' = mem /\ delta' = delta /\ live' = live
      /\ reap' = reap /\ pendingReap' = work.upto /\ want' = want
      /\ saved' = saved /\ lost' = lost /\ stray' = stray /\ ops' = ops
      /\ pc = "reap" /\ pc' = "flush" /\ work.left = {}
      /\ work' = [work EXCEPT !.upto = 0]
  BY DEF ReapStaged, index, ghosts
<1>9. work.settled /\ WorkShape(work) /\ ~work.repair
  BY <1>0 DEF Inv, Unsettled, Basic
<1>8. WorkShape(work') /\ work'.settled /\ work'.repair = work.repair
  BY <1>0, <1>9 DEF WorkShape
<1>1. Trees' /\ MemS' = MemS /\ HeadS' = HeadS
  BY <1>0, QuietTrees
<1>2. LiveSetApply' = LiveSetApply /\ Pending' = Pending
  BY <1>0 DEF LiveSetApply, Pending
<1>3. Basic'
  <2>1. pendingReap' \in 0 .. Len(tract)
    BY <1>0, InvTrees DEF Inv, ReapInv
  <2> QED
    BY <1>0, <1>8, <2>1 DEF Inv, Basic
<1>4. Unsettled' /\ ReapInv' /\ EraseInv' /\ WalkInv'
  BY <1>0, <1>1, <1>8, <1>9 DEF Inv, Unsettled, ReapInv, EraseInv, WalkInv
<1>5. LiveInv' /\ CountInv'
  BY <1>0, <1>1, <1>2, <1>8, <1>9 DEF Inv, LiveInv, CountInv
<1>6. RetiredInv'
  BY <1>0, <1>1, <1>8, <1>9 DEF Inv, RetiredInv, ReapInv, Past
<1> QED
  BY <1>1, <1>3, <1>4, <1>5, <1>6 DEF Inv

\* The choice of a window keeps the invariant (Hamt::reap_window).
LEMMA ReapWindowStep ==
    ASSUME Inv, NEW window \in Windows, ReapWindow(window)
    PROVE  Inv'
<1> DEFINE w == Min({window, Plow - reap})
<1>0. /\ tract' = tract /\ head' = head /\ mem' = mem /\ delta' = delta /\ live' = live
      /\ reap' = reap /\ pendingReap' = pendingReap /\ want' = want /\ saved' = saved /\ lost' = lost
      /\ ops < MaxOps /\ ops' = ops + 1 /\ pc = "idle" /\ work.settled /\ pc' = "reap" /\ pendingReap = 0
      /\ stray' = stray \cup (delta.added \cap (reap + 1) .. (reap + w))
      /\ w > 0 /\ work' = [work EXCEPT !.left = Survivors(w), !.upto = reap + w]
  BY DEF ReapWindow, Idle, Op, index, space
<1>9. WorkShape(work) /\ ~work.repair
  BY <1>0 DEF Inv, Unsettled, Basic
<1>8. /\ WorkShape(work') /\ work'.settled /\ work'.repair = work.repair
      /\ work'.left = Survivors(w) /\ work'.upto = reap + w
  BY <1>0, <1>9 DEF WorkShape
<1>1. Trees' /\ MemS' = MemS /\ HeadS' = HeadS
  BY <1>0, QuietTrees
<1>2. LiveSetApply' = LiveSetApply /\ Pending' = Pending /\ Pending = {}
  BY <1>0 DEF LiveSetApply, Pending
<1>3. Basic'
  <2>1. ops' \in Nat /\ ops' <= MaxOps
    BY <1>0, HamtAssumption DEF Inv, Basic
  <2> QED
    BY <1>0, <1>8, <2>1 DEF Inv, Basic
<1>4. Unsettled' /\ EraseInv' /\ WalkInv'
  BY <1>0, <1>1, <1>8, <1>9 DEF Inv, Unsettled, EraseInv, WalkInv
<1>5. LiveInv' /\ CountInv'
  BY <1>0, <1>1, <1>2, <1>8, <1>9 DEF Inv, LiveInv, CountInv
<1>6. RetiredInv'
  BY <1>0, <1>1, <1>8, <1>9 DEF Inv, RetiredInv, Past
<1>10. reap \in Nat /\ w \in Nat /\ reap + w \in 1 .. Len(tract)
  <2>1. reap \in 0 .. Len(tract) /\ Len(tract) \in Nat /\ window \in Nat /\ Plow = Len(tract)
    BY InvTrees, HamtAssumption DEF Basic, Plow
  <2>2. {window, Plow - reap} \in SUBSET Nat /\ {window, Plow - reap} # {}
    BY <2>1
  <2>3. w \in {window, Plow - reap} /\ w <= Plow - reap
    BY <2>2, MinOfNaturals
  <2> HIDE DEF w
  <2> QED
    BY <1>0, <2>1, <2>3
<1>7. ReapInv'
  <2> HIDE DEF w
  <2>1. \A l : l \in Survivors(w) <=> /\ l \in (reap + 1) .. (reap + w) /\ SealedIn(tract, l)
                                      /\ l \in live /\ l \notin delta.removed
    BY NowIs DEF Survivors
  <2>2. LiveOK(tract, MemS, LiveSetApply, {}) /\ Past(tract, MemS, reap, stray)
    BY <1>0, <1>2 DEF Inv, LiveInv, RetiredInv
  <2>3. ASSUME NEW l \in Nat, Reached(tract, MemS, l)
        PROVE  l > reap + w \/ l \in stray' \cup Survivors(w)
    <3>1. l \in LiveSetApply /\ SealedIn(tract, l)
      BY <2>2, <2>3 DEF LiveOK
    <3>2. (l \in live \/ l \in delta.added) /\ l \notin delta.removed
      BY <3>1 DEF LiveSetApply
    <3>3. l > reap \/ l \in stray
      BY <2>2, <2>3 DEF Past
    <3>4. l > reap /\ ~(l > reap + w) => l \in (reap + 1) .. (reap + w)
      BY <1>10
    <3> QED
      BY <1>0, <2>1, <3>1, <3>2, <3>3, <3>4
  <2> QED
    BY <1>0, <1>1, <1>8, <1>10, <2>1, <2>3 DEF ReapInv, Past
<1> QED
  BY <1>1, <1>3, <1>4, <1>5, <1>6, <1>7 DEF Inv

\* The start of a lazy open keeps the invariant (Vault::resume_unsettled).
LEMMA OpenLazyStep ==
    ASSUME Inv, OpenLazy
    PROVE  Inv'
<1>0. /\ tract' = tract /\ head' = head /\ mem' = mem /\ delta' = delta /\ live' = live
      /\ reap' = reap /\ pendingReap' = pendingReap /\ want' = want
      /\ saved' = saved /\ lost' = lost /\ stray' = stray /\ ops' = ops
      /\ pc = "down" /\ pc' = "idle"
      /\ work' = [work EXCEPT !.todo = IF head.root = Nil THEN <<>> ELSE <<<<>>>>]
  BY DEF OpenLazy, index, space, ghosts
<1>9. ~work.settled /\ WorkShape(work) /\ ~work.repair /\ work.out = {} /\ work.stale = {}
      /\ mem = FromRoot(head.root)
  BY <1>0 DEF Inv, Unsettled, Basic
<1>8. /\ WorkShape(work') /\ ~work'.settled /\ work'.repair = work.repair
      /\ work'.out = {} /\ work'.stale = {}
      /\ work'.todo = IF head.root = Nil THEN <<>> ELSE <<<<>>>>
  BY <1>0, <1>9 DEF WorkShape
<1>1. Trees' /\ MemS' = MemS /\ HeadS' = HeadS
  BY <1>0, QuietTrees
<1>3. Basic'
  BY <1>0, <1>8 DEF Inv, Basic
<1>4. Unsettled' /\ ReapInv' /\ EraseInv' /\ RetiredInv' /\ LiveInv'
  BY <1>0, <1>8, <1>9 DEF Inv, Unsettled, ReapInv, EraseInv, RetiredInv, LiveInv
<1>5. CountInv'
  BY <1>0, <1>1, <1>8, <1>9 DEF Inv, CountInv
<1>6. WalkInv'
  <2> DEFINE todo == IF head.root = Nil THEN <<>> ELSE <<<<>>>>
  <2>1. MemS[<<>>] = head.root /\ <<>> \in Paths
    BY <1>9, RootIs, PathFacts DEF MemS
  <2>2. IsSeq(todo) /\ Len(todo) = IF head.root = Nil THEN 0 ELSE 1
    <3>1. IsSeq(<<>>) /\ Len(<<>>) = 0
      BY DEF IsSeq
    <3>2. IsSeq(<<<<>>>>) /\ Len(<<<<>>>>) = 1
      BY SeqIs, <<<<>>>> \in Seq({<<>>})
    <3> QED
      BY <3>1, <3>2
  <2>3. ASSUME NEW q \in Paths, MemS[q] # Nil
        PROVE  \E j \in 1 .. Len(todo) : todo[j] \in Above(q) \cup {q}
    <3>1. q \in Routes /\ (q # <<>> => <<>> \in Above(q))
      BY PathFacts, AboveFront
    <3>2. q # <<>> => KindIn(tract, MemS[<<>>]) = "node"
      BY <2>3, <3>1, InvTrees DEF Tree, Shape
    <3>3. head.root # Nil
      BY <2>1, <2>3, <3>2, KindNil
    <3>4. 1 \in 1 .. Len(todo) /\ todo[1] = <<>>
      BY <2>2, <3>3
    <3> QED
      BY <3>1, <3>4
  <2>4. \A j \in 1 .. Len(todo) : todo[j] \in Paths /\ MemS[todo[j]] # Nil
    BY <2>1, <2>2
  <2> HIDE DEF todo
  <2>5. work'.todo = todo
    BY <1>8 DEF todo
  <2> QED
    BY <1>0, <1>1, <1>8, <2>2, <2>3, <2>4, <2>5 DEF WalkInv
<1> QED
  BY <1>1, <1>3, <1>4, <1>5, <1>6 DEF Inv

(***************************************************************************)
(* The steps that only append blocks nothing points at.                    *)
(***************************************************************************)
LEMMA AppendOnly ==
    ASSUME Inv, IsSeq(tract'), Len(tract) <= Len(tract'),
           \A l \in 1 .. Len(tract) : tract'[l] = tract[l],
           mem' = mem, head' = head, delta' = delta, live' = live, reap' = reap,
           pendingReap' = pendingReap, want' = want, saved' = saved, lost' = lost, stray' = stray,
           work.settled, work'.settled, WorkShape(work'), ~work.repair, ~work'.repair,
           pc # "erase", pc' \in {"idle", "flush"}, ops' \in Nat, ops' <= MaxOps
    PROVE  Inv'
<1>0. Basic /\ Trees /\ Len(tract) \in Nat /\ Len(tract') \in Nat
  BY InvTrees, SeqFacts
<1>1. /\ MemS' = MemS
      /\ Tree(tract', MemS, want, lost.mem, Len(tract'))
      /\ \A l \in Nat : Reached(tract', MemS, l) <=> Reached(tract, MemS, l)
      /\ \A l \in 1 .. head.plow : tract'[l] = tract[l]
      /\ \A l \in 1 .. Len(tract) : SealedIn(tract', l) <=> SealedIn(tract, l)
  BY <1>0, Grown DEF MemS
<1>2. /\ HeadS' = HeadS
      /\ Tree(tract', HeadS, saved, lost.head, head.plow)
      /\ \A l \in Nat : Reached(tract', HeadS, l) <=> Reached(tract, HeadS, l)
  BY <1>0, <1>1, HeadStays DEF HeadS
<1>3. Trees'
  BY <1>0, <1>1, <1>2 DEF Trees
<1>4. Basic'
  <2>1. /\ \A x \in 0 .. Len(tract) : x \in 0 .. Len(tract')
        /\ \A x \in 1 .. Len(tract) : x \in 1 .. Len(tract')
    BY <1>0
  <2> QED
    BY <1>0, <2>1 DEF Basic
<1>5. Unsettled' /\ ReapInv' /\ EraseInv' /\ WalkInv'
  BY DEF Unsettled, ReapInv, EraseInv, WalkInv
<1>6. LiveSetApply' = LiveSetApply /\ Pending' = {} /\ Pending = {}
  BY DEF LiveSetApply, Pending
<1>7. LiveSetApply \subseteq 1 .. Len(tract) /\ live \subseteq 1 .. Len(tract)
  BY <1>0 DEF LiveSetApply, Basic
<1>8. LiveInv'
  BY <1>1, <1>2, <1>6, <1>7 DEF Inv, LiveInv, LiveOK
<1>9. RetiredInv'
  BY <1>1, <1>2 DEF Inv, RetiredInv, Past
<1>10. CountInv'
  <2>1. {l \in 1 .. head.plow : Reached(tract', HeadS, l)} = {l \in 1 .. head.plow : Reached(tract, HeadS, l)}
    BY <1>0, <1>2 DEF Basic
  <2> QED
    BY <1>1, <1>2, <1>6, <1>7, <2>1 DEF Inv, CountInv
<1> QED
  BY <1>3, <1>4, <1>5, <1>8, <1>9, <1>10 DEF Inv

\* The blocks of a put.
LEMMA BlocksIs ==
    ASSUME NEW k \in Keys, NEW v \in Values, Len(tract) \in Nat
    PROVE  /\ IsSeq(Blocks(k, v)) /\ Len(Blocks(k, v)) \in Nat \ {0}
           /\ v \notin Big => Len(Blocks(k, v)) = 1 /\ Blocks(k, v)[1] = Lone(k, v)
           /\ v \in Big => /\ Len(Blocks(k, v)) = Furrows + 1
                           /\ \A j \in 1 .. Furrows : Blocks(k, v)[j] = Furrow(k, j, v)
                           /\ \E runs : /\ Blocks(k, v)[Furrows + 1] = Extent(k, runs)
                                        /\ ExpandRuns(runs) = [j \in 1 .. Furrows |-> Len(tract) + j]
           /\ Blocks(k, v) # <<>>
<1>0. Furrows \in Nat \ {0}
  BY HamtAssumption
<1>1. CASE v \notin Big
  <2>1. Blocks(k, v) = <<Lone(k, v)>>
    BY <1>1 DEF Blocks
  <2> QED
    BY <1>1, <2>1 DEF IsSeq, ToSet
<1>2. CASE v \in Big
  <2> DEFINE f == [j \in 1 .. Furrows |-> Furrow(k, j, v)]
             ps == [j \in 1 .. Furrows |-> Len(tract) + j]
             e == Extent(k, CompressRuns(ps))
  <2>1. Blocks(k, v) = f \o <<e>>
    BY <1>2 DEF Blocks, Plow
  <2>2. IsSeq(f) /\ Len(f) = Furrows
    BY <1>0, SeqOfFcn
  <2>3. IsSeq(ps) /\ Len(ps) = Furrows
    BY <1>0, SeqOfFcn
  <2>4. ps \in Seq(Nat)
    <3>1. \A i \in 1 .. Furrows : ps[i] \in Nat
      BY <1>0
    <3> HIDE DEF ps
    <3> QED
      BY <2>3, <3>1, SeqFacts
  <2>5. ExpandRuns(CompressRuns(ps)) = ps
    BY <2>4, RunsRoundTrip
  <2>6. \A j \in 1 .. Furrows : f[j] = Furrow(k, j, v)
    OBVIOUS
  <2>7. e = Extent(k, CompressRuns(ps))
    OBVIOUS
  <2> HIDE DEF f, e
  <2>8. Append(f, e) = f \o <<e>>
    BY <2>2, SeqAppend
  <2>9. /\ IsSeq(Append(f, e)) /\ Len(Append(f, e)) = Furrows + 1
        /\ \A i \in 1 .. Furrows : Append(f, e)[i] = f[i]
        /\ Append(f, e)[Furrows + 1] = e /\ Append(f, e) # <<>>
    BY <2>2, SeqAppend
  <2>10. \E runs : e = Extent(k, runs) /\ ExpandRuns(runs) = ps
    BY <2>5, <2>7, Zenon
  <2>11. Blocks(k, v) = Append(f, e)
    BY <2>1, <2>8
  <2>12. \E runs : /\ Blocks(k, v)[Furrows + 1] = Extent(k, runs)
                   /\ ExpandRuns(runs) = [j \in 1 .. Furrows |-> Len(tract) + j]
    BY <2>9, <2>10, <2>11
  <2> QED
    BY <1>0, <1>2, <2>6, <2>9, <2>11, <2>12
<1> QED
  BY <1>1, <1>2

\* The tract with more blocks behind it.
LEMMA Longer ==
    ASSUME NEW t, IsSeq(t), NEW more, IsSeq(more)
    PROVE  /\ IsSeq(t \o more) /\ Len(t \o more) = Len(t) + Len(more)
           /\ Len(t) \in Nat /\ Len(more) \in Nat
           /\ Len(t) <= Len(t \o more) /\ \A l \in 1 .. Len(t) : (t \o more)[l] = t[l]
           /\ \A j \in 1 .. Len(more) : (t \o more)[Len(t) + j] = more[j]
<1>1. /\ IsSeq(t \o more) /\ Len(t \o more) = Len(t) + Len(more) /\ Len(t) \in Nat /\ Len(more) \in Nat
      /\ \A l \in 1 .. Len(t) : (t \o more)[l] = t[l]
      /\ \A j \in 1 .. Len(more) : (t \o more)[Len(t) + j] = more[j]
  BY SeqConcat
<1> QED
  BY <1>1

\* A put refused after its furrows keeps the invariant: orphans.
LEMMA PutRefusedStep ==
    ASSUME Inv, NEW k \in Keys, NEW v \in Values, PutRefused(k, v)
    PROVE  Inv'
<1>0. /\ tract' = tract \o Front(Blocks(k, v))
      /\ head' = head /\ mem' = mem /\ delta' = delta /\ live' = live
      /\ reap' = reap /\ pendingReap' = pendingReap /\ work' = work /\ want' = want
      /\ saved' = saved /\ lost' = lost /\ stray' = stray /\ ops < MaxOps /\ ops' = ops + 1
      /\ pc = "idle" /\ work.settled /\ pc' = pc
  BY DEF PutRefused, Idle, Op, index, space, ghosts
<1>1. IsSeq(tract) /\ Len(tract) \in Nat /\ WorkShape(work) /\ ~work.repair
  BY <1>0, InvTrees DEF Basic, Inv, Unsettled
<1>2. IsSeq(Front(Blocks(k, v)))
  <2>1. IsSeq(Blocks(k, v)) /\ Len(Blocks(k, v)) > 0
    BY <1>1, BlocksIs
  <2>2. Blocks(k, v) # <<>>
    BY <2>1
  <2> QED
    BY <2>1, <2>2, SeqFront
<1>3. IsSeq(tract') /\ Len(tract) <= Len(tract') /\ \A l \in 1 .. Len(tract) : tract'[l] = tract[l]
  <2> DEFINE more == Front(Blocks(k, v))
  <2>1. tract' = tract \o more /\ IsSeq(more)
    BY <1>0, <1>2
  <2> HIDE DEF more
  <2>2. IsSeq(tract \o more) /\ Len(tract) <= Len(tract \o more)
        /\ \A l \in 1 .. Len(tract) : (tract \o more)[l] = tract[l]
    BY <1>1, <2>1, Longer
  <2> QED
    BY <2>1, <2>2
<1>4. ops' \in Nat /\ ops' <= MaxOps
  <2>1. ops \in Nat /\ MaxOps \in Nat
    BY HamtAssumption DEF Inv, Basic
  <2> QED
    BY <1>0, <2>1
<1>5. /\ work'.settled /\ WorkShape(work') /\ ~work'.repair /\ pc # "erase" /\ pc' \in {"idle", "flush"}
  BY <1>0, <1>1
<1> QED
  BY <1>0, <1>1, <1>3, <1>4, <1>5, AppendOnly

\* The furrows of one owner in the window: all are its leaf's.
LEMMA GroupIs ==
    ASSUME Inv, pc = "reap", NEW k \in Keys
    PROVE  /\ IsSeq(FurrowGroup(k)) /\ Len(FurrowGroup(k)) \in Nat
           /\ DOMAIN FurrowGroup(k) = 1 .. Len(FurrowGroup(k))
           /\ \A l : l \in ToSet(FurrowGroup(k)) <=>
                        l \in work.left /\ KindIn(tract, l) = "furrow" /\ tract[l].key = k
           /\ \A a, b \in 1 .. Len(FurrowGroup(k)) : FurrowGroup(k)[a] = FurrowGroup(k)[b] => a = b
           /\ \A l \in ToSet(FurrowGroup(k)) :
                /\ l \in 1 .. Len(tract) /\ l \in live /\ l \notin delta.removed /\ Reached(tract, MemS, l)
                /\ FindLeaf(mem, k) # Nil /\ KindIn(tract, FindLeaf(mem, k)) = "extent"
                /\ tract[l].i \in 1 .. Len(FurrowsIn(tract, FindLeaf(mem, k)))
                /\ l = FurrowsIn(tract, FindLeaf(mem, k))[tract[l].i]
<1> DEFINE group == {l \in LeftOf({"furrow"}) : tract[l].key = k}
           number == [l \in group |-> tract[l].i]
<1>1. \A l : l \in group <=> l \in work.left /\ KindIn(tract, l) = "furrow" /\ tract[l].key = k
  BY NowIs DEF LeftOf
<1>2. FurrowGroup(k) = SortedBy(group, number)
  BY DEF FurrowGroup
<1> HIDE DEF group
<1>3. ASSUME NEW l \in group
      PROVE  /\ l \in 1 .. Len(tract) /\ l \in live /\ l \notin delta.removed /\ Reached(tract, MemS, l)
             /\ FindLeaf(mem, k) # Nil /\ KindIn(tract, FindLeaf(mem, k)) = "extent"
             /\ tract[l].i \in 1 .. Len(FurrowsIn(tract, FindLeaf(mem, k)))
             /\ l = FurrowsIn(tract, FindLeaf(mem, k))[tract[l].i]
  <2>1. l \in work.left /\ KindIn(tract, l) = "furrow" /\ tract[l].key = k
    BY <1>1
  <2>2. l \notin delta.removed
    BY <2>1 DEF Inv, ReapInv
  <2>3. l \in Nat /\ Reached(tract, MemS, l) /\ l \in live /\ l \in 1 .. Len(tract)
    BY <2>1, <2>2, LeftReached DEF Inv
  <2>4. KindIn(tract, l) = "furrow" =>
                /\ tract[l].key \in Keys /\ FindLeaf(mem, tract[l].key) # Nil
                /\ KindIn(tract, FindLeaf(mem, tract[l].key)) = "extent"
                /\ \E j \in 1 .. Len(FurrowsIn(tract, FindLeaf(mem, tract[l].key))) :
                     l = FurrowsIn(tract, FindLeaf(mem, tract[l].key))[j] /\ tract[l].i = j
    BY <2>3, InvTrees, FoundAt
  <2> QED
    BY <2>1, <2>2, <2>3, <2>4
<1>4. \A l \in group : tract[l].i \in Nat
  <2>1. ASSUME NEW l \in group PROVE tract[l].i \in Nat
    <3>1. tract[l].i \in 1 .. Len(FurrowsIn(tract, FindLeaf(mem, k)))
      BY <1>3
    <3> QED
      BY <3>1
  <2> QED
    BY <2>1
<1>5. IsFiniteSet(group)
  <2>1. group \subseteq 1 .. Len(tract)
    BY <1>3
  <2>2. IsFiniteSet(1 .. Len(tract))
    BY InvTrees, FS_Interval
  <2> QED
    BY <2>1, <2>2, FS_Subset
<1>6. \A l \in group : number[l] \in Nat
  BY <1>4
<1> HIDE DEF number
<1>7. /\ IsSeq(FurrowGroup(k)) /\ Len(FurrowGroup(k)) = Cardinality(group)
      /\ Cardinality(group) \in Nat
      /\ ToSet(FurrowGroup(k)) = group
      /\ \A a, b \in 1 .. Cardinality(group) : FurrowGroup(k)[a] = FurrowGroup(k)[b] => a = b
  BY <1>2, <1>5, <1>6, SortedByIs
<1>8. DOMAIN FurrowGroup(k) = 1 .. Len(FurrowGroup(k))
  BY <1>7, SeqFacts
<1> QED
  BY <1>1, <1>3, <1>7, <1>8

\* The copies of the blocks a reap moves, in their order.
LEMMA CopiesIs ==
    ASSUME NEW moved, IsSeq(moved)
    PROVE  /\ IsSeq(Copies(moved)) /\ Len(Copies(moved)) = Len(moved)
           /\ \A n \in 1 .. Len(moved) : Copies(moved)[n] = tract[moved[n]]
<1>1. Len(moved) \in Nat /\ DOMAIN moved = 1 .. Len(moved)
  BY SeqFacts
<1>2. Copies(moved) = [n \in 1 .. Len(moved) |-> tract[moved[n]]]
  BY <1>1 DEF Copies
<1>3. Copies(moved) = [n \in 1 .. Len(moved) |-> Copies(moved)[n]]
  BY <1>2
<1> QED
  BY <1>1, <1>2, <1>3, SeqOfFcn

\* A window that fails half way keeps the invariant.
LEMMA ReapRefusedStep ==
    ASSUME Inv, ReapRefused
    PROVE  Inv'
<1>0. /\ head' = head /\ mem' = mem /\ delta' = delta /\ live' = live
      /\ reap' = reap /\ pendingReap' = pendingReap /\ want' = want
      /\ saved' = saved /\ lost' = lost /\ stray' = stray /\ ops' = ops
      /\ pc = "reap" /\ pc' = "idle" /\ work' = [work EXCEPT !.left = {}, !.upto = 0]
      /\ tract' = tract \/ \E k \in Keys : tract' = tract \o Copies(FurrowGroup(k))
  BY DEF ReapRefused, index, space, ghosts
<1>1. IsSeq(tract) /\ Len(tract) \in Nat /\ WorkShape(work) /\ ~work.repair /\ work.settled
  BY <1>0, InvTrees DEF Basic, Inv, Unsettled
<1>2. WorkShape(work') /\ work'.settled /\ ~work'.repair
  BY <1>0, <1>1 DEF WorkShape
<1>3. IsSeq(tract') /\ Len(tract) <= Len(tract') /\ \A l \in 1 .. Len(tract) : tract'[l] = tract[l]
  <2>1. CASE tract' = tract
    BY <1>1, <2>1
  <2>2. ASSUME NEW k \in Keys, tract' = tract \o Copies(FurrowGroup(k))
        PROVE  IsSeq(tract') /\ Len(tract) <= Len(tract')
               /\ \A l \in 1 .. Len(tract) : tract'[l] = tract[l]
    <3>1. IsSeq(Copies(FurrowGroup(k)))
      <4>1. IsSeq(FurrowGroup(k))
        BY <1>0, GroupIs
      <4> QED
        BY <4>1, CopiesIs
    <3> DEFINE more == Copies(FurrowGroup(k))
    <3>2. tract' = tract \o more /\ IsSeq(more)
      BY <2>2, <3>1
    <3> HIDE DEF more
    <3>3. IsSeq(tract \o more) /\ Len(tract) <= Len(tract \o more)
          /\ \A l \in 1 .. Len(tract) : (tract \o more)[l] = tract[l]
      BY <1>1, <3>2, Longer
    <3> QED
      BY <3>2, <3>3
  <2> QED
    BY <1>0, <2>1, <2>2
<1>4. ops' \in Nat /\ ops' <= MaxOps
  BY <1>0 DEF Inv, Basic
<1>5. pc # "erase" /\ pc' \in {"idle", "flush"}
  BY <1>0
<1> QED
  BY <1>0, <1>1, <1>2, <1>3, <1>4, <1>5, AppendOnly

(***************************************************************************)
(* The steps that change the index.                                        *)
(***************************************************************************)
\* The change `over`, with the blocks it adds and drops, gives the keys in K0
\* their answer in v2 and h2 and keeps those of all others.
ChangeOK(u, over, adds, drops, v2, h2, K0) ==
    LET A == UpTo(DOMAIN over)
        D == DOMAIN over
    IN  /\ D \subseteq Paths /\ A \cap D = {}
        /\ \A q \in D : /\ MemS[q] # Dirty /\ over[q] # Dirty
                        /\ \A c \in Chunks : KidIn(u, over[q], c) = KidIn(tract, MemS[q], c)
        /\ Graft(tract, u, MemS, over, v2, h2, Len(u))
        /\ \A k \in Keys \ K0 : v2[k] = want[k] /\ (k \in h2 <=> k \in lost.mem)
        /\ \A q \in Paths : q \notin A /\ q \notin D /\ LeafIn(tract, MemS[q])
                                => tract[MemS[q]].key \notin K0
        /\ \A q \in Paths : (q \in A \/ q \in D) /\ LeafIn(tract, MemS[q])
                             /\ tract[MemS[q]].key \notin K0 /\ tract[MemS[q]].key \notin lost.mem
                => \E d \in D : LeafIn(u, over[d]) /\ u[over[d]].key = tract[MemS[q]].key
        /\ \A k \in Keys : k \in K0 /\ k \notin h2 =>
                /\ v2[k] # Absent => \E d \in D : LeafIn(u, over[d]) /\ u[over[d]].key = k
                /\ \A q \in Along(k) : q \notin A /\ q \notin D => KindIn(tract, MemS[q]) # "bad"
        /\ adds \subseteq (Len(tract) + 1) .. Len(u)
        /\ \A l \in 1 .. Len(tract) : l \in drops /\ SealedIn(tract, l) =>
                \E q \in Paths : (q \in A \/ q \in D) /\ Holds(tract, MemS[q], l)
        /\ \A q \in Paths, l \in 1 .. Len(tract) :
                (q \in A \/ q \in D) /\ (q \in D \/ LeafIn(tract, MemS[q]))
                /\ Holds(tract, MemS[q], l) /\ SealedIn(tract, l) /\ l \notin drops
                    => \E d \in D : Holds(u, over[d], l)
        /\ \A d \in D, l \in 1 .. Len(tract) :
                Holds(u, over[d], l) /\ SealedIn(tract, l) =>
                    l \notin drops /\ Reached(tract, MemS, l) /\ KindIn(tract, l) # "node"
        /\ \A l \in (Len(tract) + 1) .. Len(u) :
                l \in adds <=> (SealedIn(u, l) /\ \E d \in D : Holds(u, over[d], l))

\* The nodes a change supersedes are the committed ones on its way.
LEMMA SupersededIs ==
    ASSUME Inv, NEW over
    PROVE  /\ \A l : l \in Superseded(mem, over) <=>
                  l # Dirty /\ KindIn(tract, l) = "node" /\ \E q \in UpTo(DOMAIN over) : MemS[q] = l
<1>1. \A q : Slot(mem, q) = MemS[q]
  BY NowIs DEF MemS
<1>2. \A c : Kind(c) = KindIn(tract, c)
  BY NowIs
<1> DEFINE A == UpTo(DOMAIN over)
<1>3. UNION {Above(p) : p \in DOMAIN over} = A
  BY DEF UpTo
<1> HIDE DEF A
<1>4. Superseded(mem, over) = {c \in {MemS[q] : q \in A} : c # Dirty /\ KindIn(tract, c) = "node"}
  BY <1>1, <1>2, <1>3 DEF Superseded
<1>5. \A l : l \in Superseded(mem, over) <=>
                  l # Dirty /\ KindIn(tract, l) = "node" /\ \E q \in A : MemS[q] = l
  BY <1>4
<1> QED
  BY <1>5 DEF A

\* One change of the index: the new trie, and exactly what it reaches.
LEMMA ChangeCore ==
    ASSUME Inv, NEW u, IsSeq(u), Len(tract) <= Len(u), \A l \in 1 .. Len(tract) : u[l] = tract[l],
           NEW over, NEW adds, NEW drops, NEW v2, NEW h2, NEW K0,
           ChangeOK(u, over, adds, drops, v2, h2, K0)
    PROVE  /\ Slots(u, Thread(mem, over)) = Rewired(MemS, over)
           /\ Arena(Thread(mem, over), Rewired(MemS, over))
           /\ Tree(u, Rewired(MemS, over), v2, h2, Len(u))
           /\ \A l \in Superseded(mem, over) : l \in 1 .. Len(tract) /\ KindIn(tract, l) = "node"
           /\ \A l \in Nat : Reached(u, Rewired(MemS, over), l) <=>
                (l \in adds \/ (/\ l \in 1 .. Len(tract) /\ Reached(tract, MemS, l)
                                /\ l \notin drops /\ l \notin Superseded(mem, over)))
<1> DEFINE A == UpTo(DOMAIN over)
           D == DOMAIN over
           S == MemS
           b == Len(tract)
           b2 == Len(u)
           drops2 == drops \cup Superseded(mem, over)
<1>0. /\ b \in Nat /\ b2 \in Nat /\ b <= b2 /\ Tree(tract, S, want, lost.mem, b)
      /\ S = Slots(tract, mem) /\ Arena(mem, S) /\ D \subseteq Paths /\ A \cap D = {}
  BY InvTrees, SeqFacts DEF ChangeOK, Trees
<1>1. \A l : l \in Superseded(mem, over) <=>
                  l # Dirty /\ KindIn(tract, l) = "node" /\ \E q \in A : S[q] = l
  BY SupersededIs
<1>2. A \subseteq Paths /\ A \subseteq Routes /\ Paths \subseteq Routes
  BY <1>0, UpToIs, PathFacts
<1>3. \A q \in Routes : S[q] \in Int /\ S[q] >= -1 /\ S[q] <= b
  <2>1. \A q \in Routes : S[q] \in -1 .. b
    BY <1>0 DEF Tree, Shape
  <2> QED
    BY <2>1, <1>0
<1>4. \A l \in Superseded(mem, over) : l \in 1 .. b /\ KindIn(tract, l) = "node"
  <2>1. ASSUME NEW l, l \in Superseded(mem, over)
        PROVE  l \in 1 .. b /\ KindIn(tract, l) = "node"
    <3>1. PICK q \in A : S[q] = l
      BY <1>1, <2>1
    <3>2. l # Dirty /\ KindIn(tract, l) = "node" /\ l # Nil
      BY <1>1, <2>1, KindNil
    <3>3. l \in Int /\ l >= -1 /\ l <= b
      BY <1>2, <1>3, <3>1
    <3> QED
      BY <1>0, <3>2, <3>3, KindNil
  <2> QED
    BY <2>1
<1>5. \A q \in Paths, c \in Chunks : KidIn(u, S[q], c) = KidIn(tract, S[q], c)
  <2>1. ASSUME NEW q \in Paths PROVE \A c : KidIn(u, S[q], c) = KidIn(tract, S[q], c)
    <3> DEFINE x == S[q]
    <3>1. x \in Int /\ x >= -1 /\ x <= b
      BY <1>2, <1>3
    <3>2. x > 0 => u[x] = tract[x]
      <4>1. x > 0 => x \in 1 .. b
        BY <1>0, <3>1
      <4> QED
        BY <4>1
    <3> HIDE DEF x
    <3>3. \A c : KidIn(u, x, c) = KidIn(tract, x, c)
      BY <3>1, <3>2, SameBlock
    <3> QED
      BY <3>3 DEF x
  <2> QED
    BY <2>1
<1>6. \A q \in D : /\ S[q] # Dirty /\ over[q] # Dirty
                   /\ \A c \in Chunks : KidIn(u, over[q], c) = KidIn(tract, S[q], c)
  BY DEF ChangeOK
<1>7. /\ Slots(u, Thread(mem, over)) = Rewired(S, over)
      /\ Arena(Thread(mem, over), Rewired(S, over))
  <2> HIDE DEF S
  <2> QED
    BY <1>0, <1>5, <1>6, ThreadSlots
<1>8. Tree(u, Rewired(S, over), v2, h2, b2)
  <2>1. /\ Graft(tract, u, S, over, v2, h2, b2)
        /\ \A k \in Keys \ K0 : v2[k] = want[k] /\ (k \in h2 <=> k \in lost.mem)
        /\ \A q \in Paths : q \notin A /\ q \notin D /\ LeafIn(tract, S[q])
                                => tract[S[q]].key \notin K0
        /\ \A q \in Paths : (q \in A \/ q \in D) /\ LeafIn(tract, S[q])
                             /\ tract[S[q]].key \notin K0 /\ tract[S[q]].key \notin lost.mem
                => \E d \in D : LeafIn(u, over[d]) /\ u[over[d]].key = tract[S[q]].key
        /\ \A k \in Keys : k \in K0 /\ k \notin h2 =>
                /\ v2[k] # Absent => \E d \in D : LeafIn(u, over[d]) /\ u[over[d]].key = k
                /\ \A q \in Along(k) : q \notin A /\ q \notin D => KindIn(tract, S[q]) # "bad"
    BY DEF ChangeOK
  <2>2. \A l \in 1 .. b : u[l] = tract[l]
    OBVIOUS
  <2> DEFINE hurt == lost.mem
  <2>3. /\ Tree(tract, S, want, hurt, b)
        /\ \A k \in Keys \ K0 : v2[k] = want[k] /\ (k \in h2 <=> k \in hurt)
        /\ \A q \in Paths : (q \in A \/ q \in D) /\ LeafIn(tract, S[q])
                             /\ tract[S[q]].key \notin K0 /\ tract[S[q]].key \notin hurt
                => \E d \in D : LeafIn(u, over[d]) /\ u[over[d]].key = tract[S[q]].key
    BY <1>0, <2>1
  <2>4. A = UpTo(DOMAIN over)
    OBVIOUS
  <2> HIDE DEF S, b, b2, A, hurt
  <2>5. Threaded(tract, u, S, want, hurt, b, b2, over, A, v2, h2, K0)
    BY <1>0, <2>1, <2>2, <2>3, <2>4 DEF Threaded
  <2> QED
    BY <2>5, ThreadTree
<1>9. \A l \in 1 .. b2 : Reached(u, Rewired(S, over), l)
                <=> (l \in adds \/ (l <= b /\ Reached(tract, S, l) /\ l \notin drops2))
  <2>1. /\ adds \subseteq (b + 1) .. b2
        /\ \A l \in (b + 1) .. b2 :
                l \in adds <=> (SealedIn(u, l) /\ \E d \in D : Holds(u, over[d], l))
    BY DEF ChangeOK
  <2>2. \A l \in 1 .. b : u[l] = tract[l]
    OBVIOUS
  <2>3. ASSUME NEW l \in 1 .. b, l \in drops2, SealedIn(tract, l)
        PROVE  \E q \in Paths : (q \in A \/ q \in D) /\ Holds(tract, S[q], l)
    <3>1. CASE l \in drops
      BY <2>3, <3>1 DEF ChangeOK
    <3>2. CASE l \in Superseded(mem, over)
      <4>1. PICK q \in A : S[q] = l
        BY <1>1, <3>2
      <4> QED
        BY <1>2, <2>3, <4>1 DEF Holds
    <3> QED
      BY <2>3, <3>1, <3>2
  <2>4. ASSUME NEW q \in Paths, NEW l \in 1 .. b, q \in A \/ q \in D,
               Holds(tract, S[q], l), SealedIn(tract, l), l \notin drops2
        PROVE  \E d \in D : Holds(u, over[d], l)
    <3>1. CASE q \in D \/ LeafIn(tract, S[q])
      BY <2>4, <3>1 DEF ChangeOK
    <3>2. CASE q \in A /\ ~LeafIn(tract, S[q])
      <4>1. l = S[q]
        <5>1. KindIn(tract, S[q]) # "extent"
          BY <3>2 DEF LeafIn
        <5>2. FurrowsIn(tract, S[q]) = <<>>
          BY <5>1 DEF FurrowsIn
        <5>3. l \notin ToSet(FurrowsIn(tract, S[q]))
          BY <5>2 DEF ToSet
        <5> QED
          BY <2>4, <5>3 DEF Holds
      <4>2. S[q] # Nil /\ q \in Routes
        BY <1>2, <2>4, KindNil DEF Holds
      <4>3. KindIn(tract, S[q]) \in {"node", "lone", "extent", "zero", "bad"}
        BY <1>0, <4>2 DEF Tree, Shape
      <4>4. KindIn(tract, S[q]) = "node"
        BY <2>4, <3>2, <4>1, <4>3 DEF LeafIn, SealedIn
      <4>5. l # Dirty
        BY KindNil
      <4>6. l \in Superseded(mem, over)
        BY <1>1, <3>2, <4>1, <4>4, <4>5
      <4> QED
        BY <2>4, <4>6
    <3> QED
      BY <2>4, <3>1, <3>2
  <2>5. ASSUME NEW d \in D, NEW l \in 1 .. b, Holds(u, over[d], l), SealedIn(tract, l)
        PROVE  l \notin drops2 /\ Reached(tract, S, l)
    <3>1. l \notin drops /\ Reached(tract, S, l) /\ KindIn(tract, l) # "node"
      BY <2>5 DEF ChangeOK
    <3> QED
      BY <1>4, <3>1
  <2> DEFINE hurt == lost.mem
  <2>6. Tree(tract, S, want, hurt, b)
    BY <1>0
  <2>7. A = UpTo(DOMAIN over)
    OBVIOUS
  <2> HIDE DEF S, b, b2, A, hurt, drops2
  <2>8. Rethreaded(tract, u, S, want, hurt, b, b2, over, A, adds, drops2)
    BY <1>0, <2>1, <2>2, <2>3, <2>4, <2>5, <2>6, <2>7 DEF Rethreaded
  <2> QED
    BY <2>8, ThreadReach
<1>10. ASSUME NEW l \in Nat
       PROVE  Reached(u, Rewired(S, over), l) <=>
                (l \in adds \/ (/\ l \in 1 .. b /\ Reached(tract, S, l)
                                /\ l \notin drops /\ l \notin Superseded(mem, over)))
  <2>1. Reached(u, Rewired(S, over), l) => l \in 1 .. b2
    <3> DEFINE R == Rewired(S, over)
    <3>1. Tree(u, R, v2, h2, b2)
      BY <1>8
    <3> HIDE DEF R, b2
    <3>2. Reached(u, R, l) => l \in 1 .. b2
      BY <1>0, <3>1, ReachedBelow
    <3> QED
      BY <3>2 DEF R
  <2>2. Reached(tract, S, l) => l \in 1 .. b
    <3> DEFINE hurt == lost.mem
    <3>1. Tree(tract, S, want, hurt, b)
      BY <1>0
    <3> HIDE DEF S, b, hurt
    <3> QED
      BY <1>0, <3>1, ReachedBelow
  <2>3. adds \subseteq (b + 1) .. b2
    BY DEF ChangeOK
  <2>4. l \in 1 .. b => l \in 1 .. b2 /\ l <= b
    BY <1>0
  <2>5. l \in adds => l \in 1 .. b2
    BY <1>0, <2>3
  <2> HIDE DEF S, b2, b, drops2
  <2>6. l \in drops2 <=> l \in drops \/ l \in Superseded(mem, over)
    BY DEF drops2
  <2>7. l \in 1 .. b2 => (Reached(u, Rewired(S, over), l)
                <=> (l \in adds \/ (l <= b /\ Reached(tract, S, l) /\ l \notin drops2)))
    BY <1>9
  <2> QED
    BY <2>1, <2>2, <2>4, <2>5, <2>6, <2>7
<1> QED
  BY <1>4, <1>7, <1>8, <1>10

\* The invariant under a step that changes the index.
LEMMA ChangeStep ==
    ASSUME Inv, work.settled, ~work.repair, Pending = {},
           IsSeq(tract'), Len(tract) <= Len(tract'), \A l \in 1 .. Len(tract) : tract'[l] = tract[l],
           NEW over, NEW adds, NEW drops, NEW K0,
           ChangeOK(tract', over, adds, drops, want', lost'.mem, K0),
           drops \subseteq 1 .. Len(tract), Change(over, adds, drops),
           head' = head, live' = live, reap' = reap, pendingReap' = pendingReap,
           saved' = saved, stray' = stray, want' \in [Keys -> Values \cup {Absent}],
           lost' = [mem |-> lost'.mem, head |-> lost.head, past |-> lost.past], lost'.mem \subseteq Keys,
           ops' \in Nat, ops' <= MaxOps, pc' \in {"idle", "reap"},
           WorkShape(work'), work'.settled, ~work'.repair,
           pc' = "reap" =>
              /\ pc = "reap" /\ work'.left \subseteq work.left /\ work'.upto = work.upto
              /\ \A l \in work'.left : KindIn(tract, l) = "furrow" => l \notin drops
              /\ \A l \in work.left : l \in work'.left \/ l \in drops
    PROVE  Inv'
<1> DEFINE b == Len(tract)
           b2 == Len(tract')
           R == Rewired(MemS, over)
           Sup == Superseded(mem, over)
<1>0. Basic /\ Trees /\ b \in Nat /\ b2 \in Nat /\ b <= b2 /\ head.plow \in Nat /\ head.plow <= b
      /\ lost'.head = lost.head /\ lost'.past = lost.past
  BY InvTrees, SeqFacts
<1>1. /\ mem' = Thread(mem, over) /\ delta'.added = delta.added \cup adds
      /\ delta'.removed = delta.removed \cup drops \cup Sup
      /\ delta' = [added |-> delta'.added, removed |-> delta'.removed]
  BY DEF Change
<1>2. /\ Slots(tract', Thread(mem, over)) = R
      /\ Arena(Thread(mem, over), R)
      /\ Tree(tract', R, want', lost'.mem, b2)
      /\ \A l \in Sup : l \in 1 .. b /\ KindIn(tract, l) = "node"
      /\ \A l \in Nat : Reached(tract', R, l) <=>
                (l \in adds \/ (/\ l \in 1 .. b /\ Reached(tract, MemS, l)
                                /\ l \notin drops /\ l \notin Sup))
  <2> DEFINE u == tract'
             v2 == want'
             h2 == lost'.mem
  <2>1. /\ IsSeq(u) /\ Len(tract) <= Len(u) /\ \A l \in 1 .. Len(tract) : u[l] = tract[l]
        /\ ChangeOK(u, over, adds, drops, v2, h2, K0)
    OBVIOUS
  <2> HIDE DEF u, v2, h2
  <2>2. /\ Slots(u, Thread(mem, over)) = Rewired(MemS, over)
        /\ Arena(Thread(mem, over), Rewired(MemS, over))
        /\ Tree(u, Rewired(MemS, over), v2, h2, Len(u))
        /\ \A l \in Superseded(mem, over) : l \in 1 .. Len(tract) /\ KindIn(tract, l) = "node"
        /\ \A l \in Nat : Reached(u, Rewired(MemS, over), l) <=>
                (l \in adds \/ (/\ l \in 1 .. Len(tract) /\ Reached(tract, MemS, l)
                                /\ l \notin drops /\ l \notin Superseded(mem, over)))
    BY <2>1, ChangeCore
  <2> QED
    BY <2>2 DEF u, v2, h2
<1>3. \A l \in adds : l \in Nat /\ l > b /\ l \in 1 .. b2 /\ SealedIn(tract', l)
  <2>1. adds \subseteq (b + 1) .. b2
    BY DEF ChangeOK
  <2>2. \A l \in (b + 1) .. b2 : l \in adds => SealedIn(tract', l)
    BY DEF ChangeOK
  <2> QED
    BY <1>0, <2>1, <2>2
<1> HIDE DEF Sup
<1>4. MemS' = R
  BY <1>1, <1>2 DEF MemS
<1>5. \A l \in 1 .. b : (SealedIn(tract', l) <=> SealedIn(tract, l)) /\ KindIn(tract', l) = KindIn(tract, l)
  BY <1>0, Grown
<1>6. \A l \in 1 .. head.plow : tract'[l] = tract[l]
  BY <1>0
<1>7. /\ HeadS' = HeadS
      /\ Tree(tract', HeadS, saved, lost.head, head.plow)
      /\ \A l \in Nat : Reached(tract', HeadS, l) <=> Reached(tract, HeadS, l)
  BY <1>0, <1>6, HeadStays DEF HeadS
<1> HIDE DEF R
<1>8. Trees'
  BY <1>0, <1>1, <1>2, <1>4, <1>7 DEF Trees
<1>9. Basic'
  <2>1. /\ \A x \in 0 .. b : x \in 0 .. b2
        /\ \A x \in 1 .. b : x \in 1 .. b2
    BY <1>0
  <2>2. delta'.added \subseteq 1 .. b2 /\ delta'.removed \subseteq 1 .. b2
    BY <1>0, <1>1, <1>2, <1>3, <2>1 DEF Basic
  <2> QED
    BY <1>0, <1>1, <2>1, <2>2 DEF Basic
<1>10. Unsettled' /\ EraseInv' /\ WalkInv'
  BY DEF Unsettled, EraseInv, WalkInv
<1>11. \A l : l \in LiveSetApply' <=>
                 l \in adds \/ (l \in LiveSetApply /\ l \notin drops /\ l \notin Sup)
  <2>1. \A l : l \in LiveSetApply' <=>
             (l \in live \/ l \in delta.added \/ l \in adds)
             /\ l \notin delta.removed /\ l \notin drops /\ l \notin Sup
    BY <1>1 DEF LiveSetApply
  <2>2. \A l : l \in LiveSetApply <=> (l \in live \/ l \in delta.added) /\ l \notin delta.removed
    BY DEF LiveSetApply
  <2>3. \A l \in adds : l \notin delta.removed /\ l \notin drops /\ l \notin Sup
    <3>1. \A l : l \in delta.removed \/ l \in drops \/ l \in Sup => l \in 1 .. b
      BY <1>0, <1>2 DEF Basic
    <3>2. \A l \in adds : l \notin 1 .. b
      BY <1>0, <1>3
    <3> QED
      BY <3>1, <3>2
  <2> QED
    BY <2>1, <2>2, <2>3
<1>12. Pending' = {}
  BY DEF Pending
<1>13. LiveSetApply \subseteq 1 .. b /\ live \subseteq 1 .. b
  BY <1>0 DEF LiveSetApply, Basic
<1>14. /\ \A l \in Nat : (l \in LiveSetApply /\ SealedIn(tract, l)) <=> Reached(tract, MemS, l)
       /\ \A l \in Nat : (l \in live /\ SealedIn(tract, l)) <=> Reached(tract, HeadS, l)
  BY DEF Inv, LiveInv, LiveOK
<1>15. LiveInv'
  <2>1. \A l \in Nat : (l \in LiveSetApply' /\ SealedIn(tract', l)) <=> Reached(tract', R, l)
    BY <1>2, <1>3, <1>5, <1>11, <1>13, <1>14
  <2>2. \A l \in Nat : (l \in live /\ SealedIn(tract', l)) <=> Reached(tract', HeadS, l)
    BY <1>5, <1>7, <1>13, <1>14
  <2> QED
    BY <1>4, <1>7, <1>12, <2>1, <2>2 DEF LiveInv, LiveOK
<1>16. RetiredInv'
  <2>1. reap <= b /\ pendingReap <= b /\ reap \in Nat /\ pendingReap \in Nat
    BY <1>0 DEF Basic
  <2>2. /\ \A l \in Nat : Reached(tract, MemS, l) => l > reap \/ l \in stray
        /\ \A l \in Nat : Reached(tract, MemS, l) => l > pendingReap \/ l \in stray
        /\ \A l \in Nat : Reached(tract, HeadS, l) => l > reap \/ l \in stray
    BY DEF Inv, RetiredInv, Past
  <2>3. \A l \in adds : l > reap /\ l > pendingReap
    BY <1>0, <1>3, <2>1
  <2>4. /\ \A l \in Nat : Reached(tract', R, l) => l > reap \/ l \in stray
        /\ \A l \in Nat : Reached(tract', R, l) => l > pendingReap \/ l \in stray
    BY <1>2, <2>2, <2>3
  <2> QED
    BY <1>4, <1>7, <2>2, <2>4 DEF RetiredInv, Past
<1>17. CountInv'
  <2>1. {l \in 1 .. head.plow : Reached(tract', HeadS, l)} = {l \in 1 .. head.plow : Reached(tract, HeadS, l)}
    BY <1>0, <1>7
  <2>2. work.settled /\ ~lost.past => \A l \in LiveSetApply' : SealedIn(tract', l)
    BY <1>3, <1>5, <1>11, <1>13 DEF Inv, CountInv
  <2>3. ~lost.past /\ lost.head = {} => \A l \in live : SealedIn(tract', l)
    BY <1>5, <1>13 DEF Inv, CountInv
  <2>4. ~lost.past /\ lost.head = {} =>
          head.live = Cardinality({l \in 1 .. head.plow : Reached(tract, HeadS, l)})
    BY DEF Inv, CountInv
  <2> QED
    BY <1>0, <1>7, <2>1, <2>2, <2>3, <2>4 DEF CountInv
<1>18. ReapInv'
  <2> SUFFICES ASSUME pc' = "reap" PROVE ReapInv'
    BY DEF ReapInv
  <2>1. /\ pc = "reap" /\ work'.left \subseteq work.left /\ work'.upto = work.upto
        /\ \A l \in work'.left : KindIn(tract, l) = "furrow" => l \notin drops
        /\ \A l \in work.left : l \in work'.left \/ l \in drops
    OBVIOUS
  <2>2. /\ work.left \subseteq live
        /\ pendingReap = 0 /\ work.upto \in 1 .. Len(tract)
        /\ \A l \in work.left :
             SealedIn(tract, l) /\ (KindIn(tract, l) = "furrow" => l \notin delta.removed)
        /\ \A l \in Nat : Reached(tract, MemS, l) => l > work.upto \/ l \in stray \cup work.left
    BY <2>1 DEF Inv, ReapInv, Past
  <2>3. work'.upto \in 1 .. b2
    BY <1>0, <2>1, <2>2
  <2>4. ASSUME NEW l \in work'.left
        PROVE  SealedIn(tract', l) /\ (KindIn(tract', l) = "furrow" => l \notin delta'.removed)
    <3>1. l \in work.left /\ l \in 1 .. b
      BY <1>13, <2>1, <2>2
    <3>2. KindIn(tract', l) = "furrow" => l \notin Sup
      BY <1>2, <1>5, <3>1
    <3> QED
      BY <1>1, <1>5, <2>1, <2>2, <3>1, <3>2
  <2>5. ASSUME NEW l \in Nat, Reached(tract', R, l)
        PROVE  l > work'.upto \/ l \in stray \cup work'.left
    <3>1. CASE l \in adds
      BY <1>0, <1>3, <2>1, <2>2, <3>1
    <3>2. CASE l \notin adds
      BY <1>2, <2>1, <2>2, <2>5, <3>2
    <3> QED
      BY <3>1, <3>2
  <2> QED
    BY <1>4, <2>1, <2>2, <2>3, <2>4, <2>5 DEF ReapInv, Past
<1> QED
  BY <1>8, <1>9, <1>10, <1>15, <1>16, <1>17, <1>18 DEF Inv

\* A change of the one slot q.
LEMMA AtIs ==
    ASSUME NEW q \in Paths, NEW c
    PROVE  /\ DOMAIN At(q, c) = {q} /\ At(q, c)[q] = c
           /\ UpTo(DOMAIN At(q, c)) = Above(q) /\ q \notin Above(q) /\ Above(q) \subseteq Paths
           /\ \A p \in Paths : Above(p) \subseteq Paths
<1>1. DOMAIN At(q, c) = {q} /\ At(q, c)[q] = c
  BY DEF At
<1>2. {q} \subseteq Paths
  OBVIOUS
<1>3. \A p : p \in UpTo({q}) <=> \E r \in {q} : p \in Above(r)
  BY <1>2, UpToIs
<1>4. UpTo({q}) = Above(q)
  BY <1>3
<1>5. \A p \in Paths : Above(p) \subseteq Paths /\ p \notin Above(p)
  BY PathFacts, AboveIs, AboveFront
<1> QED
  BY <1>1, <1>4, <1>5

\* The slot where the descent along k ends.
LEMMA EndSlot ==
    ASSUME Inv, NEW k \in Keys, NEW q, q = End(mem, k)
    PROVE  /\ q \in Paths /\ q \in Routes /\ q \in Along(k)
           /\ KindIn(tract, MemS[q]) # "node" /\ MemS[q] # Dirty
           /\ \A c \in Chunks : KidIn(tract, MemS[q], c) = Nil
           /\ \A p \in Above(q) : KindIn(tract, MemS[p]) = "node" /\ ~LeafIn(tract, MemS[p])
           /\ \A r \in Along(k) : r \notin Above(q) /\ r # q => MemS[r] = Nil
           /\ \A r \in Paths : LeafIn(tract, MemS[r]) /\ tract[MemS[r]].key = k => r = q
<1> DEFINE b == Len(tract)
           hurt == lost.mem
           S == MemS
<1>0. b \in Nat /\ S = Slots(tract, mem) /\ Tree(tract, S, want, hurt, b) /\ Shape(tract, S, b)
  BY InvTrees DEF Tree
<1> HIDE DEF b, hurt, S
<1>1. /\ q \in Along(k) /\ q \in Paths /\ q \in Routes
      /\ KindIn(tract, S[q]) # "node"
      /\ \A p \in Above(q) : KindIn(tract, S[p]) = "node"
  BY <1>0, EndIs
<1>2. \A r \in Paths : LeafIn(tract, S[r]) /\ tract[S[r]].key = k => r = End(mem, k)
  BY <1>0, FindIs
<1>3. S[q] # Dirty
  BY <1>1, KindNil
<1>4. \A c \in Chunks : KidIn(tract, S[q], c) = Nil
  BY <1>1 DEF KidIn
<1>5. ASSUME NEW r \in Along(k), r \notin Above(q), r # q PROVE S[r] = Nil
  <2>1. q \in Above(r)
    BY <1>1, <1>5, AlongChain
  <2>2. r \in Routes
    BY <1>5, AlongFacts
  <2> QED
    BY <1>0, <1>1, <2>1, <2>2 DEF Shape
<1>6. \A p \in Above(q) : ~LeafIn(tract, S[p])
  BY <1>1 DEF LeafIn
<1> QED
  BY <1>1, <1>2, <1>3, <1>4, <1>5, <1>6 DEF S

\* A new leaf of k, or none, in the slot where the descent along k ends.
LEMMA SlotChange ==
    ASSUME Inv, NEW k \in Keys, NEW u, Len(u) \in Nat, NEW c, NEW v2, NEW h2, NEW adds, NEW drops,
           c \in 0 .. Len(u),
           c # Nil => /\ LeafIn(u, c) /\ u[c].key = k
                      /\ LeafOK(u, c, End(mem, k), v2, h2, Len(u)),
           c = Nil => v2[k] = Absent,
           \A j \in Keys \ {k} : v2[j] = want[j] /\ (j \in h2 <=> j \in lost.mem),
           LeafIn(tract, MemS[End(mem, k)]) => tract[MemS[End(mem, k)]].key = k,
           \A l \in 1 .. Len(tract) : l \in drops /\ SealedIn(tract, l) => Holds(tract, MemS[End(mem, k)], l),
           \A l \in 1 .. Len(tract) : Holds(tract, MemS[End(mem, k)], l) /\ SealedIn(tract, l) /\ l \notin drops
                => Holds(u, c, l),
           \A l \in 1 .. Len(tract) : Holds(u, c, l) /\ SealedIn(tract, l) =>
                    l \notin drops /\ Reached(tract, MemS, l) /\ KindIn(tract, l) # "node",
           adds \subseteq (Len(tract) + 1) .. Len(u),
           \A l \in (Len(tract) + 1) .. Len(u) : l \in adds <=> (SealedIn(u, l) /\ Holds(u, c, l))
    PROVE  ChangeOK(u, At(End(mem, k), c), adds, drops, v2, h2, {k})
<1> DEFINE q == End(mem, k)
           over == At(q, c)
           A == UpTo(DOMAIN over)
           D == DOMAIN over
<1>1. /\ q \in Paths /\ q \in Routes /\ q \in Along(k)
      /\ KindIn(tract, MemS[q]) # "node" /\ MemS[q] # Dirty
      /\ \A s \in Chunks : KidIn(tract, MemS[q], s) = Nil
      /\ \A p \in Above(q) : KindIn(tract, MemS[p]) = "node" /\ ~LeafIn(tract, MemS[p])
      /\ \A r \in Along(k) : r \notin Above(q) /\ r # q => MemS[r] = Nil
      /\ \A r \in Paths : LeafIn(tract, MemS[r]) /\ tract[MemS[r]].key = k => r = q
  BY EndSlot
<1>2. D = {q} /\ over[q] = c /\ A = Above(q) /\ q \notin A
  <2>1. q \in Paths
    BY <1>1
  <2> HIDE DEF q
  <2>2. /\ DOMAIN At(q, c) = {q} /\ At(q, c)[q] = c
        /\ UpTo(DOMAIN At(q, c)) = Above(q) /\ q \notin Above(q)
    BY <2>1, AtIs
  <2> QED
    BY <2>2
<1> HIDE DEF over, A, D
<1>3. D \subseteq Paths /\ A \cap D = {}
  BY <1>1, <1>2
<1>4. KindIn(u, c) # "node" /\ c # Dirty
  BY KindNil DEF LeafIn
<1>5. \A s \in Chunks : KidIn(u, c, s) = Nil
  BY <1>4 DEF KidIn
<1>6. Graft(tract, u, MemS, over, v2, h2, Len(u))
  BY <1>1, <1>2, <1>4, KindNil DEF Graft, LeafIn, D
<1>7. \A r \in Along(k) : r \notin A /\ r \notin D => KindIn(tract, MemS[r]) # "bad"
  BY <1>1, <1>2, KindNil
<1>8. \A d \in D : /\ MemS[d] # Dirty /\ over[d] # Dirty
                   /\ \A s \in Chunks : KidIn(u, over[d], s) = KidIn(tract, MemS[d], s)
  BY <1>1, <1>2, <1>4, <1>5
<1>9. \A r \in Paths : r \notin A /\ r \notin D /\ LeafIn(tract, MemS[r])
                                => tract[MemS[r]].key \notin {k}
  BY <1>1, <1>2
<1>10. \A r \in Paths : (r \in A \/ r \in D) /\ LeafIn(tract, MemS[r]) => tract[MemS[r]].key \in {k}
  BY <1>1, <1>2
<1>11. v2[k] # Absent => \E d \in D : LeafIn(u, over[d]) /\ u[over[d]].key = k
  BY <1>2
<1>12. \A l \in 1 .. Len(tract) : l \in drops /\ SealedIn(tract, l) =>
                \E r \in Paths : (r \in A \/ r \in D) /\ Holds(tract, MemS[r], l)
  BY <1>1, <1>2
<1>13. \A r \in Paths, l \in 1 .. Len(tract) :
                (r \in A \/ r \in D) /\ (r \in D \/ LeafIn(tract, MemS[r]))
                /\ Holds(tract, MemS[r], l) /\ SealedIn(tract, l) /\ l \notin drops
                    => \E d \in D : Holds(u, over[d], l)
  BY <1>1, <1>2
<1>14. \A d \in D, l \in 1 .. Len(tract) :
                Holds(u, over[d], l) /\ SealedIn(tract, l) =>
                    l \notin drops /\ Reached(tract, MemS, l) /\ KindIn(tract, l) # "node"
  BY <1>2
<1>15. \A l \in (Len(tract) + 1) .. Len(u) :
                l \in adds <=> (SealedIn(u, l) /\ \E d \in D : Holds(u, over[d], l))
  BY <1>2
<1>16. ChangeOK(u, over, adds, drops, v2, h2, {k})
  BY <1>3, <1>6, <1>7, <1>8, <1>9, <1>10, <1>11, <1>12, <1>13, <1>14, <1>15 DEF ChangeOK, A, D
<1> QED
  BY <1>16 DEF over

\* The leaf of k and its blocks.
LEMMA LeafBlocksIs ==
    ASSUME Inv, NEW k \in Keys, NEW leaf, leaf = FindLeaf(mem, k)
    PROVE  /\ leaf = Nil => ~LeafIn(tract, MemS[End(mem, k)]) \/ tract[MemS[End(mem, k)]].key # k
           /\ leaf # Nil =>
                /\ leaf = MemS[End(mem, k)] /\ leaf \in 1 .. Len(tract)
                /\ LeafIn(tract, leaf) /\ tract[leaf].key = k /\ SealedIn(tract, leaf)
                /\ LeafOK(tract, leaf, End(mem, k), want, lost.mem, Len(tract))
                /\ \A l : l \in LeafBlocks(leaf) <=> SealedIn(tract, l) /\ Holds(tract, leaf, l)
                /\ LeafBlocks(leaf) \subseteq 1 .. Len(tract)
<1> DEFINE b == Len(tract)
           hurt == lost.mem
           S == MemS
<1>0. b \in Nat /\ S = Slots(tract, mem) /\ Tree(tract, S, want, hurt, b)
  BY InvTrees
<1> HIDE DEF b, hurt, S
<1>1. /\ FindLeaf(mem, k) # Nil =>
                /\ FindLeaf(mem, k) = S[End(mem, k)] /\ FindLeaf(mem, k) \in 1 .. b
                /\ LeafIn(tract, FindLeaf(mem, k)) /\ tract[FindLeaf(mem, k)].key = k
                /\ LeafOK(tract, FindLeaf(mem, k), End(mem, k), want, hurt, b)
      /\ FindLeaf(mem, k) = Nil => ~LeafIn(tract, S[End(mem, k)]) \/ tract[S[End(mem, k)]].key # k
  BY <1>0, FindIs
<1>2. ASSUME leaf # Nil
      PROVE  /\ SealedIn(tract, leaf)
             /\ \A l : l \in LeafBlocks(leaf) <=> SealedIn(tract, l) /\ Holds(tract, leaf, l)
             /\ LeafBlocks(leaf) \subseteq 1 .. b
  <2>1. LeafIn(tract, leaf) /\ leaf \in 1 .. b /\ LeafOK(tract, leaf, End(mem, k), want, hurt, b)
    BY <1>1, <1>2
  <2>2. SealedIn(tract, leaf)
    BY <2>1 DEF LeafIn, SealedIn
  <2>3. \A l : l \in LeafBlocks(leaf) <=> l = leaf \/ (l \in ToSet(FurrowsIn(tract, leaf)) /\ SealedIn(tract, l))
    BY NowIs DEF LeafBlocks
  <2>4. ToSet(FurrowsIn(tract, leaf)) \subseteq 1 .. b
    BY <2>1, SeqFacts DEF LeafOK
  <2> QED
    BY <2>1, <2>2, <2>3, <2>4 DEF Holds
<1> QED
  BY <1>1, <1>2 DEF b, hurt, S

\* A delete keeps the invariant (Hamt::delete).
LEMMA DeleteStep ==
    ASSUME Inv, NEW k \in Keys, Delete(k)
    PROVE  Inv'
<1> DEFINE leaf == FindLeaf(mem, k)
<1>0. /\ tract' = tract /\ head' = head /\ live' = live /\ reap' = reap /\ pendingReap' = pendingReap
      /\ work' = work /\ saved' = saved /\ stray' = stray /\ pc = "idle" /\ pc' = pc /\ work.settled
      /\ leaf # Nil /\ Change(At(End(mem, k), Nil), {}, LeafBlocks(leaf))
      /\ want' = [want EXCEPT ![k] = Absent] /\ lost' = [lost EXCEPT !.mem = @ \ {k}]
      /\ ops < MaxOps /\ ops' = ops + 1
  BY DEF Delete, Idle, Op, space
<1>1. /\ IsSeq(tract) /\ Len(tract) \in Nat /\ WorkShape(work) /\ ~work.repair /\ Pending = {}
      /\ want \in [Keys -> Values \cup {Absent}] /\ ops' \in Nat /\ ops' <= MaxOps
      /\ lost = [mem |-> lost.mem, head |-> lost.head, past |-> lost.past] /\ lost.mem \subseteq Keys
  <2>1. Pending = {}
    BY <1>0 DEF Pending
  <2>2. ops' \in Nat /\ ops' <= MaxOps
    <3>1. ops \in Nat /\ MaxOps \in Nat
      BY HamtAssumption DEF Inv, Basic
    <3> QED
      BY <1>0, <3>1
  <2>3. ~work.repair
    BY <1>0 DEF Inv, Unsettled
  <2> QED
    BY <2>1, <2>2, <2>3, InvTrees DEF Basic
<1>2. /\ lost' = [mem |-> lost'.mem, head |-> lost.head, past |-> lost.past]
      /\ lost'.mem = lost.mem \ {k} /\ lost'.mem \subseteq Keys
  BY <1>0, <1>1
<1>3. want' \in [Keys -> Values \cup {Absent}] /\ want'[k] = Absent
      /\ \A j \in Keys \ {k} : want'[j] = want[j]
  BY <1>0, <1>1
<1>4. /\ leaf = MemS[End(mem, k)] /\ leaf \in 1 .. Len(tract)
      /\ LeafIn(tract, leaf) /\ tract[leaf].key = k
      /\ \A l : l \in LeafBlocks(leaf) <=> SealedIn(tract, l) /\ Holds(tract, leaf, l)
      /\ LeafBlocks(leaf) \subseteq 1 .. Len(tract)
  BY <1>0, LeafBlocksIs
<1> DEFINE drops == LeafBlocks(leaf)
<1> HIDE DEF leaf
<1>5. ChangeOK(tract', At(End(mem, k), Nil), {}, drops, want', lost'.mem, {k})
  <2> DEFINE u == tract'
             v2 == want'
             h2 == lost'.mem
             adds == {}
             c == Nil
  <2>1. Len(u) \in Nat /\ c \in 0 .. Len(u)
    BY <1>0, <1>1 DEF Nil
  <2>2. v2[k] = Absent /\ \A j \in Keys \ {k} : v2[j] = want[j] /\ (j \in h2 <=> j \in lost.mem)
    BY <1>2, <1>3
  <2>3. LeafIn(tract, MemS[End(mem, k)]) => tract[MemS[End(mem, k)]].key = k
    BY <1>4
  <2>4. \A l \in 1 .. Len(tract) : l \in drops /\ SealedIn(tract, l) => Holds(tract, MemS[End(mem, k)], l)
    BY <1>4
  <2>5. \A l \in 1 .. Len(tract) : ~(Holds(tract, MemS[End(mem, k)], l) /\ SealedIn(tract, l) /\ l \notin drops)
    BY <1>4
  <2>6. \A l : ~Holds(u, c, l)
    BY KindNil DEF Holds
  <2>7. adds \subseteq (Len(tract) + 1) .. Len(u) /\ \A l : l \notin adds
    OBVIOUS
  <2>8. c = Nil
    OBVIOUS
  <2> HIDE DEF u, v2, h2, adds, c, drops
  <2>9. ChangeOK(u, At(End(mem, k), c), adds, drops, v2, h2, {k})
    BY <2>1, <2>2, <2>3, <2>4, <2>5, <2>6, <2>7, <2>8, SlotChange
  <2> QED
    BY <2>9 DEF u, v2, h2, adds, c
<1>6. drops \subseteq 1 .. Len(tract)
  BY <1>4
<1>7. Change(At(End(mem, k), Nil), {}, drops)
  BY <1>0 DEF leaf
<1>8. /\ IsSeq(tract') /\ Len(tract) <= Len(tract') /\ \A l \in 1 .. Len(tract) : tract'[l] = tract[l]
      /\ pc' \in {"idle", "reap"} /\ pc' # "reap" /\ WorkShape(work') /\ work'.settled /\ ~work'.repair
  BY <1>0, <1>1
<1> HIDE DEF drops
<1> QED
  BY <1>0, <1>1, <1>2, <1>3, <1>5, <1>6, <1>7, <1>8, ChangeStep

\* The unlink after an erase keeps the invariant.
LEMMA UnlinkStep ==
    ASSUME Inv, Unlink
    PROVE  Inv'
<1> DEFINE k == work.key
           q == End(mem, k)
<1>0. /\ tract' = tract /\ head' = head /\ live' = live /\ reap' = reap /\ pendingReap' = pendingReap
      /\ saved' = saved /\ stray' = stray /\ pc = "erase" /\ pc' = "idle" /\ work.todo = <<>>
      /\ Change(At(End(mem, k), Nil), {}, {})
      /\ want' = [want EXCEPT ![k] = Absent] /\ lost' = [lost EXCEPT !.mem = @ \ {k}]
      /\ work' = [work EXCEPT !.key = <<>>] /\ ops' = ops
  BY DEF Unlink, space
<1>1. /\ IsSeq(tract) /\ Len(tract) \in Nat /\ WorkShape(work) /\ ~work.repair /\ work.settled
      /\ want \in [Keys -> Values \cup {Absent}] /\ ops' \in Nat /\ ops' <= MaxOps
      /\ lost = [mem |-> lost.mem, head |-> lost.head, past |-> lost.past] /\ lost.mem \subseteq Keys
  BY <1>0, InvTrees DEF Basic, Inv, Unsettled
<1>a. k \in Keys /\ \E p \in Along(k) : KindIn(tract, MemS[p]) = "zero"
  BY <1>0 DEF Inv, EraseInv
<1>b. Pending = {}
  BY <1>0 DEF Pending, ToSet
<1> HIDE DEF k
<1>2. /\ lost' = [mem |-> lost'.mem, head |-> lost.head, past |-> lost.past]
      /\ lost'.mem = lost.mem \ {k} /\ lost'.mem \subseteq Keys
  BY <1>0, <1>1
<1>3. want' \in [Keys -> Values \cup {Absent}] /\ want'[k] = Absent
      /\ \A j \in Keys \ {k} : want'[j] = want[j]
  BY <1>0, <1>1, <1>a
<1>4. KindIn(tract, MemS[q]) = "zero"
  <2>1. PICK p \in Along(k) : KindIn(tract, MemS[p]) = "zero"
    BY <1>a
  <2>2. MemS[p] # Nil
    BY <2>1, KindNil
  <2>0. q = End(mem, k)
    OBVIOUS
  <2> HIDE DEF q
  <2>3. /\ \A r \in Above(q) : KindIn(tract, MemS[r]) = "node"
        /\ \A r \in Along(k) : r \notin Above(q) /\ r # q => MemS[r] = Nil
    BY <1>a, <2>0, EndSlot
  <2> QED
    BY <2>1, <2>2, <2>3
<1>5. ChangeOK(tract', At(q, Nil), {}, {}, want', lost'.mem, {k})
  <2> DEFINE u == tract'
             v2 == want'
             h2 == lost'.mem
             adds == {}
             drops == {}
             c == Nil
  <2>1. Len(u) \in Nat /\ c \in 0 .. Len(u)
    BY <1>0, <1>1 DEF Nil
  <2>2. v2[k] = Absent /\ \A j \in Keys \ {k} : v2[j] = want[j] /\ (j \in h2 <=> j \in lost.mem)
    BY <1>2, <1>3
  <2>3. ~LeafIn(tract, MemS[q]) /\ \A l : ~Holds(tract, MemS[q], l)
    BY <1>4 DEF LeafIn, Holds, SealedIn
  <2>6. \A l : ~Holds(u, c, l)
    BY KindNil DEF Holds
  <2>7. adds \subseteq (Len(tract) + 1) .. Len(u) /\ (\A l : l \notin adds) /\ \A l : l \notin drops
    OBVIOUS
  <2>8. c = Nil
    OBVIOUS
  <2> HIDE DEF u, v2, h2, adds, c, drops
  <2>9. ChangeOK(u, At(End(mem, k), c), adds, drops, v2, h2, {k})
    BY <1>a, <2>1, <2>2, <2>3, <2>6, <2>7, <2>8, SlotChange
  <2> QED
    BY <2>9 DEF u, v2, h2, adds, c, drops
<1>6. WorkShape(work') /\ work'.settled /\ ~work'.repair
  BY <1>0, <1>1 DEF WorkShape
<1>8. /\ IsSeq(tract') /\ Len(tract) <= Len(tract') /\ \A l \in 1 .. Len(tract) : tract'[l] = tract[l]
      /\ pc' \in {"idle", "reap"} /\ pc' # "reap"
  BY <1>0, <1>1
<1>9. {} \subseteq 1 .. Len(tract)
  OBVIOUS
<1> QED
  BY <1>0, <1>1, <1>b, <1>2, <1>3, <1>5, <1>6, <1>8, <1>9, ChangeStep

\* The leaf c of t at q is in u, at q2 of its key, with the same answer.
SameLeaf(t, u, c, q, v, hurt, b, q2, v2, h2, b2) ==
    /\ b \in Nat /\ b2 \in Nat /\ b <= b2
    /\ LeafOK(t, c, q, v, hurt, b) /\ c \in 1 .. b
    /\ \A l \in 1 .. b : u[l] = t[l]
    /\ q2 \in Along(t[c].key) /\ v2[t[c].key] = v[t[c].key]
    /\ t[c].key \in h2 <=> t[c].key \in hurt

\* A leaf stays sound where its blocks and its key's answer do.
LEMMA LeafStays ==
    ASSUME NEW t, NEW u, NEW c, NEW q, NEW v, NEW hurt, NEW b, NEW q2, NEW v2, NEW h2, NEW b2,
           SameLeaf(t, u, c, q, v, hurt, b, q2, v2, h2, b2)
    PROVE  /\ LeafOK(u, c, q2, v2, h2, b2) /\ KindIn(u, c) = KindIn(t, c)
           /\ FurrowsIn(u, c) = FurrowsIn(t, c) /\ u[c] = t[c]
           /\ (LeafIn(u, c) <=> LeafIn(t, c)) /\ (SealedIn(u, c) <=> SealedIn(t, c))
<1> SUFFICES ASSUME b \in Nat, b2 \in Nat, b <= b2, LeafOK(t, c, q, v, hurt, b), c \in 1 .. b,
                    \A l \in 1 .. b : u[l] = t[l], q2 \in Along(t[c].key),
                    v2[t[c].key] = v[t[c].key], t[c].key \in h2 <=> t[c].key \in hurt
    PROVE  /\ LeafOK(u, c, q2, v2, h2, b2) /\ KindIn(u, c) = KindIn(t, c)
           /\ FurrowsIn(u, c) = FurrowsIn(t, c) /\ u[c] = t[c]
           /\ (LeafIn(u, c) <=> LeafIn(t, c)) /\ (SealedIn(u, c) <=> SealedIn(t, c))
  BY DEF SameLeaf
<1>1. u[c] = t[c] /\ c \in Int /\ c >= -1
  OBVIOUS
<1>2. /\ KindIn(u, c) = KindIn(t, c) /\ FurrowsIn(u, c) = FurrowsIn(t, c)
      /\ (LeafIn(u, c) <=> LeafIn(t, c)) /\ (SealedIn(u, c) <=> SealedIn(t, c))
  BY <1>1, SameBlock
<1>3. ASSUME NEW j \in 1 .. Len(FurrowsIn(t, c))
      PROVE  /\ FurrowsIn(t, c)[j] \in 1 .. b /\ FurrowsIn(t, c)[j] \in 1 .. b2
             /\ u[FurrowsIn(t, c)[j]] = t[FurrowsIn(t, c)[j]]
             /\ KindIn(u, FurrowsIn(t, c)[j]) = KindIn(t, FurrowsIn(t, c)[j])
  <2> DEFINE f == FurrowsIn(t, c)[j]
  <2>1. f \in 1 .. b
    BY DEF LeafOK
  <2> HIDE DEF f
  <2>2. u[f] = t[f] /\ f \in Int /\ f >= -1 /\ f \in 1 .. b2
    BY <2>1
  <2>3. KindIn(u, f) = KindIn(t, f)
    BY <2>2, SameBlock
  <2> QED
    BY <2>1, <2>2, <2>3 DEF f
<1>4. ASSUME NEW j \in 1 .. Len(FurrowsIn(u, c))
      PROVE  /\ FurrowsIn(u, c)[j] \in 1 .. b2
             /\ FurrowOK(u, FurrowsIn(u, c)[j], u[c].key, j, v2[u[c].key])
             /\ u[c].key \notin h2 => KindIn(u, FurrowsIn(u, c)[j]) = "furrow"
  <2>1. /\ FurrowOK(t, FurrowsIn(t, c)[j], t[c].key, j, v[t[c].key])
        /\ t[c].key \notin hurt => KindIn(t, FurrowsIn(t, c)[j]) = "furrow"
    BY <1>2 DEF LeafOK
  <2> QED
    BY <1>1, <1>2, <1>3, <2>1 DEF FurrowOK
<1>5. LeafOK(u, c, q2, v2, h2, b2)
  BY <1>1, <1>2, <1>4 DEF LeafOK
<1> QED
  BY <1>1, <1>2, <1>5

\* The tract after the put of v, which v2 answers for k.
PutIn(k, v, u, v2, h2) ==
    k \in Keys /\ v \in Values /\ u = tract \o Blocks(k, v) /\ v2[k] = v

\* The leaf a put appends, over its furrows.
LEMMA PutLeaf ==
    ASSUME Inv, NEW k, NEW v, NEW u, NEW v2, NEW h2, PutIn(k, v, u, v2, h2)
    PROVE  /\ IsSeq(u) /\ Len(u) = Len(tract) + Len(Blocks(k, v)) /\ Len(u) \in Nat
           /\ Len(tract) \in Nat /\ Len(tract) < Len(u)
           /\ \A l \in 1 .. Len(tract) : u[l] = tract[l]
           /\ LeafIn(u, Len(u)) /\ u[Len(u)].key = k
           /\ \A q \in Along(k) : LeafOK(u, Len(u), q, v2, h2, Len(u))
           /\ \A l : Holds(u, Len(u), l) <=> l \in (Len(tract) + 1) .. Len(u)
           /\ \A l \in (Len(tract) + 1) .. Len(u) : SealedIn(u, l)
<1> SUFFICES ASSUME k \in Keys, v \in Values, u = tract \o Blocks(k, v), v2[k] = v
    PROVE  /\ IsSeq(u) /\ Len(u) = Len(tract) + Len(Blocks(k, v)) /\ Len(u) \in Nat
           /\ Len(tract) \in Nat /\ Len(tract) < Len(u)
           /\ \A l \in 1 .. Len(tract) : u[l] = tract[l]
           /\ LeafIn(u, Len(u)) /\ u[Len(u)].key = k
           /\ \A q \in Along(k) : LeafOK(u, Len(u), q, v2, h2, Len(u))
           /\ \A l : Holds(u, Len(u), l) <=> l \in (Len(tract) + 1) .. Len(u)
           /\ \A l \in (Len(tract) + 1) .. Len(u) : SealedIn(u, l)
  BY DEF PutIn
<1> DEFINE new == Blocks(k, v)
           b == Len(tract)
           L == Len(u)
<1>1. IsSeq(tract) /\ b \in Nat
  BY InvTrees DEF Basic
<1>2. /\ IsSeq(new) /\ Len(new) \in Nat \ {0}
      /\ v \notin Big => Len(new) = 1 /\ new[1] = Lone(k, v)
      /\ v \in Big => /\ Len(new) = Furrows + 1
                      /\ \A j \in 1 .. Furrows : new[j] = Furrow(k, j, v)
                      /\ \E runs : /\ new[Furrows + 1] = Extent(k, runs)
                                   /\ ExpandRuns(runs) = [j \in 1 .. Furrows |-> b + j]
  BY <1>1, BlocksIs
<1>3. u = tract \o new
  OBVIOUS
<1> HIDE DEF new
<1>4. /\ IsSeq(u) /\ L = b + Len(new) /\ L \in Nat /\ b < L
      /\ \A l \in 1 .. b : u[l] = tract[l]
      /\ \A j \in 1 .. Len(new) : u[b + j] = new[j]
  <2>1. /\ IsSeq(tract \o new) /\ Len(tract \o new) = Len(tract) + Len(new)
        /\ \A l \in 1 .. Len(tract) : (tract \o new)[l] = tract[l]
        /\ \A j \in 1 .. Len(new) : (tract \o new)[Len(tract) + j] = new[j]
    BY <1>1, <1>2, Longer
  <2> QED
    BY <1>1, <1>2, <1>3, <2>1
<1>5. v # Absent
  BY HamtAssumption
<1> HIDE DEF b, L
<1>6. L # Nil /\ L # Dirty /\ L \in 1 .. L
  BY <1>1, <1>4 DEF Nil, Dirty
<1>7. CASE v \notin Big
  <2>1. L = b + 1 /\ u[L] = Lone(k, v)
    <3>1. Len(new) = 1 /\ new[1] = Lone(k, v) /\ 1 \in 1 .. Len(new)
      BY <1>2, <1>7
    <3>2. u[b + 1] = new[1] /\ L = b + 1
      BY <1>4, <3>1
    <3> QED
      BY <3>1, <3>2
  <2>2. KindIn(u, L) = "lone" /\ u[L].key = k /\ u[L].value = v
    BY <1>6, <2>1 DEF KindIn, Lone
  <2>3. FurrowsIn(u, L) = <<>> /\ ToSet(FurrowsIn(u, L)) = {} /\ IsSeq(<<>>) /\ Len(<<>>) = 0
    BY <2>2 DEF FurrowsIn, ToSet, IsSeq
  <2>4. \A q \in Along(k) : LeafOK(u, L, q, v2, h2, L)
    BY <1>5, <2>2, <2>3 DEF LeafOK
  <2>5. LeafIn(u, L) /\ SealedIn(u, L)
    BY <2>2 DEF LeafIn, SealedIn
  <2>6. \A l : l \in (b + 1) .. L <=> l = L
    BY <1>1, <2>1
  <2>7. \A l : Holds(u, L, l) <=> l = L
    BY <2>3, <2>5 DEF Holds
  <2> QED
    BY <1>1, <1>4, <2>2, <2>4, <2>5, <2>6, <2>7 DEF b, L, new
<1>8. CASE v \in Big
  <2>0. Furrows \in Nat \ {0}
    BY HamtAssumption
  <2>1. PICK runs : /\ new[Furrows + 1] = Extent(k, runs)
                    /\ ExpandRuns(runs) = [j \in 1 .. Furrows |-> b + j]
    BY <1>2, <1>8
  <2>2. L = b + Furrows + 1 /\ u[L] = Extent(k, runs)
    <3>1. Len(new) = Furrows + 1 /\ Furrows + 1 \in 1 .. Len(new)
      BY <1>2, <1>8, <2>0
    <3>2. u[b + (Furrows + 1)] = new[Furrows + 1]
      BY <1>4, <3>1
    <3>3. L = b + (Furrows + 1) /\ b + (Furrows + 1) = b + Furrows + 1
      BY <1>1, <1>4, <2>0, <3>1
    <3> QED
      BY <2>1, <3>2, <3>3
  <2>3. KindIn(u, L) = "extent" /\ u[L].key = k /\ u[L].runs = runs
    BY <1>6, <2>2 DEF KindIn, Extent
  <2> DEFINE F == [j \in 1 .. Furrows |-> b + j]
  <2>4. FurrowsIn(u, L) = F
    BY <2>1, <2>3 DEF FurrowsIn
  <2>5. IsSeq(F) /\ Len(F) = Furrows /\ DOMAIN F = 1 .. Furrows /\ \A j \in 1 .. Furrows : F[j] = b + j
    BY <2>0, SeqOfFcn
  <2> HIDE DEF F
  <2>6. ToSet(F) = {F[j] : j \in 1 .. Furrows}
    BY <2>5, SeqFacts
  <2>7. \A l : l \in ToSet(F) <=> l \in (b + 1) .. (b + Furrows)
    <3>1. ASSUME NEW l \in ToSet(F) PROVE l \in (b + 1) .. (b + Furrows)
      BY <1>1, <2>0, <2>5, <2>6
    <3>2. ASSUME NEW l \in (b + 1) .. (b + Furrows) PROVE l \in ToSet(F)
      <4>1. l - b \in 1 .. Furrows /\ b + (l - b) = l
        BY <1>1, <2>0
      <4>2. F[l - b] = l
        BY <2>5, <4>1
      <4> QED
        BY <2>6, <4>1, <4>2
    <3> QED
      BY <3>1, <3>2
  <2>8. ASSUME NEW j \in 1 .. Furrows
        PROVE  /\ F[j] \in 1 .. L /\ KindIn(u, F[j]) = "furrow" /\ u[F[j]] = Furrow(k, j, v)
               /\ FurrowOK(u, F[j], k, j, v)
    <3>1. F[j] = b + j /\ j \in 1 .. Len(new)
      BY <1>2, <1>8, <2>0, <2>5
    <3>2. u[F[j]] = Furrow(k, j, v) /\ F[j] \in 1 .. L /\ F[j] # Nil /\ F[j] # Dirty
      <4>1. u[b + j] = new[j] /\ new[j] = Furrow(k, j, v)
        BY <1>2, <1>4, <1>8, <3>1
      <4>2. b + j \in 1 .. L /\ b + j > 0
        BY <1>1, <2>0, <2>2
      <4> QED
        BY <3>1, <4>1, <4>2 DEF Nil, Dirty
    <3>3. KindIn(u, F[j]) = "furrow"
      BY <3>2 DEF KindIn, Furrow
    <3> QED
      BY <3>2, <3>3 DEF FurrowOK, Furrow
  <2>9. \A q \in Along(k) : LeafOK(u, L, q, v2, h2, L)
    BY <1>5, <2>0, <2>3, <2>4, <2>5, <2>8 DEF LeafOK
  <2>10. LeafIn(u, L) /\ SealedIn(u, L)
    BY <2>3 DEF LeafIn, SealedIn
  <2>11. \A l : l \in (b + 1) .. L <=> l = L \/ l \in (b + 1) .. (b + Furrows)
    BY <1>1, <2>0, <2>2
  <2>12. \A l : Holds(u, L, l) <=> l \in (b + 1) .. L
    BY <2>4, <2>7, <2>10, <2>11 DEF Holds
  <2>13. \A l \in (b + 1) .. L : SealedIn(u, l)
    <3>1. ASSUME NEW l \in ToSet(F) PROVE SealedIn(u, l)
      <4>1. PICK j \in 1 .. Furrows : l = F[j]
        BY <2>6
      <4> QED
        BY <2>8, <4>1 DEF SealedIn
    <3> QED
      BY <2>7, <2>10, <2>11, <3>1
  <2> QED
    BY <1>1, <1>4, <2>3, <2>9, <2>10, <2>12, <2>13 DEF b, L, new
<1> QED
  BY <1>7, <1>8

\* What a leaf holds is no node, and stays held.
LEMMA HeldByLeaf ==
    ASSUME NEW t, NEW c, NEW q, NEW v, NEW hurt, NEW b \in Nat, LeafOK(t, c, q, v, hurt, b),
           LeafIn(t, c), NEW l, Holds(t, c, l)
    PROVE  KindIn(t, l) # "node"
<1>1. CASE l = c
  BY <1>1 DEF LeafIn
<1>2. CASE l # c
  <2>1. l \in ToSet(FurrowsIn(t, c))
    BY <1>2 DEF Holds
  <2>2. PICK j \in 1 .. Len(FurrowsIn(t, c)) : l = FurrowsIn(t, c)[j]
    BY <2>1, SeqFacts DEF LeafOK
  <2> QED
    BY <2>2 DEF LeafOK, FurrowOK
<1> QED
  BY <1>1, <1>2

\* The new leaf L of k beside the leaf c of o, under the chunk where they part.
Split(k, o, c, u, L, v2, h2, n, over) ==
    /\ k \in Keys /\ o \in Keys /\ o # k /\ c = MemS[End(mem, k)]
    /\ LeafIn(tract, c) /\ tract[c].key = o
    /\ Len(u) \in Nat /\ Len(tract) < Len(u) /\ \A l \in 1 .. Len(tract) : u[l] = tract[l]
    /\ L = Len(u) /\ LeafIn(u, L) /\ u[L].key = k
    /\ \A q \in Along(k) : LeafOK(u, L, q, v2, h2, L)
    /\ \A l : Holds(u, L, l) <=> l \in (Len(tract) + 1) .. L
    /\ \A l \in (Len(tract) + 1) .. L : SealedIn(u, l)
    /\ \A j \in Keys \ {k} : v2[j] = want[j] /\ (j \in h2 <=> j \in lost.mem)
    /\ n = Common(o, k) + 1
    /\ over = [p \in {Prefix(k, n), Prefix(o, n)} |-> IF p = Prefix(k, n) THEN L ELSE c]

\* The leaf of another key moves down beside the new one (insert_child's split).
LEMMA SplitChange ==
    ASSUME Inv, NEW k, NEW o, NEW c, NEW u, NEW L, NEW v2, NEW h2, NEW n, NEW over,
           Split(k, o, c, u, L, v2, h2, n, over)
    PROVE  ChangeOK(u, over, (Len(tract) + 1) .. L, {}, v2, h2, {k})
<1> SUFFICES ASSUME k \in Keys, o \in Keys, o # k, c = MemS[End(mem, k)],
           LeafIn(tract, c), tract[c].key = o,
           Len(u) \in Nat, Len(tract) < Len(u), \A l \in 1 .. Len(tract) : u[l] = tract[l],
           L = Len(u), LeafIn(u, L), u[L].key = k,
           \A q \in Along(k) : LeafOK(u, L, q, v2, h2, L),
           \A l : Holds(u, L, l) <=> l \in (Len(tract) + 1) .. L,
           \A l \in (Len(tract) + 1) .. L : SealedIn(u, l),
           \A j \in Keys \ {k} : v2[j] = want[j] /\ (j \in h2 <=> j \in lost.mem),
           n = Common(o, k) + 1,
           over = [p \in {Prefix(k, n), Prefix(o, n)} |-> IF p = Prefix(k, n) THEN L ELSE c]
    PROVE  ChangeOK(u, over, (Len(tract) + 1) .. L, {}, v2, h2, {k})
  BY DEF Split
<1> DEFINE q == End(mem, k)
           pk == Prefix(k, n)
           po == Prefix(o, n)
           A == UpTo(DOMAIN over)
           D == DOMAIN over
           b == Len(tract)
           hurt == lost.mem
           S == MemS
           adds == (b + 1) .. L
<1>0. b \in Nat /\ L \in Nat /\ b < L /\ Tree(tract, S, want, hurt, b) /\ Nil = 0 /\ Dirty = -1
  BY InvTrees DEF Nil, Dirty
<1>1. /\ q \in Paths /\ q \in Routes /\ q \in Along(k)
      /\ \A p \in Above(q) : KindIn(tract, S[p]) = "node" /\ ~LeafIn(tract, S[p])
      /\ \A r \in Along(k) : r \notin Above(q) /\ r # q => S[r] = Nil
      /\ \A r \in Paths : LeafIn(tract, S[r]) /\ tract[S[r]].key = k => r = q
  BY EndSlot
<1>2. /\ LeafOK(tract, c, q, want, hurt, b) /\ c = S[q]
  BY <1>0, <1>1 DEF Tree, Leaves
<1>3. q \in Along(o)
  BY <1>2 DEF LeafOK
<1>4. /\ pk \in Along(k) /\ po \in Along(o)
      /\ pk \notin Along(o) /\ po \notin Along(k)
      /\ Above(pk) = Above(po)
      /\ \A r \in Along(k) : r \in Along(o) => r \in Above(pk)
  BY SplitFacts
<1>5. pk \in Paths /\ po \in Paths /\ pk # po /\ pk \in Routes /\ po \in Routes
      /\ pk \notin Above(pk) /\ po \notin Above(pk) /\ Above(pk) \subseteq Along(k)
  <2>1. pk \in Paths /\ po \in Paths /\ pk # po /\ pk \in Routes /\ po \in Routes
    BY <1>4, AlongFacts
  <2>2. pk \notin Above(pk) /\ po \notin Above(po)
    BY <2>1, AboveFront
  <2>3. Above(pk) \subseteq Along(k)
    BY <1>4, AlongChain
  <2> QED
    BY <1>4, <2>1, <2>2, <2>3
<1>6. D = {pk, po} /\ over[pk] = L /\ over[po] = c
  BY <1>5
<1>7. A = Above(pk)
  <2>1. {pk, po} \subseteq Paths
    BY <1>5
  <2> DEFINE both == {pk, po}
  <2>4. both \subseteq Paths /\ \A r : r \in both <=> r = pk \/ r = po
    BY <2>1
  <2> HIDE DEF pk, po, both
  <2>2. \A p : p \in UpTo(both) <=> \E r \in both : p \in Above(r)
    BY <2>4, UpToIs
  <2>6. \A p : p \in UpTo(both) <=> p \in Above(pk)
    <3>1. Above(pk) = Above(po)
      BY <1>4
    <3> QED
      <4>1. \A p : (\E r \in both : p \in Above(r)) <=> p \in Above(pk) \/ p \in Above(po)
        BY <2>4, Zenon
      <4> QED
        BY <2>2, <3>1, <4>1
  <2>5. UpTo(both) = Above(pk)
    BY <2>6, Zenon
  <2>3. UpTo({pk, po}) = Above(pk)
    BY <2>5 DEF both
  <2> QED
    BY <1>6, <2>3
<1> HIDE DEF q, pk, po, A, D, b, hurt, S
<1>8. q \in A /\ Above(q) \subseteq A /\ A \subseteq Along(k)
  <2>1. q \in Above(pk)
    BY <1>1, <1>3, <1>4
  <2>2. Above(q) \subseteq Above(pk)
    BY <1>5, <2>1, AboveAbove
  <2> QED
    BY <1>5, <1>7, <2>1, <2>2
<1>9. S[pk] = Nil /\ S[po] = Nil
  <2>1. q \in Above(pk) /\ q \in Above(po)
    BY <1>4, <1>7, <1>8
  <2>2. KindIn(tract, S[q]) # "node"
    BY <1>2 DEF LeafIn
  <2> QED
    BY <1>0, <1>5, <2>1, <2>2 DEF Tree, Shape
<1>10. /\ LeafOK(u, c, po, v2, h2, L) /\ LeafIn(u, c) /\ u[c] = tract[c]
       /\ FurrowsIn(u, c) = FurrowsIn(tract, c) /\ SealedIn(u, c) /\ c \in 1 .. b
  <2>1. c \in 1 .. b
    <3>1. c \in -1 .. b
      BY <1>0, <1>1, <1>2 DEF Tree, Shape
    <3>2. c # Nil /\ c # Dirty
      BY KindNil
    <3> QED
      BY <1>0, <3>1, <3>2
  <2>2. po \in Along(tract[c].key) /\ v2[tract[c].key] = want[tract[c].key]
        /\ (tract[c].key \in h2 <=> tract[c].key \in hurt)
    BY <1>4 DEF hurt
  <2>3. \A l \in 1 .. b : u[l] = tract[l]
    BY DEF b
  <2>4. b <= L
    BY <1>0
  <2>7. LeafOK(tract, c, q, want, hurt, b) /\ L \in Nat /\ b \in Nat
    BY <1>0, <1>2
  <2>8. SameLeaf(tract, u, c, q, want, hurt, b, po, v2, h2, L)
    BY <2>1, <2>2, <2>3, <2>4, <2>7 DEF SameLeaf
  <2>5. /\ LeafOK(u, c, po, v2, h2, L) /\ u[c] = tract[c] /\ FurrowsIn(u, c) = FurrowsIn(tract, c)
        /\ (LeafIn(u, c) <=> LeafIn(tract, c)) /\ (SealedIn(u, c) <=> SealedIn(tract, c))
    BY <2>8, LeafStays
  <2>6. SealedIn(tract, c)
    BY DEF LeafIn, SealedIn
  <2> QED
    BY <2>1, <2>5, <2>6
<1>11. \A l : Holds(u, c, l) <=> Holds(tract, c, l)
  <2>1. SealedIn(tract, c)
    BY DEF LeafIn, SealedIn
  <2> QED
    BY <1>10, <2>1 DEF Holds
<1>12. D \subseteq Paths /\ A \cap D = {}
  BY <1>5, <1>6, <1>7
<1>13. KindIn(u, L) # "node" /\ KindIn(u, c) # "node" /\ L # Dirty /\ c # Dirty /\ L # Nil /\ c # Nil
  BY <1>0, <1>10 DEF LeafIn
<1>14. Graft(tract, u, S, over, v2, h2, Len(u))
  <2>1. LeafOK(u, L, pk, v2, h2, L)
    BY <1>4
  <2>2. L \in 0 .. L /\ c \in 0 .. L
    BY <1>0, <1>10
  <2>3. KindIn(tract, Nil) # "node"
    BY KindNil
  <2>4. /\ L \in 0 .. Len(u) /\ KindIn(u, L) \in {"node", "lone", "extent"}
        /\ KindIn(u, L) # "node" /\ KindIn(tract, S[pk]) # "node"
        /\ LeafOK(u, L, pk, v2, h2, Len(u))
    BY <1>9, <1>13, <2>1, <2>2, <2>3 DEF LeafIn
  <2>5. /\ c \in 0 .. Len(u) /\ KindIn(u, c) \in {"node", "lone", "extent"}
        /\ KindIn(u, c) # "node" /\ KindIn(tract, S[po]) # "node"
        /\ LeafOK(u, c, po, v2, h2, Len(u))
    BY <1>9, <1>10, <1>13, <2>2, <2>3 DEF LeafIn
  <2>6. DOMAIN over = {pk, po}
    BY <1>6 DEF D
  <2> DEFINE G(d) ==
        /\ over[d] \in 0 .. Len(u)
        /\ over[d] = Nil \/ KindIn(u, over[d]) \in {"node", "lone", "extent"}
        /\ KindIn(u, over[d]) = "node" <=> KindIn(tract, S[d]) = "node"
        /\ KindIn(u, over[d]) = "node" => u[over[d]].path = d
        /\ LeafIn(u, over[d]) => LeafOK(u, over[d], d, v2, h2, Len(u))
  <2>7. G(pk)
    BY <1>6, <2>4
  <2>8. G(po)
    BY <1>6, <2>5
  <2>9. \A d \in DOMAIN over : G(d)
    <3> HIDE DEF G
    <3> QED
      BY <2>6, <2>7, <2>8
  <2> QED
    BY <2>9 DEF Graft
<1>15. \A d \in D : /\ S[d] # Dirty /\ over[d] # Dirty
                    /\ \A s \in Chunks : KidIn(u, over[d], s) = KidIn(tract, S[d], s)
  <2>1. \A s : KidIn(u, L, s) = Nil /\ KidIn(u, c, s) = Nil /\ KidIn(tract, Nil, s) = Nil
    BY <1>13, KindNil DEF KidIn
  <2>2. S[pk] # Dirty /\ S[po] # Dirty
    BY <1>9, KindNil
  <2>3. over[pk] # Dirty /\ over[po] # Dirty
    BY <1>6, <1>13
  <2>4. \A s : KidIn(u, over[pk], s) = KidIn(tract, S[pk], s) /\ KidIn(u, over[po], s) = KidIn(tract, S[po], s)
    BY <1>6, <1>9, <2>1
  <2> DEFINE P(d) == /\ S[d] # Dirty /\ over[d] # Dirty
                     /\ \A s \in Chunks : KidIn(u, over[d], s) = KidIn(tract, S[d], s)
  <2>5. P(pk) /\ P(po)
    BY <2>2, <2>3, <2>4
  <2> SUFFICES ASSUME NEW d \in D PROVE P(d)
    OBVIOUS
  <2>6. d = pk \/ d = po
    BY <1>6
  <2> HIDE DEF P
  <2> QED
    BY <2>5, <2>6
<1>16. \A r \in Paths : (r \in A \/ r \in D) /\ LeafIn(tract, S[r]) => r = q
  <2>1. \A r \in A : r = q \/ r \in Above(q) \/ S[r] = Nil
    BY <1>1, <1>8
  <2>2. ~LeafIn(tract, Nil)
    BY KindNil
  <2> QED
    BY <1>1, <1>6, <1>9, <2>1, <2>2
<1>17. \A r \in Paths : r \notin A /\ r \notin D /\ LeafIn(tract, S[r]) => tract[S[r]].key \notin {k}
  BY <1>1, <1>8
<1>18. \A r \in Paths : (r \in A \/ r \in D) /\ LeafIn(tract, S[r])
                => \E d \in D : LeafIn(u, over[d]) /\ u[over[d]].key = tract[S[r]].key
  <2>1. po \in D /\ LeafIn(u, over[po]) /\ u[over[po]].key = tract[c].key
    BY <1>6, <1>10
  <2> QED
    BY <1>2, <1>16, <2>1
<1>19. /\ \E d \in D : LeafIn(u, over[d]) /\ u[over[d]].key = k
       /\ \A r \in Along(k) : r \notin A /\ r \notin D => KindIn(tract, S[r]) # "bad"
  <2>1. pk \in D /\ LeafIn(u, over[pk]) /\ u[over[pk]].key = k
    BY <1>6
  <2>2. KindIn(tract, Nil) # "bad"
    BY KindNil
  <2>3. \A r \in Along(k) : r \notin A => r \notin Above(q) /\ r # q
    BY <1>8
  <2>4. \A r \in Along(k) : r \notin A => S[r] = Nil
    BY <1>1, <2>3
  <2> QED
    BY <2>1, <2>2, <2>4
<1>20. \A r \in Paths, l \in 1 .. b :
                (r \in A \/ r \in D) /\ (r \in D \/ LeafIn(tract, S[r]))
                /\ Holds(tract, S[r], l) => \E d \in D : Holds(u, over[d], l)
  <2>1. \A l : ~Holds(tract, Nil, l)
    BY KindNil DEF Holds
  <2>2. \A r \in D : S[r] = Nil
    BY <1>6, <1>9
  <2>3. po \in D /\ over[po] = c
    BY <1>6
  <2> QED
    BY <1>2, <1>11, <1>16, <2>1, <2>2, <2>3
<1>21. ASSUME NEW d \in D, NEW l \in 1 .. b, Holds(u, over[d], l), SealedIn(tract, l)
       PROVE  Reached(tract, S, l) /\ KindIn(tract, l) # "node"
  <2>1. d # pk
    <3>1. l \notin (b + 1) .. L
      BY <1>0
    <3>2. ~Holds(u, L, l)
      BY <3>1 DEF b
    <3> QED
      BY <1>6, <1>21, <3>2
  <2>2. Holds(tract, c, l)
    BY <1>6, <1>11, <1>21, <2>1
  <2>3. Reached(tract, S, l)
    BY <1>1, <1>2, <1>21, <2>2 DEF Reached
  <2>4. KindIn(tract, l) # "node"
    BY <1>0, <1>2, <2>2, HeldByLeaf
  <2> QED
    BY <2>3, <2>4
<1>22. \A l \in (b + 1) .. L : l \in adds <=> (SealedIn(u, l) /\ \E d \in D : Holds(u, over[d], l))
  <2>1. \A l \in (b + 1) .. L : SealedIn(u, l) /\ Holds(u, over[pk], l) /\ pk \in D
    BY <1>6 DEF b
  <2> QED
    BY <2>1
<1> HIDE DEF adds
<1> DEFINE none == {}
<1>24. \A l : l \notin none
  OBVIOUS
<1> HIDE DEF none
<1>23. ChangeOK(u, over, adds, none, v2, h2, {k})
  <2>1. adds \subseteq (b + 1) .. Len(u)
    BY DEF adds
  <2>2. \A l \in 1 .. b : l \in none /\ SealedIn(tract, l) =>
                \E r \in Paths : (r \in A \/ r \in D) /\ Holds(tract, S[r], l)
    BY <1>24
  <2>3. \A r \in Paths : (r \in A \/ r \in D) /\ LeafIn(tract, S[r])
                             /\ tract[S[r]].key \notin {k} /\ tract[S[r]].key \notin lost.mem
                => \E d \in D : LeafIn(u, over[d]) /\ u[over[d]].key = tract[S[r]].key
    BY <1>18
  <2>4. \A j \in Keys : j \in {k} /\ j \notin h2 =>
                /\ v2[j] # Absent => \E d \in D : LeafIn(u, over[d]) /\ u[over[d]].key = j
                /\ \A r \in Along(j) : r \notin A /\ r \notin D => KindIn(tract, S[r]) # "bad"
    BY <1>19
  <2>5. \A r \in Paths, l \in 1 .. b :
                (r \in A \/ r \in D) /\ (r \in D \/ LeafIn(tract, S[r]))
                /\ Holds(tract, S[r], l) /\ SealedIn(tract, l) /\ l \notin none
                    => \E d \in D : Holds(u, over[d], l)
    BY <1>20
  <2>6. \A d \in D, l \in 1 .. b :
                Holds(u, over[d], l) /\ SealedIn(tract, l) =>
                    l \notin none /\ Reached(tract, S, l) /\ KindIn(tract, l) # "node"
    BY <1>21, <1>24
  <2>7. \A l \in (b + 1) .. Len(u) : l \in adds <=> (SealedIn(u, l) /\ \E d \in D : Holds(u, over[d], l))
    BY <1>22
  <2>8. \A j \in Keys \ {k} : v2[j] = want[j] /\ (j \in h2 <=> j \in lost.mem)
    OBVIOUS
  <2> QED
    BY <1>12, <1>14, <1>15, <1>17, <2>1, <2>2, <2>3, <2>4, <2>5, <2>6, <2>7, <2>8
       DEF ChangeOK, A, D, S, b
<1> QED
  BY <1>23 DEF adds, b, none

\* A put keeps the invariant: a free slot, an older leaf, or a split.
LEMMA PutStep ==
    ASSUME Inv, NEW k \in Keys, NEW v \in Values, Put(k, v)
    PROVE  Inv'
<1> DEFINE new == Blocks(k, v)
           old == FindLeaf(mem, k)
           q == End(mem, k)
           L == Len(tract) + Len(new)
           drops == IF old = Nil THEN {} ELSE LeafBlocks(old)
           u == tract'
           v2 == want'
           h2 == lost'.mem
<1>0. /\ tract' = tract \o new /\ head' = head /\ live' = live /\ reap' = reap /\ pendingReap' = pendingReap
      /\ work' = work /\ saved' = saved /\ stray' = stray /\ pc = "idle" /\ pc' = pc /\ work.settled
      /\ Change(Insertion(k, L), (Len(tract) + 1) .. L, drops)
      /\ want' = [want EXCEPT ![k] = v] /\ lost' = [lost EXCEPT !.mem = @ \ {k}]
      /\ ops < MaxOps /\ ops' = ops + 1
  BY DEF Put, Idle, Op, space, Plow
<1>1. /\ IsSeq(tract) /\ Len(tract) \in Nat /\ WorkShape(work) /\ ~work.repair /\ Pending = {}
      /\ want \in [Keys -> Values \cup {Absent}] /\ ops' \in Nat /\ ops' <= MaxOps
      /\ lost = [mem |-> lost.mem, head |-> lost.head, past |-> lost.past] /\ lost.mem \subseteq Keys
  <2>1. Pending = {}
    BY <1>0 DEF Pending
  <2>2. ops' \in Nat /\ ops' <= MaxOps
    <3>1. ops \in Nat /\ MaxOps \in Nat
      BY HamtAssumption DEF Inv, Basic
    <3> QED
      BY <1>0, <3>1
  <2>3. ~work.repair
    BY <1>0 DEF Inv, Unsettled
  <2> QED
    BY <2>1, <2>2, <2>3, InvTrees DEF Basic
<1>2. /\ lost' = [mem |-> lost'.mem, head |-> lost.head, past |-> lost.past]
      /\ h2 = lost.mem \ {k} /\ h2 \subseteq Keys
  BY <1>0, <1>1
<1>3. want' \in [Keys -> Values \cup {Absent}] /\ v2[k] = v
      /\ \A j \in Keys \ {k} : v2[j] = want[j] /\ (j \in h2 <=> j \in lost.mem)
  BY <1>0, <1>1, <1>2
<1> HIDE DEF v2, h2
<1>4. /\ IsSeq(u) /\ Len(u) = L /\ Len(u) \in Nat /\ Len(tract) < Len(u)
      /\ \A l \in 1 .. Len(tract) : u[l] = tract[l]
      /\ LeafIn(u, L) /\ u[L].key = k
      /\ \A p \in Along(k) : LeafOK(u, L, p, v2, h2, L)
      /\ \A l : Holds(u, L, l) <=> l \in (Len(tract) + 1) .. L
      /\ \A l \in (Len(tract) + 1) .. L : SealedIn(u, l)
  <2>1. u = tract \o Blocks(k, v)
    BY <1>0
  <2> HIDE DEF u
  <2>2. /\ IsSeq(u) /\ Len(u) = Len(tract) + Len(Blocks(k, v)) /\ Len(u) \in Nat
        /\ Len(tract) < Len(u)
        /\ \A l \in 1 .. Len(tract) : u[l] = tract[l]
        /\ LeafIn(u, Len(u)) /\ u[Len(u)].key = k
        /\ \A p \in Along(k) : LeafOK(u, Len(u), p, v2, h2, Len(u))
        /\ \A l : Holds(u, Len(u), l) <=> l \in (Len(tract) + 1) .. Len(u)
        /\ \A l \in (Len(tract) + 1) .. Len(u) : SealedIn(u, l)
    <3>1. PutIn(k, v, u, v2, h2)
      BY <1>3, <2>1 DEF PutIn
    <3> QED
      BY <3>1, PutLeaf
  <2> QED
    BY <2>2
<1>5. /\ old = Nil => ~LeafIn(tract, MemS[q]) \/ tract[MemS[q]].key # k
      /\ old # Nil => /\ old = MemS[q] /\ LeafIn(tract, old) /\ tract[old].key = k
                      /\ \A l : l \in LeafBlocks(old) <=> SealedIn(tract, l) /\ Holds(tract, old, l)
                      /\ LeafBlocks(old) \subseteq 1 .. Len(tract)
  BY LeafBlocksIs
<1>6. /\ q \in Paths /\ q \in Routes /\ q \in Along(k) /\ KindIn(tract, MemS[q]) # "node"
  BY EndSlot
<1>a. LeafIn(tract, MemS[q]) => tract[MemS[q]].key \in Keys
  BY <1>6, InvTrees DEF Tree, Leaves, LeafOK
<1>b. MemS[q] # Nil => KindIn(tract, MemS[q]) \in {"node", "lone", "extent", "zero", "bad"}
  BY <1>6, InvTrees DEF Tree, Shape
<1> DEFINE o == IF LeafIn(tract, MemS[q]) THEN tract[MemS[q]].key ELSE k
           n == Common(o, k) + 1
           over == IF o = k THEN At(q, L)
                   ELSE [p \in {Prefix(k, n), Prefix(o, n)} |-> IF p = Prefix(k, n) THEN L ELSE MemS[q]]
           adds == (Len(tract) + 1) .. L
<1>7. Insertion(k, L) = over
  <2>1. Slot(mem, q) = MemS[q] /\ (IsLeaf(MemS[q]) <=> LeafIn(tract, MemS[q]))
    BY NowIs DEF MemS
  <2> QED
    BY <2>1 DEF Insertion
<1> HIDE DEF L, new, old, q, n, u
<1>8. drops \subseteq 1 .. Len(tract)
  BY <1>5
<1>9. ChangeOK(u, over, adds, drops, v2, h2, {k})
  <2>1. CASE o = k
    <3> HIDE DEF o
    <3>1. over = At(End(mem, k), L)
      BY <2>1 DEF q
    <3>2. LeafIn(tract, MemS[End(mem, k)]) => tract[MemS[End(mem, k)]].key = k
      BY <2>1 DEF o, q
    <3>3. \A l \in 1 .. Len(tract) : l \in drops /\ SealedIn(tract, l) => Holds(tract, MemS[End(mem, k)], l)
      BY <1>5 DEF q
    <3>4. \A l \in 1 .. Len(tract) : ~(Holds(tract, MemS[End(mem, k)], l) /\ SealedIn(tract, l) /\ l \notin drops)
      <4>1. CASE old # Nil
        BY <1>5, <4>1 DEF q
      <4>2. CASE old = Nil
        <5>1. ~LeafIn(tract, MemS[q])
          BY <1>5, <4>2, <3>2 DEF q
        <5>2. ~SealedIn(tract, MemS[q])
          BY <1>6, <1>b, <5>1, KindNil DEF LeafIn, SealedIn
        <5> QED
          BY <5>2 DEF Holds, q
      <4> QED
        BY <4>1, <4>2
    <3>5. \A l \in 1 .. Len(tract) : ~Holds(u, L, l)
      BY <1>1, <1>4
    <3>6. /\ L \in 0 .. Len(u) /\ L # Nil /\ Len(u) \in Nat
          /\ LeafOK(u, L, End(mem, k), v2, h2, Len(u)) /\ LeafIn(u, L) /\ u[L].key = k
      BY <1>1, <1>4, <1>6 DEF Nil, q
    <3>7. /\ adds \subseteq (Len(tract) + 1) .. Len(u)
          /\ \A l \in (Len(tract) + 1) .. Len(u) : l \in adds <=> (SealedIn(u, l) /\ Holds(u, L, l))
      BY <1>4
    <3> HIDE DEF over, adds, drops
    <3>8. ChangeOK(u, At(End(mem, k), L), adds, drops, v2, h2, {k})
      BY <1>3, <3>2, <3>3, <3>4, <3>5, <3>6, <3>7, SlotChange
    <3> QED
      BY <3>1, <3>8
  <2>2. CASE o # k
    <3> DEFINE c == MemS[End(mem, k)]
    <3>1. LeafIn(tract, c) /\ tract[c].key = o /\ o \in Keys
      BY <1>a, <2>2 DEF q
    <3>2. drops = {}
      BY <1>5, <2>2
    <3> HIDE DEF o
    <3>3. over = [p \in {Prefix(k, n), Prefix(o, n)} |-> IF p = Prefix(k, n) THEN L ELSE c]
      BY <2>2 DEF q
    <3>4. c = MemS[End(mem, k)] /\ n = Common(o, k) + 1 /\ L = Len(u)
      BY <1>4 DEF n
    <3> HIDE DEF c, over, drops
    <3>5. ChangeOK(u, over, (Len(tract) + 1) .. L, {}, v2, h2, {k})
      <4>1. Split(k, o, c, u, L, v2, h2, n, over)
        BY <1>3, <1>4, <2>2, <3>1, <3>3, <3>4 DEF Split
      <4> QED
        BY <4>1, SplitChange
    <3> QED
      BY <3>2, <3>5
  <2> QED
    BY <2>1, <2>2
<1>10. /\ IsSeq(tract') /\ Len(tract) <= Len(tract') /\ \A l \in 1 .. Len(tract) : tract'[l] = tract[l]
       /\ pc' \in {"idle", "reap"} /\ pc' # "reap" /\ WorkShape(work') /\ work'.settled /\ ~work'.repair
       /\ lost'.mem \subseteq Keys
  BY <1>0, <1>1, <1>2, <1>4 DEF u, h2
<1>11. Change(over, adds, drops)
  BY <1>0, <1>7
<1> HIDE DEF over, adds, drops
<1>12. ChangeOK(tract', over, adds, drops, want', lost'.mem, {k})
  BY <1>9 DEF u, v2, h2
<1> QED
  BY <1>0, <1>1, <1>2, <1>3, <1>8, <1>10, <1>11, <1>12, ChangeStep

\* More keys may be hurt.
LEMMA TreeHurt ==
    ASSUME NEW t, NEW S, NEW v, NEW hurt, NEW b \in Nat, Tree(t, S, v, hurt, b), NEW h2, hurt \subseteq h2
    PROVE  Tree(t, S, v, h2, b)
<1>1. Leaves(t, S, v, h2, b)
  <2>1. ASSUME NEW q \in Paths, LeafIn(t, S[q]) PROVE LeafOK(t, S[q], q, v, h2, b)
    <3>1. LeafOK(t, S[q], q, v, hurt, b)
      BY <2>1 DEF Tree, Leaves
    <3> QED
      BY <3>1 DEF LeafOK
  <2> QED
    BY <2>1 DEF Leaves
<1>2. Kept(t, S, v, h2)
  BY DEF Tree, Kept
<1> QED
  BY <1>1, <1>2 DEF Tree

\* The start of an erase keeps the invariant (Hamt::delete, ZeroIsErase).
LEMMA DeleteErasingStep ==
    ASSUME Inv, NEW k \in Keys, DeleteErasing(k)
    PROVE  Inv'
<1> DEFINE leaf == FindLeaf(mem, k)
           F == FurrowsIn(tract, leaf)
           q == End(mem, k)
           b == Len(tract)
<1>0. /\ tract' = tract /\ head' = head /\ mem' = mem /\ live' = live /\ reap' = reap
      /\ pendingReap' = pendingReap /\ want' = want
      /\ saved' = saved /\ stray' = stray /\ pc = "idle" /\ pc' = "erase" /\ work.settled
      /\ leaf # Nil
      /\ delta' = [delta EXCEPT !.removed = @ \cup LeafBlocks(leaf)]
      /\ work' = [work EXCEPT !.key = k, !.todo = Append(FurrowsOf(leaf), leaf)]
      /\ lost' = [lost EXCEPT !.mem = @ \cup {k},
                        !.head = IF LeafBlocks(leaf) \cap Reach(FromRoot(head.root)) = {}
                                 THEN @ ELSE @ \cup {k}]
      /\ ops < MaxOps /\ ops' = ops + 1
  BY DEF DeleteErasing, Idle, Op, space
<1>1. /\ IsSeq(tract) /\ b \in Nat /\ WorkShape(work) /\ ~work.repair /\ Pending = {}
      /\ ops' \in Nat /\ ops' <= MaxOps
      /\ lost = [mem |-> lost.mem, head |-> lost.head, past |-> lost.past]
      /\ lost.mem \subseteq Keys /\ lost.head \subseteq Keys
      /\ delta = [added |-> delta.added, removed |-> delta.removed]
  <2>1. Pending = {}
    BY <1>0 DEF Pending
  <2>2. ops' \in Nat /\ ops' <= MaxOps
    <3>1. ops \in Nat /\ MaxOps \in Nat
      BY HamtAssumption DEF Inv, Basic
    <3> QED
      BY <1>0, <3>1
  <2>3. ~work.repair
    BY <1>0 DEF Inv, Unsettled
  <2> QED
    BY <2>1, <2>2, <2>3, InvTrees DEF Basic
<1>2. /\ lost' = [mem |-> lost'.mem, head |-> lost'.head, past |-> lost'.past]
      /\ lost'.mem = lost.mem \cup {k} /\ lost'.past = lost.past
      /\ lost'.head = IF LeafBlocks(leaf) \cap Reach(FromRoot(head.root)) = {}
                      THEN lost.head ELSE lost.head \cup {k}
  BY <1>0, <1>1
<1>3. lost.mem \subseteq lost'.mem /\ lost.head \subseteq lost'.head /\ lost'.mem \subseteq Keys
      /\ lost'.head \subseteq Keys /\ k \in lost'.mem
  BY <1>1, <1>2
<1>4. /\ delta' = [added |-> delta'.added, removed |-> delta'.removed] /\ delta'.added = delta.added
      /\ delta'.removed = delta.removed \cup LeafBlocks(leaf)
  BY <1>0, <1>1
<1>5. WorkShape(work') /\ work'.settled /\ ~work'.repair /\ work'.key = k /\ work'.todo = Append(F, leaf)
  BY <1>0, <1>1, NowIs DEF WorkShape
<1>6. /\ leaf = MemS[q] /\ leaf \in 1 .. b
      /\ LeafIn(tract, leaf) /\ tract[leaf].key = k
      /\ LeafOK(tract, leaf, q, want, lost.mem, b)
      /\ \A l : l \in LeafBlocks(leaf) <=> SealedIn(tract, l) /\ Holds(tract, leaf, l)
      /\ LeafBlocks(leaf) \subseteq 1 .. b
  BY <1>0, LeafBlocksIs
<1>7. q \in Along(k)
  BY EndSlot
<1> HIDE DEF leaf, q
<1>8. IsSeq(F) /\ Len(F) \in Nat /\ \A j \in 1 .. Len(F) : F[j] \in 1 .. b
  BY <1>6, SeqFacts DEF LeafOK
<1>9. ToSet(F) = {F[j] : j \in 1 .. Len(F)} /\ DOMAIN F = 1 .. Len(F)
  BY <1>8, SeqFacts
<1> DEFINE todo == Append(F, leaf)
<1> HIDE DEF F
<1>10. /\ IsSeq(todo) /\ Len(todo) = Len(F) + 1 /\ todo # <<>>
       /\ \A j \in 1 .. Len(F) : todo[j] = F[j]
       /\ todo[Len(F) + 1] = leaf /\ ToSet(todo) = ToSet(F) \cup {leaf}
  BY <1>8, SeqAppend
<1> HIDE DEF todo
<1>11. MemS' = MemS /\ HeadS' = HeadS
  BY <1>0 DEF MemS, HeadS
<1>12. Trees'
  <2>1. Tree(tract, MemS, want, lost'.mem, b)
    <3> DEFINE h2 == lost'.mem
               h == lost.mem
               S == MemS
    <3>1. Tree(tract, S, want, h, b) /\ h \subseteq h2
      BY <1>3, InvTrees
    <3> HIDE DEF h2, h, b, S
    <3>2. Tree(tract, S, want, h2, b)
      BY <1>1, <3>1, TreeHurt
    <3> QED
      BY <3>2 DEF h2, S
  <2>2. Tree(tract, HeadS, saved, lost'.head, head.plow)
    <3> DEFINE h2 == lost'.head
               h == lost.head
               p == head.plow
               S == HeadS
    <3>1. Tree(tract, S, saved, h, p) /\ h \subseteq h2 /\ p \in Nat
      BY <1>3, InvTrees
    <3> HIDE DEF h2, h, p, S
    <3>2. Tree(tract, S, saved, h2, p)
      BY <3>1, TreeHurt
    <3> QED
      BY <3>2 DEF h2, S, p
  <2> QED
    BY <1>0, <1>11, <2>1, <2>2 DEF Inv, Trees
<1>13. Basic'
  <2>1. delta'.removed \subseteq 1 .. b
    BY <1>4, <1>6 DEF Inv, Basic
  <2> QED
    BY <1>0, <1>1, <1>2, <1>3, <1>4, <1>5, <2>1 DEF Inv, Basic
<1>14. Unsettled' /\ ReapInv' /\ WalkInv'
  BY <1>0, <1>5 DEF Unsettled, ReapInv, WalkInv
<1>15. Pending' = ToSet(F) \cup {leaf}
  BY <1>0, <1>5, <1>10 DEF Pending, todo
<1>16. \A l : l \in LiveSetApply' <=> l \in LiveSetApply /\ l \notin LeafBlocks(leaf)
  BY <1>0, <1>4 DEF LiveSetApply
<1>17. \A l : SealedIn(tract, l) => (l \in LeafBlocks(leaf) <=> l \in Pending')
  <2>1. SealedIn(tract, leaf)
    BY <1>6 DEF LeafIn, SealedIn
  <2> QED
    BY <1>6, <1>15, <2>1 DEF Holds, F
<1>18. LiveInv'
  <2>1. /\ \A l \in Nat : (l \in LiveSetApply /\ SealedIn(tract, l)) <=> Reached(tract, MemS, l)
        /\ LiveOK(tract, HeadS, live, {})
    BY <1>0, <1>1 DEF Inv, LiveInv, LiveOK
  <2>2. \A l \in Nat : Reached(tract, MemS, l) => SealedIn(tract, l)
    BY DEF Reached
  <2>3. \A l \in Nat : (l \in LiveSetApply' /\ SealedIn(tract, l))
                          <=> (Reached(tract, MemS, l) /\ l \notin Pending')
    BY <1>16, <1>17, <2>1, <2>2
  <2> QED
    BY <1>0, <1>11, <2>1, <2>3 DEF LiveInv, LiveOK
<1>19. ASSUME NEW l \in Nat, l \in Pending', Reached(tract, HeadS, l) PROVE k \in lost'.head
  <2>1. SealedIn(tract, l)
    BY <1>19 DEF Reached
  <2>2. l \in LeafBlocks(leaf)
    BY <1>17, <1>19, <2>1
  <2>3. l \in Reach(FromRoot(head.root))
    <3> DEFINE m == FromRoot(head.root)
    <3>1. HeadS = Slots(tract, m)
      BY DEF HeadS
    <3> HIDE DEF m
    <3>2. l \in Reach(m) <=> Reached(tract, HeadS, l)
      BY <3>1, ReachIs
    <3> QED
      BY <1>19, <3>2 DEF m
  <2> QED
    BY <1>2, <2>2, <2>3
<1>20. EraseInv'
  <2>1. ASSUME NEW j \in 1 .. Len(todo)
        PROVE  /\ todo[j] \in 1 .. b
               /\ Reached(tract, HeadS, todo[j]) => k \in lost'.head
    <3>1. j \in 1 .. Len(F) \/ j = Len(F) + 1
      BY <1>8, <1>10
    <3>2. todo[j] \in 1 .. b /\ todo[j] \in Pending'
      BY <1>6, <1>8, <1>9, <1>10, <1>15, <3>1
    <3>3. todo[j] \in Nat
      BY <1>1, <3>2
    <3> QED
      BY <1>19, <3>2, <3>3
  <2>2. /\ todo # <<>> /\ LeafIn(tract, MemS[q]) /\ tract[MemS[q]].key = k
        /\ todo[Len(todo)] = MemS[q]
        /\ \A j \in 1 .. (Len(todo) - 1) : todo[j] \in ToSet(FurrowsIn(tract, MemS[q]))
        /\ \A l \in ToSet(FurrowsIn(tract, MemS[q])) : SealedIn(tract, l) =>
                       \E j \in 1 .. (Len(todo) - 1) : todo[j] = l
    <3>1. FurrowsIn(tract, MemS[q]) = F /\ Len(todo) - 1 = Len(F)
      BY <1>6, <1>8, <1>10 DEF F
    <3>2. \A j \in 1 .. Len(F) : todo[j] \in ToSet(F)
      BY <1>9, <1>10
    <3>3. \A l \in ToSet(F) : \E j \in 1 .. Len(F) : todo[j] = l
      BY <1>9, <1>10
    <3> QED
      BY <1>6, <1>8, <1>10, <3>1, <3>2, <3>3
  <2>3. work'.todo = todo /\ work'.key = k
    BY <1>5 DEF todo
  <2>4. \E r \in Along(k) :
             /\ todo = <<>> => KindIn(tract, MemS[r]) = "zero"
             /\ todo # <<>> =>
                 /\ LeafIn(tract, MemS[r]) /\ tract[MemS[r]].key = k
                 /\ todo[Len(todo)] = MemS[r]
                 /\ \A j \in 1 .. (Len(todo) - 1) : todo[j] \in ToSet(FurrowsIn(tract, MemS[r]))
                 /\ \A l \in ToSet(FurrowsIn(tract, MemS[r])) : SealedIn(tract, l) =>
                       \E j \in 1 .. (Len(todo) - 1) : todo[j] = l
    BY <1>7, <2>2, Zenon
  <2>5. IsSeq(todo) /\ k \in Keys /\ k \in lost'.mem
    BY <1>3, <1>10
  <2> HIDE DEF b
  <2>6. pc' = "erase" /\ tract' = tract /\ MemS' = MemS /\ HeadS' = HeadS
    BY <1>0, <1>11
  <2> QED
    BY <2>1, <2>3, <2>4, <2>5, <2>6 DEF EraseInv, b
<1>21. RetiredInv'
  BY <1>0, <1>1, <1>5, <1>11 DEF Inv, RetiredInv
<1>22. CountInv'
  <2>1. lost'.head = {} => lost.head = {}
    BY <1>3
  <2> QED
    BY <1>0, <1>2, <1>5, <1>11, <1>16, <2>1 DEF Inv, CountInv
<1> QED
  BY <1>12, <1>13, <1>14, <1>18, <1>20, <1>21, <1>22 DEF Inv

\* One trie under the zeroing of block l0, no node, whose furrows are gone.
LEMMA ZeroUnder ==
    ASSUME NEW u, NEW m, NEW S, NEW v, NEW hurt, NEW b, NEW l0,
           HurtBy(tract, u, m, S, v, hurt, b, l0, hurt),
           KindIn(tract, l0) # "node",
           \A l \in ToSet(FurrowsIn(tract, l0)) : ~SealedIn(tract, l)
    PROVE  /\ Slots(u, m) = S /\ Tree(u, S, v, hurt, b)
           /\ \A l \in Nat : Reached(u, S, l) <=> Reached(tract, S, l) /\ l # l0
<1>1. /\ Slots(u, m) = Cut(S, l0)
      /\ Tree(u, Cut(S, l0), v, hurt, b)
      /\ \A l \in Nat : Reached(u, Cut(S, l0), l) => Reached(tract, S, l) /\ l # l0
      /\ Cut(S, l0) = S
  BY Hurt
<1>2. /\ b \in Nat /\ Tree(tract, S, v, hurt, b) /\ l0 \in Nat \ {0}
      /\ \A l \in 1 .. b : l # l0 => u[l] = tract[l]
  BY DEF HurtBy
<1>3. ASSUME NEW l \in Nat, l # l0, Reached(tract, S, l) PROVE Reached(u, S, l)
  BY <1>2, <1>3, HurtReach
<1> QED
  BY <1>1, <1>3

\* The blocks `todo` of the leaf of key k are still to be zeroed.
Erasing(t, S, T, k, todo, hm, hh) ==
    /\ k \in Keys /\ k \in hm
    /\ IsSeq(todo)
    /\ \A j \in 1 .. Len(todo) :
             /\ todo[j] \in 1 .. Len(t)
             /\ Reached(t, T, todo[j]) => k \in hh
    /\ \E q \in Along(k) :
             /\ todo = <<>> => KindIn(t, S[q]) = "zero"
             /\ todo # <<>> =>
                 /\ LeafIn(t, S[q]) /\ t[S[q]].key = k
                 /\ todo[Len(todo)] = S[q]
                 /\ \A j \in 1 .. (Len(todo) - 1) :
                       todo[j] \in ToSet(FurrowsIn(t, S[q]))
                 /\ \A l \in ToSet(FurrowsIn(t, S[q])) : SealedIn(t, l) =>
                       \E j \in 1 .. (Len(todo) - 1) : todo[j] = l

\* EraseInv in the next state, from its parts.
LEMMA ErasingIs ==
    ASSUME Erasing(tract', MemS', HeadS', work'.key, work'.todo, lost'.mem, lost'.head)
    PROVE  EraseInv'
  BY DEF Erasing, EraseInv

\* Zeroing one block in place keeps the invariant.
LEMMA ZeroDeleteStep ==
    ASSUME Inv, ZeroDelete
    PROVE  Inv'
<1> DEFINE k == work.key
           todo == work.todo
           l0 == Head(work.todo)
           b == Len(tract)
           u == tract'
           S == MemS
           n == Len(todo)
<1>0. /\ tract' = [tract EXCEPT ![l0] = Zero] /\ head' = head /\ mem' = mem /\ delta' = delta
      /\ live' = live /\ reap' = reap /\ pendingReap' = pendingReap /\ want' = want
      /\ saved' = saved /\ lost' = lost /\ stray' = stray /\ ops' = ops
      /\ pc = "erase" /\ pc' = "erase" /\ todo # <<>>
      /\ work' = [work EXCEPT !.todo = Tail(@)]
  BY DEF ZeroDelete, index, space, ghosts
<1>1. IsSeq(tract) /\ b \in Nat /\ WorkShape(work) /\ ~work.repair /\ work.settled
  BY <1>0, InvTrees DEF Basic, Inv, Unsettled
<1>2. WorkShape(work') /\ work'.settled /\ ~work'.repair /\ work'.todo = Tail(todo) /\ work'.key = k
  BY <1>0, <1>1 DEF WorkShape
<1>3. /\ k \in Keys /\ k \in lost.mem /\ IsSeq(todo)
      /\ \A j \in 1 .. n : /\ todo[j] \in 1 .. b
                           /\ Reached(tract, HeadS, todo[j]) => k \in lost.head
  BY <1>0 DEF Inv, EraseInv
<1>4. PICK q \in Along(k) :
         /\ LeafIn(tract, S[q]) /\ tract[S[q]].key = k
         /\ todo[n] = S[q]
         /\ \A j \in 1 .. (n - 1) : todo[j] \in ToSet(FurrowsIn(tract, S[q]))
         /\ \A l \in ToSet(FurrowsIn(tract, S[q])) : SealedIn(tract, l) =>
                       \E j \in 1 .. (n - 1) : todo[j] = l
  BY <1>0 DEF Inv, EraseInv
<1> HIDE DEF k, todo
<1>5. n \in Nat \ {0} /\ l0 = todo[1] /\ l0 \in 1 .. b /\ DOMAIN todo = 1 .. n
  <2>1. n \in Nat /\ n > 0 /\ DOMAIN todo = 1 .. n
    BY <1>0, <1>3, SeqFacts
  <2>2. todo \in Seq(ToSet(todo))
    BY <1>3 DEF IsSeq
  <2>3. l0 = todo[1]
    BY <1>0, <2>2, HeadTailProperties DEF todo
  <2> QED
    BY <1>3, <2>1, <2>3
<1>6. /\ IsSeq(Tail(todo)) /\ Len(Tail(todo)) = n - 1
      /\ \A j \in 1 .. (n - 1) : Tail(todo)[j] = todo[j + 1]
      /\ \A l : l \in ToSet(todo) <=> l = l0 \/ l \in ToSet(Tail(todo))
      /\ Tail(todo) = <<>> <=> n = 1
  <2>1. todo \in Seq(ToSet(todo))
    BY <1>3 DEF IsSeq
  <2>2. Tail(todo) \in Seq(ToSet(todo)) /\ Len(Tail(todo)) = n - 1
    BY <1>0, <2>1, HeadTailProperties
  <2>3. \A j \in 1 .. (n - 1) : Tail(todo)[j] = todo[j + 1]
    BY <1>0, <2>1, <2>2, <1>5
  <2>4. IsSeq(Tail(todo))
    BY <2>2, SeqIs
  <2>5. ToSet(Tail(todo)) = {Tail(todo)[j] : j \in 1 .. (n - 1)} /\ ToSet(todo) = {todo[j] : j \in 1 .. n}
    BY <1>3, <2>2, <2>4, SeqFacts
  <2>6. ASSUME NEW l \in ToSet(todo) PROVE l = l0 \/ l \in ToSet(Tail(todo))
    <3>1. PICK j \in 1 .. n : l = todo[j]
      BY <2>5
    <3>2. CASE j = 1
      BY <1>5, <3>1, <3>2
    <3>3. CASE j # 1
      <4>1. j - 1 \in 1 .. (n - 1) /\ (j - 1) + 1 = j
        BY <1>5, <3>3
      <4>2. Tail(todo)[j - 1] = l
        BY <2>3, <3>1, <4>1
      <4> QED
        BY <2>5, <4>1, <4>2
    <3> QED
      BY <3>2, <3>3
  <2>7. ASSUME NEW l, l = l0 \/ l \in ToSet(Tail(todo)) PROVE l \in ToSet(todo)
    <3>1. CASE l = l0
      BY <1>5, <2>5, <3>1
    <3>2. CASE l \in ToSet(Tail(todo))
      <4>1. PICK j \in 1 .. (n - 1) : l = Tail(todo)[j]
        BY <2>5, <3>2
      <4>2. j + 1 \in 1 .. n /\ l = todo[j + 1]
        BY <1>5, <2>3, <4>1
      <4> QED
        BY <2>5, <4>2
    <3> QED
      BY <2>7, <3>1, <3>2
  <2>8. Tail(todo) = <<>> <=> n = 1
    <3>1. Tail(todo) # <<>> <=> Len(Tail(todo)) > 0
      BY <2>4, SeqFacts
    <3> QED
      BY <1>5, <2>2, <3>1
  <2> QED
    BY <2>2, <2>3, <2>4, <2>6, <2>7, <2>8
<1> HIDE DEF l0, n, b
<1>7. q \in Paths /\ q \in Routes /\ Tree(tract, S, want, lost.mem, b) /\ Shape(tract, S, b)
      /\ LeafOK(tract, S[q], q, want, lost.mem, b)
  BY <1>3, <1>4, AlongFacts, InvTrees DEF Tree, Leaves, b
<1>8. \A l \in ToSet(FurrowsIn(tract, S[q])) :
            /\ KindIn(tract, l) \in {"furrow", "zero", "bad"}
            /\ KindIn(tract, l) = "furrow" => tract[l].key = k
  <2>1. ASSUME NEW l \in ToSet(FurrowsIn(tract, S[q]))
        PROVE  /\ KindIn(tract, l) \in {"furrow", "zero", "bad"}
               /\ KindIn(tract, l) = "furrow" => tract[l].key = k
    <3>1. PICK j \in 1 .. Len(FurrowsIn(tract, S[q])) : l = FurrowsIn(tract, S[q])[j]
      BY <1>7, SeqFacts DEF LeafOK
    <3> QED
      BY <1>4, <1>7, <3>1 DEF LeafOK, FurrowOK
  <2> QED
    BY <2>1
<1>9. \/ n = 1 /\ l0 = S[q]
      \/ n > 1 /\ l0 \in ToSet(FurrowsIn(tract, S[q])) /\ l0 # S[q]
  <2>1. CASE n = 1
    BY <1>4, <1>5, <2>1
  <2>2. CASE n # 1
    <3>1. 1 \in 1 .. (n - 1) /\ n > 1
      BY <1>5, <2>2
    <3>2. l0 \in ToSet(FurrowsIn(tract, S[q]))
      BY <1>4, <1>5, <3>1
    <3>3. l0 # S[q]
      BY <1>4, <1>8, <3>2 DEF LeafIn
    <3> QED
      BY <3>1, <3>2, <3>3
  <2> QED
    BY <2>1, <2>2
<1>10. /\ KindIn(tract, l0) # "node" /\ Holds(tract, S[q], l0)
       /\ KindIn(tract, l0) \in {"furrow", "lone", "extent", "zero", "bad"}
       /\ \A l \in ToSet(FurrowsIn(tract, l0)) : ~SealedIn(tract, l)
       /\ SealedIn(tract, l0) => tract[l0].key = k
  <2>1. SealedIn(tract, S[q])
    BY <1>4 DEF LeafIn, SealedIn
  <2>2. CASE n = 1 /\ l0 = S[q]
    <3>1. \A j : j \notin 1 .. (n - 1)
      BY <2>2
    <3>2. \A l \in ToSet(FurrowsIn(tract, l0)) : ~SealedIn(tract, l)
      BY <1>4, <2>2, <3>1
    <3> QED
      BY <1>4, <2>1, <2>2, <3>2 DEF Holds, LeafIn
  <2>3. CASE n > 1 /\ l0 \in ToSet(FurrowsIn(tract, S[q])) /\ l0 # S[q]
    <3>1. KindIn(tract, l0) \in {"furrow", "zero", "bad"} /\ (KindIn(tract, l0) = "furrow" => tract[l0].key = k)
      BY <1>8, <2>3
    <3>2. FurrowsIn(tract, l0) = <<>>
      BY <3>1 DEF FurrowsIn
    <3>3. ToSet(<<>>) = {}
      BY DEF ToSet
    <3> QED
      BY <2>1, <2>3, <3>1, <3>2, <3>3 DEF Holds, SealedIn
  <2> QED
    BY <1>9, <2>2, <2>3
<1>11. /\ \A l \in 1 .. b : l # l0 => u[l] = tract[l]
       /\ u[l0] = Zero /\ IsSeq(u) /\ Len(u) = b
  <2>1. DOMAIN tract = 1 .. b
    BY <1>1, SeqFacts DEF b
  <2>2. u = [l \in 1 .. b |-> IF l = l0 THEN Zero ELSE tract[l]]
    BY <1>0, <2>1 DEF l0
  <2>3. u = [l \in 1 .. b |-> u[l]]
    BY <2>2
  <2>4. IsSeq(u) /\ Len(u) = b
    BY <1>1, <2>3, SeqOfFcn
  <2> QED
    BY <1>5, <2>2, <2>4
<1>12. KindIn(u, l0) = "zero" /\ l0 \in Nat \ {0} /\ l0 # Nil /\ l0 # Dirty
  <2>1. l0 \in Nat \ {0} /\ l0 # Nil /\ l0 # Dirty
    BY <1>1, <1>5 DEF Nil, Dirty
  <2> QED
    BY <1>11, <2>1 DEF KindIn, Zero
<1>13. HurtBy(tract, u, mem, S, want, lost.mem, b, l0, lost.mem)
  <2>1. S = Slots(tract, mem) /\ b \in Nat /\ <<>> \in DOMAIN mem
        /\ \A p \in DOMAIN mem : \A r \in Above(p) : S[r] = Dirty
    <3>1. Arena(mem, S) /\ \A p \in DOMAIN mem : S[p] = mem[p]
      BY InvTrees, MemFacts DEF Trees
    <3> QED
      BY <1>1, <3>1 DEF Arena, MemS
  <2>2. ASSUME NEW r \in Paths, LeafIn(tract, S[r]), Holds(tract, S[r], l0)
        PROVE  tract[S[r]].key \in lost.mem
    <3>1. CASE SealedIn(tract, l0)
      <4> DEFINE h == lost.mem
      <4>1. Leaves(tract, S, want, h, b) /\ Shape(tract, S, b) /\ b \in Nat
        BY <1>7, <2>1 DEF Tree
      <4> HIDE DEF h, S
      <4>2. r = q
        BY <1>7, <1>10, <1>12, <2>2, <3>1, <4>1, OwnerUnique
      <4> QED
        BY <1>3, <1>4, <4>2
    <3>2. CASE ~SealedIn(tract, l0)
      <4>1. l0 \in ToSet(FurrowsIn(tract, S[r]))
        BY <2>2, <3>2 DEF Holds
      <4>2. LeafOK(tract, S[r], r, want, lost.mem, b)
        BY <1>7, <2>2 DEF Tree, Leaves
      <4>3. PICK j \in 1 .. Len(FurrowsIn(tract, S[r])) : l0 = FurrowsIn(tract, S[r])[j]
        BY <4>1, <4>2, SeqFacts DEF LeafOK
      <4> QED
        BY <3>2, <4>2, <4>3 DEF LeafOK, SealedIn
    <3> QED
      BY <3>1, <3>2
  <2> QED
    BY <1>7, <1>10, <1>11, <1>12, <2>1, <2>2 DEF HurtBy
<1>14. HurtBy(tract, u, FromRoot(head.root), HeadS, saved, lost.head, head.plow, l0, lost.head)
  <2>1. HeadS = Slots(tract, FromRoot(head.root)) /\ head.plow \in Nat /\ head.plow <= b
        /\ Tree(tract, HeadS, saved, lost.head, head.plow)
    BY InvTrees DEF b
  <2>2. <<>> \in DOMAIN FromRoot(head.root) /\ \A p \in DOMAIN FromRoot(head.root) : Above(p) = {}
    BY RootIs
  <2>3. \A l \in 1 .. head.plow : l # l0 => u[l] = tract[l]
    BY <1>1, <1>11, <2>1
  <2>4. ASSUME NEW r \in Paths, LeafIn(tract, HeadS[r]), Holds(tract, HeadS[r], l0)
        PROVE  tract[HeadS[r]].key \in lost.head
    <3>1. LeafOK(tract, HeadS[r], r, saved, lost.head, head.plow)
      BY <2>1, <2>4 DEF Tree, Leaves
    <3>2. l0 # HeadS[r] => \E j \in 1 .. Len(FurrowsIn(tract, HeadS[r])) : l0 = FurrowsIn(tract, HeadS[r])[j]
      BY <2>4, <3>1, SeqFacts DEF LeafOK, Holds
    <3>3. CASE SealedIn(tract, l0)
      <4>1. Reached(tract, HeadS, l0)
        BY <2>4, <3>3 DEF Reached
      <4>2. k \in lost.head
        BY <1>3, <1>5, <4>1
      <4>3. tract[HeadS[r]].key = tract[l0].key
        BY <3>1, <3>2, <3>3 DEF LeafOK, FurrowOK, SealedIn
      <4> QED
        BY <1>10, <3>3, <4>2, <4>3
    <3>4. CASE ~SealedIn(tract, l0)
      <4>1. l0 # HeadS[r]
        BY <2>4, <3>4 DEF LeafIn, SealedIn
      <4> QED
        BY <3>1, <3>2, <3>4, <4>1 DEF LeafOK, SealedIn
    <3> QED
      BY <3>3, <3>4
  <2> QED
    BY <1>10, <1>12, <2>1, <2>2, <2>3, <2>4 DEF HurtBy
<1>15. /\ Slots(u, mem) = S /\ Tree(u, S, want, lost.mem, b)
       /\ \A l \in Nat : Reached(u, S, l) <=> Reached(tract, S, l) /\ l # l0
  <2> DEFINE h == lost.mem
  <2>1. HurtBy(tract, u, mem, S, want, h, b, l0, h)
    BY <1>13
  <2> HIDE DEF h, S, u
  <2>2. /\ Slots(u, mem) = S /\ Tree(u, S, want, h, b)
        /\ \A l \in Nat : Reached(u, S, l) <=> Reached(tract, S, l) /\ l # l0
    BY <1>10, <2>1, ZeroUnder
  <2> QED
    BY <2>2 DEF h
<1>16. /\ Slots(u, FromRoot(head.root)) = HeadS /\ Tree(u, HeadS, saved, lost.head, head.plow)
       /\ \A l \in Nat : Reached(u, HeadS, l) <=> Reached(tract, HeadS, l) /\ l # l0
  <2> DEFINE h == lost.head
             m == FromRoot(head.root)
             p == head.plow
             T == HeadS
  <2>1. HurtBy(tract, u, m, T, saved, h, p, l0, h)
    BY <1>14
  <2> HIDE DEF h, m, p, T, u
  <2>2. /\ Slots(u, m) = T /\ Tree(u, T, saved, h, p)
        /\ \A l \in Nat : Reached(u, T, l) <=> Reached(tract, T, l) /\ l # l0
    BY <1>10, <2>1, ZeroUnder
  <2> QED
    BY <2>2 DEF h, m, p, T
<1>17. MemS' = S /\ HeadS' = HeadS
  BY <1>0, <1>15, <1>16 DEF MemS, HeadS
<1>18. Trees'
  BY <1>0, <1>11, <1>15, <1>16, <1>17 DEF Inv, Trees
<1>19. Basic'
  BY <1>0, <1>2, <1>11 DEF Inv, Basic, b
<1>20. Unsettled' /\ ReapInv' /\ WalkInv'
  BY <1>0, <1>2 DEF Unsettled, ReapInv, WalkInv
<1>21. \A l \in Nat : l \in 1 .. b => (SealedIn(u, l) <=> SealedIn(tract, l) /\ l # l0)
  <2>1. ASSUME NEW l \in 1 .. b, l # l0 PROVE SealedIn(u, l) <=> SealedIn(tract, l)
    <3>1. u[l] = tract[l] /\ l \in Int /\ l >= -1
      BY <1>11, <2>1
    <3> QED
      BY <3>1, SameBlock
  <2> QED
    BY <1>12, <2>1 DEF SealedIn
<1>22. /\ LiveSetApply \subseteq 1 .. b /\ live \subseteq 1 .. b /\ LiveSetApply' = LiveSetApply
       /\ \A x \in 1 .. b : x \in Nat
  BY <1>0, <1>1 DEF LiveSetApply, Inv, Basic, b
<1>23. \A l : l \in Pending <=> l = l0 \/ l \in Pending'
  BY <1>0, <1>2, <1>6 DEF Pending, todo
<1>24. /\ \A l \in Nat : (l \in LiveSetApply /\ SealedIn(tract, l)) <=> (Reached(tract, S, l) /\ l \notin Pending)
       /\ \A l \in Nat : (l \in live /\ SealedIn(tract, l)) <=> Reached(tract, HeadS, l)
  BY <1>1 DEF Inv, LiveInv, LiveOK
<1>25. LiveInv'
  <2>1. \A l \in Nat : (l \in LiveSetApply /\ SealedIn(u, l)) <=> (Reached(u, S, l) /\ l \notin Pending')
    BY <1>15, <1>21, <1>22, <1>23, <1>24
  <2>2. \A l \in Nat : (l \in live /\ SealedIn(u, l)) <=> Reached(u, HeadS, l)
    BY <1>16, <1>21, <1>22, <1>24
  <2> QED
    BY <1>17, <1>22, <1>0, <2>1, <2>2 DEF LiveInv, LiveOK
<1>26. RetiredInv'
  BY <1>0, <1>1, <1>2, <1>15, <1>16, <1>17 DEF Inv, RetiredInv, Past
<1>27. Reached(tract, HeadS, l0) => k \in lost.head
  BY <1>3, <1>5
<1>28. CountInv'
  <2>1. ~lost.past => \A l \in LiveSetApply : SealedIn(u, l)
    <3>1. ASSUME ~lost.past, NEW l \in LiveSetApply PROVE SealedIn(u, l)
      <4>1. SealedIn(tract, l) /\ l \in 1 .. b /\ l \in Nat
        BY <1>1, <1>22, <3>1 DEF Inv, CountInv
      <4>2. l \notin Pending
        BY <1>24, <3>1, <4>1
      <4> QED
        BY <1>21, <1>23, <4>1, <4>2
    <3> QED
      BY <3>1
  <2>2. ~lost.past /\ lost.head = {} => \A l \in live : SealedIn(u, l)
    <3>1. ASSUME ~lost.past, lost.head = {}, NEW l \in live PROVE SealedIn(u, l)
      <4>1. SealedIn(tract, l) /\ l \in 1 .. b /\ l \in Nat
        BY <1>1, <1>22, <3>1 DEF Inv, CountInv
      <4>2. Reached(tract, HeadS, l)
        BY <1>24, <3>1, <4>1
      <4>3. l # l0
        BY <1>27, <3>1, <4>2
      <4> QED
        BY <1>21, <4>1, <4>3
    <3> QED
      BY <3>1
  <2>3. lost.head = {} => {l \in 1 .. head.plow : Reached(u, HeadS, l)}
                            = {l \in 1 .. head.plow : Reached(tract, HeadS, l)}
    <3>1. lost.head = {} => \A l \in Nat : Reached(u, HeadS, l) <=> Reached(tract, HeadS, l)
      BY <1>16, <1>27
    <3>2. \A l \in 1 .. head.plow : l \in Nat
      BY InvTrees
    <3> QED
      BY <3>1, <3>2
  <2>4. ~lost.past /\ lost.head = {} =>
          head.live = Cardinality({l \in 1 .. head.plow : Reached(tract, HeadS, l)})
    BY DEF Inv, CountInv
  <2> QED
    BY <1>0, <1>2, <1>17, <1>22, <2>1, <2>2, <2>3, <2>4 DEF CountInv
<1>29. EraseInv'
  <2> DEFINE rest == Tail(todo)
             F == FurrowsIn(tract, S[q])
  <2>1. ASSUME NEW j \in 1 .. (n - 1)
        PROVE  rest[j] \in 1 .. b /\ (Reached(u, HeadS, rest[j]) => k \in lost.head)
    <3>1. j + 1 \in 1 .. n /\ rest[j] = todo[j + 1]
      BY <1>5, <1>6
    <3>2. rest[j] \in 1 .. b /\ (Reached(tract, HeadS, rest[j]) => k \in lost.head) /\ rest[j] \in Nat
      BY <1>1, <1>3, <3>1 DEF n, b
    <3> QED
      BY <1>16, <3>2
  <2>2. CASE n = 1
    <3>1. rest = <<>> /\ KindIn(u, S[q]) = "zero"
      BY <1>6, <1>9, <1>12, <2>2
    <3> QED
      BY <1>0, <1>2, <1>3, <1>6, <1>11, <1>17, <2>1, <3>1 DEF EraseInv
  <2>3. CASE n # 1
    <3>1. rest # <<>> /\ n > 1 /\ l0 # S[q]
      BY <1>5, <1>6, <1>9, <2>3
    <3>2. S[q] \in 1 .. b
      <4>1. S[q] \in -1 .. b
        BY <1>7 DEF Shape
      <4>2. S[q] # Nil /\ S[q] # Dirty
        BY <1>4, KindNil
      <4> QED
        BY <1>1, <4>1, <4>2 DEF Nil, Dirty
    <3>3. u[S[q]] = tract[S[q]] /\ S[q] \in Int /\ S[q] >= -1
      BY <1>1, <1>11, <3>1, <3>2
    <3>4. LeafIn(u, S[q]) /\ u[S[q]].key = k /\ FurrowsIn(u, S[q]) = F
      BY <1>4, <3>3, SameBlock
    <3>5. rest[n - 1] = S[q] /\ Len(rest) = n - 1 /\ Len(rest) - 1 = n - 2
      BY <1>4, <1>5, <1>6, <3>1
    <3>6. \A j \in 1 .. (n - 2) : rest[j] \in ToSet(F)
      <4>1. \A j \in 1 .. (n - 2) : j + 1 \in 1 .. (n - 1) /\ j \in 1 .. (n - 1)
        BY <1>5, <3>1
      <4> QED
        BY <1>4, <1>6, <4>1
    <3>7. ASSUME NEW l \in ToSet(F), SealedIn(u, l)
          PROVE  \E j \in 1 .. (n - 2) : rest[j] = l
      <4>1. l \in 1 .. b
        BY <1>7, SeqFacts DEF LeafOK
      <4>2. SealedIn(tract, l) /\ l # l0
        BY <1>1, <1>21, <3>7, <4>1
      <4>3. PICK j \in 1 .. (n - 1) : todo[j] = l
        BY <1>4, <4>2
      <4>4. j # 1
        BY <1>5, <4>2, <4>3
      <4>5. j - 1 \in 1 .. (n - 2) /\ j - 1 \in 1 .. (n - 1) /\ (j - 1) + 1 = j
        BY <1>5, <4>4
      <4>6. rest[j - 1] = l
        BY <1>6, <4>3, <4>5
      <4> QED
        BY <4>5, <4>6
    <3>8. \E r \in Along(k) :
             /\ LeafIn(u, S[r]) /\ u[S[r]].key = k
             /\ rest[Len(rest)] = S[r]
             /\ \A j \in 1 .. (Len(rest) - 1) : rest[j] \in ToSet(FurrowsIn(u, S[r]))
             /\ \A l \in ToSet(FurrowsIn(u, S[r])) : SealedIn(u, l) =>
                       \E j \in 1 .. (Len(rest) - 1) : rest[j] = l
      BY <3>4, <3>5, <3>6, <3>7
    <3>9. IsSeq(rest)
      BY <1>6
    <3> HIDE DEF rest
    <3>10. work'.todo = rest
      BY <1>2 DEF rest
    <3>11. \A j \in 1 .. Len(rest) : /\ rest[j] \in 1 .. Len(u)
                                     /\ Reached(u, HeadS, rest[j]) => k \in lost.head
      BY <1>11, <2>1, <3>5
    <3>12. Erasing(u, S, HeadS, k, rest, lost.mem, lost.head)
      <4>1. \E r \in Along(k) :
             /\ rest = <<>> => KindIn(u, S[r]) = "zero"
             /\ rest # <<>> =>
                 /\ LeafIn(u, S[r]) /\ u[S[r]].key = k
                 /\ rest[Len(rest)] = S[r]
                 /\ \A j \in 1 .. (Len(rest) - 1) :
                       rest[j] \in ToSet(FurrowsIn(u, S[r]))
                 /\ \A l \in ToSet(FurrowsIn(u, S[r])) : SealedIn(u, l) =>
                       \E j \in 1 .. (Len(rest) - 1) : rest[j] = l
        BY <3>1, <3>8
      <4> HIDE DEF u, S
      <4> QED
        BY <1>3, <3>9, <3>11, <4>1 DEF Erasing
    <3>13. Erasing(tract', MemS', HeadS', work'.key, work'.todo, lost'.mem, lost'.head)
      BY <1>0, <1>2, <1>17, <3>10, <3>12
    <3> QED
      BY <3>13, ErasingIs
  <2> QED
    BY <2>2, <2>3
<1> QED
  BY <1>18, <1>19, <1>20, <1>25, <1>26, <1>28, <1>29 DEF Inv

\* The session back on the committed head.
LEMMA HeadTaken ==
    ASSUME Inv, IsSeq(tract'), head.plow <= Len(tract'),
           \A l \in 1 .. head.plow : tract'[l] = tract[l],
           head' = head, mem' = FromRoot(head.root), saved' = saved, want' = saved,
           lost' = BackToHead
    PROVE  /\ Trees' /\ MemS' = HeadS /\ HeadS' = HeadS
           /\ \A l \in Nat : Reached(tract', HeadS, l) <=> Reached(tract, HeadS, l)
           /\ \A l \in Nat : Reached(tract, HeadS, l) => l \in 1 .. head.plow
           /\ Tree(tract', HeadS, saved, lost.head, Len(tract'))
           /\ lost'.mem = lost.head /\ lost'.head = lost.head
           /\ (lost'.past <=> (lost.past \/ lost.head # {}))
           /\ lost' = [mem |-> lost'.mem, head |-> lost'.head, past |-> lost'.past]
<1>0. Basic /\ Trees /\ head.plow \in Nat /\ Len(tract') \in Nat
  BY InvTrees, SeqFacts
<1> DEFINE u == tract'
           c == head.root
           b == head.plow
           b2 == Len(tract')
           h == lost.head
<1>1. /\ Slots(u, FromRoot(c)) = HeadS
      /\ Tree(u, HeadS, saved, lost.head, head.plow)
      /\ \A l \in Nat : Reached(u, HeadS, l) <=> Reached(tract, HeadS, l)
      /\ \A l \in Nat : Reached(tract, HeadS, l) => l \in 1 .. head.plow
  BY <1>0, HeadStays
<1>2. \A q \in Routes : HeadS[q] # Dirty
  BY <1>0 DEF Trees
<1>3. b \in Nat /\ b2 \in Nat /\ b <= b2 /\ Tree(u, HeadS, saved, h, b)
  BY <1>0, <1>1
<1>4. /\ lost'.mem = h /\ lost'.head = h /\ (lost'.past <=> (lost.past \/ h # {}))
      /\ lost' = [mem |-> lost'.mem, head |-> lost'.head, past |-> lost'.past]
  BY <1>0 DEF BackToHead, Basic
<1> HIDE DEF b, b2, h, u, c
<1>5. Tree(u, HeadS, saved, h, b2)
  BY <1>3, TreeWiden
<1>6. Arena(FromRoot(c), HeadS)
  BY <1>1, <1>2, ArenaRoot
<1>7. MemS' = HeadS /\ HeadS' = HeadS
  BY <1>1 DEF MemS, HeadS, u, c
<1>8. Trees'
  BY <1>2, <1>3, <1>4, <1>5, <1>6, <1>7 DEF Trees, u, c, b, b2, h
<1> QED
  BY <1>1, <1>4, <1>5, <1>7, <1>8 DEF u, b, b2, h

\* A rollback to the head keeps the invariant.
LEMMA RollbackStep ==
    ASSUME Inv, Rollback
    PROVE  Inv'
<1>0. /\ tract' = tract /\ head' = head /\ mem' = FromRoot(head.root) /\ live' = live
      /\ reap' = reap /\ pendingReap' = 0 /\ want' = saved /\ delta' = NoDelta
      /\ saved' = saved /\ lost' = BackToHead /\ stray' = stray /\ ops' = ops
      /\ pc = "idle" /\ pc' = pc /\ work' = work /\ work.settled
  BY DEF Rollback, Idle
<1>1. /\ Basic /\ IsSeq(tract) /\ Len(tract) \in Nat /\ head.plow <= Len(tract) /\ ~work.repair
      /\ Tree(tract, HeadS, saved, lost.head, head.plow) /\ head.plow \in Nat
  BY <1>0, InvTrees DEF Inv, Basic, Unsettled
<1>2. /\ Trees' /\ MemS' = HeadS /\ HeadS' = HeadS
      /\ lost'.mem = lost.head /\ lost'.head = lost.head
      /\ (lost'.past <=> (lost.past \/ lost.head # {}))
      /\ lost' = [mem |-> lost'.mem, head |-> lost'.head, past |-> lost'.past]
  <2>1. IsSeq(tract') /\ head.plow <= Len(tract') /\ \A l \in 1 .. head.plow : tract'[l] = tract[l]
    BY <1>0, <1>1
  <2> QED
    BY <1>0, <2>1, HeadTaken
<1>3. delta'.added = {} /\ delta'.removed = {} /\ LiveSetApply' = live /\ Pending' = {}
      /\ delta' = [added |-> delta'.added, removed |-> delta'.removed]
  BY <1>0 DEF NoDelta, LiveSetApply, Pending
<1>4. Basic'
  BY <1>0, <1>1, <1>2, <1>3 DEF Basic
<1>5. Unsettled' /\ EraseInv' /\ WalkInv' /\ ReapInv'
  BY <1>0, <1>1 DEF Unsettled, EraseInv, WalkInv, ReapInv
<1>6. LiveInv'
  BY <1>0, <1>1, <1>2, <1>3 DEF Inv, LiveInv
<1>7. RetiredInv'
  <2>1. Past(tract, HeadS, 0, stray)
    BY <1>1, PastZero
  <2> QED
    BY <1>0, <1>1, <1>2, <2>1 DEF Inv, RetiredInv
<1>8. CountInv'
  BY <1>0, <1>1, <1>2, <1>3 DEF Inv, CountInv
<1> QED
  BY <1>2, <1>4, <1>5, <1>6, <1>7, <1>8 DEF Inv

\* A grow, and the walk of its barrier, keeps the invariant (Vault::grow).
LEMMA GrowStep ==
    ASSUME Inv, Grow
    PROVE  Inv'
<1> DEFINE W == Walked(FromRoot(head.root))
<1>0. /\ tract' = tract /\ head' = head /\ mem' = FromRoot(head.root) /\ live' = W
      /\ reap' = 0 /\ pendingReap' = 0 /\ want' = saved /\ delta' = NoDelta
      /\ saved' = saved /\ lost' = BackToHead /\ stray' = {} /\ ops' = ops + 1 /\ ops < MaxOps
      /\ pc = "idle" /\ pc' = "flush" /\ work' = work /\ work.settled
  BY DEF Grow, Idle, Op
<1>1. /\ Basic /\ IsSeq(tract) /\ Len(tract) \in Nat /\ head.plow <= Len(tract) /\ ~work.repair
      /\ Tree(tract, HeadS, saved, lost.head, head.plow) /\ head.plow \in Nat
      /\ HeadS = Slots(tract, FromRoot(head.root)) /\ \A q \in Routes : HeadS[q] # Dirty
  BY <1>0, InvTrees DEF Inv, Basic, Unsettled, Trees
<1>2. /\ Trees' /\ MemS' = HeadS /\ HeadS' = HeadS
      /\ lost'.mem = lost.head /\ lost'.head = lost.head
      /\ (lost'.past <=> (lost.past \/ lost.head # {}))
      /\ lost' = [mem |-> lost'.mem, head |-> lost'.head, past |-> lost'.past]
  <2>1. IsSeq(tract') /\ head.plow <= Len(tract') /\ \A l \in 1 .. head.plow : tract'[l] = tract[l]
    BY <1>0, <1>1
  <2> QED
    BY <1>0, <2>1, HeadTaken
<1>3. /\ \A l : l \in W <=> \E q \in Paths : HeadS[q] # Dirty /\ Holds(tract, HeadS[q], l)
      /\ W \subseteq 1 .. head.plow
  <2> DEFINE m == FromRoot(head.root)
             b == head.plow
             h == lost.head
  <2>1. b \in Nat /\ HeadS = Slots(tract, m) /\ Tree(tract, HeadS, saved, h, b)
    BY <1>1
  <2> HIDE DEF m, b, h
  <2>2. /\ \A l : l \in Walked(m) <=> \E q \in Paths : HeadS[q] # Dirty /\ Holds(tract, HeadS[q], l)
        /\ Walked(m) \subseteq 1 .. b
    BY <2>1, ReachIs, WalkedBelow
  <2> QED
    BY <2>2 DEF m, b
<1> HIDE DEF W
<1>4. \A l \in Nat : (l \in W /\ SealedIn(tract, l)) <=> Reached(tract, HeadS, l)
  BY <1>1, <1>3, PathFacts DEF Reached
<1>5. lost.head = {} => \A l \in W : SealedIn(tract, l)
  <2> SUFFICES ASSUME lost.head = {}, NEW l \in W PROVE SealedIn(tract, l)
    OBVIOUS
  <2>1. PICK q \in Paths : HeadS[q] # Dirty /\ Holds(tract, HeadS[q], l)
    BY <1>3
  <2>2. CASE l = HeadS[q]
    BY <2>1, <2>2 DEF Holds
  <2>3. CASE l # HeadS[q]
    <3>1. l \in ToSet(FurrowsIn(tract, HeadS[q])) /\ FurrowsIn(tract, HeadS[q]) # <<>>
      BY <2>1, <2>3 DEF Holds, ToSet
    <3>2. LeafIn(tract, HeadS[q])
      BY <3>1 DEF FurrowsIn, LeafIn
    <3> DEFINE S == HeadS
               b == head.plow
               h == lost.head
    <3>3. b \in Nat /\ Tree(tract, S, saved, h, b) /\ LeafIn(tract, S[q])
      BY <1>1, <3>2
    <3> HIDE DEF S, b, h
    <3>4. /\ tract[S[q]].key \notin h => FurrowsSound(S[q])
          /\ FurrowsSound(S[q]) => \A x \in ToSet(FurrowsIn(tract, S[q])) : SealedIn(tract, x)
      BY <3>3, LeafSound
    <3> QED
      BY <3>1, <3>4 DEF S, h
  <2> QED
    BY <2>2, <2>3
<1>6. /\ delta'.added = {} /\ delta'.removed = {} /\ LiveSetApply' = W /\ Pending' = {}
      /\ delta' = [added |-> delta'.added, removed |-> delta'.removed]
  BY <1>0 DEF NoDelta, LiveSetApply, Pending
<1>7. Basic'
  <2>1. W \subseteq 1 .. Len(tract) /\ 0 \in 0 .. Len(tract) /\ ops + 1 \in Nat /\ ops + 1 <= MaxOps
    BY <1>0, <1>1, <1>3, HamtAssumption DEF Basic
  <2> QED
    BY <1>0, <1>1, <1>2, <1>6, <2>1 DEF Basic
<1>8. Unsettled' /\ EraseInv' /\ WalkInv' /\ ReapInv'
  BY <1>0, <1>1 DEF Unsettled, EraseInv, WalkInv, ReapInv
<1>9. LiveInv'
  BY <1>0, <1>1, <1>2, <1>4, <1>6 DEF LiveInv, LiveOK
<1>10. RetiredInv'
  <2>1. Past(tract, HeadS, 0, {})
    BY <1>1, PastZero
  <2> QED
    BY <1>0, <1>1, <1>2, <2>1 DEF RetiredInv
<1>11. CountInv'
  BY <1>0, <1>1, <1>2, <1>5, <1>6 DEF Inv, CountInv
<1> QED
  BY <1>2, <1>7, <1>8, <1>9, <1>10, <1>11 DEF Inv

\* Power loss at any step keeps the invariant.
LEMMA CrashStep ==
    ASSUME Inv, Crash
    PROVE  Inv'
<1>0. /\ tract' = SubSeq(tract, 1, head.plow) /\ head' = head /\ mem' = FromRoot(head.root)
      /\ live' = {} /\ reap' = 0 /\ pendingReap' = 0 /\ want' = saved /\ delta' = NoDelta
      /\ saved' = saved /\ lost' = BackToHead /\ stray' = {} /\ ops' = ops
      /\ pc' = "down" /\ work' = NoWork
  BY DEF Crash
<1>1. /\ Basic /\ IsSeq(tract) /\ Len(tract) \in Nat /\ head.plow <= Len(tract)
      /\ head.plow \in Nat
  BY InvTrees DEF Basic
<1>2. IsSeq(tract') /\ Len(tract') = head.plow /\ \A l \in 1 .. head.plow : tract'[l] = tract[l]
  <2> DEFINE b == head.plow
             X == ToSet(tract)
  <2>1. tract \in Seq(X) /\ b \in 0 .. Len(tract)
    BY <1>1 DEF IsSeq
  <2> HIDE DEF b, X
  <2>2. Prefix(tract, b) \in Seq(X) /\ Len(Prefix(tract, b)) = b
           /\ \A i \in 1 .. b : Prefix(tract, b)[i] = tract[i]
    BY <2>1, PrefixIs
  <2>3. IsSeq(Prefix(tract, b))
    BY <2>2, SeqIs
  <2> QED
    BY <1>0, <2>2, <2>3 DEF b, Prefix
<1>3. /\ Trees' /\ MemS' = HeadS /\ HeadS' = HeadS
      /\ \A l \in Nat : Reached(tract', HeadS, l) <=> Reached(tract, HeadS, l)
      /\ lost'.mem = lost.head /\ lost'.head = lost.head
      /\ (lost'.past <=> (lost.past \/ lost.head # {}))
      /\ lost' = [mem |-> lost'.mem, head |-> lost'.head, past |-> lost'.past]
  <2>1. head.plow <= Len(tract')
    BY <1>1, <1>2
  <2> QED
    BY <1>0, <1>2, <2>1, HeadTaken
<1>4. /\ delta'.added = {} /\ delta'.removed = {}
      /\ delta' = [added |-> delta'.added, removed |-> delta'.removed]
      /\ WorkShape(work') /\ ~work'.settled /\ ~work'.repair /\ work'.out = {} /\ work'.stale = {}
  BY <1>0 DEF NoDelta, NoWork, WorkShape
<1>5. Basic'
  <2>1. head.plow \in 0 .. Len(tract') /\ 0 \in 0 .. Len(tract')
    BY <1>1, <1>2
  <2> QED
    BY <1>0, <1>1, <1>2, <1>3, <1>4, <2>1 DEF Basic
<1>6. Unsettled'
  <2>1. lost'.past \/ lost'.head = {}
    BY <1>3
  <2> QED
    BY <1>0, <1>3, <1>4, <2>1 DEF Unsettled
<1>7. EraseInv' /\ WalkInv' /\ ReapInv' /\ LiveInv' /\ RetiredInv'
  BY <1>0, <1>4 DEF EraseInv, WalkInv, ReapInv, LiveInv, RetiredInv
<1>8. CountInv'
  <2>1. {l \in 1 .. head.plow : Reached(tract', HeadS, l)} = {l \in 1 .. head.plow : Reached(tract, HeadS, l)}
    BY <1>1, <1>3
  <2> QED
    BY <1>0, <1>3, <1>4, <2>1 DEF Inv, CountInv
<1> QED
  BY <1>3, <1>5, <1>6, <1>7, <1>8 DEF Inv

\* A fresh vault satisfies the invariant.
LEMMA InitInv ==
    ASSUME Init
    PROVE  Inv
<1>0. /\ tract = <<>> /\ head.root = Nil /\ head.plow = 0 /\ head.live = 0
      /\ head = [root |-> head.root, plow |-> head.plow, live |-> head.live]
      /\ mem = FromRoot(Nil) /\ delta.added = {} /\ delta.removed = {}
      /\ delta = [added |-> delta.added, removed |-> delta.removed]
      /\ live = {} /\ reap = 0 /\ pendingReap = 0 /\ pc = "idle"
      /\ WorkShape(work) /\ work.settled /\ ~work.repair
      /\ want = [k \in Keys |-> Absent] /\ saved = want
      /\ lost = [mem |-> lost.mem, head |-> lost.head, past |-> lost.past]
      /\ lost.mem = {} /\ lost.head = {} /\ stray = {} /\ ops = 0
  BY DEF Init, NoDelta, NoWork, WorkShape
<1>1. IsSeq(tract) /\ Len(tract) = 0
  BY <1>0 DEF IsSeq
<1> DEFINE S == Slots(tract, FromRoot(Nil))
           Z == [q \in Routes |-> Nil]
<1>2. S = Z
  <2> DEFINE m == FromRoot(Nil)
  <2>1. DOMAIN m = {<<>>} /\ m[<<>>] = Nil
    BY RootIs
  <2> HIDE DEF m
  <2>2. Z = [q \in Routes |-> Z[q]]
    OBVIOUS
  <2>3. ASSUME NEW q \in Routes PROVE Z[q] = SlotStep(tract, m, Z, q)
    <3>1. CASE q = <<>>
      BY <2>1, <3>1 DEF SlotStep
    <3>2. CASE q # <<>>
      <4>1. Front(q) \in Routes
        BY <3>2, RouteFront, PathFacts
      <4>2. KidIn(tract, Nil, Last(q)) = Nil
        BY DEF KidIn, Nil
      <4> QED
        BY <2>1, <3>2, <4>1, <4>2 DEF SlotStep
    <3> QED
      BY <3>1, <3>2
  <2> HIDE DEF Z
  <2>4. Slots(tract, m) = Z
    BY <2>2, <2>3, SlotsUnique
  <2> QED
    BY <2>4 DEF m
<1>3. MemS = S /\ HeadS = S /\ \A q \in Routes : S[q] = Nil
  BY <1>0, <1>2 DEF MemS, HeadS
<1>4. \A q \in Paths : S[q] = Nil
  BY <1>3, PathFacts
<1>5. /\ KindIn(tract, Nil) = "none" /\ ~LeafIn(tract, Nil) /\ ~SealedIn(tract, Nil)
      /\ Nil = 0 /\ Dirty = -1
  BY KindNil
<1>6. Arena(FromRoot(Nil), S)
  BY <1>3, <1>5, ArenaRoot
<1>7. ASSUME NEW v, v = [k \in Keys |-> Absent] PROVE Tree(tract, S, v, {}, 0)
  <2>1. S \in [Routes -> -1 .. 0]
    BY <1>2, <1>5
  <2>2. Shape(tract, S, 0)
    BY <1>3, <2>1 DEF Shape
  <2>3. Leaves(tract, S, v, {}, 0)
    BY <1>4, <1>5 DEF Leaves
  <2>4. \A k \in Keys : \A q \in Along(k) : KindIn(tract, S[q]) # "bad"
    BY <1>3, <1>5, AlongFacts
  <2>5. Kept(tract, S, v, {})
    BY <1>7, <2>4 DEF Kept
  <2> QED
    BY <2>2, <2>3, <2>5 DEF Tree
<1> HIDE DEF S
<1>8. Trees
  <2>1. Tree(tract, S, want, {}, 0)
    BY <1>0, <1>7
  <2> QED
    BY <1>0, <1>1, <1>3, <1>5, <1>6, <2>1 DEF Trees
<1>9. \A l : ~Reached(tract, S, l)
  BY <1>4, <1>5 DEF Reached, Holds
<1>10. LiveSetApply = {} /\ Pending = {}
  BY <1>0 DEF LiveSetApply, Pending
<1>11. Basic
  BY <1>0, <1>1, <1>5, HamtAssumption DEF Basic
<1>12. Unsettled /\ EraseInv /\ ReapInv /\ WalkInv
  BY <1>0 DEF Unsettled, EraseInv, ReapInv, WalkInv
<1>13. LiveInv /\ RetiredInv
  BY <1>0, <1>3, <1>9, <1>10 DEF LiveInv, LiveOK, RetiredInv, Past
<1>14. CountInv
  <2>1. {l \in 1 .. head.plow : Reached(tract, S, l)} = {}
    BY <1>9
  <2>2. Cardinality({}) = 0
    BY FS_EmptySet
  <2> QED
    BY <1>0, <1>3, <1>10, <2>1, <2>2 DEF CountInv
<1> QED
  BY <1>8, <1>11, <1>12, <1>13, <1>14 DEF Inv

\* Writing the first clean node of the arena keeps the invariant.
LEMMA FlushNodeStep ==
    ASSUME Inv, FlushNode
    PROVE  Inv'
<1> DEFINE q == FirstClean
           node == Node(q, [c \in Chunks |-> mem[Append(q, c)]])
           b == Len(tract)
           u == Append(tract, node)
           m2 == [p \in DOMAIN mem \ {Append(q, c) : c \in Chunks} |->
                            IF p = q THEN b + 1 ELSE mem[p]]
           T == [MemS EXCEPT ![q] = b + 1]
           h == lost.mem
<1>0. /\ tract' = u /\ head' = head /\ mem' = m2 /\ live' = live
      /\ delta' = [delta EXCEPT !.added = @ \cup {b + 1}]
      /\ reap' = reap /\ pendingReap' = pendingReap /\ want' = want
      /\ saved' = saved /\ lost' = lost /\ stray' = stray /\ ops' = ops
      /\ pc = "flush" /\ pc' = pc /\ work' = work /\ mem[<<>>] = Dirty
  BY DEF FlushNode, Plow, space, ghosts, Root
<1>1. /\ Basic /\ Trees /\ IsSeq(tract) /\ b \in Nat /\ head.plow \in Nat /\ head.plow <= b
      /\ MemS = Slots(tract, mem) /\ Arena(mem, MemS) /\ Tree(tract, MemS, want, h, b)
      /\ work.settled
  BY <1>0, InvTrees DEF Inv, Basic, Unsettled, Trees
<1>2. \A p \in DOMAIN mem : mem[p] = Dirty => p \in Paths
  BY <1>1, MemFacts
<1>3. q \in DOMAIN mem /\ q \in Paths /\ mem[q] = Dirty /\ DirtySlots(q) = {}
  BY <1>0, <1>1, <1>2, FirstCleanIs
<1>4. /\ IsSeq(u) /\ Len(u) = b + 1 /\ (\A l \in 1 .. b : u[l] = tract[l]) /\ u[b + 1] = node
  BY <1>1, SeqAppend
<1>5. u[b + 1] = Node(q, [c \in Chunks |-> mem[Append(q, c)]])
  BY <1>4
<1>20. m2 = [p \in DOMAIN mem \ {Append(q, c) : c \in Chunks} |->
                            IF p = q THEN b + 1 ELSE mem[p]]
  OBVIOUS
<1> HIDE DEF q, b, u, m2, h
<1>6. /\ Slots(u, m2) = [MemS EXCEPT ![q] = b + 1]
      /\ Arena(m2, [MemS EXCEPT ![q] = b + 1])
      /\ Tree(u, [MemS EXCEPT ![q] = b + 1], want, h, b + 1)
      /\ \A l \in 1 .. (b + 1) :
                 Reached(u, [MemS EXCEPT ![q] = b + 1], l) <=> (l = b + 1 \/ Reached(tract, MemS, l))
  <2>1. Flushed(MemS, want, h, b, q, u, m2)
    BY <1>1, <1>3, <1>4, <1>5, <1>20 DEF Flushed
  <2> QED
    BY <2>1, FlushedTree
<1>7. MemS' = T
  BY <1>0, <1>6 DEF MemS
<1> HIDE DEF T, node
<1>8. /\ Slots(u, m2) = T /\ Arena(m2, T) /\ Tree(u, T, want, h, b + 1)
      /\ \A l \in 1 .. (b + 1) : Reached(u, T, l) <=> (l = b + 1 \/ Reached(tract, MemS, l))
  BY <1>6 DEF T
<1>9. \A l \in Nat : Reached(u, T, l) <=> (l = b + 1 \/ Reached(tract, MemS, l))
  <2>1. b + 1 \in Nat /\ b + 1 \in 1 .. (b + 1)
    BY <1>1
  <2>2. \A l \in Nat : Reached(u, T, l) => l \in 1 .. (b + 1)
    BY <1>8, <2>1, ReachedBelow
  <2>3. \A l \in Nat : Reached(tract, MemS, l) => l \in 1 .. b
    BY <1>1, ReachedBelow
  <2>4. \A l \in 1 .. b : l \in 1 .. (b + 1)
    BY <1>1
  <2> QED
    BY <1>8, <2>1, <2>2, <2>3, <2>4
<1>10. SealedIn(u, b + 1)
  <2>1. b + 1 \in Nat
    BY <1>1
  <2> QED
    BY <1>9, <2>1 DEF Reached
<1>11. \A l \in 1 .. head.plow : u[l] = tract[l]
  BY <1>1, <1>4
<1>12. /\ Slots(u, FromRoot(head.root)) = HeadS
       /\ Tree(u, HeadS, saved, lost.head, head.plow)
       /\ \A l \in Nat : Reached(u, HeadS, l) <=> Reached(tract, HeadS, l)
       /\ \A p \in Paths, l \in Nat : Holds(u, HeadS[p], l) <=> Holds(tract, HeadS[p], l)
       /\ \A l \in Nat : Reached(tract, HeadS, l) => l \in 1 .. head.plow
       /\ \A p \in Paths : /\ LeafIn(u, HeadS[p]) <=> LeafIn(tract, HeadS[p])
                           /\ LeafIn(u, HeadS[p]) => u[HeadS[p]] = tract[HeadS[p]]
  BY <1>1, <1>11, HeadStays
<1>13. HeadS' = HeadS
  BY <1>0, <1>12 DEF HeadS
<1>14. Trees'
  BY <1>0, <1>1, <1>4, <1>7, <1>8, <1>12, <1>13 DEF Trees, h
<1>15. /\ delta'.added = delta.added \cup {b + 1} /\ delta'.removed = delta.removed
       /\ delta' = [added |-> delta'.added, removed |-> delta'.removed]
  BY <1>0, <1>1 DEF Basic
<1>16. Basic'
  <2>1. /\ \A x \in 0 .. b : x \in 0 .. (b + 1)
        /\ \A x \in 1 .. b : x \in 1 .. (b + 1)
        /\ b + 1 \in 1 .. (b + 1)
    BY <1>1
  <2>2. delta'.added \subseteq 1 .. (b + 1) /\ delta'.removed \subseteq 1 .. (b + 1)
    BY <1>1, <1>15, <2>1 DEF Basic, b
  <2>3. live \subseteq 1 .. (b + 1) /\ reap \in 0 .. (b + 1) /\ pendingReap \in 0 .. (b + 1)
        /\ head.plow \in 0 .. (b + 1)
    BY <1>1, <2>1 DEF Basic, b
  <2> QED
    BY <1>0, <1>1, <1>4, <1>15, <2>2, <2>3 DEF Basic
<1>17. Unsettled' /\ EraseInv' /\ WalkInv' /\ ReapInv'
  BY <1>0, <1>1 DEF Inv, Unsettled, EraseInv, WalkInv, ReapInv
<1>18. /\ \A l \in 1 .. b : SealedIn(u, l) <=> SealedIn(tract, l)
       /\ LiveSetApply \subseteq 1 .. b /\ live \subseteq 1 .. b /\ b + 1 \notin 1 .. b
       /\ delta.removed \subseteq 1 .. b
  <2>1. Len(u) \in Nat /\ Len(tract) <= Len(u) /\ \A l \in 1 .. Len(tract) : u[l] = tract[l]
    BY <1>1, <1>4 DEF b
  <2>2. \A l \in 1 .. b : SealedIn(u, l) <=> SealedIn(tract, l)
    BY <1>1, <2>1, Grown DEF b
  <2>3. b + 1 \notin 1 .. b
    BY <1>1
  <2> QED
    BY <1>1, <2>2, <2>3 DEF Basic, LiveSetApply, b
<1>19. /\ \A l : l \in LiveSetApply' <=> l = b + 1 \/ l \in LiveSetApply
       /\ Pending' = {} /\ Pending = {}
  <2>1. \A l : l \in LiveSetApply' <=> (l \in live \/ l \in delta.added \/ l = b + 1) /\ l \notin delta.removed
    BY <1>0, <1>15 DEF LiveSetApply
  <2>2. \A l : l \in LiveSetApply <=> (l \in live \/ l \in delta.added) /\ l \notin delta.removed
    BY DEF LiveSetApply
  <2>3. b + 1 \notin delta.removed
    BY <1>18
  <2> QED
    BY <1>0, <2>1, <2>2, <2>3 DEF Pending
<1>21. LiveInv'
  <2>1. /\ \A l \in Nat : (l \in LiveSetApply /\ SealedIn(tract, l)) <=> Reached(tract, MemS, l)
        /\ ~work.repair => \A l \in Nat : (l \in live /\ SealedIn(tract, l)) <=> Reached(tract, HeadS, l)
    BY <1>1, <1>19 DEF Inv, LiveInv, LiveOK
  <2>2. \A l \in Nat : (l \in LiveSetApply' /\ SealedIn(u, l)) <=> Reached(u, T, l)
    BY <1>9, <1>10, <1>18, <1>19, <2>1
  <2>3. ~work.repair => \A l \in Nat : (l \in live /\ SealedIn(u, l)) <=> Reached(u, HeadS, l)
    BY <1>12, <1>18, <2>1
  <2> QED
    BY <1>0, <1>7, <1>13, <1>19, <2>2, <2>3 DEF LiveInv, LiveOK
<1>22. RetiredInv'
  <2>1. reap \in Nat /\ pendingReap \in Nat /\ b + 1 > reap /\ b + 1 > pendingReap
    BY <1>1 DEF Basic, b
  <2>2. /\ \A l \in Nat : Reached(u, T, l) => l > reap \/ l \in stray
        /\ \A l \in Nat : Reached(u, T, l) => l > pendingReap \/ l \in stray
    BY <1>1, <1>9, <2>1 DEF Inv, RetiredInv, Past
  <2>3. ~work.repair => \A l \in Nat : Reached(u, HeadS, l) => l > reap \/ l \in stray
    BY <1>1, <1>12 DEF Inv, RetiredInv, Past
  <2>4. work.repair =>
          \A l \in Nat : Reached(u, HeadS, l) =>
               \/ l > reap \/ l \in stray
               \/ \E p \in Paths : /\ LeafIn(u, HeadS[p]) /\ u[HeadS[p]].key \in lost.head
                                   /\ Holds(u, HeadS[p], l)
    <3>1. SUFFICES ASSUME work.repair, NEW l \in Nat, Reached(u, HeadS, l), ~(l > reap \/ l \in stray)
                   PROVE  \E p \in Paths : /\ LeafIn(u, HeadS[p]) /\ u[HeadS[p]].key \in lost.head
                                   /\ Holds(u, HeadS[p], l)
      OBVIOUS
    <3>2. PICK p \in Paths : /\ LeafIn(tract, HeadS[p]) /\ tract[HeadS[p]].key \in lost.head
                             /\ Holds(tract, HeadS[p], l)
      BY <1>1, <1>12, <3>1 DEF Inv, RetiredInv
    <3> QED
      BY <1>12, <3>2
  <2> QED
    BY <1>0, <1>7, <1>13, <2>2, <2>3, <2>4 DEF RetiredInv, Past
<1>23. CountInv'
  <2>1. {l \in 1 .. head.plow : Reached(u, HeadS, l)} = {l \in 1 .. head.plow : Reached(tract, HeadS, l)}
    BY <1>1, <1>12
  <2>2. ~lost.past => \A l \in LiveSetApply' : SealedIn(u, l)
    BY <1>1, <1>10, <1>18, <1>19 DEF Inv, CountInv
  <2>3. ~lost.past /\ lost.head = {} => \A l \in live : SealedIn(u, l)
    BY <1>1, <1>18 DEF Inv, CountInv
  <2>4. ~lost.past /\ lost.head = {} =>
          head.live = Cardinality({l \in 1 .. head.plow : Reached(tract, HeadS, l)})
    BY DEF Inv, CountInv
  <2> QED
    BY <1>0, <1>13, <2>1, <2>2, <2>3, <2>4 DEF CountInv
<1> QED
  BY <1>14, <1>16, <1>17, <1>21, <1>22, <1>23 DEF Inv

\* With no dirty root the session's arena is its root alone.
LEMMA CleanRoot ==
    ASSUME Inv, Root(mem) # Dirty, NEW t
    PROVE  /\ Slots(t, mem) = Slots(t, FromRoot(Root(mem)))
           /\ \A q \in Routes : MemS[q] # Dirty
           /\ Root(mem) \in 0 .. Len(tract)
<1>1. Basic /\ Trees /\ Arena(mem, MemS)
  BY InvTrees DEF Trees
<1>2. DOMAIN mem = {<<>>}
  <2>1. \A q \in DOMAIN mem : q \in Routes /\ \A p \in Above(q) : mem[p] = Dirty
    BY <1>1 DEF Arena
  <2>2. \A q \in DOMAIN mem : q = <<>>
    BY <2>1, AboveFront DEF Root
  <2> QED
    BY <1>1, <2>2 DEF Arena
<1>3. DOMAIN FromRoot(Root(mem)) = {<<>>} /\ FromRoot(Root(mem))[<<>>] = mem[<<>>]
  BY RootIs DEF Root
<1> DEFINE m == FromRoot(Root(mem))
           S == Slots(t, mem)
<1>4. S = [p \in Routes |-> S[p]] /\ \A p \in Routes : S[p] = SlotStep(t, mem, S, p)
  BY SlotsUnfold
<1> HIDE DEF m, S
<1>5. \A p \in Routes : SlotStep(t, mem, S, p) = SlotStep(t, m, S, p)
  BY <1>2, <1>3 DEF SlotStep, m
<1>6. Slots(t, m) = S
  BY <1>4, <1>5, SlotsUnique
<1>7. /\ MemS[<<>>] = mem[<<>>] /\ MemS[<<>>] \in -1 .. Len(tract) /\ Len(tract) \in Nat
      /\ Dirty = -1
  BY <1>1, <1>2, MemFacts
<1>8. \A q \in Routes : MemS[q] # Dirty
  <2>1. \A q \in Routes : MemS[q] = Dirty => q \in DOMAIN mem
    BY <1>1 DEF Arena
  <2> QED
    BY <1>2, <1>7, <2>1 DEF Root
<1>9. Root(mem) \in 0 .. Len(tract)
  BY <1>7 DEF Root
<1> QED
  BY <1>6, <1>8, <1>9 DEF m, S

\* Landing the entry keeps the invariant (Vault::commit).
LEMMA LandStep ==
    ASSUME Inv, Land
    PROVE  Inv'
<1> DEFINE b == Len(tract)
           L == LiveSetApply
           u == Forget(L)
           keep == L \cup Children(mem) \cup Walked(mem)
           h == lost.mem
<1>0. /\ pc = "flush" /\ Root(mem) # Dirty /\ live' = L
      /\ head' = [root |-> Root(mem), plow |-> b, live |-> Cardinality(live')]
      /\ delta' = NoDelta /\ reap' = (IF pendingReap # 0 THEN pendingReap ELSE reap)
      /\ pendingReap' = 0 /\ pc' = "idle" /\ saved' = want
      /\ lost' = [lost EXCEPT !.head = lost.mem]
      /\ work' = [work EXCEPT !.repair = FALSE, !.landing = FALSE]
      /\ tract' = u /\ mem' = mem /\ want' = want /\ stray' = stray /\ ops' = ops
  BY DEF Land, Plow
<1>1. /\ Basic /\ Trees /\ IsSeq(tract) /\ b \in Nat /\ MemS = Slots(tract, mem)
      /\ Arena(mem, MemS) /\ Tree(tract, MemS, want, h, b) /\ work.settled
      /\ DOMAIN tract = 1 .. b /\ WorkShape(work)
  BY <1>0, InvTrees, SeqFacts DEF Inv, Basic, Unsettled, Trees
<1>2. /\ WorkShape(work') /\ work'.settled /\ ~work'.repair
      /\ lost'.mem = h /\ lost'.head = h /\ lost'.past = lost.past
      /\ lost' = [mem |-> lost'.mem, head |-> lost'.head, past |-> lost'.past]
      /\ delta'.added = {} /\ delta'.removed = {}
      /\ delta' = [added |-> delta'.added, removed |-> delta'.removed]
  BY <1>0, <1>1 DEF WorkShape, Basic, NoDelta
<1>3. u = [l \in 1 .. b |-> IF l \in keep THEN tract[l] ELSE Dead]
  BY <1>1 DEF Forget
<1> HIDE DEF u, keep, h, L
<1>4. IsSeq(u) /\ Len(u) = b /\ \A l \in 1 .. b : l \in keep => u[l] = tract[l]
  <2>1. u = [l \in 1 .. b |-> u[l]]
    BY <1>3
  <2> HIDE DEF b
  <2>2. IsSeq(u) /\ Len(u) = b
    BY <1>1, <2>1, SeqOfFcn
  <2> QED
    BY <1>3, <2>2
<1>5. /\ \A l : l \in Walked(mem) <=> \E q \in Paths : MemS[q] # Dirty /\ Holds(tract, MemS[q], l)
      /\ \A l : l \in Children(mem) <=> l # Nil /\ l # Dirty /\ \E q \in Paths : MemS[q] = l
      /\ Walked(mem) \subseteq 1 .. b
  <2> HIDE DEF b
  <2> QED
    BY <1>1, ReachIs, WalkedBelow
<1>6. Same(tract, u, MemS)
  <2>1. SUFFICES ASSUME NEW q \in Paths, MemS[q] > 0
                 PROVE  u[MemS[q]] = tract[MemS[q]]
                        /\ \A l \in ToSet(FurrowsIn(tract, MemS[q])) : u[l] = tract[l]
    BY DEF Same
  <2>2. MemS[q] \in 1 .. b
    BY <1>1, <2>1, PathFacts DEF Tree, Shape
  <2>3. MemS[q] \in Children(mem) /\ MemS[q] # Dirty
    BY <1>5, <2>2 DEF Nil, Dirty
  <2>4. ASSUME NEW l \in ToSet(FurrowsIn(tract, MemS[q])) PROVE l \in Walked(mem)
    <3>1. FurrowsIn(tract, MemS[q]) # <<>>
      BY <2>4 DEF ToSet
    <3>2. SealedIn(tract, MemS[q])
      BY <3>1 DEF FurrowsIn, SealedIn
    <3> QED
      BY <1>5, <2>3, <2>4, <3>2 DEF Holds
  <2> QED
    BY <1>4, <1>5, <2>2, <2>3, <2>4 DEF keep
<1>7. /\ Slots(u, mem) = MemS
      /\ Tree(u, MemS, want, h, b)
      /\ \A l \in Nat : Reached(u, MemS, l) <=> Reached(tract, MemS, l)
  <2> HIDE DEF b
  <2> QED
    BY <1>1, <1>6, Frame
<1>8. /\ Slots(u, mem) = Slots(u, FromRoot(Root(mem)))
      /\ \A q \in Routes : MemS[q] # Dirty
      /\ Root(mem) \in 0 .. b
  BY <1>0, CleanRoot
<1>9. MemS' = MemS /\ HeadS' = MemS
  BY <1>0, <1>7, <1>8 DEF MemS, HeadS
<1>10. Trees'
  BY <1>0, <1>1, <1>2, <1>4, <1>7, <1>8, <1>9 DEF Trees
<1>11. L \subseteq 1 .. b
  BY <1>1 DEF Basic, LiveSetApply, L
<1>12. /\ reap' \in 0 .. b
       /\ \A l \in Nat : Reached(tract, MemS, l) => l > reap' \/ l \in stray
  BY <1>0, <1>1 DEF Basic, Inv, RetiredInv, Past
<1>13. Basic'
  <2>1. b \in 0 .. b /\ 0 \in 0 .. b
    BY <1>1
  <2> QED
    BY <1>0, <1>1, <1>2, <1>4, <1>8, <1>11, <1>12, <2>1 DEF Basic, h
<1>14. Unsettled' /\ EraseInv' /\ WalkInv' /\ ReapInv'
  BY <1>0, <1>2 DEF Unsettled, EraseInv, WalkInv, ReapInv
<1>15. LiveSetApply' = L /\ Pending' = {} /\ Pending = {}
  BY <1>0, <1>2 DEF LiveSetApply, Pending
<1>16. \A l \in L : SealedIn(u, l) <=> SealedIn(tract, l)
  <2>1. \A l \in L : l \in 1 .. b /\ u[l] = tract[l] /\ l # 0 /\ l # -1
    BY <1>1, <1>4, <1>11 DEF keep
  <2> QED
    BY <2>1 DEF SealedIn, KindIn
<1>17. \A l \in Nat : (l \in L /\ SealedIn(u, l)) <=> Reached(u, MemS, l)
  BY <1>1, <1>7, <1>15, <1>16 DEF Inv, LiveInv, LiveOK, L
<1>18. LiveInv'
  BY <1>0, <1>2, <1>9, <1>15, <1>17 DEF LiveInv, LiveOK
<1>19. RetiredInv'
  <2>1. \A l \in Nat : Reached(u, MemS, l) => l > 0
    <3>1. \A l \in Nat : Reached(u, MemS, l) => l \in 1 .. b
      <4> HIDE DEF b
      <4> QED
        BY <1>1, <1>7, ReachedBelow
    <3> QED
      BY <1>1, <3>1
  <2> QED
    BY <1>0, <1>2, <1>7, <1>9, <1>12, <2>1 DEF RetiredInv, Past
<1>20. CountInv'
  <2>1. ~lost.past => \A l \in L : SealedIn(u, l)
    BY <1>1, <1>16 DEF Inv, CountInv, L
  <2>2. ~lost.past => L = {l \in 1 .. b : Reached(u, MemS, l)}
    <3> DEFINE Y == {l \in 1 .. b : Reached(u, MemS, l)}
    <3>1. \A l : l \in Y <=> l \in 1 .. b /\ Reached(u, MemS, l)
      OBVIOUS
    <3> HIDE DEF Y
    <3>2. \A l \in 1 .. b : l \in Nat
      BY <1>1
    <3> HIDE DEF b
    <3>3. ~lost.past => \A l : l \in L <=> l \in Y
      BY <1>11, <1>17, <2>1, <3>1, <3>2
    <3>4. ~lost.past => L = Y
      BY <3>3
    <3> QED
      BY <3>4 DEF Y
  <2>3. ~lost.past => head'.live = Cardinality({l \in 1 .. b : Reached(u, MemS, l)})
    BY <1>0, <2>2
  <2>4. head'.plow = b
    BY <1>0
  <2> QED
    BY <1>0, <1>2, <1>9, <1>15, <2>1, <2>3, <2>4 DEF CountInv
<1> QED
  BY <1>10, <1>13, <1>14, <1>18, <1>19, <1>20 DEF Inv

\* The furrows of k the window holds move to the plow, and its leaf P is rebuilt over them.
Moving(k, moved, leaf, F, P, u, at) ==
    /\ k \in Keys /\ pc = "reap"
    /\ moved = FurrowGroup(k) /\ moved # <<>>
    /\ leaf = FindLeaf(mem, k) /\ F = FurrowsIn(tract, leaf)
    /\ P = [j \in 1 .. Len(F) |->
                IF \E n \in DOMAIN moved : tract[moved[n]].i = j
                THEN Len(tract) + (CHOOSE n \in DOMAIN moved : tract[moved[n]].i = j)
                ELSE F[j]]
    /\ u = (tract \o Copies(moved)) \o <<Extent(k, CompressRuns(P))>>
    /\ at = Len(tract) + Len(moved) + 1

\* What the old leaf has, and where the moved furrows come from.
LEMMA MovedFrom ==
    ASSUME Inv, NEW k, NEW moved, NEW leaf, NEW F, NEW P, NEW u, NEW at,
           Moving(k, moved, leaf, F, P, u, at)
    PROVE  /\ Len(tract) \in Nat /\ IsSeq(moved) /\ Len(moved) \in Nat \ {0} /\ DOMAIN moved = 1 .. Len(moved)
           /\ leaf = MemS[End(mem, k)] /\ leaf \in 1 .. Len(tract) /\ KindIn(tract, leaf) = "extent"
           /\ LeafIn(tract, leaf) /\ tract[leaf].key = k /\ SealedIn(tract, leaf)
           /\ LeafOK(tract, leaf, End(mem, k), want, lost.mem, Len(tract))
           /\ \A n \in 1 .. Len(moved) :
                /\ moved[n] \in 1 .. Len(tract) /\ moved[n] \in ToSet(moved)
                /\ KindIn(tract, moved[n]) = "furrow" /\ SealedIn(tract, moved[n])
                /\ tract[moved[n]].key = k /\ tract[moved[n]].i \in 1 .. Len(F)
                /\ moved[n] = F[tract[moved[n]].i]
           /\ \A n, m \in 1 .. Len(moved) : tract[moved[n]].i = tract[moved[m]].i => n = m
           /\ \A l : l \in ToSet(moved) <=>
                        l \in work.left /\ KindIn(tract, l) = "furrow" /\ tract[l].key = k
           /\ \A l \in ToSet(moved) : l \notin delta.removed /\ \E n \in 1 .. Len(moved) : l = moved[n]
           /\ IsSeq(F) /\ Len(F) \in Nat \ {0} /\ ToSet(F) = {F[j] : j \in 1 .. Len(F)}
           /\ \A j \in 1 .. Len(F) : /\ F[j] \in 1 .. Len(tract)
                                     /\ FurrowOK(tract, F[j], k, j, want[k])
                                     /\ k \notin lost.mem => KindIn(tract, F[j]) = "furrow"
<1>0. /\ k \in Keys /\ pc = "reap" /\ moved = FurrowGroup(k) /\ moved # <<>>
      /\ leaf = FindLeaf(mem, k) /\ F = FurrowsIn(tract, leaf)
  BY DEF Moving
<1>1. /\ IsSeq(moved) /\ Len(moved) \in Nat /\ DOMAIN moved = 1 .. Len(moved)
      /\ \A l : l \in ToSet(moved) <=>
                        l \in work.left /\ KindIn(tract, l) = "furrow" /\ tract[l].key = k
      /\ \A a, b \in 1 .. Len(moved) : moved[a] = moved[b] => a = b
      /\ \A l \in ToSet(moved) :
                /\ l \in 1 .. Len(tract) /\ l \notin delta.removed
                /\ leaf # Nil /\ KindIn(tract, leaf) = "extent"
                /\ tract[l].i \in 1 .. Len(F) /\ l = F[tract[l].i]
  BY <1>0, GroupIs
<1>2. Len(moved) \in Nat \ {0} /\ ToSet(moved) = {moved[n] : n \in 1 .. Len(moved)}
  BY <1>0, <1>1, SeqFacts
<1>3. \A n \in 1 .. Len(moved) : moved[n] \in ToSet(moved)
  BY <1>2
<1>4. \A l \in ToSet(moved) : \E n \in 1 .. Len(moved) : l = moved[n]
  BY <1>2
<1>5. 1 \in 1 .. Len(moved)
  BY <1>2
<1>6. leaf # Nil /\ KindIn(tract, leaf) = "extent"
  BY <1>1, <1>3, <1>5
<1>7. /\ leaf = MemS[End(mem, k)] /\ leaf \in 1 .. Len(tract)
      /\ LeafIn(tract, leaf) /\ tract[leaf].key = k /\ SealedIn(tract, leaf)
      /\ LeafOK(tract, leaf, End(mem, k), want, lost.mem, Len(tract))
  BY <1>0, <1>6, LeafBlocksIs
<1>8. /\ IsSeq(F) /\ Len(F) > 0
      /\ \A j \in 1 .. Len(F) : /\ F[j] \in 1 .. Len(tract)
                                /\ FurrowOK(tract, F[j], k, j, want[k])
                                /\ k \notin lost.mem => KindIn(tract, F[j]) = "furrow"
  BY <1>0, <1>6, <1>7 DEF LeafOK
<1>9. Len(F) \in Nat \ {0} /\ ToSet(F) = {F[j] : j \in 1 .. Len(F)}
  BY <1>8, SeqFacts
<1>10. \A n \in 1 .. Len(moved) :
                /\ moved[n] \in 1 .. Len(tract) /\ moved[n] \in ToSet(moved)
                /\ KindIn(tract, moved[n]) = "furrow" /\ SealedIn(tract, moved[n])
                /\ tract[moved[n]].key = k /\ tract[moved[n]].i \in 1 .. Len(F)
                /\ moved[n] = F[tract[moved[n]].i]
  BY <1>1, <1>3 DEF SealedIn
<1>11. \A n, m \in 1 .. Len(moved) : tract[moved[n]].i = tract[moved[m]].i => n = m
  BY <1>1, <1>10
<1>12. Len(tract) \in Nat
  BY InvTrees
<1> QED
  BY <1>1, <1>2, <1>4, <1>6, <1>7, <1>8, <1>9, <1>10, <1>11, <1>12

\* Where they go.
LEMMA MovedTo ==
    ASSUME Inv, NEW k, NEW moved, NEW leaf, NEW F, NEW P, NEW u, NEW at,
           Moving(k, moved, leaf, F, P, u, at)
    PROVE  /\ IsSeq(u) /\ Len(u) = at /\ at \in Nat /\ Len(tract) < at
           /\ \A l \in 1 .. Len(tract) : u[l] = tract[l]
           /\ \A n \in 1 .. Len(moved) : u[Len(tract) + n] = tract[moved[n]]
           /\ KindIn(u, at) = "extent" /\ u[at].key = k /\ FurrowsIn(u, at) = P
           /\ IsSeq(P) /\ Len(P) = Len(F)
           /\ \A j \in 1 .. Len(F) :
                \/ \E n \in 1 .. Len(moved) : tract[moved[n]].i = j /\ P[j] = Len(tract) + n
                \/ P[j] = F[j] /\ \A n \in 1 .. Len(moved) : tract[moved[n]].i # j
<1> DEFINE b == Len(tract)
           w == Len(moved)
           t1 == tract \o Copies(moved)
           ext == Extent(k, CompressRuns(P))
<1>0. /\ u = t1 \o <<ext>> /\ at = b + w + 1 /\ Basic
      /\ P = [j \in 1 .. Len(F) |->
                IF \E n \in DOMAIN moved : tract[moved[n]].i = j
                THEN b + (CHOOSE n \in DOMAIN moved : tract[moved[n]].i = j)
                ELSE F[j]]
  BY InvTrees DEF Moving
<1>1. /\ b \in Nat /\ IsSeq(moved) /\ w \in Nat \ {0} /\ DOMAIN moved = 1 .. w
      /\ Len(F) \in Nat \ {0}
      /\ \A j \in 1 .. Len(F) : F[j] \in 1 .. b
  BY MovedFrom
<1>2. IsSeq(Copies(moved)) /\ Len(Copies(moved)) = w
      /\ \A n \in 1 .. w : Copies(moved)[n] = tract[moved[n]]
  BY <1>1, CopiesIs
<1>3. /\ IsSeq(t1) /\ Len(t1) = b + w /\ (\A l \in 1 .. b : t1[l] = tract[l])
      /\ \A j \in 1 .. w : t1[b + j] = Copies(moved)[j]
  <2> DEFINE more == Copies(moved)
  <2>1. IsSeq(more) /\ IsSeq(tract) /\ Len(more) = w /\ Len(tract) \in Nat /\ Len(more) \in Nat
    BY <1>0, <1>1, <1>2 DEF Basic
  <2> HIDE DEF more, w
  <2>3. IsSeq(more) /\ IsSeq(tract) /\ Len(tract) \in Nat /\ Len(more) \in Nat
    BY <2>1
  <2>2. /\ IsSeq(tract \o more) /\ Len(tract \o more) = Len(tract) + Len(more)
        /\ \A l \in 1 .. Len(tract) : (tract \o more)[l] = tract[l]
        /\ \A j \in 1 .. Len(more) : (tract \o more)[Len(tract) + j] = more[j]
    BY <2>3, Longer
  <2> QED
    BY <2>1, <2>2 DEF more
<1>4. IsSeq(<<ext>>) /\ Len(<<ext>>) = 1 /\ <<ext>>[1] = ext
  <2> HIDE DEF ext
  <2>1. <<ext>> \in Seq({ext}) /\ Len(<<ext>>) = 1 /\ <<ext>>[1] = ext
    OBVIOUS
  <2> QED
    BY <2>1, SeqIs
<1> HIDE DEF t1, ext
<1>5. /\ IsSeq(u) /\ Len(u) = b + w + 1 /\ (\A l \in 1 .. (b + w) : u[l] = t1[l]) /\ u[at] = ext
  <2> DEFINE more == <<ext>>
  <2>1. IsSeq(more) /\ Len(more) = 1 /\ more[1] = ext /\ u = t1 \o more
    BY <1>0, <1>4
  <2> HIDE DEF more
  <2>6. IsSeq(t1) /\ IsSeq(more) /\ Len(t1) \in Nat /\ Len(more) \in Nat
    BY <1>1, <1>3, <2>1
  <2>5. /\ IsSeq(t1 \o more) /\ Len(t1 \o more) = Len(t1) + Len(more)
        /\ \A l \in 1 .. Len(t1) : (t1 \o more)[l] = t1[l]
        /\ \A j \in 1 .. Len(more) : (t1 \o more)[Len(t1) + j] = more[j]
    BY <2>6, Longer
  <2>2. /\ IsSeq(u) /\ Len(u) = Len(t1) + Len(more) /\ (\A l \in 1 .. Len(t1) : u[l] = t1[l])
        /\ \A j \in 1 .. Len(more) : u[Len(t1) + j] = more[j]
    BY <2>1, <2>5
  <2>3. 1 \in 1 .. Len(more)
    BY <2>1
  <2>4. u[Len(t1) + 1] = more[1]
    BY <2>2, <2>3
  <2> QED
    BY <1>0, <1>3, <2>1, <2>2, <2>4
<1>6. /\ \A l \in 1 .. b : l \in 1 .. (b + w)
      /\ \A n \in 1 .. w : b + n \in 1 .. (b + w)
      /\ at \in Nat /\ b < at
  BY <1>0, <1>1
<1>7. /\ \A l \in 1 .. b : u[l] = tract[l]
      /\ \A n \in 1 .. w : u[b + n] = tract[moved[n]]
  BY <1>2, <1>3, <1>5, <1>6
<1>8. ASSUME NEW j \in 1 .. Len(F)
      PROVE  \/ \E n \in 1 .. w : tract[moved[n]].i = j /\ P[j] = b + n
             \/ P[j] = F[j] /\ \A n \in 1 .. w : tract[moved[n]].i # j
  <2> DEFINE at0 == CHOOSE n \in DOMAIN moved : tract[moved[n]].i = j
  <2>1. (\E n \in DOMAIN moved : tract[moved[n]].i = j) =>
            at0 \in DOMAIN moved /\ tract[moved[at0]].i = j
    BY Zenon
  <2>2. P[j] = IF \E n \in DOMAIN moved : tract[moved[n]].i = j THEN b + at0 ELSE F[j]
    BY <1>0
  <2> HIDE DEF at0
  <2>3. CASE \E n \in DOMAIN moved : tract[moved[n]].i = j
    BY <1>1, <2>1, <2>2, <2>3
  <2>4. CASE ~\E n \in DOMAIN moved : tract[moved[n]].i = j
    BY <1>1, <2>2, <2>4
  <2> QED
    BY <2>3, <2>4
<1>9. IsSeq(P) /\ Len(P) = Len(F) /\ P \in Seq(Nat)
  <2>1. P = [j \in 1 .. Len(F) |-> P[j]]
    BY <1>0
  <2>2. Len(F) \in Nat
    BY <1>1
  <2>3. IsSeq(P) /\ Len(P) = Len(F)
    <3> DEFINE n == Len(F)
    <3> HIDE DEF n
    <3>1. n \in Nat /\ P = [j \in 1 .. n |-> P[j]]
      BY <2>1, <2>2 DEF n
    <3>2. IsSeq(P) /\ Len(P) = n
      BY <3>1, SeqOfFcn
    <3> QED
      BY <3>2 DEF n
  <2>4. \A j \in 1 .. Len(F) : P[j] \in Nat
    BY <1>1, <1>8
  <2>5. P \in Seq(Nat)
    <3>1. \A i \in 1 .. Len(P) : P[i] \in Nat
      BY <2>3, <2>4
    <3> QED
      BY <2>3, <3>1, SeqFacts
  <2> QED
    BY <2>3, <2>5
<1>10. KindIn(u, at) = "extent" /\ u[at].key = k /\ FurrowsIn(u, at) = P
  <2>1. /\ ext.kind = "extent" /\ ext.key = k /\ ext.runs = CompressRuns(P)
    BY DEF ext, Extent
  <2>2. at # 0 /\ at # -1
    BY <1>1, <1>6
  <2>3. KindIn(u, at) = "extent"
    BY <1>5, <2>1, <2>2 DEF KindIn, Nil, Dirty
  <2>4. ExpandRuns(CompressRuns(P)) = P
    BY <1>9, RunsRoundTrip
  <2> QED
    BY <1>5, <2>1, <2>3, <2>4 DEF FurrowsIn
<1> QED
  BY <1>0, <1>5, <1>6, <1>7, <1>8, <1>9, <1>10

\* The rebuilt leaf holds the copies and what was not moved, and nothing else.
LEMMA MovedHolds ==
    ASSUME Inv, NEW k, NEW moved, NEW leaf, NEW F, NEW P, NEW u, NEW at,
           Moving(k, moved, leaf, F, P, u, at)
    PROVE  /\ LeafOK(u, at, End(mem, k), want, lost.mem, at)
           /\ \A l \in 1 .. Len(tract) : Holds(tract, leaf, l) /\ l \notin ToSet(moved) /\ l # leaf
                => Holds(u, at, l)
           /\ \A l \in 1 .. Len(tract) : Holds(u, at, l) /\ SealedIn(tract, l) =>
                /\ l \notin ToSet(moved) /\ l # leaf /\ KindIn(tract, l) = "furrow"
                /\ Holds(tract, leaf, l)
           /\ \A l \in (Len(tract) + 1) .. at : SealedIn(u, l) /\ Holds(u, at, l)
<1> DEFINE b == Len(tract)
           w == Len(moved)
           q == End(mem, k)
<1>1. /\ b \in Nat /\ w \in Nat \ {0} /\ k \in Keys
      /\ leaf \in 1 .. b /\ KindIn(tract, leaf) = "extent" /\ SealedIn(tract, leaf)
      /\ tract[leaf].key = k /\ LeafOK(tract, leaf, q, want, lost.mem, b)
      /\ \A n \in 1 .. w :
                /\ moved[n] \in 1 .. b /\ moved[n] \in ToSet(moved)
                /\ KindIn(tract, moved[n]) = "furrow" /\ SealedIn(tract, moved[n])
                /\ tract[moved[n]].key = k /\ tract[moved[n]].i \in 1 .. Len(F)
                /\ moved[n] = F[tract[moved[n]].i]
      /\ \A n, m \in 1 .. w : tract[moved[n]].i = tract[moved[m]].i => n = m
      /\ \A l \in ToSet(moved) : \E n \in 1 .. w : l = moved[n]
      /\ Len(F) \in Nat \ {0} /\ ToSet(F) = {F[j] : j \in 1 .. Len(F)}
      /\ \A j \in 1 .. Len(F) : /\ F[j] \in 1 .. b
                                /\ FurrowOK(tract, F[j], k, j, want[k])
                                /\ k \notin lost.mem => KindIn(tract, F[j]) = "furrow"
  <2>1. k \in Keys
    BY DEF Moving
  <2> QED
    BY <2>1, MovedFrom
<1>a. F = FurrowsIn(tract, leaf) /\ at = b + w + 1
  BY DEF Moving
<1>2. /\ at \in Nat /\ b < at
      /\ \A l \in 1 .. b : u[l] = tract[l]
      /\ \A n \in 1 .. w : u[b + n] = tract[moved[n]]
      /\ KindIn(u, at) = "extent" /\ u[at].key = k /\ FurrowsIn(u, at) = P
      /\ IsSeq(P) /\ Len(P) = Len(F)
      /\ \A j \in 1 .. Len(F) :
                \/ \E n \in 1 .. w : tract[moved[n]].i = j /\ P[j] = b + n
                \/ P[j] = F[j] /\ \A n \in 1 .. w : tract[moved[n]].i # j
  BY MovedTo
<1> HIDE DEF b, w, q
<1>3. /\ \A l \in 1 .. b : KindIn(u, l) = KindIn(tract, l)
      /\ \A n \in 1 .. w : KindIn(u, b + n) = "furrow" /\ b + n \in 1 .. at
  <2>1. \A l \in 1 .. b : KindIn(u, l) = KindIn(tract, l)
    BY <1>1, <1>2 DEF KindIn
  <2>2. \A n \in 1 .. w : b + n # 0 /\ b + n # -1 /\ b + n \in 1 .. at /\ moved[n] # 0 /\ moved[n] # -1
    BY <1>1, <1>2, <1>a
  <2>3. \A n \in 1 .. w : KindIn(u, b + n) = KindIn(tract, moved[n])
    BY <1>2, <2>2 DEF KindIn, Nil, Dirty
  <2> QED
    BY <1>1, <2>1, <2>2, <2>3
<1>4. \A j \in 1 .. Len(F) :
         /\ P[j] \in 1 .. at /\ FurrowOK(u, P[j], k, j, want[k])
         /\ k \notin lost.mem => KindIn(u, P[j]) = "furrow"
  <2> TAKE j \in 1 .. Len(F)
  <2>1. CASE \E n \in 1 .. w : tract[moved[n]].i = j /\ P[j] = b + n
    <3>1. PICK n \in 1 .. w : tract[moved[n]].i = j /\ P[j] = b + n
      BY <2>1
    <3>2. moved[n] = F[j] /\ FurrowOK(tract, moved[n], k, j, want[k])
      BY <1>1, <3>1
    <3>3. u[P[j]] = tract[moved[n]] /\ KindIn(u, P[j]) = "furrow" /\ P[j] \in 1 .. at
      BY <1>2, <1>3, <3>1
    <3>4. KindIn(tract, moved[n]) = "furrow"
      BY <1>1
    <3> QED
      BY <3>2, <3>3, <3>4 DEF FurrowOK
  <2>2. CASE P[j] = F[j]
    <3>1. /\ F[j] \in 1 .. b /\ FurrowOK(tract, F[j], k, j, want[k])
          /\ k \notin lost.mem => KindIn(tract, F[j]) = "furrow"
      BY <1>1
    <3>2. u[P[j]] = tract[F[j]] /\ KindIn(u, P[j]) = KindIn(tract, F[j])
      BY <1>2, <1>3, <2>2, <3>1
    <3>3. P[j] \in 1 .. at
      BY <1>1, <1>2, <2>2, <3>1
    <3> QED
      BY <3>1, <3>2, <3>3 DEF FurrowOK
  <2> QED
    BY <1>2, <2>1, <2>2
<1>5. LeafOK(u, at, q, want, lost.mem, at)
  BY <1>1, <1>2, <1>4 DEF LeafOK
<1>6. SealedIn(u, at) /\ ToSet(P) = {P[j] : j \in 1 .. Len(F)}
  BY <1>2, SeqFacts DEF SealedIn
<1>7. \A l : Holds(u, at, l) <=> l = at \/ \E j \in 1 .. Len(F) : l = P[j]
  BY <1>2, <1>6 DEF Holds
<1>8. \A l : Holds(tract, leaf, l) <=> l = leaf \/ \E j \in 1 .. Len(F) : l = F[j]
  BY <1>1, <1>a DEF Holds
<1>9. ASSUME NEW l \in 1 .. b, Holds(tract, leaf, l), l \notin ToSet(moved), l # leaf
      PROVE  Holds(u, at, l)
  <2>1. PICK j \in 1 .. Len(F) : l = F[j]
    BY <1>8, <1>9
  <2>2. \A n \in 1 .. w : tract[moved[n]].i # j
    BY <1>1, <1>9, <2>1
  <2>3. P[j] = F[j]
    BY <1>2, <2>2
  <2> QED
    BY <1>7, <2>1, <2>3
<1>10. ASSUME NEW l \in 1 .. b, Holds(u, at, l), SealedIn(tract, l)
       PROVE  /\ l \notin ToSet(moved) /\ l # leaf /\ KindIn(tract, l) = "furrow"
              /\ Holds(tract, leaf, l)
  <2>1. PICK j \in 1 .. Len(F) : l = P[j]
    BY <1>1, <1>2, <1>7, <1>10
  <2>2. \A n \in 1 .. w : l # b + n
    BY <1>1
  <2>3. l = F[j] /\ \A n \in 1 .. w : tract[moved[n]].i # j
    BY <1>2, <2>1, <2>2
  <2>4. KindIn(tract, l) = "furrow" /\ tract[l].i = j
    BY <1>1, <1>10, <2>3 DEF FurrowOK, SealedIn
  <2>5. l \notin ToSet(moved)
    <3>1. SUFFICES ASSUME l \in ToSet(moved) PROVE FALSE
      OBVIOUS
    <3>2. PICK n \in 1 .. w : l = moved[n]
      BY <1>1, <3>1
    <3> QED
      BY <2>3, <2>4, <3>2
  <2> QED
    BY <1>1, <1>8, <2>3, <2>4, <2>5
<1>11. ASSUME NEW l \in (b + 1) .. at PROVE SealedIn(u, l) /\ Holds(u, at, l)
  <2>1. CASE l = at
    BY <1>6, <1>7, <2>1
  <2>2. CASE l # at
    <3> DEFINE n == l - b
    <3>1. n \in 1 .. w /\ l = b + n
      BY <1>1, <1>2, <1>a, <2>2
    <3> HIDE DEF n
    <3> DEFINE j == tract[moved[n]].i
    <3>2. j \in 1 .. Len(F)
      BY <1>1, <3>1
    <3>3. PICK m \in 1 .. w : tract[moved[m]].i = j /\ P[j] = b + m
      BY <1>2, <3>1, <3>2
    <3>4. m = n
      BY <1>1, <3>1, <3>3
    <3>5. SealedIn(u, l)
      BY <1>3, <3>1 DEF SealedIn
    <3> QED
      BY <1>7, <3>1, <3>2, <3>3, <3>4, <3>5
  <2> QED
    BY <2>1, <2>2
<1> QED
  BY <1>5, <1>9, <1>10, <1>11 DEF b, q

\* Moving the furrows of one owner keeps the invariant.
LEMMA MoveFurrowsStep ==
    ASSUME Inv, NEW k \in Keys, MoveFurrows(k)
    PROVE  Inv'
<1> DEFINE moved == FurrowGroup(k)
           leaf == FindLeaf(mem, k)
           F == FurrowsIn(tract, leaf)
           P == [j \in 1 .. Len(F) |->
                IF \E n \in DOMAIN moved : tract[moved[n]].i = j
                THEN Len(tract) + (CHOOSE n \in DOMAIN moved : tract[moved[n]].i = j)
                ELSE F[j]]
           at == Len(tract) + Len(moved) + 1
           u == (tract \o Copies(moved)) \o <<Extent(k, CompressRuns(P))>>
           adds == (Len(tract) + 1) .. at
           drops == ToSet(moved) \cup {leaf}
           h == lost.mem
<1>1. pc = "reap" /\ moved # <<>>
  BY DEF MoveFurrows
<1>2. Moving(k, moved, leaf, F, P, u, at)
  BY <1>1 DEF Moving
<1>3. Kind(leaf) = KindIn(tract, leaf) /\ FurrowsOf(leaf) = F
  BY NowIs
<1>4. leaf # Nil /\ KindIn(tract, leaf) = "extent"
  <2> HIDE DEF moved, leaf, F, P, u, at
  <2>1. leaf \in 1 .. Len(tract) /\ Len(tract) \in Nat /\ KindIn(tract, leaf) = "extent"
    BY <1>2, MovedFrom
  <2> QED
    BY <2>1 DEF Nil
<1>5. /\ head' = head /\ live' = live /\ reap' = reap /\ pendingReap' = pendingReap
      /\ saved' = saved /\ stray' = stray /\ pc' = pc /\ want' = want /\ lost' = lost /\ ops' = ops
      /\ work' = [work EXCEPT !.left = @ \ ToSet(moved)]
  BY DEF MoveFurrows, space, ghosts
<1>6. tract' = u /\ Change(At(End(mem, k), at), adds, drops)
  <2>1. /\ leaf # Nil /\ Kind(leaf) = "extent"
        /\ FurrowsOf(leaf) = F
    BY <1>3, <1>4
  <2> QED
    BY <2>1 DEF MoveFurrows, Plow
<1> HIDE DEF moved, leaf, F, P, u, at
<1>7. /\ IsSeq(u) /\ Len(u) = at /\ at \in Nat /\ Len(tract) < at
      /\ \A l \in 1 .. Len(tract) : u[l] = tract[l]
      /\ KindIn(u, at) = "extent" /\ u[at].key = k
  BY <1>2, MovedTo
<1>8. /\ LeafOK(u, at, End(mem, k), want, h, at)
      /\ \A l \in 1 .. Len(tract) : Holds(tract, leaf, l) /\ l \notin ToSet(moved) /\ l # leaf
                => Holds(u, at, l)
      /\ \A l \in 1 .. Len(tract) : Holds(u, at, l) /\ SealedIn(tract, l) =>
                /\ l \notin ToSet(moved) /\ l # leaf /\ KindIn(tract, l) = "furrow"
                /\ Holds(tract, leaf, l)
      /\ \A l \in (Len(tract) + 1) .. at : SealedIn(u, l) /\ Holds(u, at, l)
  BY <1>2, MovedHolds
<1>9. /\ Len(tract) \in Nat /\ leaf = MemS[End(mem, k)] /\ leaf \in 1 .. Len(tract)
      /\ LeafIn(tract, leaf) /\ tract[leaf].key = k /\ SealedIn(tract, leaf)
      /\ KindIn(tract, leaf) = "extent"
      /\ \A n \in 1 .. Len(moved) : moved[n] \in 1 .. Len(tract) /\ moved[n] = F[tract[moved[n]].i]
                                    /\ tract[moved[n]].i \in 1 .. Len(F)
      /\ \A l : l \in ToSet(moved) <=>
                        l \in work.left /\ KindIn(tract, l) = "furrow" /\ tract[l].key = k
      /\ \A l \in ToSet(moved) : \E n \in 1 .. Len(moved) : l = moved[n]
      /\ ToSet(F) = {F[j] : j \in 1 .. Len(F)}
  BY <1>2, MovedFrom
<1>a. F = FurrowsIn(tract, leaf)
  BY <1>2 DEF Moving
<1>10. ASSUME NEW l \in drops PROVE l \in 1 .. Len(tract) /\ Holds(tract, leaf, l)
  <2>1. CASE l = leaf
    BY <1>9, <2>1 DEF Holds
  <2>2. CASE l \in ToSet(moved)
    <3>1. PICK n \in 1 .. Len(moved) : l = moved[n]
      BY <1>9, <2>2
    <3>2. l \in ToSet(F) /\ l \in 1 .. Len(tract)
      BY <1>9, <3>1
    <3> QED
      BY <1>9, <1>a, <3>2 DEF Holds
  <2> QED
    BY <1>10, <2>1, <2>2
<1>11. ChangeOK(u, At(End(mem, k), at), adds, drops, want, h, {k})
  <2>1. /\ Len(u) \in Nat /\ at \in 0 .. Len(u) /\ at # Nil /\ LeafIn(u, at) /\ u[at].key = k
        /\ LeafOK(u, at, End(mem, k), want, h, Len(u))
    BY <1>7, <1>8, <1>9 DEF LeafIn, Nil
  <2>2. \A j \in Keys \ {k} : want[j] = want[j] /\ (j \in h <=> j \in lost.mem)
    OBVIOUS
  <2>3. LeafIn(tract, MemS[End(mem, k)]) => tract[MemS[End(mem, k)]].key = k
    BY <1>9
  <2>4. \A l \in 1 .. Len(tract) : l \in drops /\ SealedIn(tract, l) => Holds(tract, MemS[End(mem, k)], l)
    BY <1>9, <1>10
  <2>5. \A l \in 1 .. Len(tract) : Holds(tract, MemS[End(mem, k)], l) /\ SealedIn(tract, l) /\ l \notin drops
                => Holds(u, at, l)
    BY <1>8, <1>9
  <2>6. \A l \in 1 .. Len(tract) : Holds(u, at, l) /\ SealedIn(tract, l) =>
                    l \notin drops /\ Reached(tract, MemS, l) /\ KindIn(tract, l) # "node"
    <3>1. End(mem, k) \in Paths
      BY EndSlot
    <3> QED
      BY <1>8, <1>9, <3>1 DEF Reached
  <2>7. /\ adds \subseteq (Len(tract) + 1) .. Len(u)
        /\ \A l \in (Len(tract) + 1) .. Len(u) : l \in adds <=> (SealedIn(u, l) /\ Holds(u, at, l))
    BY <1>7, <1>8
  <2> HIDE DEF adds, drops, h
  <2> DEFINE w == want
  <2>8. \A j \in Keys \ {k} : w[j] = want[j]
    OBVIOUS
  <2>9. LeafOK(u, at, End(mem, k), w, h, Len(u))
    BY <2>1
  <2> HIDE DEF w
  <2>10. ChangeOK(u, At(End(mem, k), at), adds, drops, w, h, {k})
    BY <2>1, <2>2, <2>3, <2>4, <2>5, <2>6, <2>7, <2>8, <2>9, SlotChange
  <2> QED
    BY <2>10 DEF w
<1>12. /\ Basic /\ work.settled /\ ~work.repair /\ Pending = {} /\ WorkShape(work)
  <2>1. Pending = {}
    BY <1>1 DEF Pending
  <2>2. work.settled /\ ~work.repair
    BY <1>1 DEF Inv, Unsettled
  <2> QED
    BY <2>1, <2>2, InvTrees DEF Basic
<1>13. /\ WorkShape(work') /\ work'.settled /\ ~work'.repair /\ work'.upto = work.upto
       /\ work'.left = work.left \ ToSet(moved)
  BY <1>5, <1>12 DEF WorkShape
<1>14. drops \subseteq 1 .. Len(tract)
  BY <1>10
<1>15. /\ work'.left \subseteq work.left
       /\ \A l \in work'.left : KindIn(tract, l) = "furrow" => l \notin drops
       /\ \A l \in work.left : l \in work'.left \/ l \in drops
  BY <1>9, <1>13
<1>16. /\ IsSeq(tract') /\ Len(tract) <= Len(tract') /\ \A l \in 1 .. Len(tract) : tract'[l] = tract[l]
       /\ pc' \in {"idle", "reap"} /\ ops' \in Nat /\ ops' <= MaxOps
  <2>1. ops' \in Nat /\ ops' <= MaxOps
    BY <1>5, <1>12 DEF Basic
  <2> QED
    BY <1>1, <1>5, <1>6, <1>7, <1>9, <2>1
<1>17. /\ want' \in [Keys -> Values \cup {Absent}] /\ lost'.mem \subseteq Keys
       /\ lost' = [mem |-> lost'.mem, head |-> lost.head, past |-> lost.past]
  BY <1>5, <1>12 DEF Basic
<1> HIDE DEF adds, drops
<1>18. ChangeOK(tract', At(End(mem, k), at), adds, drops, want', lost'.mem, {k})
  BY <1>5, <1>6, <1>11 DEF h
<1> QED
  BY <1>1, <1>5, <1>6, <1>12, <1>13, <1>14, <1>15, <1>16, <1>17, <1>18, ChangeStep

\* Every survivor left is a block of the index the head has.
LEMMA LeftKinds ==
    ASSUME Inv, pc = "reap", NEW l \in work.left
    PROVE  /\ l \in Nat /\ l \in 1 .. Len(tract) /\ SealedIn(tract, l)
           /\ KindIn(tract, l) \in {"node", "lone", "extent", "furrow"}
<1>0. /\ Basic /\ Len(tract) \in Nat /\ head.plow \in Nat
      /\ HeadS = Slots(tract, FromRoot(head.root))
      /\ Tree(tract, HeadS, saved, lost.head, head.plow)
  BY InvTrees
<1>1. work.settled /\ ~work.repair /\ l \in live /\ SealedIn(tract, l)
  BY DEF Inv, Unsettled, ReapInv
<1>2. l \in 1 .. Len(tract) /\ l \in Nat
  BY <1>0, <1>1 DEF Basic
<1>3. Reached(tract, HeadS, l)
  BY <1>1, <1>2 DEF Inv, LiveInv, LiveOK
<1> DEFINE m == FromRoot(head.root)
           b == head.plow
           h == lost.head
<1> HIDE DEF m, b, h
<1>4. HeadS = Slots(tract, m) /\ b \in Nat /\ Tree(tract, HeadS, saved, h, b)
  BY <1>0 DEF m, b, h
<1>5. KindIn(tract, l) \in {"node", "lone", "extent", "furrow"}
  BY <1>2, <1>3, <1>4, FoundAt
<1> QED
  BY <1>1, <1>2, <1>5

\* The next block a reap moves is a leaf or a node.
LEMMA NextUpIs ==
    ASSUME Inv, pc = "reap", work.left # {}, LeftOf({"furrow"}) = {}
    PROVE  /\ NextUp \in work.left /\ KindIn(tract, NextUp) \in {"node", "lone", "extent"}
<1> DEFINE ranks == {{"lone"}, {"extent"}, {"node"}}
           Ready(kinds) == /\ LeftOf(kinds) # {}
                           /\ kinds = {"extent"} => LeftOf({"lone"}) = {}
                           /\ kinds = {"node"} => LeftOf({"lone", "extent"}) = {}
           first == CHOOSE kinds \in ranks : Ready(kinds)
<1>1. \A kinds, l : l \in LeftOf(kinds) <=> l \in work.left /\ KindIn(tract, l) \in kinds
  BY NowIs DEF LeftOf
<1>2. \A l \in work.left : l \in Nat /\ KindIn(tract, l) \in {"node", "lone", "extent"}
  <2>1. \A l \in work.left : l \in Nat /\ KindIn(tract, l) \in {"node", "lone", "extent", "furrow"}
    BY LeftKinds
  <2>2. \A l \in work.left : KindIn(tract, l) # "furrow"
    BY <1>1
  <2> QED
    BY <2>1, <2>2
<1>3. \E kinds \in ranks : Ready(kinds)
  <2>1. {"lone"} # {"extent"} /\ {"lone"} # {"node"} /\ {"extent"} # {"node"}
    OBVIOUS
  <2>2. CASE LeftOf({"lone"}) # {}
    BY <2>1, <2>2
  <2>3. CASE LeftOf({"lone"}) = {} /\ LeftOf({"extent"}) # {}
    BY <2>1, <2>3
  <2>4. CASE LeftOf({"lone"}) = {} /\ LeftOf({"extent"}) = {}
    <3>1. \A l \in work.left : KindIn(tract, l) # "lone" /\ KindIn(tract, l) # "extent"
      BY <1>1, <2>4
    <3>2. LeftOf({"lone", "extent"}) = {}
      BY <1>1, <3>1
    <3>3. LeftOf({"node"}) # {}
      BY <1>1, <1>2, <3>1
    <3> QED
      BY <2>1, <3>2, <3>3
  <2> QED
    BY <2>2, <2>3, <2>4
<1>4. NextUp = Min(LeftOf(first))
  BY DEF NextUp
<1> HIDE DEF ranks, Ready
<1>5. first \in ranks /\ Ready(first)
  BY <1>3, Zenon
<1> HIDE DEF first
<1>6. LeftOf(first) # {}
  BY <1>5 DEF Ready
<1>7. LeftOf(first) \in SUBSET Nat
  BY <1>1, <1>2
<1>8. Min(LeftOf(first)) \in LeftOf(first)
  BY <1>6, <1>7, MinOfNaturals
<1> QED
  BY <1>1, <1>2, <1>4, <1>8

\* A block copied to the plow: what the copy says.
Copied(l, u, c) ==
    l \in 1 .. Len(tract) /\ u = Append(tract, tract[l]) /\ c = Len(tract) + 1

\* The copy at the plow reads as the block it was made of.
LEMMA CopiedIs ==
    ASSUME Inv, NEW l, NEW u, NEW c, Copied(l, u, c)
    PROVE  /\ IsSeq(u) /\ Len(u) = c /\ c \in Nat /\ Len(tract) \in Nat /\ c # Nil /\ c # Dirty
           /\ c \in 1 .. Len(u) /\ c \notin 1 .. Len(tract) /\ Len(tract) <= Len(u)
           /\ \A x \in 1 .. Len(tract) : u[x] = tract[x] /\ KindIn(u, x) = KindIn(tract, x)
                                         /\ x \in 1 .. Len(u)
           /\ u[c] = tract[l] /\ KindIn(u, c) = KindIn(tract, l)
           /\ (SealedIn(u, c) <=> SealedIn(tract, l)) /\ (LeafIn(u, c) <=> LeafIn(tract, l))
           /\ FurrowsIn(u, c) = FurrowsIn(tract, l)
           /\ \A s : KidIn(u, c, s) = KidIn(tract, l, s)
           /\ l > 0 /\ l # Nil /\ l # Dirty
<1>0. l \in 1 .. Len(tract) /\ u = Append(tract, tract[l]) /\ c = Len(tract) + 1
  BY DEF Copied
<1>1. IsSeq(tract) /\ Len(tract) \in Nat
  BY InvTrees DEF Basic
<1>2. /\ IsSeq(u) /\ Len(u) = Len(tract) + 1 /\ (\A x \in 1 .. Len(tract) : u[x] = tract[x])
      /\ u[c] = tract[l]
  <2> DEFINE y == tract[l]
  <2> HIDE DEF y
  <2>1. /\ IsSeq(Append(tract, y)) /\ Len(Append(tract, y)) = Len(tract) + 1
        /\ \A i \in 1 .. Len(tract) : Append(tract, y)[i] = tract[i]
        /\ Append(tract, y)[Len(tract) + 1] = y
    BY <1>1, SeqAppend
  <2>2. u = Append(tract, y)
    BY <1>0 DEF y
  <2> QED
    BY <1>0, <2>1, <2>2 DEF y
<1>3. /\ c \in Nat /\ c > 0 /\ c # 0 /\ c # -1 /\ l # 0 /\ l # -1 /\ l > 0
      /\ c \in 1 .. c /\ c \notin 1 .. Len(tract) /\ Len(tract) <= c
      /\ \A x \in 1 .. Len(tract) : x # 0 /\ x # -1 /\ x \in 1 .. c
  BY <1>0, <1>1
<1>4. KindIn(u, c) = KindIn(tract, l) /\ \A x \in 1 .. Len(tract) : KindIn(u, x) = KindIn(tract, x)
  BY <1>2, <1>3 DEF KindIn, Nil, Dirty
<1>5. /\ (SealedIn(u, c) <=> SealedIn(tract, l)) /\ (LeafIn(u, c) <=> LeafIn(tract, l))
      /\ FurrowsIn(u, c) = FurrowsIn(tract, l)
  BY <1>2, <1>4 DEF SealedIn, LeafIn, FurrowsIn
<1>6. \A s : KidIn(u, c, s) = KidIn(tract, l, s)
  BY <1>2, <1>3, <1>4 DEF KidIn
<1> QED
  BY <1>0, <1>1, <1>2, <1>3, <1>4, <1>5, <1>6 DEF Nil, Dirty

\* A leaf repointed to its copy.
LEMMA LeafMoved ==
    ASSUME Inv, NEW l, NEW u, NEW c, Copied(l, u, c), LeafIn(tract, l), Reached(tract, MemS, l),
           NEW k, k = tract[l].key
    PROVE  k \in Keys /\ ChangeOK(u, At(End(mem, k), c), {c}, {l}, want, lost.mem, {k})
<1> DEFINE b == Len(tract)
           h == lost.mem
           q == End(mem, k)
           F == FurrowsIn(tract, l)
<1>1. /\ IsSeq(u) /\ Len(u) = c /\ c \in Nat /\ b \in Nat /\ c # Nil
      /\ c \in 1 .. Len(u) /\ c \notin 1 .. b /\ b <= Len(u)
      /\ \A x \in 1 .. b : u[x] = tract[x] /\ KindIn(u, x) = KindIn(tract, x) /\ x \in 1 .. Len(u)
      /\ u[c] = tract[l] /\ KindIn(u, c) = KindIn(tract, l) /\ SealedIn(u, c) /\ LeafIn(u, c)
      /\ FurrowsIn(u, c) = F
  <2>1. SealedIn(tract, l)
    BY DEF Reached
  <2> QED
    BY <2>1, CopiedIs
<1>2. l \in 1 .. b /\ l \in Nat /\ c = b + 1
  BY <1>1 DEF Copied
<1>3. k \in Keys /\ MemS[q] = l /\ FindLeaf(mem, k) = l
  <2> HIDE DEF b, h
  <2>1. b \in Nat /\ Tree(tract, MemS, want, h, b) /\ MemS = Slots(tract, mem)
    BY InvTrees DEF b, h
  <2> QED
    BY <1>2, <2>1, FoundAt
<1>4. q \in Paths
  BY <1>3, EndSlot
<1>5. l # Nil
  BY <1>1, <1>2 DEF Nil
<1>6. LeafOK(tract, l, q, want, h, b)
  BY <1>3, <1>5, LeafBlocksIs
<1> HIDE DEF b, h, q, F
<1>7. /\ k \in Keys /\ q \in Along(k) /\ want[k] # Absent
      /\ KindIn(tract, l) = "lone" => tract[l].value = want[k]
      /\ IsSeq(F) /\ (KindIn(tract, l) = "extent" => Len(F) > 0)
      /\ \A j \in 1 .. Len(F) : /\ F[j] \in 1 .. b
                                /\ FurrowOK(tract, F[j], k, j, want[k])
                                /\ k \notin h => KindIn(tract, F[j]) = "furrow"
  BY <1>6 DEF LeafOK, F
<1>8. LeafOK(u, c, q, want, h, Len(u))
  <2>1. \A j \in 1 .. Len(F) : /\ F[j] \in 1 .. Len(u)
                               /\ FurrowOK(u, F[j], k, j, want[k])
                               /\ k \notin h => KindIn(u, F[j]) = "furrow"
    <3> TAKE j \in 1 .. Len(F)
    <3>1. /\ F[j] \in 1 .. b /\ FurrowOK(tract, F[j], k, j, want[k])
          /\ k \notin h => KindIn(tract, F[j]) = "furrow"
      BY <1>7
    <3>2. u[F[j]] = tract[F[j]] /\ KindIn(u, F[j]) = KindIn(tract, F[j]) /\ F[j] \in 1 .. Len(u)
      BY <1>1, <3>1
    <3> QED
      BY <3>1, <3>2 DEF FurrowOK
  <2>2. u[c].key = k /\ (KindIn(u, c) = "lone" => u[c].value = want[k])
        /\ (KindIn(u, c) = "extent" => Len(F) > 0)
    BY <1>1, <1>7
  <2> QED
    BY <1>1, <1>7, <2>1, <2>2 DEF LeafOK
<1>9. SealedIn(tract, l) /\ KindIn(tract, l) # "furrow"
  BY DEF LeafIn, SealedIn
<1>10. /\ \A x : Holds(tract, l, x) <=> x = l \/ x \in ToSet(F)
       /\ \A x : Holds(u, c, x) <=> x = c \/ x \in ToSet(F)
  BY <1>1, <1>9 DEF Holds, F
<1>11. ASSUME NEW x \in ToSet(F), SealedIn(tract, x)
       PROVE  x # l /\ KindIn(tract, x) = "furrow"
  <2>1. PICK j \in 1 .. Len(F) : x = F[j]
    BY <1>7, <1>11, SeqFacts
  <2>2. KindIn(tract, x) \in {"furrow", "zero", "bad"}
    BY <1>7, <2>1 DEF FurrowOK
  <2> QED
    BY <1>9, <1>11, <2>2 DEF SealedIn
<1>12. ChangeOK(u, At(End(mem, k), c), {c}, {l}, want, h, {k})
  <2> DEFINE adds == {c}
             drops == {l}
             v == want
  <2>1. /\ Len(u) \in Nat /\ c \in 0 .. Len(u) /\ c # Nil /\ LeafIn(u, c) /\ u[c].key = k
        /\ LeafOK(u, c, End(mem, k), v, h, Len(u))
    BY <1>1, <1>8 DEF q
  <2>2. \A j \in Keys \ {k} : v[j] = want[j] /\ (j \in h <=> j \in lost.mem)
    BY DEF h
  <2>3. LeafIn(tract, MemS[End(mem, k)]) => tract[MemS[End(mem, k)]].key = k
    BY <1>3 DEF q
  <2>4. \A x \in 1 .. Len(tract) : x \in drops /\ SealedIn(tract, x) => Holds(tract, MemS[End(mem, k)], x)
    BY <1>3, <1>10 DEF q
  <2>5. \A x \in 1 .. Len(tract) : Holds(tract, MemS[End(mem, k)], x) /\ SealedIn(tract, x) /\ x \notin drops
                => Holds(u, c, x)
    BY <1>3, <1>10 DEF q
  <2>6. \A x \in 1 .. Len(tract) : Holds(u, c, x) /\ SealedIn(tract, x) =>
                    x \notin drops /\ Reached(tract, MemS, x) /\ KindIn(tract, x) # "node"
    <3> TAKE x \in 1 .. Len(tract)
    <3> SUFFICES ASSUME Holds(u, c, x), SealedIn(tract, x)
                 PROVE  x \notin drops /\ Reached(tract, MemS, x) /\ KindIn(tract, x) # "node"
      OBVIOUS
    <3>1. x \in ToSet(F)
      BY <1>1, <1>10 DEF b
    <3>2. x # l /\ KindIn(tract, x) = "furrow" /\ Holds(tract, MemS[q], x)
      BY <1>3, <1>10, <1>11, <3>1
    <3> QED
      BY <1>4, <3>2 DEF Reached
  <2>7. /\ adds \subseteq (Len(tract) + 1) .. Len(u)
        /\ \A x \in (Len(tract) + 1) .. Len(u) : x \in adds <=> (SealedIn(u, x) /\ Holds(u, c, x))
    <3>1. (Len(tract) + 1) .. Len(u) = {c}
      BY <1>1, <1>2 DEF b
    <3> QED
      BY <1>1, <1>10, <3>1
  <2> HIDE DEF adds, drops, v
  <2>10. ChangeOK(u, At(End(mem, k), c), adds, drops, v, h, {k})
    BY <1>3, <2>1, <2>2, <2>3, <2>4, <2>5, <2>6, <2>7, SlotChange
  <2> QED
    BY <2>10 DEF v, adds, drops
<1> QED
  BY <1>3, <1>12 DEF h

\* A node repointed to its copy.
LEMMA NodeMoved ==
    ASSUME Inv, NEW l, NEW u, NEW c, Copied(l, u, c), KindIn(tract, l) = "node", Reached(tract, MemS, l),
           NEW q, q = tract[l].path
    PROVE  ChangeOK(u, At(q, c), {c}, {l}, want, lost.mem, {})
<1> DEFINE b == Len(tract)
           h == lost.mem
           over == At(q, c)
           A == UpTo(DOMAIN over)
           D == DOMAIN over
<1>1. /\ IsSeq(u) /\ Len(u) = c /\ c \in Nat /\ b \in Nat /\ c # Nil /\ c # Dirty
      /\ c \in 1 .. Len(u) /\ c \notin 1 .. b /\ b <= Len(u)
      /\ u[c] = tract[l] /\ KindIn(u, c) = "node" /\ SealedIn(u, c) /\ ~LeafIn(u, c)
      /\ FurrowsIn(u, c) = FurrowsIn(tract, l) /\ (\A s : KidIn(u, c, s) = KidIn(tract, l, s))
      /\ l # Nil /\ l # Dirty
  <2>1. SealedIn(tract, l) /\ ~LeafIn(tract, l)
    BY DEF Reached, LeafIn
  <2> QED
    BY <2>1, CopiedIs
<1>2. l \in 1 .. b /\ l \in Nat /\ c = b + 1
  BY <1>1 DEF Copied
<1>3. q \in Paths /\ MemS[q] = l /\ Shape(tract, MemS, b)
  <2> HIDE DEF b, h
  <2>1. b \in Nat /\ Tree(tract, MemS, want, h, b) /\ MemS = Slots(tract, mem)
    BY InvTrees DEF b, h
  <2> QED
    BY <1>2, <2>1, FoundAt DEF Tree
<1>4. D = {q} /\ over[q] = c /\ A = Above(q) /\ q \notin A
  BY <1>3, AtIs
<1> HIDE DEF over, A, D, b
<1>5. \A p \in A : KindIn(tract, MemS[p]) = "node" /\ ~LeafIn(tract, MemS[p])
  BY <1>1, <1>3, <1>4, PathFacts DEF Shape, LeafIn
<1>6. ~LeafIn(tract, MemS[q]) /\ \A p \in Paths : p \in A \/ p \in D => ~LeafIn(tract, MemS[p])
  BY <1>3, <1>4, <1>5 DEF LeafIn
<1>7. FurrowsIn(tract, l) = <<>> /\ ToSet(<<>>) = {} /\ SealedIn(tract, l)
  BY DEF FurrowsIn, ToSet, SealedIn
<1>8. (\A x : Holds(tract, l, x) <=> x = l) /\ (\A x : Holds(u, c, x) <=> x = c)
  BY <1>1, <1>7 DEF Holds
<1>9. D \subseteq Paths /\ A \cap D = {}
  BY <1>3, <1>4
<1>10. \A d \in D : /\ MemS[d] # Dirty /\ over[d] # Dirty
                    /\ \A s \in Chunks : KidIn(u, over[d], s) = KidIn(tract, MemS[d], s)
  BY <1>1, <1>3, <1>4
<1>11. Graft(tract, u, MemS, over, want, lost.mem, Len(u))
  <2>1. c \in 0 .. Len(u)
    BY <1>1
  <2> QED
    BY <1>1, <1>3, <1>4, <2>1 DEF Graft, D
<1>12. \A x \in 1 .. Len(tract) : x \in {l} /\ SealedIn(tract, x) =>
                \E p \in Paths : (p \in A \/ p \in D) /\ Holds(tract, MemS[p], x)
  BY <1>3, <1>4, <1>8
<1>13. \A p \in Paths, x \in 1 .. Len(tract) :
                (p \in A \/ p \in D) /\ (p \in D \/ LeafIn(tract, MemS[p]))
                /\ Holds(tract, MemS[p], x) /\ SealedIn(tract, x) /\ x \notin {l}
                    => \E d \in D : Holds(u, over[d], x)
  BY <1>3, <1>4, <1>6, <1>8
<1>14. \A d \in D, x \in 1 .. Len(tract) :
                Holds(u, over[d], x) /\ SealedIn(tract, x) =>
                    x \notin {l} /\ Reached(tract, MemS, x) /\ KindIn(tract, x) # "node"
  BY <1>1, <1>4, <1>8 DEF b
<1>15. /\ {c} \subseteq (Len(tract) + 1) .. Len(u)
       /\ \A x \in (Len(tract) + 1) .. Len(u) :
                x \in {c} <=> (SealedIn(u, x) /\ \E d \in D : Holds(u, over[d], x))
  <2>1. (Len(tract) + 1) .. Len(u) = {c}
    BY <1>1, <1>2 DEF b
  <2> QED
    BY <1>1, <1>4, <1>8, <2>1
<1>16. ChangeOK(u, over, {c}, {l}, want, lost.mem, {})
  BY <1>6, <1>9, <1>10, <1>11, <1>12, <1>13, <1>14, <1>15 DEF ChangeOK, A, D
<1> QED
  BY <1>16 DEF over

\* Moving a leaf or a node keeps the invariant.
LEMMA MoveBlockStep ==
    ASSUME Inv, MoveBlock
    PROVE  Inv'
<1> DEFINE l == NextUp
           c == Len(tract) + 1
           u == Append(tract, tract[l])
           q == Address(l)
<1>0. /\ pc = "reap" /\ work.left # {} /\ LeftOf({"furrow"}) = {}
      /\ head' = head /\ live' = live /\ reap' = reap /\ pendingReap' = pendingReap
      /\ saved' = saved /\ stray' = stray /\ pc' = pc /\ want' = want /\ lost' = lost /\ ops' = ops
      /\ work' = [work EXCEPT !.left = @ \ {l}]
      /\ l \in delta.removed => tract' = tract /\ mem' = mem /\ delta' = delta
      /\ l \notin delta.removed => tract' = u /\ Change(At(q, c), {c}, {l})
  BY DEF MoveBlock, space, ghosts, index, Plow
<1>1. l \in work.left /\ KindIn(tract, l) \in {"node", "lone", "extent"}
  BY <1>0, NextUpIs
<1>2. l \in Nat /\ l \in 1 .. Len(tract) /\ SealedIn(tract, l)
  BY <1>0, <1>1, LeftKinds
<1>3. q = IF KindIn(tract, l) = "node" THEN tract[l].path ELSE End(mem, tract[l].key)
  BY NowIs DEF Address
<1> HIDE DEF l, q
<1>4. /\ Basic /\ work.settled /\ ~work.repair /\ Pending = {} /\ WorkShape(work)
  <2>1. Pending = {}
    BY <1>0 DEF Pending
  <2>2. work.settled /\ ~work.repair
    BY <1>0 DEF Inv, Unsettled
  <2> QED
    BY <2>1, <2>2, InvTrees DEF Basic
<1>5. /\ WorkShape(work') /\ work'.settled /\ ~work'.repair /\ work'.upto = work.upto
      /\ work'.left = work.left \ {l}
  BY <1>0, <1>4 DEF WorkShape
<1>6. CASE l \in delta.removed
  <2>1. tract' = tract /\ mem' = mem /\ delta' = delta
    BY <1>0, <1>6
  <2>2. Trees' /\ MemS' = MemS /\ HeadS' = HeadS
    BY <1>0, <2>1, QuietTrees
  <2>3. LiveSetApply' = LiveSetApply /\ Pending' = {}
    BY <1>0, <2>1 DEF LiveSetApply, Pending
  <2>4. Basic'
    BY <1>0, <1>4, <1>5, <2>1 DEF Basic
  <2>5. Unsettled' /\ EraseInv' /\ WalkInv'
    BY <1>0, <1>5 DEF Unsettled, EraseInv, WalkInv
  <2>6. LiveInv' /\ CountInv'
    BY <1>0, <1>4, <1>5, <2>1, <2>2, <2>3 DEF Inv, LiveInv, CountInv
  <2>7. RetiredInv'
    BY <1>0, <1>4, <1>5, <2>1, <2>2 DEF Inv, RetiredInv
  <2>8. ~Reached(tract, MemS, l)
    BY <1>2, <1>4, <1>6 DEF Inv, LiveInv, LiveOK, LiveSetApply
  <2>9. Past(tract, MemS, work.upto, stray \cup (work.left \ {l}))
    <3>1. Past(tract, MemS, work.upto, stray \cup work.left)
      BY <1>0 DEF Inv, ReapInv
    <3> QED
      BY <2>8, <3>1 DEF Past
  <2>10. ReapInv'
    BY <1>0, <1>5, <2>1, <2>2, <2>9 DEF Inv, ReapInv
  <2> QED
    BY <2>2, <2>4, <2>5, <2>6, <2>7, <2>10 DEF Inv
<1>7. CASE l \notin delta.removed
  <2>1. tract' = u /\ Change(At(q, c), {c}, {l})
    BY <1>0, <1>7
  <2>2. Reached(tract, MemS, l)
    BY <1>0, <1>1, <1>7, LeftReached DEF Inv
  <2>3. Copied(l, u, c)
    BY <1>2 DEF Copied
  <2> HIDE DEF c, u
  <2>4. IsSeq(u) /\ Len(tract) <= Len(u) /\ \A x \in 1 .. Len(tract) : u[x] = tract[x]
    BY <2>3, CopiedIs
  <2>5. \E K0 : ChangeOK(u, At(q, c), {c}, {l}, want, lost.mem, K0)
    <3>1. CASE KindIn(tract, l) = "node"
      <4>1. q = tract[l].path
        BY <1>3, <3>1
      <4>2. ChangeOK(u, At(q, c), {c}, {l}, want, lost.mem, {})
        BY <2>2, <2>3, <3>1, <4>1, NodeMoved
      <4> QED
        BY <4>2
    <3>2. CASE KindIn(tract, l) # "node"
      <4> DEFINE k == tract[l].key
      <4>1. LeafIn(tract, l) /\ q = End(mem, k)
        BY <1>1, <1>3, <3>2 DEF LeafIn
      <4> HIDE DEF k
      <4>2. k = tract[l].key
        BY DEF k
      <4>3. ChangeOK(u, At(End(mem, k), c), {c}, {l}, want, lost.mem, {k})
        BY <2>2, <2>3, <4>1, <4>2, LeafMoved
      <4> QED
        BY <4>1, <4>3
    <3> QED
      BY <3>1, <3>2
  <2>6. PICK K0 : ChangeOK(u, At(q, c), {c}, {l}, want, lost.mem, K0)
    BY <2>5
  <2>7. /\ IsSeq(tract') /\ Len(tract) <= Len(tract') /\ \A x \in 1 .. Len(tract) : tract'[x] = tract[x]
        /\ pc' \in {"idle", "reap"} /\ ops' \in Nat /\ ops' <= MaxOps
    <3>1. ops' \in Nat /\ ops' <= MaxOps
      BY <1>0, <1>4 DEF Basic
    <3> QED
      BY <1>0, <2>1, <2>4, <3>1
  <2>8. /\ want' \in [Keys -> Values \cup {Absent}] /\ lost'.mem \subseteq Keys
        /\ lost' = [mem |-> lost'.mem, head |-> lost.head, past |-> lost.past]
    BY <1>0, <1>4 DEF Basic
  <2> DEFINE over == At(q, c)
             adds == {c}
             drops == {l}
  <2>9. ChangeOK(tract', over, adds, drops, want', lost'.mem, K0) /\ Change(over, adds, drops)
    BY <1>0, <2>1, <2>6
  <2>10. drops \subseteq 1 .. Len(tract)
    BY <1>2
  <2>11. /\ work'.left \subseteq work.left
         /\ \A x \in work'.left : KindIn(tract, x) = "furrow" => x \notin drops
         /\ \A x \in work.left : x \in work'.left \/ x \in drops
    BY <1>5
  <2> HIDE DEF over, adds, drops
  <2> QED
    BY <1>0, <1>4, <1>5, <2>7, <2>8, <2>9, <2>10, <2>11, ChangeStep
<1> QED
  BY <1>6, <1>7

\* The loss of a block keeps the invariant: only the keys that need it are hurt.
LEMMA RotStep ==
    ASSUME Inv, NEW l \in DOMAIN tract, Rot(l)
    PROVE  Inv'
<1> DEFINE u == [tract EXCEPT ![l] = Bad]
           m == FromRoot(head.root)
           b == head.plow
           h == lost.head
           h2 == lost.head \cup Needs(l)
           T == Cut(HeadS, l)
<1>0. /\ pc = "down" /\ ops < MaxOps /\ ops' = ops + 1 /\ l \in Reach(mem) /\ tract' = u
      /\ lost' = [mem |-> lost.mem \cup Needs(l), head |-> h2, past |-> TRUE]
      /\ head' = head /\ mem' = mem /\ delta' = delta /\ live' = live /\ reap' = reap
      /\ pendingReap' = pendingReap /\ pc' = pc /\ work' = work /\ want' = want /\ saved' = saved
      /\ stray' = stray
  BY DEF Rot, Op, index, space
<1>1. /\ Basic /\ Trees /\ b \in Nat /\ b <= Len(tract) /\ Len(tract) \in Nat /\ IsSeq(tract)
      /\ HeadS = Slots(tract, m) /\ Tree(tract, HeadS, saved, h, b)
      /\ DOMAIN tract = 1 .. Len(tract) /\ \A q \in Routes : HeadS[q] # Dirty
  BY InvTrees, SeqFacts DEF Basic, Trees
<1>2. /\ ~work.settled /\ mem = m /\ want = saved /\ lost.mem = lost.head /\ MemS = HeadS
  BY <1>0 DEF Inv, Unsettled, MemS, HeadS
<1>3. l \in 1 .. Len(tract) /\ l \in Nat \ {0} /\ l # -1
  BY <1>1
<1>4. /\ u = [x \in 1 .. Len(tract) |-> u[x]] /\ u[l].kind = "bad"
      /\ \A x \in 1 .. Len(tract) : x # l => u[x] = tract[x]
  BY <1>1, <1>3 DEF Bad
<1> HIDE DEF u
<1>5. IsSeq(u) /\ Len(u) = Len(tract)
  <2> DEFINE n == Len(tract)
  <2>1. n \in Nat /\ u = [x \in 1 .. n |-> u[x]]
    BY <1>1, <1>4
  <2> HIDE DEF n
  <2>2. IsSeq(u) /\ Len(u) = n
    BY <2>1, SeqOfFcn
  <2> QED
    BY <2>2 DEF n
<1>6. KindIn(u, l) = "bad"
  BY <1>3, <1>4 DEF KindIn, Nil, Dirty
<1>7. \A q \in Paths, k \in Keys : HeadS[q] = l /\ q \in Along(k) => k \in Needs(l)
  <2>1. \A q : Slot(mem, q) = HeadS[q]
    BY <1>2, NowIs DEF MemS
  <2>2. SUFFICES ASSUME NEW q \in Paths, NEW k \in Keys, HeadS[q] = l, q \in Along(k) PROVE k \in Needs(l)
    OBVIOUS
  <2>3. PICK n \in 0 .. Len(k) : q = Prefix(k, n)
    BY <2>2 DEF Along
  <2> QED
    BY <2>1, <2>2, <2>3 DEF Needs
<1>8. ASSUME NEW q \in Paths, LeafIn(tract, HeadS[q]), Holds(tract, HeadS[q], l)
      PROVE  tract[HeadS[q]].key \in Needs(l)
  <2> DEFINE k == tract[HeadS[q]].key
             S == HeadS
  <2> HIDE DEF b, h
  <2>1. LeafOK(tract, S[q], q, saved, h, b)
    BY <1>1, <1>8 DEF Tree, Leaves
  <2>2. k \in Keys /\ q \in Along(k)
    BY <2>1 DEF LeafOK
  <2>3. S = Slots(tract, mem) /\ Tree(tract, S, saved, h, b)
    BY <1>1, <1>2
  <2> HIDE DEF S, k
  <2>4. LeafIn(tract, S[q]) /\ tract[S[q]].key = k
    BY <1>8 DEF S, k
  <2>5. FindLeaf(mem, k) = S[q]
    BY <1>1, <2>2, <2>3, <2>4, FindIs
  <2>6. CASE l = S[q]
    BY <1>7, <2>2, <2>6 DEF S, k
  <2>7. CASE l \in ToSet(FurrowsIn(tract, S[q]))
    <3>1. FurrowsOf(FindLeaf(mem, k)) = FurrowsIn(tract, S[q])
      BY <2>5, NowIs
    <3>2. k \in Needs(l)
      BY <2>2, <2>7, <3>1 DEF Needs
    <3> QED
      BY <3>2 DEF k
  <2> QED
    BY <1>8, <2>6, <2>7 DEF Holds, S
<1> HIDE DEF m, b, h
<1>9. HurtBy(tract, u, m, HeadS, saved, h, b, l, h2)
  <2>1. <<>> \in DOMAIN m /\ \A q \in DOMAIN m : Above(q) = {}
    BY RootIs DEF m
  <2>2. h \subseteq h2 /\ Needs(l) \subseteq h2
    BY DEF h
  <2>3. \A x \in 1 .. b : x # l => u[x] = tract[x]
    BY <1>1, <1>4
  <2> HIDE DEF h2
  <2>4. \A q \in Paths, k \in Keys : HeadS[q] = l /\ q \in Along(k) => k \in h2
    BY <1>7, <2>2
  <2>5. \A q \in Paths : LeafIn(tract, HeadS[q]) /\ Holds(tract, HeadS[q], l) => tract[HeadS[q]].key \in h2
    BY <1>8, <2>2
  <2> QED
    BY <1>1, <1>3, <1>6, <2>1, <2>2, <2>3, <2>4, <2>5 DEF HurtBy
<1> HIDE DEF h2
<1>10. Slots(u, m) = Cut(HeadS, l) /\ Tree(u, Cut(HeadS, l), saved, h2, b)
  BY <1>9, Hurt
<1>11. \A q \in Routes : T[q] # Dirty
  BY <1>1 DEF Cut, Nil, Dirty
<1> HIDE DEF T
<1>12. Slots(u, m) = T /\ Tree(u, T, saved, h2, b)
  BY <1>10 DEF T
<1>13. Arena(m, T)
  <2> DEFINE c == head.root
  <2> HIDE DEF c
  <2>1. T = Slots(u, FromRoot(c))
    BY <1>12 DEF m, c
  <2>2. Arena(FromRoot(c), T)
    BY <1>11, <2>1, ArenaRoot
  <2> QED
    BY <2>2 DEF m, c
<1>14. Tree(u, T, saved, h2, Len(tract))
  <2> DEFINE n == Len(tract)
  <2>1. n \in Nat /\ b <= n
    BY <1>1
  <2> HIDE DEF n
  <2>2. Tree(u, T, saved, h2, n)
    BY <1>1, <1>12, <2>1, TreeWiden
  <2> QED
    BY <2>2 DEF n
<1>15. MemS' = T /\ HeadS' = T
  BY <1>0, <1>2, <1>12 DEF MemS, HeadS, m
<1>16. lost'.mem = h2 /\ lost'.head = h2 /\ lost'.past /\ h2 \subseteq Keys
       /\ lost' = [mem |-> lost'.mem, head |-> lost'.head, past |-> lost'.past]
  <2>1. lost'.past = TRUE
    BY <1>0
  <2>2. h2 \subseteq Keys
    BY <1>1 DEF h2, Needs, Basic
  <2>3. lost'.mem = h2 /\ lost'.head = h2
        /\ lost' = [mem |-> lost'.mem, head |-> lost'.head, past |-> lost'.past]
    BY <1>0, <1>2 DEF h2
  <2> QED
    BY <2>1, <2>2, <2>3, Zenon
<1>17. Trees'
  BY <1>0, <1>2, <1>5, <1>11, <1>12, <1>13, <1>14, <1>15, <1>16 DEF Trees, b
<1>18. Basic'
  <2>1. ops' \in Nat /\ ops' <= MaxOps
    BY <1>0, <1>1, HamtAssumption DEF Basic
  <2> QED
    BY <1>0, <1>1, <1>5, <1>16, <2>1 DEF Basic
<1>19. Unsettled'
  BY <1>0, <1>2, <1>16 DEF Inv, Unsettled
<1>20. LiveInv' /\ EraseInv' /\ ReapInv' /\ RetiredInv' /\ WalkInv' /\ CountInv'
  BY <1>0, <1>2, <1>16 DEF LiveInv, EraseInv, ReapInv, RetiredInv, WalkInv, CountInv
<1> QED
  BY <1>17, <1>18, <1>19, <1>20 DEF Inv

\* The pointers one step of the walk reads, and those it leaves.
LEMMA PartIs ==
    ASSUME IsSeq(work.todo)
    PROVE  /\ IsSeq(Part) /\ IsSeq(Rest)
           /\ \A x : x \in ToSet(work.todo) <=> x \in ToSet(Rest) \/ x \in ToSet(Part)
<1> DEFINE s == work.todo
           n == Len(s)
           w == Max({0, n - WalkStep})
           X == ToSet(s)
<1>1. n \in Nat /\ DOMAIN s = 1 .. n /\ X = {s[i] : i \in 1 .. n} /\ WalkStep \in Nat \ {0}
  BY SeqFacts, HamtAssumption
<1>2. w \in 0 .. n
  <2> DEFINE Y == {0, n - WalkStep}
  <2>1. Y \in SUBSET Int
    BY <1>1
  <2>2. CASE n - WalkStep <= 0
    <3>1. 0 \in Y /\ \A y \in Y : y <= 0
      BY <1>1, <2>2
    <3> HIDE DEF Y
    <3>2. Max(Y) = 0
      BY <2>1, <3>1, MaxIs
    <3> QED
      BY <1>1, <3>2 DEF Y
  <2>3. CASE n - WalkStep > 0
    <3> DEFINE d == n - WalkStep
    <3>1. d \in Y /\ (\A y \in Y : y <= d) /\ d \in 0 .. n
      BY <1>1, <2>3
    <3> HIDE DEF Y, d
    <3>2. Max(Y) = d
      BY <2>1, <3>1, MaxIs
    <3> QED
      BY <3>1, <3>2 DEF Y
  <2> QED
    BY <1>1, <2>2, <2>3
<1>3. Part = SubSeq(s, w + 1, n) /\ Rest = SubSeq(s, 1, w)
  BY DEF Part, Rest
<1> HIDE DEF s, n, w, X
<1>4. /\ SubSeq(s, w + 1, n) \in Seq(X) /\ Len(SubSeq(s, w + 1, n)) = n - w
      /\ \A i \in 1 .. (n - w) : SubSeq(s, w + 1, n)[i] = s[w + i]
  <2> DEFINE a == w + 1
  <2>1. a \in Int /\ n \in Int /\ (\A i \in a .. n : s[i] \in X)
    BY <1>1, <1>2
  <2> HIDE DEF a
  <2>2. /\ SubSeq(s, a, n) \in Seq(X) /\ Len(SubSeq(s, a, n)) = IF a <= n THEN n - a + 1 ELSE 0
        /\ \A i \in 1 .. n - a + 1 : SubSeq(s, a, n)[i] = s[a + i - 1]
    BY <2>1, SubSeqProperties
  <2>3. (IF a <= n THEN n - a + 1 ELSE 0) = n - w /\ n - a + 1 = n - w /\ \A i \in 1 .. (n - w) : a + i - 1 = w + i
    BY <1>1, <1>2 DEF a
  <2>4. \A i \in 1 .. (n - w) : SubSeq(s, a, n)[i] = s[w + i]
    BY <2>2, <2>3
  <2>5. Len(SubSeq(s, a, n)) = n - w
    BY <2>2, <2>3
  <2> QED
    BY <2>2, <2>4, <2>5 DEF a
<1>5. /\ SubSeq(s, 1, w) \in Seq(X) /\ Len(SubSeq(s, 1, w)) = w
      /\ \A i \in 1 .. w : SubSeq(s, 1, w)[i] = s[i]
  <2>1. \A i \in 1 .. w : s[i] \in X
    BY <1>1, <1>2
  <2>2. /\ SubSeq(s, 1, w) \in Seq(X) /\ Len(SubSeq(s, 1, w)) = IF 1 <= w THEN w - 1 + 1 ELSE 0
        /\ \A i \in 1 .. w - 1 + 1 : SubSeq(s, 1, w)[i] = s[1 + i - 1]
    BY <1>2, <2>1, SubSeqProperties
  <2>3. w - 1 + 1 = w /\ (IF 1 <= w THEN w - 1 + 1 ELSE 0) = w /\ \A i \in 1 .. w : 1 + i - 1 = i
    BY <1>1, <1>2
  <2>4. \A i \in 1 .. w : SubSeq(s, 1, w)[i] = s[i]
    BY <2>2, <2>3
  <2> QED
    BY <2>2, <2>3, <2>4
<1> DEFINE A == SubSeq(s, w + 1, n)
           B == SubSeq(s, 1, w)
<1> HIDE DEF A, B
<1>6. /\ IsSeq(A) /\ IsSeq(B) /\ Len(A) = n - w /\ Len(B) = w
      /\ (\A i \in 1 .. (n - w) : A[i] = s[w + i]) /\ (\A i \in 1 .. w : B[i] = s[i])
  BY <1>4, <1>5, SeqIs DEF A, B
<1>7. ToSet(A) = {A[i] : i \in 1 .. (n - w)} /\ ToSet(B) = {B[i] : i \in 1 .. w}
  BY <1>6, SeqFacts
<1>8. ASSUME NEW x PROVE x \in X <=> x \in ToSet(B) \/ x \in ToSet(A)
  <2>1. ASSUME x \in X PROVE x \in ToSet(B) \/ x \in ToSet(A)
    <3>1. PICK i \in 1 .. n : x = s[i]
      BY <1>1, <2>1
    <3>2. CASE i <= w
      <4>1. i \in 1 .. w
        BY <1>1, <1>2, <3>2
      <4> QED
        BY <1>6, <1>7, <3>1, <4>1
    <3>3. CASE i > w
      <4>1. i - w \in 1 .. (n - w) /\ w + (i - w) = i
        BY <1>1, <1>2, <3>3
      <4> QED
        BY <1>6, <1>7, <3>1, <4>1
    <3> QED
      BY <1>1, <1>2, <3>2, <3>3
  <2>2. /\ \A i \in 1 .. w : i \in 1 .. n
        /\ \A i \in 1 .. (n - w) : w + i \in 1 .. n
    BY <1>1, <1>2
  <2>3. x \in ToSet(B) => x \in X
    BY <1>1, <1>6, <1>7, <2>2
  <2>4. x \in ToSet(A) => x \in X
    BY <1>1, <1>6, <1>7, <2>2
  <2> QED
    BY <2>1, <2>3, <2>4
<1> QED
  BY <1>3, <1>6, <1>8 DEF A, B, s, X

\* The pointers under one the walk has read.
LEMMA KidsIs ==
    ASSUME Inv, ~work.settled, NEW q \in Paths, MemS[q] # Nil
    PROVE  /\ IsSeq(KidsToWalk(q))
           /\ \A p : p \in ToSet(KidsToWalk(q)) <=>
                 \E s \in Chunks : p = Append(q, s) /\ MemS[Append(q, s)] # Nil
<1> DEFINE c == MemS[q]
           slots == IF KindIn(tract, c) = "node" THEN {s \in Chunks : tract[c].kids[s] # Nil} ELSE {}
           number == [s \in slots |-> s]
           f == SortedBy(slots, number)
           n == Cardinality(slots)
<1>1. KidsToWalk(q) = [j \in 1 .. n |-> Append(q, f[j])]
  <2>1. Slot(mem, q) = c /\ Kind(c) = KindIn(tract, c)
    BY NowIs DEF MemS
  <2> QED
    BY <2>1 DEF KidsToWalk
<1>2. /\ Basic /\ Trees /\ mem = FromRoot(head.root) /\ MemS = HeadS /\ Len(tract) \in Nat
      /\ MemS = Slots(tract, mem) /\ DOMAIN mem = {<<>>} /\ q \in Routes
      /\ Shape(tract, MemS, Len(tract))
  BY InvTrees, RootIs, PathFacts DEF Inv, Unsettled, MemS, HeadS, Tree
<1>3. c # Dirty /\ c \in -1 .. Len(tract) /\ c > 0
  <2>1. c # Dirty /\ c \in -1 .. Len(tract)
    BY <1>2 DEF Trees, Shape
  <2> QED
    BY <1>2, <2>1 DEF Nil, Dirty
<1>4. ASSUME NEW s \in Chunks PROVE MemS[Append(q, s)] = KidIn(tract, c, s)
  <2> DEFINE p == Append(q, s)
  <2>1. p \in Routes /\ p # <<>> /\ Front(p) = q /\ Last(p) = s
    BY RouteAppend
  <2>2. MemS[p] = SlotStep(tract, mem, MemS, p)
    BY <1>2, <2>1, SlotsUnfold
  <2> HIDE DEF p
  <2>3. MemS[p] = KidIn(tract, c, s)
    BY <1>2, <2>1, <2>2 DEF SlotStep
  <2> QED
    BY <2>3 DEF p
<1>5. \A s : s \in slots <=> s \in Chunks /\ MemS[Append(q, s)] # Nil
  <2>1. \A s \in Chunks : KidIn(tract, c, s) # Nil <=> KindIn(tract, c) = "node" /\ tract[c].kids[s] # Nil
    BY <1>3 DEF KidIn
  <2> QED
    BY <1>4, <2>1
<1>6. IsFiniteSet(slots) /\ \A s \in slots : number[s] \in Nat
  <2>1. slots \subseteq Chunks
    OBVIOUS
  <2>2. \A s \in slots : number[s] = s
    OBVIOUS
  <2>3. Chunks \subseteq Nat /\ IsFiniteSet(Chunks)
    BY HamtAssumption
  <2> HIDE DEF slots, number
  <2> QED
    BY <2>1, <2>2, <2>3, FS_Subset
<1> HIDE DEF slots, number
<1>7. IsSeq(f) /\ Len(f) = n /\ n \in Nat /\ ToSet(f) = slots
  BY <1>6, SortedByIs
<1> HIDE DEF f, n
<1>8. IsSeq(KidsToWalk(q)) /\ Len(KidsToWalk(q)) = n
  <2> DEFINE g == KidsToWalk(q)
  <2>1. g = [j \in 1 .. n |-> g[j]]
    BY <1>1
  <2> HIDE DEF g
  <2>2. IsSeq(g) /\ Len(g) = n
    BY <1>7, <2>1, SeqOfFcn
  <2> QED
    BY <2>2 DEF g
<1>9. ASSUME NEW p PROVE p \in ToSet(KidsToWalk(q)) <=> \E s \in slots : p = Append(q, s)
  <2>1. ToSet(KidsToWalk(q)) = {KidsToWalk(q)[j] : j \in 1 .. n}
    BY <1>8, SeqFacts
  <2>2. p \in ToSet(KidsToWalk(q)) <=> \E j \in 1 .. n : p = Append(q, f[j])
    BY <1>1, <2>1
  <2>3. slots = {f[j] : j \in 1 .. n}
    BY <1>7, SeqFacts
  <2> QED
    BY <2>2, <2>3
<1> QED
  BY <1>5, <1>8, <1>9

\* One step of the walk of a lazy open keeps the invariant.
LEMMA SettleStepStep ==
    ASSUME Inv, SettleStep
    PROVE  Inv'
<1>0. /\ pc = "idle" /\ ~work.settled /\ ~work.failed /\ work.todo # <<>> /\ work' = WalkTreeStep
      /\ tract' = tract /\ head' = head /\ mem' = mem /\ delta' = delta /\ live' = live
      /\ reap' = reap /\ pendingReap' = pendingReap /\ want' = want /\ pc' = pc
      /\ saved' = saved /\ lost' = lost /\ stray' = stray /\ ops' = ops
  BY DEF SettleStep, index, space, ghosts
<1> DEFINE taken == {Slot(mem, Taken[j]) : j \in DOMAIN Taken}
           kids == [j \in DOMAIN Taken |-> KidsToWalk(Taken[j])]
           newOut == UNION {{c} \cup ToSet(FurrowsOf(c)) : c \in {c \in taken : Kind(c) # "zero"}}
           newStale == {Taken[j] : j \in {j \in DOMAIN Taken : Kind(Slot(mem, Taken[j])) = "zero"}}
<1>1. WorkShape(work) /\ ~work.repair
  BY <1>0 DEF Inv, Basic, Unsettled
<1>2. /\ WorkShape(work') /\ work'.settled = work.settled /\ work'.repair = work.repair
      /\ work'.todo = Rest \o FlattenSeq(kids) /\ work'.out = work.out \cup newOut
      /\ work'.stale = work.stale \cup newStale /\ (work'.failed <=> Unreadable # {})
  BY <1>0, <1>1 DEF WorkShape, WalkTreeStep
<1>3. Trees' /\ MemS' = MemS /\ HeadS' = HeadS
  BY <1>0, QuietTrees
<1>4. Basic'
  BY <1>0, <1>2 DEF Inv, Basic
<1>5. Unsettled' /\ ReapInv' /\ EraseInv' /\ RetiredInv' /\ LiveInv'
  BY <1>0, <1>1, <1>2 DEF Inv, Unsettled, ReapInv, EraseInv, RetiredInv, LiveInv
<1>6. CountInv'
  BY <1>0, <1>2, <1>3 DEF Inv, CountInv
<1>7. WalkInv'
  <2> SUFFICES ASSUME ~work'.failed PROVE WalkInv'
    BY DEF WalkInv
  <2>1. /\ IsSeq(work.todo)
        /\ \A j \in 1 .. Len(work.todo) : work.todo[j] \in Paths /\ MemS[work.todo[j]] # Nil
        /\ \A q \in Paths : MemS[q] # Nil =>
              Read(q) \/ \E j \in 1 .. Len(work.todo) : work.todo[j] \in Above(q) \cup {q}
        /\ \A l \in work.out : \E q \in Paths : Holds(tract, MemS[q], l)
        /\ \A q \in work.stale : q \in Paths /\ KindIn(tract, MemS[q]) = "zero"
    BY <1>0 DEF Inv, WalkInv
  <2>2. ToSet(work.todo) = {work.todo[j] : j \in 1 .. Len(work.todo)}
    BY <2>1, SeqFacts
  <2>3. /\ \A p \in ToSet(work.todo) : p \in Paths /\ MemS[p] # Nil
        /\ \A q \in Paths : MemS[q] # Nil => Read(q) \/ \E p \in ToSet(work.todo) : p \in Above(q) \cup {q}
    BY <2>1, <2>2
  <2>4. /\ IsSeq(Part) /\ IsSeq(Rest)
        /\ \A x : x \in ToSet(work.todo) <=> x \in ToSet(Rest) \/ x \in ToSet(Part)
    BY <2>1, PartIs
  <2>5. Unreadable = {} /\ Taken = Part
    BY <1>2 DEF Taken
  <2>6. DOMAIN Taken = 1 .. Len(Taken) /\ Len(Taken) \in Nat /\ IsSeq(Taken)
        /\ ToSet(Taken) = {Taken[j] : j \in 1 .. Len(Taken)}
        /\ \A x : x \in ToSet(work.todo) <=> x \in ToSet(Rest) \/ x \in ToSet(Taken)
    BY <2>4, <2>5, SeqFacts
  <2>7. \A p : Slot(mem, p) = MemS[p]
    BY NowIs DEF MemS
  <2>8. /\ \A c : Kind(c) = KindIn(tract, c)
        /\ \A c : FurrowsOf(c) = FurrowsIn(tract, c)
    BY NowIs
  <2>9. \A p \in ToSet(Taken) : KindIn(tract, MemS[p]) # "bad" /\ p \in Paths /\ MemS[p] # Nil
    <3>1. \A j \in DOMAIN Part : KindIn(tract, MemS[Part[j]]) # "bad"
      BY <2>5, <2>7, <2>8 DEF Unreadable
    <3>2. \A p \in ToSet(Taken) : KindIn(tract, MemS[p]) # "bad"
      BY <2>5, <2>6, <3>1
    <3> QED
      BY <2>3, <2>6, <3>2
  <2>10. /\ IsSeq(kids) /\ Len(kids) = Len(Taken)
         /\ \A j \in 1 .. Len(kids) : kids[j] = KidsToWalk(Taken[j]) /\ IsSeq(kids[j])
    <3>1. kids = [j \in 1 .. Len(Taken) |-> KidsToWalk(Taken[j])]
      BY <2>6
    <3> HIDE DEF kids
    <3>2. kids = [j \in 1 .. Len(Taken) |-> kids[j]] /\ \A j \in 1 .. Len(Taken) : kids[j] = KidsToWalk(Taken[j])
      BY <3>1
    <3> DEFINE n == Len(Taken)
    <3>3. n \in Nat /\ kids = [j \in 1 .. n |-> kids[j]]
      BY <2>6, <3>2
    <3> HIDE DEF n
    <3>4. IsSeq(kids) /\ Len(kids) = n
      BY <3>3, SeqOfFcn
    <3>5. \A j \in 1 .. Len(Taken) : Taken[j] \in ToSet(Taken)
      BY <2>6
    <3>6. \A j \in 1 .. Len(Taken) : IsSeq(KidsToWalk(Taken[j]))
      BY <1>0, <2>9, <3>5, KidsIs
    <3> QED
      BY <3>2, <3>4, <3>6 DEF n
  <2> HIDE DEF kids
  <2>11. /\ IsSeq(FlattenSeq(kids))
         /\ \A x : x \in ToSet(FlattenSeq(kids)) <=> \E j \in 1 .. Len(kids) : x \in ToSet(kids[j])
    BY <2>10, FlatFacts
  <2>12. \A x : x \in ToSet(FlattenSeq(kids)) <=> \E p \in ToSet(Taken) : x \in ToSet(KidsToWalk(p))
    BY <2>6, <2>10, <2>11
  <2>13. \A x : x \in ToSet(FlattenSeq(kids)) <=>
            \E p \in ToSet(Taken) : \E s \in Chunks : x = Append(p, s) /\ MemS[Append(p, s)] # Nil
    <3>1. \A p \in ToSet(Taken) : \A x : x \in ToSet(KidsToWalk(p)) <=>
                 \E s \in Chunks : x = Append(p, s) /\ MemS[Append(p, s)] # Nil
      BY <1>0, <2>9, KidsIs
    <3> QED
      BY <2>12, <3>1
  <2>14. /\ IsSeq(work'.todo)
         /\ \A x : x \in ToSet(work'.todo) <=> x \in ToSet(Rest) \/ x \in ToSet(FlattenSeq(kids))
    <3> DEFINE fl == FlattenSeq(kids)
    <3> HIDE DEF fl
    <3>1. IsSeq(fl) /\ IsSeq(Rest) /\ work'.todo = Rest \o fl
      BY <1>2, <2>4, <2>11 DEF fl
    <3>2. IsSeq(Rest \o fl) /\ ToSet(Rest \o fl) = ToSet(Rest) \cup ToSet(fl)
      BY <3>1, SeqConcat
    <3> QED
      BY <3>1, <3>2 DEF fl
  <2>15. \A x \in ToSet(work'.todo) : x \in Paths /\ MemS[x] # Nil
    <3>1. SUFFICES ASSUME NEW x \in ToSet(FlattenSeq(kids)) PROVE x \in Paths /\ MemS[x] # Nil
      BY <2>3, <2>6, <2>14
    <3>2. PICK p \in ToSet(Taken), s \in Chunks : x = Append(p, s) /\ MemS[Append(p, s)] # Nil
      BY <2>13, <3>1
    <3>3. x \in Routes
      BY <2>9, <3>2, RouteAppend
    <3> QED
      BY <3>2, <3>3, InvTrees DEF Tree, Shape
  <2>16. \A p \in ToSet(Taken) : Read(p)'
    <3> TAKE p \in ToSet(Taken)
    <3>1. PICK j \in 1 .. Len(Taken) : p = Taken[j]
      BY <2>6
    <3>2. MemS[p] \in taken
      BY <2>6, <2>7, <3>1
    <3>3. KindIn(tract, MemS[p]) = "zero" => p \in newStale
      BY <2>6, <2>7, <2>8, <3>1
    <3>4. KindIn(tract, MemS[p]) # "zero" => MemS[p] \in newOut /\ ToSet(FurrowsIn(tract, MemS[p])) \subseteq newOut
      <4> HIDE DEF taken
      <4>1. \A c \in taken : Kind(c) # "zero" => \A x \in {c} \cup ToSet(FurrowsOf(c)) : x \in newOut
        BY Zenon
      <4> HIDE DEF newOut
      <4> QED
        BY <2>8, <3>2, <4>1
    <3> HIDE DEF newOut, newStale
    <3> QED
      BY <1>0, <1>2, <1>3, <2>9, <3>3, <3>4 DEF Read
  <2>17. ASSUME NEW q \in Paths, MemS[q] # Nil
         PROVE  Read(q)' \/ \E p \in ToSet(work'.todo) : p \in Above(q) \cup {q}
    <3> HIDE DEF newOut, newStale
    <3>1. CASE Read(q)
      BY <1>0, <1>2, <1>3, <3>1 DEF Read
    <3>2. CASE \E p \in ToSet(work.todo) : p \in Above(q) \cup {q}
      <4>1. PICK p \in ToSet(work.todo) : p \in Above(q) \cup {q}
        BY <3>2
      <4>2. CASE p \in ToSet(Rest)
        BY <2>14, <4>1, <4>2
      <4>3. CASE p \in ToSet(Taken) /\ p = q
        BY <2>16, <4>3
      <4>4. CASE p \in ToSet(Taken) /\ p \in Above(q)
        <5>1. q \in Routes
          BY PathFacts
        <5>2. PICK s \in Chunks : Append(p, s) \in Above(q) \cup {q}
          BY <4>4, <5>1, AboveAbove
        <5>3. MemS[Append(p, s)] # Nil
          <6>1. \A r \in Above(q) : KindIn(tract, MemS[r]) = "node"
            BY <2>17, <5>1, InvTrees DEF Tree, Shape
          <6> QED
            BY <2>17, <5>2, <6>1, KindNil
        <5>4. Append(p, s) \in ToSet(FlattenSeq(kids))
          BY <2>13, <4>4, <5>3
        <5> QED
          BY <2>14, <5>2, <5>4
      <4> QED
        BY <2>6, <4>1, <4>2, <4>3, <4>4
    <3> QED
      BY <2>3, <2>17, <3>1, <3>2
  <2>18. \A l \in work'.out : \E q \in Paths : Holds(tract, MemS[q], l)
    <3>1. SUFFICES ASSUME NEW l \in newOut PROVE \E q \in Paths : Holds(tract, MemS[q], l)
      BY <1>2, <2>1
    <3>2. \A c : c \in taken <=> \E j \in 1 .. Len(Taken) : c = MemS[Taken[j]]
      BY <2>6, <2>7
    <3> HIDE DEF taken
    <3>3. \E c \in taken : Kind(c) # "zero" /\ l \in {c} \cup ToSet(FurrowsOf(c))
      BY <3>1, Zenon
    <3>4. PICK c \in taken : Kind(c) # "zero" /\ l \in {c} \cup ToSet(FurrowsOf(c))
      BY <3>3
    <3>5. PICK j \in 1 .. Len(Taken) : c = MemS[Taken[j]]
      BY <3>2, <3>4
    <3> DEFINE p == Taken[j]
    <3>6. p \in ToSet(Taken)
      BY <2>6
    <3> HIDE DEF p
    <3>7. p \in Paths /\ MemS[p] # Nil /\ KindIn(tract, MemS[p]) # "bad" /\ c = MemS[p]
      BY <2>9, <3>5, <3>6 DEF p
    <3>8. KindIn(tract, c) \in {"node", "lone", "extent", "zero", "bad"}
      BY <3>7, InvTrees, PathFacts DEF Tree, Shape
    <3>9. SealedIn(tract, c)
      BY <2>8, <3>4, <3>7, <3>8 DEF SealedIn
    <3> QED
      BY <2>8, <3>4, <3>7, <3>9 DEF Holds
  <2>19. \A q \in work'.stale : q \in Paths /\ KindIn(tract, MemS[q]) = "zero"
    <3>1. SUFFICES ASSUME NEW q \in newStale PROVE q \in Paths /\ KindIn(tract, MemS[q]) = "zero"
      BY <1>2, <2>1
    <3>2. PICK j \in DOMAIN Taken : q = Taken[j] /\ Kind(Slot(mem, Taken[j])) = "zero"
      BY <3>1
    <3> QED
      BY <2>6, <2>7, <2>8, <2>9, <3>2
  <2> HIDE DEF newOut, newStale, taken
  <2> DEFINE todo == work'.todo
  <2>20. ToSet(todo) = {todo[j] : j \in 1 .. Len(todo)}
    BY <2>14, SeqFacts
  <2>21. \A j \in 1 .. Len(todo) : todo[j] \in Paths /\ MemS[todo[j]] # Nil
    BY <2>15, <2>20
  <2>22. \A q \in Paths : MemS[q] # Nil =>
              Read(q)' \/ \E j \in 1 .. Len(todo) : todo[j] \in Above(q) \cup {q}
    BY <2>17, <2>20
  <2> QED
    BY <1>0, <1>3, <2>14, <2>18, <2>19, <2>21, <2>22 DEF WalkInv
<1> QED
  BY <1>3, <1>4, <1>5, <1>6, <1>7 DEF Inv

\* What the walk of an open knows at its end: the pointers to unlink, and the
\* blocks of all the others.
Opening(blocks, pruned, repairing) ==
    /\ \A q \in pruned : /\ q \in Paths /\ MemS[q] # Nil /\ KindIn(tract, MemS[q]) # "node"
                         /\ LeafIn(tract, MemS[q]) => tract[MemS[q]].key \in lost.mem
    /\ \A l : l \in blocks <=> \E q \in Paths : q \notin pruned /\ Holds(tract, MemS[q], l)
    /\ \A q \in Paths : q \notin pruned => KindIn(tract, MemS[q]) # "bad"
    /\ ~(repairing /\ pruned # {}) => \A q \in pruned : ~SealedIn(tract, MemS[q])

\* The blocks under the pointers an open unlinks.
Cast(pruned) == {l \in 1 .. Len(tract) : \E q \in pruned : Holds(tract, MemS[q], l)}

\* The keys under them.
Given(pruned) == {k \in lost.mem : \E q \in pruned : IsPrefix(q, k)}

\* Before an open is settled the session is the head.
LEMMA UnsettledIs ==
    ASSUME Inv, ~work.settled
    PROVE  /\ Basic /\ Trees /\ Len(tract) \in Nat /\ MemS = Slots(tract, mem) /\ MemS = HeadS
           /\ Tree(tract, MemS, want, lost.mem, Len(tract)) /\ Shape(tract, MemS, Len(tract))
           /\ (\A q \in Routes : MemS[q] # Dirty) /\ (\A q \in Paths : MemS[q] # Dirty)
           /\ delta = NoDelta /\ want = saved /\ lost.mem = lost.head /\ stray = {} /\ pendingReap = 0
           /\ (lost.past \/ lost.mem = {})
           /\ \A q \in Paths : SealedIn(tract, MemS[q]) => KindIn(tract, MemS[q]) \in {"node", "lone", "extent"}
<1>1. /\ Basic /\ Trees /\ Len(tract) \in Nat /\ MemS = Slots(tract, mem)
      /\ Tree(tract, MemS, want, lost.mem, Len(tract)) /\ Shape(tract, MemS, Len(tract))
  BY InvTrees DEF Tree
<1>2. /\ mem = FromRoot(head.root) /\ delta = NoDelta /\ want = saved /\ lost.mem = lost.head
      /\ stray = {} /\ pendingReap = 0 /\ (lost.past \/ lost.head = {})
  BY DEF Inv, Unsettled
<1>3. MemS = HeadS
  BY <1>2 DEF MemS, HeadS
<1>4. \A q \in Routes : MemS[q] # Dirty
  BY <1>1, <1>3 DEF Trees
<1>5. \A q \in Paths : SealedIn(tract, MemS[q]) => KindIn(tract, MemS[q]) \in {"node", "lone", "extent"}
  BY <1>1, PathFacts, KindNil DEF Shape, SealedIn
<1> QED
  BY <1>1, <1>2, <1>3, <1>4, <1>5, PathFacts

\* Unlinking them is a change of the index that gives up the keys under them.
LEMMA PruneOK ==
    ASSUME Inv, ~work.settled, NEW blocks, NEW pruned, NEW repairing, Opening(blocks, pruned, repairing),
           NEW over, over = [q \in pruned |-> Nil],
           NEW v2, v2 = [k \in Keys |-> IF k \in Given(pruned) THEN Absent ELSE want[k]],
           NEW h2, h2 = lost.mem \ Given(pruned)
    PROVE  ChangeOK(tract, over, {}, Cast(pruned), v2, h2, Given(pruned))
<1> DEFINE A == UpTo(DOMAIN over)
           D == DOMAIN over
           G == Given(pruned)
           S == MemS
           b == Len(tract)
           h == lost.mem
<1>0. /\ Basic /\ b \in Nat /\ Tree(tract, S, want, h, b) /\ Shape(tract, S, b)
      /\ (\A q \in Paths : S[q] # Dirty)
  BY UnsettledIs
<1>1. /\ \A q \in pruned : /\ q \in Paths /\ S[q] # Nil /\ KindIn(tract, S[q]) # "node"
                           /\ LeafIn(tract, S[q]) => tract[S[q]].key \in h
      /\ \A q \in Paths : q \notin pruned => KindIn(tract, S[q]) # "bad"
  BY DEF Opening
<1>2. D = pruned /\ D \subseteq Paths /\ \A q \in D : over[q] = Nil
  BY <1>1
<1>3. \A p : p \in A <=> \E q \in D : p \in Above(q)
  BY <1>2, UpToIs
<1>4. \A k : k \in G <=> k \in h /\ \E q \in D : q \in Along(k)
  <2>1. \A k : k \in G <=> k \in h /\ \E q \in pruned : IsPrefix(q, k)
    BY DEF Given
  <2>2. h \subseteq Keys
    BY <1>0 DEF Basic
  <2> QED
    BY <1>2, <2>1, <2>2, PrefixAlong
<1>5. /\ \A k \in Keys : k \in G => v2[k] = Absent
      /\ \A k \in Keys : k \notin G => v2[k] = want[k]
      /\ \A k : k \in h2 <=> k \in h /\ k \notin G
  OBVIOUS
<1> HIDE DEF A, D, G, S, h
<1>6. \A p \in A : KindIn(tract, S[p]) = "node"
  <2> TAKE p \in A
  <2>1. PICK q \in D : p \in Above(q)
    BY <1>3
  <2> QED
    BY <1>0, <1>1, <1>2, <2>1, PathFacts DEF Shape
<1>7. A \cap D = {}
  BY <1>1, <1>2, <1>6
<1>8. /\ KindIn(tract, Nil) = "none" /\ ~LeafIn(tract, Nil) /\ ~SealedIn(tract, Nil) /\ Nil = 0 /\ Nil # Dirty
      /\ (\A s : KidIn(tract, Nil, s) = Nil) /\ \A l : ~Holds(tract, Nil, l)
  BY KindNil DEF KidIn, Holds
<1>9. \A q \in D : /\ S[q] # Dirty /\ over[q] # Dirty
                   /\ \A c \in Chunks : KidIn(tract, over[q], c) = KidIn(tract, S[q], c)
  <2>1. \A q \in D, c \in Chunks : KidIn(tract, S[q], c) = Nil
    BY <1>1, <1>2 DEF KidIn
  <2> QED
    BY <1>0, <1>2, <1>8, <2>1
<1>10. Graft(tract, tract, S, over, v2, h2, b)
  <2>1. 0 \in 0 .. b
    BY <1>0
  <2> QED
    BY <1>1, <1>2, <1>8, <2>1 DEF Graft, D
<1>11. \A k \in Keys \ G : v2[k] = want[k] /\ (k \in h2 <=> k \in h)
  BY <1>5
<1>12. ASSUME NEW q \in Paths, q \notin A, q \notin D, LeafIn(tract, S[q])
       PROVE  tract[S[q]].key \notin G
  <2> SUFFICES ASSUME tract[S[q]].key \in G PROVE FALSE
    OBVIOUS
  <2> DEFINE k == tract[S[q]].key
  <2>1. LeafOK(tract, S[q], q, want, h, b)
    BY <1>0, <1>12 DEF Tree, Leaves
  <2>2. k \in Keys
    BY <2>1 DEF LeafOK
  <2>3. PICK p \in D : p \in Along(k)
    BY <1>4
  <2>4. p \in Paths /\ S[p] # Nil /\ KindIn(tract, S[p]) # "node"
    BY <1>1, <1>2, <2>3
  <2>5. Shape(tract, S, b) /\ Leaves(tract, S, want, h, b) /\ b \in Nat
    BY <1>0 DEF Tree
  <2>6. tract[S[q]].key = k
    OBVIOUS
  <2> HIDE DEF k, b
  <2>7. q = p
    BY <1>12, <2>2, <2>3, <2>4, <2>5, <2>6, LeafUnique
  <2> QED
    BY <1>12, <2>3, <2>7
<1>13. ASSUME NEW q \in Paths, q \in A \/ q \in D, LeafIn(tract, S[q])
       PROVE  tract[S[q]].key \in h
  BY <1>1, <1>2, <1>6, <1>13 DEF LeafIn
<1>14. \A k \in Keys : k \in G /\ k \notin h2 =>
                /\ v2[k] = Absent
                /\ \A q \in Along(k) : q \notin A /\ q \notin D => KindIn(tract, S[q]) # "bad"
  BY <1>1, <1>2, <1>5, AlongFacts
<1>15. \A l : l \in Cast(pruned) <=> l \in 1 .. b /\ \E q \in D : Holds(tract, S[q], l)
  BY <1>2 DEF Cast, S
<1>16. \A l \in 1 .. b : l \in Cast(pruned) /\ SealedIn(tract, l) =>
                \E q \in Paths : (q \in A \/ q \in D) /\ Holds(tract, S[q], l)
  BY <1>2, <1>15
<1>17. ASSUME NEW q \in Paths, NEW l \in 1 .. b, q \in A \/ q \in D, q \in D \/ LeafIn(tract, S[q]),
              Holds(tract, S[q], l)
       PROVE  l \in Cast(pruned)
  <2>1. q \in D
    BY <1>6, <1>17 DEF LeafIn
  <2> QED
    BY <1>15, <1>17, <2>1
<1>18. \A d \in D : \A l : ~Holds(tract, over[d], l)
  BY <1>2, <1>8
<1>19. \A l \in (b + 1) .. b : FALSE
  BY <1>0
<1> QED
  BY <1>2, <1>7, <1>9, <1>10, <1>11, <1>12, <1>13, <1>14, <1>16, <1>17, <1>18, <1>19
     DEF ChangeOK, A, D, G, S, h

\* The blocks an open takes for live are in the tract, and past its reap.
LEMMA OpenedBlocks ==
    ASSUME Inv, ~work.settled, NEW blocks, NEW pruned, NEW repairing, Opening(blocks, pruned, repairing)
    PROVE  /\ blocks \subseteq 1 .. Len(tract)
           /\ DeriveReap(blocks) \in 0 .. Len(tract)
           /\ \A l \in blocks : l > DeriveReap(blocks)
           /\ ~lost.past => \A l \in blocks : SealedIn(tract, l)
<1> DEFINE b == Len(tract)
           h == lost.mem
<1>0. /\ b \in Nat /\ Tree(tract, MemS, want, h, b) /\ (\A q \in Paths : MemS[q] # Dirty)
      /\ (lost.past \/ h = {})
  BY UnsettledIs
<1>1. \A l : l \in blocks <=> \E q \in Paths : q \notin pruned /\ Holds(tract, MemS[q], l)
  BY DEF Opening
<1> HIDE DEF b, h
<1>2. ASSUME NEW l \in blocks
      PROVE  l \in 1 .. b /\ (h = {} => SealedIn(tract, l))
  <2>1. PICK q \in Paths : Holds(tract, MemS[q], l)
    BY <1>1
  <2>2. l \in 1 .. b
    BY <1>0, <2>1, HeldBelow
  <2>3. CASE l = MemS[q]
    BY <2>1, <2>2, <2>3 DEF Holds
  <2>4. CASE l # MemS[q]
    <3>1. KindIn(tract, MemS[q]) = "extent" /\ l \in ToSet(FurrowsIn(tract, MemS[q]))
      BY <1>0, <2>1, <2>4, HeldBelow DEF Holds
    <3>2. LeafIn(tract, MemS[q])
      BY <3>1 DEF LeafIn
    <3>3. /\ tract[MemS[q]].key \notin h => FurrowsSound(MemS[q])
          /\ FurrowsSound(MemS[q]) => \A x \in ToSet(FurrowsIn(tract, MemS[q])) : SealedIn(tract, x)
      BY <1>0, <3>2, LeafSound
    <3> QED
      BY <2>2, <3>1, <3>3
  <2> QED
    BY <2>3, <2>4
<1>3. DeriveReap(blocks) = IF blocks = {} THEN b ELSE Min(blocks) - 1
  BY DEF DeriveReap, Plow, b
<1>4. CASE blocks = {}
  BY <1>0, <1>3, <1>4 DEF b
<1>5. CASE blocks # {}
  <2>1. blocks \in SUBSET Nat
    BY <1>0, <1>2
  <2>2. Min(blocks) \in blocks /\ \A y \in blocks : Min(blocks) <= y
    BY <1>5, <2>1, MinOfNaturals
  <2>3. Min(blocks) \in 1 .. b
    BY <1>2, <2>2
  <2>4. \A y \in blocks : y \in 1 .. b /\ Min(blocks) <= y
    BY <1>2, <2>2
  <2>5. DeriveReap(blocks) = Min(blocks) - 1
    BY <1>3, <1>5
  <2>6. Min(blocks) - 1 \in 0 .. b /\ \A y \in blocks : y > Min(blocks) - 1
    BY <1>0, <2>3, <2>4
  <2> QED
    BY <1>0, <1>2, <2>5, <2>6 DEF b
<1> QED
  BY <1>4, <1>5

\* What the pruned index reaches is what the open found.
LEMMA OpenedLive ==
    ASSUME Inv, ~work.settled, NEW blocks, NEW pruned, NEW repairing, Opening(blocks, pruned, repairing)
    PROVE  /\ \A l \in Nat : SealedIn(tract, l) =>
                (l \in blocks <=> l \in 1 .. Len(tract) /\ Reached(tract, MemS, l) /\ l \notin Cast(pruned))
           /\ ~(repairing /\ pruned # {}) => LiveOK(tract, MemS, blocks, {})
           /\ \A l \in Nat : Reached(tract, MemS, l) =>
                \/ l \in blocks
                \/ \E q \in Paths : /\ LeafIn(tract, MemS[q]) /\ tract[MemS[q]].key \in lost.mem
                                    /\ Holds(tract, MemS[q], l)
<1> DEFINE b == Len(tract)
           h == lost.mem
<1>0. /\ b \in Nat /\ Tree(tract, MemS, want, h, b) /\ (\A q \in Paths : MemS[q] # Dirty)
      /\ Shape(tract, MemS, b) /\ Leaves(tract, MemS, want, h, b)
      /\ \A q \in Paths : SealedIn(tract, MemS[q]) => KindIn(tract, MemS[q]) \in {"node", "lone", "extent"}
  BY UnsettledIs DEF Tree
<1>1. /\ \A q \in pruned : /\ q \in Paths /\ MemS[q] # Nil /\ KindIn(tract, MemS[q]) # "node"
                           /\ LeafIn(tract, MemS[q]) => tract[MemS[q]].key \in h
      /\ \A l : l \in blocks <=> \E q \in Paths : q \notin pruned /\ Holds(tract, MemS[q], l)
      /\ ~(repairing /\ pruned # {}) => \A q \in pruned : ~SealedIn(tract, MemS[q])
  BY DEF Opening
<1>2. \A l : l \in Cast(pruned) <=> l \in 1 .. b /\ \E q \in pruned : Holds(tract, MemS[q], l)
  BY DEF Cast
<1> HIDE DEF b, h
<1>3. ASSUME NEW l \in Nat, SealedIn(tract, l)
      PROVE  l \in blocks <=> l \in 1 .. b /\ Reached(tract, MemS, l) /\ l \notin Cast(pruned)
  <2>0. l # Dirty
    BY <1>3 DEF Dirty
  <2>1. ASSUME l \in blocks PROVE l \in 1 .. b /\ Reached(tract, MemS, l) /\ l \notin Cast(pruned)
    <3>1. PICK q \in Paths : q \notin pruned /\ Holds(tract, MemS[q], l)
      BY <1>1, <2>1
    <3>2. l \in 1 .. b
      BY <1>0, <2>0, <3>1, HeldBelow
    <3>3. ASSUME l \in Cast(pruned) PROVE FALSE
      <4>1. PICK p \in pruned : Holds(tract, MemS[p], l)
        BY <1>2, <3>3
      <4>2. p \in Paths
        BY <1>1
      <4>3. p = q
        BY <1>0, <1>3, <2>0, <3>1, <4>1, <4>2, OwnerUnique
      <4> QED
        BY <3>1, <4>3
    <3> QED
      BY <1>3, <3>1, <3>2, <3>3 DEF Reached
  <2>2. ASSUME l \in 1 .. b, Reached(tract, MemS, l), l \notin Cast(pruned) PROVE l \in blocks
    <3>1. PICK q \in Paths : Holds(tract, MemS[q], l)
      BY <2>2 DEF Reached
    <3> QED
      BY <1>1, <1>2, <2>2, <3>1
  <2> QED
    BY <2>1, <2>2
<1>4. ASSUME ~(repairing /\ pruned # {}) PROVE LiveOK(tract, MemS, blocks, {})
  <2>1. \A q \in pruned : \A l : ~Holds(tract, MemS[q], l)
    BY <1>1, <1>4 DEF Holds
  <2>2. ASSUME NEW l \in Nat PROVE (l \in blocks /\ SealedIn(tract, l)) <=> Reached(tract, MemS, l)
    BY <1>1, <2>1 DEF Reached
  <2> QED
    BY <2>2 DEF LiveOK
<1>5. ASSUME NEW l \in Nat, Reached(tract, MemS, l), l \notin blocks
      PROVE  \E q \in Paths : /\ LeafIn(tract, MemS[q]) /\ tract[MemS[q]].key \in h
                              /\ Holds(tract, MemS[q], l)
  <2>1. PICK q \in Paths : Holds(tract, MemS[q], l)
    BY <1>5 DEF Reached
  <2>2. q \in pruned
    BY <1>1, <1>5, <2>1
  <2>3. LeafIn(tract, MemS[q])
    BY <1>0, <1>1, <2>1, <2>2 DEF Holds, LeafIn
  <2> QED
    BY <1>1, <2>1, <2>2, <2>3
<1> QED
  BY <1>3, <1>4, <1>5 DEF b, h

\* The end of an open keeps the invariant (Vault::finish_open).
LEMMA FinishStep ==
    ASSUME Inv, ~work.settled, NEW blocks, NEW pruned, NEW repairing, repairing \in BOOLEAN,
           Opening(blocks, pruned, repairing), FinishOpen(blocks, pruned, repairing)
    PROVE  Inv'
<1> DEFINE over == [q \in pruned |-> Nil]
           G == Given(pruned)
           v2 == [k \in Keys |-> IF k \in G THEN Absent ELSE want[k]]
           h2 == lost.mem \ G
           R == Rewired(MemS, over)
           Sup == Superseded(mem, over)
           b == Len(tract)
<1>0. /\ mem' = Thread(mem, over) /\ delta' = [added |-> delta.added \cup {}, removed |-> (delta.removed \cup {}) \cup Sup]
      /\ live' = blocks /\ reap' = DeriveReap(blocks) /\ pc' = (IF pruned = {} THEN "idle" ELSE "flush")
      /\ work' = [NoWork EXCEPT !.settled = TRUE, !.landing = pruned # {}, !.repair = repairing /\ pruned # {}]
      /\ want' = v2 /\ lost' = [lost EXCEPT !.mem = @ \ G]
      /\ tract' = tract /\ head' = head /\ pendingReap' = pendingReap /\ saved' = saved /\ stray' = stray /\ ops' = ops
  BY DEF FinishOpen, Prune, Change, Given
<1>1. /\ Basic /\ Trees /\ b \in Nat /\ MemS = HeadS /\ IsSeq(tract)
      /\ delta = NoDelta /\ lost.mem = lost.head /\ stray = {} /\ pendingReap = 0
      /\ lost = [mem |-> lost.mem, head |-> lost.head, past |-> lost.past]
  BY UnsettledIs DEF Basic
<1>2. /\ work'.settled = TRUE /\ work'.repair = (repairing /\ pruned # {}) /\ WorkShape(work')
      /\ work'.todo = <<>>
  BY <1>0 DEF NoWork, WorkShape
<1>3. /\ lost'.mem = h2 /\ lost'.head = lost.head /\ lost'.past = lost.past
      /\ lost' = [mem |-> lost'.mem, head |-> lost'.head, past |-> lost'.past]
  BY <1>0, <1>1
<1>4. ChangeOK(tract, over, {}, Cast(pruned), v2, h2, G)
  BY PruneOK
<1>5. /\ blocks \subseteq 1 .. b /\ DeriveReap(blocks) \in 0 .. b /\ \A l \in blocks : l > DeriveReap(blocks)
      /\ ~lost.past => \A l \in blocks : SealedIn(tract, l)
  BY OpenedBlocks
<1>6. /\ \A l \in Nat : SealedIn(tract, l) =>
                (l \in blocks <=> l \in 1 .. b /\ Reached(tract, MemS, l) /\ l \notin Cast(pruned))
      /\ ~(repairing /\ pruned # {}) => LiveOK(tract, MemS, blocks, {})
      /\ \A l \in Nat : Reached(tract, MemS, l) =>
                \/ l \in blocks
                \/ \E q \in Paths : /\ LeafIn(tract, MemS[q]) /\ tract[MemS[q]].key \in lost.mem
                                    /\ Holds(tract, MemS[q], l)
  BY OpenedLive
<1>7. v2 \in [Keys -> Values \cup {Absent}] /\ h2 \subseteq Keys
  BY <1>1 DEF Basic
<1>8. work'.repair => pc' = "flush"
  BY <1>0, <1>2
<1>9. pc' \in {"idle", "flush"}
  BY <1>0
<1> HIDE DEF over, G, v2, h2
<1>10. /\ Slots(tract, Thread(mem, over)) = R /\ Arena(Thread(mem, over), R) /\ Tree(tract, R, v2, h2, b)
       /\ \A l \in Sup : l \in 1 .. b
       /\ \A l \in Nat : Reached(tract, R, l) <=>
                (l \in 1 .. b /\ Reached(tract, MemS, l) /\ l \notin Cast(pruned) /\ l \notin Sup)
  <2> DEFINE C == Cast(pruned)
  <2>1. ChangeOK(tract, over, {}, C, v2, h2, G) /\ Len(tract) <= Len(tract) /\ IsSeq(tract)
    BY <1>1, <1>4
  <2> HIDE DEF C
  <2>2. /\ Slots(tract, Thread(mem, over)) = R /\ Arena(Thread(mem, over), R) /\ Tree(tract, R, v2, h2, b)
        /\ \A l \in Sup : l \in 1 .. b /\ KindIn(tract, l) = "node"
        /\ \A l \in Nat : Reached(tract, R, l) <=>
                (l \in {} \/ (/\ l \in 1 .. b /\ Reached(tract, MemS, l) /\ l \notin C /\ l \notin Sup))
    BY <2>1, ChangeCore
  <2> QED
    BY <2>2 DEF C
<1> HIDE DEF R, Sup, b
<1>11. delta' = [added |-> {}, removed |-> Sup]
  BY <1>0, <1>1 DEF NoDelta
<1>12. /\ delta'.added = {} /\ delta'.removed = Sup /\ LiveSetApply' = blocks \ Sup /\ Pending' = {}
       /\ delta' = [added |-> delta'.added, removed |-> delta'.removed]
  BY <1>0, <1>9, <1>11 DEF LiveSetApply, Pending
<1>13. MemS' = R /\ HeadS' = HeadS
  BY <1>0, <1>10 DEF MemS, HeadS
<1>14. Basic'
  BY <1>0, <1>1, <1>2, <1>3, <1>5, <1>7, <1>9, <1>10, <1>12 DEF Basic, b
<1>15. Trees'
  BY <1>0, <1>1, <1>3, <1>10, <1>13 DEF Trees, b
<1>16. Unsettled' /\ EraseInv' /\ ReapInv' /\ WalkInv'
  BY <1>0, <1>2, <1>8, <1>9 DEF Unsettled, EraseInv, ReapInv, WalkInv
<1>17. \A l \in Nat : (l \in blocks \ Sup /\ SealedIn(tract, l)) <=> Reached(tract, R, l)
  BY <1>6, <1>10 DEF Reached
<1>18. LiveInv'
  <2>1. LiveOK(tract, R, blocks \ Sup, {})
    BY <1>17 DEF LiveOK
  <2> QED
    BY <1>0, <1>1, <1>2, <1>6, <1>12, <1>13, <2>1 DEF LiveInv
<1>19. \A l \in Nat : Reached(tract, R, l) => l > DeriveReap(blocks)
  BY <1>5, <1>17 DEF Reached
<1>20. RetiredInv'
  <2>1. Past(tract, R, DeriveReap(blocks), {})
    BY <1>19 DEF Past
  <2>2. Past(tract, R, 0, {})
    BY <1>1, <1>10, PastZero DEF b
  <2>3. ~work'.repair => Past(tract, HeadS, DeriveReap(blocks), {})
    <3> SUFFICES ASSUME ~work'.repair, NEW l \in Nat, Reached(tract, HeadS, l) PROVE l > DeriveReap(blocks)
      BY DEF Past
    <3>1. l \in blocks
      BY <1>1, <1>2, <1>6 DEF LiveOK
    <3> QED
      BY <1>5, <3>1
  <2>4. \A l \in Nat : Reached(tract, HeadS, l) =>
           \/ l > DeriveReap(blocks)
           \/ \E q \in Paths : /\ LeafIn(tract, HeadS[q]) /\ tract[HeadS[q]].key \in lost.head
                               /\ Holds(tract, HeadS[q], l)
    BY <1>1, <1>5, <1>6
  <2> QED
    BY <1>0, <1>1, <1>3, <1>13, <2>1, <2>2, <2>3, <2>4 DEF RetiredInv
<1>21. CountInv'
  <2>1. CountInv
    BY DEF Inv
  <2> QED
    BY <1>0, <1>3, <1>5, <1>12, <1>13, <2>1 DEF CountInv
<1> QED
  BY <1>14, <1>15, <1>16, <1>18, <1>20, <1>21 DEF Inv

\* The walk of a lazy open at its end keeps the invariant (Vault::settle_step).
LEMMA SettleInvStep ==
    ASSUME Inv, Settle
    PROVE  Inv'
<1> DEFINE S == MemS
<1>0. /\ pc = "idle" /\ ~work.settled /\ ~work.failed /\ work.todo = <<>>
      /\ FinishOpen(work.out, work.stale, FALSE)
  BY DEF Settle
<1>1. /\ \A q \in Paths : S[q] # Nil => Read(q)
      /\ \A l \in work.out : \E q \in Paths : Holds(tract, S[q], l)
      /\ \A q \in work.stale : q \in Paths /\ KindIn(tract, S[q]) = "zero"
  <2>1. WalkInv
    BY DEF Inv
  <2>2. \A j \in 1 .. Len(work.todo) : FALSE
    BY <1>0
  <2> QED
    BY <1>0, <2>1, <2>2 DEF WalkInv
<1>2. \A q \in Paths : S[q] # Nil =>
        /\ KindIn(tract, S[q]) # "bad"
        /\ KindIn(tract, S[q]) = "zero" => q \in work.stale
        /\ KindIn(tract, S[q]) # "zero" =>
              S[q] \in work.out /\ ToSet(FurrowsIn(tract, S[q])) \subseteq work.out
  BY <1>1 DEF Read
<1> HIDE DEF S
<1>3. \A q \in work.stale : /\ q \in Paths /\ S[q] # Nil /\ KindIn(tract, S[q]) # "node"
                            /\ ~LeafIn(tract, S[q]) /\ ~SealedIn(tract, S[q])
  BY <1>1, KindNil DEF LeafIn, SealedIn
<1>4. \A l : l \in work.out <=> \E q \in Paths : q \notin work.stale /\ Holds(tract, S[q], l)
  <2>1. ASSUME NEW l, l \in work.out PROVE \E q \in Paths : q \notin work.stale /\ Holds(tract, S[q], l)
    BY <1>1, <1>3, <2>1 DEF Holds
  <2>2. ASSUME NEW l, NEW q \in Paths, Holds(tract, S[q], l) PROVE l \in work.out
    <3>1. SealedIn(tract, S[q]) /\ S[q] # Nil /\ KindIn(tract, S[q]) # "zero"
      BY <2>2, KindNil DEF Holds, SealedIn
    <3> QED
      BY <1>2, <2>2, <3>1 DEF Holds
  <2> QED
    BY <2>1, <2>2
<1>5. \A q \in Paths : q \notin work.stale => KindIn(tract, S[q]) # "bad"
  BY <1>2, KindNil
<1>6. Opening(work.out, work.stale, FALSE)
  BY <1>3, <1>4, <1>5 DEF Opening, S
<1> DEFINE o == work.out
           st == work.stale
           r == FALSE
<1>7. Opening(o, st, r) /\ FinishOpen(o, st, r) /\ r \in BOOLEAN /\ ~work.settled
  BY <1>0, <1>6
<1> HIDE DEF o, st, r
<1> QED
  BY <1>7, FinishStep

\* The repairing open keeps the invariant (Vault::open_repairing).
LEMMA OpenRepairingStep ==
    ASSUME Inv, OpenRepairing
    PROVE  Inv'
<1> DEFINE S == MemS
           pruned == {q \in Paths : Broken(q)}
           sound == {Slot(mem, q) : q \in Paths \ pruned} \ {Nil}
           blocks == UNION {{c} \cup ToSet(FurrowsOf(c)) : c \in sound}
           b == Len(tract)
           h == lost.mem
           r == TRUE
<1>0. pc = "down" /\ FinishOpen(blocks, pruned, r) /\ r \in BOOLEAN
  BY DEF OpenRepairing
<1>1. ~work.settled
  BY <1>0 DEF Inv, Unsettled
<1>2. b \in Nat /\ Tree(tract, S, want, h, b) /\ S = Slots(tract, mem)
  BY <1>1, UnsettledIs
<1>3. \A q : Slot(mem, q) = S[q]
  BY <1>2, NowIs
<1>4. \A q : q \in pruned <=> q \in Paths /\ S[q] # Nil /\ (~SealedIn(tract, S[q]) \/ ~FurrowsSound(S[q]))
  BY <1>3, NowIs DEF Broken
<1> HIDE DEF pruned
<1>5. \A c : c \in sound <=> \E q \in Paths : q \notin pruned /\ c = S[q] /\ c # Nil
  BY <1>3, Zenon
<1> HIDE DEF sound
<1>6. \A l : l \in blocks <=> \E c \in sound : l = c \/ l \in ToSet(FurrowsIn(tract, c))
  <2> DEFINE F(c) == {c} \cup ToSet(FurrowsOf(c))
  <2>1. \A c, l : l \in F(c) <=> l = c \/ l \in ToSet(FurrowsIn(tract, c))
    BY NowIs
  <2>2. blocks = UNION {F(c) : c \in sound}
    OBVIOUS
  <2> HIDE DEF F, blocks
  <2>3. \A l : l \in UNION {F(c) : c \in sound} <=> \E c \in sound : l \in F(c)
    BY Zenon
  <2> QED
    BY <2>1, <2>2, <2>3
<1> HIDE DEF S, blocks, b, h, r
<1>7. ASSUME NEW q \in pruned
      PROVE  /\ q \in Paths /\ S[q] # Nil /\ KindIn(tract, S[q]) # "node"
             /\ LeafIn(tract, S[q]) => tract[S[q]].key \in h
  <2>1. q \in Paths /\ S[q] # Nil /\ (~SealedIn(tract, S[q]) \/ ~FurrowsSound(S[q]))
    BY <1>4
  <2>2. KindIn(tract, S[q]) # "node"
    <3>1. KindIn(tract, S[q]) = "node" => SealedIn(tract, S[q]) /\ FurrowsSound(S[q])
      BY SoundIs DEF SealedIn
    <3> QED
      BY <2>1, <3>1
  <2>3. ASSUME LeafIn(tract, S[q]) PROVE tract[S[q]].key \in h
    <3>1. SealedIn(tract, S[q])
      BY <2>3 DEF LeafIn, SealedIn
    <3>2. ~FurrowsSound(S[q])
      BY <2>1, <3>1
    <3> QED
      BY <1>2, <2>1, <2>3, <3>2, LeafSound
  <2> QED
    BY <2>1, <2>2, <2>3
<1>8. ASSUME NEW l
      PROVE  l \in blocks <=> \E q \in Paths : q \notin pruned /\ Holds(tract, S[q], l)
  <2>1. ASSUME l \in blocks PROVE \E q \in Paths : q \notin pruned /\ Holds(tract, S[q], l)
    <3>1. PICK c \in sound : l = c \/ l \in ToSet(FurrowsIn(tract, c))
      BY <1>6, <2>1
    <3>2. PICK q \in Paths : q \notin pruned /\ c = S[q] /\ c # Nil
      BY <1>5, <3>1
    <3>3. SealedIn(tract, S[q])
      BY <1>4, <3>2
    <3> QED
      BY <3>1, <3>2, <3>3 DEF Holds
  <2>2. ASSUME NEW q \in Paths, q \notin pruned, Holds(tract, S[q], l) PROVE l \in blocks
    <3>1. S[q] # Nil
      BY <2>2, KindNil DEF Holds
    <3>2. S[q] \in sound
      BY <1>5, <2>2, <3>1
    <3> QED
      BY <1>6, <2>2, <3>2 DEF Holds
  <2> QED
    BY <2>1, <2>2
<1>9. \A q \in Paths : q \notin pruned => KindIn(tract, S[q]) # "bad"
  <2>1. \A q \in Paths : KindIn(tract, S[q]) = "bad" => S[q] # Nil /\ ~SealedIn(tract, S[q])
    BY KindNil DEF SealedIn
  <2> QED
    BY <1>4, <2>1
<1>10. ~(r /\ pruned # {}) => \A q \in pruned : ~SealedIn(tract, S[q])
  BY DEF r
<1>11. Opening(blocks, pruned, r)
  BY <1>7, <1>8, <1>9, <1>10 DEF Opening, S, h
<1> QED
  BY <1>0, <1>1, <1>11, FinishStep

\* Every operation, every step of one and every fault keeps the invariant of the
\* index, for any keys, fan-out, values, furrow count and windows.
THEOREM IndexInductive ==
    Inv /\ [Next]_vars => Inv'
<1> SUFFICES ASSUME Inv, [Next]_vars PROVE Inv'
  OBVIOUS
<1>1. CASE UNCHANGED vars
  BY <1>1, StutterStep
<1>2. ASSUME NEW k \in Keys, NEW v \in Values, Put(k, v) PROVE Inv'
  BY <1>2, PutStep
<1>3. ASSUME NEW k \in Keys, NEW v \in Values, PutRefused(k, v) PROVE Inv'
  BY <1>3, PutRefusedStep
<1>4. ASSUME NEW k \in Keys, Delete(k) PROVE Inv'
  BY <1>4, DeleteStep
<1>5. ASSUME NEW k \in Keys, DeleteErasing(k) PROVE Inv'
  BY <1>5, DeleteErasingStep
<1>6. CASE ZeroDelete
  BY <1>6, ZeroDeleteStep
<1>7. CASE Unlink
  BY <1>7, UnlinkStep
<1>8. CASE Commit
  BY <1>8, CommitStep
<1>9. CASE FlushNode
  BY <1>9, FlushNodeStep
<1>10. CASE FlushRefused
  BY <1>10, FlushRefusedStep
<1>11. CASE Land
  BY <1>11, LandStep
<1>12. CASE Rollback
  BY <1>12, RollbackStep
<1>13. CASE Grow
  BY <1>13, GrowStep
<1>14. ASSUME NEW w \in Windows, ReapWindow(w) PROVE Inv'
  BY <1>14, ReapWindowStep
<1>15. ASSUME NEW k \in Keys, MoveFurrows(k) PROVE Inv'
  BY <1>15, MoveFurrowsStep
<1>16. CASE MoveBlock
  BY <1>16, MoveBlockStep
<1>17. CASE ReapRefused
  BY <1>17, ReapRefusedStep
<1>18. CASE ReapStaged
  BY <1>18, ReapStagedStep
<1>19. CASE Crash
  BY <1>19, CrashStep
<1>20. ASSUME NEW l \in DOMAIN tract, Rot(l) PROVE Inv'
  BY <1>20, RotStep
<1>21. CASE OpenLazy
  BY <1>21, OpenLazyStep
<1>22. CASE SettleStep
  BY <1>22, SettleStepStep
<1>23. CASE Settle
  BY <1>23, SettleInvStep
<1>24. CASE OpenRepairing
  BY <1>24, OpenRepairingStep
<1>25. CASE GrowPreserving
  BY <1>25, GrowPreservingStep
<1> QED
  BY <1>1, <1>2, <1>3, <1>4, <1>5, <1>6, <1>7, <1>8, <1>9, <1>10, <1>11, <1>12, <1>13,
     <1>14, <1>15, <1>16, <1>17, <1>18, <1>19, <1>20, <1>21, <1>22, <1>23, <1>24, <1>25 DEF Next

\* The invariant holds in every state of every behaviour of the index and of the
\* open that rebuilds it (hamt.rs, vault.rs: finish_open).
THEOREM IndexInvariant ==
    Spec => []Inv
BY InitInv, IndexInductive, PTL DEF Spec

\* Types; every dirty node has its slots in memory and a dirty parent
\* (Hamt's arena and flush).
THEOREM IndexTypes ==
    Spec => []TypeOK
<1>1. Inv => TypeOK
  BY InvTypeOK DEF Inv
<1> QED
  BY <1>1, IndexInvariant, PTL

\* The session's index answers every get with the last value put, whatever splits,
\* overwrites, prunes, moves and half-flushed arenas came before (Hamt::lookup).
THEOREM IndexAlwaysAnswers ==
    Spec => []IndexAnswers
<1>1. Inv => IndexAnswers
  BY InvAnswers DEF Inv
<1> QED
  BY <1>1, IndexInvariant, PTL

\* The committed head alone answers with what was committed at every step, whatever
\* erase, move or lost block came after (Hamt::delete, Vault::finish_open).
THEOREM HeadAlwaysAnswers ==
    Spec => []HeadAnswers
<1>1. Inv => HeadAnswers
  BY InvAnswers DEF Inv
<1> QED
  BY <1>1, IndexInvariant, PTL

\* The live set under the delta is what the index reaches, block for block
\* (Vault::live_map_divergence).
THEOREM LiveSetIsIndex ==
    Spec => []LiveIsIndex
<1>1. Inv => LiveIsIndex
  BY InvLive DEF Inv
<1> QED
  BY <1>1, IndexInvariant, PTL

\* Every survivor of a window is found where its self-address leads: no relocation
\* repoints nothing (Hamt::repair_relocs, replace_leaf).
THEOREM RepointAlwaysFinds ==
    Spec => []RepointFinds
<1>1. Inv => RepointFinds
  BY InvRepoint DEF Inv
<1> QED
  BY <1>1, IndexInvariant, PTL

\* A retired window holds nothing the head needs for a sound value, a batch's own
\* blocks aside (Hamt::reap_window, Vault::reap_staged, derive_reap).
THEOREM RetiredWindowsEmpty ==
    Spec => []RetiredIsEmpty
<1>1. Inv => RetiredIsEmpty
  BY InvRetired DEF Inv
<1> QED
  BY <1>1, IndexInvariant, PTL

\* A vault the inspector passes answers every get, and a vault whose head never lost
\* a block is never faulted (inspect::build_checks, Vault::commit's live).
THEOREM InspectorAlwaysRight ==
    Spec => []InspectorRight
<1>1. Inv => InspectorRight
  BY InvInspector DEF Inv
<1> QED
  BY <1>1, IndexInvariant, PTL
=============================================================================
