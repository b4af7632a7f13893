---------------------------- MODULE VaultProofs ----------------------------
(***************************************************************************)
(* Proofs about Vault for every value of its constants: any fence depth,   *)
(* window, tract, batch and value sizes.                                   *)
(***************************************************************************)
EXTENDS Vault, Numbers

(***************************************************************************)
(* The operators the model is built from.                                  *)
(***************************************************************************)
\* Tract positions lie inside the tract (Tract::append_with).
LEMMA PositionsInTract ==
    ASSUME NEW lo \in Int, NEW hi \in Int, NEW n \in Nat \ {0}
    PROVE  Positions(lo, hi, n) \subseteq 0 .. (n - 1)
BY ModFacts DEF Positions

\* The window of recent generations holds its newest, and slides by one.
LEMMA RecentFacts ==
    ASSUME NEW h \in Nat
    PROVE  /\ h \in RecentGens(h)
           /\ h + 1 \in RecentGens(h + 1)
           /\ RecentGens(h + 1) \subseteq RecentGens(h) \cup {h + 1}
BY KAssumption DEF RecentGens

\* A new entry joins the window and leaves the others as they are (Ring::append).
LEMMA PushFacts ==
    ASSUME NEW h \in Nat, NEW gs \in [RecentGens(h) -> Entry], NEW e \in Entry
    PROVE  /\ Push(gs, h, e) \in [RecentGens(h + 1) -> Entry]
           /\ Push(gs, h, e)[h + 1] = e
<1>1. \A g \in RecentGens(h + 1) : g # h + 1 => g \in RecentGens(h)
  BY RecentFacts
<1> QED
  BY <1>1, RecentFacts DEF Push

\* A write changes no entry but for its history of wholeness (Mirror::drain).
LEMMA WrittenFacts ==
    ASSUME NEW S, NEW gs \in [S -> Entry], NEW ps
    PROVE  /\ Written(gs, ps) \in [S -> Entry]
           /\ \A g \in S :
                /\ Written(gs, ps)[g].refs = gs[g].refs
                /\ Written(gs, ps)[g].plow = gs[g].plow
                /\ Written(gs, ps)[g].reap = gs[g].reap
                /\ Written(gs, ps)[g].len = gs[g].len
                /\ gs[g].whole /\ gs[g].refs \cap ps = {}
                     => Written(gs, ps)[g].whole
BY DEF Written, Entry

\* The fence is a cursor or absent (fence_from).
LEMMA FenceType ==
    ASSUME NEW h \in Nat, NEW gs \in [RecentGens(h) -> Entry]
    PROVE  FenceFrom(gs, h) \in Nat \cup {None}
<1> DEFINE B == {FenceBudget(gs[g]) : g \in RecentGens(h)}
<1>1. B \in SUBSET Nat /\ B # {}
  BY RecentFacts DEF FenceBudget, Entry
<1>2. Min(B) \in Nat
  BY <1>1, MinOfNaturals
<1> QED
  BY <1>2 DEF FenceFrom

\* A grow continues at the end of the old tract and never behind the head's
\* cursor (Vault::grow).
LEMMA RealignFacts ==
    ASSUME NEW p \in Nat, NEW old \in Nat, NEW new \in Nat \ {0}, old < new
    PROVE  /\ Realign(p, old, new) \in Nat
           /\ Realign(p, old, new) >= p
           /\ Realign(p, old, new) >= old
<1> DEFINE r == p % new
           s == (old + new - r) % new
<1>1. r \in 0 .. (new - 1) /\ r <= p
  OBVIOUS
<1>2. s \in 0 .. (new - 1)
  BY <1>1, ModFacts
<1>3. s >= old - r
  <2>1. CASE r <= old
    BY <1>1, <2>1
  <2>2. CASE r > old
    BY <1>1, <1>2, <2>2
  <2> QED
    BY <1>1, <2>1, <2>2
<1> QED
  BY <1>1, <1>2, <1>3 DEF Realign

\* A derived reap cursor leaves plow - reap within the tract (derive_reap).
LEMMA DeriveReapFacts ==
    ASSUME NEW p \in Nat, NEW n \in Nat \ {0}, NEW refs \in SUBSET (0 .. (n - 1))
    PROVE  /\ DeriveReap(p, n, refs) \in Nat
           /\ DeriveReap(p, n, refs) <= p
           /\ p <= DeriveReap(p, n, refs) + n
<1> DEFINE C == {n} \cup {(q + n - (p % n)) % n : q \in refs}
<1>1. \A q \in refs : (q + n - (p % n)) % n \in Nat
  BY ModFacts
<1>2. C \in SUBSET Nat /\ C # {} /\ n \in C
  BY <1>1
<1>3. Min(C) \in Nat /\ Min(C) <= n
  <2> HIDE DEF C
  <2> QED BY <1>2, MinOfNaturals
<1>4. DeriveReap(p, n, refs) = IF p + Min(C) < n THEN 0 ELSE p + Min(C) - n
  BY DEF DeriveReap
<1> QED
  <2> HIDE DEF C
  <2> QED BY <1>3, <1>4

(***************************************************************************)
(* One append, and one change of the index.                                *)
(***************************************************************************)
\* The guards of an append keep its blocks inside the tract, the cursors in
\* order and the committed head's blocks out of the staged batch
\* (Tract::append_with).
LEMMA AppendFacts ==
    ASSUME IInv, phase # "down", NEW n \in Nat, NEW limit, AppendWith(n, limit)
    PROVE  /\ plow' = plow + n /\ plow' \in Nat /\ plow' <= reap + len
           /\ staged' \subseteq 0 .. (len - 1)
           /\ staged' \cap gens[head].refs = {}
           /\ dropped' = {}
           /\ unfenced' \in Nat \cup {-1}
<1> DEFINE ps == Positions(plow, plow + n, len)
<1>1. TypeOK /\ StagedApart /\ live = gens[head].refs
  BY DEF IInv, LiveIsCommitted
<1>2. plow' = plow + n /\ plow' \in Nat /\ plow' <= reap + len
  BY <1>1 DEF AppendWith, CanAppend, Fits, CleanBlocks, TypeOK
<1>3. ps \subseteq 0 .. (len - 1) /\ ps \cap live = {}
  BY <1>1, PositionsInTract DEF AppendWith, CanAppend, Lapless, TypeOK
<1>4. staged' = staged \cup ps /\ dropped' = dropped \ ps
  BY DEF AppendWith
<1>5. unfenced' \in Nat \cup {-1}
  BY <1>1 DEF AppendWith, TypeOK
<1> HIDE DEF ps
<1> QED
  BY <1>1, <1>2, <1>3, <1>4, <1>5 DEF TypeOK, StagedApart

\* Every put, delete, reap and rescue is one such change, with its own fence,
\* window and phase: it preserves the invariant whatever those are.
LEMMA RewriteStep ==
    ASSUME IInv, phase = "idle",
           NEW n \in Nat, NEW m \in Nat, NEW old, NEW d, NEW limit,
           Rewrite(n, m, old, d, limit),
           UNCHANGED <<disk, reap, len, live>>,
           fence' \in Nat \cup {None},
           \/ pendingReap' = pendingReap
           \/ pendingReap' \in Nat /\ reap <= pendingReap' /\ pendingReap' <= plow,
           phase' \in {"idle", "flush"}, items' \in Nat
    PROVE  IInv'
<1>1. TypeOK /\ HeadGeometry /\ StagedApart /\ HeadIntact /\ PendingBetween
      /\ gens[head].plow <= plow /\ live = gens[head].refs
  BY DEF IInv, LiveIsCommitted, PlowAhead
<1>2. AppendWith(n, limit)
  BY DEF Rewrite
<1>3. /\ plow' = plow + n /\ plow' \in Nat /\ plow' <= reap + len
      /\ staged' \subseteq 0 .. (len - 1)
      /\ staged' \cap gens[head].refs = {}
      /\ dropped' = {}
      /\ unfenced' \in Nat \cup {-1}
  BY <1>2, AppendFacts
<1>4. /\ gens' = gens /\ head' = head /\ reap' = reap /\ len' = len
      /\ live' = live
  BY DEF disk
<1>5. added' \subseteq 0 .. (len - 1)
  <2>1. Positions(plow, plow + m, len) \subseteq 0 .. (len - 1)
    BY <1>1, PositionsInTract DEF TypeOK
  <2> QED
    BY <1>1, <2>1 DEF Rewrite, TypeOK
<1>6. removed' \subseteq 0 .. (len - 1)
  BY <1>1 DEF Rewrite, TypeOK, Index
<1>7. dirty' \in Nat /\ attempts' \in Nat
  BY SizeAssumption DEF Rewrite
<1>8. pendingReap' \in Nat \cup {None} /\ PendingBetween'
  BY <1>1, <1>3, <1>4 DEF PendingBetween, TypeOK, None
<1>9. TypeOK'
  BY <1>1, <1>3, <1>4, <1>5, <1>6, <1>7, <1>8 DEF TypeOK
<1>10. HeadGeometry' /\ HeadIntact' /\ StagedApart' /\ LiveIsCommitted'
  BY <1>1, <1>3, <1>4
     DEF HeadGeometry, HeadIntact, StagedApart, LiveIsCommitted
<1>11. gens[head].plow \in Nat
  BY <1>1, RecentFacts DEF TypeOK, Entry
<1>12. PlowAhead' /\ DownIsEmpty'
  BY <1>1, <1>3, <1>4, <1>11 DEF PlowAhead, DownIsEmpty, TypeOK
<1> QED
  BY <1>8, <1>9, <1>10, <1>12 DEF IInv

(***************************************************************************)
(* The committed head's entry.                                             *)
(***************************************************************************)
\* What the invariant says of the head's entry.
LEMMA HeadEntry ==
    ASSUME IInv
    PROVE  /\ head \in Nat /\ gens \in [RecentGens(head) -> Entry]
           /\ head \in RecentGens(head)
           /\ gens[head] \in Entry
           /\ gens[head].plow \in Nat /\ gens[head].len \in Nat \ {0}
           /\ gens[head].whole
<1>1. head \in Nat /\ gens \in [RecentGens(head) -> Entry]
  BY DEF IInv, TypeOK
<1>2. head \in RecentGens(head)
  BY <1>1, RecentFacts
<1> QED
  BY <1>1, <1>2 DEF IInv, HeadIntact, Entry

\* Whatever part of the staged batch reaches the media, the head's entry stays
\* as it was (Mirror::drain, a power cut inside it).
LEMMA DrainKeepsHead ==
    ASSUME IInv, NEW ps \in SUBSET staged
    PROVE  /\ Written(gens, ps) \in [RecentGens(head) -> Entry]
           /\ Written(gens, ps)[head].refs = gens[head].refs
           /\ Written(gens, ps)[head].plow = gens[head].plow
           /\ Written(gens, ps)[head].reap = gens[head].reap
           /\ Written(gens, ps)[head].len = gens[head].len
           /\ Written(gens, ps)[head].whole
<1>1. gens[head].refs \cap ps = {}
  BY DEF IInv, StagedApart
<1> QED
  BY <1>1, HeadEntry, WrittenFacts

(***************************************************************************)
(* The inductive invariant.                                                *)
(***************************************************************************)
\* A fresh vault satisfies the invariant (Vault::genesis).
THEOREM InitIInv == Init => IInv
<1> SUFFICES ASSUME Init PROVE IInv
  OBVIOUS
<1>1. RecentGens(0) = {0}
  BY KAssumption DEF RecentGens
<1>2. Genesis \in Entry
  BY LenAssumption DEF Genesis, Entry
<1>3. gens \in [RecentGens(head) -> Entry] /\ gens[head] = Genesis
  BY <1>1, <1>2 DEF Init
<1>4. TypeOK
  BY <1>3, LenAssumption DEF Init, TypeOK, None
<1>5. HeadGeometry /\ LiveIsCommitted /\ StagedApart /\ HeadIntact
  BY <1>3, LenAssumption
     DEF Init, Genesis, HeadGeometry, LiveIsCommitted, StagedApart, HeadIntact
<1>6. PendingBetween /\ PlowAhead /\ DownIsEmpty
  BY <1>3 DEF Init, Genesis, PendingBetween, PlowAhead, DownIsEmpty
<1> QED
  BY <1>4, <1>5, <1>6 DEF IInv

\* A put and a delete (Vault::put_no_commit, Vault::delete), an entry refused
\* after its furrows landed included.
LEMMA EntryStep ==
    ASSUME IInv,
           \/ \E n \in 1 .. MaxBlocks, old \in SUBSET Index, d \in 0 .. MaxDirty :
                  Put(n, old, d)
           \/ \E n \in 1 .. MaxBlocks : PutRefused(n)
           \/ \E old \in SUBSET Index, d \in 0 .. MaxDirty : Delete(old, d)
    PROVE  IInv'
<1>0. fence \in Nat \cup {None} /\ items \in Nat
  BY DEF IInv, TypeOK
<1>1. ASSUME NEW n \in 1 .. MaxBlocks, NEW old, NEW d, Put(n, old, d)
      PROVE  IInv'
  <2>1. n \in Nat
    BY SizeAssumption
  <2>2. /\ Rewrite(n, n, old, d, fence) /\ phase = "idle" /\ phase' = "idle"
        /\ UNCHANGED <<disk, reap, len, live>> /\ pendingReap' = pendingReap
        /\ fence' = fence /\ items' = items + 1
    BY <1>1 DEF Put, NextItem
  <2> QED
    BY <1>0, <2>1, <2>2, RewriteStep
<1>2. ASSUME NEW n \in 1 .. MaxBlocks, PutRefused(n)
      PROVE  IInv'
  <2>1. n \in Nat /\ phase # "down"
    BY <1>2, SizeAssumption DEF PutRefused, NextItem
  <2>2. /\ plow' = plow + n /\ plow' \in Nat /\ plow' <= reap + len
        /\ staged' \subseteq 0 .. (len - 1)
        /\ staged' \cap gens[head].refs = {}
        /\ dropped' = {}
        /\ unfenced' \in Nat \cup {-1}
    BY <1>2, <2>1, AppendFacts DEF PutRefused
  <2>3. /\ gens' = gens /\ head' = head /\ reap' = reap /\ len' = len
        /\ fence' = fence /\ live' = live /\ added' = added
        /\ removed' = removed /\ dirty' = dirty /\ pendingReap' = pendingReap
        /\ phase' = phase /\ attempts' = attempts /\ items' = items
    BY <1>2 DEF PutRefused, disk, index
  <2>4. TypeOK'
    BY <2>1, <2>2, <2>3 DEF IInv, TypeOK
  <2>5. HeadGeometry' /\ LiveIsCommitted' /\ StagedApart' /\ HeadIntact'
    BY <2>2, <2>3
       DEF IInv, HeadGeometry, LiveIsCommitted, StagedApart, HeadIntact
  <2>6. PendingBetween' /\ PlowAhead' /\ DownIsEmpty'
    BY <2>1, <2>2, <2>3, HeadEntry
       DEF IInv, TypeOK, PendingBetween, PlowAhead, DownIsEmpty, None
  <2> QED
    BY <2>4, <2>5, <2>6 DEF IInv
<1>3. ASSUME NEW old, NEW d, Delete(old, d)
      PROVE  IInv'
  <2>1. /\ Rewrite(0, 0, old, d, fence) /\ phase = "idle" /\ phase' = "idle"
        /\ UNCHANGED <<disk, reap, len, live>> /\ pendingReap' = pendingReap
        /\ fence' = fence /\ items' = items + 1
    BY <1>3 DEF Delete, NextItem
  <2> QED
    BY <1>0, <2>1, RewriteStep
<1> QED
  BY <1>1, <1>2, <1>3

\* The flush's appends and the heartbeats that raise the fence under it
\* (Hamt::flush, Vault::append_heartbeat).
LEMMA FlushStepKeeps ==
    ASSUME IInv, Commit \/ FlushNode \/ AppendHeartbeat \/ CommitRefused
    PROVE  IInv'
<1>1. CASE Commit \/ CommitRefused
  <2>1. /\ UNCHANGED <<disk, cursors, live, index, pendingReap, staged, items,
                       ghosts>>
        /\ attempts' \in Nat /\ phase # "down" /\ phase' \in {"idle", "flush"}
    BY <1>1 DEF Commit, CommitRefused, IInv, TypeOK
  <2> QED
    BY <2>1 DEF IInv, TypeOK, HeadGeometry, LiveIsCommitted, StagedApart,
                HeadIntact, PendingBetween, PlowAhead, DownIsEmpty, disk,
                cursors, index, ghosts
<1>2. CASE FlushNode
  <2>1. phase = "flush" /\ dirty > 0 /\ AppendWith(1, fence)
    BY <1>2 DEF FlushNode
  <2>2. /\ plow' = plow + 1 /\ plow' \in Nat /\ plow' <= reap + len
        /\ staged' \subseteq 0 .. (len - 1)
        /\ staged' \cap gens[head].refs = {}
        /\ dropped' = {}
        /\ unfenced' \in Nat \cup {-1}
    BY <2>1, AppendFacts
  <2>3. /\ gens' = gens /\ head' = head /\ reap' = reap /\ len' = len
        /\ fence' = fence /\ live' = live /\ removed' = removed
        /\ pendingReap' = pendingReap
        /\ phase' = phase /\ attempts' = attempts /\ items' = items
    BY <1>2 DEF FlushNode, disk
  <2>4. dirty' \in Nat
    BY <1>2 DEF FlushNode, IInv, TypeOK
  <2>5. added' \subseteq 0 .. (len - 1)
    <3>1. plow % len \in 0 .. (len - 1)
      BY ModFacts DEF IInv, TypeOK
    <3> QED
      BY <1>2, <3>1 DEF FlushNode, IInv, TypeOK
  <2>6. TypeOK'
    BY <2>2, <2>3, <2>4, <2>5 DEF IInv, TypeOK
  <2>7. HeadGeometry' /\ LiveIsCommitted' /\ StagedApart' /\ HeadIntact'
    BY <2>2, <2>3
       DEF IInv, HeadGeometry, LiveIsCommitted, StagedApart, HeadIntact
  <2>8. PendingBetween' /\ PlowAhead' /\ DownIsEmpty'
    BY <2>1, <2>2, <2>3, HeadEntry
       DEF IInv, TypeOK, PendingBetween, PlowAhead, DownIsEmpty, None
  <2> QED
    BY <2>6, <2>7, <2>8 DEF IInv
<1>3. CASE AppendHeartbeat
  <2> DEFINE gs == Written(gens, staged)
  <2>1. /\ gs \in [RecentGens(head) -> Entry] /\ gs[head] \in Entry
        /\ gs[head].refs = gens[head].refs /\ gs[head].plow = gens[head].plow
        /\ gs[head].len = gens[head].len /\ gs[head].whole
        /\ head \in Nat
    BY DrainKeepsHead, HeadEntry
  <2>2. gens' = Push(gs, head, gs[head]) /\ head' = head + 1
    BY <1>3 DEF AppendHeartbeat
  <2> HIDE DEF gs
  <2>3. gens' \in [RecentGens(head') -> Entry] /\ gens'[head'] = gs[head]
    BY <2>1, <2>2, PushFacts
  <2>4. fence' \in Nat \cup {None}
    BY <1>3, <2>1, <2>2, <2>3, FenceType DEF AppendHeartbeat
  <2>5. /\ plow' = plow /\ reap' = reap /\ len' = len /\ live' = live
        /\ added' = added /\ removed' = removed /\ dirty' = dirty
        /\ pendingReap' = pendingReap /\ phase' = phase /\ phase = "flush"
        /\ items' = items /\ unfenced' = unfenced /\ dropped' = dropped
        /\ staged' = {}
    BY <1>3 DEF AppendHeartbeat, index, ghosts
  <2>6. attempts' \in Nat
    BY <1>3 DEF AppendHeartbeat, IInv, TypeOK
  <2>7. TypeOK'
    BY <2>1, <2>2, <2>3, <2>4, <2>5, <2>6 DEF IInv, TypeOK
  <2>8. HeadGeometry' /\ LiveIsCommitted' /\ StagedApart' /\ HeadIntact'
    BY <2>1, <2>3, <2>5
       DEF IInv, HeadGeometry, LiveIsCommitted, StagedApart, HeadIntact
  <2>9. PendingBetween' /\ PlowAhead' /\ DownIsEmpty'
    BY <2>1, <2>3, <2>5 DEF IInv, PendingBetween, PlowAhead, DownIsEmpty
  <2> QED
    BY <2>7, <2>8, <2>9 DEF IInv
<1> QED
  BY <1>1, <1>2, <1>3

\* The commit's own step: live set, retired window, drain and spine entry
\* (Vault::commit).
LEMMA LandStep ==
    ASSUME IInv, Land
    PROVE  IInv'
<1> DEFINE gs == Written(gens, staged)
<1>1. gs \in [RecentGens(head) -> Entry] /\ head \in Nat
  BY DrainKeepsHead, HeadEntry
<1>2. /\ RetiredReap \in Nat /\ reap <= RetiredReap /\ RetiredReap <= plow
      /\ plow <= RetiredReap + len
  BY DEF IInv, TypeOK, PendingBetween, RetiredReap
<1>3. Index \subseteq 0 .. (len - 1)
  BY DEF IInv, TypeOK, Index
<1>4. NewEntry \in Entry /\ NewEntry.whole /\ NewEntry.refs = Index
      /\ NewEntry.plow = plow /\ NewEntry.len = len
  <2>1. Index \in SUBSET Nat /\ Index \cap dropped = {}
    BY <1>3 DEF IInv, TypeOK, StagedApart
  <2> QED
    BY <1>2, <2>1 DEF NewEntry, Entry, IInv, TypeOK
<1>5. gens' = Push(gs, head, NewEntry) /\ head' = head + 1
  BY DEF Land
<1> HIDE DEF gs
<1>6. gens' \in [RecentGens(head') -> Entry] /\ gens'[head'] = NewEntry
  BY <1>1, <1>4, <1>5, PushFacts
<1>7. fence' \in Nat \cup {None}
  BY <1>1, <1>5, <1>6, FenceType DEF Land
<1>8. /\ live' = Index /\ added' = {} /\ removed' = {} /\ reap' = RetiredReap
      /\ pendingReap' = None /\ staged' = {} /\ phase' = "idle" /\ items' = 0
      /\ plow' = plow /\ len' = len /\ dirty' = dirty /\ attempts' = attempts
      /\ unfenced' = unfenced /\ dropped' = dropped
  BY DEF Land, LiveSetApply, Index, ghosts
<1>9. TypeOK'
  BY <1>1, <1>2, <1>3, <1>5, <1>6, <1>7, <1>8 DEF IInv, TypeOK
<1>10. HeadGeometry' /\ LiveIsCommitted' /\ StagedApart' /\ HeadIntact'
  <2>1. /\ gens'[head'].refs = Index /\ gens'[head'].len = len
        /\ gens'[head'].whole
    BY <1>4, <1>6
  <2>2. HeadGeometry' /\ LiveIsCommitted'
    BY <1>3, <1>8, <2>1 DEF IInv, TypeOK, HeadGeometry, LiveIsCommitted
  <2>3. StagedApart' /\ HeadIntact'
    BY <1>8, <2>1 DEF IInv, StagedApart, HeadIntact
  <2> QED
    BY <2>2, <2>3
<1>11. PendingBetween' /\ PlowAhead' /\ DownIsEmpty'
  BY <1>4, <1>6, <1>8
     DEF IInv, TypeOK, PendingBetween, PlowAhead, DownIsEmpty
<1> QED
  BY <1>9, <1>10, <1>11 DEF IInv

\* A reap or rescue window whose retiring commit follows, and one whose appends
\* were refused half way (Vault::reap_one_window, Vault::rescue).
LEMMA CleaningStep ==
    ASSUME IInv, ReapOneWindow \/ ReapRefused \/ Rescue \/ RescueRefused
    PROVE  IInv'
<1>0. /\ fence \in Nat \cup {None} /\ items \in Nat /\ None \in Nat \cup {None}
      /\ plow \in Nat /\ reap \in Nat /\ len \in Nat \ {0}
  BY DEF IInv, TypeOK
<1>1. ASSUME NEW w \in 1 .. len, NEW n \in 0 .. len, NEW old, NEW d, NEW limit,
             w <= Occupied, ReapStaged(w, n, old, d, limit),
             phase = "idle", UNCHANGED <<disk, reap, len, live>>,
             fence' \in Nat \cup {None}, items' = items
      PROVE  IInv'
  <2>1. n \in Nat /\ w \in Nat
    BY <1>0
  <2>2. /\ pendingReap' \in Nat /\ reap <= pendingReap' /\ pendingReap' <= plow
        /\ phase' = "flush" /\ Rewrite(n, n, old, d, limit)
    BY <1>0, <1>1, <2>1 DEF ReapStaged, Occupied
  <2> QED
    BY <1>0, <1>1, <2>1, <2>2, RewriteStep
<1>2. ASSUME NEW n \in Nat, NEW m \in Nat, NEW old, NEW d, NEW limit,
             ReapCut(n, m, old, d, limit),
             phase = "idle", phase' = "idle",
             UNCHANGED <<disk, reap, len, live, pendingReap>>,
             fence' \in Nat \cup {None}
      PROVE  IInv'
  <2>1. Rewrite(n, m, old, d, limit) /\ items' \in Nat
    BY <1>0, <1>2 DEF ReapCut
  <2>2. UNCHANGED <<disk, reap, len, live>> /\ pendingReap' = pendingReap
    BY <1>2
  <2> QED
    BY <1>2, <2>1, <2>2, RewriteStep
<1>3. CASE ReapOneWindow
  <2>1. PICK w \in 1 .. len, n \in 0 .. len, old \in SUBSET Index,
             d \in 0 .. MaxDirty :
               WindowFits(w) /\ ReapStaged(w, n, old, d, fence)
    BY <1>3 DEF ReapOneWindow
  <2>2. /\ phase = "idle" /\ UNCHANGED <<disk, reap, len, live>>
        /\ fence' = fence /\ items' = items
    BY <1>3 DEF ReapOneWindow, NextItem
  <2>3. w <= Occupied
    BY <2>1 DEF WindowFits
  <2> QED
    BY <1>0, <1>1, <2>1, <2>2, <2>3
<1>4. CASE ReapRefused
  <2>1. PICK n \in Nat, m \in Nat, old \in SUBSET Index,
             d \in 0 .. MaxDirty : ReapCut(n, m, old, d, fence)
    BY <1>0, <1>4 DEF ReapRefused
  <2>2. /\ phase = "idle" /\ phase' = "idle"
        /\ UNCHANGED <<disk, reap, len, live, pendingReap>> /\ fence' = fence
    BY <1>4 DEF ReapRefused, NextItem
  <2> QED
    BY <1>0, <1>2, <2>1, <2>2
<1>5. CASE Rescue
  <2>1. PICK w \in 1 .. len, n \in 0 .. len, old \in SUBSET Index,
             d \in 0 .. MaxDirty :
               RescueWindow(w) /\ ReapStaged(w, n, old, d, None)
    BY <1>5 DEF Rescue
  <2>2. /\ phase = "idle" /\ UNCHANGED <<disk, reap, len, live>>
        /\ fence' = None /\ items' = items
    BY <1>5 DEF Rescue, RescueCalled, NextItem
  <2>3. w <= Occupied
    BY <2>1 DEF RescueWindow
  <2> QED
    BY <1>0, <1>1, <2>1, <2>2, <2>3
<1>6. CASE RescueRefused
  <2>1. PICK n \in Nat, m \in Nat, old \in SUBSET Index,
             d \in 0 .. MaxDirty : ReapCut(n, m, old, d, None)
    BY <1>0, <1>6 DEF RescueRefused
  <2>2. /\ phase = "idle" /\ phase' = "idle"
        /\ UNCHANGED <<disk, reap, len, live, pendingReap>> /\ fence' = None
    BY <1>6 DEF RescueRefused, RescueCalled, NextItem
  <2> QED
    BY <1>0, <1>2, <2>1, <2>2
<1> QED
  BY <1>3, <1>4, <1>5, <1>6

\* The barriers, a power cut at any point of a drain, and the open
\* (Vault::rollback_to_head, Vault::grow, Vault::resume_unsettled).
LEMMA BarrierStep ==
    ASSUME IInv,
           \/ RollbackToHead
           \/ \E new \in (len + 1) .. MaxLen : Grow(new)
           \/ Crash
           \/ Open
    PROVE  IInv'
<1>1. CASE RollbackToHead
  <2>1. /\ UNCHANGED <<disk, cursors, live, staged, phase, attempts, ghosts>>
        /\ added' = {} /\ removed' = {} /\ dirty' = 0 /\ pendingReap' = None
        /\ items' = 0 /\ phase = "idle"
    BY <1>1 DEF RollbackToHead, FromCommittedHead
  <2> QED
    BY <2>1 DEF IInv, TypeOK, HeadGeometry, LiveIsCommitted, StagedApart,
                HeadIntact, PendingBetween, PlowAhead, DownIsEmpty, disk,
                cursors, ghosts
<1>2. ASSUME NEW new \in (len + 1) .. MaxLen, Grow(new)
      PROVE  IInv'
  <2>1. /\ len \in Nat \ {0} /\ new \in Nat \ {0} /\ len < new
        /\ len \in Nat /\ dropped = {} /\ unfenced \in Nat \cup {-1}
        /\ fence \in Nat \cup {None}
    BY SizeAssumption DEF IInv, TypeOK, StagedApart
  <2>2. /\ gens' \in [RecentGens(head) -> Entry]
        /\ gens'[head].refs = gens[head].refs
        /\ gens'[head].plow = gens[head].plow
        /\ gens'[head].len = gens[head].len
        /\ gens'[head].whole
    BY <1>2, DrainKeepsHead DEF Grow
  <2>3. /\ head' = head /\ len' = new /\ live' = gens[head].refs
        /\ plow' = Realign(gens[head].plow, len, new) /\ reap' = plow' - len
        /\ added' = {} /\ removed' = {} /\ dirty' = 0 /\ pendingReap' = None
        /\ staged' = {} /\ phase' = "flush" /\ attempts' = 0 /\ items' = 0
        /\ fence' = fence /\ unfenced' = unfenced /\ dropped' = dropped
    BY <1>2 DEF Grow, FromCommittedHead, ghosts
  <2>4. plow' \in Nat /\ plow' >= gens[head].plow /\ plow' >= len
    BY <2>1, <2>3, HeadEntry, RealignFacts
  <2>5. /\ gens[head].len <= len
        /\ gens[head].refs \subseteq 0 .. (gens[head].len - 1)
        /\ gens[head].len \in Nat
    BY HeadEntry DEF IInv, HeadGeometry
  <2>6. live' \subseteq 0 .. (new - 1)
    BY <2>1, <2>3, <2>5
  <2>7. TypeOK'
    BY <2>1, <2>2, <2>3, <2>4, <2>6, HeadEntry DEF TypeOK
  <2>8. HeadGeometry' /\ LiveIsCommitted' /\ StagedApart' /\ HeadIntact'
    BY <2>1, <2>2, <2>3, <2>5
       DEF HeadGeometry, LiveIsCommitted, StagedApart, HeadIntact
  <2>9. PendingBetween' /\ PlowAhead' /\ DownIsEmpty'
    BY <2>2, <2>3, <2>4, HeadEntry DEF PendingBetween, PlowAhead, DownIsEmpty
  <2> QED
    BY <2>7, <2>8, <2>9 DEF IInv
<1>3. CASE Crash
  <2>1. PICK landed \in SUBSET staged : gens' = Written(gens, landed)
    BY <1>3 DEF Crash
  <2>2. /\ gens' \in [RecentGens(head) -> Entry]
        /\ gens'[head].refs = gens[head].refs
        /\ gens'[head].plow = gens[head].plow
        /\ gens'[head].len = gens[head].len
        /\ gens'[head].whole
    BY <2>1, DrainKeepsHead
  <2>3. /\ head' = head /\ plow' = plow /\ reap' = reap /\ len' = len
        /\ fence' = fence /\ live' = live /\ added' = {} /\ removed' = {}
        /\ dirty' = 0 /\ pendingReap' = None /\ staged' = {} /\ items' = 0
        /\ phase' = "down" /\ attempts' = 0 /\ unfenced' = unfenced
        /\ dropped' = dropped
    BY <1>3 DEF Crash, FromCommittedHead, cursors, ghosts
  <2>4. TypeOK'
    BY <2>2, <2>3 DEF IInv, TypeOK
  <2>5. HeadGeometry' /\ LiveIsCommitted' /\ StagedApart' /\ HeadIntact'
    BY <2>2, <2>3
       DEF IInv, HeadGeometry, LiveIsCommitted, StagedApart, HeadIntact
  <2>6. PendingBetween' /\ PlowAhead' /\ DownIsEmpty'
    BY <2>3 DEF PendingBetween, PlowAhead, DownIsEmpty
  <2> QED
    BY <2>4, <2>5, <2>6 DEF IInv
<1>4. CASE Open
  <2> DEFINE e == gens[head]
  <2>1. /\ plow' = e.plow /\ len' = e.len /\ live' = e.refs
        /\ reap' = DeriveReap(e.plow, e.len, e.refs)
        /\ fence' = FenceFrom(gens, head) /\ phase' = "idle"
        /\ gens' = gens /\ head' = head /\ added' = added
        /\ removed' = removed /\ dirty' = dirty /\ pendingReap' = pendingReap
        /\ staged' = staged /\ attempts' = attempts /\ items' = items
        /\ unfenced' = unfenced /\ dropped' = dropped
    BY <1>4 DEF Open, disk, index, ghosts
  <2>2. /\ e.plow \in Nat /\ e.len \in Nat \ {0}
        /\ e.refs \in SUBSET (0 .. (e.len - 1))
    BY HeadEntry DEF IInv, HeadGeometry
  <2>3. reap' \in Nat /\ reap' <= plow' /\ plow' <= reap' + len'
    BY <2>1, <2>2, DeriveReapFacts
  <2>4. fence' \in Nat \cup {None}
    BY <2>1, HeadEntry, FenceType
  <2>5. /\ added = {} /\ removed = {} /\ staged = {} /\ dropped = {}
        /\ pendingReap = None
    BY <1>4 DEF IInv, Open, DownIsEmpty, StagedApart
  <2>6. TypeOK'
    BY <2>1, <2>2, <2>3, <2>4, <2>5 DEF IInv, TypeOK
  <2>7. HeadGeometry' /\ LiveIsCommitted' /\ StagedApart' /\ HeadIntact'
    BY <2>1, <2>2, <2>5
       DEF IInv, HeadGeometry, LiveIsCommitted, StagedApart, HeadIntact
  <2>8. PendingBetween' /\ PlowAhead' /\ DownIsEmpty'
    BY <2>1, <2>2, <2>5 DEF PendingBetween, PlowAhead, DownIsEmpty
  <2> QED
    BY <2>6, <2>7, <2>8 DEF IInv
<1> QED
  BY <1>1, <1>2, <1>3, <1>4

\* Every step preserves the invariant.
THEOREM NextIInv == IInv /\ [Next]_vars => IInv'
<1> SUFFICES ASSUME IInv, [Next]_vars PROVE IInv'
  OBVIOUS
<1>1. CASE UNCHANGED vars
  BY <1>1 DEF vars, disk, cursors, index, ghosts, IInv, TypeOK, HeadGeometry,
              LiveIsCommitted, StagedApart, HeadIntact, PendingBetween,
              PlowAhead, DownIsEmpty
<1>2. CASE Next
  BY <1>2, EntryStep, FlushStepKeeps, LandStep, CleaningStep, BarrierStep
     DEF Next
<1> QED
  BY <1>1, <1>2

\* The invariant holds in every reachable state.
THEOREM Invariance == Spec => []IInv
BY InitIInv, NextIInv, PTL DEF Spec

\* The unsigned cursor differences never wrap and every position lies inside
\* the tract, whatever the sizes (Tract::clean_blocks).
THEOREM TypeCorrect == Spec => []TypeOK
<1>1. IInv => TypeOK
  BY DEF IInv
<1> QED
  BY <1>1, Invariance, PTL

\* No put, batch, heartbeat, reap, rescue, grow or power cut overwrites a block
\* of the committed head (Tract::append_with's lap guard, Vault::commit).
THEOREM HeadAlwaysIntact == Spec => []HeadIntact
<1>1. IInv => HeadIntact
  BY DEF IInv
<1> QED
  BY <1>1, Invariance, PTL

\* The live set is what the committed head references, in every running state
\* (LiveSet::apply, the open's walk, grow's rewalk).
THEOREM LiveAlwaysCommitted == Spec => []LiveIsCommitted
<1>1. IInv => LiveIsCommitted
  BY DEF IInv
<1> QED
  BY <1>1, Invariance, PTL

\* A generation never records an append cursor behind its predecessor's
\* (Vault::commit, Vault::append_heartbeat after Vault::grow).
THEOREM PlowNeverBack == Spec => CommittedPlowMonotone
<1>1. ASSUME IInv, [Next]_vars, head' # head
      PROVE  gens'[head'].plow >= gens[head].plow
  <2>1. CASE AppendHeartbeat
    <3> DEFINE gs == Written(gens, staged)
    <3>1. /\ gs \in [RecentGens(head) -> Entry] /\ gs[head] \in Entry
          /\ gs[head].plow = gens[head].plow /\ gens[head].plow \in Nat
          /\ head \in Nat
      BY <1>1, DrainKeepsHead, HeadEntry
    <3>2. gens' = Push(gs, head, gs[head]) /\ head' = head + 1
      BY <2>1 DEF AppendHeartbeat
    <3> HIDE DEF gs
    <3> QED
      BY <3>1, <3>2, PushFacts
  <2>2. CASE Land
    <3> DEFINE gs == Written(gens, staged)
    <3>1. gs \in [RecentGens(head) -> Entry] /\ head \in Nat
      BY <1>1, DrainKeepsHead, HeadEntry
    <3>2. gens' = Push(gs, head, NewEntry) /\ head' = head + 1
      BY <2>2 DEF Land
    <3> HIDE DEF gs
    <3>3. gens'[head'] = NewEntry
      BY <3>1, <3>2, RecentFacts DEF Push
    <3>4. gens[head].plow <= plow /\ plow \in Nat /\ gens[head].plow \in Nat
      BY <1>1, <2>2, HeadEntry DEF IInv, PlowAhead, TypeOK, Land
    <3> QED
      BY <3>3, <3>4 DEF NewEntry
  <2>3. AppendHeartbeat \/ Land
    BY <1>1
       DEF Next, vars, disk, Put, PutRefused, Delete, Commit, FlushNode,
           CommitRefused, ReapOneWindow, ReapRefused, Rescue, RescueRefused,
           RollbackToHead, Grow, Crash, Open
  <2> QED
    BY <2>1, <2>2, <2>3
<1>2. IInv /\ [Next]_vars
        => [head' # head => gens'[head'].plow >= gens[head].plow]_vars
  BY <1>1
<1> QED
  BY <1>2, Invariance, PTL DEF Spec, CommittedPlowMonotone

(***************************************************************************)
(* The clean region and the rollback fence of Vault, proved for a vault    *)
(* that reaps between its batches, of any size, and so for one whose calls *)
(* are committed one by one (MaxBatch = 1): with a batch in the arena a    *)
(* reap can leave its blocks in the clean region.                          *)
(***************************************************************************)

HeadEnt == gens[head]

\* With no call and no reaped window under way, nothing is in the arena.
ArenaEmpty ==
    items = 0 /\ pendingReap = None => added = {} /\ removed = {} /\ dirty = 0

\* Nothing the index references lies between plow and the end of the cleaned
\* space, nothing it will reference in a window that is to be retired.
CleanApart ==
    phase # "down" => Positions(plow, reap + len, len) \cap (live \cup added) = {}
WindowRetired ==
    pendingReap # None => Positions(reap, pendingReap, len) \cap Index = {}

\* Before the first wrap, blocks lie below the append cursor.
FirstLap == phase # "down" /\ plow < len => live \cup added \subseteq 0 .. (plow - 1)
HeadFirstLap == HeadEnt.plow < HeadEnt.len => HeadEnt.refs \subseteq 0 .. (HeadEnt.plow - 1)

\* Between a grow and its commit nothing is appended.
JustGrown ==
    phase # "down" /\ len # HeadEnt.len =>
        /\ phase = "flush" /\ dirty = 0 /\ added = {} /\ removed = {} /\ staged = {}
        /\ pendingReap = None
        /\ plow = reap + HeadEnt.len /\ plow % len = HeadEnt.len

\* No recent generation reaches outside the head's tract.
GensGeometry == \A g \in RecentGens(head) : gens[g].refs \subseteq 0 .. (HeadEnt.len - 1)

\* The fence is the one the spine entries give, or there is none.
FenceIsRead == phase # "down" /\ fence # None => fence = FenceFrom(gens, head)

\* An append below the fence budgets of a generation and of all newer ones meets
\* none of its blocks.
Guarded ==
    \A g \in RecentGens(head), c \in Nat :
        /\ HeadEnt.plow <= c
        /\ \A h \in RecentGens(head) : g <= h => c < FenceBudget(gens[h])
        => c % HeadEnt.len \notin gens[g].refs

StagedFenced ==
    \A g \in RecentGens(head) : g > unfenced => staged \cap gens[g].refs = {}

\* No window is reaped with a batch in the arena.
ReapBetweenBatches == ReapOneWindow => items = 0

SpaceInv ==
    /\ ArenaEmpty /\ CleanApart /\ WindowRetired
    /\ FirstLap /\ HeadFirstLap /\ JustGrown
FenceInv ==
    /\ GensGeometry /\ FenceIsRead /\ Guarded /\ StagedFenced /\ FencedGensIntact

(***************************************************************************)
(* Positions.                                                              *)
(***************************************************************************)
\* Two runs of blocks within one lap share no position.
LEMMA PositionsApart ==
    ASSUME NEW lo \in Int, NEW hi \in Int, NEW lo2 \in Int, NEW hi2 \in Int,
           NEW n \in Nat \ {0}, hi <= lo2, hi2 <= lo + n
    PROVE  Positions(lo, hi, n) \cap Positions(lo2, hi2, n) = {}
<1> SUFFICES ASSUME NEW a \in lo .. (hi - 1), NEW b \in lo2 .. (hi2 - 1)
             PROVE  a % n # b % n
  BY DEF Positions
<1>1. a \in Int /\ b \in Int /\ a < b /\ b < a + n
  OBVIOUS
<1> QED
  BY <1>1, ModUnique, Zenon

\* A lap further, the same positions.
LEMMA PositionsLap ==
    ASSUME NEW lo \in Int, NEW hi \in Int, NEW n \in Nat \ {0}
    PROVE  Positions(lo + n, hi + n, n) = Positions(lo, hi, n)
<1>1. ASSUME NEW a \in (lo + n) .. ((hi + n) - 1)
      PROVE  \E b \in lo .. (hi - 1) : b % n = a % n
  <2>1. a - n \in lo .. (hi - 1) /\ (a - n) + n = a /\ a - n \in Int
    OBVIOUS
  <2>2. ((a - n) + n) % n = (a - n) % n
    BY <2>1, ModLap
  <2> QED
    BY <2>1, <2>2
<1>2. ASSUME NEW b \in lo .. (hi - 1)
      PROVE  \E a \in (lo + n) .. ((hi + n) - 1) : b % n = a % n
  <2>1. b + n \in (lo + n) .. ((hi + n) - 1) /\ b \in Int
    OBVIOUS
  <2>2. (b + n) % n = b % n
    BY <2>1, ModLap, Zenon
  <2> QED
    BY <2>1, <2>2, Zenon
<1>3. Positions(lo + n, hi + n, n) \subseteq Positions(lo, hi, n)
  BY <1>1 DEF Positions
<1>4. Positions(lo, hi, n) \subseteq Positions(lo + n, hi + n, n)
  BY <1>2 DEF Positions
<1> QED
  BY <1>3, <1>4

\* Runs that meet.
LEMMA PositionsJoin ==
    ASSUME NEW lo \in Int, NEW mid \in Int, NEW hi \in Int, NEW n \in Nat \ {0}
    PROVE  Positions(lo, hi, n)
             \subseteq Positions(lo, mid, n) \cup Positions(mid, hi, n)
<1>1. lo .. (hi - 1) \subseteq (lo .. (mid - 1)) \cup (mid .. (hi - 1))
  OBVIOUS
<1> QED
  BY <1>1, Zenon DEF Positions

\* A longer run holds a shorter one.
LEMMA PositionsWithin ==
    ASSUME NEW lo \in Int, NEW hi \in Int, NEW lo2 \in Int, NEW hi2 \in Int,
           NEW n \in Nat \ {0}, lo <= lo2, hi2 <= hi
    PROVE  Positions(lo2, hi2, n) \subseteq Positions(lo, hi, n)
<1>1. lo2 .. (hi2 - 1) \subseteq lo .. (hi - 1)
  OBVIOUS
<1> QED
  BY <1>1, Zenon DEF Positions

\* In the first lap a run's positions are its cursors.
LEMMA PositionsFlat ==
    ASSUME NEW lo \in Nat, NEW hi \in Int, NEW n \in Nat \ {0}, hi <= n
    PROVE  Positions(lo, hi, n) \subseteq lo .. (hi - 1)
<1> SUFFICES ASSUME NEW m \in lo .. (hi - 1) PROVE m % n \in lo .. (hi - 1)
  BY DEF Positions
<1>1. m \in 0 .. (n - 1)
  OBVIOUS
<1> QED
  BY <1>1, ModSmall

\* The realigned cursor stands at the end of the old tract (Vault::grow).
LEMMA RealignPosition ==
    ASSUME NEW p \in Nat, NEW old \in Nat, NEW new \in Nat \ {0}, old < new
    PROVE  Realign(p, old, new) % new = old
<1> DEFINE r == p % new
           s == (old + new - r) % new
<1>1. r \in 0 .. (new - 1)
  BY ModFacts
<1>2. Realign(p, old, new) = p + s
  BY DEF Realign
<1>3. CASE r <= old
  <2>1. s = old - r
    <3>1. /\ old + new - r = (old - r) + new /\ old - r \in Int
          /\ old - r \in 0 .. (new - 1)
      BY <1>1, <1>3
    <3> HIDE DEF r
    <3>2. ((old - r) + new) % new = (old - r) % new
      BY <3>1, ModLap, Zenon
    <3>3. (old - r) % new = old - r
      BY <3>1, ModSmall, Zenon
    <3> QED
      BY <3>1, <3>2, <3>3, Zenon
  <2>2. r + s \in 0 .. (new - 1) /\ r + s = old /\ s \in Int /\ p \in Int
    BY <1>1, <2>1
  <2>3. (p + s) % new = r + s
    <3> HIDE DEF s
    <3> QED BY <2>2, ModShift, Zenon
  <2> QED
    BY <1>2, <2>2, <2>3, Zenon
<1>4. CASE r > old
  <2>1. old + new - r \in 0 .. (new - 1)
    BY <1>1, <1>4
  <2>2. s = old + new - r
    BY <2>1, ModSmall
  <2>3. /\ r + (old - r) = old /\ r + (old - r) \in 0 .. (new - 1)
        /\ old - r \in Int /\ p \in Int
    BY <1>1
  <2>4. (p + (old - r)) % new = r + (old - r)
    BY <2>3, ModShift, Zenon
  <2>5. p + s = (p + (old - r)) + new /\ p + (old - r) \in Int
    BY <1>1, <2>2
  <2>6. (p + s) % new = (p + (old - r)) % new
    BY <2>5, ModLap, Zenon
  <2> QED
    BY <1>2, <2>3, <2>4, <2>6, Zenon
<1> QED
  BY <1>1, <1>3, <1>4

\* Past the end of the old tract, up to the end of the new one.
LEMMA GrownPositions ==
    ASSUME NEW p \in Int, NEW old \in Nat, NEW new \in Nat \ {0}, old < new,
           p % new = old, NEW c \in Int, p <= c, c < p + (new - old)
    PROVE  c % new \in old .. (new - 1)
<1>1. (p % new) + (c - p) \in 0 .. (new - 1) /\ p + (c - p) = c /\ c - p \in Int
  OBVIOUS
<1>2. (p + (c - p)) % new = (p % new) + (c - p)
  BY <1>1, ModShift
<1> QED
  BY <1>1, <1>2

\* What the open counts as clean holds no block of the head (derive_reap).
LEMMA DerivedClean ==
    ASSUME NEW p \in Nat, NEW n \in Nat \ {0}, NEW refs \in SUBSET (0 .. (n - 1)),
           p < n => refs \subseteq 0 .. (p - 1)
    PROVE  Positions(p, DeriveReap(p, n, refs) + n, n) \cap refs = {}
<1> DEFINE C == {n} \cup {(q + n - (p % n)) % n : q \in refs}
<1>1. \A q \in refs : (q + n - (p % n)) % n \in Nat
  BY ModFacts
<1>2. C \in SUBSET Nat /\ C # {} /\ n \in C
  BY <1>1
<1>3. Min(C) \in Nat /\ \A x \in C : Min(C) <= x
  <2> HIDE DEF C
  <2> QED BY <1>2, MinOfNaturals
<1>4. DeriveReap(p, n, refs) = IF p + Min(C) < n THEN 0 ELSE p + Min(C) - n
  BY DEF DeriveReap
<1>5. CASE p + Min(C) < n
  <2>1. p < n /\ DeriveReap(p, n, refs) + n = n
    <3> HIDE DEF C
    <3> QED BY <1>3, <1>4, <1>5
  <2>2. n \in Int /\ n <= n
    OBVIOUS
  <2>3. Positions(p, n, n) \subseteq p .. (n - 1)
    BY <2>2, PositionsFlat, Zenon
  <2> QED
    BY <2>1, <2>3
<1>6. CASE ~(p + Min(C) < n)
  <2>1. DeriveReap(p, n, refs) + n = p + Min(C)
    <3> HIDE DEF C
    <3> QED BY <1>3, <1>4, <1>6
  <2> DEFINE top == p + Min(C)
  <2>2. \A m \in p .. (top - 1) : m % n \notin refs
    <3> SUFFICES ASSUME NEW m \in p .. (top - 1), m % n \in refs
                 PROVE  FALSE
      OBVIOUS
    <3> DEFINE r == p % n
               q == m % n
    <3>1. Min(C) <= n /\ Min(C) \in Nat
      <4> HIDE DEF C
      <4> QED BY <1>2, <1>3
    <3>2. m \in Nat /\ m - p \in 0 .. (n - 1) /\ m - p < Min(C)
      <4> HIDE DEF C
      <4> QED BY <3>1
    <3>3. r \in 0 .. (n - 1) /\ q \in 0 .. (n - 1)
      <4>1. m \in Int /\ p \in Int
        BY <3>2
      <4> QED
        BY <4>1, ModFacts, Zenon
    <3>4. (q + n - r) % n = m - p
      <4>1. CASE r + (m - p) < n
        <5>1. (p + (m - p)) % n = r + (m - p)
          BY <3>2, <3>3, <4>1, ModShift
        <5>2. q = r + (m - p)
          BY <3>2, <5>1
        <5>3. q + n - r = (m - p) + n /\ m - p \in Int
          BY <3>2, <3>3, <5>2
        <5> HIDE DEF q, r
        <5>4. ((m - p) + n) % n = (m - p) % n
          BY <5>3, ModLap, Zenon
        <5>5. (m - p) % n = m - p
          BY <3>2, ModSmall
        <5> QED
          BY <5>3, <5>4, <5>5
      <4>2. CASE r + (m - p) >= n
        <5>1. (p + ((m - p) - n)) % n = r + ((m - p) - n)
          BY <3>2, <3>3, <4>2, ModShift
        <5>2. p + ((m - p) - n) \in Int /\ (p + ((m - p) - n)) + n = m
          BY <3>2
        <5>3. q = r + ((m - p) - n)
          BY <5>1, <5>2, ModLap
        <5>4. q + n - r = m - p
          BY <3>2, <3>3, <5>3
        <5> HIDE DEF q, r
        <5> QED
          BY <5>4, <3>2, ModSmall
      <4> QED
        BY <3>2, <3>3, <4>1, <4>2
    <3>5. m - p \in C
      BY <3>4
    <3>6. Min(C) <= m - p
      BY <3>5, <1>3
    <3> HIDE DEF C
    <3> QED
      BY <3>1, <3>2, <3>6
  <2> HIDE DEF top
  <2>3. Positions(p, top, n) \cap refs = {}
    BY <2>2 DEF Positions
  <2> QED
    BY <2>1, <2>3, Zenon DEF top
<1> QED
  BY <1>5, <1>6

(***************************************************************************)
(* The clean region.                                                       *)
(***************************************************************************)
\* An append takes its blocks from the front of the clean region: they meet
\* neither what stays clean nor the window a reap has staged
\* (Tract::append_with).
LEMMA AppendSpace ==
    ASSUME IInv, SpaceInv, phase # "down", NEW n \in Nat, NEW limit,
           AppendWith(n, limit), NEW m \in Nat, m <= n,
           UNCHANGED <<reap, len, live>>,
           added' = added \cup Positions(plow, plow + m, len)
    PROVE  /\ CleanApart' /\ FirstLap'
           /\ \A hi \in Nat : hi <= plow =>
                 Positions(reap, hi, len) \cap Positions(plow, plow + m, len) = {}
<1> DEFINE new == Positions(plow, plow + m, len)
<1>1. /\ plow \in Nat /\ reap \in Nat /\ len \in Nat \ {0} /\ reap <= plow
      /\ plow' = plow + n /\ plow + n <= reap + len
      /\ plow + m <= plow + n
      /\ plow \in Int /\ reap \in Int /\ plow + m \in Int /\ plow + n \in Int
      /\ reap + len \in Int
  BY AppendFacts DEF IInv, TypeOK
<1>2. /\ Positions(plow, reap + len, len) \cap (live \cup added) = {}
      /\ plow < len => live \cup added \subseteq 0 .. (plow - 1)
  BY DEF SpaceInv, CleanApart, FirstLap
<1>3. CleanApart'
  <2>1. Positions(plow + n, reap + len, len) \subseteq Positions(plow, reap + len, len)
    BY <1>1, PositionsWithin
  <2>2. reap + len <= plow + len
    BY <1>1
  <2>3. new \cap Positions(plow + n, reap + len, len) = {}
    BY <1>1, <2>2, PositionsApart, Zenon
  <2> HIDE DEF new
  <2>4. Positions(plow + n, reap + len, len) \cap (live \cup (added \cup new)) = {}
    BY <1>2, <2>1, <2>3
  <2> QED
    BY <1>1, <2>4 DEF CleanApart, new
<1>4. FirstLap'
  <2>1. SUFFICES ASSUME plow + n < len
                 PROVE  live \cup (added \cup new) \subseteq 0 .. ((plow + n) - 1)
    BY <1>1 DEF FirstLap
  <2>2. plow + m <= len /\ plow < len
    BY <1>1, <2>1
  <2>3. new \subseteq plow .. ((plow + m) - 1)
    BY <1>1, <2>2, PositionsFlat, Zenon
  <2>4. /\ plow .. ((plow + m) - 1) \subseteq 0 .. ((plow + n) - 1)
        /\ 0 .. (plow - 1) \subseteq 0 .. ((plow + n) - 1)
    BY <1>1
  <2> HIDE DEF new
  <2> QED
    BY <1>2, <2>2, <2>3, <2>4, Zenon
<1>5. ASSUME NEW hi \in Nat, hi <= plow
      PROVE  Positions(reap, hi, len) \cap new = {}
  <2>1. hi \in Int /\ plow + m <= reap + len
    BY <1>1
  <2> QED
    BY <1>1, <1>5, <2>1, PositionsApart, Zenon
<1> QED
  BY <1>3, <1>4, <1>5

\* Every put, delete, reap and rescue keeps the clean region clean; one that
\* stages a window leaves nothing of the index in it.
LEMMA RewriteSpace ==
    ASSUME IInv, SpaceInv, phase = "idle",
           NEW n \in Nat, NEW m \in Nat, NEW old, NEW d, NEW limit,
           Rewrite(n, m, old, d, limit),
           UNCHANGED <<disk, reap, len, live>>,
           \/ pendingReap' = pendingReap /\ items' # 0
           \/ /\ pendingReap' \in Nat /\ pendingReap' <= plow
              /\ Positions(reap, pendingReap', len) \cap (Index \ old) = {},
           phase' \in {"idle", "flush"}
    PROVE  SpaceInv'
<1> DEFINE new == Positions(plow, plow + m, len)
<1>1. /\ AppendWith(n, limit) /\ m <= n /\ added' = added \cup new
      /\ removed' = removed \cup old
  BY DEF Rewrite
<1>2. /\ gens' = gens /\ head' = head /\ reap' = reap /\ len' = len
      /\ live' = live
  BY DEF disk
<1>3. /\ CleanApart' /\ FirstLap'
      /\ \A hi \in Nat : hi <= plow => Positions(reap, hi, len) \cap new = {}
  BY <1>1, <1>2, AppendSpace
<1>4. /\ pendingReap \in Nat \cup {None} /\ plow \in Nat
      /\ pendingReap # None => pendingReap <= plow
  BY DEF IInv, TypeOK, PendingBetween
<1> HIDE DEF new
<1>5. Index' = ((live \cup added \cup new) \ removed) \ old
  BY <1>1, <1>2 DEF Index
<1>6. WindowRetired'
  <2>1. CASE pendingReap' = pendingReap
    BY <1>2, <1>3, <1>4, <1>5, <2>1 DEF SpaceInv, WindowRetired, Index
  <2>2. CASE /\ pendingReap' \in Nat /\ pendingReap' <= plow
             /\ Positions(reap, pendingReap', len) \cap (Index \ old) = {}
    BY <1>2, <1>3, <1>5, <2>2 DEF WindowRetired, Index
  <2> QED
    BY <2>1, <2>2
<1>7. ArenaEmpty'
  BY <1>4 DEF ArenaEmpty, SpaceInv, None
<1>8. len = HeadEnt.len
  BY DEF SpaceInv, JustGrown
<1>9. HeadFirstLap' /\ JustGrown'
  BY <1>2, <1>8 DEF SpaceInv, HeadFirstLap, JustGrown, HeadEnt
<1> QED
  BY <1>3, <1>6, <1>7, <1>9 DEF SpaceInv

\* Entries: put, delete, and a put refused after its furrows landed.
LEMMA EntrySpace ==
    ASSUME IInv, SpaceInv,
           \/ \E n \in 1 .. MaxBlocks, old \in SUBSET Index, d \in 0 .. MaxDirty :
                  Put(n, old, d)
           \/ \E n \in 1 .. MaxBlocks : PutRefused(n)
           \/ \E old \in SUBSET Index, d \in 0 .. MaxDirty : Delete(old, d)
    PROVE  SpaceInv'
<1>0. items \in Nat
  BY DEF IInv, TypeOK
<1>1. ASSUME NEW n \in 1 .. MaxBlocks, NEW old, NEW d, Put(n, old, d)
      PROVE  SpaceInv'
  <2>1. n \in Nat
    BY SizeAssumption
  <2>2. /\ Rewrite(n, n, old, d, fence) /\ phase = "idle" /\ phase' = "idle"
        /\ UNCHANGED <<disk, reap, len, live>> /\ pendingReap' = pendingReap
        /\ items' # 0
    BY <1>0, <1>1 DEF Put, NextItem
  <2> QED
    BY <2>1, <2>2, RewriteSpace
<1>2. ASSUME NEW n \in 1 .. MaxBlocks, PutRefused(n)
      PROVE  SpaceInv'
  <2>1. n \in Nat /\ phase = "idle" /\ 0 \in Nat /\ 0 <= n
    BY <1>2, SizeAssumption DEF PutRefused, NextItem
  <2>2. /\ gens' = gens /\ head' = head /\ reap' = reap /\ len' = len
        /\ live' = live /\ added' = added
        /\ removed' = removed /\ dirty' = dirty /\ pendingReap' = pendingReap
        /\ phase' = phase /\ items' = items /\ AppendWith(n, fence)
    BY <1>2 DEF PutRefused, disk, index
  <2>3. Positions(plow, plow + 0, len) = {}
    BY DEF IInv, TypeOK, Positions
  <2>4. CleanApart' /\ FirstLap'
    BY <2>1, <2>2, <2>3, AppendSpace
  <2>5. WindowRetired' /\ ArenaEmpty' /\ HeadFirstLap'
    BY <2>2 DEF SpaceInv, WindowRetired, ArenaEmpty, HeadFirstLap, HeadEnt, Index
  <2>6. JustGrown'
    BY <2>1, <2>2 DEF SpaceInv, JustGrown, HeadEnt
  <2> QED
    BY <2>4, <2>5, <2>6 DEF SpaceInv
<1>3. ASSUME NEW old, NEW d, Delete(old, d)
      PROVE  SpaceInv'
  <2>1. /\ Rewrite(0, 0, old, d, fence) /\ phase = "idle" /\ phase' = "idle"
        /\ UNCHANGED <<disk, reap, len, live>> /\ pendingReap' = pendingReap
        /\ items' # 0
    BY <1>0, <1>3 DEF Delete, NextItem
  <2> QED
    BY <2>1, RewriteSpace
<1> QED
  BY <1>1, <1>2, <1>3

\* The head's entry as a commit, a heartbeat or a drain leaves it.
LEMMA SameHead ==
    ASSUME IInv, NEW ps \in SUBSET staged
    PROVE  /\ Written(gens, ps)[head].refs = HeadEnt.refs
           /\ Written(gens, ps)[head].plow = HeadEnt.plow
           /\ Written(gens, ps)[head].reap = HeadEnt.reap
           /\ Written(gens, ps)[head].len = HeadEnt.len
BY DrainKeepsHead DEF HeadEnt

\* A heartbeat copies the head's entry over (Vault::append_heartbeat).
LEMMA HeartbeatHead ==
    ASSUME IInv, AppendHeartbeat
    PROVE  /\ HeadEnt'.refs = HeadEnt.refs /\ HeadEnt'.plow = HeadEnt.plow
           /\ HeadEnt'.reap = HeadEnt.reap /\ HeadEnt'.len = HeadEnt.len
<1> DEFINE gs == Written(gens, staged)
<1>1. /\ gs \in [RecentGens(head) -> Entry] /\ gs[head] \in Entry /\ head \in Nat
      /\ gs[head].refs = HeadEnt.refs /\ gs[head].plow = HeadEnt.plow
      /\ gs[head].reap = HeadEnt.reap /\ gs[head].len = HeadEnt.len
  BY DrainKeepsHead, SameHead, HeadEntry
<1>2. gens' = Push(gs, head, gs[head]) /\ head' = head + 1
  BY DEF AppendHeartbeat
<1> HIDE DEF gs
<1>3. gens'[head'] = gs[head]
  BY <1>1, <1>2, PushFacts
<1> QED
  BY <1>1, <1>3 DEF HeadEnt

\* The flush's appends, its heartbeats and its refusal.
LEMMA FlushSpace ==
    ASSUME IInv, SpaceInv, Commit \/ FlushNode \/ AppendHeartbeat \/ CommitRefused
    PROVE  SpaceInv'
<1>1. CASE Commit \/ CommitRefused
  <2>1. /\ UNCHANGED <<disk, cursors, live, index, pendingReap, staged, items>>
        /\ phase # "down" /\ (phase = "idle" \/ dirty > 0)
    BY <1>1 DEF Commit, CommitRefused
  <2>2. len = HeadEnt.len
    BY <2>1 DEF SpaceInv, JustGrown, IInv, TypeOK
  <2>3. HeadEnt' = HeadEnt /\ len' = len
    BY <2>1 DEF HeadEnt, disk, cursors
  <2>4. JustGrown'
    BY <2>2, <2>3 DEF JustGrown
  <2>5. CleanApart' /\ WindowRetired' /\ FirstLap'
    BY <2>1 DEF SpaceInv, CleanApart, WindowRetired, FirstLap, Index, disk,
                cursors, index
  <2>6. ArenaEmpty' /\ HeadFirstLap'
    BY <2>1, <2>3 DEF SpaceInv, ArenaEmpty, HeadFirstLap, index
  <2> QED
    BY <2>4, <2>5, <2>6 DEF SpaceInv
<1>2. CASE FlushNode
  <2>1. /\ phase = "flush" /\ dirty > 0 /\ AppendWith(1, fence)
        /\ added' = added \cup {plow % len}
        /\ 1 \in Nat /\ 1 <= 1
    BY <1>2 DEF FlushNode
  <2>2. /\ gens' = gens /\ head' = head /\ reap' = reap /\ len' = len
        /\ live' = live /\ removed' = removed /\ phase' = phase
        /\ pendingReap' = pendingReap /\ items' = items
    BY <1>2 DEF FlushNode, disk
  <2>3. Positions(plow, plow + 1, len) = {plow % len}
    <3>1. plow .. ((plow + 1) - 1) = {plow}
      BY DEF IInv, TypeOK
    <3> QED
      BY <3>1 DEF Positions
  <2>4. /\ CleanApart' /\ FirstLap'
        /\ \A hi \in Nat : hi <= plow =>
              Positions(reap, hi, len) \cap Positions(plow, plow + 1, len) = {}
    BY <2>1, <2>2, <2>3, AppendSpace
  <2>5. len = HeadEnt.len
    BY <2>1 DEF SpaceInv, JustGrown, IInv, TypeOK
  <2>6. JustGrown' /\ HeadFirstLap'
    BY <2>2, <2>5 DEF SpaceInv, JustGrown, HeadFirstLap, HeadEnt
  <2>7. WindowRetired'
    <3>1. /\ pendingReap \in Nat \cup {None}
          /\ pendingReap # None => pendingReap <= plow
      BY DEF IInv, TypeOK, PendingBetween
    <3> QED
      BY <2>1, <2>2, <2>3, <2>4, <3>1 DEF SpaceInv, WindowRetired, Index
  <2>8. ~(items = 0 /\ pendingReap = None)
    BY <2>1 DEF SpaceInv, ArenaEmpty, IInv, TypeOK
  <2>9. ArenaEmpty'
    BY <2>2, <2>8 DEF ArenaEmpty
  <2> QED
    BY <2>4, <2>6, <2>7, <2>9 DEF SpaceInv
<1>3. CASE AppendHeartbeat
  <2>1. /\ UNCHANGED <<plow, reap, len, live, index, pendingReap, phase, items>>
        /\ phase = "flush" /\ dirty > 0
    BY <1>3 DEF AppendHeartbeat
  <2>2. /\ HeadEnt'.refs = HeadEnt.refs /\ HeadEnt'.plow = HeadEnt.plow
        /\ HeadEnt'.len = HeadEnt.len
    BY <1>3, HeartbeatHead
  <2>3. len = HeadEnt.len
    BY <2>1 DEF SpaceInv, JustGrown, IInv, TypeOK
  <2>4. JustGrown' /\ HeadFirstLap'
    BY <2>1, <2>2, <2>3 DEF SpaceInv, JustGrown, HeadFirstLap
  <2>5. CleanApart' /\ WindowRetired' /\ FirstLap'
    BY <2>1 DEF SpaceInv, CleanApart, WindowRetired, FirstLap, Index, index
  <2>6. ArenaEmpty'
    BY <2>1 DEF SpaceInv, ArenaEmpty, index
  <2> QED
    BY <2>4, <2>5, <2>6 DEF SpaceInv
<1> QED
  BY <1>1, <1>2, <1>3

\* A commit's entry becomes the head (Vault::commit).
LEMMA LandHead ==
    ASSUME IInv, Land
    PROVE  HeadEnt' = NewEntry
<1> DEFINE gs == Written(gens, staged)
<1>1. head \in Nat /\ head + 1 \in RecentGens(head + 1)
  BY HeadEntry, RecentFacts
<1>2. gens' = Push(gs, head, NewEntry) /\ head' = head + 1
  BY DEF Land
<1> HIDE DEF gs
<1>3. gens'[head'] = NewEntry
  BY <1>1, <1>2 DEF Push
<1> QED
  BY <1>3 DEF HeadEnt

\* The commit: the retired window, empty of what the new head references,
\* joins the clean region a lap further on (Vault::commit).
LEMMA LandSpace ==
    ASSUME IInv, SpaceInv, Land
    PROVE  SpaceInv'
<1>1. /\ live' = Index /\ added' = {} /\ removed' = {} /\ reap' = RetiredReap
      /\ pendingReap' = None /\ phase' = "idle"
      /\ plow' = plow /\ len' = len /\ dirty' = 0 /\ phase = "flush"
  BY DEF Land, LiveSetApply, Index
<1>2. /\ plow \in Nat /\ reap \in Nat /\ len \in Nat \ {0}
      /\ pendingReap \in Nat \cup {None}
  BY DEF IInv, TypeOK
<1>3. /\ Positions(plow, reap + len, len) \cap Index = {}
      /\ plow < len => Index \subseteq 0 .. (plow - 1)
  BY <1>1 DEF SpaceInv, CleanApart, FirstLap, Index
<1>4. HeadEnt'.refs = Index /\ HeadEnt'.plow = plow /\ HeadEnt'.len = len
  BY LandHead DEF NewEntry
<1>5. Positions(plow, RetiredReap + len, len) \cap Index = {}
  <2>1. CASE pendingReap = None
    BY <1>3, <2>1 DEF RetiredReap
  <2>2. CASE pendingReap # None
    <3>1. /\ RetiredReap = pendingReap /\ pendingReap \in Int
          /\ plow \in Int /\ reap + len \in Int /\ pendingReap + len \in Int
          /\ reap \in Int
      BY <1>2, <2>2 DEF RetiredReap
    <3>2. Positions(reap + len, pendingReap + len, len)
            = Positions(reap, pendingReap, len)
      BY <1>2, <3>1, PositionsLap, Zenon
    <3>3. Positions(reap, pendingReap, len) \cap Index = {}
      BY <2>2 DEF SpaceInv, WindowRetired
    <3>4. Positions(plow, pendingReap + len, len)
            \subseteq Positions(plow, reap + len, len)
                        \cup Positions(reap + len, pendingReap + len, len)
      BY <1>2, <3>1, PositionsJoin, Zenon
    <3> QED
      BY <1>3, <3>1, <3>2, <3>3, <3>4
  <2> QED
    BY <2>1, <2>2
<1>6. CleanApart' /\ FirstLap'
  BY <1>1, <1>3, <1>5 DEF CleanApart, FirstLap
<1>7. HeadFirstLap' /\ JustGrown'
  BY <1>1, <1>3, <1>4 DEF HeadFirstLap, JustGrown
<1>8. ArenaEmpty' /\ WindowRetired'
  BY <1>1 DEF ArenaEmpty, WindowRetired
<1> QED
  BY <1>6, <1>7, <1>8 DEF SpaceInv

\* With no call and no window under way the index is the live set.
LEMMA IdleIndex ==
    ASSUME SpaceInv, pendingReap = None, items = 0 \/ ~HasUncommitted
    PROVE  Index = live /\ removed = {}
<1>1. added = {} /\ removed = {}
  BY DEF SpaceInv, ArenaEmpty, HasUncommitted
<1> QED
  BY <1>1 DEF Index

\* A reap or a rescue, its window staged or its appends refused half way
\* (Vault::reap_one_window, Vault::rescue).
LEMMA CleaningSpace ==
    ASSUME IInv, SpaceInv, ReapOneWindow => items = 0,
           ReapOneWindow \/ ReapRefused \/ Rescue \/ RescueRefused
    PROVE  SpaceInv'
<1>0. items \in Nat /\ plow \in Nat /\ reap \in Nat /\ len \in Nat \ {0}
  BY DEF IInv, TypeOK
<1>1. ASSUME NEW w \in 1 .. len, NEW n \in 0 .. len, NEW old, NEW d, NEW limit,
             w <= Occupied, ReapStaged(w, n, old, d, limit),
             phase = "idle", UNCHANGED <<disk, reap, len, live>>,
             Index = live, removed = {}
      PROVE  SpaceInv'
  <2>1. n \in Nat /\ w \in Nat
    BY <1>0
  <2>2. /\ pendingReap' \in Nat /\ pendingReap' <= plow /\ pendingReap' = reap + w
        /\ phase' = "flush" /\ Rewrite(n, n, old, d, limit)
    BY <1>0, <1>1, <2>1 DEF ReapStaged, Occupied
  <2>3. Positions(reap, pendingReap', len) \cap (Index \ old) = {}
    BY <1>1, <2>2 DEF ReapStaged, Survivors
  <2> QED
    BY <1>1, <2>1, <2>2, <2>3, RewriteSpace
<1>2. ASSUME NEW n \in Nat, NEW m \in Nat, NEW old, NEW d, NEW limit,
             ReapCut(n, m, old, d, limit),
             phase = "idle", phase' = "idle",
             UNCHANGED <<disk, reap, len, live, pendingReap>>
      PROVE  SpaceInv'
  <2>1. Rewrite(n, m, old, d, limit) /\ items' # 0
    BY <1>0, <1>2 DEF ReapCut
  <2>2. UNCHANGED <<disk, reap, len, live>> /\ pendingReap' = pendingReap
    BY <1>2
  <2> QED
    BY <1>2, <2>1, <2>2, RewriteSpace
<1>3. CASE ReapOneWindow
  <2>1. PICK w \in 1 .. len, n \in 0 .. len, old \in SUBSET Index,
             d \in 0 .. MaxDirty :
               WindowFits(w) /\ ReapStaged(w, n, old, d, fence)
    BY <1>3 DEF ReapOneWindow
  <2>2. /\ phase = "idle" /\ UNCHANGED <<disk, reap, len, live>>
        /\ pendingReap = None
    BY <1>3 DEF ReapOneWindow, NextItem
  <2>3. items = 0
    BY <1>3
  <2>4. w <= Occupied
    BY <2>1 DEF WindowFits
  <2> QED
    BY <1>1, <2>1, <2>2, <2>3, <2>4, IdleIndex
<1>4. CASE ReapRefused
  <2>1. PICK n \in Nat, m \in Nat, old \in SUBSET Index,
             d \in 0 .. MaxDirty : ReapCut(n, m, old, d, fence)
    BY <1>0, <1>4 DEF ReapRefused
  <2>2. /\ phase = "idle" /\ phase' = "idle"
        /\ UNCHANGED <<disk, reap, len, live, pendingReap>>
    BY <1>4 DEF ReapRefused, NextItem
  <2> QED
    BY <1>2, <2>1, <2>2
<1>5. CASE Rescue
  <2>1. PICK w \in 1 .. len, n \in 0 .. len, old \in SUBSET Index,
             d \in 0 .. MaxDirty :
               RescueWindow(w) /\ ReapStaged(w, n, old, d, None)
    BY <1>5 DEF Rescue
  <2>2. /\ phase = "idle" /\ UNCHANGED <<disk, reap, len, live>>
        /\ pendingReap = None /\ ~HasUncommitted
    BY <1>5 DEF Rescue, RescueCalled, NextItem
  <2>3. w <= Occupied
    BY <2>1 DEF RescueWindow
  <2> QED
    BY <1>1, <2>1, <2>2, <2>3, IdleIndex
<1>6. CASE RescueRefused
  <2>1. PICK n \in Nat, m \in Nat, old \in SUBSET Index,
             d \in 0 .. MaxDirty : ReapCut(n, m, old, d, None)
    BY <1>0, <1>6 DEF RescueRefused
  <2>2. /\ phase = "idle" /\ phase' = "idle"
        /\ UNCHANGED <<disk, reap, len, live, pendingReap>>
    BY <1>6 DEF RescueRefused, RescueCalled, NextItem
  <2> QED
    BY <1>2, <2>1, <2>2
<1> QED
  BY <1>3, <1>4, <1>5, <1>6

\* The barriers, a power cut and the open (Vault::rollback_to_head,
\* Vault::grow, Vault::resume_unsettled).
LEMMA BarrierSpace ==
    ASSUME IInv, SpaceInv,
           \/ RollbackToHead
           \/ \E new \in (len + 1) .. MaxLen : Grow(new)
           \/ Crash
           \/ Open
    PROVE  SpaceInv'
<1>1. CASE RollbackToHead
  <2>1. /\ UNCHANGED <<disk, cursors, live, phase>>
        /\ added' = {} /\ removed' = {} /\ dirty' = 0 /\ pendingReap' = None
        /\ phase = "idle"
    BY <1>1 DEF RollbackToHead, FromCommittedHead
  <2>2. HeadEnt' = HeadEnt /\ len' = len /\ plow' = plow /\ reap' = reap
    BY <2>1 DEF HeadEnt, disk, cursors
  <2>3. JustGrown' /\ HeadFirstLap'
    BY <2>1, <2>2 DEF SpaceInv, JustGrown, HeadFirstLap
  <2>4. CleanApart' /\ FirstLap'
    BY <2>1, <2>2 DEF SpaceInv, CleanApart, FirstLap
  <2>5. ArenaEmpty' /\ WindowRetired'
    BY <2>1 DEF ArenaEmpty, WindowRetired
  <2> QED
    BY <2>3, <2>4, <2>5 DEF SpaceInv
<1>2. ASSUME NEW new \in (len + 1) .. MaxLen, Grow(new)
      PROVE  SpaceInv'
  <2>1. /\ len \in Nat \ {0} /\ new \in Nat \ {0} /\ len < new /\ len \in Nat
    BY SizeAssumption DEF IInv, TypeOK
  <2>2. /\ HeadEnt'.refs = HeadEnt.refs /\ HeadEnt'.plow = HeadEnt.plow
        /\ HeadEnt'.len = HeadEnt.len
    BY <1>2, SameHead DEF Grow, HeadEnt
  <2>3. /\ len' = new /\ live' = HeadEnt.refs
        /\ plow' = Realign(HeadEnt.plow, len, new) /\ reap' = plow' - len
        /\ added' = {} /\ removed' = {} /\ dirty' = 0 /\ pendingReap' = None
        /\ staged' = {} /\ phase' = "flush" /\ phase = "idle"
    BY <1>2 DEF Grow, FromCommittedHead, HeadEnt
  <2>4. /\ HeadEnt.plow \in Nat /\ HeadEnt.len = len
        /\ HeadEnt.refs \subseteq 0 .. (len - 1)
    BY <2>3, HeadEntry DEF IInv, HeadGeometry, SpaceInv, JustGrown, HeadEnt
  <2>5. plow' \in Nat /\ plow' >= len /\ plow' % new = len
    BY <2>1, <2>3, <2>4, RealignFacts, RealignPosition
  <2>6. CleanApart'
    <3>1. \A c \in plow' .. ((reap' + new) - 1) : c % new \in len .. (new - 1)
      <4> TAKE c \in plow' .. ((reap' + new) - 1)
      <4>1. plow' \in Int /\ c \in Int /\ plow' <= c /\ c < plow' + (new - len)
        BY <2>1, <2>3, <2>5
      <4> QED
        BY <2>1, <2>5, <4>1, GrownPositions, Zenon
    <3>2. Positions(plow', reap' + new, new) \subseteq len .. (new - 1)
      BY <3>1 DEF Positions
    <3> QED
      BY <2>1, <2>3, <2>4, <3>2 DEF CleanApart
  <2>7. FirstLap'
    <3>1. ASSUME plow' < new PROVE plow' = len
      <4>1. plow' \in 0 .. (new - 1)
        BY <2>1, <2>5, <3>1
      <4>2. plow' % new = plow'
        BY <2>1, <4>1, ModSmall, Zenon
      <4> QED
        BY <2>5, <4>2
    <3> QED
      BY <2>3, <2>4, <3>1 DEF FirstLap
  <2>8. HeadFirstLap' /\ ArenaEmpty' /\ WindowRetired'
    BY <2>2, <2>3 DEF SpaceInv, HeadFirstLap, ArenaEmpty, WindowRetired
  <2>9. JustGrown'
    BY <2>1, <2>2, <2>3, <2>4, <2>5 DEF JustGrown
  <2> QED
    BY <2>6, <2>7, <2>8, <2>9 DEF SpaceInv
<1>3. CASE Crash
  <2>1. PICK landed \in SUBSET staged : gens' = Written(gens, landed)
    BY <1>3 DEF Crash
  <2>2. /\ head' = head /\ added' = {} /\ removed' = {}
        /\ dirty' = 0 /\ pendingReap' = None /\ phase' = "down"
    BY <1>3 DEF Crash, FromCommittedHead
  <2>3. /\ HeadEnt'.refs = HeadEnt.refs /\ HeadEnt'.plow = HeadEnt.plow
        /\ HeadEnt'.len = HeadEnt.len
    BY <2>1, <2>2, SameHead DEF HeadEnt
  <2> QED
    BY <2>2, <2>3 DEF SpaceInv, ArenaEmpty, CleanApart, WindowRetired, FirstLap,
                      HeadFirstLap, JustGrown
<1>4. CASE Open
  <2>1. /\ plow' = HeadEnt.plow /\ len' = HeadEnt.len /\ live' = HeadEnt.refs
        /\ reap' = DeriveReap(HeadEnt.plow, HeadEnt.len, HeadEnt.refs)
        /\ HeadEnt' = HeadEnt /\ added' = added
        /\ removed' = removed /\ dirty' = dirty /\ pendingReap' = pendingReap
        /\ items' = items /\ phase' = "idle"
    BY <1>4 DEF Open, disk, index, HeadEnt
  <2>2. /\ HeadEnt.plow \in Nat /\ HeadEnt.len \in Nat \ {0}
        /\ HeadEnt.refs \in SUBSET (0 .. (HeadEnt.len - 1))
    BY HeadEntry DEF IInv, HeadGeometry, HeadEnt
  <2>3. added = {} /\ removed = {} /\ pendingReap = None
    BY <1>4 DEF IInv, Open, DownIsEmpty
  <2>4. HeadEnt.plow < HeadEnt.len => HeadEnt.refs \subseteq 0 .. (HeadEnt.plow - 1)
    BY DEF SpaceInv, HeadFirstLap
  <2>5. CleanApart'
    <3>1. Positions(HeadEnt.plow,
                    DeriveReap(HeadEnt.plow, HeadEnt.len, HeadEnt.refs)
                      + HeadEnt.len, HeadEnt.len) \cap HeadEnt.refs = {}
      BY <2>2, <2>4, DerivedClean, Zenon
    <3> QED
      BY <2>1, <2>3, <3>1 DEF CleanApart
  <2>6. FirstLap' /\ HeadFirstLap' /\ JustGrown'
    BY <2>1, <2>3, <2>4 DEF FirstLap, HeadFirstLap, JustGrown
  <2>7. ArenaEmpty' /\ WindowRetired'
    BY <2>1, <2>3 DEF SpaceInv, ArenaEmpty, WindowRetired
  <2> QED
    BY <2>5, <2>6, <2>7 DEF SpaceInv
<1> QED
  BY <1>1, <1>2, <1>3, <1>4

\* A fresh vault's tract is clean (Vault::genesis).
THEOREM InitSpaceInv == Init => SpaceInv
<1> SUFFICES ASSUME Init PROVE SpaceInv
  OBVIOUS
<1>1. HeadEnt = Genesis /\ len = GenesisLen
  BY DEF Init, HeadEnt
<1>2. ArenaEmpty /\ CleanApart /\ WindowRetired /\ FirstLap
  BY DEF Init, ArenaEmpty, CleanApart, WindowRetired, FirstLap
<1>3. HeadFirstLap /\ JustGrown
  BY <1>1 DEF HeadFirstLap, JustGrown, Genesis
<1> QED
  BY <1>2, <1>3 DEF SpaceInv

\* Every step keeps the clean region clean, but for a reap inside a batch.
THEOREM NextSpaceInv ==
    ASSUME IInv, SpaceInv, [Next]_vars, [ReapBetweenBatches]_vars
    PROVE  SpaceInv'
<1>1. CASE UNCHANGED vars
  <2>1. HeadEnt' = HeadEnt
    BY <1>1 DEF vars, disk, HeadEnt
  <2> QED
    BY <1>1, <2>1 DEF vars, disk, cursors, index, SpaceInv, ArenaEmpty, CleanApart,
                WindowRetired, FirstLap, HeadFirstLap, JustGrown, Index
<1>2. CASE Next /\ ReapBetweenBatches
  BY <1>2, EntrySpace, FlushSpace, LandSpace, CleaningSpace, BarrierSpace
     DEF Next, ReapBetweenBatches
<1> QED
  BY <1>1, <1>2

\* As long as every window is reaped between batches, whatever the batches,
\* nothing the index or the head references ever lies in the clean region
\* (tract.rs, Tract::append_with).
THEOREM CleanBetweenBatches ==
    Spec /\ [][ReapBetweenBatches]_vars => [](IInv /\ SpaceInv /\ CleanInvariant)
<1>1. SpaceInv => CleanInvariant
  BY DEF SpaceInv, CleanApart, CleanInvariant, Index
<1>2. Init => IInv /\ SpaceInv
  BY InitIInv, InitSpaceInv
<1>3. (IInv /\ SpaceInv) /\ [Next]_vars /\ [ReapBetweenBatches]_vars
        => (IInv /\ SpaceInv)'
  BY NextIInv, NextSpaceInv
<1> QED
  BY <1>1, <1>2, <1>3, PTL DEF Spec

\* A vault whose calls are committed one by one reaps between batches.
LEMMA SinglesReapBetween ==
    ASSUME MaxBatch = 1
    PROVE  Spec => [][ReapBetweenBatches]_vars
<1>1. IInv /\ [Next]_vars => [ReapBetweenBatches]_vars
  BY DEF IInv, TypeOK, ReapBetweenBatches, ReapOneWindow, NextItem
<1> QED
  BY <1>1, Invariance, PTL DEF Spec

\* With the calls committed one by one, the clean region is always clean: no
\* append is refused by the lap guard alone (Tract::append_with).
THEOREM CleanAlways ==
    ASSUME MaxBatch = 1
    PROVE  Spec => []CleanInvariant
BY CleanBetweenBatches, SinglesReapBetween, PTL

(***************************************************************************)
(* The rollback fence.                                                     *)
(***************************************************************************)
\* What an entry says of cursors and blocks, its wholeness apart.
SameEntry(e, f) ==
    e.refs = f.refs /\ e.plow = f.plow /\ e.reap = f.reap /\ e.len = f.len

\* The fence lies below the budget of every recent generation (fence_from).
LEMMA FenceBelow ==
    ASSUME NEW h \in Nat, NEW gs \in [RecentGens(h) -> Entry],
           FenceFrom(gs, h) # None, NEW g \in RecentGens(h)
    PROVE  FenceFrom(gs, h) \in Nat /\ FenceFrom(gs, h) <= FenceBudget(gs[g])
<1> DEFINE B == {FenceBudget(gs[k]) : k \in RecentGens(h)}
<1>1. B \in SUBSET Nat /\ B # {} /\ FenceBudget(gs[g]) \in B
  BY RecentFacts DEF FenceBudget, Entry
<1>2. FenceFrom(gs, h) = Min(B)
  BY DEF FenceFrom
<1> HIDE DEF B
<1>3. Min(B) \in B /\ \A y \in B : Min(B) <= y
  BY <1>1, MinOfNaturals, Zenon
<1>4. Min(B) \in Nat /\ Min(B) <= FenceBudget(gs[g])
  BY <1>1, <1>3, Zenon
<1> QED
  BY <1>2, <1>4, Zenon

\* The fence reads cursors only (fence_from).
LEMMA FenceOfSame ==
    ASSUME NEW h \in Nat, NEW gs, NEW fs,
           \A g \in RecentGens(h) : SameEntry(gs[g], fs[g])
    PROVE  FenceFrom(gs, h) = FenceFrom(fs, h)
<1>1. \A g \in RecentGens(h) : FenceBudget(gs[g]) = FenceBudget(fs[g])
  BY DEF SameEntry, FenceBudget
<1> DEFINE B(es) == {FenceBudget(es[g]) : g \in RecentGens(h)}
<1>2. ASSUME NEW x \in B(gs) PROVE x \in B(fs)
  <2>1. PICK g \in RecentGens(h) : x = FenceBudget(gs[g])
    OBVIOUS
  <2> QED
    BY <1>1, <2>1
<1>3. ASSUME NEW x \in B(fs) PROVE x \in B(gs)
  <2>1. PICK g \in RecentGens(h) : x = FenceBudget(fs[g])
    OBVIOUS
  <2> QED
    BY <1>1, <2>1
<1> HIDE DEF B
<1>4. B(gs) = B(fs)
  BY <1>2, <1>3, Zenon
<1> QED
  BY <1>4 DEF FenceFrom, B

\* A drain leaves every recent entry's cursors, and the wholeness of those it
\* does not touch (Mirror::drain).
LEMMA DrainKeeps ==
    ASSUME IInv, FenceInv, NEW ps \in SUBSET staged
    PROVE  /\ \A g \in RecentGens(head) : SameEntry(Written(gens, ps)[g], gens[g])
           /\ \A g \in RecentGens(head) : g > unfenced => Written(gens, ps)[g].whole
<1>1. gens \in [RecentGens(head) -> Entry]
  BY HeadEntry
<1>2. \A g \in RecentGens(head) : SameEntry(Written(gens, ps)[g], gens[g])
  BY <1>1, WrittenFacts DEF SameEntry
<1>3. ASSUME NEW g \in RecentGens(head), g > unfenced
      PROVE  Written(gens, ps)[g].whole
  <2>1. gens[g].whole /\ gens[g].refs \cap ps = {}
    BY <1>3 DEF FenceInv, FencedGensIntact, StagedFenced
  <2> QED
    BY <1>1, <2>1, WrittenFacts
<1> QED
  BY <1>2, <1>3

\* What the spine says is the same after a drain.
LEMMA DrainFence ==
    ASSUME IInv, FenceInv, NEW ps \in SUBSET staged,
           gens' = Written(gens, ps), head' = head, unfenced' = unfenced,
           staged' = {}, fence' = fence, phase # "down"
    PROVE  FenceInv'
<1>1. /\ \A g \in RecentGens(head) : SameEntry(gens'[g], gens[g])
      /\ \A g \in RecentGens(head) : g > unfenced => gens'[g].whole
      /\ head \in RecentGens(head) /\ head \in Nat
  BY DrainKeeps, HeadEntry
<1>2. HeadEnt'.plow = HeadEnt.plow /\ HeadEnt'.len = HeadEnt.len
  BY <1>1 DEF HeadEnt, SameEntry
<1>3. GensGeometry'
  BY <1>1, <1>2 DEF FenceInv, GensGeometry, SameEntry
<1>4. FenceIsRead'
  <2>1. FenceFrom(gens', head) = FenceFrom(gens, head)
    BY <1>1, FenceOfSame
  <2> QED
    BY <2>1 DEF FenceInv, FenceIsRead
<1>5. Guarded'
  <2>1. \A g \in RecentGens(head) : FenceBudget(gens'[g]) = FenceBudget(gens[g])
    BY <1>1 DEF SameEntry, FenceBudget
  <2>2. \A g \in RecentGens(head) : gens'[g].refs = gens[g].refs
    BY <1>1 DEF SameEntry
  <2> QED
    BY <1>2, <2>1, <2>2 DEF FenceInv, Guarded
<1>6. StagedFenced' /\ FencedGensIntact'
  BY <1>1 DEF StagedFenced, FencedGensIntact
<1> QED
  BY <1>3, <1>4, <1>5, <1>6 DEF FenceInv

\* A fenced append, at or past the head's cursor and below every recent budget,
\* stays clear of every recent generation; an unfenced one gives them up
\* (Tract::append_with, Vault::rescue).
LEMMA AppendFence ==
    ASSUME IInv, FenceInv, phase # "down", len = HeadEnt.len,
           NEW n \in Nat, NEW limit, limit = None \/ limit = fence,
           AppendWith(n, limit), UNCHANGED disk,
           fence' = fence \/ fence' = None
    PROVE  FenceInv'
<1>1. /\ gens' = gens /\ head' = head /\ head \in Nat
      /\ gens \in [RecentGens(head) -> Entry]
      /\ plow \in Nat /\ HeadEnt.plow \in Nat /\ HeadEnt.plow <= plow
      /\ fence \in Nat \cup {None} /\ unfenced \in Nat \cup {-1}
  BY HeadEntry DEF disk, IInv, TypeOK, PlowAhead, HeadEnt
<1>2. /\ staged' = staged \cup Positions(plow, plow + n, len)
      /\ unfenced' = IF limit = None /\ n > 0 THEN head ELSE unfenced
      /\ limit = None \/ plow + n <= limit
  BY DEF AppendWith, CanAppend, WithinFence
<1>3. HeadEnt' = HeadEnt
  BY <1>1 DEF HeadEnt
<1>4. GensGeometry' /\ Guarded' /\ FenceIsRead'
  BY <1>1, <1>3 DEF FenceInv, GensGeometry, Guarded, FenceIsRead
<1>5. \A g \in RecentGens(head) : g \in Int /\ g <= head
  BY <1>1 DEF RecentGens
<1>6. FencedGensIntact' /\ StagedFenced'
  <2>1. CASE limit = None /\ n > 0
    BY <1>1, <1>2, <1>5, <2>1 DEF FencedGensIntact, StagedFenced
  <2>2. CASE n = 0
    <3>1. Positions(plow, plow + n, len) = {}
      BY <1>1, <2>2 DEF Positions
    <3> QED
      BY <1>1, <1>2, <2>2, <3>1 DEF FenceInv, FencedGensIntact, StagedFenced
  <2>3. CASE limit # None
    <3>1. fence = limit /\ fence \in Nat /\ plow + n <= fence
          /\ fence = FenceFrom(gens, head) /\ unfenced' = unfenced
      BY <1>1, <1>2, <2>3 DEF FenceInv, FenceIsRead
    <3>2. ASSUME NEW g \in RecentGens(head), NEW c \in plow .. ((plow + n) - 1)
          PROVE  c % len \notin gens[g].refs
      <4>1. c \in Nat /\ HeadEnt.plow <= c /\ c < fence
        BY <1>1, <3>1
      <4>2. ASSUME NEW h \in RecentGens(head) PROVE c < FenceBudget(gens[h])
        <5>1. fence <= FenceBudget(gens[h])
          BY <1>1, <3>1, FenceBelow DEF None
        <5>2. FenceBudget(gens[h]) \in Nat
          BY <1>1 DEF FenceBudget, Entry
        <5> QED
          BY <3>1, <4>1, <5>1, <5>2
      <4> QED
        BY <4>1, <4>2 DEF FenceInv, Guarded
    <3>3. \A g \in RecentGens(head) : Positions(plow, plow + n, len) \cap gens[g].refs = {}
      BY <3>2 DEF Positions
    <3> QED
      BY <1>1, <1>2, <3>1, <3>3 DEF FenceInv, FencedGensIntact, StagedFenced
  <2> QED
    BY <2>1, <2>2, <2>3
<1> QED
  BY <1>4, <1>6 DEF FenceInv

\* A new entry of the head's tract, its cursor not behind, joins the spine: the
\* older generations keep their guard (Vault::commit, Vault::append_heartbeat).
LEMMA PushFence ==
    ASSUME IInv, FenceInv, NEW e \in Entry, IInv',
           gens' = Push(Written(gens, staged), head, e), head' = head + 1,
           fence' = FenceFrom(gens', head'), staged' = {}, unfenced' = unfenced,
           HeadEnt.plow <= e.plow, HeadEnt.len <= e.len,
           e.refs \subseteq 0 .. (e.len - 1),
           \A c \in Nat : e.plow <= c /\ c < FenceBudget(e) => c % e.len \notin e.refs,
           \/ e.len = HeadEnt.len
           \/ \A c \in Nat : e.plow <= c /\ c < FenceBudget(e)
                 => c % e.len \in HeadEnt.len .. (e.len - 1)
    PROVE  FenceInv'
<1> DEFINE gs == Written(gens, staged)
<1>1. /\ gs \in [RecentGens(head) -> Entry] /\ head \in Nat
      /\ HeadEnt.plow \in Nat /\ HeadEnt.len \in Nat /\ e.plow \in Nat
      /\ e.len \in Nat
  BY DrainKeepsHead, HeadEntry DEF HeadEnt, Entry
<1>2. /\ \A g \in RecentGens(head) : SameEntry(gs[g], gens[g])
      /\ \A g \in RecentGens(head) : g > unfenced => gs[g].whole
  BY DrainKeeps
<1>3. gens' = Push(gs, head, e)
  OBVIOUS
<1> HIDE DEF gs
<1>4. gens'[head + 1] = e /\ HeadEnt' = e /\ head + 1 \in RecentGens(head + 1)
  BY <1>1, <1>3, PushFacts, RecentFacts DEF HeadEnt
<1>5. ASSUME NEW g \in RecentGens(head + 1), g # head + 1
      PROVE  /\ g \in RecentGens(head) /\ g <= head /\ g \in Nat
             /\ gens'[g] = gs[g] /\ SameEntry(gens'[g], gens[g])
  <2>1. g \in RecentGens(head) /\ gens'[g] = gs[g]
    BY <1>1, <1>3, <1>5, RecentFacts DEF Push
  <2> QED
    BY <1>1, <1>2, <2>1 DEF RecentGens
<1>6. GensGeometry'
  <2>1. ASSUME NEW g \in RecentGens(head + 1), g # head + 1
        PROVE  gens'[g].refs \subseteq 0 .. (e.len - 1)
    <3>1. gens'[g].refs \subseteq 0 .. (HeadEnt.len - 1)
      BY <1>5, <2>1 DEF FenceInv, GensGeometry, SameEntry
    <3>2. 0 .. (HeadEnt.len - 1) \subseteq 0 .. (e.len - 1)
      BY <1>1
    <3> QED
      BY <3>1, <3>2, Zenon
  <2> QED
    BY <1>4, <2>1 DEF GensGeometry
<1>7. FenceIsRead' /\ StagedFenced'
  BY DEF FenceIsRead, StagedFenced
<1>8. FencedGensIntact'
  <2>1. gens'[head'].whole
    BY DEF IInv, HeadIntact
  <2> QED
    BY <1>2, <1>5, <2>1 DEF FencedGensIntact
<1>9. Guarded'
  <2> SUFFICES ASSUME NEW g \in RecentGens(head + 1), NEW c \in Nat, e.plow <= c,
                      \A h \in RecentGens(head + 1) : g <= h => c < FenceBudget(gens'[h])
               PROVE  c % e.len \notin gens'[g].refs
    BY <1>4, Zenon DEF Guarded
  <2>1. g <= head + 1
    BY <1>1 DEF RecentGens
  <2>2. c < FenceBudget(e)
    BY <1>4, <2>1
  <2>3. CASE g = head + 1
    BY <1>4, <2>2, <2>3
  <2>4. CASE g # head + 1 /\ e.len = HeadEnt.len
    <3>1. g \in RecentGens(head) /\ gens'[g].refs = gens[g].refs
      BY <1>5, <2>4 DEF SameEntry
    <3>2. ASSUME NEW h \in RecentGens(head), g <= h
          PROVE  c < FenceBudget(gens[h])
      <4>1. h \in RecentGens(head + 1) /\ h # head + 1
        BY <1>1, <3>2, KAssumption DEF RecentGens
      <4>2. FenceBudget(gens'[h]) = FenceBudget(gens[h])
        BY <1>5, <4>1 DEF SameEntry, FenceBudget
      <4> QED
        BY <3>2, <4>1, <4>2
    <3>3. HeadEnt.plow <= c
      BY <1>1
    <3> QED
      BY <2>4, <3>1, <3>2, <3>3 DEF FenceInv, Guarded
  <2>5. CASE g # head + 1 /\ e.len # HeadEnt.len
    <3>1. gens'[g].refs \subseteq 0 .. (HeadEnt.len - 1)
      BY <1>5, <2>5 DEF FenceInv, GensGeometry, SameEntry
    <3>2. c % e.len \in HeadEnt.len .. (e.len - 1)
      BY <2>2, <2>5
    <3> QED
      BY <1>1, <3>1, <3>2
  <2> QED
    BY <2>3, <2>4, <2>5
<1> QED
  BY <1>6, <1>7, <1>8, <1>9 DEF FenceInv

\* The commit's entry is guarded by the clean region; a grown tract's, by the
\* end of the old one (Vault::commit, Vault::grow).
LEMMA LandFence ==
    ASSUME IInv, SpaceInv, FenceInv, Land
    PROVE  FenceInv'
<1>1. IInv' /\ SpaceInv'
  BY LandStep, LandSpace
<1>2. /\ HeadEnt' = NewEntry /\ NewEntry \in Entry
      /\ NewEntry.refs = Index /\ NewEntry.plow = plow /\ NewEntry.len = len
      /\ NewEntry.reap = RetiredReap
  <2>1. HeadEnt' = NewEntry
    BY LandHead
  <2>2. head' \in RecentGens(head') /\ gens' \in [RecentGens(head') -> Entry]
    BY <1>1, HeadEntry, RecentFacts DEF IInv, TypeOK, Land
  <2>3. HeadEnt' \in Entry
    BY <2>2 DEF HeadEnt
  <2> QED
    BY <2>1, <2>3 DEF NewEntry
<1>3. /\ gens' = Push(Written(gens, staged), head, NewEntry) /\ head' = head + 1
      /\ fence' = FenceFrom(gens', head') /\ staged' = {} /\ unfenced' = unfenced
      /\ phase = "flush" /\ phase' = "idle" /\ live' = Index /\ plow' = plow
      /\ reap' = RetiredReap /\ len' = len
  BY DEF Land, LiveSetApply, Index, ghosts
<1>4. /\ HeadEnt.plow <= plow /\ HeadEnt.len <= len /\ plow \in Nat
      /\ len \in Nat \ {0} /\ HeadEnt.len \in Nat /\ reap \in Nat
      /\ RetiredReap \in Nat
  BY <1>1, <1>3, HeadEntry DEF IInv, TypeOK, PlowAhead, HeadGeometry, HeadEnt
<1>5. Index \subseteq 0 .. (len - 1)
  BY DEF IInv, TypeOK, Index
<1>6. ASSUME NEW c \in Nat, plow <= c, c < RetiredReap + len
      PROVE  c % len \notin Index
  <2>1. Positions(plow, RetiredReap + len, len) \cap Index = {}
    BY <1>1, <1>3 DEF SpaceInv, CleanApart
  <2>2. c \in plow .. ((RetiredReap + len) - 1)
    BY <1>4, <1>6
  <2> QED
    BY <2>1, <2>2 DEF Positions
<1>7. ASSUME NEW c \in Nat, plow <= c, c < RetiredReap + len, len # HeadEnt.len
      PROVE  c % len \in HeadEnt.len .. (len - 1)
  <2>1. pendingReap = None /\ plow = reap + HeadEnt.len /\ plow % len = HeadEnt.len
    BY <1>3, <1>7 DEF SpaceInv, JustGrown
  <2>2. /\ c < plow + (len - HeadEnt.len) /\ HeadEnt.len < len /\ plow \in Int
        /\ c \in Int
    BY <1>4, <1>7, <2>1 DEF RetiredReap
  <2> QED
    BY <1>4, <1>7, <2>1, <2>2, GrownPositions, Zenon
<1>8. FenceBudget(NewEntry) = RetiredReap + len
  BY <1>2 DEF FenceBudget
<1> QED
  BY <1>1, <1>2, <1>3, <1>4, <1>5, <1>6, <1>7, <1>8, PushFence

\* A heartbeat's copy of the head is guarded as the head was
\* (Vault::append_heartbeat).
LEMMA HeartbeatFence ==
    ASSUME IInv, SpaceInv, FenceInv, AppendHeartbeat
    PROVE  FenceInv'
<1> DEFINE e == Written(gens, staged)[head]
<1>1. IInv'
  BY FlushStepKeeps
<1>2. /\ SameEntry(e, HeadEnt) /\ e \in Entry /\ head \in Nat
      /\ head \in RecentGens(head)
  BY SameHead, DrainKeepsHead, HeadEntry DEF SameEntry
<1>3. /\ gens' = Push(Written(gens, staged), head, e) /\ head' = head + 1
      /\ fence' = FenceFrom(gens', head') /\ staged' = {} /\ unfenced' = unfenced
  BY DEF AppendHeartbeat, ghosts
<1>4. /\ HeadEnt.plow \in Nat /\ HeadEnt.refs \subseteq 0 .. (HeadEnt.len - 1)
      /\ HeadEnt.len \in Nat
  BY HeadEntry DEF IInv, HeadGeometry, HeadEnt
<1> HIDE DEF e
<1>5. ASSUME NEW c \in Nat, e.plow <= c, c < FenceBudget(e)
      PROVE  c % e.len \notin e.refs
  <2>1. /\ HeadEnt.plow <= c /\ c < FenceBudget(gens[head])
        /\ e.len = HeadEnt.len /\ e.refs = gens[head].refs
    BY <1>2, <1>5 DEF SameEntry, FenceBudget, HeadEnt
  <2>2. \A h \in RecentGens(head) : head <= h => h = head
    BY <1>2 DEF RecentGens
  <2> QED
    BY <1>2, <2>1, <2>2 DEF FenceInv, Guarded
<1>6. HeadEnt.plow <= e.plow /\ HeadEnt.len <= e.len /\ e.len = HeadEnt.len
      /\ e.refs \subseteq 0 .. (e.len - 1)
  BY <1>2, <1>4 DEF SameEntry
<1> QED
  BY <1>1, <1>2, <1>3, <1>5, <1>6, PushFence

\* Puts, deletes, reaps and rescues append within the fence or give up the
\* generations behind it (Vault::put_no_commit, Vault::rescue).
LEMMA RewriteFence ==
    ASSUME IInv, SpaceInv, FenceInv,
           \/ \E n \in 1 .. MaxBlocks, old \in SUBSET Index, d \in 0 .. MaxDirty :
                  Put(n, old, d)
           \/ \E n \in 1 .. MaxBlocks : PutRefused(n)
           \/ \E old \in SUBSET Index, d \in 0 .. MaxDirty : Delete(old, d)
           \/ ReapOneWindow \/ ReapRefused \/ Rescue \/ RescueRefused
    PROVE  FenceInv'
<1>1. len \in Nat /\ (phase = "idle" => len = HeadEnt.len)
  BY DEF IInv, TypeOK, SpaceInv, JustGrown
<1>2. /\ phase = "idle" /\ UNCHANGED disk
      /\ \E n \in Nat : \/ AppendWith(n, fence) /\ fence' = fence
                        \/ AppendWith(n, None) /\ fence' = None
  <2>1. ASSUME NEW n \in 1 .. MaxBlocks, NEW old, NEW d, Put(n, old, d)
        PROVE  /\ phase = "idle" /\ UNCHANGED disk /\ fence' = fence
               /\ n \in Nat /\ AppendWith(n, fence)
    BY <2>1, SizeAssumption DEF Put, NextItem, Rewrite
  <2>2. ASSUME NEW n \in 1 .. MaxBlocks, PutRefused(n)
        PROVE  /\ phase = "idle" /\ UNCHANGED disk /\ fence' = fence
               /\ n \in Nat /\ AppendWith(n, fence)
    BY <2>2, SizeAssumption DEF PutRefused, NextItem
  <2>3. ASSUME NEW old, NEW d, Delete(old, d)
        PROVE  /\ phase = "idle" /\ UNCHANGED disk /\ fence' = fence
               /\ 0 \in Nat /\ AppendWith(0, fence)
    BY <2>3 DEF Delete, NextItem, Rewrite
  <2>4. ASSUME ReapOneWindow
        PROVE  /\ phase = "idle" /\ UNCHANGED disk /\ fence' = fence
               /\ \E n \in Nat : AppendWith(n, fence)
    <3>1. PICK n \in 0 .. len : AppendWith(n, fence)
      BY <2>4 DEF ReapOneWindow, ReapStaged, Rewrite
    <3> QED
      BY <1>1, <2>4, <3>1 DEF ReapOneWindow, NextItem
  <2>5. ASSUME ReapRefused
        PROVE  /\ phase = "idle" /\ UNCHANGED disk /\ fence' = fence
               /\ \E n \in Nat : AppendWith(n, fence)
    <3>1. PICK n \in 0 .. len : AppendWith(n, fence)
      BY <2>5 DEF ReapRefused, ReapCut, Rewrite
    <3> QED
      BY <1>1, <2>5, <3>1 DEF ReapRefused, NextItem
  <2>6. ASSUME Rescue
        PROVE  /\ phase = "idle" /\ UNCHANGED disk /\ fence' = None
               /\ \E n \in Nat : AppendWith(n, None)
    <3>1. PICK n \in 0 .. len : AppendWith(n, None)
      BY <2>6 DEF Rescue, ReapStaged, Rewrite
    <3> QED
      BY <1>1, <2>6, <3>1 DEF Rescue, RescueCalled, NextItem
  <2>7. ASSUME RescueRefused
        PROVE  /\ phase = "idle" /\ UNCHANGED disk /\ fence' = None
               /\ \E n \in Nat : AppendWith(n, None)
    <3>1. PICK n \in 0 .. len : AppendWith(n, None)
      BY <2>7 DEF RescueRefused, ReapCut, Rewrite
    <3> QED
      BY <1>1, <2>7, <3>1 DEF RescueRefused, RescueCalled, NextItem
  <2> QED
    BY <2>1, <2>2, <2>3, <2>4, <2>5, <2>6, <2>7, Zenon
<1>3. PICK n \in Nat : \/ AppendWith(n, fence) /\ fence' = fence
                       \/ AppendWith(n, None) /\ fence' = None
  BY <1>2
<1>4. phase # "down" /\ len = HeadEnt.len /\ UNCHANGED disk
  BY <1>1, <1>2
<1> QED
  BY <1>3, <1>4, AppendFence

\* The rest of a commit, the barriers, a power cut and the open.
LEMMA OtherFence ==
    ASSUME IInv, SpaceInv, FenceInv,
           \/ Commit \/ FlushNode \/ CommitRefused \/ RollbackToHead
           \/ \E new \in (len + 1) .. MaxLen : Grow(new)
           \/ Crash \/ Open
    PROVE  FenceInv'
<1>1. CASE Commit \/ CommitRefused \/ RollbackToHead
  <2>1. /\ gens' = gens /\ head' = head /\ fence' = fence /\ staged' = staged
        /\ unfenced' = unfenced /\ phase # "down"
    BY <1>1 DEF Commit, CommitRefused, RollbackToHead, disk, cursors, ghosts
  <2> QED
    BY <2>1 DEF FenceInv, GensGeometry, FenceIsRead, Guarded, StagedFenced,
                FencedGensIntact, HeadEnt
<1>2. CASE FlushNode
  <2>1. /\ phase = "flush" /\ dirty > 0 /\ AppendWith(1, fence) /\ 1 \in Nat
        /\ UNCHANGED disk /\ fence' = fence
    BY <1>2 DEF FlushNode
  <2>2. len = HeadEnt.len
    BY <2>1 DEF SpaceInv, JustGrown, IInv, TypeOK
  <2>3. phase # "down"
    BY <2>1
  <2> QED
    BY <2>1, <2>2, <2>3, AppendFence
<1>3. ASSUME NEW new \in (len + 1) .. MaxLen, Grow(new)
      PROVE  FenceInv'
  <2>1. /\ gens' = Written(gens, staged) /\ head' = head /\ unfenced' = unfenced
        /\ staged' = {} /\ fence' = fence /\ phase # "down"
    BY <1>3 DEF Grow, ghosts
  <2> QED
    BY <2>1, DrainFence
<1>4. CASE Crash
  <2>1. PICK landed \in SUBSET staged : gens' = Written(gens, landed)
    BY <1>4 DEF Crash
  <2>2. /\ head' = head /\ unfenced' = unfenced
        /\ staged' = {} /\ fence' = fence /\ phase # "down"
    BY <1>4 DEF Crash, ghosts, cursors
  <2> QED
    BY <2>1, <2>2, DrainFence
<1>5. CASE Open
  <2>1. /\ gens' = gens /\ head' = head /\ fence' = FenceFrom(gens, head)
        /\ staged' = staged /\ unfenced' = unfenced
    BY <1>5 DEF Open, disk, ghosts
  <2> QED
    BY <2>1 DEF FenceInv, GensGeometry, FenceIsRead, Guarded, StagedFenced,
                FencedGensIntact, HeadEnt
<1> QED
  BY <1>1, <1>2, <1>3, <1>4, <1>5

\* A fresh vault has one generation, of no blocks (Vault::genesis).
THEOREM InitFenceInv == Init => FenceInv
<1> SUFFICES ASSUME Init PROVE FenceInv
  OBVIOUS
<1>1. RecentGens(head) = {0} /\ gens[0] = Genesis /\ head = 0
  BY KAssumption DEF Init, RecentGens
<1>2. GensGeometry /\ Guarded
  BY <1>1 DEF GensGeometry, Guarded, Genesis
<1>3. FenceIsRead /\ StagedFenced /\ FencedGensIntact
  BY <1>1 DEF Init, FenceIsRead, StagedFenced, FencedGensIntact, Genesis
<1> QED
  BY <1>2, <1>3 DEF FenceInv

\* Every step keeps the fence's promise.
THEOREM NextFenceInv ==
    ASSUME IInv, SpaceInv, FenceInv, [Next]_vars
    PROVE  FenceInv'
<1>1. CASE UNCHANGED vars
  BY <1>1 DEF vars, disk, cursors, ghosts, FenceInv, GensGeometry, FenceIsRead,
              Guarded, StagedFenced, FencedGensIntact, HeadEnt
<1>2. CASE Next
  BY <1>2, RewriteFence, OtherFence, LandFence, HeartbeatFence DEF Next
<1> QED
  BY <1>1, <1>2

\* As long as every window is reaped between batches, every generation of the
\* last K written since the last unfenced append can be rolled back to
\* (Vault::commit, fence_from).
THEOREM FencedBetweenBatches ==
    Spec /\ [][ReapBetweenBatches]_vars => []FencedGensIntact
<1>1. FenceInv => FencedGensIntact
  BY DEF FenceInv
<1>2. Init => FenceInv
  BY InitFenceInv
<1>3. (IInv /\ SpaceInv /\ CleanInvariant) /\ FenceInv /\ [Next]_vars => FenceInv'
  BY NextFenceInv
<1> QED
  BY <1>1, <1>2, <1>3, CleanBetweenBatches, PTL DEF Spec

\* With the calls committed one by one the fence always holds: any of the last
\* K generations written since the last unfenced append is whole, whatever the
\* depth K, the tract, the sizes and the crashes (Vault::commit, fence_from).
THEOREM FencedAlways ==
    ASSUME MaxBatch = 1
    PROVE  Spec => []FencedGensIntact
BY FencedBetweenBatches, SinglesReapBetween, PTL
=============================================================================
