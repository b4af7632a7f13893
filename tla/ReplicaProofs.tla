--------------------------- MODULE ReplicaProofs ---------------------------
(***************************************************************************)
(* Proofs about Replica for every tract, every number of commits, every    *)
(* growth and every size of the cache.                                     *)
(***************************************************************************)
EXTENDS Replica, FiniteSetTheorems, Numbers

Committing == {"staged", "data", "commit", "second"}
Copying == {"copySpine", "copyTract"}

(***************************************************************************)
(* The inductive invariant, by what it is for.                             *)
(***************************************************************************)
\* Who is in the session, and when writes are in flight.
Phases ==
    /\ pc = "down" <=> attached = {}
    /\ pc = "down" => DOMAIN cache = {}
    /\ pc \in Copying => attached = Devices /\ DOMAIN cache = {}
    /\ pc = "second" => attached = Devices
    /\ pc \notin {"copyTract", "staged", "data"} => todo = {}

\* The devices of a session are at one head, but for the second spine write.
OneHead ==
    /\ pc \in {"up", "staged", "data", "commit", "copyTract"} /\ attached = Devices
         => Head("a") = Head("b")
    /\ pc = "second" => Head("a") = entry

\* A valid entry lies in the slot of its generation, and fits its device.
Placed ==
    \A d \in Devices, s \in Slots :
        /\ spine[d][s] # Blank => Slot(spine[d][s]) = s
        /\ spine[d][s].len <= size[d]

\* An entry on its way to the spines is the next generation of each.
EntryNext ==
    /\ pc \in Committing => entry.gen >= 1
    /\ pc \in {"staged", "data", "commit"} =>
           \A d \in attached : entry.gen = Head(d).gen + 1
    /\ pc = "second" => entry.gen = Head("b").gen + 1

\* An entry on its way to the spines fits the devices it goes to, and a winner
\* fits the loser.
EntryFits ==
    /\ pc \in Committing => \A d \in attached : entry.len <= size[d]
    /\ pc = "copySpine" => size[winner] <= size[Other(winner)]

\* What is cached is not being written.
CacheApart == \A p \in Pos : <<Primary, p>> \in todo => p \notin DOMAIN cache

\* The newest acknowledged generation is at the primary, at the winner, or, with
\* no session, at one of the two.
AckHeld ==
    /\ pc = "down" => \E d \in Devices : Head(d).gen >= acked
    /\ pc = "copySpine" => Head(winner).gen >= acked
    /\ pc \notin {"down", "copySpine"} => Head(Primary).gen >= acked
    /\ pc \in Committing => entry.gen >= acked

\* A device without gaps holds its own head, in a session or out of it.
HoldsOwnHead == \A d \in Devices \ gapped : Holds(d, Head(d))

\* The loser of a replication has gaps where blocks are still to be copied.
CopiesGaps ==
    pc = "copyTract" =>
        /\ Other(winner) \in gapped
        /\ todo \subseteq {Other(winner)} \X Pos
        /\ \A p \in Live(Head(winner)) :
               <<Other(winner), p>> \in todo \/ tract[Other(winner)][p] = tract[winner][p]

\* A commit writes only where its devices' heads reference nothing, and what is
\* not written yet of the entry is in the queue.
WritesApart ==
    /\ pc \in {"staged", "data"} =>
           \A d \in attached, p \in Pos :
               <<d, p>> \in todo => p \notin Live(Head(d)) /\ entry.refs[p] = entry.tag
    /\ pc \in Committing =>
           \A d \in attached \ gapped, p \in Live(entry) :
               <<d, p>> \in todo \/ tract[d][p] = entry.refs[p]

IInv ==
    /\ TypeOK /\ Phases /\ OneHead
    /\ Placed /\ EntryNext /\ EntryFits
    /\ CacheIsMedia /\ CacheApart
    /\ AckHeld
    /\ HoldsOwnHead /\ CopiesGaps /\ WritesApart

(***************************************************************************)
(* Devices.                                                                *)
(***************************************************************************)
\* There are two devices, each the other of the other.
LEMMA DeviceFacts ==
    /\ "a" \in Devices /\ "b" \in Devices /\ "a" # "b"
    /\ \A d \in Devices :
          Other(d) \in Devices /\ Other(d) # d /\ Devices = {d, Other(d)}
BY DEF Devices, Other

\* Mirror::read and the spine writes go to the first device present.
LEMMA PrimaryFacts ==
    ASSUME attached \subseteq Devices
    PROVE  /\ Primary \in Devices
           /\ attached # {} => Primary \in attached
           /\ attached = Devices => Primary = "a"
           /\ \A d \in attached : d # Primary => attached = Devices
BY DEF Primary, Devices

\* In a session before its spine writes, every device is at the primary's head.
LEMMA SessionHead ==
    ASSUME TypeOK, OneHead, pc \in {"up", "staged", "data", "commit"}
    PROVE  \A d \in attached : Head(d) = Head(Primary)
BY PrimaryFacts DEF TypeOK, OneHead, Devices, Primary

(***************************************************************************)
(* The ring.                                                               *)
(***************************************************************************)
Rings == [Slots -> Entry \cup {Blank}]

\* What a slot holds, blank or not.
LEMMA SlotFacts ==
    /\ Blank \notin Entry /\ Blank.gen = -1
    /\ \A e \in Entry \cup {Blank} :
          /\ e.gen \in Int /\ e.gen >= -1 /\ e.len \in Nat /\ e.tag \in Nat
          /\ e.refs \in [Pos -> Nat]
          /\ e.gen >= 0 <=> e \in Entry
<1>1. Blank = [gen |-> -1, tag |-> 0, len |-> 0, refs |-> [p \in Pos |-> 0]]
  BY DEF Blank, Genesis
<1>2. Blank \notin Entry
  BY <1>1 DEF Entry
<1> QED
  BY <1>1, <1>2 DEF Entry

\* Every entry has its slot.
LEMMA SlotType ==
    ASSUME NEW e \in Entry \cup {Blank}
    PROVE  Slot(e) \in Slots
<1> DEFINE g == e.gen
<1>1. g \in Int /\ N \in Nat \ {0}
  BY SlotFacts, ReplicaAssumption
<1> HIDE DEF g
<1>2. g % N \in 0 .. (N - 1)
  BY <1>1, ModFacts
<1> QED
  BY <1>2 DEF Slot, Slots, g

\* The newest entry of a ring is one of its slots (best_gen).
LEMMA NewestFacts ==
    ASSUME NEW r \in Rings
    PROVE  \E s \in Slots : /\ Newest(r) = r[s]
                            /\ \A t \in Slots : r[t].gen <= r[s].gen
<1> DEFINE f == [s \in Slots |-> r[s].gen]
<1>1. N - 1 \in Nat /\ Slots = 0 .. (N - 1)
  BY ReplicaAssumption DEF Slots
<1>2. \A s \in 0 .. (N - 1) : f[s] \in Int
  BY <1>1, SlotFacts DEF Rings
<1>3. \E s \in 0 .. (N - 1) : \A t \in 0 .. (N - 1) : f[t] <= f[s]
  <2> HIDE DEF f
  <2> QED BY <1>1, <1>2, GreatestOf
<1>4. \E s \in Slots : \A t \in Slots : r[t].gen <= r[s].gen
  BY <1>1, <1>3
<1> QED
  BY <1>4, Zenon DEF Newest

\* The only slot of the highest generation holds the newest entry.
LEMMA NewestIs ==
    ASSUME NEW r \in Rings, NEW s \in Slots,
           \A t \in Slots : t # s => r[t].gen < r[s].gen
    PROVE  Newest(r) = r[s]
<1>1. PICK h \in Slots : Newest(r) = r[h] /\ \A t \in Slots : r[t].gen <= r[h].gen
  BY NewestFacts
<1>2. r[h].gen \in Int /\ r[s].gen \in Int
  BY SlotFacts DEF Rings
<1> QED
  BY <1>1, <1>2

\* So an entry newer than the newest is it once it is written (Ring::append).
LEMMA NewestAppended ==
    ASSUME NEW r \in Rings, NEW e \in Entry, Newest(r).gen < e.gen
    PROVE  Newest([r EXCEPT ![Slot(e)] = e]) = e
<1> DEFINE q == [r EXCEPT ![Slot(e)] = e]
<1>1. Slot(e) \in Slots
  BY SlotType
<1>2. PICK h \in Slots : Newest(r) = r[h] /\ \A t \in Slots : r[t].gen <= r[h].gen
  BY NewestFacts
<1>3. q \in Rings /\ q[Slot(e)] = e /\ \A t \in Slots : t # Slot(e) => q[t] = r[t]
  BY <1>1 DEF Rings
<1>4. e.gen \in Int /\ \A t \in Slots : r[t].gen \in Int
  BY SlotFacts DEF Rings
<1> HIDE DEF q
<1>5. \A t \in Slots : t # Slot(e) => q[t].gen < q[Slot(e)].gen
  BY <1>2, <1>3, <1>4
<1>6. Newest(q) = q[Slot(e)]
  BY <1>1, <1>3, <1>5, NewestIs
<1> QED
  BY <1>3, <1>6 DEF q

\* And when its write is torn, the newest is what it was.
LEMMA NewestTorn ==
    ASSUME NEW r \in Rings, NEW e \in Entry, Newest(r) \in Entry,
           \A s \in Slots : r[s] # Blank => Slot(r[s]) = s,
           e.gen = Newest(r).gen + 1
    PROVE  Newest([r EXCEPT ![Slot(e)] = Blank]) = Newest(r)
<1> DEFINE q == [r EXCEPT ![Slot(e)] = Blank]
<1>1. Slot(e) \in Slots
  BY SlotType
<1>2. PICK h \in Slots : Newest(r) = r[h] /\ \A t \in Slots : r[t].gen <= r[h].gen
  BY NewestFacts
<1>3. q \in Rings /\ q[Slot(e)] = Blank /\ \A t \in Slots : t # Slot(e) => q[t] = r[t]
  BY <1>1 DEF Rings
<1>4. \A t \in Slots : /\ r[t].gen \in Int /\ r[t].gen >= -1
                       /\ r[t].gen >= 0 => r[t] # Blank
  BY SlotFacts DEF Rings
<1>5. r[h].gen >= 0 /\ r[h] # Blank
  BY <1>2, SlotFacts
<1>6. h # Slot(e)
  <2> DEFINE g == r[h].gen
  <2>1. g \in Int /\ e.gen = g + 1 /\ N \in Nat \ {0} /\ N >= 2
    BY <1>2, <1>4, ReplicaAssumption
  <2> HIDE DEF g
  <2>2. g % N # (g + 1) % N
    <3>1. g + 1 \in Int /\ g < g + 1 /\ g + 1 < g + N
      BY <2>1
    <3> QED BY <2>1, <3>1, ModUnique
  <2>3. Slot(r[h]) = h
    BY <1>5
  <2> QED
    BY <2>1, <2>2, <2>3 DEF Slot, g
<1>7. ASSUME NEW t \in Slots, t # h PROVE r[t].gen < r[h].gen
  <2>1. SUFFICES ASSUME r[t].gen = r[h].gen PROVE FALSE
    BY <1>2, <1>4
  <2>2. Slot(r[t]) = t /\ Slot(r[h]) = h
    BY <1>4, <1>5, <2>1
  <2> QED
    BY <1>7, <2>1, <2>2 DEF Slot
<1> HIDE DEF q
<1>8. \A t \in Slots : t # h => q[t].gen < q[h].gen
  <2>1. q[h] = r[h] /\ Blank.gen < r[h].gen
    BY <1>3, <1>4, <1>5, <1>6, SlotFacts
  <2> QED
    BY <1>3, <1>7, <2>1
<1>9. Newest(q) = q[h]
  BY <1>3, <1>8, NewestIs
<1> QED
  BY <1>2, <1>3, <1>6, <1>9 DEF q

\* A head is an entry, or blank; it fits its device.
LEMMA HeadFacts ==
    ASSUME TypeOK, Placed, NEW d \in Devices
    PROVE  /\ Head(d) \in Entry \cup {Blank}
           /\ Head(d).gen \in Int /\ Head(d).gen >= -1
           /\ Head(d).gen >= 0 <=> Head(d) \in Entry
           /\ Head(d).len \in Nat /\ Head(d).len <= size[d]
           /\ Head(d).refs \in [Pos -> Nat]
<1>1. spine[d] \in Rings
  BY DEF TypeOK, Rings
<1>2. PICK s \in Slots : Head(d) = spine[d][s]
  BY <1>1, NewestFacts DEF Head
<1>3. Head(d) \in Entry \cup {Blank} /\ Head(d).len <= size[d]
  BY <1>1, <1>2 DEF Rings, Placed
<1> QED
  BY <1>3, SlotFacts

\* The head of a session is an entry, no older than what was acknowledged.
LEMMA PrimaryHead ==
    ASSUME TypeOK, Placed, AckHeld, pc \notin {"down", "copySpine"}
    PROVE  /\ Head(Primary) \in Entry /\ Head(Primary).gen \in Nat
           /\ acked \in Nat /\ Head(Primary).gen >= acked
<1>1. Primary \in Devices /\ acked \in Nat /\ Head(Primary).gen >= acked
  BY PrimaryFacts DEF TypeOK, AckHeld
<1> QED
  BY <1>1, HeadFacts

(***************************************************************************)
(* Opens and replication.                                                  *)
(***************************************************************************)
\* Opening both devices picks the newer as the winner (verified_replicate).
LEMMA OpenBothKeeps ==
    ASSUME IInv, OpenBoth
    PROVE  IInv'
<1> USE DEF IInv
<1>1. pc = "down" /\ attached' = Devices /\ pc' \in {"up", "copySpine"}
      /\ winner' = Winner /\ Winner \in Devices
      /\ UNCHANGED <<spine, tract, todo, entry, cache, tags, acked, gapped>>
  BY DEF OpenBoth, Winner, Devices
<1>2. size' \in [Devices -> 0 .. MaxSize] /\ \A d \in Devices : size[d] <= size'[d]
  BY <1>1, DeviceFacts DEF OpenBoth, GrowLoser, DeviceGrown, TypeOK
<1>3. TypeOK'
  BY <1>1, <1>2 DEF TypeOK, Phases
<1>4. Phases' /\ todo = {} /\ DOMAIN cache = {} /\ Primary' = "a"
  BY <1>1, DeviceFacts DEF Phases, Copying, Primary
<1>5. Head("a").gen \in Int /\ Head("b").gen \in Int /\ acked \in Nat
      /\ \A d \in Devices, s \in Slots : spine[d][s].len \in Nat
  BY DeviceFacts, HeadFacts, SlotFacts DEF TypeOK
<1>6. pc' = "up" => Converged
  BY DEF OpenBoth
<1>7. OneHead'
  BY <1>1, <1>6 DEF OneHead, Converged, Head
<1>8. Placed' /\ EntryNext'
  <2>1. ASSUME NEW d \in Devices, NEW s \in Slots PROVE spine[d][s].len <= size'[d]
    BY <1>2, <1>5 DEF Placed, TypeOK
  <2> QED
    BY <1>1, <2>1 DEF Placed, EntryNext, Committing, Slot
<1>9. EntryFits'
  <2>1. ASSUME pc' = "copySpine" PROVE size'[Winner] <= size'[Other(Winner)]
    <3>1. size' = GrowLoser
      BY <2>1 DEF OpenBoth
    <3> QED
      BY <1>1, <3>1, DeviceFacts DEF GrowLoser, DeviceGrown, TypeOK
  <2> QED
    BY <1>1, <2>1 DEF EntryFits, Committing, Head
<1>10. CacheIsMedia' /\ CacheApart'
  BY <1>1, <1>4 DEF CacheIsMedia, CacheApart
<1>11. AckHeld'
  <2>1. Head(Winner).gen >= acked
    BY <1>1, <1>5 DEF AckHeld, Winner, Devices, Head
  <2>2. Converged => Head("a").gen >= acked
    BY <1>1, <1>5 DEF AckHeld, Converged, Devices, Head
  <2> QED
    BY <1>1, <1>4, <1>6, <2>1, <2>2 DEF AckHeld, Committing, Head
<1>12. HoldsOwnHead' /\ CopiesGaps' /\ WritesApart'
  BY <1>1 DEF HoldsOwnHead, CopiesGaps, WritesApart, Holds, Live, Committing, Head
<1> QED
  BY <1>3, <1>4, <1>7, <1>8, <1>9, <1>10, <1>11, <1>12

\* Opening one device alone: no write is in flight and nothing is cached.
LEMMA OpenSoloKeeps ==
    ASSUME IInv, NEW d \in Devices, OpenSolo(d)
    PROVE  IInv'
<1> USE DEF IInv
<1>1. pc = "down" /\ attached' = {d} /\ pc' = "up" /\ acked' = 0
      /\ UNCHANGED <<spine, tract, size, winner, todo, entry, cache, tags, gapped>>
  BY DEF OpenSolo, media
<1>2. todo = {} /\ DOMAIN cache = {} /\ {d} # Devices
  BY <1>1 DEF Phases, Devices
<1>3. TypeOK'
  BY <1>1, <1>2 DEF TypeOK
<1>4. Phases' /\ OneHead' /\ Placed' /\ EntryNext' /\ EntryFits'
  BY <1>1, <1>2 DEF Phases, OneHead, Placed, EntryNext, EntryFits, Copying, Committing,
                    Head
<1>5. CacheIsMedia' /\ CacheApart'
  BY <1>1, <1>2 DEF CacheIsMedia, CacheApart
<1>6. AckHeld'
  <2>1. Primary' = d
    BY <1>1 DEF Primary, Devices
  <2>2. Head(d).gen >= 0
    BY HeadFacts DEF OpenSolo
  <2> QED
    BY <1>1, <2>1, <2>2 DEF AckHeld, Committing, Head
<1>7. HoldsOwnHead' /\ CopiesGaps' /\ WritesApart'
  BY <1>1 DEF HoldsOwnHead, CopiesGaps, WritesApart, Holds, Live, Committing, Head
<1> QED
  BY <1>3, <1>4, <1>5, <1>6, <1>7

\* The slot to copy next is one of those that differ.
LEMMA SlotToCopyType ==
    ASSUME SlotsToCopy # {}
    PROVE  SlotToCopy \in Slots
<1>1. SlotsToCopy \in SUBSET Nat
  BY ReplicaAssumption DEF SlotsToCopy, Slots
<1>2. \E s \in SlotsToCopy : \A t \in SlotsToCopy : s <= t
  BY <1>1, MinOfNaturals
<1>3. SlotToCopy \in SlotsToCopy
  BY <1>2, Zenon DEF SlotToCopy
<1> QED
  BY <1>3 DEF SlotsToCopy

\* Replicating the spine, slot after slot: whatever the loser's head is on the
\* way, it fits the device (replicate_into).
LEMMA CopySpineKeeps ==
    ASSUME IInv, CopySpine
    PROVE  IInv'
<1> USE DEF IInv
<1> DEFINE dst == Other(winner)
<1>1. pc = "copySpine" /\ attached = Devices /\ winner \in Devices
      /\ dst \in Devices /\ dst # winner /\ Devices = {winner, dst} /\ todo = {}
  BY DeviceFacts DEF CopySpine, Phases, TypeOK, Copying
<1>2. UNCHANGED <<tract, size, attached, pc, winner, todo, entry, cache, tags, acked>>
      /\ gapped' = gapped \cup {dst}
  BY DEF CopySpine
<1>3. SlotToCopy \in Slots
  BY SlotToCopyType DEF CopySpine
<1>4. spine' = [spine EXCEPT ![dst][SlotToCopy] = spine[winner][SlotToCopy]]
  BY DEF CopySpine
<1> HIDE DEF dst
<1>5. /\ spine' \in [Devices -> [Slots -> Entry \cup {Blank}]]
      /\ spine'[winner] = spine[winner]
      /\ \A s \in Slots : spine'[dst][s] \in {spine[dst][s], spine[winner][s]}
  BY <1>1, <1>3, <1>4 DEF TypeOK
<1>6. Head(winner)' = Head(winner) /\ Primary' = Primary
  BY <1>2, <1>5 DEF Head, Primary
<1>7. TypeOK'
  BY <1>1, <1>2, <1>5 DEF TypeOK
<1>8. Phases' /\ OneHead' /\ EntryNext'
  BY <1>1, <1>2 DEF Phases, OneHead, EntryNext, Copying, Committing
<1>9. Placed'
  <2>1. \A s \in Slots : /\ spine[winner][s].len <= size[dst]
                         /\ spine[winner][s] # Blank => Slot(spine[winner][s]) = s
    <3>1. size[winner] <= size[dst] /\ size[winner] \in Nat /\ size[dst] \in Nat
          /\ \A s \in Slots : spine[winner][s].len \in Nat
      BY <1>1, SlotFacts DEF EntryFits, TypeOK, dst
    <3> QED
      BY <1>1, <3>1 DEF Placed
  <2>2. \A d \in Devices : d = winner \/ d = dst
    BY <1>1
  <2> QED
    BY <1>1, <1>2, <1>5, <2>1, <2>2 DEF Placed, Slot
<1>10. EntryFits' /\ CacheIsMedia' /\ CacheApart'
  BY <1>1, <1>2, <1>6 DEF EntryFits, CacheIsMedia, CacheApart, Committing
<1>11. AckHeld'
  BY <1>1, <1>2, <1>6 DEF AckHeld, Committing
<1>12. HoldsOwnHead'
  <2>1. \A d \in Devices \ gapped' : d = winner /\ d \notin gapped
    BY <1>1, <1>2
  <2> QED
    BY <1>2, <1>6, <2>1 DEF HoldsOwnHead, Holds, Live
<1>13. CopiesGaps' /\ WritesApart'
  BY <1>1, <1>2 DEF CopiesGaps, WritesApart, Committing
<1> QED
  BY <1>7, <1>8, <1>9, <1>10, <1>11, <1>12, <1>13

\* Once the spines are one, the blocks that differ are queued, and the loser has
\* its gaps, and the winner's, until they are copied (replicate_into).
LEMMA CompareTractKeeps ==
    ASSUME IInv, CompareTract
    PROVE  IInv'
<1> USE DEF IInv
<1> DEFINE dst == Other(winner)
<1>1. pc = "copySpine" /\ attached = Devices /\ winner \in Devices
      /\ dst \in Devices /\ dst # winner /\ Devices = {winner, dst}
      /\ DOMAIN cache = {} /\ Primary = "a"
  BY DeviceFacts, PrimaryFacts DEF CompareTract, Phases, TypeOK, Copying
<1>2. UNCHANGED <<spine, tract, size, attached, winner, entry, cache, tags, acked>>
      /\ pc' \in {"up", "copyTract"} /\ (pc' = "up" <=> todo' = {})
  BY DEF CompareTract, media
<1>3. \A d \in Devices : Head(d)' = Head(winner) /\ Head(d) = Head(winner)
  <2>1. spine[winner] = spine[dst]
    BY <1>1 DEF CompareTract, SlotsToCopy, TypeOK
  <2>2. \A d \in Devices : spine[d] = spine[winner]
    BY <1>1, <2>1
  <2> QED
    BY <1>2, <2>2 DEF Head
<1>4. /\ todo' \subseteq {dst} \X Pos
      /\ \A p \in Live(Head(winner)) :
            <<dst, p>> \in todo' \/ tract[dst][p] = tract[winner][p]
  BY <1>1 DEF CompareTract, Live
<1>5. gapped' \subseteq Devices /\ (dst \notin gapped' => winner \notin gapped' /\ todo' = {})
      /\ (winner \in gapped' <=> winner \in gapped)
  BY <1>1 DEF CompareTract, TypeOK
<1> HIDE DEF dst
<1>6. TypeOK'
  <2>1. todo' \subseteq attached' \X Pos
    BY <1>1, <1>2, <1>4
  <2> QED
    BY <1>1, <1>2, <1>3, <1>5, <2>1 DEF TypeOK
<1>7. Phases' /\ Primary' = "a"
  BY <1>1, <1>2, DeviceFacts DEF Phases, Copying, Primary
<1>8. OneHead' /\ Head("a")' = Head(winner) /\ Head("b")' = Head(winner)
  BY <1>1, <1>2, <1>3, DeviceFacts DEF OneHead
<1>9. Placed' /\ EntryNext' /\ EntryFits'
  BY <1>1, <1>2 DEF Placed, EntryNext, EntryFits, Committing, Slot
<1>10. CacheIsMedia' /\ CacheApart'
  BY <1>1, <1>2 DEF CacheIsMedia, CacheApart
<1>11. AckHeld'
  BY <1>1, <1>2, <1>7, <1>8 DEF AckHeld, Committing, Head
<1>12. HoldsOwnHead'
  <2>1. winner \notin gapped => Holds(winner, Head(winner))
    BY <1>1 DEF HoldsOwnHead, Head
  <2>2. dst \notin gapped' =>
           \A p \in Live(Head(winner)) : tract[dst][p] = Head(winner).refs[p]
    BY <1>4, <1>5, <2>1 DEF Holds
  <2>3. \A d \in Devices \ gapped', p \in Live(Head(winner)) :
           tract[d][p] = Head(winner).refs[p]
    BY <1>1, <1>5, <2>1, <2>2 DEF Holds
  <2> QED
    BY <1>2, <1>3, <2>3 DEF HoldsOwnHead, Holds, Live
<1>13. CopiesGaps'
  BY <1>2, <1>3, <1>4, <1>5 DEF CopiesGaps, Live, dst, Head
<1>14. WritesApart'
  BY <1>2 DEF WritesApart, Committing, Head
<1> QED
  BY <1>6, <1>7, <1>8, <1>9, <1>10, <1>11, <1>12, <1>13, <1>14

\* Replicating the tract closes the gaps, block after block (replicate_into).
LEMMA CopyTractKeeps ==
    ASSUME IInv, CopyTract
    PROVE  IInv'
<1> USE DEF IInv
<1> DEFINE dst == Other(winner)
<1>1. pc = "copyTract" /\ attached = Devices /\ winner \in Devices
      /\ dst \in Devices /\ dst # winner /\ Devices = {winner, dst}
      /\ DOMAIN cache = {} /\ Primary = "a"
  BY DeviceFacts, PrimaryFacts DEF CopyTract, Phases, TypeOK, Copying
<1>2. UNCHANGED <<spine, size, attached, winner, entry, cache, tags, acked>>
      /\ pc' \in {"up", "copyTract"} /\ (pc' = "up" <=> todo' = {})
  BY DEF CopyTract
<1>3. dst \in gapped /\ todo \subseteq {dst} \X Pos
      /\ \A p \in Live(Head(winner)) :
            <<dst, p>> \in todo \/ tract[dst][p] = tract[winner][p]
  BY <1>1 DEF CopiesGaps, Head
<1>4. PICK w \in todo : /\ tract' = [tract EXCEPT ![w[1]][w[2]] = tract[winner][w[2]]]
                        /\ todo' = todo \ {w}
  BY DEF CopyTract
<1>5. PICK q \in Pos : w = <<dst, q>>
  BY <1>3
<1>6. /\ tract' \in [Devices -> [Pos -> Nat]]
      /\ tract'[winner] = tract[winner]
      /\ tract'[dst] = [tract[dst] EXCEPT ![q] = tract[winner][q]]
  BY <1>1, <1>4, <1>5 DEF TypeOK
<1>7. Head(dst) = Head(winner) /\ Head("a") = Head("b")
  BY <1>1, DeviceFacts DEF OneHead, Head
<1>8. gapped' = IF winner \notin gapped /\ todo' = {} THEN gapped \ {dst} ELSE gapped
  BY DEF CopyTract
<1> HIDE DEF dst
<1>9. TypeOK'
  <2>1. gapped' \subseteq Devices /\ todo' \subseteq attached' \X Pos
    BY <1>1, <1>2, <1>4, <1>8 DEF TypeOK
  <2> QED
    BY <1>2, <1>6, <2>1 DEF TypeOK
<1>10. Phases' /\ Primary' = "a"
  BY <1>1, <1>2, DeviceFacts DEF Phases, Copying, Primary
<1>11. OneHead' /\ Placed' /\ EntryNext' /\ EntryFits'
  BY <1>2, <1>7 DEF OneHead, Placed, EntryNext, EntryFits, Committing, Head
<1>12. CacheIsMedia' /\ CacheApart'
  BY <1>1, <1>2 DEF CacheIsMedia, CacheApart
<1>13. AckHeld'
  BY <1>1, <1>2, <1>10 DEF AckHeld, Committing, Head
<1>14. \A p \in Live(Head(winner)) :
           <<dst, p>> \in todo' \/ tract'[dst][p] = tract'[winner][p]
  <2>1. \A p \in Pos : p # q => tract'[dst][p] = tract[dst][p]
    BY <1>1, <1>6 DEF TypeOK
  <2>2. tract'[dst][q] = tract'[winner][q]
    BY <1>1, <1>6 DEF TypeOK
  <2>3. \A p \in Live(Head(winner)) : p \in Pos
    BY DEF Live
  <2> QED
    BY <1>3, <1>4, <1>5, <1>6, <2>1, <2>2, <2>3
<1>15. HoldsOwnHead'
  <2>1. winner \notin gapped => \A p \in Live(Head(winner)) :
                                   tract[winner][p] = Head(winner).refs[p]
    BY <1>1 DEF HoldsOwnHead, Holds, Head
  <2>2. winner \in gapped' <=> winner \in gapped
    BY <1>1, <1>8
  <2>3. winner \notin gapped' => Holds(winner, Head(winner))'
    BY <1>2, <1>6, <2>1, <2>2 DEF Holds, Live, Head
  <2>4. dst \notin gapped' => winner \notin gapped /\ todo' = {}
    BY <1>3, <1>8
  <2>5. ASSUME dst \notin gapped' PROVE Holds(dst, Head(dst))'
    <3>1. \A p \in Live(Head(winner)) : tract'[dst][p] = tract'[winner][p]
      BY <1>14, <2>4, <2>5
    <3>2. \A p \in Live(Head(winner)) : tract'[dst][p] = Head(winner).refs[p]
      BY <1>6, <2>1, <2>4, <2>5, <3>1
    <3>3. Head(dst)' = Head(winner) /\ dst' = dst
      BY <1>2, <1>7 DEF Head, dst
    <3> QED
      BY <3>2, <3>3 DEF Holds, Live
  <2>6. \A d \in Devices \ gapped' : d = winner \/ d = dst
    BY <1>1
  <2> QED
    BY <1>2, <2>3, <2>5, <2>6 DEF HoldsOwnHead, dst, Head
<1>16. CopiesGaps'
  <2>1. todo' \subseteq {dst} \X Pos
    BY <1>3, <1>4
  <2>2. pc' = "copyTract" => dst \in gapped'
    BY <1>2, <1>3, <1>8
  <2> QED
    BY <1>2, <1>14, <2>1, <2>2 DEF CopiesGaps, Live, dst, Head
<1>17. WritesApart'
  BY <1>2 DEF WritesApart, Committing, Head
<1> QED
  BY <1>9, <1>10, <1>11, <1>12, <1>13, <1>15, <1>16, <1>17

(***************************************************************************)
(* A commit.                                                               *)
(***************************************************************************)
\* The entry of a commit goes on from the primary's head, with blocks nothing
\* live occupies.
LEMMA NewEntryFacts ==
    ASSUME TypeOK, Head(Primary) \in Entry,
           NEW ps \in SUBSET (Pos \ Live(Head(Primary))),
           NEW kept \in SUBSET Live(Head(Primary))
    PROVE  /\ NewEntry(ps, kept) \in Entry
           /\ NewEntry(ps, kept).gen = Head(Primary).gen + 1
           /\ NewEntry(ps, kept).len = Head(Primary).len
           /\ \A p \in ps : NewEntry(ps, kept).refs[p] = NewEntry(ps, kept).tag
           /\ \A p \in Live(NewEntry(ps, kept)) \ ps :
                 /\ p \in Live(Head(Primary))
                 /\ NewEntry(ps, kept).refs[p] = Head(Primary).refs[p]
<1> DEFINE e == NewEntry(ps, kept)
<1>1. Primary \in Devices /\ Head(Primary) \in Entry /\ tags \in Nat
  BY PrimaryFacts DEF TypeOK
<1>2. \A p \in Pos : Head(Primary).refs[p] \in Nat
  BY <1>1 DEF Entry
<1>3. \A p \in Pos : e.refs[p] = (IF p \in ps THEN tags + 1
                                  ELSE IF p \in kept THEN Head(Primary).refs[p] ELSE 0)
  BY DEF NewEntry, Live
<1>4. e.gen = Head(Primary).gen + 1 /\ e.len = Head(Primary).len /\ e.tag = tags + 1
  BY DEF NewEntry
<1>5. e \in Entry
  BY <1>1, <1>2 DEF Entry, NewEntry, Live
<1>6. \A p \in Live(e) : p \in Pos /\ e.refs[p] # 0
  BY DEF Live
<1> HIDE DEF e
<1>7. \A p \in ps : p \in Pos
  BY DEF Live
<1>8. \A p \in Live(e) \ ps : p \in kept
  BY <1>3, <1>6
<1> QED
  BY <1>3, <1>4, <1>5, <1>6, <1>7, <1>8 DEF e

\* A commit stages its blocks where nothing live lies, and the cache forgets the
\* positions (Mirror::stage).
LEMMA BeginKeeps ==
    ASSUME IInv, NEW ps \in SUBSET (Pos \ Live(Head(Primary))),
           NEW kept \in SUBSET Live(Head(Primary)), Begin(ps, kept)
    PROVE  IInv'
<1> USE DEF IInv
<1>1. pc = "up" /\ pc' = "staged" /\ entry' = NewEntry(ps, kept) /\ tags' = tags + 1
      /\ todo' = attached \X ps /\ cache' = Forget(ps)
      /\ UNCHANGED <<spine, tract, size, attached, winner, acked, gapped>>
  BY DEF Begin, media
<1>2. Primary' = Primary /\ Primary \in attached /\ attached \subseteq Devices
      /\ \A d \in attached : Head(d) = Head(Primary)
  BY <1>1, PrimaryFacts, SessionHead DEF Phases, TypeOK, Primary
<1>3. /\ entry' \in Entry
      /\ entry'.gen = Head(Primary).gen + 1
      /\ entry'.len = Head(Primary).len
      /\ \A p \in ps : entry'.refs[p] = entry'.tag
      /\ \A p \in Live(entry') \ ps :
            p \in Live(Head(Primary)) /\ entry'.refs[p] = Head(Primary).refs[p]
  <2> DEFINE e == NewEntry(ps, kept)
  <2>1. /\ e \in Entry
        /\ e.gen = Head(Primary).gen + 1
        /\ e.len = Head(Primary).len
        /\ \A p \in ps : e.refs[p] = e.tag
        /\ \A p \in Live(e) \ ps :
              p \in Live(Head(Primary)) /\ e.refs[p] = Head(Primary).refs[p]
    BY <1>1, PrimaryHead, NewEntryFacts
  <2>2. entry' = e
    BY <1>1
  <2> HIDE DEF e
  <2> QED
    BY <2>1, <2>2
<1>4. DOMAIN cache' = DOMAIN cache \ ps /\ \A p \in DOMAIN cache' : cache'[p] = cache[p]
  BY <1>1 DEF Forget, Restrict
<1>5. TypeOK'
  <2>1. IsFiniteSet(DOMAIN cache)
    BY FS_Subset, ReplicaAssumption DEF TypeOK
  <2>2. /\ DOMAIN cache' \subseteq Pos
        /\ Cardinality(DOMAIN cache') <= Cardinality(DOMAIN cache)
        /\ Cardinality(DOMAIN cache') \in Nat /\ Cardinality(DOMAIN cache) \in Nat
    BY <1>4, <2>1, FS_Subset, FS_CardinalityType DEF TypeOK
  <2>3. todo' \subseteq attached' \X Pos
    BY <1>1
  <2>4. Cardinality(DOMAIN cache') <= CacheBlocks
    BY <2>2, ReplicaAssumption DEF TypeOK
  <2> QED
    BY <1>1, <1>3, <2>2, <2>3, <2>4 DEF TypeOK
<1>6. Phases' /\ OneHead'
  BY <1>1, <1>2 DEF Phases, OneHead, Copying, Head
<1>7. Placed' /\ EntryNext' /\ EntryFits'
  <2>1. Placed'
    BY <1>1 DEF Placed, Slot
  <2>2. \A d \in attached : /\ Head(d)' = Head(d) /\ Head(d).len <= size[d]
                             /\ entry'.gen = Head(d).gen + 1
                             /\ entry'.len = Head(d).len
    BY <1>1, <1>2, <1>3, HeadFacts DEF Head
  <2>3. entry'.gen >= 1
    BY <1>1, <1>3, PrimaryHead
  <2> QED
    BY <1>1, <2>1, <2>2, <2>3 DEF EntryNext, EntryFits
<1>8. CacheIsMedia' /\ CacheApart'
  BY <1>1, <1>2, <1>4 DEF CacheIsMedia, CacheApart
<1>9. AckHeld'
  <2>1. Head(Primary).gen \in Nat /\ acked \in Nat
    BY <1>1, PrimaryHead
  <2> QED
    BY <1>1, <1>2, <1>3, <2>1 DEF AckHeld, Head
<1>10. HoldsOwnHead' /\ CopiesGaps'
  BY <1>1 DEF HoldsOwnHead, CopiesGaps, Holds, Live, Head
<1>11. WritesApart'
  <2>1. ASSUME NEW d \in attached, NEW p \in Pos, <<d, p>> \in todo'
        PROVE  p \notin Live(Head(d)) /\ entry'.refs[p] = entry'.tag
    BY <1>1, <1>2, <1>3, <2>1
  <2>2. ASSUME NEW d \in attached \ gapped, NEW p \in Live(entry')
        PROVE  <<d, p>> \in todo' \/ tract[d][p] = entry'.refs[p]
    <3>1. CASE p \in ps
      BY <1>1, <3>1
    <3>2. CASE p \notin ps
      <4>1. p \in Live(Head(d)) /\ entry'.refs[p] = Head(d).refs[p]
        BY <1>2, <1>3, <3>2
      <4> QED
        BY <1>2, <4>1 DEF HoldsOwnHead, Holds, Head
    <3> QED
      BY <3>1, <3>2
  <2>3. \A d \in attached : Live(Head(d))' = Live(Head(d))
    BY <1>1 DEF Live, Head
  <2> QED
    BY <1>1, <2>1, <2>2, <2>3 DEF WritesApart, Live, Head
<1> QED
  BY <1>5, <1>6, <1>7, <1>8, <1>9, <1>10, <1>11

\* Handing the staged blocks to the devices changes nothing of them (Mirror::drain).
LEMMA DrainKeeps ==
    ASSUME IInv, Drain
    PROVE  IInv'
<1>1. pc = "staged" /\ pc' = "data"
      /\ UNCHANGED <<spine, tract, size, attached, winner, todo, entry, cache, tags,
                     acked, gapped>>
  BY DEF Drain, media
<1> QED
  BY <1>1 DEF IInv, TypeOK, Phases, OneHead, Placed, EntryNext, EntryFits, CacheIsMedia,
              CacheApart, AckHeld, HoldsOwnHead, CopiesGaps, WritesApart, Holds, Live,
              Primary, Copying, Committing, Head

\* A cache that gives up a block when it is full stays within its bound.
LEMMA CacheBound ==
    ASSUME NEW C, IsFiniteSet(C), Cardinality(C) <= CacheBlocks,
           NEW S \in SUBSET C, NEW p,
           Cardinality(C \ S) = (IF Cardinality(C) >= CacheBlocks THEN 1 ELSE 0)
    PROVE  Cardinality(S \cup {p}) <= CacheBlocks
<1>1. IsFiniteSet(S) /\ Cardinality(S) \in Nat /\ Cardinality(C) \in Nat
      /\ IsFiniteSet(C \ S) /\ Cardinality(C \ S) \in Nat /\ CacheBlocks \in Nat
      /\ Cardinality(S) <= Cardinality(C)
      /\ (Cardinality(C) = Cardinality(S) => C = S)
  BY FS_Subset, FS_CardinalityType, ReplicaAssumption
<1>2. Cardinality(S \cup {p}) <= Cardinality(S) + 1 /\ Cardinality(S \cup {p}) \in Nat
  <2>1. Cardinality(S \cup {p}) = IF p \in S THEN Cardinality(S) ELSE Cardinality(S) + 1
    BY <1>1, FS_AddElement
  <2> QED
    BY <1>1, <2>1
<1>3. CASE Cardinality(C) >= CacheBlocks
  <2>1. C \ S # {}
    BY <1>3, FS_EmptySet
  <2>2. Cardinality(S) < Cardinality(C)
    BY <1>1, <2>1
  <2> QED
    BY <1>1, <1>2, <2>2
<1>4. CASE ~(Cardinality(C) >= CacheBlocks)
  BY <1>1, <1>2, <1>4
<1> QED
  BY <1>3, <1>4

\* A read caches the block it read (Mirror::read_cached).
LEMMA ReadCachedKeeps ==
    ASSUME IInv, NEW p \in Pos, ReadCached(p)
    PROVE  IInv'
<1> USE DEF IInv
<1>1. pc \in {"up", "staged"} /\ <<Primary, p>> \notin todo
      /\ UNCHANGED <<spine, tract, size, attached, pc, winner, todo, entry, tags, acked,
                     gapped>>
  BY DEF ReadCached, media
<1>2. PICK kept \in SUBSET DOMAIN cache :
          /\ Cardinality(DOMAIN cache \ kept)
               = (IF Cardinality(DOMAIN cache) >= CacheBlocks THEN 1 ELSE 0)
          /\ cache' = [q \in kept \cup {p} |->
                         IF q = p THEN tract[Primary][p] ELSE cache[q]]
  BY DEF ReadCached
<1>3. DOMAIN cache' = kept \cup {p} /\ cache'[p] = tract[Primary][p]
      /\ \A q \in kept : q # p => cache'[q] = cache[q]
  BY <1>2
<1>4. Primary' = Primary
  BY <1>1 DEF Primary
<1>5. TypeOK'
  <2>1. IsFiniteSet(DOMAIN cache) /\ Cardinality(DOMAIN cache) <= CacheBlocks
        /\ DOMAIN cache \subseteq Pos
    BY FS_Subset, ReplicaAssumption DEF TypeOK
  <2>2. Cardinality(DOMAIN cache') <= CacheBlocks
    BY <1>2, <1>3, <2>1, CacheBound
  <2>3. DOMAIN cache' \subseteq Pos
    BY <1>3, <2>1
  <2> QED
    BY <1>1, <2>2, <2>3 DEF TypeOK
<1>6. Phases' /\ OneHead' /\ Placed' /\ EntryNext' /\ EntryFits' /\ AckHeld'
  BY <1>1, <1>4 DEF Phases, OneHead, Placed, EntryNext, EntryFits, AckHeld, Copying,
                    Committing, Head
<1>7. CacheIsMedia'
  BY <1>1, <1>3, <1>4 DEF CacheIsMedia
<1>8. CacheApart'
  BY <1>1, <1>3, <1>4 DEF CacheApart
<1>9. HoldsOwnHead' /\ CopiesGaps' /\ WritesApart'
  BY <1>1 DEF HoldsOwnHead, CopiesGaps, WritesApart, Holds, Live, Committing, Head
<1> QED
  BY <1>5, <1>6, <1>7, <1>8, <1>9

\* A block is written where no head references one and no cached block lies.
LEMMA DataWriteKeeps ==
    ASSUME IInv, DataWrite
    PROVE  IInv'
<1> USE DEF IInv
<1>1. pc = "data" /\ pc' \in {"commit", "data"} /\ (pc' = "commit" <=> todo' = {})
      /\ UNCHANGED <<spine, size, attached, winner, entry, cache, tags, acked, gapped>>
  BY DEF DataWrite
<1>2. PICK w \in todo : /\ tract' = [tract EXCEPT ![w[1]][w[2]] = entry.tag]
                        /\ todo' = todo \ {w}
  BY DEF DataWrite
<1>3. PICK e \in attached, q \in Pos : w = <<e, q>>
  BY DEF TypeOK
<1>4. e \in Devices /\ entry.tag \in Nat /\ q \notin Live(Head(e))
      /\ entry.refs[q] = entry.tag
  BY <1>1, <1>2, <1>3 DEF TypeOK, WritesApart, Entry, Head
<1>5. /\ tract' \in [Devices -> [Pos -> Nat]]
      /\ tract'[e][q] = entry.tag
      /\ \A d \in Devices, p \in Pos : d # e \/ p # q => tract'[d][p] = tract[d][p]
  BY <1>2, <1>3, <1>4 DEF TypeOK
<1>6. Primary' = Primary
  BY <1>1 DEF Primary
<1>7. TypeOK'
  <2>1. todo' \subseteq attached' \X Pos
    BY <1>1, <1>2 DEF TypeOK
  <2> QED
    BY <1>1, <1>5, <2>1 DEF TypeOK
<1>8. Phases' /\ OneHead' /\ Placed' /\ EntryNext' /\ EntryFits' /\ AckHeld'
  BY <1>1, <1>6 DEF Phases, OneHead, Placed, EntryNext, EntryFits, AckHeld, Copying,
                    Committing, Head
<1>9. CacheIsMedia' /\ CacheApart'
  <2>1. Primary \in Devices /\ DOMAIN cache \subseteq Pos
    BY PrimaryFacts DEF TypeOK
  <2>2. \A p \in DOMAIN cache : Primary # e \/ p # q
    BY <1>2, <1>3, <2>1 DEF CacheApart
  <2> QED
    BY <1>1, <1>2, <1>5, <1>6, <2>1, <2>2 DEF CacheIsMedia, CacheApart
<1>10. HoldsOwnHead'
  <2>1. ASSUME NEW d \in Devices \ gapped, NEW p \in Live(Head(d))
        PROVE  tract'[d][p] = Head(d).refs[p]
    <3>1. p \in Pos /\ tract[d][p] = Head(d).refs[p] /\ (d # e \/ p # q)
      BY <1>4 DEF HoldsOwnHead, Holds, Live, Head
    <3> QED
      BY <1>5, <3>1
  <2> QED
    BY <1>1, <2>1 DEF HoldsOwnHead, Holds, Live, Head
<1>11. CopiesGaps'
  BY <1>1 DEF CopiesGaps, Head
<1>12. WritesApart'
  <2>1. ASSUME NEW d \in attached, NEW p \in Pos, <<d, p>> \in todo'
        PROVE  p \notin Live(Head(d)) /\ entry.refs[p] = entry.tag
    BY <1>1, <1>2, <2>1 DEF WritesApart, Head
  <2>2. ASSUME NEW d \in attached \ gapped, NEW p \in Live(entry)
        PROVE  <<d, p>> \in todo' \/ tract'[d][p] = entry.refs[p]
    <3>1. d \in Devices /\ p \in Pos
      BY DEF TypeOK, Live
    <3>2. <<d, p>> \in todo \/ tract[d][p] = entry.refs[p]
      BY <1>1 DEF WritesApart, Committing, Head
    <3>3. CASE d = e /\ p = q
      BY <1>4, <1>5, <3>3
    <3>4. CASE d # e \/ p # q
      BY <1>2, <1>3, <1>5, <3>1, <3>2, <3>4
    <3> QED
      BY <3>3, <3>4
  <2> QED
    BY <1>1, <2>1, <2>2 DEF WritesApart, Live, Head
<1> QED
  BY <1>7, <1>8, <1>9, <1>10, <1>11, <1>12

\* The entry of a growth differs from the head's in generation, tag and length.
Grown(e, t) == [e EXCEPT !.gen = @ + 1, !.tag = t + 1, !.len = @ + 1]

\* So it is an entry, with the blocks of the head.
LEMMA GrownEntry ==
    ASSUME NEW e \in Entry, NEW t \in Nat
    PROVE  /\ Grown(e, t) \in Entry /\ Grown(e, t).gen = e.gen + 1
           /\ Grown(e, t).len = e.len + 1 /\ Grown(e, t).refs = e.refs
<1>1. Grown(e, t).refs = e.refs
  BY DEF Grown, Entry
<1>2. Grown(e, t).gen = e.gen + 1
  BY DEF Grown, Entry
<1>3. Grown(e, t).len = e.len + 1
  BY DEF Grown, Entry
<1>4. Grown(e, t) \in Entry
  <2> DEFINE e1 == [e EXCEPT !.gen = @ + 1]
             e2 == [e1 EXCEPT !.tag = t + 1]
             e3 == [e2 EXCEPT !.len = @ + 1]
  <2>1. e1 \in Entry
    BY DEF Entry
  <2>2. e2 \in Entry
    <3> HIDE DEF e1
    <3> QED BY <2>1 DEF Entry
  <2>3. e3 \in Entry
    <3> HIDE DEF e2
    <3> QED BY <2>2 DEF Entry
  <2>4. Grown(e, t) = e3
    BY DEF Grown
  <2> QED
    <3> HIDE DEF e3
    <3> QED BY <2>3, <2>4
<1> QED
  BY <1>1, <1>2, <1>3, <1>4

\* A growth sizes the devices before the spine commits to it (Vault::grow).
LEMMA GrowKeeps ==
    ASSUME IInv, NEW refused \in BOOLEAN, Grow(refused)
    PROVE  IInv'
<1> USE DEF IInv
<1>1. pc = "up" /\ pc' = "commit" /\ tags' = tags + 1
      /\ Head(Primary).len < MaxSize
      /\ attached' = (IF refused /\ attached = Devices THEN {"a"} ELSE attached)
      /\ UNCHANGED <<spine, tract, winner, todo, cache, acked, gapped>>
  BY DEF Grow
<1>2. Primary' = Primary /\ Primary \in attached /\ Primary \in Devices
      /\ attached' \subseteq attached /\ attached' # {} /\ attached \subseteq Devices
      /\ \A d \in attached : Head(d) = Head(Primary)
  BY <1>1, PrimaryFacts, SessionHead, DeviceFacts DEF Phases, TypeOK, Primary
<1>3. Head(Primary) \in Entry /\ tags \in Nat
  BY <1>1, PrimaryHead DEF TypeOK
<1>4. /\ entry' \in Entry /\ entry'.gen = Head(Primary).gen + 1
      /\ entry'.len = Head(Primary).len + 1 /\ entry'.refs = Head(Primary).refs
  <2>1. entry' = Grown(Head(Primary), tags)
    BY DEF Grow, Grown
  <2> QED
    BY <1>3, <2>1, GrownEntry
<1>5. size' = [d \in Devices |->
                 IF d \in attached' THEN DeviceGrown(d, entry'.len) ELSE size[d]]
  BY DEF Grow
<1>6. Head(Primary).gen \in Nat /\ Head(Primary).len \in Nat /\ acked \in Nat
      /\ MaxSize \in Nat
  BY <1>3, ReplicaAssumption DEF Entry, TypeOK
<1>7. /\ size' \in [Devices -> 0 .. MaxSize]
      /\ \A d \in Devices : size[d] <= size'[d]
      /\ \A d \in attached' : entry'.len <= size'[d]
  BY <1>1, <1>2, <1>4, <1>5, <1>6 DEF DeviceGrown, TypeOK
<1>8. todo = {} /\ attached # {}
  BY <1>1 DEF Phases
<1>9. TypeOK'
  BY <1>1, <1>2, <1>3, <1>4, <1>7, <1>8 DEF TypeOK
<1>10. Phases' /\ OneHead'
  BY <1>1, <1>2, <1>8 DEF Phases, OneHead, Copying, Head
<1>11. Placed' /\ EntryNext' /\ EntryFits'
  <2>1. ASSUME NEW d \in Devices, NEW s \in Slots PROVE spine[d][s].len <= size'[d]
    <3>1. spine[d][s].len \in Nat /\ size[d] \in Nat /\ size'[d] \in Nat
      BY <1>7, SlotFacts DEF TypeOK
    <3> QED
      BY <1>7, <3>1 DEF Placed
  <2>2. \A d \in attached' : Head(d)' = Head(d) /\ entry'.gen = Head(d).gen + 1
    BY <1>1, <1>2, <1>4 DEF Head
  <2>3. entry'.gen >= 1
    BY <1>4, <1>6
  <2> QED
    BY <1>1, <1>7, <2>1, <2>2, <2>3 DEF Placed, EntryNext, EntryFits, Slot
<1>12. CacheIsMedia' /\ CacheApart'
  BY <1>1, <1>2 DEF CacheIsMedia, CacheApart
<1>13. AckHeld'
  BY <1>1, <1>2, <1>4, <1>6 DEF AckHeld, Head
<1>14. HoldsOwnHead' /\ CopiesGaps'
  BY <1>1 DEF HoldsOwnHead, CopiesGaps, Holds, Live, Head
<1>15. WritesApart'
  <2>1. ASSUME NEW d \in attached' \ gapped, NEW p \in Live(entry')
        PROVE  tract[d][p] = entry'.refs[p]
    <3>1. d \in attached /\ p \in Live(Head(d)) /\ entry'.refs[p] = Head(d).refs[p]
      BY <1>2, <1>4 DEF Live
    <3> QED
      BY <1>2, <3>1 DEF HoldsOwnHead, Holds, Head
  <2> QED
    BY <1>1, <2>1 DEF WritesApart, Live, Head
<1> QED
  BY <1>9, <1>10, <1>11, <1>12, <1>13, <1>14, <1>15

\* An entry written to a device is its head, and nothing else changes
\* (Ring::append).
LEMMA AppendedFacts ==
    ASSUME TypeOK, Placed, NEW d \in Devices, entry \in Entry,
           Head(d).gen < entry.gen, entry.len <= size[d], size' = size,
           spine' = Appended(d, entry)
    PROVE  /\ spine' \in [Devices -> [Slots -> Entry \cup {Blank}]]
           /\ Head(d)' = entry
           /\ \A o \in Devices : o # d => Head(o)' = Head(o)
           /\ Placed'
<1>1. spine \in [Devices -> Rings] /\ Slot(entry) \in Slots
  BY SlotType DEF TypeOK, Rings
<1>2. /\ spine' \in [Devices -> Rings]
      /\ spine'[d] = [spine[d] EXCEPT ![Slot(entry)] = entry]
      /\ \A o \in Devices : o # d => spine'[o] = spine[o]
  BY <1>1 DEF Appended, Rings
<1>3. Head(d)' = entry
  BY <1>1, <1>2, NewestAppended DEF Head
<1>4. Placed'
  <2>1. ASSUME NEW o \in Devices, NEW s \in Slots
        PROVE  \/ spine'[o][s] = spine[o][s]
               \/ o = d /\ s = Slot(entry) /\ spine'[o][s] = entry
    BY <1>1, <1>2 DEF Rings
  <2> QED
    BY <2>1 DEF Placed, Slot
<1> QED
  BY <1>2, <1>3, <1>4 DEF Head, Rings

\* The spine write at the primary: in a pair nothing is acknowledged yet.
LEMMA SpineWriteKeeps ==
    ASSUME IInv, SpineWrite
    PROVE  IInv'
<1> USE DEF IInv
<1>1. pc = "commit" /\ spine' = Appended(Primary, entry)
      /\ pc' = (IF attached = Devices THEN "second" ELSE "up")
      /\ acked' = (IF attached = Devices THEN acked ELSE entry.gen)
      /\ UNCHANGED <<tract, size, attached, winner, todo, entry, cache, tags, gapped>>
  BY DEF SpineWrite
<1>2. Primary' = Primary /\ Primary \in attached /\ Primary \in Devices
      /\ (attached = Devices => Primary = "a")
      /\ \A d \in attached : Head(d) = Head(Primary)
  BY <1>1, PrimaryFacts, SessionHead DEF Phases, TypeOK, Primary
<1>3. /\ spine' \in [Devices -> [Slots -> Entry \cup {Blank}]] /\ Placed'
      /\ \A d \in Devices : Head(d)' = IF d = Primary THEN entry ELSE Head(d)
  <2>1. entry \in Entry /\ Head(Primary).gen < entry.gen /\ entry.len <= size[Primary]
    BY <1>1, <1>2, PrimaryHead DEF EntryNext, EntryFits, TypeOK, Committing
  <2> QED
    BY <1>1, <1>2, <2>1, AppendedFacts
<1>4. todo = {} /\ entry \in Entry /\ entry.gen \in Nat /\ acked \in Nat
  BY <1>1 DEF Phases, TypeOK, Entry
<1>5. TypeOK'
  BY <1>1, <1>3, <1>4 DEF TypeOK
<1>6. Phases' /\ OneHead'
  <2>1. attached = Devices => Head("a")' = entry
    BY <1>2, <1>3, DeviceFacts
  <2> QED
    BY <1>1, <1>2, <1>4, <2>1 DEF Phases, OneHead, Copying
<1>7. Placed' /\ EntryNext' /\ EntryFits'
  <2>1. attached = Devices => Head("b")' = Head("b") /\ entry.gen = Head("b").gen + 1
    BY <1>1, <1>2, <1>3, DeviceFacts DEF EntryNext
  <2> QED
    BY <1>1, <1>3, <2>1 DEF EntryNext, EntryFits, Committing
<1>8. CacheIsMedia' /\ CacheApart'
  BY <1>1, <1>2 DEF CacheIsMedia, CacheApart
<1>9. AckHeld'
  <2>1. Head(Primary)' = entry
    BY <1>2, <1>3
  <2> QED
    BY <1>1, <1>2, <1>4, <2>1 DEF AckHeld, Committing
<1>10. HoldsOwnHead'
  <2>1. Primary \notin gapped => \A p \in Live(entry) : tract[Primary][p] = entry.refs[p]
    BY <1>1, <1>2, <1>4 DEF WritesApart, Committing, Head
  <2>2. \A d \in Devices \ gapped : d # Primary => Holds(d, Head(d))
    BY DEF HoldsOwnHead, Head
  <2> QED
    BY <1>1, <1>3, <2>1, <2>2 DEF HoldsOwnHead, Holds, Live
<1>11. CopiesGaps'
  BY <1>1 DEF CopiesGaps, Head
<1>12. WritesApart'
  BY <1>1 DEF WritesApart, Committing, Live, Head
<1> QED
  BY <1>5, <1>6, <1>7, <1>8, <1>9, <1>10, <1>11, <1>12

\* The second spine write brings the devices to one head again.
LEMMA SpineWriteSecondKeeps ==
    ASSUME IInv, SpineWriteSecond
    PROVE  IInv'
<1> USE DEF IInv
<1>1. pc = "second" /\ spine' = Appended("b", entry) /\ pc' = "up"
      /\ acked' = entry.gen
      /\ UNCHANGED <<tract, size, attached, winner, todo, entry, cache, tags, gapped>>
  BY DEF SpineWriteSecond
<1>2. attached = Devices /\ Head("a") = entry /\ todo = {} /\ entry \in Entry
      /\ entry.gen \in Nat
  BY <1>1 DEF Phases, OneHead, TypeOK, Entry, Head
<1>3. Primary' = "a" /\ Primary = "a"
  BY <1>1, <1>2, DeviceFacts DEF Primary
<1>4. /\ spine' \in [Devices -> [Slots -> Entry \cup {Blank}]] /\ Placed'
      /\ \A d \in Devices : Head(d)' = entry
  <2>1. Head("b").gen < entry.gen /\ entry.len <= size["b"]
    BY <1>1, <1>2, HeadFacts, DeviceFacts DEF EntryNext, EntryFits, Committing
  <2>2. Head("b")' = entry /\ Head("a")' = entry /\ Placed'
        /\ spine' \in [Devices -> [Slots -> Entry \cup {Blank}]]
    BY <1>1, <1>2, <2>1, AppendedFacts, DeviceFacts
  <2> QED
    BY <2>2 DEF Devices
<1>5. TypeOK'
  BY <1>1, <1>2, <1>4 DEF TypeOK
<1>6. Phases' /\ OneHead'
  BY <1>1, <1>2, <1>4, DeviceFacts DEF Phases, OneHead, Copying, Head
<1>7. Placed' /\ EntryNext' /\ EntryFits'
  BY <1>1, <1>2, <1>4 DEF Placed, EntryNext, EntryFits, Committing, Head
<1>8. CacheIsMedia' /\ CacheApart'
  BY <1>1, <1>3 DEF CacheIsMedia, CacheApart
<1>9. AckHeld'
  <2>1. Head(Primary)' = entry
    BY <1>3, <1>4, DeviceFacts
  <2> QED
    BY <1>1, <1>2, <2>1 DEF AckHeld, Committing
<1>10. HoldsOwnHead'
  <2>1. \A d \in Devices \ gapped, p \in Live(entry) : tract[d][p] = entry.refs[p]
    BY <1>1, <1>2 DEF WritesApart, Committing, Head
  <2> QED
    BY <1>1, <1>4, <2>1 DEF HoldsOwnHead, Holds, Live, Head
<1>11. CopiesGaps' /\ WritesApart'
  BY <1>1 DEF CopiesGaps, WritesApart, Committing, Head
<1> QED
  BY <1>5, <1>6, <1>7, <1>8, <1>9, <1>10, <1>11

\* The secondary leaves the session with its queued writes, the primary goes on.
LEMMA DegradeKeeps ==
    ASSUME IInv, Degrade
    PROVE  IInv'
<1> USE DEF IInv
<1>1. attached = Devices /\ pc \in {"data", "second"} /\ attached' = {"a"}
      /\ todo' = {w \in todo : w[1] = "a"}
      /\ pc' \in {"up", "commit", "data"} /\ (pc' = "up" <=> pc = "second")
      /\ (pc = "data" => (pc' = "commit" <=> todo' = {}))
      /\ acked' = (IF pc = "second" THEN entry.gen ELSE acked)
      /\ UNCHANGED <<spine, tract, size, winner, entry, cache, tags, gapped>>
  BY DEF Degrade, media
<1>2. Primary' = "a" /\ Primary = "a" /\ {"a"} # Devices /\ {"a"} # {}
  BY <1>1, DeviceFacts DEF Primary, Devices
<1>3. entry.gen \in Nat /\ acked \in Nat
  BY DEF TypeOK, Entry
<1>4. \A p \in Pos : <<"a", p>> \in todo <=> <<"a", p>> \in todo'
  BY <1>1
<1>5. TypeOK'
  <2>1. todo' \subseteq attached' \X Pos
    BY <1>1 DEF TypeOK
  <2>2. attached' \subseteq Devices
    BY <1>1, DeviceFacts
  <2> QED
    BY <1>1, <1>3, <2>1, <2>2 DEF TypeOK
<1>6. Phases' /\ OneHead'
  BY <1>1, <1>2 DEF Phases, OneHead, Copying, Head
<1>7. Placed' /\ EntryNext' /\ EntryFits'
  BY <1>1, DeviceFacts DEF Placed, EntryNext, EntryFits, Committing, Head
<1>8. CacheIsMedia' /\ CacheApart'
  BY <1>1, <1>2, <1>4 DEF CacheIsMedia, CacheApart
<1>9. AckHeld'
  BY <1>1, <1>2, <1>3 DEF AckHeld, Committing, OneHead, Head
<1>10. HoldsOwnHead' /\ CopiesGaps'
  BY <1>1 DEF HoldsOwnHead, CopiesGaps, Holds, Live, Head
<1>11. WritesApart'
  <2>1. \A p \in Live(entry) : p \in Pos
    BY DEF Live
  <2> QED
    BY <1>1, <1>4, <2>1, DeviceFacts DEF WritesApart, Committing, Live, Head
<1> QED
  BY <1>5, <1>6, <1>7, <1>8, <1>9, <1>10, <1>11

\* Without power: what was acknowledged is at one of the devices, and those
\* without gaps have the head they had.
LEMMA OffKeeps ==
    ASSUME IInv, Off, Placed', gapped' \subseteq Devices,
           spine' \in [Devices -> [Slots -> Entry \cup {Blank}]],
           \A d \in Devices \ gapped' : d \notin gapped /\ Head(d)' = Head(d),
           \E d \in Devices : Head(d)'.gen >= acked
    PROVE  IInv'
<1> USE DEF IInv
<1>1. pc' = "down" /\ attached' = {} /\ todo' = {} /\ cache' = <<>>
      /\ UNCHANGED <<tract, size, winner, entry, tags, acked>>
  BY DEF Off
<1>2. DOMAIN cache' = {} /\ Cardinality(DOMAIN cache') = 0
  <2>1. DOMAIN cache' = {}
    BY <1>1
  <2> QED
    BY <2>1, FS_EmptySet
<1>3. TypeOK'
  BY <1>1, <1>2, ReplicaAssumption DEF TypeOK
<1>4. Phases' /\ OneHead' /\ EntryNext' /\ EntryFits'
  BY <1>1, <1>2 DEF Phases, OneHead, EntryNext, EntryFits, Copying, Committing
<1>5. CacheIsMedia' /\ CacheApart'
  BY <1>1, <1>2 DEF CacheIsMedia, CacheApart
<1>6. AckHeld'
  BY <1>1 DEF AckHeld, Committing
<1>7. HoldsOwnHead'
  <2>1. \A d \in Devices \ gapped' : Holds(d, Head(d))
    BY DEF HoldsOwnHead
  <2> QED
    BY <1>1, <2>1 DEF HoldsOwnHead, Holds, Live
<1>8. CopiesGaps' /\ WritesApart'
  BY <1>1 DEF CopiesGaps, WritesApart, Committing
<1> QED
  BY <1>3, <1>4, <1>5, <1>6, <1>7, <1>8

\* In a session some device is at what was acknowledged.
LEMMA AckSomewhere ==
    ASSUME TypeOK, AckHeld
    PROVE  \E d \in Devices : Head(d).gen >= acked
BY PrimaryFacts DEF TypeOK, AckHeld

\* A power cut leaves the media as they are.
LEMMA PowerCutKeeps ==
    ASSUME IInv, PowerCut
    PROVE  IInv'
<1>1. Off /\ UNCHANGED <<spine, size, acked, gapped>>
  BY DEF PowerCut, Off
<1>2. Placed' /\ \A d \in Devices : Head(d)' = Head(d)
  BY <1>1 DEF IInv, Placed, Slot, Head
<1>3. \E d \in Devices : Head(d)'.gen >= acked
  BY <1>2, AckSomewhere DEF IInv
<1> QED
  BY <1>1, <1>2, <1>3, OffKeeps DEF IInv, TypeOK

\* Tearing a slot leaves the other slots where and what they are.
LEMMA TornFacts ==
    ASSUME TypeOK, Placed, NEW d \in Devices, NEW s \in Slots, size' = size,
           spine' = [spine EXCEPT ![d][s] = Blank]
    PROVE  /\ spine' \in [Devices -> [Slots -> Entry \cup {Blank}]]
           /\ spine'[d] = [spine[d] EXCEPT ![s] = Blank]
           /\ \A o \in Devices : o # d => Head(o)' = Head(o)
           /\ Placed'
<1>1. /\ spine' \in [Devices -> [Slots -> Entry \cup {Blank}]]
      /\ spine'[d] = [spine[d] EXCEPT ![s] = Blank]
      /\ \A o \in Devices : o # d => spine'[o] = spine[o]
  BY DEF TypeOK
<1>2. Placed'
  <2>1. ASSUME NEW o \in Devices, NEW t \in Slots
        PROVE  spine'[o][t] = spine[o][t] \/ spine'[o][t] = Blank
    BY <1>1 DEF TypeOK
  <2>2. \A o \in Devices : Blank.len <= size[o]
    BY DEF Blank, Genesis, TypeOK
  <2> QED
    BY <2>1, <2>2 DEF Placed, Slot
<1> QED
  BY <1>1, <1>2 DEF Head

\* A torn commit leaves the head it would have followed: its slot is another
\* (Ring::append, classify).
LEMMA TornCommitKeeps ==
    ASSUME IInv, NEW d \in Devices, TornCommit(d)
    PROVE  IInv'
<1> USE DEF IInv
<1>1. Off /\ UNCHANGED <<size, acked, gapped>>
      /\ spine' = [spine EXCEPT ![d][Slot(entry)] = Blank]
      /\ ((pc = "commit" /\ d = Primary) \/ (pc = "second" /\ d = "b"))
  BY DEF TornCommit, Off
<1>2. entry \in Entry /\ entry.gen = Head(d).gen + 1 /\ entry.gen >= 1
  <2>1. pc = "commit" => Primary \in attached
    BY PrimaryFacts DEF Phases, TypeOK
  <2> QED
    BY <1>1, <2>1 DEF EntryNext, TypeOK, Committing
<1>3. Head(d) \in Entry /\ spine[d] \in Rings /\ Slot(entry) \in Slots
  BY <1>2, HeadFacts, SlotType DEF TypeOK, Rings
<1>4. /\ spine' \in [Devices -> [Slots -> Entry \cup {Blank}]] /\ Placed'
      /\ spine'[d] = [spine[d] EXCEPT ![Slot(entry)] = Blank]
      /\ \A o \in Devices : o # d => Head(o)' = Head(o)
  BY <1>1, <1>3, TornFacts
<1>5. Head(d)' = Head(d)
  <2>1. \A s \in Slots : spine[d][s] # Blank => Slot(spine[d][s]) = s
    BY DEF Placed
  <2>2. Newest([spine[d] EXCEPT ![Slot(entry)] = Blank]) = Newest(spine[d])
    BY <1>2, <1>3, <2>1, NewestTorn DEF Head
  <2> QED
    BY <1>4, <2>2 DEF Head
<1>6. \A o \in Devices : Head(o)' = Head(o)
  BY <1>4, <1>5
<1>7. \E o \in Devices : Head(o)'.gen >= acked
  BY <1>6, AckSomewhere
<1> QED
  BY <1>1, <1>4, <1>6, <1>7, OffKeeps DEF TypeOK

\* A torn slot of a replication is the loser's; the winner is as it was
\* (replicate_into).
LEMMA TornCopyKeeps ==
    ASSUME IInv, TornCopy
    PROVE  IInv'
<1> USE DEF IInv
<1> DEFINE dst == Other(winner)
           s == SlotToCopy
<1>1. Off /\ UNCHANGED <<size, acked, winner>> /\ pc = "copySpine"
      /\ spine' = [spine EXCEPT ![dst][s] = Blank] /\ gapped' = gapped \cup {dst}
  BY DEF TornCopy, Off
<1>2. winner \in Devices /\ dst \in Devices /\ dst # winner /\ Devices = {winner, dst}
      /\ s \in Slots
  BY DeviceFacts, SlotToCopyType DEF TypeOK, TornCopy
<1> HIDE DEF dst, s
<1>3. /\ spine' \in [Devices -> [Slots -> Entry \cup {Blank}]] /\ Placed'
      /\ \A o \in Devices : o # dst => Head(o)' = Head(o)
  BY <1>1, <1>2, TornFacts
<1>4. \A d \in Devices \ gapped' : d \notin gapped /\ Head(d)' = Head(d)
  BY <1>1, <1>3
<1>5. \E o \in Devices : Head(o)'.gen >= acked
  <2>1. PICK o \in Devices : o = winner
    BY <1>2
  <2>2. Head(o).gen >= acked /\ Head(o)' = Head(o)
    BY <1>1, <1>2, <1>3, <2>1 DEF AckHeld
  <2> QED
    BY <2>2
<1>6. gapped' \subseteq Devices
  BY <1>1, <1>2 DEF TypeOK
<1> QED
  BY <1>1, <1>3, <1>4, <1>5, <1>6, OffKeeps

(***************************************************************************)
(* The theorems.                                                           *)
(***************************************************************************)
\* Two fresh devices satisfy the invariant.
THEOREM InitIInv == Init => IInv
<1> SUFFICES ASSUME Init PROVE IInv
  OBVIOUS
<1>1. DOMAIN cache = {} /\ Cardinality(DOMAIN cache) = 0
  <2>1. DOMAIN cache = {}
    BY DEF Init
  <2> QED
    BY <2>1, FS_EmptySet
<1>2. Genesis \in Entry /\ Live(Genesis) = {} /\ Genesis.gen = 0 /\ Genesis.len = 0
  BY DEF Genesis, Entry, Live
<1>3. \A d \in Devices : /\ Head(d) = Genesis /\ size[d] = 0
                        /\ spine[d] \in Rings
                        /\ \A s \in Slots : spine[d][s] = IF s = 0 THEN Genesis ELSE Blank
  <2>1. \A d \in Devices, s \in Slots :
           spine[d][s] = IF s = 0 THEN Genesis ELSE Blank
    BY DEF Init
  <2>2. \A d \in Devices : spine[d] \in Rings /\ size[d] = 0
    BY <1>2 DEF Init, Rings
  <2>3. 0 \in Slots
    BY ReplicaAssumption DEF Slots
  <2>4. ASSUME NEW d \in Devices PROVE Head(d) = Genesis
    <3>1. \A t \in Slots : t # 0 => spine[d][t].gen < spine[d][0].gen
      BY <1>2, <2>1, <2>3, SlotFacts
    <3> QED
      BY <2>1, <2>2, <2>3, <3>1, NewestIs DEF Head
  <2> QED
    BY <2>1, <2>2, <2>4
<1>4. TypeOK
  <2>1. spine \in [Devices -> [Slots -> Entry \cup {Blank}]]
    BY <1>3 DEF Init, Rings
  <2> QED
    BY <1>1, <1>2, <2>1, ReplicaAssumption, DeviceFacts DEF Init, TypeOK
<1>5. Phases /\ OneHead /\ EntryFits /\ CacheIsMedia /\ CacheApart
  BY <1>1 DEF Init, Phases, OneHead, EntryFits, CacheIsMedia, CacheApart, Copying,
              Committing, Head
<1>6. Placed /\ EntryNext /\ AckHeld
  <2>1. Slot(Genesis) = 0 /\ Blank.len = 0
    BY <1>2, ModSmall, ReplicaAssumption DEF Slot, Blank, Genesis
  <2> QED
    BY <1>2, <1>3, <2>1, DeviceFacts DEF Init, Placed, EntryNext, AckHeld, Committing
<1>7. HoldsOwnHead /\ CopiesGaps /\ WritesApart
  BY <1>2, <1>3 DEF Init, HoldsOwnHead, CopiesGaps, WritesApart, Holds, Committing
<1> QED
  BY <1>4, <1>5, <1>6, <1>7 DEF IInv

\* Every step preserves the invariant.
THEOREM NextIInv == IInv /\ [Next]_vars => IInv'
<1> SUFFICES ASSUME IInv, [Next]_vars PROVE IInv'
  OBVIOUS
<1>1. CASE UNCHANGED vars
  BY <1>1 DEF vars, media, IInv, TypeOK, Phases, OneHead, Placed, EntryNext, EntryFits,
              CacheIsMedia, CacheApart, AckHeld, HoldsOwnHead, CopiesGaps, WritesApart,
              Holds, Live, Primary, Copying, Committing, Head, Slot
<1>2. CASE Next
  BY <1>2, OpenBothKeeps, OpenSoloKeeps, CopySpineKeeps, CopyTractKeeps, BeginKeeps,
     DrainKeeps, ReadCachedKeeps, DataWriteKeeps, GrowKeeps, SpineWriteKeeps,
     SpineWriteSecondKeeps, DegradeKeeps, PowerCutKeeps, TornCommitKeeps, TornCopyKeeps,
     CompareTractKeeps
     DEF Next
<1> QED
  BY <1>1, <1>2

\* The invariant holds in every reachable state.
THEOREM Invariance == Spec => []IInv
BY InitIInv, NextIInv, PTL DEF Spec

\* Writes in flight go only to devices of the session, and the cache never grows
\* past its bound (Mirror::pending, Mirror::read_cached).
THEOREM TypeCorrect == Spec => []TypeOK
<1>1. IInv => TypeOK
  BY DEF IInv
<1> QED
  BY <1>1, Invariance, PTL

\* A session of both devices runs on one history, whatever each did alone
\* before (verified_replicate).
THEOREM HeadsAlwaysAgree == Spec => []HeadsAgree
<1>1. IInv => HeadsAgree
  BY DEF IInv, OneHead, HeadsAgree, Head
<1> QED
  BY <1>1, Invariance, PTL

\* Every device of a session that no cut replication left with gaps holds every
\* block of its head (Mirror::read, replicate_into).
THEOREM SessionAlwaysHoldsHead == Spec => []SessionHoldsHead
<1>1. IInv => SessionHoldsHead
  BY DEF IInv, TypeOK, HoldsOwnHead, SessionHoldsHead, Head
<1> QED
  BY <1>1, Invariance, PTL

\* No head commits to a tract larger than its device, wherever a growth or a
\* replication was cut (Mirror::grow, Vault::grow, replicate_into).
THEOREM GeometryAlwaysFits == Spec => []GeometryFits
<1>1. IInv => GeometryFits
  BY HeadFacts DEF IInv, GeometryFits
<1> QED
  BY <1>1, Invariance, PTL

\* A block read from the cache is the block the device holds (Mirror::forget).
THEOREM CacheIsAlwaysMedia == Spec => []CacheIsMedia
<1>1. IInv => CacheIsMedia
  BY DEF IInv
<1> QED
  BY <1>1, Invariance, PTL

\* No open goes back behind a generation acknowledged since both devices were
\* one (verified_replicate's choice of the winner).
THEOREM AckNeverLost == Spec => []NoAckLost
<1>1. IInv => NoAckLost
  BY DEF IInv, AckHeld, NoAckLost, Head
<1> QED
  BY <1>1, Invariance, PTL
=============================================================================
