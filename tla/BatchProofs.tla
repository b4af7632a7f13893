---------------------------- MODULE BatchProofs ----------------------------
(***************************************************************************)
(* Proofs about Batch for every set of keys and values, every length of a  *)
(* batch and every number of attempts.                                     *)
(***************************************************************************)
EXTENDS Batch, Integers, TLAPS

(***************************************************************************)
(* Batches and maps.                                                       *)
(***************************************************************************)
\* A batch is a sequence of operations with one at least (apply_batch's ops).
LEMMA BatchFacts ==
    ASSUME NEW b \in Batches
    PROVE  /\ b \in Seq(Op) /\ b # <<>>
           /\ Len(b) \in Nat \ {0} /\ DOMAIN b = 1 .. Len(b)
           /\ \A j \in 1 .. Len(b) : b[j] \in Op
<1>1. PICK n \in 1 .. MaxItems : b \in [1 .. n -> Op]
  BY DEF Batches
<1>2. n \in Nat \ {0}
  BY <1>1, BatchAssumption
<1>3. b \in Seq(Op) /\ Len(b) = n
  BY <1>1, <1>2
<1> QED
  BY <1>1, <1>2, <1>3

\* A single deletion is a batch (Vault::delete).
LEMMA DeleteIsBatch ==
    ASSUME NEW k \in Keys
    PROVE  <<[key |-> k, value |-> Absent]>> \in Batches
<1>1. <<[key |-> k, value |-> Absent]>> \in [1 .. 1 -> Op]
  BY DEF Op
<1>2. 1 \in 1 .. MaxItems
  BY BatchAssumption
<1> QED
  BY <1>1, <1>2 DEF Batches

\* A step of the call is at an operation of its batch.
LEMMA ItemFacts ==
    ASSUME TypeOK, AtItem
    PROVE  /\ batch \in Batches /\ batch # <<>>
           /\ i \in 1 .. Len(batch) /\ Len(batch) \in Nat
           /\ DOMAIN batch = 1 .. Len(batch)
           /\ Key \in Keys /\ Value \in Values \cup {Absent}
<1>1. batch \in Batches /\ i > 0 /\ i \in 0 .. (Len(batch) + 1) /\ i <= Len(batch)
  BY DEF AtItem, TypeOK, Running
<1>2. batch # <<>> /\ Len(batch) \in Nat /\ DOMAIN batch = 1 .. Len(batch)
      /\ \A j \in 1 .. Len(batch) : batch[j] \in Op
  BY <1>1, BatchFacts
<1>3. i \in 1 .. Len(batch)
  BY <1>1, <1>2
<1> QED
  BY <1>1, <1>2, <1>3 DEF Key, Value, Op

(***************************************************************************)
(* Types.                                                                  *)
(***************************************************************************)
StoreOK ==
    head \in Maps /\ index \in Maps /\ held \subseteq Keys /\ dirty \in BOOLEAN

StoreStep ==
    \/ Lands \/ FromCommittedHead \/ RescueCut \/ MovesStaged
    \/ CommitErrs \/ UNCHANGED store

\* No commit, barrier or staged move takes the two maps out of their types.
LEMMA StoreTypes ==
    ASSUME StoreOK, StoreStep
    PROVE  StoreOK'
BY DEF StoreOK, StoreStep, Lands, FromCommittedHead, RescueCut, MovesStaged, CommitErrs,
       SpineWriteFails, Present, store

\* What is left of the type invariant besides the maps: the call under way.
CallOK ==
    /\ pc \in {"down", "idle", "item", "fenced", "full", "rollback", "rescue",
               "commit", "reap"}
    /\ batch \in Batches \cup {<<>>}
    /\ i \in 0 .. (Len(batch) + 1)
    /\ pass \in 0 .. 3
    /\ changed \in BOOLEAN
    /\ tries \in 0 .. Tries /\ grew \in BOOLEAN
    /\ reply \in {"none", "ok", "err"}
    /\ asOf \in [head : Maps, index : Maps, erased : SUBSET Keys]
    /\ ~Running => batch = <<>> /\ i = 0 /\ pass = 0
    /\ Running => batch # <<>> /\ i > 0

Rungs == {"item", "fenced", "full", "rollback", "rescue"}

\* The three ways a step of the call goes on: at another rung of the ladder, at
\* the first operation of a replay, or with a reply to the caller.
LEMMA CallTypes ==
    ASSUME CallOK, Running,
           \/ \E p \in Rungs \cup {"commit", "reap"} :
                 To(p) /\ tries' \in 0 .. Tries /\ grew' \in BOOLEAN
           \/ \E p \in 1 .. 3 : Replay(p)
           \/ \E r \in {"ok", "err"} : Ends(r)
    PROVE  CallOK'
<1>1. NoCall \in [head : Maps, index : Maps, erased : SUBSET Keys]
  BY DEF NoCall, Nothing, Maps
<1>2. Tries \in Nat /\ 0 \in 0 .. Tries
  BY BatchAssumption
<1>3. batch \in Batches /\ Len(batch) \in Nat
  BY BatchFacts DEF CallOK
<1>4. ASSUME NEW p \in Rungs \cup {"commit", "reap"},
             To(p), tries' \in 0 .. Tries, grew' \in BOOLEAN
      PROVE  CallOK'
  BY <1>4 DEF CallOK, To, progress, Running, Rungs
<1>5. ASSUME NEW p \in 1 .. 3, Replay(p) PROVE CallOK'
  <2>1. changed' \in BOOLEAN /\ grew' \in BOOLEAN
    BY <1>5, Zenon DEF Replay
  <2>2. pc' = "item" /\ i' = 1 /\ pass' \in 0 .. 3 /\ tries' \in 0 .. Tries
        /\ batch' = batch /\ reply' = reply /\ asOf' = asOf
    BY <1>2, <1>5 DEF Replay
  <2> QED
    BY <1>3, <2>1, <2>2 DEF CallOK, Running
<1>6. ASSUME NEW r \in {"ok", "err"}, Ends(r) PROVE CallOK'
  <2>1. changed' \in BOOLEAN /\ grew' \in BOOLEAN
    BY <1>6, Zenon DEF Ends
  <2>2. pc' = "idle" /\ i' = 0 /\ pass' = 0 /\ tries' \in 0 .. Tries
        /\ batch' = <<>> /\ Len(batch') = 0 /\ reply' \in {"ok", "err"}
        /\ asOf' \in [head : Maps, index : Maps, erased : SUBSET Keys]
    BY <1>1, <1>2, <1>6 DEF Ends
  <2> QED
    BY <2>1, <2>2 DEF CallOK, Running
<1> QED
  BY <1>4, <1>5, <1>6

(***************************************************************************)
(* The steps of a call, by what they do to the store and to the call.      *)
(***************************************************************************)
\* An operation of the batch is through.
ItemStep == SkipItem \/ DeleteItem \/ PutLands

\* A rung of the ladder: the arena is kept, unless there is nothing in it.
KeepsArena ==
    \/ Lands \/ SpineWriteFails \/ UNCHANGED store
    \/ FromCommittedHead /\ ~dirty
RungStep ==
    /\ KeepsArena
    /\ \E p \in Rungs : To(p)
    /\ tries' \in 0 .. Tries /\ grew' \in BOOLEAN

\* From the last operation to the commit, and from the commit to the reap.
ToCommit ==
    /\ pc = "item" /\ i > Len(batch) /\ changed
    /\ UNCHANGED store /\ To("commit") /\ UNCHANGED ladder
ToReap == pc = "commit" /\ Lands /\ To("reap") /\ UNCHANGED ladder

ReplayStep == FromCommittedHead /\ \E p \in 1 .. 3 : Replay(p)

FailStep == StoreStep /\ Ends("err")

SucceedStep ==
    /\ \/ pc = "item" /\ i > Len(batch) /\ ~changed /\ UNCHANGED store
       \/ pc = "reap" /\ (UNCHANGED store \/ Lands)
    /\ Ends("ok")

\* These are all the steps a call takes (put_no_commit, apply_batch).
LEMMA CallStepForms ==
    ASSUME TypeOK, CallStep
    PROVE  /\ Running
           /\ \/ ItemStep \/ RungStep \/ ToCommit \/ ToReap
              \/ ReplayStep \/ FailStep \/ SucceedStep \/ DeleteErrs
<1>1. tries \in 0 .. Tries /\ grew \in BOOLEAN /\ Tries \in Nat /\ 0 \in 0 .. Tries
  BY BatchAssumption DEF TypeOK
<1> USE DEF Rungs, KeepsArena, RungStep
<1>2. ItemsFull => ReplayStep \/ FailStep
  BY DEF ItemsFull, ReplayStep, FailStep, StoreStep
<1>3. CASE ItemStep \/ DeleteErrs
  BY <1>3 DEF ItemStep, SkipItem, DeleteItem, DeleteErrs, Deletes, PutLands, Puts,
              AtItem, Running
<1>4. CASE PutFenced \/ PutFull
  <2>1. tries' \in 0 .. Tries /\ grew' \in BOOLEAN
    BY <1>1, <1>4 DEF PutFenced, PutFull
  <2> QED
    BY <1>4, <2>1 DEF PutFenced, PutFull, Puts, AtItem, Running
<1>5. CASE PutErrs
  BY <1>5 DEF PutErrs, Puts, AtItem, FailStep, StoreStep, Running
<1>6. CASE LadderCommit
  BY <1>1, <1>2, <1>6 DEF LadderCommit, CommitErrs, Running, ladder
<1>7. CASE LadderReap
  BY <1>1, <1>2, <1>7 DEF LadderReap, FailStep, StoreStep, Running, ladder
<1>8. CASE RollbackToHead
  BY <1>1, <1>2, <1>8 DEF RollbackToHead, FailStep, StoreStep, Running, ladder
<1>9. CASE LadderRescue
  <2>1. ASSUME grew' = TRUE PROVE grew' \in BOOLEAN
    BY <2>1, Zenon
  <2> QED
    BY <1>1, <1>2, <1>9, <2>1
       DEF LadderRescue, GrowInLadder, FailStep, StoreStep, Running, ladder
<1>10. CASE PutExhausted
  <2>1. ASSUME grew' = TRUE PROVE grew' \in BOOLEAN
    BY <2>1, Zenon
  <2> QED
    BY <1>1, <1>2, <1>10, <2>1
       DEF PutExhausted, GrowInLadder, Puts, AtItem, FailStep, StoreStep, Running
<1>11. CASE ItemsDone
  BY <1>11 DEF ItemsDone, ToCommit, SucceedStep, Running
<1>12. CASE FinalCommit
  BY <1>12 DEF FinalCommit, ToReap, ReplayStep, FailStep, StoreStep, Running
<1>13. CASE MaybeReap
  BY <1>13 DEF MaybeReap, SucceedStep, FailStep, StoreStep, Running
<1> QED
  BY <1>3, <1>4, <1>5, <1>6, <1>7, <1>8, <1>9, <1>10, <1>11, <1>12, <1>13
     DEF CallStep, ItemStep

\* What an operation does to the head: nothing, or it zeroes the head's own leaf
\* of its key.
HeadThrough ==
    \/ UNCHANGED <<head, asOf>>
    \/ /\ head' = ZeroHead /\ Value = Absent
       /\ asOf' = [asOf EXCEPT !.erased = @ \cup {Key}]

\* A put or a delete that changes the session is one of the two.
LEMMA LandsThrough ==
    ASSUME DeleteItem \/ PutLands
    PROVE  AtItem /\ ItemLands /\ HeadThrough
BY DEF DeleteItem, Deletes, ZeroDelete, PutLands, Puts, HeadThrough

\* An erase that ends in an error took the key from the session, and from the
\* head or not.
LEMMA DeleteErrsStore ==
    ASSUME TypeOK, DeleteErrs
    PROVE  /\ AtItem /\ Key \in Keys /\ Value = Absent /\ Ends("err")
           /\ \/ dirty' \in {dirty, TRUE} /\ UNCHANGED <<head, index, held>>
              \/ /\ head' \in {head, ZeroHead}
                 /\ index' = [index EXCEPT ![Key] = Absent]
                 /\ held' = held \ {Key}
                 /\ dirty' = TRUE
BY ItemFacts DEF DeleteErrs, Deletes, ZeroDelete

\* Between calls and around a power cut: what the store and the call become.
BeginStep == \E b \in Batches, p \in {0, 1} : Asks(b) /\ Begin(b, p)
IdleStep == pc = "idle" /\ (Lands \/ SpineWriteFails \/ FromCommittedHead)
            /\ UNCHANGED <<ladder, progress, pc, reply, asOf>>

\* Every step is one of these, a step of the call, the power cut or an open.
LEMMA NextForms ==
    ASSUME Next
    PROVE  BeginStep \/ CallStep \/ IdleStep \/ PowerCut \/ Open
BY DeleteIsBatch DEF Next, ApplyBatch, Delete, BeginStep, IdleCommit, IdleGrow, IdleStep

\* Types are kept by every step.
THEOREM NextTypeOK == TypeOK /\ [Next]_vars => TypeOK'
<1> SUFFICES ASSUME TypeOK, [Next]_vars PROVE TypeOK'
  OBVIOUS
<1>1. TypeOK <=> StoreOK /\ CallOK
  BY DEF TypeOK, StoreOK, CallOK
<1>2. (TypeOK <=> StoreOK /\ CallOK)'
  BY DEF TypeOK, StoreOK, CallOK
<1>3. CASE UNCHANGED vars
  BY <1>3 DEF vars, store, ladder, progress, TypeOK, Running
<1>4. CASE CallStep
  <2>1. CASE ItemStep
    <3>1. CASE SkipItem
      <4>1. i + 1 \in 0 .. (Len(batch) + 1) /\ i + 1 > 0
        BY <3>1, ItemFacts DEF SkipItem
      <4>2. StoreOK'
        BY <1>1, <3>1 DEF SkipItem, StoreOK, store
      <4>3. CallOK'
        BY <1>1, <3>1, <4>1, ItemFacts
           DEF SkipItem, CallOK, ladder, Running, AtItem
      <4> QED
        BY <1>2, <4>2, <4>3
    <3>2. CASE DeleteItem \/ PutLands
      <4>1. AtItem /\ ItemLands /\ HeadThrough
        BY <3>2, LandsThrough
      <4>2. i + 1 \in 0 .. (Len(batch) + 1) /\ i + 1 > 0
            /\ Key \in Keys /\ Value \in Values \cup {Absent}
        BY <4>1, ItemFacts
      <4>3. index' \in Maps /\ held' \subseteq Keys /\ head' \in Maps
        BY <4>1, <4>2 DEF ItemLands, HeadThrough, ZeroHead, TypeOK, Maps
      <4>8. asOf' \in [head : Maps, index : Maps, erased : SUBSET Keys]
        BY <4>1, <4>2 DEF HeadThrough, TypeOK
      <4>4. dirty' \in BOOLEAN /\ changed' \in BOOLEAN /\ grew' \in BOOLEAN
        BY <4>1, Zenon DEF ItemLands
      <4>5. tries' \in 0 .. Tries
        BY <4>1, BatchAssumption DEF ItemLands
      <4>6. StoreOK'
        BY <4>3, <4>4 DEF StoreOK
      <4>7. CallOK'
        BY <1>1, <4>1, <4>2, <4>8, <4>4, <4>5, ItemFacts
           DEF ItemLands, CallOK, Running, AtItem
      <4> QED
        BY <1>2, <4>6, <4>7
    <3> QED
      BY <2>1, <3>1, <3>2 DEF ItemStep
  <2>2. CASE DeleteErrs
    <3>1. head' \in Maps /\ index' \in Maps /\ held' \subseteq Keys
      BY <1>4, <2>2, DeleteErrsStore DEF ZeroHead, TypeOK, Maps
    <3>2. dirty' \in BOOLEAN
      <4>1. dirty \in BOOLEAN /\ (dirty' \in {dirty, TRUE} \/ dirty' = TRUE)
        BY <2>2, DeleteErrsStore DEF TypeOK
      <4> QED
        BY <4>1, Zenon
    <3>3. StoreOK' /\ Ends("err")
      BY <2>2, <3>1, <3>2, DeleteErrsStore DEF StoreOK
    <3>4. CallOK'
      BY <1>1, <1>4, <3>3, CallStepForms, CallTypes
    <3> QED
      BY <1>2, <3>3, <3>4
  <2>3. CASE ~ItemStep /\ ~DeleteErrs
    <3>1. StoreStep
      BY <1>4, <2>3, CallStepForms
         DEF RungStep, KeepsArena, ToCommit, ToReap, ReplayStep, FailStep,
             SucceedStep, StoreStep, CommitErrs
    <3>2. \/ \E p \in Rungs \cup {"commit", "reap"} :
                To(p) /\ tries' \in 0 .. Tries /\ grew' \in BOOLEAN
          \/ \E p \in 1 .. 3 : Replay(p)
          \/ \E r \in {"ok", "err"} : Ends(r)
      BY <1>4, <2>3, CallStepForms
         DEF RungStep, ToCommit, ToReap, ReplayStep, FailStep, SucceedStep,
             ladder, TypeOK
    <3> QED
      BY <1>1, <1>2, <1>4, <3>1, <3>2, CallStepForms, StoreTypes, CallTypes
  <2> QED
    BY <2>1, <2>2, <2>3
<1>5. CASE BeginStep
  <2>1. PICK b \in Batches, p \in {0, 1} : Begin(b, p)
    BY <1>5 DEF BeginStep
  <2>2. b # <<>> /\ 1 \in 0 .. (Len(b) + 1)
    BY BatchFacts
  <2>3. changed' \in BOOLEAN
    BY <2>1, Zenon DEF Begin
  <2> QED
    BY <2>1, <2>2, <2>3 DEF Begin, TypeOK, Running, store, ladder
<1>6. CASE IdleStep
  <2>1. StoreOK'
    BY <1>1, <1>6, StoreTypes DEF IdleStep, StoreStep, CommitErrs
  <2>2. CallOK'
    BY <1>1, <1>6 DEF IdleStep, CallOK, Running, ladder, progress
  <2> QED
    BY <1>2, <2>1, <2>2
<1>7. CASE PowerCut
  <2>1. StoreOK'
    BY <1>1, <1>7, StoreTypes DEF PowerCut, StoreStep
  <2>2. changed' \in BOOLEAN /\ grew' \in BOOLEAN
    BY <1>7, Zenon DEF PowerCut
  <2>3. tries' \in 0 .. Tries /\ Len(batch') = 0
    BY <1>7, BatchAssumption DEF PowerCut
  <2>4. asOf' \in [head : Maps, index : Maps, erased : SUBSET Keys]
    BY <1>7 DEF PowerCut, NoCall, Nothing, Maps
  <2>5. CallOK'
    BY <1>7, <2>2, <2>3, <2>4 DEF PowerCut, CallOK, Running
  <2> QED
    BY <1>2, <2>1, <2>5
<1>8. CASE Open
  BY <1>8 DEF Open, TypeOK, store, ladder, progress, Running
<1> QED
  BY <1>3, <1>4, <1>5, <1>6, <1>7, <1>8, NextForms

\* A fresh vault's types (Vault::genesis).
LEMMA InitTypeOK == Init => TypeOK
<1> SUFFICES ASSUME Init PROVE TypeOK
  OBVIOUS
<1>1. dirty \in BOOLEAN /\ changed \in BOOLEAN /\ grew \in BOOLEAN
  BY Zenon DEF Init
<1>2. tries \in 0 .. Tries /\ Len(batch) = 0
  BY BatchAssumption DEF Init
<1>3. Nothing \in Maps /\ NoCall \in [head : Maps, index : Maps, erased : SUBSET Keys]
  BY DEF NoCall, Nothing, Maps
<1> QED
  BY <1>1, <1>2, <1>3 DEF Init, TypeOK, Running

\* The counters of a call stay within their bounds, whatever the batch: the
\* ladder never runs past its attempts, apply_items never past the batch
\* (Vault::put_no_commit, Vault::apply_items).
THEOREM TypeCorrect == Spec => []TypeOK
BY InitTypeOK, NextTypeOK, PTL DEF Spec

(***************************************************************************)
(* The inductive invariant, on media whose spine writes do not fail.       *)
(***************************************************************************)
\* An arena without work in it is the head's.
CleanIsHead == ~dirty => index = head

\* The call commits at the end of its batch, and reaps what it committed.
EndsAtEnd ==
    /\ pc \in {"commit", "reap"} => i = Len(batch) + 1
    /\ pc = "reap" => index = head

\* A pass that changed nothing yet has met only operations the head already
\* holds, and no deletion of a key an earlier call left half deleted.
SkipsCommitted ==
    Running /\ ~changed =>
        /\ \A j \in 1 .. (i - 1) : index[batch[j].key] = head[batch[j].key]
        /\ \A j \in DOMAIN batch :
               batch[j].value = Absent => ~HalfDeleted(batch[j].key)

\* The head and the session are prefixes of the batch over what the call began
\* with, and the session's is at least what the pass has been through.
Prefixes ==
    DistinctKeys /\ Running =>
        \E b, c \in {asOf.head, asOf.index} :
            /\ \E n \in 0 .. Len(batch) : Applied(b, n, head, asOf.erased)
            /\ \E m \in (i - 1) .. Len(batch) : Applied(c, m, index, asOf.erased)

IInv ==
    /\ TypeOK /\ HeldIsCommitted /\ CleanIsHead
    /\ EarlierItemsKept /\ Prefixes

\* A rung of the ladder leaves the session's map as it was.
LEMMA RungKeepsIndex ==
    ASSUME ~SpineFaults, CleanIsHead, KeepsArena
    PROVE  index' = index /\ head' \in {head, index}
BY DEF KeepsArena, Lands, SpineWriteFails, FromCommittedHead, CleanIsHead, store

\* What the live set holds and what the arena lacks survive every change of the
\* store: commits, barriers, cut rescues and staged moves.
LEMMA StoreStepKeeps ==
    ASSUME ~SpineFaults, StoreOK, HeldIsCommitted, CleanIsHead, StoreStep
    PROVE  HeldIsCommitted' /\ CleanIsHead'
BY DEF StoreStep, CommitErrs, Lands, SpineWriteFails, FromCommittedHead, RescueCut,
       MovesStaged, store, HeldIsCommitted, CleanIsHead, Present, StoreOK

\* An operation is through: the session has its value, and no other key moved.
ItemThrough ==
    /\ AtItem
    /\ i' = i + 1
    /\ UNCHANGED <<pc, batch>>
    /\ HeadThrough
    /\ index' \in Maps /\ index'[Key] = Value
    /\ \A k \in Keys \ {Key} : index'[k] = index[k]

\* Every step over an operation, skipped, deleted or put, gets through it.
LEMMA ItemStepIsThrough ==
    ASSUME TypeOK, ItemStep
    PROVE  ItemThrough
<1>1. CASE SkipItem
  BY <1>1 DEF SkipItem, HoldsCommitted, ItemThrough, HeadThrough, store, TypeOK
<1>2. CASE DeleteItem \/ PutLands
  <2>1. AtItem /\ ItemLands /\ HeadThrough
    BY <1>2, LandsThrough
  <2>2. Key \in Keys /\ Value \in Values \cup {Absent}
    BY <2>1, ItemFacts
  <2> QED
    BY <2>1, <2>2 DEF ItemLands, ItemThrough, TypeOK, Maps
<1> QED
  BY <1>1, <1>2 DEF ItemStep

\* Getting through an operation keeps what the live set holds and what the arena
\* lacks.
LEMMA ItemStepKeeps ==
    ASSUME TypeOK, HeldIsCommitted, CleanIsHead, ItemStep
    PROVE  HeldIsCommitted' /\ CleanIsHead'
<1>1. CASE SkipItem
  BY <1>1 DEF SkipItem, store, HeldIsCommitted, CleanIsHead
<1>2. CASE DeleteItem \/ PutLands
  <2>1. AtItem /\ ItemLands /\ HeadThrough
    BY <1>2, LandsThrough
  <2>2. Key \in Keys
    BY <2>1, ItemFacts
  <2> QED
    BY <2>1, <2>2 DEF ItemLands, HeadThrough, ZeroHead, HeldIsCommitted, CleanIsHead,
                      TypeOK, Maps
<1> QED
  BY <1>1, <1>2 DEF ItemStep

\* The operations before the next one are those before this one, and this one.
LEMMA ItemKeepsEarlier ==
    ASSUME TypeOK, EarlierItemsKept, ItemThrough
    PROVE  EarlierItemsKept'
<1>1. i \in 1 .. Len(batch) /\ Key \in Keys /\ Len(batch) \in Nat
      /\ Running
  BY ItemFacts DEF ItemThrough, AtItem, Running
<1>2. i' = i + 1 /\ batch' = batch
  BY DEF ItemThrough
<1>3. ASSUME NEW k \in Keys, {j \in 1 .. (i' - 1) : batch'[j].key = k} # {}
      PROVE  \E j \in {j \in 1 .. (i' - 1) : batch'[j].key = k} :
                 /\ index'[k] = batch'[j].value
                 /\ \A l \in {l \in 1 .. (i' - 1) : batch'[l].key = k} : l <= j
  <2> DEFINE new == {j \in 1 .. (i' - 1) : batch'[j].key = k}
             old == {j \in 1 .. (i - 1) : batch[j].key = k}
  <2>1. CASE k = Key
    <3>1. i \in new /\ \A l \in new : l <= i
      BY <1>1, <1>2, <2>1 DEF Key
    <3>2. index'[k] = batch'[i].value
      BY <1>2, <2>1 DEF ItemThrough, Value
    <3> QED
      BY <3>1, <3>2
  <2>2. CASE k # Key
    <3>1. new = old
      BY <1>1, <1>2, <2>2 DEF Key
    <3>2. index'[k] = index[k]
      BY <2>2 DEF ItemThrough
    <3>3. PICK j \in old : index[k] = batch[j].value /\ \A l \in old : l <= j
      BY <1>1, <1>3, <3>1 DEF EarlierItemsKept
    <3> QED
      BY <1>2, <3>1, <3>2, <3>3
  <2> QED
    BY <2>1, <2>2
<1> QED
  BY <1>3 DEF EarlierItemsKept

\* Where no key comes twice, a session at a prefix of the batch is at a prefix
\* again: the same one on a replay, the next one at its end.
LEMMA ItemKeepsPrefixes ==
    ASSUME TypeOK, Prefixes, ItemThrough
    PROVE  Prefixes'
<1> SUFFICES ASSUME DistinctKeys', Running' PROVE
        \E b, c \in {asOf'.head, asOf'.index} :
            /\ \E n \in 0 .. Len(batch') : Applied(b, n, head, asOf.erased)'
            /\ \E m \in (i' - 1) .. Len(batch') : Applied(c, m, index, asOf.erased)'
  BY DEF Prefixes
<1>1. i \in 1 .. Len(batch) /\ Key \in Keys /\ Len(batch) \in Nat
      /\ DOMAIN batch = 1 .. Len(batch) /\ Running /\ DistinctKeys
  BY ItemFacts DEF ItemThrough, AtItem, Running, DistinctKeys
<1>2. i' = i + 1 /\ batch' = batch /\ asOf'.head = asOf.head
      /\ asOf'.index = asOf.index /\ asOf.erased \subseteq asOf'.erased
  BY DEF ItemThrough, HeadThrough, TypeOK
<1>3. PICK b \in {asOf.head, asOf.index}, c \in {asOf.head, asOf.index} :
            /\ \E n \in 0 .. Len(batch) : Applied(b, n, head, asOf.erased)
            /\ \E m \in (i - 1) .. Len(batch) : Applied(c, m, index, asOf.erased)
  BY <1>1 DEF Prefixes
<1>4. PICK n \in 0 .. Len(batch) : Applied(b, n, head, asOf.erased)
  BY <1>3
<1>5. PICK m \in (i - 1) .. Len(batch) : Applied(c, m, index, asOf.erased)
  BY <1>3
<1>6. Applied(b, n, head, asOf.erased)'
  <2> SUFFICES ASSUME NEW k \in Keys
               PROVE  \/ AppliedTo(k, b, n, head'[k])
                      \/ k \in asOf'.erased /\ head'[k] = Absent
    BY <1>2 DEF Applied, AppliedTo
  <2>1. AppliedTo(k, b, n, head[k]) \/ (k \in asOf.erased /\ head[k] = Absent)
    BY <1>4 DEF Applied
  <2>2. \/ head'[k] = head[k]
        \/ k \in asOf'.erased /\ head'[k] = Absent
    BY <1>1 DEF ItemThrough, HeadThrough, ZeroHead, TypeOK, Maps
  <2> QED
    BY <1>2, <2>1, <2>2
<1>7. \E q \in i .. Len(batch) : Applied(c, q, index, asOf.erased)'
  <2>1. \A j \in 1 .. Len(batch) : batch[j].key = Key => j = i
    BY <1>1 DEF DistinctKeys, Key
  <2>2. PICK q \in i .. Len(batch) : q = m \/ (m = i - 1 /\ q = i)
    BY <1>1, <1>5
  <2>3. ASSUME NEW k \in Keys
        PROVE  \/ AppliedTo(k, c, q, index'[k])
               \/ k \in asOf'.erased /\ index'[k] = Absent
    <3> DEFINE new == {j \in 1 .. q : batch[j].key = k}
               old == {j \in 1 .. m : batch[j].key = k}
    <3>1. CASE k = Key
      <4>1. i \in new /\ \A l \in new : l <= i
        BY <1>1, <2>1, <2>2, <3>1 DEF Key
      <4>2. index'[k] = batch[i].value
        BY <3>1 DEF ItemThrough, Value
      <4> QED
        BY <4>1, <4>2 DEF AppliedTo
    <3>2. CASE k # Key
      <4>1. new = old /\ index'[k] = index[k]
        BY <1>1, <2>2, <3>2 DEF Key, ItemThrough
      <4>2. AppliedTo(k, c, m, index[k]) \/ (k \in asOf.erased /\ index[k] = Absent)
        BY <1>5 DEF Applied
      <4> QED
        BY <1>2, <4>1, <4>2 DEF AppliedTo
    <3> QED
      BY <3>1, <3>2
  <2>4. Applied(c, q, index, asOf.erased)'
    BY <1>2, <2>3 DEF Applied, AppliedTo
  <2> QED
    BY <2>4
<1> QED
  BY <1>1, <1>2, <1>4, <1>6, <1>7

\* A range from an earlier operation on holds the one from a later on.
LEMMA BetweenFewer ==
    \A p, q, n \in Nat : p <= q => ((q - 1) .. n) \subseteq ((p - 1) .. n)
OBVIOUS

\* A head and a session of the same maps are at the same prefixes.
LEMMA PrefixesKept ==
    ASSUME TypeOK, Prefixes, Running' => Running,
           Running' => i' \in 1 .. i /\ UNCHANGED <<batch, asOf>>,
           head' \in {head, index},
           index' = index \/ (index' = head /\ i' = 1)
    PROVE  Prefixes'
<1> SUFFICES ASSUME DistinctKeys', Running' PROVE
        \E b, c \in {asOf'.head, asOf'.index} :
            /\ \E n \in 0 .. Len(batch') : Applied(b, n, head, asOf.erased)'
            /\ \E m \in (i' - 1) .. Len(batch') : Applied(c, m, index, asOf.erased)'
  BY DEF Prefixes
<1>1. Running /\ i' \in 1 .. i /\ i \in 0 .. (Len(batch) + 1) /\ batch' = batch
      /\ asOf' = asOf /\ DistinctKeys /\ Len(batch) \in Nat
  BY BatchFacts DEF DistinctKeys, TypeOK
<1>2. PICK b \in {asOf.head, asOf.index}, c \in {asOf.head, asOf.index} :
            /\ \E n \in 0 .. Len(batch) : Applied(b, n, head, asOf.erased)
            /\ \E m \in (i - 1) .. Len(batch) : Applied(c, m, index, asOf.erased)
  BY <1>1 DEF Prefixes
<1>3. PICK n \in 0 .. Len(batch) : Applied(b, n, head, asOf.erased)
  BY <1>2
<1>4. PICK m \in (i - 1) .. Len(batch) : Applied(c, m, index, asOf.erased)
  BY <1>2
<1>5. \E d \in {asOf'.head, asOf'.index}, q \in 0 .. Len(batch') : Applied(d, q, head, asOf.erased)'
  <2>1. CASE head' = head
    <3>1. Applied(b, n, head, asOf.erased)'
      BY <1>1, <1>3, <2>1 DEF Applied, AppliedTo
    <3> QED
      BY <1>1, <3>1
  <2>2. CASE head' = index
    <3>1. m \in 0 .. Len(batch')
      BY <1>1, <1>4
    <3>2. Applied(c, m, head, asOf.erased)'
      BY <1>1, <1>4, <2>2 DEF Applied, AppliedTo
    <3> QED
      BY <1>1, <3>1, <3>2
  <2> QED
    BY <2>1, <2>2
<1>6. \E d \in {asOf'.head, asOf'.index}, q \in (i' - 1) .. Len(batch') :
          Applied(d, q, index, asOf.erased)'
  <2>1. CASE index' = index
    <3>1. i' \in Nat /\ i \in Nat /\ i' <= i /\ Len(batch) \in Nat
      BY <1>1
    <3>2. (i - 1) .. Len(batch) \subseteq (i' - 1) .. Len(batch)
      BY <3>1, BetweenFewer
    <3>3. Len(batch') = Len(batch)
      BY <1>1
    <3>4. m \in (i' - 1) .. Len(batch')
      BY <3>2, <3>3
    <3>5. Applied(c, m, index, asOf.erased)'
      BY <1>1, <1>4, <2>1 DEF Applied, AppliedTo
    <3> QED
      BY <1>1, <3>4, <3>5
  <2>2. CASE index' = head /\ i' = 1
    <3>1. n \in (i' - 1) .. Len(batch')
      BY <1>1, <1>3, <2>2
    <3>2. Applied(b, n, index, asOf.erased)'
      BY <1>1, <1>3, <2>2 DEF Applied, AppliedTo
    <3> QED
      BY <1>1, <3>1, <3>2
  <2> QED
    BY <2>1, <2>2
<1> QED
  BY <1>5, <1>6

\* Every step of every call, between calls, and the power cut keep the
\* invariant.
THEOREM NextIInv ==
    ASSUME ~SpineFaults, IInv, [Next]_vars
    PROVE  IInv'
<1>1. TypeOK /\ HeldIsCommitted /\ CleanIsHead /\ EarlierItemsKept /\ Prefixes
      /\ StoreOK
  BY DEF IInv, TypeOK, StoreOK
<1>2. TypeOK'
  BY <1>1, NextTypeOK
<1>3. CASE UNCHANGED vars
  <2>1. UNCHANGED <<head, index, held, dirty, pc, batch, i, asOf>>
    BY <1>3 DEF vars, store, progress
  <2>2. HeldIsCommitted' /\ CleanIsHead' /\ EarlierItemsKept'
    BY <1>1, <2>1 DEF HeldIsCommitted, CleanIsHead, EarlierItemsKept, Running
  <2>3. Running' => Running /\ i' \in 1 .. i
    BY <1>1, <2>1 DEF TypeOK, Running
  <2> QED
    BY <1>1, <1>2, <2>1, <2>2, <2>3, PrefixesKept DEF IInv
<1>4. CASE ItemStep
  BY <1>1, <1>2, <1>4, ItemStepIsThrough, ItemStepKeeps, ItemKeepsEarlier,
     ItemKeepsPrefixes DEF IInv
<1>5. ASSUME Running, KeepsArena,
             \E p \in Rungs \cup {"commit", "reap"} : To(p)
      PROVE  IInv'
  <2>1. HeldIsCommitted' /\ CleanIsHead'
    BY <1>1, <1>5, StoreStepKeeps DEF KeepsArena, StoreStep, CommitErrs
  <2>2. index' = index /\ head' \in {head, index}
    BY <1>1, <1>5, RungKeepsIndex
  <2>3. UNCHANGED <<batch, i, asOf>>
    BY <1>5 DEF To, progress
  <2>4. EarlierItemsKept'
    BY <1>1, <1>5, <2>2, <2>3 DEF EarlierItemsKept
  <2>5. i \in 1 .. i
    BY <1>1, <1>5 DEF TypeOK
  <2>6. Prefixes'
    BY <1>1, <1>5, <2>2, <2>3, <2>5, PrefixesKept
  <2> QED
    BY <1>2, <2>1, <2>4, <2>6 DEF IInv
<1>6. CASE ReplayStep /\ Running
  <2>1. HeldIsCommitted' /\ CleanIsHead'
    BY <1>1, <1>6, StoreStepKeeps DEF ReplayStep, StoreStep
  <2>2. index' = head /\ head' = head /\ i' = 1 /\ UNCHANGED <<batch, asOf>>
    BY <1>6 DEF ReplayStep, FromCommittedHead, Replay
  <2>3. 1 .. (i' - 1) = {}
    BY <2>2
  <2>4. EarlierItemsKept'
    BY <2>3 DEF EarlierItemsKept
  <2>5. i' \in 1 .. i
    BY <1>1, <1>6, <2>2 DEF TypeOK
  <2>6. Prefixes'
    BY <1>1, <1>6, <2>2, <2>5, PrefixesKept
  <2> QED
    BY <1>2, <2>1, <2>4, <2>6 DEF IInv
<1>7. ASSUME StoreStep, pc' \in {"idle", "down"} PROVE IInv'
  <2>1. HeldIsCommitted' /\ CleanIsHead'
    BY <1>1, <1>7, StoreStepKeeps
  <2>2. ~Running'
    BY <1>7 DEF Running
  <2> QED
    BY <1>2, <2>1, <2>2 DEF IInv, EarlierItemsKept, Prefixes
<1>8. CASE BeginStep
  <2>1. PICK b \in Batches, p \in {0, 1} : Begin(b, p)
    BY <1>8 DEF BeginStep
  <2>2. HeldIsCommitted' /\ CleanIsHead'
    BY <1>1, <2>1 DEF Begin, store, HeldIsCommitted, CleanIsHead
  <2>3. 1 .. (i' - 1) = {}
    BY <2>1 DEF Begin
  <2>4. EarlierItemsKept'
    BY <2>3 DEF EarlierItemsKept
  <2>5. Prefixes'
    <3>1. asOf'.head = head' /\ asOf'.index = index' /\ i' = 1
      BY <2>1 DEF Begin, store
    <3>2. 0 \in 0 .. Len(batch') /\ 0 \in (i' - 1) .. Len(batch')
      BY <2>1, <3>1, BatchFacts DEF Begin
    <3>3. Applied(asOf.head, 0, head, asOf.erased)' /\ Applied(asOf.index, 0, index, asOf.erased)'
      BY <3>1 DEF Applied, AppliedTo
    <3> QED
      BY <3>1, <3>2, <3>3 DEF Prefixes
  <2> QED
    BY <1>2, <2>2, <2>4, <2>5 DEF IInv
<1>9. CASE DeleteErrs
  <2>1. HeldIsCommitted' /\ CleanIsHead'
    BY <1>1, <1>9, DeleteErrsStore
       DEF HeldIsCommitted, CleanIsHead, ZeroHead, TypeOK, Maps
  <2>2. ~Running'
    BY <1>1, <1>9, DeleteErrsStore DEF Ends, Running
  <2> QED
    BY <1>2, <2>1, <2>2 DEF IInv, EarlierItemsKept, Prefixes
<1>13. CASE CallStep
  BY <1>1, <1>4, <1>5, <1>6, <1>7, <1>13, <1>9, CallStepForms
     DEF RungStep, ToCommit, ToReap, FailStep, SucceedStep, KeepsArena, StoreStep,
         Ends
<1>10. CASE IdleStep
  BY <1>7, <1>10 DEF IdleStep, StoreStep, CommitErrs
<1>11. CASE PowerCut
  BY <1>7, <1>11 DEF PowerCut, StoreStep
<1>12. CASE Open
  BY <1>7, <1>12 DEF Open, StoreStep
<1> QED
  BY <1>3, <1>8, <1>9, <1>13, <1>10, <1>11, <1>12, NextForms

\* A fresh vault satisfies it.
THEOREM InitIInv == Init => IInv
<1> SUFFICES ASSUME Init PROVE IInv
  OBVIOUS
<1>1. ~Running /\ held = {} /\ index = head
  BY DEF Init, Running
<1> QED
  BY <1>1, InitTypeOK
     DEF IInv, HeldIsCommitted, CleanIsHead, EarlierItemsKept, Prefixes

\* The invariant holds in every reachable state.
THEOREM Invariance == ASSUME ~SpineFaults PROVE Spec => []IInv
<1>1. IInv /\ [Next]_vars => IInv'
  BY NextIInv
<1> QED
  BY <1>1, InitIInv, PTL DEF Spec

\* An identical put that returns without a commit finds its value in the
\* committed head, through every ladder, barrier and replay
\* (Vault::holds_committed).
THEOREM HeldAlwaysCommitted == ASSUME ~SpineFaults PROVE Spec => []HeldIsCommitted
<1>1. IInv => HeldIsCommitted
  BY DEF IInv
<1> QED
  BY <1>1, Invariance, PTL

\* No commit, reap, rollback, rescue or grow of the ladder loses an operation
\* the pass has been through (Vault::put_no_commit, Vault::rollback_to_head,
\* Vault::grow_in_ladder).
THEOREM EarlierAlwaysKept == ASSUME ~SpineFaults PROVE Spec => []EarlierItemsKept
<1>1. IInv => EarlierItemsKept
  BY DEF IInv
<1> QED
  BY <1>1, Invariance, PTL

\* What is on the media during a call is a prefix of its batch over the head or
\* the session it began with, when no key comes twice, but for the keys its
\* erasing deletes have zeroed (Vault::apply_batch, Hamt::delete).
THEOREM AlwaysLandsInOrder == ASSUME ~SpineFaults PROVE Spec => []LandsInOrder
<1>1. IInv => LandsInOrder
  BY DEF IInv, Prefixes, LandsInOrder
<1> QED
  BY <1>1, Invariance, PTL

\* Without erasing deletes nothing is zeroed ahead of its turn.
NothingErased == asOf.erased = {}

\* The prefix without an exception.
LandsPrefix ==
    DistinctKeys /\ Running =>
        \E n \in 0 .. Len(batch), b \in {asOf.head, asOf.index} :
            Applied(b, n, head, {})

\* Under UnlinkOnly an operation lands only after everything before it: what is
\* on the media is a prefix of the batch, as apply_batch says of its order
\* (Vault::apply_batch, DeletePolicy::UnlinkOnly).
THEOREM UnlinkLandsPrefix ==
    ASSUME ~SpineFaults, ~Erases PROVE Spec => []LandsPrefix
<1>1. Init => NothingErased
  BY DEF Init, NoCall, NothingErased
<1>2. TypeOK /\ NothingErased /\ [Next]_vars => NothingErased'
  <2> SUFFICES ASSUME TypeOK, NothingErased, [Next]_vars PROVE NothingErased'
    OBVIOUS
  <2> USE DEF NothingErased
  <2>1. CASE UNCHANGED vars \/ IdleStep \/ Open
    BY <2>1 DEF vars, IdleStep, Open
  <2>2. CASE BeginStep \/ PowerCut
    BY <2>2 DEF BeginStep, Begin, PowerCut, NoCall
  <2>3. CASE ItemStep
    BY <2>3 DEF ItemStep, SkipItem, DeleteItem, ZeroDelete, PutLands
  <2>4. CASE CallStep /\ ~ItemStep
    <3>1. \/ \E p \in Rungs \cup {"commit", "reap"} : To(p)
          \/ \E p \in 1 .. 3 : Replay(p)
          \/ \E q \in {"ok", "err"} : Ends(q)
      BY <2>4, CallStepForms
         DEF RungStep, ToCommit, ToReap, ReplayStep, FailStep, SucceedStep, DeleteErrs
    <3>2. asOf' = asOf \/ asOf' = NoCall
      BY <3>1, Zenon DEF To, Replay, Ends
    <3> QED
      BY <3>2 DEF NoCall
  <2> QED
    BY <2>1, <2>2, <2>3, <2>4, NextForms
<1>3. LandsInOrder /\ NothingErased => LandsPrefix
  BY DEF LandsInOrder, NothingErased, LandsPrefix
<1> QED
  BY <1>1, <1>2, <1>3, TypeCorrect, AlwaysLandsInOrder, PTL DEF Spec

(***************************************************************************)
(* The vault keeps the promise of KV, where callers do not ask again for a *)
(* deletion that failed.                                                   *)
(***************************************************************************)
RInv == IInv /\ EndsAtEnd /\ SkipsCommitted

\* An operation skipped on the first pass is in the head: its value is held, or
\* its key is absent from both maps.
LEMMA SkipIsCommitted ==
    ASSUME RInv, SkipItem, ~changed
    PROVE  index[Key] = head[Key]
<1>1. Running /\ Key \in Keys /\ i \in DOMAIN batch
  BY ItemFacts DEF RInv, IInv, SkipItem, AtItem, Running
<1>2. CASE Value = Absent
  <2>1. index[Key] = Absent /\ ~HalfDeleted(Key)
    BY <1>1, <1>2 DEF RInv, SkipsCommitted, SkipItem, Key, Value
  <2> QED
    BY <2>1 DEF HalfDeleted
<1>3. CASE Value # Absent
  BY <1>3 DEF SkipItem, HoldsCommitted, RInv, IInv, HeldIsCommitted
<1> QED
  BY <1>2, <1>3

\* Every step keeps it.
LEMMA NextRInv ==
    ASSUME ~SpineFaults, ~RetryDelete, RInv, [Next]_vars
    PROVE  RInv'
<1>1. IInv /\ EndsAtEnd /\ SkipsCommitted /\ TypeOK /\ CleanIsHead
  BY DEF RInv, IInv
<1>2. IInv'
  BY <1>1, NextIInv
<1>3. CASE UNCHANGED vars
  <2>1. UNCHANGED <<head, index, pc, batch, i, changed>>
    BY <1>3 DEF vars, store, progress
  <2> QED
    BY <1>1, <1>2, <2>1 DEF RInv, EndsAtEnd, SkipsCommitted, Running, HalfDeleted
<1>4. CASE SkipItem
  <2>1. UNCHANGED <<head, index, pc, batch, changed>> /\ i' = i + 1 /\ pc = "item"
        /\ i \in Nat
    BY <1>1, <1>4 DEF SkipItem, store, AtItem, TypeOK
  <2>2. ~changed => index[batch[i].key] = head[batch[i].key]
    BY <1>4, SkipIsCommitted DEF Key
  <2>3. \A j \in 1 .. (i' - 1) : j = i \/ j \in 1 .. (i - 1)
    BY <2>1
  <2>4. SkipsCommitted'
    BY <1>1, <2>1, <2>2, <2>3 DEF SkipsCommitted, Running, HalfDeleted
  <2> QED
    BY <1>2, <2>1, <2>4 DEF RInv, EndsAtEnd
<1>5. CASE DeleteItem \/ PutLands
  <2>1. changed' /\ pc' = "item"
    BY <1>5, LandsThrough DEF ItemLands, AtItem
  <2> QED
    BY <1>2, <2>1 DEF RInv, EndsAtEnd, SkipsCommitted
<1>6. CASE RungStep /\ Running
  <2>1. index' = index /\ head' \in {head, index}
    BY <1>1, <1>6, RungKeepsIndex DEF RungStep
  <2>2. UNCHANGED <<batch, i, changed>> /\ pc' \in Rungs
    BY <1>6 DEF RungStep, To, progress
  <2> QED
    BY <1>1, <1>2, <1>6, <2>1, <2>2
       DEF RInv, EndsAtEnd, SkipsCommitted, HalfDeleted, Rungs
<1>7. CASE ToCommit
  <2>1. UNCHANGED <<head, index, batch, i, changed>> /\ pc' = "commit" /\ changed
        /\ i > Len(batch)
    BY <1>7 DEF ToCommit, To, progress, store
  <2>2. i = Len(batch) + 1
    BY <1>1, <1>7, <2>1, BatchFacts DEF ToCommit, TypeOK, Running
  <2> QED
    BY <1>2, <2>1, <2>2 DEF RInv, EndsAtEnd, SkipsCommitted
<1>8. CASE ToReap
  <2>1. pc = "commit" /\ Lands /\ To("reap")
    BY <1>8 DEF ToReap
  <2>2. head' = index /\ index' = index
    BY <2>1 DEF Lands
  <2>3. UNCHANGED <<batch, i, changed>> /\ pc' = "reap"
    BY <2>1 DEF To, progress
  <2>4. SkipsCommitted'
    BY <1>1, <2>1, <2>2, <2>3 DEF SkipsCommitted, HalfDeleted
  <2> QED
    BY <1>1, <1>2, <2>1, <2>2, <2>3, <2>4 DEF RInv, EndsAtEnd
<1>9. CASE ReplayStep
  <2>1. changed' /\ pc' = "item"
    BY <1>9 DEF ReplayStep, Replay
  <2> QED
    BY <1>2, <2>1 DEF RInv, EndsAtEnd, SkipsCommitted
<1>10. ASSUME pc' \in {"idle", "down"} PROVE RInv'
  BY <1>2, <1>10 DEF RInv, EndsAtEnd, SkipsCommitted, Running
<1>11. CASE BeginStep
  <2>1. PICK b \in Batches, p \in {0, 1} : Asks(b) /\ Begin(b, p)
    BY <1>11 DEF BeginStep
  <2>2. batch' = b /\ i' = 1 /\ pc' = "item" /\ UNCHANGED <<head, index>>
    BY <2>1 DEF Begin, store
  <2>3. \A j \in DOMAIN b : b[j].value = Absent => ~HalfDeleted(b[j].key)
    BY <2>1 DEF Asks
  <2>4. 1 .. (i' - 1) = {}
    BY <2>2
  <2>5. SkipsCommitted'
    BY <2>2, <2>3, <2>4 DEF SkipsCommitted, HalfDeleted
  <2> QED
    BY <1>2, <2>2, <2>5 DEF RInv, EndsAtEnd
<1>12. CASE CallStep
  BY <1>1, <1>4, <1>5, <1>6, <1>7, <1>8, <1>9, <1>10, <1>12, CallStepForms
     DEF ItemStep, FailStep, SucceedStep, DeleteErrs, Ends
<1> QED
  BY <1>3, <1>10, <1>11, <1>12, NextForms DEF IdleStep, PowerCut, Open

\* A value may still be stored if the arena holds it uncommitted or the call
\* asks for it.
LEMMA LooseFacts ==
    /\ DOMAIN Loose = Keys
    /\ \A k \in Keys :
           Loose[k] = (IF index[k] = head[k] THEN {} ELSE {index[k]})
                         \cup Promise!Asked(batch, k)
BY DEF Loose, Promise!Asked, Promise!OpsOn

\* The same of the next state.
LEMMA LooseFactsNext ==
    /\ DOMAIN Loose' = Keys
    /\ \A k \in Keys :
           Loose'[k] = (IF index'[k] = head'[k] THEN {} ELSE {index'[k]})
                         \cup Promise!Asked(batch', k)
BY DEF Loose, Promise!Asked, Promise!OpsOn

\* A change of the store that brings nothing to the media but what the session
\* or the call holds, and nothing to the session but what the media or the call
\* holds, is one the promise allows.
Settles ==
    /\ head' \in Maps
    /\ \A k \in Keys :
           /\ head'[k] \in {head[k], index[k]} \cup Promise!Asked(batch, k)
           /\ index'[k] # head'[k] =>
                 \/ index'[k] = index[k] /\ head'[k] = head[k]
                 \/ index'[k] \in Promise!Asked(batch, k)

\* A step that settles stores only what the promise lets it store.
LEMMA SettlesStores ==
    ASSUME Settles
    PROVE  Promise!Stores
BY LooseFacts DEF Settles, Promise!Stores, Promise!Maps, Maps

\* A step that settles inside a call, or between calls, is a landing of KV.
LEMMA SettlesLands ==
    ASSUME Settles, UNCHANGED <<batch, reply>>
    PROVE  Promise!Land
<1>1. ASSUME NEW k \in Keys
      PROVE  /\ Loose'[k] \subseteq Loose[k]
             /\ Promise!Asked(batch, k) \subseteq Loose'[k]
  BY LooseFacts, LooseFactsNext DEF Settles
<1>2. Promise!Fewer([k \in Keys |-> Promise!Asked(batch, k)])
  BY <1>1, LooseFactsNext DEF Promise!Fewer
<1> QED
  BY <1>2, SettlesStores DEF Promise!Land

\* A step that settles and ends the call with an error is a failure of KV.
LEMMA SettlesFails ==
    ASSUME Settles, batch # <<>>, batch' = <<>>, reply' = "err"
    PROVE  Promise!Fail
<1>1. \A k \in Keys : Promise!Asked(batch', k) = {}
  BY DEF Promise!Asked, Promise!OpsOn
<1>2. \A k \in Keys : Loose'[k] \subseteq Loose[k]
  BY <1>1, LooseFacts, LooseFactsNext DEF Settles
<1>3. Promise!Fewer([k \in Keys |-> {}])
  BY <1>2, LooseFactsNext DEF Promise!Fewer
<1> QED
  BY <1>3, SettlesStores DEF Promise!Fail

\* Commits, barriers, cut rescues and staged moves settle.
LEMMA StoreStepSettles ==
    ASSUME ~SpineFaults, TypeOK, StoreStep
    PROVE  Settles
BY DEF StoreStep, CommitErrs, Lands, SpineWriteFails, FromCommittedHead, RescueCut,
       MovesStaged, store, Settles, TypeOK

\* An operation settles: its value is asked for.
LEMMA ItemSettles ==
    ASSUME TypeOK, ItemThrough
    PROVE  Settles
<1>1. Key \in Keys /\ Value \in Promise!Asked(batch, Key)
  BY ItemFacts DEF ItemThrough, Key, Value, Promise!Asked, Promise!OpsOn
<1> QED
  BY <1>1 DEF ItemThrough, HeadThrough, ZeroHead, Settles, TypeOK, Maps

\* So does a delete that ends in an error: what it zeroed it was asked to delete.
LEMMA DeleteErrsSettles ==
    ASSUME TypeOK, DeleteErrs
    PROVE  Settles
<1>1. Key \in Keys /\ Absent \in Promise!Asked(batch, Key)
  BY ItemFacts, DeleteErrsStore DEF Key, Value, Promise!Asked, Promise!OpsOn
<1> QED
  BY <1>1, DeleteErrsStore DEF ZeroHead, Settles, TypeOK, Maps

\* A call that ends in success has everything it asked for on the media, and
\* leaves nothing behind in the arena for those keys.
LEMMA SuccessIsWhole ==
    ASSUME RInv, SucceedStep
    PROVE  Promise!Succeed
<1>1. TypeOK /\ EarlierItemsKept /\ EndsAtEnd /\ SkipsCommitted
  BY DEF RInv, IInv
<1>2. Running /\ batch \in Batches /\ i = Len(batch) + 1
  BY <1>1, BatchFacts DEF SucceedStep, Running, TypeOK, EndsAtEnd
<1>3. Len(batch) \in Nat /\ DOMAIN batch = 1 .. Len(batch) /\ batch # <<>>
      /\ 1 .. (i - 1) = 1 .. Len(batch) /\ \A j \in 1 .. Len(batch) : batch[j] \in Op
  BY <1>2, BatchFacts
<1>4. \A j \in DOMAIN batch : index[batch[j].key] = head[batch[j].key]
  BY <1>1, <1>2, <1>3 DEF SucceedStep, SkipsCommitted, EndsAtEnd
<1>5. head' = head /\ index' = index
  BY <1>1 DEF SucceedStep, Lands, store, EndsAtEnd
<1>6. batch' = <<>> /\ reply' = "ok"
  BY DEF SucceedStep, Ends
<1>7. \A k \in Keys : Promise!Asked(batch', k) = {}
  BY <1>6 DEF Promise!Asked, Promise!OpsOn
<1>8. ASSUME NEW k \in Promise!Touched(batch)
      PROVE  Promise!LastAsked(batch, k, head[k]) /\ Loose'[k] = {}
  <2>1. PICK j \in DOMAIN batch : batch[j].key = k
    BY <1>8 DEF Promise!Touched
  <2>2. k \in Keys /\ index[k] = head[k]
    BY <1>3, <1>4, <2>1 DEF Op
  <2>3. \E l \in {l \in 1 .. (i - 1) : batch[l].key = k} :
             /\ index[k] = batch[l].value
             /\ \A q \in {q \in 1 .. (i - 1) : batch[q].key = k} : q <= l
    BY <1>1, <1>2, <1>3, <2>1, <2>2 DEF EarlierItemsKept
  <2>4. Promise!LastAsked(batch, k, head[k])
    BY <1>3, <2>2, <2>3 DEF Promise!LastAsked, Promise!OpsOn
  <2> QED
    BY <1>5, <1>7, <2>2, <2>4, LooseFactsNext
<1>9. \A k \in Keys : Loose'[k] \subseteq Loose[k]
  BY <1>5, <1>7, LooseFacts, LooseFactsNext
<1>10. Promise!Fewer([k \in Keys |-> {}])
  BY <1>9, LooseFactsNext DEF Promise!Fewer
<1> QED
  BY <1>3, <1>5, <1>6, <1>8, <1>10 DEF Promise!Succeed

\* A call begins with everything it asks for loose.
LEMMA BeginCalls ==
    ASSUME TypeOK, BeginStep
    PROVE  Promise!Call(batch')
<1>1. PICK b \in Batches, p \in {0, 1} : Begin(b, p)
  BY DEF BeginStep
<1>2. batch = <<>> /\ b # <<>> /\ batch' = b /\ reply' = "none"
      /\ UNCHANGED <<head, index>>
  BY <1>1, BatchFacts DEF Begin, TypeOK, Running, store
<1>3. \A k \in Keys : Promise!Asked(batch, k) = {}
  BY <1>2 DEF Promise!Asked, Promise!OpsOn
<1>4. \A k \in Keys : Loose'[k] = Loose[k] \cup Promise!Asked(batch', k)
  BY <1>2, <1>3, LooseFacts, LooseFactsNext
<1>5. Loose' = [k \in Keys |-> Loose[k] \cup Promise!Asked(batch', k)]
  BY <1>4 DEF Loose
<1> QED
  BY <1>2, <1>5 DEF Promise!Call

\* A power cut leaves the head and nothing loose.
LEMMA PowerCutCuts ==
    ASSUME TypeOK, PowerCut
    PROVE  Promise!PowerCut
<1>1. head' = head /\ index' = head /\ batch' = <<>> /\ reply' = "none"
  BY DEF PowerCut, FromCommittedHead
<1>2. \A k \in Keys : Promise!Asked(batch', k) = {}
  BY <1>1 DEF Promise!Asked, Promise!OpsOn
<1>3. Loose' = [k \in Keys |-> {}]
  BY <1>1, <1>2 DEF Loose, Promise!Asked, Promise!OpsOn
<1> QED
  BY <1>1, <1>3 DEF Promise!PowerCut

\* Every step is one the promise allows, or none it can see.
THEOREM StepsKeepPromise ==
    ASSUME ~SpineFaults, ~RetryDelete, RInv, [Next]_vars
    PROVE  [Promise!Next]_Promise!vars
<1> USE DEF Promise!Next
<1>1. TypeOK
  BY DEF RInv, IInv
<1>2. CASE UNCHANGED vars \/ Open
  <2>1. UNCHANGED <<head, index, batch, reply>>
    BY <1>2 DEF vars, store, progress, Open
  <2>2. Loose' = Loose
    BY <2>1 DEF Loose
  <2> QED
    BY <2>1, <2>2 DEF Promise!vars
<1>3. CASE BeginStep
  BY <1>1, <1>3, BeginCalls
<1>4. CASE PowerCut
  BY <1>1, <1>4, PowerCutCuts
<1>5. CASE IdleStep
  BY <1>1, <1>5, StoreStepSettles, SettlesLands
     DEF IdleStep, StoreStep, CommitErrs, progress
<1>6. CASE CallStep
  <2>1. CASE ItemStep
    <3>1. UNCHANGED <<batch, reply>>
      BY <2>1 DEF ItemStep, SkipItem, DeleteItem, PutLands, ItemLands
    <3> QED
      BY <1>1, <2>1, <3>1, ItemStepIsThrough, ItemSettles, SettlesLands
  <2>2. CASE RungStep \/ ToCommit \/ ToReap \/ ReplayStep
    <3>1. StoreStep
      BY <2>2 DEF RungStep, KeepsArena, ToCommit, ToReap, ReplayStep, StoreStep,
                  CommitErrs
    <3>2. UNCHANGED <<batch, reply>>
      BY <2>2 DEF RungStep, ToCommit, ToReap, ReplayStep, To, Replay, progress
    <3> QED
      BY <1>1, <3>1, <3>2, StoreStepSettles, SettlesLands
  <2>5. CASE DeleteErrs
    <3>1. batch # <<>> /\ Ends("err")
      BY <1>1, <1>6, <2>5, CallStepForms, DeleteErrsStore DEF TypeOK
    <3> QED
      BY <1>1, <2>5, <3>1, DeleteErrsSettles, SettlesFails DEF Ends
  <2>3. CASE FailStep
    <3>1. batch # <<>>
      BY <1>1, <1>6, CallStepForms DEF TypeOK
    <3> QED
      BY <1>1, <2>3, <3>1, StoreStepSettles, SettlesFails DEF FailStep, Ends
  <2>4. CASE SucceedStep
    BY <2>4, SuccessIsWhole
  <2> QED
    BY <1>1, <1>6, <2>1, <2>2, <2>3, <2>4, <2>5, CallStepForms
<1> QED
  BY <1>2, <1>3, <1>4, <1>5, <1>6, NextForms

\* The vault implements the map it promises: a call acknowledged is on the
\* media whole, a key nobody writes never changes, and no ladder, barrier,
\* replay or power cut stores what was not asked for (Vault::apply_batch,
\* Vault::delete), where spine writes do not fail and no caller asks again for
\* a deletion that failed.
THEOREM PromiseKept ==
    ASSUME ~SpineFaults, ~RetryDelete PROVE Spec => KeepsPromise
<1>1. Init => RInv
  BY InitIInv DEF RInv, Init, EndsAtEnd, SkipsCommitted, Running
<1>2. RInv /\ [Next]_vars => RInv'
  BY NextRInv
<1>3. Init => Promise!Init
  <2> SUFFICES ASSUME Init PROVE Promise!Init
    OBVIOUS
  <2>1. head = Nothing /\ index = Nothing /\ batch = <<>> /\ reply = "none"
    BY DEF Init
  <2>2. Loose = [k \in Keys |-> {}]
    BY <2>1 DEF Loose
  <2> QED
    BY <2>1, <2>2 DEF Promise!Init, Nothing
<1>4. RInv /\ [Next]_vars => [Promise!Next]_Promise!vars
  BY StepsKeepPromise
<1> QED
  BY <1>1, <1>2, <1>3, <1>4, PTL DEF Spec, KeepsPromise, Promise!Spec
=============================================================================
