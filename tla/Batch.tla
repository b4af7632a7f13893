------------------------------- MODULE Batch -------------------------------
(***************************************************************************)
(* A call on the vault (vault.rs: put, put_batch, apply_batch, delete) from *)
(* its first item to its reply: the identical-overwrite skip, the put       *)
(* ladder, the barriers that throw the arena away, and the replay of the    *)
(* items the caller still holds.                                            *)
(*                                                                         *)
(* The index is the map it answers with, twice: as the committed head has  *)
(* it and as the session has it.  Space (Vault) is a choice: an append may  *)
(* be fenced, may find the tract full, or may land.                         *)
(***************************************************************************)
EXTENDS Naturals, Sequences

CONSTANTS
    Keys,
    Values,
    Absent,
    MaxItems,    \* bound on the operations of one batch
    Erases,      \* whether the vault may be open with DeletePolicy ZeroIsErase
    Tries,       \* attempts of one put before the ladder gives up and grows
    SpineFaults, \* whether the write of a spine entry may fail
    RetryDelete  \* whether a caller asks again for a delete that failed

ASSUME BatchAssumption ==
    /\ Absent \notin Values
    /\ MaxItems \in Nat \ {0} /\ Tries \in Nat \ {0}
    /\ Erases \in BOOLEAN /\ SpineFaults \in BOOLEAN /\ RetryDelete \in BOOLEAN

VARIABLES
    \* On the media
    head,     \* the map the committed head's index holds
    \* In memory
    index,    \* the map the session's index holds, the arena included
    held,     \* keys whose leaf is in the live set
    dirty,    \* Hamt::has_uncommitted
    \* The call under way
    pc,
    batch,    \* its operations
    i,        \* the operation apply_items is at
    pass,     \* 0 a delete; 1 the first pass, 2 the replay after an item that
              \* found no room, 3 the replay after a refused commit
    changed,  \* the pass changed something
    tries, grew,
    reply,    \* of the last call
    \* History, not in the code
    asOf      \* head and index when the call began, and the keys of the head it
              \* has zeroed since

store == <<head, index, held, dirty>>
ladder == <<tries, grew>>
progress == <<batch, i, pass, changed>>
vars == <<store, ladder, progress, pc, reply, asOf>>

Op == [key : Keys, value : Values \cup {Absent}]
Maps == [Keys -> Values \cup {Absent}]
Batches == UNION {[1 .. n -> Op] : n \in 1 .. MaxItems}

Nothing == [k \in Keys |-> Absent]
NoCall == [head |-> Nothing, index |-> Nothing, erased |-> {}]

Present(m) == {k \in Keys : m[k] # Absent}
Running == pc \notin {"idle", "down"}
AtItem == pc = "item" /\ i <= Len(batch)
Key == batch[i].key
Value == batch[i].value

(***************************************************************************)
(* The committed head and the arena.                                       *)
(***************************************************************************)
\* A commit lands: the head is the index.
Lands ==
    /\ head' = index
    /\ held' = Present(index)
    /\ dirty' = FALSE
    /\ UNCHANGED index

\* A barrier: the arena is gone, the index is the head's.
FromCommittedHead ==
    /\ index' = head
    /\ held' = Present(head)
    /\ dirty' = FALSE
    /\ UNCHANGED head

\* A barrier, and a rescue or a grow after it that failed.
RescueCut ==
    /\ index' = head
    /\ held' \in SUBSET Present(head)
    /\ dirty' \in BOOLEAN
    /\ UNCHANGED head

\* A window's moves are in the arena and not committed: the leaves moved are
\* no longer where the live set has them.
MovesStaged ==
    /\ held' \in SUBSET held
    /\ dirty' = TRUE
    /\ UNCHANGED <<head, index>>

\* The live set and the index took the delta, the spine did not get the entry.
SpineWriteFails ==
    /\ SpineFaults
    /\ held' = Present(index)
    /\ dirty' = FALSE
    /\ UNCHANGED <<head, index>>

\* A commit that ends in an error: an entry that failed to be written, or one
\* that landed before the fence could be read back.
CommitErrs == SpineWriteFails \/ Lands \/ UNCHANGED store

\* A flush has something to append, or is never refused.
MayRefuse == dirty

Ends(r) ==
    /\ pc' = "idle" /\ reply' = r
    /\ batch' = <<>> /\ i' = 0 /\ pass' = 0 /\ changed' = FALSE
    /\ tries' = 0 /\ grew' = FALSE
    /\ asOf' = NoCall

To(p) == pc' = p /\ UNCHANGED <<progress, reply, asOf>>

(***************************************************************************)
(* A call begins.                                                          *)
(***************************************************************************)
Begin(b, p) ==
    /\ pc = "idle"
    /\ pc' = "item" /\ reply' = "none"
    /\ batch' = b /\ i' = 1 /\ pass' = p /\ changed' = FALSE
    /\ asOf' = [head |-> head, index |-> index, erased |-> {}]
    /\ UNCHANGED <<store, ladder>>

\* A key a failed call left deleted in the arena and present in the head.
HalfDeleted(k) == index[k] = Absent /\ head[k] # Absent
Asks(b) ==
    RetryDelete \/ \A j \in DOMAIN b : b[j].value = Absent => ~HalfDeleted(b[j].key)

ApplyBatch(b) == Asks(b) /\ Begin(b, 1)
Delete(k) ==
    LET b == <<[key |-> k, value |-> Absent]>> IN Asks(b) /\ Begin(b, 0)

(***************************************************************************)
(* apply_items: every operation in order.                                  *)
(***************************************************************************)
\* Mutant: the session's value is compared, committed or not.
HoldsCommittedAny == index[Key] = Value

HoldsCommitted == Key \in held /\ index[Key] = Value

Puts == AtItem /\ Value # Absent /\ ~HoldsCommitted

SkipItem ==
    /\ AtItem
    /\ IF Value = Absent THEN index[Key] = Absent ELSE HoldsCommitted
    /\ i' = i + 1
    /\ UNCHANGED <<store, ladder, pc, batch, pass, changed, reply, asOf>>

\* Mutant: the rewritten leaf still counts as committed.
ItemLandsHeld ==
    /\ index' = [index EXCEPT ![Key] = Value]
    /\ dirty' = TRUE
    /\ i' = i + 1 /\ changed' = TRUE
    /\ tries' = 0 /\ grew' = FALSE
    /\ UNCHANGED <<held, pc, batch, pass, reply>>

ItemLands ==
    /\ index' = [index EXCEPT ![Key] = Value]
    /\ held' = held \ {Key}
    /\ dirty' = TRUE
    /\ i' = i + 1 /\ changed' = TRUE
    /\ tries' = 0 /\ grew' = FALSE
    /\ UNCHANGED <<pc, batch, pass, reply>>

Deletes == AtItem /\ Value = Absent /\ index[Key] # Absent

\* ZeroIsErase zeroes the blocks of the leaf on the media at once.  The head's
\* own leaf is the one the live set has, unless a spine write failed since, and
\* from here on the head answers Absent; a leaf of the arena is no part of it.
ZeroHead == [head EXCEPT ![Key] = Absent]
ZeroDelete ==
    /\ Erases
    /\ \/ Key \in held /\ index[Key] = head[Key] /\ head' = ZeroHead
       \/ (Key \in held => SpineFaults) /\ UNCHANGED head

\* Under UnlinkOnly the media stay as they are until the commit.
DeleteItem ==
    /\ Deletes
    /\ ZeroDelete \/ UNCHANGED head
    /\ asOf' = IF head' = head THEN asOf ELSE [asOf EXCEPT !.erased = @ \cup {Key}]
    /\ ItemLands

\* The delete ends in an error: with the leaf where it was and its removal in the
\* delta or not, or with a pointer to the zeroed leaf still in the index.
DeleteErrs ==
    /\ Deletes
    /\ \/ dirty' \in {dirty, TRUE} /\ UNCHANGED <<head, index, held>>
       \/ /\ ZeroDelete
          /\ index' = [index EXCEPT ![Key] = Absent]
          /\ held' = held \ {Key}
          /\ dirty' = TRUE
    /\ Ends("err")

PutLands == Puts /\ tries < Tries /\ ItemLands /\ UNCHANGED <<head, asOf>>

\* Mutant: the replay goes on from the operation that found no room.
ReplayFromItem(p) ==
    /\ pc' = "item" /\ i' = i /\ pass' = p /\ changed' = TRUE
    /\ tries' = 0 /\ grew' = FALSE
    /\ UNCHANGED <<batch, reply, asOf>>

Replay(p) ==
    /\ pc' = "item" /\ i' = 1 /\ pass' = p /\ changed' = TRUE
    /\ tries' = 0 /\ grew' = FALSE
    /\ UNCHANGED <<batch, reply, asOf>>

\* An item that cannot land without discarding earlier ones: on the first
\* pass grow, which drops the arena, and replay the batch.
ItemsFull ==
    \/ pass = 1 /\ FromCommittedHead /\ Replay(2)
    \/ pass = 1 /\ FromCommittedHead /\ Ends("err")
    \/ UNCHANGED store /\ Ends("err")

(***************************************************************************)
(* put_no_commit: the ladder of one put.                                   *)
(***************************************************************************)
\* Mutant: one attempt too many.
PutFencedOneMore ==
    /\ Puts /\ tries <= Tries
    /\ tries' = tries + 1
    /\ To("fenced")
    /\ UNCHANGED <<store, grew>>

PutFenced ==
    /\ Puts /\ tries < Tries
    /\ tries' = tries + 1
    /\ To("fenced")
    /\ UNCHANGED <<store, grew>>

PutFull ==
    /\ Puts /\ tries < Tries
    /\ tries' = tries + 1
    /\ To("full")
    /\ UNCHANGED <<store, grew>>

PutErrs == Puts /\ UNCHANGED store /\ Ends("err")

\* The commit that slides the fence: every error of it but Fenced is ignored,
\* and a fenced one has work in the arena the rollback may not discard.
LadderCommit ==
    /\ pc = "fenced"
    /\ \/ CommitErrs /\ To("item") /\ UNCHANGED ladder
       \/ MayRefuse /\ ItemsFull

\* One window and its retiring commit, with a commit before it when the fence
\* is tight; or no window possible; or no room for its survivors.
LadderReap ==
    /\ pc = "full"
    /\ \/ Lands /\ To("item") /\ UNCHANGED ladder
       \/ (Lands \/ UNCHANGED store) /\ To("rollback") /\ UNCHANGED ladder
       \/ ItemsFull
       \/ (MovesStaged \/ CommitErrs) /\ Ends("err")

\* Mutant: the arena is dropped for the rescue, earlier entries and all.
RollbackToHeadAlways ==
    /\ pc = "rollback"
    /\ FromCommittedHead
    /\ To("rescue")
    /\ UNCHANGED ladder

\* Uncommitted work lands first; a commit that cannot land surfaces TractFull.
RollbackToHead ==
    /\ pc = "rollback"
    /\ \/ (IF dirty THEN Lands ELSE FromCommittedHead)
          /\ To("rescue") /\ UNCHANGED ladder
       \/ MayRefuse /\ ItemsFull
       \/ dirty /\ CommitErrs /\ Ends("err")

\* Mutant: the ladder grows over uncommitted entries.
GrowInLadderAlways == ~grew /\ FromCommittedHead

GrowInLadder == ~grew /\ ~dirty /\ FromCommittedHead

LadderRescue ==
    /\ pc = "rescue"
    /\ \/ Lands /\ To("item") /\ UNCHANGED ladder
       \/ GrowInLadder /\ grew' = TRUE /\ To("item") /\ UNCHANGED tries
       \/ ItemsFull
       \/ (MovesStaged \/ CommitErrs) /\ Ends("err")

\* Mutant: every full round of attempts grows once more.
PutExhaustedForever ==
    /\ Puts /\ tries = Tries
    /\ \/ ~dirty /\ FromCommittedHead /\ grew' = TRUE /\ tries' = 0 /\ To("item")
       \/ dirty /\ ItemsFull

PutExhausted ==
    /\ Puts /\ tries = Tries
    /\ \/ GrowInLadder /\ grew' = TRUE /\ tries' = 0 /\ To("item")
       \/ ~grew /\ ~dirty /\ Ends("err") /\ UNCHANGED store
       \/ (grew \/ dirty) /\ ItemsFull

(***************************************************************************)
(* The end of the call.                                                    *)
(***************************************************************************)
ItemsDone ==
    /\ pc = "item" /\ i > Len(batch)
    /\ UNCHANGED store
    /\ IF changed THEN To("commit") /\ UNCHANGED ladder ELSE Ends("ok")

\* Refused for room, the arena is dropped (grow, or the batch's rescue) and the
\* batch replayed, once; refused again, or for a delete, the caller hears it.
FinalCommit ==
    /\ pc = "commit"
    /\ \/ Lands /\ To("reap") /\ UNCHANGED ladder
       \/ MayRefuse /\ pass \in {1, 2} /\ FromCommittedHead /\ Replay(3)
       \/ MayRefuse /\ pass \in {1, 2} /\ RescueCut /\ Ends("err")
       \/ CommitErrs /\ Ends("err")

MaybeReap ==
    /\ pc = "reap"
    /\ \/ (UNCHANGED store \/ Lands) /\ Ends("ok")
       \/ (MovesStaged \/ CommitErrs) /\ Ends("err")

(***************************************************************************)
(* Between calls: the public commit, reap and reclaim_ahead land what a    *)
(* failed call left in the arena; grow drops it.                           *)
(***************************************************************************)
IdleCommit ==
    /\ pc = "idle" /\ dirty
    /\ Lands \/ SpineWriteFails
    /\ UNCHANGED <<ladder, progress, pc, reply, asOf>>

IdleGrow ==
    /\ pc = "idle" /\ dirty
    /\ FromCommittedHead
    /\ UNCHANGED <<ladder, progress, pc, reply, asOf>>

PowerCut ==
    /\ pc # "down"
    /\ FromCommittedHead
    /\ pc' = "down" /\ reply' = "none"
    /\ batch' = <<>> /\ i' = 0 /\ pass' = 0 /\ changed' = FALSE
    /\ tries' = 0 /\ grew' = FALSE
    /\ asOf' = NoCall

Open ==
    /\ pc = "down"
    /\ pc' = "idle"
    /\ UNCHANGED <<store, ladder, progress, reply, asOf>>

Init ==
    /\ head = Nothing /\ index = Nothing /\ held = {} /\ dirty = FALSE
    /\ pc = "idle" /\ batch = <<>> /\ i = 0 /\ pass = 0 /\ changed = FALSE
    /\ tries = 0 /\ grew = FALSE
    /\ reply = "none"
    /\ asOf = NoCall

CallStep ==
    \/ SkipItem
    \/ DeleteItem
    \/ DeleteErrs
    \/ PutLands
    \/ PutFenced
    \/ PutFull
    \/ PutErrs
    \/ LadderCommit
    \/ LadderReap
    \/ RollbackToHead
    \/ LadderRescue
    \/ PutExhausted
    \/ ItemsDone
    \/ FinalCommit
    \/ MaybeReap

Next ==
    \/ \E b \in Batches : ApplyBatch(b)
    \/ \E k \in Keys : Delete(k)
    \/ CallStep
    \/ IdleCommit
    \/ IdleGrow
    \/ PowerCut
    \/ Open

Spec == Init /\ [][Next]_vars
FairSpec == Spec /\ WF_vars(CallStep)

(***************************************************************************)
(* Properties.                                                             *)
(***************************************************************************)
\* Types; the call's counters are set only while one runs.
TypeOK ==
    /\ head \in Maps /\ index \in Maps
    /\ held \subseteq Keys /\ dirty \in BOOLEAN
    /\ pc \in {"down", "idle", "item", "fenced", "full", "rollback", "rescue",
               "commit", "reap"}
    /\ batch \in Batches \cup {<<>>}
    /\ i \in 0 .. (Len(batch) + 1)
    /\ pass \in 0 .. 3
    /\ changed \in BOOLEAN
    /\ tries \in 0 .. Tries /\ grew \in BOOLEAN
    /\ reply \in {"none", "ok", "err"}
    /\ asOf \in [head : Maps, index : Maps, erased : SUBSET Keys]
    /\ ~Running => batch = <<>> /\ i = 0 /\ pass = 0
    /\ Running => batch # <<>> /\ i > 0

\* The vault keeps its promise to the caller: a call acknowledged is on the
\* media whole, a key nobody is writing never changes, and no ladder, barrier,
\* replay or power cut puts anything there that was not asked for
\* (Vault::apply_batch, Vault::delete).
Loose ==
    [k \in Keys |->
        (IF index[k] = head[k] THEN {} ELSE {index[k]})
            \cup {batch[j].value : j \in {j \in DOMAIN batch : batch[j].key = k}}]
Promise == INSTANCE KV WITH stored <- head, loose <- Loose, call <- batch
KeepsPromise == Promise!Spec

\* What the skip trusts: a leaf the live set holds is the head's value, so an
\* identical put may return without a commit (Vault::holds_committed).
HeldIsCommitted == \A k \in held : index[k] = head[k] /\ index[k] # Absent

\* No rescue, grow or rollback inside the ladder loses an operation the pass
\* has already been through (Vault::rollback_to_head, Vault::grow_in_ladder).
EarlierItemsKept ==
    Running =>
        \A k \in Keys :
            LET ops == {j \in 1 .. (i - 1) : batch[j].key = k}
            IN  ops # {} => \E j \in ops : /\ index[k] = batch[j].value
                                           /\ \A l \in ops : l <= j

\* v is the value of k after the first n operations of the batch over the map b.
AppliedTo(k, b, n, v) ==
    LET ops == {j \in 1 .. n : batch[j].key = k}
    IN  IF ops = {} THEN v = b[k]
        ELSE \E j \in ops : v = batch[j].value /\ \A l \in ops : l <= j

\* m is the map b after the first n operations, but for the keys in gone.
Applied(b, n, m, gone) ==
    \A k \in Keys : AppliedTo(k, b, n, m[k]) \/ (k \in gone /\ m[k] = Absent)

\* Early commits land a prefix of the batch, never a later operation without
\* an earlier one, when no key comes twice.  A delete that zeroed the head's own
\* leaf is the exception: its key is gone from the media before anything of the
\* batch has landed (Vault::apply_batch, its order; Hamt::delete).
DistinctKeys ==
    \A j, l \in DOMAIN batch : batch[j].key = batch[l].key => j = l
LandsInOrder ==
    DistinctKeys /\ Running =>
        \E n \in 0 .. Len(batch), b \in {asOf.head, asOf.index} :
            Applied(b, n, head, asOf.erased)

\* Every call ends: the ladder is bounded, growth happens once a put and the
\* batch is replayed at most twice (Vault::put_no_commit, Vault::apply_batch).
CallReturns == Running ~> ~Running
=============================================================================
