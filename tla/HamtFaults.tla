----------------------------- MODULE HamtFaults -----------------------------
(***************************************************************************)
(* The index with callers and devices that go on after an error: a settle  *)
(* asked for again after it met a corrupt block, and a delete whose reads  *)
(* fail half way.                                                          *)
(***************************************************************************)
EXTENDS MCHamt

CONSTANT Faults   \* which of "settle" and "delete" happen

\* Every write settles first: a caller that tries another write calls
\* settle_step again, on the work list the failed step left behind.
SettleAgain ==
    /\ "settle" \in Faults
    /\ pc = "idle" /\ work.failed
    /\ work' = [work EXCEPT !.failed = FALSE]
    /\ UNCHANGED <<tract, head, index, space, pc, ghosts, ops>>

\* remove_leaf_blocks records the leaf, then fails to read a furrow: delete
\* returns the error and the delta keeps what it recorded.
DeleteErrs(k) ==
    LET leaf == FindLeaf(mem, k)
    IN  /\ "delete" \in Faults
        /\ Idle /\ Op
        /\ Kind(leaf) = "extent"
        /\ \E n \in 0 .. (Len(FurrowsOf(leaf)) - 1) :
            delta' = [delta EXCEPT !.removed =
                        @ \cup {leaf} \cup ToSet(SubSeq(FurrowsOf(leaf), 1, n))]
        /\ UNCHANGED <<tract, head, mem, space, pc, work, ghosts>>

FaultNext == Next \/ SettleAgain \/ \E k \in Keys : DeleteErrs(k)

FaultSpec == (Init \/ Loaded) /\ [][FaultNext]_vars
=============================================================================
