---------------------------- MODULE VaultFaults ----------------------------
(***************************************************************************)
(* The vault with what its ordinary specification leaves out: write errors *)
(* of the primary device at a commit, which the code surfaces to its       *)
(* caller and which leave the session running.                             *)
(***************************************************************************)
EXTENDS Vault

\* ring.append fails.  The live set, the reap cursor and the arena are already
\* the new ones, the head is still the old one, and Mirror::drain has let go of
\* what was staged, whatever part of it landed.
WriteFails(landed) ==
    /\ phase = "flush" /\ dirty = 0
    /\ live' = LiveSetApply
    /\ added' = {} /\ removed' = {}
    /\ reap' = RetiredReap
    /\ pendingReap' = None
    /\ gens' = Written(gens, landed)
    /\ dropped' = dropped \cup (staged \ landed)
    /\ staged' = {}
    /\ phase' = "idle"
    /\ items' = 0
    /\ UNCHANGED <<head, plow, len, fence, dirty, attempts, unfenced>>

\* The staged batch fails, or it lands and the spine entry after it fails.
DrainFails == \E landed \in SUBSET staged : WriteFails(landed)

DrainFaultSpec == Init /\ [][Next \/ DrainFails]_vars

\* mirror.rs: a spine entry still lands only after everything it can reference
\* is verified on media.
CommittedOnMedia == gens[head].refs \cap dropped = {}
=============================================================================
