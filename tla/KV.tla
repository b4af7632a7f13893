--------------------------------- MODULE KV ---------------------------------
(***************************************************************************)
(* What the vault promises whoever calls put, put_batch, apply_batch and   *)
(* delete (vault.rs), with no index, no tract and no generations: a map    *)
(* that survives power loss, one call at a time, and for every key the     *)
(* values a call not acknowledged yet, or one that failed, may still bring *)
(* to the media.                                                           *)
(***************************************************************************)
EXTENDS Naturals, Sequences

CONSTANTS
    Keys,
    Values,
    Absent   \* no value: what a key without one reads as

VARIABLES
    stored,  \* the map on the media
    loose,   \* key -> values not acknowledged that may still be stored
    call,    \* the operations of the call under way, <<>> with none
    reply    \* of the last call: "none", "ok" or "err"

vars == <<stored, loose, call, reply>>

Maps == [Keys -> Values \cup {Absent}]
Op == [key : Keys, value : Values \cup {Absent}]   \* Absent deletes

OpsOn(b, k) == {j \in DOMAIN b : b[j].key = k}
Touched(b) == {b[j].key : j \in DOMAIN b}
Asked(b, k) == {b[j].value : j \in OpsOn(b, k)}

\* The value the last operation on k asks for.
LastAsked(b, k, v) ==
    \E j \in OpsOn(b, k) : b[j].value = v /\ \A l \in OpsOn(b, k) : l <= j

Init ==
    /\ stored = [k \in Keys |-> Absent]
    /\ loose = [k \in Keys |-> {}]
    /\ call = <<>>
    /\ reply = "none"

Fewer(keep) ==
    /\ DOMAIN loose' = Keys
    /\ \A k \in Keys : loose'[k] \subseteq loose[k] /\ keep[k] \subseteq loose'[k]

Call(b) ==
    /\ call = <<>> /\ b # <<>>
    /\ call' = b
    /\ reply' = "none"
    /\ loose' = [k \in Keys |-> loose[k] \cup Asked(b, k)]
    /\ UNCHANGED stored

\* Some of what was asked for reaches the media; some of what failed is
\* given up.
Stores ==
    /\ stored' \in Maps
    /\ \A k \in Keys : stored'[k] \in {stored[k]} \cup loose[k]

Land ==
    /\ Stores
    /\ Fewer([k \in Keys |-> Asked(call, k)])
    /\ UNCHANGED <<call, reply>>

\* Everything asked for is on the media, and no earlier call can undo it.
Succeed ==
    /\ call # <<>>
    /\ \A k \in Touched(call) : LastAsked(call, k, stored[k]) /\ loose'[k] = {}
    /\ Fewer([k \in Keys |-> {}])
    /\ call' = <<>>
    /\ reply' = "ok"
    /\ UNCHANGED stored

\* An error says nothing of what was stored.
Fail ==
    /\ call # <<>>
    /\ Stores
    /\ Fewer([k \in Keys |-> {}])
    /\ call' = <<>>
    /\ reply' = "err"

PowerCut ==
    /\ loose' = [k \in Keys |-> {}]
    /\ call' = <<>>
    /\ reply' = "none"
    /\ UNCHANGED stored

Next ==
    \/ Call(call')
    \/ Land
    \/ Succeed
    \/ Fail
    \/ PowerCut

Spec == Init /\ [][Next]_vars
=============================================================================
