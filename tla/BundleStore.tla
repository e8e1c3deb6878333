----------------------------- MODULE BundleStore -----------------------------
(***************************************************************************)
(* What a place for one bundle promises to whoever looks at it: a bundle is  *)
(* there whole or not at all, one that is there is not replaced, and one     *)
(* that a call has reported as written is there for good, even after the      *)
(* power was lost.                                                          *)
(***************************************************************************)
CONSTANT Writer     \* calls of write() for the place

VARIABLES
    shown,      \* the calls whose bundle is in the place: one at most
    broken,     \* those of them whose bundle is not whole
    reported    \* the calls that returned the path

vars == <<shown, broken, reported>>

Init == shown = {} /\ broken = {} /\ reported = {}

Publish(w) ==
    /\ shown = {}
    /\ shown' = {w}
    /\ UNCHANGED <<broken, reported>>

Report(w) ==
    /\ w \in shown
    /\ reported' = reported \cup {w}
    /\ UNCHANGED <<shown, broken>>

\* Only what nobody was told of can be lost.
Lose ==
    /\ reported = {}
    /\ shown' = {}
    /\ UNCHANGED <<broken, reported>>

Next == (\E w \in Writer : Publish(w) \/ Report(w)) \/ Lose

Spec == Init /\ [][Next]_vars
=============================================================================
