----------------------------- MODULE MCFleetHub -----------------------------
(***************************************************************************)
(* Small instances of FleetHub.                                            *)
(***************************************************************************)
EXTENDS FleetHub, TLC

Symmetry == Permutations(Boats) \cup Permutations(Listeners)
=============================================================================
