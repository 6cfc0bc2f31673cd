----------------------------- MODULE MCOpenDesc -----------------------------
(* Small instances of OpenDesc for TLC. *)
EXTENDS OpenDesc, TLC

Symmetry == Permutations(Desc)
=============================================================================
