--------------------------- MODULE MCLinuxMessages ---------------------------
(* Small instances of LinuxMessages for TLC. *)
EXTENDS LinuxMessages, TLC

Symmetry == Permutations(Producer)
=============================================================================
