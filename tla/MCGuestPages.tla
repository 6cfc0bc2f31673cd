---------------------------- MODULE MCGuestPages ----------------------------
(* Small instances of GuestPages for TLC. *)
EXTENDS GuestPages, TLC

(* All entries of a new table name one frame, of whichever guest. *)
OneFrame == {[p \in Ram |-> IF p = 1 THEN f ELSE None] : f \in Frame}

Symmetry == Permutations(Mon) \cup Permutations(Frame \ High)
=============================================================================
