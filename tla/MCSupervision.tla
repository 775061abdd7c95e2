--------------------------- MODULE MCSupervision ---------------------------
(* A small instance of Supervision for TLC: the later candidate knows a format the earlier does not. *)
EXTENDS SupervisionProperties, TLC

CONSTANTS old, new, fmt

OldAndNew == (old :> {}) @@ (new :> {fmt})

Symmetry == Permutations(Pids)
=============================================================================
