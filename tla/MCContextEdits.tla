---------------------------- MODULE MCContextEdits ----------------------------
(* Small instances of ContextEdits for TLC. *)
EXTENDS ContextEdits, TLC

Symmetry == Permutations(Threads)
=============================================================================
