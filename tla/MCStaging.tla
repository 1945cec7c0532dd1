------------------------------ MODULE MCStaging ------------------------------
(* A small instance of Staging for TLC. *)
EXTENDS Staging, TLC

CONSTANTS f1, f2

\* Two files fit together by count but not twice the larger by bytes.
MCSizeOf == f1 :> 1 @@ f2 :> 2

Symmetry == Permutations(Refs) \cup Permutations(Callers)
=============================================================================
