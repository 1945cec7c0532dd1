---------------------------- MODULE MCRelationships ----------------------------
(* Small instances of Relationships for TLC. *)
EXTENDS Relationships, TLC

CONSTANTS w1, w2, w3, s1, s2

\* Two writers share a store, the third has one of its own.
MCStoreOf == w1 :> s1 @@ w2 :> s1 @@ w3 :> s2

Symmetry == Permutations(Ids) \cup Permutations(Roles) \cup Permutations({w1, w2})
=============================================================================
