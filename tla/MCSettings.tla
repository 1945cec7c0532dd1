------------------------------ MODULE MCSettings ------------------------------
(* A small instance of Settings for TLC: two clients, two processes, and an  *)
(* installation that leaves the setting to its users with a runtime on this  *)
(* machine and elsewhere, or sets it itself.                                 *)
EXTENDS Settings, TLC

Own(provider) == [override |-> TRUE, provider |-> provider, model |-> "named",
                  here |-> FALSE]
Users(here)   == [override |-> FALSE, provider |-> "disabled",
                  model |-> "named", here |-> here]

MCInstalled == {Users(TRUE), Users(FALSE), Own("mock")}

Symmetry == Permutations(Clients) \cup Permutations(Stores)
=============================================================================
