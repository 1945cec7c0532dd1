--------------------------- MODULE OneTimeReference ---------------------------
(***************************************************************************)
(* What a staging reference promises to the client that holds it           *)
(* (persistence/staging_store.py, api/v1/staged_uploads.py): it stands for *)
(* one stored file, it can be exchanged at most once for one analysis, and *)
(* once spent, discarded or expired it stays worthless.                    *)
(***************************************************************************)
EXTENDS Naturals

CONSTANT Refs   \* the references (256 random bits: never drawn twice)

VARIABLES
    status,     \* [Refs -> Statuses]
    analyses    \* [Refs -> Nat]: analyses started from each reference

\* "taken": one Run owns the file and the store no longer has it.
Statuses == {"fresh", "held", "taken", "used", "gone"}

Init ==
    /\ status = [r \in Refs |-> "fresh"]
    /\ analyses = [r \in Refs |-> 0]

Moves(r, from, to) ==
    /\ status[r] = from
    /\ status' = [status EXCEPT ![r] = to]

Stage(r) == Moves(r, "fresh", "held") /\ UNCHANGED analyses
Take(r)  == Moves(r, "held", "taken") /\ UNCHANGED analyses

Start(r) ==
    /\ Moves(r, "taken", "used")
    /\ analyses' = [analyses EXCEPT ![r] = @ + 1]

\* Discarded, expired, found damaged, or taken by a Run that failed.
Lose(R) ==
    /\ R # {}
    /\ \A r \in R : status[r] \in {"held", "taken"}
    /\ status' = [r \in Refs |-> IF r \in R THEN "gone" ELSE status[r]]
    /\ UNCHANGED analyses

Next ==
    \/ \E r \in Refs : Stage(r) \/ Take(r) \/ Start(r)
    \/ \E R \in SUBSET Refs : Lose(R)

Spec == Init /\ [][Next]_<<status, analyses>>
=============================================================================
