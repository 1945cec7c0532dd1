-------------------------- MODULE RelationshipHistory --------------------------
(***************************************************************************)
(* What the confirmed relationships of an analysis promise: each has a     *)
(* history that only grows at its end, a withdrawal ends it, and all of    *)
(* them end with the analysis (domain/confirmed_relationship.py).          *)
(***************************************************************************)
EXTENDS Sequences

CONSTANTS Relationships, Roles, Withdrawn

VARIABLES exists, history

Init ==
    /\ exists = TRUE
    /\ history = [i \in Relationships |-> <<>>]

Ended(i) == history[i] # <<>> /\ history[i][Len(history[i])] = Withdrawn

\* The history of i grows by x, and no other history changes.
Grows(i, x) ==
    /\ history'[i] = Append(history[i], x)
    /\ \A j \in Relationships \ {i} : history'[j] = history[j]

Confirm(i)  == history[i] = <<>> /\ \E r \in Roles : Grows(i, r)
Replace(i)  == history[i] # <<>> /\ ~ Ended(i) /\ \E r \in Roles : Grows(i, r)
Withdraw(i) == history[i] # <<>> /\ ~ Ended(i) /\ Grows(i, Withdrawn)

Delete ==
    /\ exists' = FALSE
    /\ history' = [i \in Relationships |-> <<>>]

Next ==
    /\ exists
    /\ \/ \E i \in Relationships :
              (Confirm(i) \/ Replace(i) \/ Withdraw(i)) /\ UNCHANGED exists
       \/ Delete

Spec == Init /\ [][Next]_<<exists, history>>
=============================================================================
