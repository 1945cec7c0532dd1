------------------------------- MODULE Contexts -------------------------------
(***************************************************************************)
(* The dataset context in the row of an analysis: what the operations of   *)
(* analysis/service.py make of it, and how replace (persistence/store.py)  *)
(* writes a changed copy of the row over the row that is stored.  Rows are *)
(* records with at least the fields context, version and finalized; of the *)
(* context itself only who supplied it and which changes of clients it has *)
(* are told apart.                                                         *)
(***************************************************************************)
EXTENDS Naturals

NoContext == [source |-> "none", edits |-> {}]

\* Analysis.__post_init__ raises for any other row, in every read of it.
IsReadable(r) ==
    /\ r.context = NoContext <=> r.version = 0
    /\ r.finalized => r.context # NoContext

\* get_or_infer_context, of a row without a context.
InferContext(old) == [old EXCEPT !.context.source = "inferred", !.version = 1]

\* apply_ai_context_augmentation: the whole context is replaced, and the
\* version stays.
AugmentContext(old) ==
    [old EXCEPT !.context = [source |-> "model", edits |-> {}]]

\* Mutation: an edit does not count.
ConfirmUncounted(old, new) == [old EXCEPT !.context.edits = @ \cup {new}]

ConfirmFields(old, new) ==
    [old EXCEPT !.context.edits = @ \cup {new}, !.version = @ + 1]

FinalizeContext(old) == [old EXCEPT !.finalized = TRUE]

\* What an update leaves in a column: it writes those that it changes.
Column(new, base, old) == IF new # base THEN new ELSE old

\* Mutation: the count is among the columns replace writes.
MergedAll(new, base, old) ==
    [c \in DOMAIN old |-> Column(new[c], base[c], old[c])]

\* Every column is merged but the count of model calls, which replace never
\* writes (_SEPARATELY_OWNED_COLUMNS).
Merged(new, base, old) ==
    [c \in DOMAIN old |-> IF c = "count" THEN old[c]
                          ELSE Column(new[c], base[c], old[c])]
=============================================================================
