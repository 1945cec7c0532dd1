----------------------------- MODULE ContextEdits -----------------------------
(***************************************************************************)
(* What clients change in one completed analysis: its dataset context      *)
(* (inferred on the first read, refined once by a model, edited, answered  *)
(* and finalized), its reviews and its validation rules (analysis/service  *)
(* .py and the routes of api/v1/analyses.py), and the count of model calls *)
(* that shares the row and is written apart (persistence/store.py).        *)
(*                                                                         *)
(* Every such request reads the whole row, computes, and gives the whole   *)
(* row to replace, which loads it again and then updates the columns that  *)
(* differ from what it loaded.  SQLite begins a transaction with the first *)
(* change, so the load and the update are two accesses, and another        *)
(* request may write between them.  A step is one access to the row.       *)
(***************************************************************************)
EXTENDS Naturals, FiniteSets, Contexts

CONSTANTS
    Threads,      \* the threads that serve requests
    MaxChanges    \* bound: how many changes clients submit in all

ASSUME MaxChangesIsNatural == MaxChanges \in Nat

VARIABLES
    row,          \* the row, or Gone once it is deleted
    thread,       \* [Threads -> what a request has in hand]
    changes,      \* how many changes have been submitted: names the next
    calls,        \* history: model calls that may have been sent
    recorded,     \* history: calls recorded while the analysis existed
    torn,         \* history: an update met a row other than the one loaded
    deleted       \* history: a client has deleted the analysis

history == <<calls, recorded, torn, deleted>>
vars == <<row, thread, changes, history>>

Changes == 1 .. MaxChanges
NoChange == 0

\* context: who supplied it and the changes of its fields, by PUT or by an
\* answer; answered: the questions marked as answered, by the change that
\* did; count: attempt_count of ai_enrichment.
Rows == [context : [source : {"none", "inferred", "model"},
                    edits : SUBSET Changes],
         version : Nat, answered : SUBSET Changes, finalized : BOOLEAN,
         rules : SUBSET Changes, review : Changes \cup {NoChange},
         count : Nat]

Fresh == [context |-> NoContext, version |-> 0, answered |-> {},
          finalized |-> FALSE, rules |-> {}, review |-> NoChange, count |-> 0]

Gone == [Fresh EXCEPT !.context.source = "gone"]

Edits      == {"put", "answer", "finalize"}
RowChanges == {"review", "create_rule", "test_rule", "delete_rule"}
Reads      == {"context", "questions"}
Ops        == Edits \cup RowChanges \cup Reads

Readable(r) == r # Gone /\ IsReadable(r)

\* copy: the row as the request has read it, then as it wants it.  base: the
\* row replace has loaded.  first: the request found no context.  change: the
\* name of what it changes, NoChange for a read.
IdleThread == [pc |-> "idle", op |-> "context", copy |-> Gone, base |-> Gone,
               first |-> FALSE, change |-> NoChange]

PCs == {"idle", "get", "infer", "infer_write", "infer_update", "call",
        "augment", "augment_write", "augment_update", "record", "read",
        "write", "update"}

Init ==
    /\ row = Fresh
    /\ thread = [t \in Threads |-> IdleThread]
    /\ changes = 0
    /\ calls = 0
    /\ recorded = 0
    /\ torn = FALSE
    /\ deleted = FALSE

Goes(t, pc) ==
    thread' = [thread EXCEPT ![t].pc = pc, ![t].copy = Gone, ![t].base = Gone]
Copies(t, pc) == thread' = [thread EXCEPT ![t].pc = pc, ![t].copy = row]
Ends(t)       == thread' = [thread EXCEPT ![t] = IdleThread]
OnlyThread    == UNCHANGED <<row, changes, history>>

\* A step that needs the row, and goes on to pc with a copy of it.
ReadsRow(t, pc) == IF Readable(row) THEN Copies(t, pc) ELSE Ends(t)

\* SqlAnalysisStore.replace, first access: the row is loaded, if it is there.
Load(t, new, pc) ==
    thread' = [thread EXCEPT ![t].pc = pc, ![t].copy = new, ![t].base = row]

\* Mutation: a row that is gone is inserted.
UpdateOrInsert(t) ==
    row' = Merged(thread[t].copy, thread[t].base,
                  IF row = Gone THEN thread[t].base ELSE row)

\* SqlAnalysisStore.replace, second access: nothing is written if the row was
\* not there, or has been deleted since (StaleDataError).
Update(t) ==
    row' = IF row = Gone \/ thread[t].base = Gone THEN row
           ELSE Merged(thread[t].copy, thread[t].base, row)

\* The count may change under an update: it is not one of its columns.
SameButCount(r, q) == [r EXCEPT !.count = 0] = [q EXCEPT !.count = 0]
-----------------------------------------------------------------------------
\* A request arrives.  Changes are named in the order they arrive.
Arrive(t, op) ==
    /\ thread[t].pc = "idle"
    /\ op \notin Reads => changes < MaxChanges
    /\ changes' = IF op \in Reads THEN changes ELSE changes + 1
    /\ thread' = [thread EXCEPT ![t] =
           [IdleThread EXCEPT !.op = op,
               !.pc = CASE op = "context" -> "get"
                        [] op \in Edits \cup {"questions"} -> "infer"
                        [] op \in RowChanges -> "read",
               !.change = IF op \in Reads THEN NoChange ELSE changes + 1]]
    /\ UNCHANGED <<row, history>>

\* GET .../context looks, before it infers, whether it will be the first.
Get(t) ==
    /\ thread[t].pc = "get"
    /\ IF Readable(row)
       THEN thread' = [thread EXCEPT ![t].pc = "infer",
                                     ![t].first = row.context = NoContext]
       ELSE Ends(t)
    /\ OnlyThread

\* Mutation: every GET asks the model, not the first alone.
AfterInferAlways(t) ==
    IF thread[t].op \in Edits THEN {"read"}
    ELSE IF thread[t].op = "context" THEN {"call", "idle"}
    ELSE {"idle"}

\* What follows get_or_infer_context: the model call if GET was the first and
\* AI is enabled, the version check of an edit, or the reply.
AfterInfer(t) ==
    IF thread[t].op \in Edits THEN {"read"}
    ELSE IF thread[t].op = "context" /\ thread[t].first THEN {"call", "idle"}
    ELSE {"idle"}

Continue(t, pc) == IF pc = "idle" THEN Ends(t) ELSE Goes(t, pc)

\* get_or_infer_context: the read.
Infer(t) ==
    /\ thread[t].pc = "infer"
    /\ IF ~ Readable(row) THEN Ends(t)
       ELSE IF row.context = NoContext THEN Copies(t, "infer_write")
       ELSE \E pc \in AfterInfer(t) : Continue(t, pc)
    /\ OnlyThread

\* get_or_infer_context: the write of the inferred context, version 1.
InferWrite(t) ==
    /\ thread[t].pc = "infer_write"
    /\ Load(t, InferContext(thread[t].copy), "infer_update")
    /\ OnlyThread

\* An update that meets another row than the one it loaded is torn.
Updates(t) ==
    /\ Update(t)
    /\ torn' = (torn \/ /\ row # Gone /\ thread[t].base # Gone
                        /\ ~ SameButCount(row, thread[t].base))
    /\ UNCHANGED <<changes, calls, recorded, deleted>>

InferUpdate(t) ==
    /\ thread[t].pc = "infer_update"
    /\ Updates(t)
    /\ \E pc \in AfterInfer(t) : Continue(t, pc)

\* The model call, if the row is still there to be read.  Accepted: its
\* context is to be stored.  Otherwise, or when nothing could be built or
\* sent, only the attempt is recorded.
Call(t) ==
    /\ thread[t].pc = "call"
    /\ \/ \E pc \in {"augment", "record"} : Goes(t, pc) /\ calls' = calls + 1
       \/ Goes(t, "record") /\ UNCHANGED calls
       \/ ~ Readable(row) /\ Ends(t) /\ UNCHANGED calls
    /\ UNCHANGED <<row, changes, recorded, torn, deleted>>

\* Mutation: the model's context is stored whatever happened meanwhile.
AugmentAnyVersion(t) ==
    /\ thread[t].pc = "augment"
    /\ ReadsRow(t, "augment_write")
    /\ OnlyThread

\* apply_ai_context_augmentation: refused with a ValueError once a client
\* has edited or finalized the context, and a 404 once it is deleted.
Augment(t) ==
    /\ thread[t].pc = "augment"
    /\ IF row.version = 1 /\ ~ row.finalized
       THEN ReadsRow(t, "augment_write") ELSE Ends(t)
    /\ OnlyThread

\* The model's context takes the place of the whole context.
AugmentWrite(t) ==
    /\ thread[t].pc = "augment_write"
    /\ Load(t, AugmentContext(thread[t].copy), "augment_update")
    /\ OnlyThread

\* The route reads the row once more before it records the call.
AugmentUpdate(t) ==
    /\ thread[t].pc = "augment_update"
    /\ Updates(t)
    /\ IF Readable(row') THEN Goes(t, "record") ELSE Ends(t)

\* record_ai_enrichment_call, through update_ai_enrichment.
Record(t) ==
    /\ thread[t].pc = "record"
    /\ IF row = Gone THEN UNCHANGED <<row, recorded>>
       ELSE /\ row' = [row EXCEPT !.count = @ + 1]
            /\ recorded' = recorded + 1
    /\ Ends(t)
    /\ UNCHANGED <<changes, calls, torn, deleted>>

\* The read an edit, a review or a rule works from.  An edit whose
\* expected_version is not this one is refused, or fails should the context
\* have gone again; so is one of a rule that is not there.
Read(t) ==
    /\ thread[t].pc = "read"
    /\ \/ Ends(t)
       \/ /\ Readable(row)
          /\ thread[t].op \in Edits => row.context # NoContext
          /\ thread[t].op \in {"test_rule", "delete_rule"} => row.rules # {}
          /\ Copies(t, "write")
    /\ OnlyThread

\* What each change makes of the copy the request has read.
AnswerQuestion(old, new) ==
    [ConfirmFields(old, new) EXCEPT !.answered = @ \cup {new}]
SetReview(old, new)  == [old EXCEPT !.review = new]
CreateRule(old, new) == [old EXCEPT !.rules = @ \cup {new}]
ExecuteRule(old)     == old   \* only the result of the rule is refreshed
DeleteRule(old, r)   == [old EXCEPT !.rules = @ \ {r}]

\* The rows a request may write: which rule it deletes is the client's choice.
Changed(t) ==
    LET old == thread[t].copy
        new == thread[t].change IN
    CASE thread[t].op = "put"         -> {ConfirmFields(old, new)}
      [] thread[t].op = "answer"      -> {AnswerQuestion(old, new)}
      [] thread[t].op = "finalize"    -> {FinalizeContext(old)}
      [] thread[t].op = "review"      -> {SetReview(old, new)}
      [] thread[t].op = "create_rule" -> {CreateRule(old, new)}
      [] thread[t].op = "test_rule"   -> {ExecuteRule(old)}
      [] thread[t].op = "delete_rule" ->
             {DeleteRule(old, r) : r \in old.rules}

Write(t) ==
    /\ thread[t].pc = "write"
    /\ \E new \in Changed(t) : Load(t, new, "update")
    /\ OnlyThread

\* The expected_version was compared with the copy, and is not looked at again.
FinalUpdate(t) ==
    /\ thread[t].pc = "update"
    /\ Updates(t)
    /\ Ends(t)

\* DELETE /analyses/{id}, of an analysis that runs no more.
Delete(t) ==
    /\ thread[t].pc = "idle"
    /\ Readable(row)
    /\ row' = Gone
    /\ deleted' = TRUE
    /\ UNCHANGED <<thread, changes, calls, recorded, torn>>

Next ==
    \E t \in Threads :
        \/ \E op \in Ops : Arrive(t, op)
        \/ Get(t) \/ Infer(t) \/ InferWrite(t) \/ InferUpdate(t)
        \/ Call(t) \/ Augment(t) \/ AugmentWrite(t) \/ AugmentUpdate(t)
        \/ Record(t) \/ Read(t) \/ Write(t) \/ FinalUpdate(t) \/ Delete(t)

Spec == Init /\ [][Next]_vars
-----------------------------------------------------------------------------
(* Properties.                                                             *)

\* Types, and: a request has a change in hand exactly if it is to make one.
TypeOK ==
    /\ row \in Rows \cup {Gone}
    /\ thread \in [Threads -> [pc : PCs, op : Ops, copy : Rows \cup {Gone},
                               base : Rows \cup {Gone}, first : BOOLEAN,
                               change : Changes \cup {NoChange}]]
    /\ \A t \in Threads :
           /\ thread[t].change # NoChange <=> thread[t].op \notin Reads
           /\ thread[t].pc \in {"write", "update"} => thread[t].op \notin Reads
           /\ thread[t].pc \in {"call", "augment", "augment_write",
                               "augment_update", "record"}
                  => thread[t].op = "context" /\ thread[t].first
    /\ changes \in 0 .. MaxChanges
    /\ calls \in Nat /\ recorded \in Nat
    /\ torn \in BOOLEAN /\ deleted \in BOOLEAN

\* However long requests hold their copies, and while no update is torn, the
\* row is one that some sequence of requests alone would have written: the
\* version counts the edits that are in the context, an answered question has
\* its answer in the context, a model's context never hides an edit, and only
\* an inferred context is finalized.
RowIsConsistent ==
    row # Gone /\ ~ torn =>
        /\ row.version = IF row.context = NoContext THEN 0
                         ELSE 1 + Cardinality(row.context.edits)
        /\ row.answered \subseteq row.context.edits
        /\ row.finalized => row.context # NoContext

\* Every recorded model call stays counted (service.py: a concurrent writer
\* holding a stale copy cannot revert or drop a count).
CountIsKept == row # Gone => row.count = recorded

\* A request that was still at work cannot bring a deleted analysis back.
DeletedForGood == deleted => row = Gone

\* domain/ai_enrichment.py: "a zero record is therefore a claim that no call
\* was made", because every path that reaches a model records itself.  Read
\* once no request is between its call and its record.
ZeroMeansNoCall ==
    /\ row # Gone
    /\ row.count = 0
    /\ \A t \in Threads :
           thread[t].pc \notin {"augment", "augment_write", "augment_update",
                             "record"}
    => calls = 0

\* Analysis.__post_init__ raises for a row that breaks its invariants; every
\* row that is stored can be read back, or the analysis is lost to every
\* route, DELETE included.
StoredRowIsReadable == row # Gone => Readable(row)
=============================================================================
