------------------------------ MODULE Enrichment ------------------------------
(***************************************************************************)
(* The AI explanations of the findings of one analysis: the route that     *)
(* starts one (api/v1/analyses.py), the rows that hold them                *)
(* (persistence/enrichment_store.py), the pool that makes the model calls  *)
(* (jobs/enrichment_pool.py, _execute_finding_enrichment), and the start   *)
(* of the process, which fails what an earlier one left unfinished         *)
(* (enrichment/reconcile.py).                                              *)
(*                                                                         *)
(* An explanation is bound to what it was asked under: the version of the  *)
(* final context and the model (enrichment/binding.py).  Meanwhile clients *)
(* change the context, each from a copy of the row (ContextEdits has these *)
(* requests in full), AI assistance is switched, and the installation may  *)
(* be given another model between two starts of the process; every task    *)
(* reads them again before it calls the model.  A step is one access to    *)
(* state that threads share.                                               *)
(***************************************************************************)
EXTENDS Naturals, Sequences, FiniteSets, Contexts

CONSTANTS
    Findings,       \* the findings of the analysis
    Workers,        \* the threads of the pool
    Requests,       \* the threads that serve POST .../ai-enrichment
    Editors,        \* the threads that serve what changes the analysis
    NoFinding,
    Models, Off,    \* the models an installation may be given, or none
    MaxPreparing,   \* EnrichmentPool.max_preparing
    Analyses,       \* which analyses there may be at first
    MaxEdits,       \* bound: how many changes of the analysis are asked for
    MaxSwitches,    \* bound: how often AI assistance is switched
    MaxPosts,       \* bound: how often an explanation is asked for
    MaxRestarts,    \* bound: how often the process ends
    MaxFaults,      \* bound: how often a write of a task fails
    MaxEvents       \* bound: how many of these, but for the posts, together

ASSUME PreparingBound == MaxPreparing \in Nat \ {0}
ASSUME NoFindingIsNone == NoFinding \notin Findings
ASSUME OffIsNoModel == Off \notin Models
ASSUME EnrichmentModelBounds ==
    /\ MaxEdits \in Nat /\ MaxSwitches \in Nat
    /\ MaxPosts \in Nat /\ MaxRestarts \in Nat /\ MaxFaults \in Nat
    /\ MaxEvents \in Nat

VARIABLES
    exists,     \* whether the analysis has not been deleted
    analysis,   \* what its row holds of the context
    stored,     \* the stored setting: whether AI assistance is on
    rows,       \* [Findings -> row]: the table of enrichments
    count,      \* the analysis's count of model calls
    queue,      \* the executor's queue of tasks
    worker,     \* [Workers -> what a task has in hand]
    request,    \* [Requests -> what a request has in hand]
    editor,     \* [Editors -> what a change of the analysis has in hand]
    edits,      \* how many changes have been asked for: names the next
    overlapped, \* history: a change was written over another one
    phase,      \* what the process is doing
    deployed,   \* how the process was configured when it started
    unrecorded, \* interrupted enrichments that startup has not counted yet
    switches, posts, restarts,
    attempts,   \* history: the attempts tasks have made to call the model
    faults      \* history: the writes of tasks that failed

persistent == <<exists, analysis, stored, rows, count>>
threads    == <<queue, worker, request>>
editing    == <<editor, edits, overlapped>>
process    == <<phase, deployed, unrecorded>>
bounds     == <<switches, posts, restarts>>
vars == <<persistent, threads, editing, process, bounds, attempts, faults>>

HasBudget == edits + switches + restarts + faults < MaxEvents

AiSettings == Models \cup {Off}

\* managed: the installation sets LLM_PROVIDER, and the stored setting does
\* not matter.  Otherwise ai is Off where no local model is configured.
Deployments == [managed : BOOLEAN, ai : AiSettings]

\* resolve_ai_assistance
Resolved(value) == IF deployed.managed \/ value THEN deployed.ai ELSE Off

\* resolve_current_ai: a stored value that cannot be read counts as not stored.
CurrentAi == {Resolved(stored), Resolved(FALSE)}

Changes == 1 .. MaxEdits

\* What the row of an analysis holds of its context.
AnalysisRows == [context : [source : {"none", "inferred", "model"},
                            edits : SUBSET Changes],
                 version : Nat, finalized : BOOLEAN]
NewAnalysis  == [context |-> NoContext, version |-> 0, finalized |-> FALSE]

\* compute_binding_digest: the version of a context that is final, else 0.
Version(row) == IF row.finalized THEN row.version ELSE 0

\* confirmed_context_for_finding_analysis: the model is told what clients have
\* confirmed or corrected, and that of a final context only.
Confirmed(row) == IF row.finalized THEN row.context.edits ELSE {}

Bindings  == [context : Nat, ai : AiSettings]
NoBinding == [context |-> 0, ai |-> Off]

\* made, sent: the version and the setting a ready explanation was really made
\* under, and what of the context its call was given.  counted: whether that
\* call had been counted.
NoRow == [status |-> "none", binding |-> NoBinding, made |-> NoBinding,
          sent |-> {}, counted |-> FALSE]
Rows  == [status : {"none", "preparing", "ready", "failed"},
          binding : Bindings, made : Bindings, sent : SUBSET Changes,
          counted : BOOLEAN]

Tasks    == [finding : Findings, binding : Bindings]
IdleTask == [finding |-> NoFinding, binding |-> NoBinding]

\* seen, sent: what the task or the request has read.  read, wants, base: the
\* row as a change has read it, as it is to be, and as replace has loaded it.
IdleWorker  == [pc |-> "idle", task |-> IdleTask, seen |-> NoBinding,
                sent |-> {}, outcome |-> "failed", counted |-> FALSE]
IdleRequest == [pc |-> "idle", finding |-> NoFinding, seen |-> NoBinding]
IdleEditor  == [pc |-> "idle", read |-> NewAnalysis, wants |-> NewAnalysis,
                base |-> NewAnalysis]

\* Before clients have changed anything, the context may have been inferred
\* and be final.
ASSUME AnalysesAreNew ==
    Analyses \subseteq {NewAnalysis, InferContext(NewAnalysis),
                        FinalizeContext(InferContext(NewAnalysis))}

Init ==
    /\ exists = TRUE
    /\ analysis \in Analyses
    /\ stored = FALSE
    /\ deployed \in Deployments
    /\ rows = [f \in Findings |-> NoRow]
    /\ count = 0
    /\ queue = <<>>
    /\ worker = [w \in Workers |-> IdleWorker]
    /\ request = [r \in Requests |-> IdleRequest]
    /\ editor = [e \in Editors |-> IdleEditor]
    /\ edits = 0
    /\ overlapped = FALSE
    /\ phase = "up"
    /\ unrecorded = {}
    /\ switches = 0 /\ posts = 0 /\ restarts = 0
    /\ attempts = 0
    /\ faults = 0

Preparing == {f \in Findings : rows[f].status = "preparing"}
-----------------------------------------------------------------------------
(* The analysis changes: GET and PUT .../context, .../questions, .../answers,
   .../finalize, reviews and rules (analysis/service.py). *)

OnlyEditor == UNCHANGED <<exists, stored, rows, count, threads, process, bounds,
                          attempts, faults>>

Operations == {"infer", "augment", "confirm", "finalize", "other"}

\* The rows an operation is applied to.  A client names the version its change
\* is for, and one that names another than was read has changed nothing.
Accepts(op, row) ==
    CASE op = "infer"                  -> row.context = NoContext
      [] op = "augment"                -> row.version = 1 /\ ~ row.finalized
      [] op \in {"confirm", "finalize"} -> row.context # NoContext
      [] op = "other"                  -> TRUE

\* What it makes of them.  An answer confirms fields; a review or a change of
\* a rule has other columns for its own, but writes back these as well.
Applied(op, row, change) ==
    CASE op = "infer"    -> InferContext(row)
      [] op = "augment"  -> AugmentContext(row)
      [] op = "confirm"  -> ConfirmFields(row, change)
      [] op = "finalize" -> FinalizeContext(row)
      [] op = "other"    -> row

\* get_status, and what is made of the copy ...
EditorReads(e, op) ==
    /\ phase = "up" /\ exists
    /\ editor[e].pc = "idle"
    /\ edits < MaxEdits /\ HasBudget
    /\ IsReadable(analysis) /\ Accepts(op, analysis)
    /\ edits' = edits + 1
    /\ editor' = [editor EXCEPT ![e] =
           [IdleEditor EXCEPT !.pc = "load", !.read = analysis,
                              !.wants = Applied(op, analysis, edits + 1)]]
    /\ UNCHANGED <<analysis, overlapped>> /\ OnlyEditor

\* ... SqlAnalysisStore.replace loads the row again ...
EditorLoads(e) ==
    /\ editor[e].pc = "load"
    /\ editor' = IF exists
                 THEN [editor EXCEPT ![e].pc = "update", ![e].base = analysis]
                 ELSE [editor EXCEPT ![e] = IdleEditor]
    /\ UNCHANGED <<analysis, edits, overlapped>> /\ OnlyEditor

\* ... and updates the columns that differ, if the row is still there.
EditorUpdates(e) ==
    LET x == editor[e] IN
    /\ x.pc = "update"
    /\ IF exists
       THEN /\ analysis' = Merged(x.wants, x.base, analysis)
            /\ overlapped' = (overlapped \/ analysis # x.read \/ analysis # x.base)
       ELSE UNCHANGED <<analysis, overlapped>>
    /\ editor' = [editor EXCEPT ![e] = IdleEditor]
    /\ UNCHANGED edits /\ OnlyEditor

EditorGoesOn(e) == EditorLoads(e) \/ EditorUpdates(e)
-----------------------------------------------------------------------------
(* AI assistance is switched, and the analysis deleted.                    *)

OnlyAnalysis == UNCHANGED <<analysis, count, threads, editing, process, posts,
                            restarts, attempts, faults>>

\* put_setting and reset_setting, unless the installation manages the setting.
Switch ==
    /\ phase = "up"
    /\ ~ deployed.managed
    /\ switches < MaxSwitches /\ HasBudget
    /\ switches' = switches + 1
    /\ stored' = ~ stored
    /\ UNCHANGED <<exists, rows>> /\ OnlyAnalysis

\* SqlAnalysisStore.delete takes the enrichments with the analysis.
DeleteAnalysis ==
    /\ phase = "up" /\ exists /\ IsReadable(analysis)
    /\ exists' = FALSE
    /\ rows' = [f \in Findings |-> NoRow]
    /\ UNCHANGED <<stored, switches>> /\ OnlyAnalysis
-----------------------------------------------------------------------------
(* POST .../ai-enrichment                                                  *)

OnlyRequest == UNCHANGED <<persistent, queue, worker, editing, process,
                           switches, restarts, attempts, faults>>

RequestEnds(r) == request' = [request EXCEPT ![r] = IdleRequest]

\* The analysis is read ...
Post(r, f) ==
    /\ phase = "up"
    /\ request[r].pc = "idle"
    /\ exists /\ IsReadable(analysis)
    /\ posts < MaxPosts
    /\ posts' = posts + 1
    /\ request' = [request EXCEPT ![r] =
           [pc |-> "settings", finding |-> f,
            seen |-> [NoBinding EXCEPT !.context = Version(analysis)]]]
    /\ OnlyRequest

\* ... and the effective setting: without AI there is nothing to start.
ReadSettings(r) ==
    /\ request[r].pc = "settings"
    /\ \E ai \in CurrentAi :
           IF ai = Off THEN RequestEnds(r)
           ELSE request' = [request EXCEPT ![r].pc = "begin", ![r].seen.ai = ai]
    /\ UNCHANGED posts /\ OnlyRequest

\* Mutation: room for one enrichment too many.
HasRoomForOneMore(f) == Cardinality(Preparing \ {f}) <= MaxPreparing

HasRoom(f) == Cardinality(Preparing \ {f}) < MaxPreparing

\* Mutation: the row is written whether or not the analysis is still there.
BeginUnchecked(r) ==
    LET f == request[r].finding
        b == request[r].seen IN
    /\ request[r].pc = "begin"
    /\ IF \/ rows[f].binding = b /\ rows[f].status \in {"preparing", "ready"}
          \/ ~ HasRoom(f)
       THEN RequestEnds(r) /\ UNCHANGED rows
       ELSE /\ rows' = [rows EXCEPT ![f] =
                   [NoRow EXCEPT !.status = "preparing", !.binding = b]]
            /\ request' = [request EXCEPT ![r].pc = "submit"]
    /\ UNCHANGED <<exists, analysis, stored, count, queue, worker, editing,
                   process, bounds, attempts, faults>>

\* SqlEnrichmentStore.begin, under its lock and in one transaction.  EXISTING,
\* BUSY and ANALYSIS_MISSING change nothing; a failed or stale row is taken
\* over, and whatever still runs for its old binding can no longer finish it.
Begin(r) ==
    LET f == request[r].finding
        b == request[r].seen IN
    /\ request[r].pc = "begin"
    /\ IF \/ rows[f].binding = b /\ rows[f].status \in {"preparing", "ready"}
          \/ ~ HasRoom(f)
          \/ ~ exists
       THEN RequestEnds(r) /\ UNCHANGED rows
       ELSE /\ rows' = [rows EXCEPT ![f] =
                   [NoRow EXCEPT !.status = "preparing", !.binding = b]]
            /\ request' = [request EXCEPT ![r].pc = "submit"]
    /\ UNCHANGED <<exists, analysis, stored, count, queue, worker, editing,
                   process, bounds, attempts, faults>>

\* EnrichmentPool.submit, before the pool is shut down ...
Submit(r) ==
    /\ request[r].pc = "submit"
    /\ phase = "up"
    /\ queue' = Append(queue, [finding |-> request[r].finding,
                               binding |-> request[r].seen])
    /\ RequestEnds(r)
    /\ UNCHANGED <<persistent, worker, editing, process, bounds, attempts,
                   faults>>

\* What SqlEnrichmentStore.complete finishes: the row while it is preparing
\* under the binding the work was started with.
Finishes(f, b) == rows[f].status = "preparing" /\ rows[f].binding = b

\* ... and after: the executor refuses, and the route fails the row itself.
SubmitRefused(r) ==
    LET f == request[r].finding IN
    /\ request[r].pc = "submit"
    /\ phase = "closing"
    /\ rows' = IF Finishes(f, request[r].seen)
               THEN [rows EXCEPT ![f].status = "failed"] ELSE rows
    /\ RequestEnds(r)
    /\ UNCHANGED <<exists, analysis, stored, count, queue, worker, editing,
                   process, bounds, attempts, faults>>

RequestGoesOn(r) ==
    ReadSettings(r) \/ Begin(r) \/ Submit(r) \/ SubmitRefused(r)
-----------------------------------------------------------------------------
(* _execute_finding_enrichment, on a thread of the pool.                   *)

OnlyWorker == UNCHANGED <<persistent, request, editing, process, bounds,
                          faults>>

\* A free thread takes the oldest task and reads the setting again.
Take(w) ==
    /\ worker[w].pc = "idle"
    /\ queue # <<>>
    /\ queue' = Tail(queue)
    /\ \E ai \in CurrentAi :
           worker' = [worker EXCEPT ![w] =
               [IdleWorker EXCEPT !.pc = "get", !.task = Head(queue),
                                  !.seen = [NoBinding EXCEPT !.ai = ai]]]
    /\ UNCHANGED attempts /\ OnlyWorker

\* Mutation: the model is called for whatever binding is current.
GetUnbound(w) ==
    /\ worker[w].pc = "get"
    /\ worker' = IF ~ exists THEN [worker EXCEPT ![w] = IdleWorker]
                 ELSE [worker EXCEPT ![w].pc = "call",
                                     ![w].seen.context = Version(analysis),
                                     ![w].sent = Confirmed(analysis)]
    /\ UNCHANGED <<queue, attempts>> /\ OnlyWorker

\* Mutation: a superseded task just ends.
GetAndLeave(w) ==
    LET now == [worker[w].seen EXCEPT !.context = Version(analysis)] IN
    /\ worker[w].pc = "get"
    /\ worker' = IF ~ exists \/ now # worker[w].task.binding
                 THEN [worker EXCEPT ![w] = IdleWorker]
                 ELSE [worker EXCEPT ![w].pc = "call", ![w].seen = now,
                                     ![w].sent = Confirmed(analysis)]
    /\ UNCHANGED <<queue, attempts>> /\ OnlyWorker

\* The analysis is read again: if it is gone so is its row, and if the binding
\* is not the task's any more, or a lookup fails, no call is made.
Get(w) ==
    LET now == [worker[w].seen EXCEPT !.context = Version(analysis)] IN
    /\ worker[w].pc = "get"
    /\ \/ ~ exists /\ worker' = [worker EXCEPT ![w] = IdleWorker]
       \/ /\ exists /\ IsReadable(analysis)
          /\ worker' = [worker EXCEPT ![w].seen = now,
                           ![w].sent = Confirmed(analysis),
                           ![w].pc = IF now = worker[w].task.binding
                                     THEN "call" ELSE "complete"]
       \/ worker' = [worker EXCEPT ![w].pc = "complete"]
    /\ UNCHANGED <<queue, attempts>> /\ OnlyWorker

\* Mutation: the row is finished before the call is counted.
CallThenComplete(w) ==
    /\ worker[w].pc = "call"
    /\ \E outcome \in {"ready", "failed"} :
           worker' = [worker EXCEPT ![w].pc = "complete", ![w].outcome = outcome]
    /\ attempts' = attempts + 1
    /\ UNCHANGED queue /\ OnlyWorker

\* The model call: accepted, or rejected, or failed.
Call(w) ==
    /\ worker[w].pc = "call"
    /\ \E outcome \in {"ready", "failed"} :
           worker' = [worker EXCEPT ![w].pc = "record", ![w].outcome = outcome]
    /\ attempts' = attempts + 1
    /\ UNCHANGED queue /\ OnlyWorker

\* _record_enrichment, before the row is finished ...
Record(w) ==
    /\ worker[w].pc = "record"
    /\ count' = IF exists THEN count + 1 ELSE count
    /\ worker' = [worker EXCEPT ![w].pc = "complete", ![w].counted = TRUE]
    /\ UNCHANGED <<exists, analysis, stored, rows, queue, request, editing,
                   process, bounds, attempts, faults>>

\* ... which also happens when the recording raises: the finally clause.
RecordFails(w) ==
    /\ worker[w].pc = "record"
    /\ faults < MaxFaults /\ HasBudget
    /\ faults' = faults + 1
    /\ worker' = [worker EXCEPT ![w].pc = "complete"]
    /\ UNCHANGED <<persistent, queue, request, editing, process, bounds,
                   attempts>>

\* Mutation: the worker finishes the row whoever owns it now.
CompleteAny(w) ==
    LET f == worker[w].task.finding IN
    /\ worker[w].pc = "complete"
    /\ rows' = IF rows[f].status = "preparing"
               THEN [rows EXCEPT ![f].status = worker[w].outcome,
                                 ![f].made = worker[w].seen,
                                 ![f].sent = worker[w].sent,
                                 ![f].counted = worker[w].counted]
               ELSE rows
    /\ worker' = [worker EXCEPT ![w] = IdleWorker]
    /\ UNCHANGED <<exists, analysis, stored, count, queue, request, editing,
                   process, bounds, attempts, faults>>

\* Mutation: the thread is free but keeps its task.
CompleteAndKeep(w) ==
    /\ worker[w].pc = "complete"
    /\ worker' = [worker EXCEPT ![w].pc = "idle"]
    /\ UNCHANGED <<persistent, queue, request, editing, process, bounds,
                   attempts, faults>>

\* SqlEnrichmentStore.complete.
Complete(w) ==
    LET f == worker[w].task.finding IN
    /\ worker[w].pc = "complete"
    /\ rows' = IF Finishes(f, worker[w].task.binding)
               THEN [rows EXCEPT ![f].status = worker[w].outcome,
                                 ![f].made = worker[w].seen,
                                 ![f].sent = worker[w].sent,
                                 ![f].counted = worker[w].counted]
               ELSE rows
    /\ worker' = [worker EXCEPT ![w] = IdleWorker]
    /\ UNCHANGED <<exists, analysis, stored, count, queue, request, editing,
                   process, bounds, attempts, faults>>

\* The write of the result fails: the pool drops the exception, and the row
\* stays preparing until the next start.
CompleteFails(w) ==
    /\ worker[w].pc = "complete"
    /\ faults < MaxFaults /\ HasBudget
    /\ faults' = faults + 1
    /\ worker' = [worker EXCEPT ![w] = IdleWorker]
    /\ UNCHANGED <<persistent, queue, request, editing, process, bounds,
                   attempts>>

WorkerGoesOn(w) ==
    \/ Take(w) \/ Get(w) \/ Call(w)
    \/ Record(w) \/ RecordFails(w) \/ Complete(w) \/ CompleteFails(w)
-----------------------------------------------------------------------------
(* The process.                                                            *)

\* The pool is shut down: it takes no more tasks and finishes those it has.
Shutdown ==
    /\ phase = "up"
    /\ restarts < MaxRestarts /\ HasBudget
    /\ phase' = "closing"
    /\ UNCHANGED <<persistent, threads, editing, deployed, unrecorded, bounds,
                   attempts, faults>>

Ends ==
    /\ phase' = "down"
    /\ restarts' = restarts + 1
    /\ queue' = <<>>
    /\ worker' = [w \in Workers |-> IdleWorker]
    /\ request' = [r \in Requests |-> IdleRequest]
    /\ editor' = [e \in Editors |-> IdleEditor]
    /\ unrecorded' = {}
    /\ UNCHANGED <<persistent, edits, overlapped, deployed, switches, posts,
                   attempts, faults>>

\* The process ends once nothing is left to do.
Exit ==
    /\ phase = "closing"
    /\ queue = <<>>
    /\ \A w \in Workers : worker[w].pc = "idle"
    /\ \A r \in Requests : request[r].pc = "idle"
    /\ \A e \in Editors : editor[e].pc = "idle"
    /\ Ends

\* The process dies at any point.
Crash ==
    /\ phase # "down"
    /\ restarts < MaxRestarts /\ HasBudget
    /\ Ends

\* create_app, with the configuration it finds: interrupt_preparing fails every
\* unfinished row at once ...
Interrupt ==
    /\ phase = "down"
    /\ phase' = "recording"
    /\ deployed' \in Deployments
    /\ rows' = [f \in Findings |-> IF f \in Preparing
                    THEN [rows[f] EXCEPT !.status = "failed"] ELSE rows[f]]
    /\ unrecorded' = Preparing
    /\ UNCHANGED <<exists, analysis, stored, count, threads, editing, bounds,
                   attempts, faults>>

\* ... and the call each of them may have made is counted, one by one.
RecordInterrupted(f) ==
    /\ phase = "recording"
    /\ f \in unrecorded
    /\ count' = IF exists THEN count + 1 ELSE count
    /\ unrecorded' = unrecorded \ {f}
    /\ UNCHANGED <<exists, analysis, stored, rows, threads, editing, phase,
                   deployed, bounds, attempts, faults>>

Serve ==
    /\ phase = "recording"
    /\ unrecorded = {}
    /\ phase' = "up"
    /\ UNCHANGED <<persistent, threads, editing, deployed, unrecorded, bounds,
                   attempts, faults>>

ProcessGoesOn ==
    Exit \/ Interrupt \/ Serve \/ \E f \in Findings : RecordInterrupted(f)

Next ==
    \/ \E e \in Editors :
           EditorGoesOn(e) \/ \E op \in Operations : EditorReads(e, op)
    \/ Switch \/ DeleteAnalysis
    \/ \E r \in Requests : RequestGoesOn(r) \/ \E f \in Findings : Post(r, f)
    \/ \E w \in Workers : WorkerGoesOn(w)
    \/ Shutdown \/ Crash \/ ProcessGoesOn

Spec == Init /\ [][Next]_vars

\* Threads are scheduled, and a process that ended is started again; nothing
\* here waits for a change of the analysis.
FairSpec ==
    /\ Spec
    /\ \A w \in Workers : WF_vars(WorkerGoesOn(w))
    /\ \A r \in Requests : WF_vars(RequestGoesOn(r))
    /\ WF_vars(ProcessGoesOn)
-----------------------------------------------------------------------------
(* Properties.                                                             *)

\* Types, and: a thread has a finding in hand exactly while it works on it.
TypeOK ==
    /\ exists \in BOOLEAN
    /\ analysis \in AnalysisRows
    /\ stored \in BOOLEAN
    /\ deployed \in Deployments
    /\ rows \in [Findings -> Rows]
    /\ count \in Nat
    /\ queue \in Seq(Tasks)
    /\ worker \in [Workers -> [pc : {"idle", "get", "call", "record", "complete"},
                               task : Tasks \cup {IdleTask}, seen : Bindings,
                               sent : SUBSET Changes,
                               outcome : {"ready", "failed"}, counted : BOOLEAN]]
    /\ \A w \in Workers : worker[w].pc = "idle" <=> worker[w].task = IdleTask
    /\ request \in [Requests -> [pc : {"idle", "settings", "begin", "submit"},
                                 finding : Findings \cup {NoFinding},
                                 seen : Bindings]]
    /\ \A r \in Requests :
           request[r].pc = "idle" <=> request[r].finding = NoFinding
    /\ editor \in [Editors -> [pc : {"idle", "load", "update"},
                               read : AnalysisRows, wants : AnalysisRows,
                               base : AnalysisRows]]
    /\ edits \in 0 .. MaxEdits
    /\ overlapped \in BOOLEAN
    /\ phase \in {"up", "closing", "down", "recording"}
    /\ unrecorded \in SUBSET Findings
    /\ switches \in 0 .. MaxSwitches
    /\ posts \in 0 .. MaxPosts
    /\ restarts \in 0 .. MaxRestarts
    /\ attempts \in Nat
    /\ faults \in 0 .. MaxFaults

\* What the installation would bind an explanation to now.
Current == [context |-> Version(analysis), ai |-> Resolved(stored)]

\* Mutation: a saved explanation is shown whatever it was made under.
StateUnbound(f) ==
    IF Current.ai = Off THEN "unavailable" ELSE rows[f].status

\* derive_state, for a request that reads everything at once; a row that
\* cannot be read is an error.
State(f) ==
    IF ~ IsReadable(analysis) THEN "error"
    ELSE IF Current.ai = Off THEN "unavailable"
    ELSE IF rows[f].status # "none" /\ rows[f].binding # Current THEN "stale"
    ELSE rows[f].status

\* What a client is shown as ready was made under the version, the model and
\* the switch that are in force now, however they changed meanwhile (D-066:
\* stale is never current); and as long as no change of the analysis has been
\* written over another one, its call was given exactly what is confirmed now.
\* The binding knows the version alone, and changes that overlap may leave one
\* version for two contexts.
ShownIsCurrent ==
    \A f \in Findings : State(f) = "ready" =>
        /\ Current.ai # Off
        /\ rows[f].made = Current
        /\ ~ overlapped => rows[f].sent = Confirmed(analysis)

\* At most max_preparing enrichments are preparing, also across restarts.
PreparingIsBounded == Cardinality(Preparing) <= MaxPreparing

\* While the process serves or finishes its work, somebody will finish every
\* row that is preparing: a task with the row's own binding, or the request
\* that is about to submit it.  No row is left preparing for ever, unless the
\* write of a result has failed.
PreparingIsOwned ==
    phase \in {"up", "closing"} /\ faults = 0 => \A f \in Preparing :
        LET task == [finding |-> f, binding |-> rows[f].binding] IN
        \/ \E i \in 1 .. Len(queue) : queue[i] = task
        \/ \E w \in Workers : worker[w].task = task
        \/ \E r \in Requests : /\ request[r].pc = "submit"
                               /\ request[r].finding = f
                               /\ request[r].seen = rows[f].binding

\* No enrichment outlives its analysis, whatever raced with the deletion.
NothingOutlivesItsAnalysis ==
    ~ exists => \A f \in Findings : rows[f] = NoRow

\* The rows that are preparing are bounded, each has a thread that will
\* finish it, and none is left behind by its analysis.
RowsAreAccountedFor ==
    PreparingIsBounded /\ PreparingIsOwned /\ NothingOutlivesItsAnalysis

\* Whoever sees an explanation also sees its call in the counters (D-047),
\* unless their own write failed: never more such rows than failed writes.  And
\* as long as no process has ended and no write has failed, every attempt to
\* call the model has been counted exactly once, but for those whose task is
\* about to.
CallsAreCounted ==
    /\ Cardinality({f \in Findings : rows[f].status = "ready" /\ ~ rows[f].counted})
           <= faults
    /\ exists /\ restarts = 0 /\ faults = 0 =>
           attempts = count + Cardinality({w \in Workers : worker[w].pc = "record"})

\* A client that waits for an explanation stops waiting: a row does not stay
\* preparing, over supersessions, shutdowns and crashes, unless the write of
\* a result fails.
PreparingEnds ==
    \A f \in Findings :
        rows[f].status = "preparing" ~> rows[f].status # "preparing" \/ faults > 0
=============================================================================
