----------------------------- MODULE AnalysisJobs -----------------------------
(***************************************************************************)
(* How an analysis is run: the routes that create, cancel, delete, retry   *)
(* and rerun analyses (api/v1/analyses.py), the thread pool that runs them *)
(* (jobs/pool.py), the pipeline run_analysis (analysis/service.py), the    *)
(* rows it writes (persistence/store.py), and the start and the stop of    *)
(* the process (main.py, persistence/reconciliation.py).                   *)
(*                                                                         *)
(* A step is one access to state that threads share: one transaction of    *)
(* the store, one use of the cancellation set under its lock, one use of   *)
(* the executor's queue.  What a route or a worker computes between two of *)
(* them is private to its thread and is part of the second.  Requests are  *)
(* served concurrently: the routes that read, cancel, delete, retry and    *)
(* rerun run on the framework's threads.                                   *)
(***************************************************************************)
EXTENDS Naturals, Sequences

CONSTANTS
    Ids,            \* the analysis identifiers (uuid4: never drawn twice)
    Workers,        \* the threads of the executor
    Requests,       \* the threads that serve HTTP requests
    NoId,           \* "no analysis"
    MaxCrashes,     \* bound: how often the process may die
    MaxStoreErrors  \* bound: how many transactions of the store may fail

ASSUME NoIdIsNotAnId == NoId \notin Ids
ASSUME BoundsAreNaturals == MaxCrashes \in Nat /\ MaxStoreErrors \in Nat

VARIABLES
    row,              \* [Ids -> Statuses]: the state column of each analysis
    retryOf,          \* [Ids -> Ids \cup {NoId}]: retry_source_analysis_id
    queue,            \* the executor's queue of submitted analyses
    worker,           \* [Workers -> [pc, job, held]]
    request,          \* [Requests -> [pc, id]]
    cancelRequested,  \* JobPool._cancel_requested
    phase,            \* what the process is doing
    unreconciled,     \* the ids startup has selected and not yet failed
    crashes, storeErrors,  \* what has been used of the two bounds
    asked,            \* history: when the first cancellation was flagged
    stranded          \* history: jobs whose worker lost its last write

persistent == <<row, retryOf>>
process    == <<queue, worker, request, cancelRequested, unreconciled>>
history    == <<asked, stranded>>
bounds     == <<crashes, storeErrors>>
vars == <<persistent, process, phase, bounds, history>>

Lifecycle == INSTANCE AnalysisLifecycle WITH status <- row

NonTerminal == Lifecycle!NonTerminal
Terminal    == Lifecycle!Terminal
Exists(a)   == row[a] \in NonTerminal \cup Terminal

\* A worker's own copy of the analysis differs from the row only in ways
\* its state tells: `held` is the state of that copy.
IdleWorker  == [pc |-> "idle", job |-> NoId, held |-> "none"]
IdleRequest == [pc |-> "idle", id |-> NoId]

WorkerPCs  == {"idle", "get", "check", "cancel", "advance", "run", "complete",
               "fail", "discard"}
RequestPCs == {"idle", "add_retry", "add_rerun", "submit", "flag",
               "flag_then_delete", "delete"}
Phases     == {"starting", "up", "draining", "stopped", "crashed"}

Init ==
    /\ row = [a \in Ids |-> "none"]
    /\ retryOf = [a \in Ids |-> NoId]
    /\ queue = <<>>
    /\ worker = [w \in Workers |-> IdleWorker]
    /\ request = [r \in Requests |-> IdleRequest]
    /\ cancelRequested = {}
    /\ phase = "up"
    /\ unreconciled = {}
    /\ crashes = 0
    /\ storeErrors = 0
    /\ asked = [a \in Ids |-> "no"]
    /\ stranded = {}
-----------------------------------------------------------------------------
(* Requests.  A route starts only while the process serves.                *)

RequestGoes(r, pc, a) == request' = [request EXCEPT ![r] = [pc |-> pc, id |-> a]]
RequestEnds(r)        == request' = [request EXCEPT ![r] = IdleRequest]

Starts(r) == phase = "up" /\ request[r].pc = "idle"

OnlyRequest == UNCHANGED <<persistent, queue, worker, cancelRequested,
                           unreconciled, phase, bounds, history>>

\* store.add of a fresh queued analysis, retrying the one `source` names.
AddRow(a, source) ==
    /\ row[a] = "none"
    /\ row' = [row EXCEPT ![a] = "queued"]
    /\ retryOf' = [retryOf EXCEPT ![a] = source]
    /\ UNCHANGED <<queue, worker, cancelRequested, unreconciled, phase,
                   bounds, history>>

\* POST /demo/sales, POST /analyses and the staged run: add, then submit.
Create(r, a) ==
    /\ Starts(r)
    /\ AddRow(a, NoId)
    /\ RequestGoes(r, "submit", a)

\* POST .../retry reads the original: only a failed analysis is retried.
ReadForRetry(r, a) ==
    /\ Starts(r)
    /\ row[a] = "failed"
    /\ RequestGoes(r, "add_retry", a)
    /\ OnlyRequest

\* POST .../rerun reads the original: any finished analysis is rerun.
ReadForRerun(r, a) ==
    /\ Starts(r)
    /\ row[a] \in Terminal
    /\ RequestGoes(r, "add_rerun", a)
    /\ OnlyRequest

\* Mutation: the route adds the new analysis and does not submit it.
AddUnsubmitted(r, a) ==
    /\ request[r].pc \in {"add_retry", "add_rerun"}
    /\ AddRow(a, IF request[r].pc = "add_retry" THEN request[r].id ELSE NoId)
    /\ RequestEnds(r)

\* _queued_analysis_from, then store.add: a rerun keeps no link.
AddAgain(r, a) ==
    /\ request[r].pc \in {"add_retry", "add_rerun"}
    /\ AddRow(a, IF request[r].pc = "add_retry" THEN request[r].id ELSE NoId)
    /\ RequestGoes(r, "submit", a)

\* store.add raises: the route answers 500 and nothing was queued.
AddFails(r) ==
    /\ request[r].pc \in {"add_retry", "add_rerun"}
    /\ RequestEnds(r)
    /\ OnlyRequest

\* Mutation: the service submits the new analysis and the route does again.
SubmitAgain(r) ==
    /\ request[r].pc = "submit"
    /\ queue' = Append(queue, request[r].id)
    /\ UNCHANGED <<persistent, request, worker, cancelRequested, unreconciled,
                   phase, bounds, history>>

\* JobPool.submit.
Submit(r) ==
    /\ request[r].pc = "submit"
    /\ queue' = Append(queue, request[r].id)
    /\ RequestEnds(r)
    /\ UNCHANGED <<persistent, worker, cancelRequested, unreconciled, phase,
                   bounds, history>>

\* POST .../cancel reads the analysis: a terminal one is left alone.
ReadForCancel(r, a) ==
    /\ Starts(r)
    /\ row[a] \in NonTerminal
    /\ RequestGoes(r, "flag", a)
    /\ OnlyRequest

\* DELETE reads the analysis: a running one is asked to cancel first.
ReadForDelete(r, a) ==
    /\ Starts(r)
    /\ Exists(a)
    /\ RequestGoes(r, IF row[a] \in NonTerminal THEN "flag_then_delete"
                                                ELSE "delete", a)
    /\ OnlyRequest

\* The worker of a has consulted the flag for the last time, and will not
\* again: what it still has to write is the completed analysis.
PastLastCheck(a) ==
    \E w \in Workers : worker[w].job = a /\ worker[w].pc = "complete"

\* Mutation: the route writes the cancelled state itself.
FlagAndWrite(r) ==
    LET a == request[r].id IN
    /\ request[r].pc \in {"flag", "flag_then_delete"}
    /\ cancelRequested' = cancelRequested \cup {a}
    /\ row' = IF Exists(a) THEN [row EXCEPT ![a] = "cancelled"] ELSE row
    /\ RequestEnds(r)
    /\ asked' = [asked EXCEPT ![a] = "in_time"]
    /\ UNCHANGED <<retryOf, queue, worker, unreconciled, phase, bounds,
                   stranded>>

\* JobPool.request_cancel.  asked records the first request that finds the
\* analysis unfinished: whether its worker was still going to look.
Flag(r) ==
    LET a == request[r].id IN
    /\ request[r].pc \in {"flag", "flag_then_delete"}
    /\ cancelRequested' = cancelRequested \cup {a}
    /\ IF request[r].pc = "flag" THEN RequestEnds(r)
                                 ELSE RequestGoes(r, "delete", a)
    /\ asked' = IF asked[a] = "no" /\ row[a] \in NonTerminal
                THEN [asked EXCEPT ![a] = IF PastLastCheck(a) THEN "late"
                                                              ELSE "in_time"]
                ELSE asked
    /\ UNCHANGED <<persistent, queue, worker, unreconciled, phase, bounds,
                   stranded>>

\* SqlAnalysisStore.delete.  Deleting what is gone is a 404: no change.
Delete(r) ==
    LET a == request[r].id IN
    /\ request[r].pc = "delete"
    /\ row' = IF Exists(a) THEN [row EXCEPT ![a] = "deleted"] ELSE row
    /\ RequestEnds(r)
    /\ UNCHANGED <<retryOf, queue, worker, cancelRequested, unreconciled,
                   phase, bounds, history>>

RequestContinues(r) ==
    \/ Submit(r) \/ Flag(r) \/ Delete(r) \/ AddFails(r)
    \/ \E a \in Ids : AddAgain(r, a)

RequestStarts(r) ==
    \E a \in Ids : \/ Create(r, a)
                   \/ ReadForRetry(r, a)
                   \/ ReadForRerun(r, a)
                   \/ ReadForCancel(r, a)
                   \/ ReadForDelete(r, a)
-----------------------------------------------------------------------------
(* Workers: JobPool._run around run_analysis.                              *)

WorkerGoes(w, pc)    == worker' = [worker EXCEPT ![w].pc = pc]
WorkerHolds(w, pc, s) == worker' = [worker EXCEPT ![w].pc = pc, ![w].held = s]

OnlyWorker == UNCHANGED <<persistent, queue, request, cancelRequested,
                          unreconciled, phase, bounds, history>>

\* Mutation: replace inserts the row when it is not there.
ReplaceOrInsert(a, s) ==
    /\ row' = [row EXCEPT ![a] = s]
    /\ UNCHANGED <<retryOf, queue, request, cancelRequested, unreconciled,
                   phase, bounds, history>>

\* SqlAnalysisStore.replace: the whole row is overwritten, but only if it is
\* still there.
Replace(a, s) ==
    /\ row' = IF Exists(a) THEN [row EXCEPT ![a] = s] ELSE row
    /\ UNCHANGED <<retryOf, queue, request, cancelRequested, unreconciled,
                   phase, bounds, history>>

\* The executor hands the oldest submitted analysis to a free thread.
Take(w) ==
    /\ worker[w].pc = "idle"
    /\ queue # <<>>
    /\ queue' = Tail(queue)
    /\ worker' = [worker EXCEPT ![w] =
                      [pc |-> "get", job |-> Head(queue), held |-> "none"]]
    /\ UNCHANGED <<persistent, request, cancelRequested, unreconciled, phase,
                   bounds, history>>

\* store.get: a missing analysis, or one that is not queued, is not run.
Get(w) ==
    /\ worker[w].pc = "get"
    /\ IF row[worker[w].job] = "queued"
       THEN WorkerHolds(w, "check", "queued")
       ELSE WorkerGoes(w, "discard")
    /\ OnlyWorker

\* Mutation: no checkpoint after the last stage.
CheckThreeTimes(w) ==
    /\ worker[w].pc = "check"
    /\ WorkerGoes(w, IF worker[w].held = "detecting" THEN "complete"
                     ELSE IF worker[w].job \in cancelRequested THEN "cancel"
                     ELSE "advance")
    /\ OnlyWorker

\* Mutation: any cancellation stops any analysis.
CheckAnyFlag(w) ==
    /\ worker[w].pc = "check"
    /\ WorkerGoes(w, IF cancelRequested # {} THEN "cancel"
                     ELSE IF worker[w].held = "detecting" THEN "complete"
                     ELSE "advance")
    /\ OnlyWorker

\* The four checkpoints: before the first stage and after each of the three.
Check(w) ==
    /\ worker[w].pc = "check"
    /\ WorkerGoes(w, IF worker[w].job \in cancelRequested THEN "cancel"
                     ELSE IF worker[w].held = "detecting" THEN "complete"
                     ELSE "advance")
    /\ OnlyWorker

WriteCancelled(w) ==
    /\ worker[w].pc = "cancel"
    /\ Replace(worker[w].job, "cancelled")
    /\ WorkerGoes(w, "discard")

\* Each stage is written before it runs.
Advance(w) ==
    LET next == Lifecycle!Follows[worker[w].held] IN
    /\ worker[w].pc = "advance"
    /\ Replace(worker[w].job, next)
    /\ WorkerHolds(w, "run", next)

\* The stage itself: parsing, profiling, or detection and scoring.  Any
\* exception it raises leads to the failed state.
RunStage(w) ==
    /\ worker[w].pc = "run"
    /\ \E outcome \in {"check", "fail"} : WorkerGoes(w, outcome)
    /\ OnlyWorker

WriteFailed(w) ==
    /\ worker[w].pc = "fail"
    /\ Replace(worker[w].job, "failed")
    /\ WorkerGoes(w, "discard")

WriteCompleted(w) ==
    /\ worker[w].pc = "complete"
    /\ Replace(worker[w].job, "completed")
    /\ WorkerGoes(w, "discard")

\* A write inside run_analysis's try block fails: the except block runs.
CaughtStoreError(w) ==
    /\ \/ worker[w].pc = "advance"
       \/ worker[w].pc = "cancel" /\ worker[w].held # "queued"
    /\ storeErrors < MaxStoreErrors
    /\ storeErrors' = storeErrors + 1
    /\ WorkerGoes(w, "fail")
    /\ UNCHANGED <<persistent, queue, request, cancelRequested, unreconciled,
                   phase, crashes, history>>

\* A read or a write outside the try block, or in the except block, fails:
\* the exception ends in the job's Future, which nobody reads.
EscapedStoreError(w) ==
    /\ \/ worker[w].pc \in {"get", "fail", "complete"}
       \/ worker[w].pc = "cancel" /\ worker[w].held = "queued"
    /\ storeErrors < MaxStoreErrors
    /\ storeErrors' = storeErrors + 1
    /\ stranded' = stranded \cup {worker[w].job}
    /\ WorkerGoes(w, "discard")
    /\ UNCHANGED <<persistent, queue, request, cancelRequested, unreconciled,
                   phase, crashes, asked>>

\* Mutation: the thread keeps the analysis it has finished.
DiscardOnly(w) ==
    /\ worker[w].pc = "discard"
    /\ cancelRequested' = cancelRequested \ {worker[w].job}
    /\ WorkerGoes(w, "idle")
    /\ UNCHANGED <<persistent, queue, request, unreconciled, phase, bounds,
                   history>>

\* JobPool._run's finally: the flag of this analysis is dropped.
Discard(w) ==
    /\ worker[w].pc = "discard"
    /\ cancelRequested' = cancelRequested \ {worker[w].job}
    /\ worker' = [worker EXCEPT ![w] = IdleWorker]
    /\ UNCHANGED <<persistent, queue, request, unreconciled, phase, bounds,
                   history>>

WorkerGoesOn(w) ==
    \/ Take(w) \/ Get(w) \/ Check(w) \/ WriteCancelled(w) \/ Advance(w)
    \/ RunStage(w) \/ WriteFailed(w) \/ WriteCompleted(w) \/ Discard(w)

StoreError(w) == CaughtStoreError(w) \/ EscapedStoreError(w)
-----------------------------------------------------------------------------
(* The process.                                                            *)

\* The server stops: requests in flight have been answered, and the lifespan
\* waits for every submitted job (job_pool.shutdown(wait=True)).
Shutdown ==
    /\ phase = "up"
    /\ \A r \in Requests : request[r].pc = "idle"
    /\ phase' = "draining"
    /\ UNCHANGED <<persistent, process, bounds, history>>

Stop ==
    /\ phase = "draining"
    /\ queue = <<>>
    /\ \A w \in Workers : worker[w].pc = "idle"
    /\ phase' = "stopped"
    /\ UNCHANGED <<persistent, process, bounds, history>>

\* The process dies at any point: only the database is left.
Crash ==
    /\ phase \in {"starting", "up", "draining"}
    /\ crashes < MaxCrashes
    /\ crashes' = crashes + 1
    /\ phase' = "crashed"
    /\ queue' = <<>>
    /\ worker' = [w \in Workers |-> IdleWorker]
    /\ request' = [r \in Requests |-> IdleRequest]
    /\ cancelRequested' = {}
    /\ unreconciled' = {}
    /\ UNCHANGED <<persistent, storeErrors, history>>

\* Mutation: startup takes queued analyses for untouched ones.
RestartSkipsQueued ==
    /\ phase \in {"stopped", "crashed"}
    /\ phase' = "starting"
    /\ cancelRequested' = {}
    /\ unreconciled' = {a \in Ids : row[a] \in NonTerminal \ {"queued"}}
    /\ UNCHANGED <<persistent, queue, worker, request, bounds, history>>

\* create_app: a new pool with an empty flag set, and the selection of the
\* analyses a previous process left unfinished.
Restart ==
    /\ phase \in {"stopped", "crashed"}
    /\ phase' = "starting"
    /\ cancelRequested' = {}
    /\ unreconciled' = {a \in Ids : row[a] \in NonTerminal}
    /\ UNCHANGED <<persistent, queue, worker, request, bounds, history>>

ReconcileOne(a) ==
    /\ phase = "starting"
    /\ a \in unreconciled
    /\ row' = [row EXCEPT ![a] = "failed"]
    /\ unreconciled' = unreconciled \ {a}
    /\ stranded' = stranded \ {a}
    /\ UNCHANGED <<retryOf, queue, worker, request, cancelRequested, phase,
                   bounds, asked>>

Serve ==
    /\ phase = "starting"
    /\ unreconciled = {}
    /\ phase' = "up"
    /\ UNCHANGED <<persistent, process, bounds, history>>

ProcessGoesOn == Stop \/ Restart \/ Serve \/ (\E a \in Ids : ReconcileOne(a))
-----------------------------------------------------------------------------
Next ==
    \/ \E r \in Requests : RequestStarts(r) \/ RequestContinues(r)
    \/ \E w \in Workers : WorkerGoesOn(w) \/ StoreError(w)
    \/ ProcessGoesOn \/ Shutdown \/ Crash

Spec == Init /\ [][Next]_vars

\* A running thread is scheduled, a request that began goes on, and a process
\* that ended is started again.  Nobody has to send a request.
Fairness ==
    /\ \A w \in Workers : WF_vars(WorkerGoesOn(w))
    /\ \A r \in Requests : WF_vars(RequestContinues(r))
    /\ WF_vars(ProcessGoesOn)

FairSpec == Spec /\ Fairness
-----------------------------------------------------------------------------
(* Properties.                                                             *)

\* Types, and: a thread has an analysis in hand exactly while it works on it,
\* a worker's copy is in a state its next step makes sense for, and only
\* startup selects analyses to reconcile.
TypeOK ==
    /\ row \in [Ids -> Lifecycle!Statuses]
    /\ retryOf \in [Ids -> Ids \cup {NoId}]
    /\ queue \in Seq(Ids)
    /\ worker \in [Workers -> [pc : WorkerPCs, job : Ids \cup {NoId},
                               held : NonTerminal \cup {"none"}]]
    /\ request \in [Requests -> [pc : RequestPCs, id : Ids \cup {NoId}]]
    /\ \A w \in Workers :
           /\ worker[w].pc = "idle" <=> worker[w].job = NoId
           /\ worker[w].pc \notin {"idle", "get", "discard"}
                  => worker[w].held \in NonTerminal
           /\ worker[w].pc = "advance" => worker[w].held # "detecting"
           /\ worker[w].pc = "complete" => worker[w].held = "detecting"
    /\ \A r \in Requests : request[r].pc = "idle" <=> request[r].id = NoId
    /\ cancelRequested \in SUBSET Ids
    /\ phase \in Phases
    /\ unreconciled \in SUBSET Ids
    /\ unreconciled # {} => phase = "starting"
    /\ crashes \in 0..MaxCrashes
    /\ storeErrors \in 0..MaxStoreErrors
    /\ asked \in [Ids -> {"no", "in_time", "late"}]
    /\ stranded \in SUBSET Ids

Queued(a)     == \E i \in 1..Len(queue) : queue[i] = a
Works(w, a)   == worker[w].job = a
Submits(r, a) == request[r].pc = "submit" /\ request[r].id = a
Owned(a) == \/ Queued(a)
            \/ \E w \in Workers : Works(w, a)
            \/ \E r \in Requests : Submits(r, a)

\* An analysis is handed from the request that added it to the queue to one
\* worker, and is never in two of these hands: run_analysis is never run
\* twice for it, so its writes never meet another worker's.
OneOwner ==
    /\ \A i, j \in 1..Len(queue) : queue[i] = queue[j] => i = j
    /\ \A v, w \in Workers :
           worker[v].job = worker[w].job /\ worker[v].job # NoId => v = w
    /\ \A r, s \in Requests :
           /\ request[r].pc = "submit" /\ request[s].pc = "submit"
           /\ request[r].id = request[s].id
           => r = s
    /\ \A a \in Ids :
           /\ ~ (Queued(a) /\ \E w \in Workers : Works(w, a))
           /\ ~ (Queued(a) /\ \E r \in Requests : Submits(r, a))
           /\ ~ ((\E w \in Workers : Works(w, a))
                 /\ \E r \in Requests : Submits(r, a))

\* replace overwrites the whole row from a copy the worker read once: this is
\* sound because the row it overwrites is still in the state of that copy, or
\* is gone (pool.py: no route writes the row of a running analysis).
CopyIsCurrent ==
    \A w \in Workers :
        LET a == worker[w].job IN
        /\ worker[w].pc = "get" => row[a] \in {"queued", "deleted"}
        /\ worker[w].pc = "discard" =>
               \/ row[a] \in Terminal \cup {"deleted"}
               \/ row[a] \in NonTerminal /\ a \in stranded
        /\ worker[w].pc \notin {"idle", "get", "discard"} =>
               row[a] \in {worker[w].held, "deleted"}

\* Whole rows are only overwritten by the one worker that has the analysis,
\* from a copy that misses nothing.
OneWriter == OneOwner /\ CopyIsCurrent

\* While the process runs, and after it has stopped in good order, every
\* unfinished analysis is in the hands of a thread that will finish it, but
\* for those whose last write the store refused: none is left behind by a
\* restart (domain-model.md 5: interrupted analyses become failed).
UnfinishedIsOwned ==
    phase \in {"up", "draining", "stopped"} =>
        \A a \in Ids : row[a] \in NonTerminal => Owned(a) \/ a \in stranded

\* An analysis that retries another points at a failed one for as long as
\* that one exists, never at itself (retry_analysis: FAILED only).
RetryOfFailed ==
    \A a \in Ids : retryOf[a] # NoId =>
        retryOf[a] # a /\ row[retryOf[a]] \in {"failed", "deleted"}

\* A cancellation that was flagged before the worker's last checkpoint is
\* honoured: the analysis does not complete, whatever crashes in between.
CancelInTimeIsHonoured ==
    \A a \in Ids : asked[a] = "in_time" => row[a] # "completed"

\* An analysis ends cancelled only if a client asked for that analysis.
CancelledOnRequest ==
    \A a \in Ids : row[a] = "cancelled" => asked[a] # "no"

\* Between the client's request and the row: what was asked in time happens,
\* and nothing happens that was not asked.
CancellationsAreExact == CancelInTimeIsHonoured /\ CancelledOnRequest

\* The states a client can observe follow the promised life cycle.
ImplementsLifecycle == Lifecycle!Spec

\* run_analysis's docstring: the last checkpoint is immediately before the
\* completed state is persisted, "so a cancellation requested during the
\* final stage is never silently missed".  Read once nobody deletes a either.
CancelIsNeverMissed ==
    \A a \in Ids :
        asked[a] # "no" /\ (\A r \in Requests : request[r].id # a)
            => row[a] # "completed"

\* Every analysis ends, unless the store refused its last write: also one
\* that is to be cancelled, retried, rerun or picked up by a restart.
EveryAnalysisEnds ==
    \A a \in Ids :
        row[a] \in NonTerminal ~> (row[a] \notin NonTerminal \/ a \in stranded)
=============================================================================
