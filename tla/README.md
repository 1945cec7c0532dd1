# TrustTable: specifications, model checking and proofs

TrustTable is a local web application: a FastAPI backend over SQLite and a
React frontend.  A user uploads a table, the backend analyses it in a thread
pool, and the user then edits the inferred dataset context, reviews findings,
writes rules, confirms relationships, and asks for AI explanations.  This
directory holds TLA+ specifications of the parts of the backend that share
state between threads, processes and restarts, of what an analysis
calculates, and of what is asked of a language model and kept of its answers;
the TLC configurations that check them on small instances; and TLAPS proofs for
every instance.  Paths below are relative to `src/backend/src/trusttable_backend/`.

`PROJECT.json` gives, for every definition that models code, the lines it
models (`map`), for every hazard the line where it bites and the properties
aimed at it, and for every property a plausible defect of the code (`mutants`)
that the property's run detects.

## 1. The system

### Components, their state and their operations

| component | code | state | operations | what makes it correct |
|---|---|---|---|---|
| Analysis jobs | `api/v1/analyses.py`, `jobs/pool.py`, `analysis/service.py`, `persistence/store.py`, `persistence/reconciliation.py`, `main.py` | rows of `analyses`, executor queue, worker locals, `_cancel_requested` | create, cancel, delete, retry, rerun; run_analysis and its checkpoints; shutdown, start | one owner per unfinished analysis; writes from current copies; every analysis ends; cancellations honoured in time and never invented |
| Staged uploads | `persistence/staging_store.py`, `api/v1/staged_uploads.py` | rows of `staged_uploads` with an expiry | stage, inspect, run (peek, consume), discard, purge (at start too) | a reference starts one analysis at most; the two bounds hold; no damaged or expired bytes are run |
| Edits of a completed analysis | `api/v1/analyses.py`, `analysis/service.py`, `persistence/store.py` | one row of `analyses`, changed in columns | first read of the context (infer, refine by a model, count the call), PUT context, answer, finalize, review, rules, delete | rows that requests could have written; no lost counts; no resurrection |
| AI explanations | `api/v1/analyses.py`, `jobs/enrichment_pool.py`, `persistence/enrichment_store.py`, `enrichment/*.py`, `effective_settings.py` | rows of `finding_enrichments`, executor queue, the setting, the count of calls | start, take over, call, record, finish, interrupt at start | shown only under the binding it was made under; bounded; owned; counted |
| Confirmed relationships | `analysis/confirmed_relationships.py`, `domain/confirmed_relationship.py`, `persistence/relationship_store.py` | insert-only table of versions, a lock per store object | confirm, replace, withdraw | linear histories; caps; withdrawal always possible |
| Row windows | `analysis/service.py` (`_build_row_window`, `_fit_window_to_size_bound`) | none: a computation | grow the window on alternate sides | fits the bound; maximal; honest about it |
| Reports | `exports/report_*.py` | snapshots | build from a completed analysis | a snapshot is of one consistent state |
| Settings | `persistence/settings_store.py`, `product_settings.py`, `effective_settings.py`, `api/v1/settings.py` | a row with a version, in a database that several processes may use | show, change or reset if the version is the expected one | no two writes for one version; nobody changes a value they have not seen |
| AI readiness | `ai_status.py`, `ai_readiness.py`, `api/v1/ai_readiness.py`, `ai_provider/location.py` | a gate and the time of the last test, in each process | resolve, describe, check, test the connection, refuse while a test runs or too soon | one test at a time, of this machine only, and the gate is released; four routes say the same of one setting |
| AI boundary | `ai_boundary/`, `context_inference/`, `explanation/ai_explanation.py`, `rules/ai_generation.py`, `ai_provider/` | none shared: one call's prompt, attempts and answer | serialise, ask, validate, ask again, keep, record | cells are not sent; what is kept of an answer was grounded in what was sent; a call ends and is told truly |
| Built-in guidance | `explanation/guidance.py` | none | choose texts for a finding | wording |
| Checks of a file | `parsers/`, `profiling/`, `detectors/`, `risk/scoring.py`, `rules/generation.py`, `rules/engine.py`, `run_analysis` | none shared: one run's table, profile, results | parse, profile, detect, score; offer and execute a rule | cells keep their place; stages agree on what they see; one failing detector hurts no other |
| Explanation panel | `frontend/src` | React state, a poll timer | ask, poll, stop, show | no answer of an older question is shown |
| Exports | `exports/` | none shared | render a snapshot | layout |

### How they interact

* Most HTTP routes are synchronous functions, which the framework serves on
  concurrent threads; the two upload routes and the AI status and readiness
  routes are coroutines of the event loop, which runs beside those threads.
  They share the SQLite stores, the two pools and the cancellation set, and
  nothing else.
* `POST /analyses` and `POST /staged-uploads/{ref}/run` add a row and submit
  its id to the `JobPool`; the worker reads the row and then overwrites it at
  every stage.  No route writes the row of an unfinished analysis, save DELETE.
* Once an analysis is completed only routes write its row, all through
  `AnalysisStore.replace`, apart from the count of model calls, which has its
  own operation on the same row.
* An explanation is bound to the version of the confirmed context (not to the
  context) and to the effective AI setting.  Its task runs in a second pool and
  looks both up again.
* DELETE removes the row and, by its transaction, what belongs to it; tasks of
  both pools may still be running for it.
* At start the process fails what an earlier one left unfinished
  (`reconcile_interrupted_analyses`, `reconcile_interrupted_enrichments`) and
  removes the staged uploads that have expired, before it serves.

### What is hard

1. Read, decide, write: every route that changes a row decides from a copy.
   SQLite takes its write lock at the first change and not at the load, so
   even `replace` is two accesses.
2. A long call in the middle: a model call takes seconds, during which the
   context, the setting and the analysis may change or go.
3. A cancellation is a flag that is looked at on four occasions.
4. Shutdown, crash and restart between any two steps; a restart that itself
   dies while it reconciles; a write that fails, also the write of a failure.
5. Several store objects or processes over one database: only SQL constraints
   hold between them.
6. Four stages read one table, each in its own way: profiling and rules by a
   column's position, detectors by its key, scores by the findings; and each
   compares with the same thresholds again.
7. Bounds: staged bytes and count, preparing explanations, versions and active
   relationships, characters of a window, attempts of a call.
8. Two reads for one answer: `GET /settings` reads the value and then its
   version, and a change is answered with the value resolved once more.
9. A model may answer anything.  The schema that a runtime is given, the
   validator that reads the answer and the code that builds a result from it
   are three translations of one contract.

## 2. The modules

| module | models | relation |
|---|---|---|
| `AnalysisLifecycle` | what clients may observe of an analysis | abstract |
| `AnalysisJobs` | analysis jobs | implements `AnalysisLifecycle` |
| `AnalysisJobsProofs` | theorems about `AnalysisJobs` | |
| `OneTimeReference` | what a staging reference promises | abstract |
| `Staging` | staged uploads | implements `OneTimeReference` |
| `StagingProofs` | theorems about `Staging` | |
| `Contexts` | what edits make of a row's context, and how `replace` merges a copy into the row, as operators | |
| `ContextEdits` | edits of a completed analysis | uses `Contexts` |
| `ContextEditsProofs` | theorems about `ContextEdits` | |
| `Enrichment` | AI explanations, with the setting and the row they depend on, and the edits of that row | uses `Contexts` |
| `EnrichmentProofs` | theorems about `Enrichment` | |
| `VersionedSetting` | what a setting promises to those who write it | abstract |
| `AiSettings` | what the setting and the configuration amount to, as operators | |
| `Settings` | the stored setting, its routes, the connection test | implements `VersionedSetting`, uses `AiSettings` |
| `SettingsProofs` | theorems about `Settings` | |
| `RelationshipHistory` | what a relationship's history promises | abstract |
| `Relationships` | confirmed relationships | implements `RelationshipHistory` |
| `RelationshipsProofs` | theorems about `Relationships` | |
| `RowWindow` | the window algorithm, one step per loop turn and side | |
| `Tables`, `Profiling`, `Detectors`, `TrustScore`, `ValidationRules` | the algorithms of an analysis, as operators on tables | each uses the ones before it |
| `Checks` | one run of an analysis over a file, and the rules offered for its findings | composes the five |
| `ChecksProofs` | theorems about `Checks` and the modules it composes, and about `RowWindow` | |
| `Json`, `PromptEvidence`, `OutputContract` | JSON values; what a prompt holds; the schemas of answers | each uses the one before it |
| `FindingAnswers`, `ContextAnswers`, `RuleAnswers` | the three kinds of call: request, schema, validator, what is kept, the mock's answer | use `OutputContract` |
| `ModelCalls` | one call from the evidence to what is kept of the answer | composes the three |
| `ModelCallsProofs` | theorems about `ModelCalls` and the modules it composes | |
| `MC*` | symmetry sets and functions for TLC, with one `.cfg` per run | |

Conventions.  A step is one access to state that threads share: one SQLite
transaction or one statement of it where another writer can come between, one
use of a lock-protected set, one use of an executor's queue.  What a thread
computes between two accesses is private and belongs to the second.  A thread
is a record: where it is (`pc`) and what it holds.  Variables marked *history*
record what properties refer to; no guard reads them.  Definitions headed
*Mutation* are the defects of section 3 and are used by no specification.

### AnalysisJobs

`row` is the `state` column; `queue` and `worker` the executor; `request` the
route threads that are between two accesses; `cancelRequested` the pool's set;
`phase` and `unreconciled` what `lifespan` in `main.py` is doing.

| action | code |
|---|---|
| `Create` | `create_analysis` and `run_staged_upload`: add the row |
| `ReadForRetry`, `ReadForRerun`, `AddAgain`, `AddFails` | `retry_analysis`, `rerun_analysis`: look at the old row, then add the new one |
| `Submit` | `JobPool.submit` |
| `ReadForCancel`, `ReadForDelete`, `Flag`, `Delete` | the cancel and delete routes: look at the state, flag it, delete |
| `Take`, `Get`, `Check`, `Advance`, `RunStage`, `WriteCompleted`, `WriteCancelled`, `WriteFailed`, `Discard` | the worker: `run_analysis` with its checkpoints, its stage writes, its `except`, and the pool's `finally` |
| `CaughtStoreError`, `EscapedStoreError` | a store write that fails inside or outside the `try` |
| `Shutdown`, `Stop`, `Crash`, `Restart`, `ReconcileOne`, `Serve` | the process |

`Shutdown` waits for the requests in progress, as the server does before the
`lifespan` ends, so that no `Submit` is refused by an executor that is shut
down; the next start would end such a row like any other unfinished one.
`Replace` leaves a deleted row deleted.  The stages are kept apart because a
worker's copy goes through them; their results are a choice.

### Staging

`rows` holds the file, its expiry and the digest that was recorded; `caller`
the request threads; `now` the clock.  Each request reads the clock before its
transaction, so the transaction may be late for its time.  `Purge`, `Insert`
(one conditional `INSERT ... SELECT`), `Look`, `Load`, `ConsumeRead` and
`Consume` (read, conditional `DELETE`, verification), `Start`, `Discard` are
the store's accesses; `Damage` changes stored bytes behind its back; `Restart`
removes the rows that have expired.

### Contexts and ContextEdits

`row` holds the context as *who supplied it and which edits it contains*, the
version, the answered questions, `finalized`, the rules, one review and the
count.  Edits are numbered, so that a property can tell which of them a row
contains.  `Load` and `Update` are the two accesses of `replace`; `Merged`
writes the columns in which the caller's object differs from the row `replace`
loaded, as SQLAlchemy does.  `Infer*`, `Call`, `Augment*` and `Record` are
the first read of the context; `Write` applies an edit to a copy.  What an edit
makes of a row (`InferContext`, `ConfirmFields` and so on), which rows can be
read (`IsReadable`) and what `replace` writes (`Merged`) are in `Contexts`, for
this module and the next.

### Enrichment

`rows` holds an explanation's state and its binding (context version and
model); `deployed` what the installation offers, `stored` the setting, and
`CurrentAi` what both resolve to.  `Begin` is one transaction, the upsert of
`EnrichmentStore.begin`, and `Complete` its conditional update.  A task does
`Take`, `Get`, `Call`, `Record`, `Complete`; `RecordFails` and `CompleteFails`
are failing writes.  `Submit` and `SubmitRefused` are the route after `begin`.
`State` is `derive_state`: what a client is shown for a stored row under the
binding in force.

The context of the analysis is not a given.  `analysis` is its row, as far as
the context is concerned, and `editor` the requests that change it, in the
steps in which they share the row: `EditorReads` (the copy, and what one of the
`Operations` makes of it), `EditorLoads` and `EditorUpdates` (the two accesses
of `replace`).  These requests are those of `ContextEdits`, reduced to the
columns an explanation depends on: a first read of the context and what follows
it are operations of their own, and a review or a rule is the operation
`other`, which changes none of the columns and can still write old ones back.
`Version` is what a binding takes of a row and `Confirmed` what a model is told
of it; they are two things, and `sent` remembers the second for each call.
`overlapped` (history) is set when a change is written over another one.

### Relationships

`versions` is the table.  `Decide` takes the store object's lock and applies
`decide_transition` to the history it reads, `Insert` adds the version unless
the key exists or the analysis is gone, `Conflict` is the refusal.  Writers of
one store object exclude one another; those of two do not.

### RowWindow

A file is given by the characters before each of its rows, so that a window's
size is a difference.  `Add(s)`, `Close(s)` and `Skip(s)` are the two halves of
the loop's body.

### Tables, Profiling, Detectors, TrustScore, ValidationRules, Checks

`Parsed(file)` is the table of a CSV file or a worksheet, `Profile(t)` its
column types and metrics, `Found(t, p)` and `Observed(t, p)` what each of the
26 detectors says, `Trust(findings, t, p)` the assessment, `Proposal(f, t, p)`
the rule for a finding, `IsRule(rule)` what may be stored as a rule, and
`Execute(rule, t)` its outcome row by row.  `Checks` puts them in the order of
`run_analysis`: `Parse`, `RunProfile`, `RunDetectors` (any of `Fragile` may
raise), `Complete`, or `Fail`; then `OfferRule` (`generate_rule_proposal`), and
`AcceptOffer` or `WriteRule` (`create_rule`, for an offer or by hand).  A rule's
parameters are a function from the names of those that are not `None`, so that
what `_check_parameters` refuses is said of its domain.  Each runner is
translated on its own, although some could share a definition.

How one cell reads is a parameter: `Read[v]` gives the stripped and lower-case
form, the shape, the number, the day, and the families of dates, booleans,
amounts and instructions that the code's own patterns assign to it, and
`ReadName` does the same for column names; `ReadName[n].keys` is a name's key as
it is and with each suffix that it can be given, of which there are as many as
the limit on columns (`MaxColumns`) lets a table have.  `ReadingAssumption`
says the little that the code relies on: a blank cell is text, a text that is
`nan` is numeric and not finite, and two texts with the same number are both
finite or both not.  `KeysAreDistinct` is that `_2`, `_3` and so on differ.
`FilesAreFiles`, `NamesAreRead`, `HandWrittenAreFiles` and `RequestsAreRequests` say that files and requests are
what the readers and the routes' schemas yield.  `Sorted` gives the order
statistics of a column, from which the quartiles are taken.  What is left is where cells come
from, how columns are told apart, which values are counted and compared with
what, and that is translated from the code.  A detector reads a cell with
`LookUp`, by the column's key, as it does in the code, and a metric with `At`,
by position; numbers are scaled (quartile fences by 8, trust by 1000 times the
number of rows) so that all arithmetic is exact.  The code's is in floating
point.

### AiSettings and Settings

`row` is the setting's value and version, 0 while there is no row; `deployed`
the configuration of the installation; `client` each client's request; `gate`
the connection test's gate of each process; `screen` (history) what a client
was shown.

| action | code |
|---|---|
| `Load`, `LoadVersion` | `GET /settings`: the two reads |
| `Ask` | PUT and DELETE: `_check_writable`, then the store's `write` or `reset` |
| `Read`, `Commit`, `CommitRefused`, `WriteFails` | `_write`, under the lock of the store object: read, compare, INSERT or conditional UPDATE |
| `Respond`, `AnswerRefused` | the answer with the value resolved again; the 409 |
| `StartTest`, `TestRefused`, `BeginTest`, `EndTest` | `POST /ai/connection-test` and its `ConnectionTestGate` |
| `Tick`, `Restart` | the monotonic clock; the installation, perhaps configured otherwise |

`AiSettings` holds `Resolve`, `Status`, `Readiness` and `Refusal`, the four
functions from a configuration and a stored value to what clients are told.  A
reset stores the value `unset` with the next version and does not delete the
row.

### Json, PromptEvidence, OutputContract, the answers and ModelCalls

`call` is the attempt a request is in, `told` (history) the words and numbers
that were shown to a provider, `analysis` what the routes keep.

| action | code |
|---|---|
| `Build` | `create_provider` and `build_prompt_envelope` |
| `Post`, `FormatRefused`, `ProviderFails` | `LlamaCppProvider.complete`: the request, once more without `response_format`, or an error |
| `ModelAnswers`, `MockAnswers` | an answer is judged: used, asked for again with its reasons, or rejected |
| `KeepFinding`, `KeepContext`, `Reread`, `KeepRule` | what the three routes keep of it |
| `Record` | `record_ai_enrichment_call` |
| `AcceptOffer`, `OthersEdit`, `OthersDelete` | the offered rule is created; another request edits or deletes the analysis meanwhile |

`Sent` is `serialize_evidence_for_provider`, `ConfirmedContext` the part of a
context that a prompt may hold, `Grounding` the numbers and words an answer may
use.  `FindingReasons`, `AnswerReasons` and `RuleAnswerReasons` are the three
validators; `FindingSchemaAllows` and `RuleSchemaAllows` say which answers the
schemas of `response_format` allow, object by object as the two functions that
build them go.  `InferredContext` is the heuristic inference that a model may
refine.  `Spellings` are the candidates of the list a finding's evidence has,
the words `extract_ai_assist_candidates` takes from it.

A value is walked four levels deep (`Within`), which is as far as the contracts
of the program reach: an answer, a list in it, an entry, a list in the entry,
a word.  The assumptions `CasesAssumption` and `AnswersAreObjects` say that
evidence and answers are JSON and no deeper, and that a finding has evidence
(`FindingCandidate` refuses none); `CellWordsAreOfCells` says what
`OnlyFactsAreTold` is about: the words called the content of cells are none
that the program writes itself, and no names of columns.

A word is any string.  What the code reads off its characters is the parameter
`Prose`: its length, whether it is blank or a bare token, the numbers and
consequences it mentions, and what the lexical screens of `claim_screen.py` say
of it.  Everything else is translated: which text is screened by which rule,
which fields are bounded how, which names must be known, what counts as a
number that was shown.

## 3. The runs

Every property of a passing run has at least one mutant of a mapped definition
(a dropped guard, a missing re-check, a swapped order) under which the same run
reports it violated.

| run | specification | bounds | result |
|---|---|---|---|
| `jobs` | `FairSpec` | 2 analyses, 2 workers, 1 request, 1 crash, 1 failing write | passes, 851,144 states |
| `jobs_cancel_missed` | `Spec` | 1 analysis, 1 worker, 1 request | refutes `CancelIsNeverMissed` |
| `staging` | `Spec` | 3 references, files of 1 and 2 bytes, 2 callers, room for 2 files and 3 bytes, 2 instants, 1 crash, 1 damage | passes, 819 k |
| `context` | `Spec` | 2 threads, 3 changes | passes, 7.2 M |
| `context_uncounted_call`, `context_unreadable_row` | `Spec` | 2 threads, 2 changes | refute `ZeroMeansNoCall`, `StoredRowIsReadable` |
| `enrichment` | `FairSpec` | 2 findings, workers, requests, editors and models, 1 preparing, 2 posts; any 2 of: changes of the analysis (2), switches (2), restarts (1), failing writes (1) | passes, 810 k |
| `relationships` | `Spec` | 3 ids, 2 pairs of columns, 2 stores, 3 writers, caps 1, 2 and 3 | passes, 276 k |
| `row_window` | `FairSpec` | 6 rows, 8 characters, 3 per side, 5 in all | passes, 183 k |
| `checks` | `Spec` | 3 820 files of 1 to 5 columns and up to 6 rows, 2 detectors that may raise, some 1 200 rules by hand over 7 of the files | passes, 94 k |
| `settings` | `Spec` | 2 clients, 2 processes, 3 configurations, 2 versions, 2 instants, 1 restart, 1 failing access | passes, 666 k |
| `model_answers` | `Spec` | 6 cases, 3 providers, some two thousand answers to a call | passes, 76 k |

Why the bounds are enough.  *Jobs*: a retry needs an old and a new analysis;
ownership and cancellation are violated by two hands, of which the workers are
two and a request is a third; with two workers and two
analyses the queue can be empty, partly and fully consumed; one crash can hit
every phase, start included.  *Staging*: the third reference is the one that
does not fit; the files of different sizes reach the bound of bytes before the
bound of the count, and the reverse; a file can expire exactly when it is
looked at.  *Context*: three changes let an edit and a finalization meet the
first read, and a late write follow two others.  *Enrichment*: with room for
one the second finding is refused; the second post takes over what the first
began, with a binding that may be older or newer.  Two events in
all (`MaxEvents`) give two edits, one after the other or overlapping, an edit
and a switch, off and on, either with a crash or a failed write before or after
it, and a restart with another model; each mutant needs no more.  The
context is final from the start, so that the edits are those after
finalization, which a binding has to tell apart; what comes before it (bindings
have version 0 and the model is told nothing) is in the theorems.
*Relationships*: every cap can be reached and exceeded by a writer in the
other store; the third writer shares a store with the first.  *Row window*:
rows of 1 to 8 characters, single rows larger than the bound, windows limited
by request, by the file's ends, by side and by size, alone and together.
*Checks*: the files are families, one for each kind of value (text and its
spellings, numbers at the limits of the rules, dates around the analysis date,
booleans, emails, instructions), one for headers that ask for the same key, for
repeated and uneven rows, for gaps, for line totals, and for worksheets with
blank, missing and unordered rows.  Each of the 26 detectors finds something in
one of them, and each of the eleven kinds of rule is offered; quartiles need
four rows and runs of gaps five.  Thresholds that are percentages of many rows
are set so that four rows reach them from both sides.  Rules are written by
hand for every type, with each parameter missing, at its limits and beyond
them, over two columns in which nothing, numbers, infinity, nan and text meet
in every way.  *Settings*: two clients
in two processes meet at the row with and without a common lock; two versions
let a stale write follow a first and a second one; the configurations leave the
setting to its users, with a runtime on this machine or elsewhere, or manage it;
the property about what routes say ranges over all configurations in every
state.  *Model answers*: a good answer, and what differs from it at one place
by a value of another type, a bound exceeded by one, an unknown or repeated
name, a number or a consequence that was or was not shown, a claim; and what
differs at two of the places where two checks meet.  The cases have cells in
their evidence, a finalized context and none, more evidence than an answer may
refer to, columns with and without keys, and spellings to choose from.

Deadlock is checked in the jobs and context runs.  It is switched off where
the model really stops: references are drawn once and the clock ends
(`staging`, `settings`), posts and switches are bounded (`enrichment`), nothing
follows a deletion (`relationships`), a computation or a call ends
(`row_window`, `checks`, `model_answers`).

### What the passing runs show

* **Jobs.** `OneWriter`: an analysis is never run twice, so no two workers
  write its row (`OneOwner`), and the whole-row writes of a worker never undo
  another's, because the row is as in the copy or gone (`CopyIsCurrent`).
  `UnfinishedIsOwned`: while the process serves, each unfinished row has a
  thread that will finish it, or its last write failed.
  `CancellationsAreExact`: a flag set before the last checkpoint keeps the
  analysis from completing (`CancelInTimeIsHonoured`), and a flag left over
  from one analysis cancels no other (`CancelledOnRequest`).
  `ImplementsLifecycle`: clients see the promised life cycle and no other.
  `EveryAnalysisEnds`: liveness.
* **Staging.** `WithinBounds`; `RunsOnlySoundFiles`: an analysis is
  created from the bytes its reference was drawn for, and a consumed row was
  not expired at the time the request read;
  `ImplementsOneTimeReference`: one analysis at most per reference, and a
  reference once lost stays lost.
* **Context.** `RowIsConsistent`: unless two updates overlapped, the row is one
  that requests could have written one after another; `CountIsKept`: counts
  are never lost to stale whole-row writes; `DeletedForGood`.
* **Enrichment.** `ShownIsCurrent`: what is shown as ready was made under the
  version of the context, the model and the switch in force; and until a change
  of the analysis is written over another one, for exactly the context that is
  confirmed now.  After that it may be shown for another context of the same
  version (observation 13).  `RowsAreAccountedFor`: no more than the bound are
  preparing, each of them is in a thread's hands, and none outlives its
  analysis.  `CallsAreCounted`: calls are counted before a result is visible,
  and once.  `PreparingEnds`: liveness.
* **Relationships.** `StoredVersionsAreSound`: versions have no gap, no fork,
  nothing follows a withdrawal, and none outlives its analysis; `CapsHold`:
  exactly within a process, and with one entry of slack for each further store
  object; `ImplementsHistory`.
* **Row window.** `WindowIsRight`: it fits, nothing more fits, and it says
  truly whether the size limited it; `WindowEnds`.
* **Checks.** `RowsKeepTheirPlace`: no worksheet row moves when blank rows
  precede it.  `CountsAgreeWithRows`: as many rows are flagged by key as the
  profile counted by position, for seven pairs of metric and detector, and a
  column called mixed shows two shapes.  `FailureOnlyRaisesTrust`: scores and
  labels are monotone in the findings, so a detector that raises takes nothing
  from the others and never lowers the trust (it raises it, silently).
  `RulesAreRight` is three: detector, evidence, generator and rule engine agree
  on every bound, also once the offer is accepted (`RuleFailsWhatItFlags`, with
  its exceptions, of which two are worth knowing: the rule for repeated rows
  skips every row with a missing cell, and observation 9); a rule that may be
  stored can be executed (`StoredRulesRun`); and rules of two types that say
  the same fail the same rows (`RunnersAgree`).
* **Settings.** `ImplementsRegister`: of two writes for one version one is
  stored, also of the first two and in two processes, and a refusal names a
  version that the setting has had.  `EditsAreInformed`: a client that quotes
  the version it was shown replaces the value it was shown.  `TestsAreSound`:
  one test at a time and not too soon, a gate that is shut by a running test
  only, and only this machine is probed although the setting may change after
  it was looked at.  `SaysTheSame`: the setting, the status, the checklist and
  the test agree in every configuration.
* **Model answers.** `AcceptedIsGrounded`: cell content and unconfirmed context
  are not sent; every number and consequence in what is kept was shown to the
  model; every reference is to the evidence, columns or context of the call;
  a model refines the probable domain of a context and nothing else; a rule's
  value is one of the spellings found.  `SchemaAndValidatorAgree`: what the
  validator accepts the schema allows, and what the schema allows is rejected
  for its content only.  `CallsEndAsPromised`: attempts are bounded, the count
  of calls says truly how the call ended and what was sent, and the mock
  provider's answers are accepted.

### What the violated properties show

1. `CancelIsNeverMissed`: `run_analysis` looks for a cancellation for the last
   time before it computes and writes the completed row; a request accepted in
   between has no effect, although its docstring says otherwise.
2. `ZeroMeansNoCall`: if the context is edited during the model call of the
   first read, the route raises before it records the call.
3. `StoredRowIsReadable`: two overlapping column-wise updates can store an
   analysis that is finalized and has no context, which the domain object
   refuses to load.

The passing `context` run shows what holds in spite of 3: its `RowIsConsistent`
is stated up to the first overlapping update.

### Observations

Properties are stated as the code behaves.  Where that took an exception, or
modelling showed something a reader of the code should know:

1. `run_context_inference` and `validate_model_output` say they never raise.
   An accepted answer whose narrative is empty, and an answer whose reference
   lists hold a list or an object, make them raise; the routes treat that as
   an error of the provider.  A narrative of blanks is stored as the domain.
2. The mock's answer to a finding with more than ten columns or pieces of
   evidence is rejected by the validator, which allows ten references.
3. The task of a rule proposal points the model at `distinct_casings` in the
   evidence, which `serialize_evidence_for_provider` withholds: the spellings
   reach the provider in the schema only, and not when the server refuses
   `response_format` and is asked again without it.
4. `GET /settings` may show a value with the version of the next write, and the
   answer to a change may show the value of a later one with its own version.
   The first lets a client replace a value it has not seen, and
   `EditsAreInformed` excludes it; an edit from the second is refused.
5. An override that names a runtime and a blank model is complete in the
   checklist, and has no runtime in the connection test.
6. If the analysis is deleted while a rule is proposed for it, the route's
   `finalize_ai_assisted_rule` raises what the route does not catch.
7. The question about the probable domain is still asked after a model has
   refined it.
8. The role and the urgency of a remediation are bounded in length but not
   screened for claims and numbers as the other texts are.
9. An offered rule names its columns, and `create_rule` takes the last column
   of a name: where two columns share one, accepting the offer for the first
   stores a rule on the second, with the second's outcome.
10. `ValidationRule` says that a pattern is valid and checks its length only.
    A pattern that does not compile is stored, and its rule reports an error
    and no rows each time.
11. The text `nan` is in every range, and two infinite cells are equal in a
    comparison and not within any tolerance in `approximate_equality`.
12. `get_analysis_context` stores a refined context before it counts the call
    that refined it: whoever reads the analysis in between sees the model's
    work and a record without calls.
13. A binding holds the version of the context and not the context
    (`enrichment/binding.py`).  Two edits made from copies of one version are
    both accepted and store the same next version, also after finalization, and
    the stale write of a review or a rule brings an old version back, which the
    next edit gives again.  An explanation made for one context is then shown as
    ready under another, where `docs/ui-specification.md` (12.5) has it stale.
    `ShownIsCurrent` excludes it by `overlapped`; without that condition TLC
    finds it with two editors.
14. Two first reads of a context may both find none and both call the model.

### Fairness

`FairSpec` of `AnalysisJobs` and `Enrichment` has weak fairness for each worker
thread, for a request that has begun (in `Enrichment` not for one that changes
the analysis, for which nothing there waits), and for the process (draining, starting,
reconciling, serving).  Threads are scheduled by the operating system, no
thread waits for another except for SQLite's lock, which is held for a single
transaction, and an installation that stops is started again.  There is no
fairness for clients, crashes, shutdowns or failures: nobody has to ask for
anything.  A model call is assumed to return: the provider has a timeout.
`RowWindow` has weak fairness of its only process: a function call runs.

## 4. The proofs

All theorems are proved for every value of the constants under the named
assumptions of the modules (`NoIdIsNotAnId`, `BoundsAreNaturals`;
`StagingBounds`, `StagingSizes`, `StagingNames`, `StagingModelBounds`;
`MaxChangesIsNatural`; `PreparingBound`, `NoFindingIsNone`, `OffIsNoModel`,
`EnrichmentModelBounds`, `AnalysesAreNew`; `RelationshipCaps`, `RelationshipNames`,
`FiniteStores`; `WindowLimits`, `WindowModelBounds`; `NoStoreIsNone`,
`InstalledAreDeployments`, `SettingsBounds`; `ProseAssumption`,
`MockTextAssumption`, `CasesAssumption`, `AnswersAreObjects`,
`CellWordsAreOfCells`; `TablesAssumption`, `KeysAreDistinct`,
`ReadingAssumption`, `HandWrittenAreFiles`, `FilesAreFiles`, `NamesAreRead`,
`RequestsAreRequests`), which TLC evaluates for the instances.  Each component
has one inductive invariant (`IInv`; `CancelInv` and `CapInv` add to it;
`ChecksInvariant` and `WindowIInv` in the module about both), whose parts have
names; there is a lemma for each kind of step.  Every invariant and action
property that a passing run checks is stated by a theorem.

**AnalysisJobsProofs.**  The invariant `IInv` is `TypeOK /\ Hands`; `Hands`
says that the queue, the workers and the submitting requests never share an
analysis (`OneOwner`), that a row waiting to be submitted or run is queued
(`WaitingIsQueued`), that a working worker's copy is the row or the row is gone
(`CopyIsCurrent`), that a process that is down holds nothing
(`QuietWhenDown`), and that unfinished rows are owned.  `CopyIsCurrent` alone
is not inductive: that a write keeps the *other* workers' copies current needs
`OneOwner`; that `Take` leaves it true needs `WaitingIsQueued`, which says that
the taken row is still queued; and that a restart finds no worker at all needs
`QuietWhenDown`.  There is one lemma per kind of step.  From `IInv` follow
`OneOwnerHolds`, `CopyIsCurrentHolds`, both together as `OneWriterHolds`, and
`UnfinishedIsOwnedHolds`; the refinement `ImplementsLifecycleHolds` shows that
each step is a step of `AnalysisLifecycle` or leaves `row` alone, and
`RetryOfFailedHolds` (a retry is only ever made of a failed analysis; no run
checks it) uses that failed analyses stay failed under those steps.

The same module proves the cancellations exact.  A flag that was set in time
stays set while the analysis is in somebody's hands (`FlagIsKept`), so a worker
past its last checkpoint was not asked in time (`NoneIsPassed`); conversely only
added analyses are flagged (`OnlyAddedAreFlagged`), and a flag of an unfinished
one has a client who asked (`FlagHasReason`).  Together with `IInv` these are
inductive: `discard` removes a flag, and that no *other* holder of the analysis
loses it is `OneOwner` again.  `CancellationsAreExactHolds` states both.

**StagingProofs.**  `IInv`: what is stored was staged under its reference, and
what was run is stored no more (`FilesAreStaged`); references that are known
were drawn (`RefsAreStaged`); what a Run has read was fresh when it was read,
is undamaged and is what was staged, and what it has consumed is neither stored
nor run (`HandsAreSound`), nor in the hands of another (`OneTaker`).  The last
two are what makes a reference worth one analysis: two Runs may both have read
the row, but only the one whose `DELETE` finds it goes on.  That a file is
*undamaged* cannot be said of the store, whose bytes may be damaged between any
two steps; it is said of the file in hand, which was compared with the digest.
From it follow `RunsOnlySoundFilesHolds` and the refinement
`ImplementsOneTimeReferenceHolds`.  `WithinBoundsHolds` proves both bounds of
the store.  The bytes are a set of pairs, a reference and a position in its
file, so that their sum is a cardinality: a purge leaves a subset of them
(`KeptFilesAreTheSame`), and an insertion, which happens in the transaction that
has compared the sum, adds as many as the file has (`BytesAsManyAsItsSize`).

**ContextEditsProofs.**  In a consistent row the version is one more than the
number of edits.  That a write keeps it so needs that the edit is new to the
copy it is made in: `ChangesAreFresh` says that a change belongs to one request
and is in no row and no copy before that request has made it.  `ThreadsOK` says
what a thread holds at each point, and `AllConsistent` extends consistency from
the row to every copy, as long as no update was torn: `replace` writes the
columns in which the caller's copy differs from the row it loaded, and if the
row is still the one it loaded the result is the copy.  The lemma `StepsAre`
sorts the steps by what they do into six kinds (moving on, arriving, copying,
loading, updating, recording).  `CountIsKept` and `DeletedForGood` are
conjuncts of the invariant.

**EnrichmentProofs.**  `ShownIsCurrent` is about what a client is shown; its
invariant is about what is stored and in hand: a stored explanation was made
under the binding of its row (`MadeAsBound`), and a thread has an explanation
only of a call that it made under its task's binding (`HandsAreSound`), under
which alone `complete` stores it.  From a version to a context leads
`VersionsFit`: as long as no change was written over another one, every call
whose result is stored or in hand was given a context that *fits* the row
(`Fits`): under the version the row has now it is what the row says is
confirmed, and any other version is an older one.  An edit keeps this because it
confirms and counts in one write of a row that is still as it was read; for
that the invariant also says that a change in hand is what an operation makes of
the row it has read (`ChangesAreSound`).  `FewArePreparing` is the bound and
`PreparingIsOwned` says which thread is going to finish a row, with
`QuietWhenDown` and `RestartIsLeft` for the time in which nobody is;
`NothingOutlivesItsAnalysis` says that rows go with their analysis.  For the
counts, the explanations whose calls were not counted are at most as many as
the writes that failed (`FewAreUncounted`), and where nothing failed the
attempts are the count and the threads about to record theirs
(`AttemptsAreCounted`): statements on sets of threads, which take the theorems
on cardinalities.

**RelationshipsProofs.**  `IInv`: keys are unique, and every stored version,
*and every version a writer has decided on but not inserted*, follows a stored
one (`Continues`).  A stale decision still continues its history, since
versions are only added, and the second of two that continue it alike is
refused by the key.  `Numbered`: the versions of a history are exactly
`1 .. n`; it carries the refinement `ImplementsHistoryHolds`, where a history is
a sequence (`Listed`).  The caps (`CapsHoldHolds`) need what is pending to be
counted: `CapInv` adds to what is stored one entry for each store object whose
writer is inserting, of which there are at most as many as store objects
because of the lock (`OneInside`).  A confirmation counts twice towards the cap
on all versions: once for itself and once for the withdrawal it makes possible.
`StoredVersionsAreSoundHolds` joins the linear histories to the deletion of
what belongs to an analysis.  `WithdrawalIsAlwaysPossibleHolds`, which no run
repeats, says that a withdrawal
is never refused for a cap.

**SettingsProofs.**  The steps of a write are apart, so the invariant says what
a client's reads are worth by the time it uses them.  A write on its way to the
row expects a version that was reached (`CommitsAreLate`), and the conditional
update stores it only if that version is still the row's, which is all that the
refinement `ImplementsRegisterHolds` needs: the lock is not used.  A value that
was read, or shown with a version, was the row's at that version, if the row
still has it (`ReadsAreTrue`, `ScreensAreTrue`); this makes an edit informed.
For the connection test, what has passed the refusals is local under the
configuration of the process (`OnlyLocalIsTested`), and the gate knows the end
of the last test (`GatesRemember`), which with the conjuncts of `TestsAreSound`
itself is inductive.  `SaysTheSameHolds` is about the routes and not about their
steps: `RoutesAlwaysAgree` holds for every stored value, every configuration and
every runtime, from four lemmas that say what a stored value can resolve to
(`ResolveIsEffective`) and what status, test and checklist make of it.

**ModelCallsProofs.**  Whatever the cases, the evidence and the answers are, the
three translations of a contract agree: the schema, the validator, and the code
that builds a result.  The proof goes from the inside to the outside.

* What a prompt holds is metadata (`PromptIsMetadata`): every word of a piece of
  evidence that is sent is its alias, a text the program wrote, the name of a
  column or a fact, or a word of one of the two safe facts (`SentWords`).
* What a validator has made sure of when it gives no reason is one lemma per
  part of an answer (`ImpactAccepted`, `RemediationAccepted`, up to
  `FindingAccepted`).  With `GroundingWasShown` and `AliasesAreReal` an accepted
  explanation is grounded in the prompt (`AcceptedExplanationIsGrounded`).
* An accepted answer is allowed by the schema (`AcceptedIsAllowed`), and one that
  the schema allows is only rejected for its content or a blank text
  (`AllowedIsRejectedForContent`, part by part); for a rule the two are
  equivalent (`RuleAgrees`).
* The answers of the mock provider are accepted in every case (`MockOutputIs`),
  and a refined context differs from the inferred one in its probable domain
  alone (`OtherFieldsStay`, `DomainIsAnswered`): 65 is more than the 50 of the
  heuristic.

The invariant `IInv` then follows one call.  `TellingInv`: what was told is
nothing or all of the prompt of the case, and which of the two is known from
where the call is.  `AttemptsInv`: how many requests the retries so far allow.
`AnswerInv`: the last answer is one of the provider's, the reasons are those of
the validator, and it was given to the whole prompt.  `StatusInv`: which status
goes with which place, and that an accepted call holds exactly what its answer
comes to (`FinalResult`; for a rule, the offer once it was looked up again).
`KeptInv`: the context in the analysis is the inferred one or the result of the
accepted answer, and the call is counted at most once, with its outcome.  None
of the properties is inductive alone: that an explanation in hand is grounded
is known because the answer it was built from is still held, with the empty set
of reasons and the prompt it was given to; and that a mock call never retries
needs to know which answer it is judging.  The proofs assume what the constants
are to be (`ProseAssumption`: lengths are numbers, and a text of no length is
blank; `MockTextAssumption`: the mock's texts are short and have nothing to
object to; `CasesAssumption`, `AnswersAreObjects`, `CellWordsAreOfCells`).

**ChecksProofs.**  A run is a calculation: `ChecksInvariant` says that what each
stage holds is what the file determines, up to the detectors that failed
(`StagesFit`), and that an answer is the rule for a finding of this run or one
for a request (`AnswerFits`).  The work is in what the algorithms compute for
*every* file, and there the proofs go in four parts.

* *What is read.*  Rows of a worksheet, keys of columns and deductions are
  recursive functions on numbers or on finite sets.  The prover cannot
  instantiate an induction rule, so the proofs take a counterexample that is
  least (`LeastNatural`) or minimal (`MinimalFiniteSet`), which are facts about
  sets.  Row by row, `Progress` keeps that rows come in order, the first one
  with data is the header, and each later one is in its place below it:
  `RowsKeepTheirPlaceHolds`.  A key that is free always exists, since there are more keys of a name
  than columns before it, so the keys of a table are distinct and reading a cell
  by key and by position is the same (`LookUp`, `At`).
* *What is counted.*  Because of that, each detector that relies on a metric
  flags a row for each one the metric counted: one lemma per metric
  (`WhitespaceCounts`, `OutliersCount`, `MixedIsObserved`, `DuplicatesCount` and
  so on), from which follows `CountsAgreeWithRowsHolds`.  That no row is below
  one fence and above the other needs the quartiles in order, that is the order
  statistics (`SortedIsSorted`, `FencesAreOrdered`).
* *What is deducted.*  The sum of the deductions of a set of findings does not
  depend on the order they are taken in (`AnyOrder`) and does not fall when a
  finding is added (`SumsGrow`); a detector that fails takes its findings away
  and leaves the others': `FailureOnlyRaisesTrustHolds`.
* *What rules answer.*  `IsRightFor` says of an offer what it must do; there is
  a lemma per kind of finding, since each has its own reason (a blank cell is
  not a value, what is outside the fences is outside the range between them, a
  spelling that is not accepted is not in the accepted ones), and
  `AcceptedOffers` says that the rule stored for an offer is that rule:
  `RuleFailsWhatItFlagsHolds`.  A rule that is stored runs without an error
  unless its pattern does not compile (`StoredRulesRunHolds`).  Its parameters
  have the types of its kind (`IsTyped`), with which each pair of runners that
  can be asked the same question is compared cell by cell
  (`Comparing`, `RangeAgrees`, `WhenThenAgrees`, `EqualAgrees`,
  `CountedAgrees`): `RunnersAgreeHolds`.  The three are `RulesAreRightHolds`.

The last part of the module is about `RowWindow`.  `WindowIInv`: the budget is
what the bound leaves for the rows added (`BudgetIsExact`), the window fits or is
its anchor (`FitsOrAlone`), and a closed side is either as wanted or its
neighbour is larger than the budget (`SidesAreRight`).  The budget only shrinks,
so a side that was closed stays rightly closed while the other grows: this is
what makes `NothingMoreFits` true and it does not follow from the final state
alone.  No induction is needed because files are given by prefix sums
(`UptoGrows`).  `WindowIsRightHolds` joins the three.

**Only model-checked.**

* Liveness (`EveryAnalysisEnds`, `PreparingEnds`, `WindowEnds`): it needs
  fairness and ENABLED, which the prover does not handle.

## 5. What is not modelled

* Details of reading and rounding that no property tells apart: the limit on the
  number of cells of a worksheet (`parsers/xlsx_parser.py:803`, `922`); the
  rounding of a line total's difference to two decimals
  (`detectors/cross_field.py:179`); the further forms of a date that
  `date.fromisoformat` reads (`rules/engine.py:168`), such as `20240101`; and
  aliases for more than 99 pieces of evidence in one prompt.
* How a single cell or name reads: decoding, quoting, delimiters, the XLSX
  package, the patterns of dates, amounts, emails and instructions are the
  parameters `Read` and `ReadName`.  What a sentence claims: the lexical
  screens of `ai_boundary/claim_screen.py` are the parameter `Prose`.
  Floating-point rounding.
* What a regular expression matches: a pattern is the generated one or one that
  does not compile; the built-in texts for findings; export formats; sample values in prompts, which no route sends.
* Request size limits, error formats, schemas: guards without state.
* The frontend and the reports: planned, see below.
* The host's wall clock going back, by which a staged file is kept longer than
  its time to live; a store that loses committed data; the time a request
  waits for SQLite's lock, and the error when it waits too long, except as a
  failing write.
* Retry lineage beyond its source, names, sizes and fingerprints of uploads.

## 6. Plan

Done: jobs, staging, context edits, explanations, relationships, windows,
settings and the connection test, the checks of a file, rules, the AI boundary, and
proofs of all of these that proofs can reach.  Left, by importance:

1. `Reports`: snapshots against the edits of `ContextEdits`.
2. `ExplanationPanel`: the frontend's polling, late answers and unmounting.
3. `RowInspection`: which rows may be anchors, two reads at a time.
4. File inspection, which `Staging` takes as a choice.
5. Composition: `Settings` with `Enrichment`, so that the value a task reads is
   one of two processes' writes.

Runs are kept few: related algorithms share a run, and a run or a property that
a deeper one replaces is removed.
