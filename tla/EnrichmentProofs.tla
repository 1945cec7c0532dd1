--------------------------- MODULE EnrichmentProofs ---------------------------
(***************************************************************************)
(* Proofs that an explanation is only shown under what it was made under   *)
(* (the version and the model; the context too, as long as no change of    *)
(* the analysis is written over another), that every row that is preparing *)
(* has somebody who will finish it, and that the calls behind explanations *)
(* are counted, for any number of findings, threads, changes, models,      *)
(* restarts and failing writes.                                            *)
(***************************************************************************)
EXTENDS Enrichment, FiniteSetTheorems, TLAPS

\* What TypeOK says of a thread of the pool and of a request.
WorkerRecords ==
    [pc : {"idle", "get", "call", "record", "complete"},
     task : Tasks \cup {IdleTask}, seen : Bindings, sent : SUBSET Changes,
     outcome : {"ready", "failed"}, counted : BOOLEAN]

IsWorker(x) == x \in WorkerRecords /\ (x.pc = "idle" <=> x.task = IdleTask)

RequestRecords ==
    [pc : {"idle", "settings", "begin", "submit"},
     finding : Findings \cup {NoFinding}, seen : Bindings]

IsRequest(x) ==
    x \in RequestRecords /\ (x.pc = "idle" <=> x.finding = NoFinding)

EditorRecords ==
    [pc : {"idle", "load", "update"}, read : AnalysisRows, wants : AnalysisRows,
     base : AnalysisRows]

\* What TypeOK says of everything else.
OthersOK ==
    /\ exists \in BOOLEAN /\ analysis \in AnalysisRows /\ stored \in BOOLEAN
    /\ deployed \in Deployments
    /\ rows \in [Findings -> Rows]
    /\ count \in Nat
    /\ queue \in Seq(Tasks)
    /\ editor \in [Editors -> EditorRecords]
    /\ edits \in 0 .. MaxEdits /\ overlapped \in BOOLEAN
    /\ phase \in {"up", "closing", "down", "recording"}
    /\ unrecorded \in SUBSET Findings
    /\ switches \in 0 .. MaxSwitches /\ posts \in 0 .. MaxPosts
    /\ restarts \in 0 .. MaxRestarts
    /\ attempts \in Nat
    /\ faults \in 0 .. MaxFaults

\* A thread calls the model only under its task's binding, and has an
\* explanation only of that call.
HandsAreSound ==
    \A w \in Workers :
        /\ worker[w].pc \in {"call", "record"} =>
               worker[w].seen = worker[w].task.binding
        /\ worker[w].outcome = "ready" =>
               /\ worker[w].pc \in {"record", "complete"}
               /\ worker[w].seen = worker[w].task.binding
        /\ worker[w].counted => worker[w].pc = "complete"

\* An explanation was made under the binding it is stored under.
MadeAsBound == \A f \in Findings : rows[f].status = "ready" =>
                   rows[f].made = rows[f].binding

\* A change in hand is what one of the operations makes of a row that it
\* accepts.
IsChange(x) ==
    \E op \in Operations, c \in Changes :
        /\ x.wants = Applied(op, x.read, c)
        /\ IsReadable(x.read)
        /\ Accepts(op, x.read)

ChangesAreSound ==
    \A e \in Editors : editor[e].pc # "idle" => IsChange(editor[e])

\* What a version stands for, as long as changes come one after the other: no
\* context before it is final, then the confirmed one, or an earlier one.
Fits(row, version, sent) ==
    \/ version = 0 /\ sent = {}
    \/ /\ row.finalized
       /\ version > 0
       /\ \/ version < row.version
          \/ version = row.version /\ sent = row.context.edits

VersionsFit ==
    ~ overlapped =>
        /\ \A w \in Workers :
               Fits(analysis, worker[w].seen.context, worker[w].sent)
        /\ \A f \in Findings : rows[f].status = "ready" =>
               Fits(analysis, rows[f].made.context, rows[f].sent)

\* A process that does not serve has no work in hand, and once it starts again
\* no row is preparing.
QuietWhenDown ==
    /\ phase \in {"down", "recording"} =>
           /\ queue = <<>>
           /\ \A w \in Workers : worker[w].pc = "idle"
           /\ \A r \in Requests : request[r].pc = "idle"
           /\ restarts > 0
    /\ phase = "recording" => Preparing = {}

\* A process that shuts down may end.
RestartIsLeft == phase = "closing" => restarts < MaxRestarts

\* Explanations that were made and whose calls were not counted, as stored
\* and as threads have them.
Uncounted == {f \in Findings : rows[f].status = "ready" /\ ~ rows[f].counted}
ToBeUncounted == {w \in Workers : /\ worker[w].pc = "complete"
                                  /\ worker[w].outcome = "ready"
                                  /\ ~ worker[w].counted}
Recording == {w \in Workers : worker[w].pc = "record"}

FewAreUncounted ==
    /\ IsFiniteSet(Uncounted) /\ IsFiniteSet(ToBeUncounted)
    /\ Cardinality(Uncounted) + Cardinality(ToBeUncounted) <= faults

AttemptsAreCounted ==
    /\ IsFiniteSet(Recording)
    /\ exists /\ restarts = 0 /\ faults = 0 =>
           attempts = count + Cardinality(Recording)

FewArePreparing == IsFiniteSet(Preparing) /\ PreparingIsBounded

IInv ==
    /\ TypeOK
    /\ HandsAreSound
    /\ MadeAsBound
    /\ ChangesAreSound
    /\ VersionsFit
    /\ QuietWhenDown
    /\ RestartIsLeft
    /\ NothingOutlivesItsAnalysis
    /\ FewArePreparing
    /\ PreparingIsOwned
    /\ FewAreUncounted
    /\ AttemptsAreCounted
-----------------------------------------------------------------------------
(* Types.                                                                  *)

\* TypeOK in two parts.
LEMMA TypeOKSplit ==
    TypeOK <=> /\ OthersOK
               /\ worker \in [Workers -> WorkerRecords]
               /\ request \in [Requests -> RequestRecords]
               /\ \A w \in Workers : IsWorker(worker[w])
               /\ \A r \in Requests : IsRequest(request[r])
BY DEF TypeOK, OthersOK, WorkerRecords, IsWorker, RequestRecords, IsRequest,
       EditorRecords

\* Nothing is bound to anything yet, and it is a binding.
LEMMA NoBindingIsBinding ==
    /\ NoBinding \in Bindings /\ NoRow \in Rows
    /\ \A c \in Nat, ai \in AiSettings :
           /\ [context |-> c, ai |-> ai] \in Bindings
           /\ [NoBinding EXCEPT !.context = c] \in Bindings
           /\ [NoBinding EXCEPT !.ai = ai] \in Bindings
BY EnrichmentModelBounds DEF NoBinding, Bindings, AiSettings, NoRow, Rows

\* A thread and a request that are not there.
LEMMA IdleIsIdle ==
    /\ IsWorker(IdleWorker) /\ IdleWorker.pc = "idle"
    /\ IdleWorker.task = IdleTask /\ IdleWorker.outcome = "failed"
    /\ ~ IdleWorker.counted
    /\ IsRequest(IdleRequest) /\ IdleRequest.pc = "idle"
BY NoBindingIsBinding
DEF IdleWorker, IsWorker, WorkerRecords, IdleRequest, IsRequest, RequestRecords

\* No task is the task of a thread that has none.
LEMMA TaskIsNotIdle ==
    \A t \in Tasks : t # IdleTask /\ t.finding \in Findings /\ t.binding \in Bindings
BY NoFindingIsNone DEF Tasks, IdleTask

\* A change that nobody has in hand.
LEMMA NoChangeIsEditor ==
    /\ NewAnalysis \in AnalysisRows
    /\ IdleEditor \in EditorRecords /\ IdleEditor.pc = "idle"
BY DEF NewAnalysis, NoContext, AnalysisRows, IdleEditor, EditorRecords

\* What the operations make of a row is a row.
LEMMA AppliedIsRow ==
    ASSUME NEW op \in Operations, NEW row \in AnalysisRows, NEW c \in Changes
    PROVE  Applied(op, row, c) \in AnalysisRows
<1>1. /\ InferContext(row) \in AnalysisRows
      /\ AugmentContext(row) \in AnalysisRows
      /\ FinalizeContext(row) \in AnalysisRows
  BY DEF InferContext, AugmentContext, FinalizeContext, AnalysisRows
<1>2. ConfirmFields(row, c) \in AnalysisRows
  <2> DEFINE context == [row.context EXCEPT !.edits = @ \cup {c}]
             version == row.version + 1
  <2>1. /\ context \in [source : {"none", "inferred", "model"},
                        edits : SUBSET Changes]
        /\ version \in Nat
    <3>1. /\ row.context \in [source : {"none", "inferred", "model"},
                              edits : SUBSET Changes]
          /\ row.version \in Nat
      BY DEF AnalysisRows
    <3>2. row.context.edits \cup {c} \in SUBSET Changes
      BY <3>1
    <3> QED BY <3>1, <3>2
  <2>2. ConfirmFields(row, c) =
            [row EXCEPT !.context = context, !.version = version]
    BY DEF ConfirmFields
  <2> HIDE DEF context, version
  <2> QED BY <2>1, <2>2 DEF AnalysisRows
<1>3. CASE op = "infer"
  BY <1>1, <1>3 DEF Applied
<1>4. CASE op = "augment"
  BY <1>1, <1>4 DEF Applied
<1>5. CASE op = "confirm"
  BY <1>2, <1>5 DEF Applied
<1>6. CASE op = "finalize"
  BY <1>1, <1>6 DEF Applied
<1>7. CASE op = "other"
  BY <1>7 DEF Applied
<1> QED BY <1>3, <1>4, <1>5, <1>6, <1>7 DEF Operations

\* A merge, column by column.
LEMMA MergedIs ==
    ASSUME NEW new \in AnalysisRows, NEW base \in AnalysisRows,
           NEW old \in AnalysisRows
    PROVE  Merged(new, base, old) =
              [context   |-> Column(new.context, base.context, old.context),
               version   |-> Column(new.version, base.version, old.version),
               finalized |-> Column(new.finalized, base.finalized, old.finalized)]
<1> DEFINE columns == {"context", "version", "finalized"}
<1>1. DOMAIN old = columns
  BY DEF AnalysisRows
<1>2. Merged(new, base, old) =
          [c \in columns |-> IF c = "count" THEN old[c]
                             ELSE Column(new[c], base[c], old[c])]
  BY <1>1 DEF Merged
<1> QED BY <1>2

\* It is a row, and if nothing else was written, the one that was wanted.
LEMMA MergedIsRow ==
    ASSUME NEW new \in AnalysisRows, NEW base \in AnalysisRows,
           NEW old \in AnalysisRows
    PROVE  /\ Merged(new, base, old) \in AnalysisRows
           /\ old = base => Merged(new, base, old) = new
<1>1. Merged(new, base, old) \in AnalysisRows
  BY MergedIs DEF AnalysisRows, Column
<1>3. old = base =>
          Merged(new, base, old) = [context |-> new.context, version |-> new.version,
                                    finalized |-> new.finalized]
  BY MergedIs DEF Column
<1>4. new = [context |-> new.context, version |-> new.version,
             finalized |-> new.finalized]
  BY DEF AnalysisRows
<1>2. old = base => Merged(new, base, old) = new
  BY <1>3, <1>4
<1> QED BY <1>1, <1>2

\* What a client can be told of a row, and what a model.
LEMMA VersionIsNatural ==
    ASSUME NEW row \in AnalysisRows
    PROVE  Version(row) \in Nat /\ Confirmed(row) \in SUBSET Changes
BY DEF AnalysisRows, Version, Confirmed

\* A model that is in force is one of those there are.
LEMMA CurrentAiIsSetting ==
    OthersOK => CurrentAi \subseteq AiSettings
BY DEF OthersOK, CurrentAi, Resolved, Deployments, AiSettings

\* The types hold at first.
LEMMA InitTypeOK == Init => TypeOK
<1> SUFFICES ASSUME Init PROVE TypeOK
  OBVIOUS
<1>1. OthersOK
  <2>1. rows \in [Findings -> Rows]
    BY NoBindingIsBinding DEF Init
  <2>2. queue \in Seq(Tasks) /\ deployed \in Deployments
    BY DEF Init
  <2>3. exists \in BOOLEAN /\ stored \in BOOLEAN /\ overlapped \in BOOLEAN
    BY DEF Init
  <2>4. /\ edits \in 0 .. MaxEdits /\ switches \in 0 .. MaxSwitches
        /\ posts \in 0 .. MaxPosts /\ restarts \in 0 .. MaxRestarts
        /\ faults \in 0 .. MaxFaults
    BY EnrichmentModelBounds DEF Init
  <2>5. analysis \in AnalysisRows /\ editor \in [Editors -> EditorRecords]
    <3>1. /\ InferContext(NewAnalysis) \in AnalysisRows
          /\ FinalizeContext(InferContext(NewAnalysis)) \in AnalysisRows
      BY NoChangeIsEditor DEF InferContext, FinalizeContext, AnalysisRows
    <3> QED BY <3>1, NoChangeIsEditor, AnalysesAreNew DEF Init
  <2> QED BY <2>1, <2>2, <2>3, <2>4, <2>5 DEF Init, OthersOK
<1>2. /\ worker \in [Workers -> WorkerRecords]
      /\ request \in [Requests -> RequestRecords]
      /\ \A w \in Workers : IsWorker(worker[w])
      /\ \A r \in Requests : IsRequest(request[r])
  BY IdleIsIdle DEF Init, IsWorker, IsRequest
<1> QED BY <1>1, <1>2, TypeOKSplit

\* A step of one thread, or of one request, is well typed if its new record
\* and the rest are.
LEMMA WorkerStepTypeOK ==
    ASSUME TypeOK, NEW w \in Workers, NEW x, IsWorker(x),
           worker' = [worker EXCEPT ![w] = x], request' = request, OthersOK'
    PROVE  TypeOK'
<1>1. worker' \in [Workers -> WorkerRecords] /\ \A v \in Workers : IsWorker(worker'[v])
  BY TypeOKSplit DEF IsWorker
<1>2. request' \in [Requests -> RequestRecords] /\ \A r \in Requests : IsRequest(request'[r])
  BY TypeOKSplit
<1> QED
  BY <1>1, <1>2
  DEF TypeOK, OthersOK, WorkerRecords, IsWorker, RequestRecords, IsRequest,
      EditorRecords

\* The same for requests.
LEMMA RequestStepTypeOK ==
    ASSUME TypeOK, NEW r \in Requests, NEW x, IsRequest(x),
           request' = [request EXCEPT ![r] = x], worker' = worker, OthersOK'
    PROVE  TypeOK'
<1>1. request' \in [Requests -> RequestRecords] /\ \A q \in Requests : IsRequest(request'[q])
  BY TypeOKSplit DEF IsRequest
<1>2. worker' \in [Workers -> WorkerRecords] /\ \A w \in Workers : IsWorker(worker'[w])
  BY TypeOKSplit
<1> QED
  BY <1>1, <1>2
  DEF TypeOK, OthersOK, WorkerRecords, IsWorker, RequestRecords, IsRequest,
      EditorRecords

\* A step of no thread.
LEMMA OtherStepTypeOK ==
    ASSUME TypeOK, UNCHANGED <<worker, request>>, OthersOK' PROVE TypeOK'
BY TypeOKSplit
DEF TypeOK, OthersOK, WorkerRecords, IsWorker, RequestRecords, IsRequest,
    EditorRecords
-----------------------------------------------------------------------------
(* What each step does to its thread.                                      *)

\* A thread reads the context and what a model may be told of it at once.
Reads(w, x) ==
    \/ x.seen = worker[w].seen /\ x.sent = worker[w].sent
    \/ /\ IsReadable(analysis)
       /\ x.seen.context = Version(analysis)
       /\ x.sent = Confirmed(analysis)

\* Where each step takes its thread, and what it makes of its record.
LEMMA WhereWorkerGoes ==
    ASSUME TypeOK, NEW w \in Workers
    PROVE  /\ Take(w) =>
                  \E x : /\ worker' = [worker EXCEPT ![w] = x] /\ IsWorker(x)
                         /\ x.pc = "get" /\ x.task = Head(queue)
                         /\ x.outcome = "failed" /\ ~ x.counted
                         /\ x.seen.context = 0 /\ x.sent = {}
           /\ Get(w) =>
                  \/ ~ exists /\ worker' = [worker EXCEPT ![w] = IdleWorker]
                  \/ \E x : /\ worker' = [worker EXCEPT ![w] = x] /\ IsWorker(x)
                            /\ \/ x.pc = "complete"
                               \/ x.pc = "call" /\ x.seen = x.task.binding
                            /\ x.task = worker[w].task
                            /\ x.outcome = worker[w].outcome
                            /\ x.counted = worker[w].counted
                            /\ Reads(w, x)
           /\ Call(w) =>
                  \E x : /\ worker' = [worker EXCEPT ![w] = x] /\ IsWorker(x)
                         /\ x.pc = "record" /\ x.task = worker[w].task
                         /\ x.seen = worker[w].seen /\ x.sent = worker[w].sent
                         /\ x.counted = worker[w].counted
           /\ Record(w) \/ RecordFails(w) =>
                  \E x : /\ worker' = [worker EXCEPT ![w] = x] /\ IsWorker(x)
                         /\ x.pc = "complete" /\ x.task = worker[w].task
                         /\ x.seen = worker[w].seen /\ x.sent = worker[w].sent
                         /\ x.outcome = worker[w].outcome
                         /\ Record(w) => x.counted
           /\ Complete(w) \/ CompleteFails(w) =>
                  worker' = [worker EXCEPT ![w] = IdleWorker]
<1>0. /\ OthersOK /\ worker \in [Workers -> WorkerRecords]
      /\ worker[w] \in WorkerRecords /\ IsWorker(worker[w])
  BY TypeOKSplit
<1>1. ASSUME Take(w)
      PROVE  \E x : /\ worker' = [worker EXCEPT ![w] = x] /\ IsWorker(x)
                    /\ x.pc = "get" /\ x.task = Head(queue)
                    /\ x.outcome = "failed" /\ ~ x.counted
                    /\ x.seen.context = 0 /\ x.sent = {}
  <2>1. PICK ai \in CurrentAi :
            worker' = [worker EXCEPT ![w] =
               [IdleWorker EXCEPT !.pc = "get", !.task = Head(queue),
                                  !.seen = [NoBinding EXCEPT !.ai = ai]]]
    BY <1>1 DEF Take
  <2>2. Head(queue) \in Tasks /\ [NoBinding EXCEPT !.ai = ai] \in Bindings
    <3>1. queue \in Seq(Tasks) /\ queue # <<>>
      BY <1>0, <1>1 DEF Take, OthersOK
    <3>2. [NoBinding EXCEPT !.ai = ai] \in Bindings
      BY <1>0, CurrentAiIsSetting, EnrichmentModelBounds DEF NoBinding, Bindings
    <3> QED BY <3>1, <3>2
  <2> DEFINE x == [IdleWorker EXCEPT !.pc = "get", !.task = Head(queue),
                                     !.seen = [NoBinding EXCEPT !.ai = ai]]
  <2>3. /\ x \in WorkerRecords /\ x.pc = "get" /\ x.task = Head(queue)
        /\ x.outcome = "failed" /\ ~ x.counted
        /\ x.seen.context = 0 /\ x.sent = {}
    BY <2>2 DEF IdleWorker, WorkerRecords, NoBinding
  <2>4. worker' = [worker EXCEPT ![w] = x]
    BY <2>1
  <2> HIDE DEF x
  <2>5. IsWorker(x)
    BY <2>2, <2>3, TaskIsNotIdle DEF IsWorker
  <2> QED BY <2>3, <2>4, <2>5
<1>2. ASSUME Get(w)
      PROVE  \/ ~ exists /\ worker' = [worker EXCEPT ![w] = IdleWorker]
             \/ \E x : /\ worker' = [worker EXCEPT ![w] = x] /\ IsWorker(x)
                       /\ \/ x.pc = "complete"
                          \/ x.pc = "call" /\ x.seen = x.task.binding
                       /\ x.task = worker[w].task
                       /\ x.outcome = worker[w].outcome
                       /\ x.counted = worker[w].counted
                       /\ Reads(w, x)
  <2> DEFINE now == [worker[w].seen EXCEPT !.context = Version(analysis)]
  <2>0. /\ now \in Bindings /\ Confirmed(analysis) \in SUBSET Changes
        /\ now.context = Version(analysis)
    BY <1>0, VersionIsNatural DEF WorkerRecords, Bindings, OthersOK
  <2>1. ASSUME NEW pc \in {"call", "complete"}, NEW seen \in Bindings,
               NEW sent \in SUBSET Changes,
               worker' = [worker EXCEPT ![w].seen = seen, ![w].sent = sent,
                                        ![w].pc = pc],
               pc = "call" => seen = worker[w].task.binding,
               \/ seen = worker[w].seen /\ sent = worker[w].sent
               \/ /\ IsReadable(analysis) /\ seen.context = Version(analysis)
                  /\ sent = Confirmed(analysis)
        PROVE  \E x : /\ worker' = [worker EXCEPT ![w] = x] /\ IsWorker(x)
                      /\ \/ x.pc = "complete"
                         \/ x.pc = "call" /\ x.seen = x.task.binding
                      /\ x.task = worker[w].task
                      /\ x.outcome = worker[w].outcome
                      /\ x.counted = worker[w].counted
                      /\ Reads(w, x)
    <3> DEFINE x == [worker[w] EXCEPT !.seen = seen, !.sent = sent, !.pc = pc]
    <3>1. /\ x \in WorkerRecords /\ x.pc = pc /\ x.task = worker[w].task
          /\ x.seen = seen /\ x.sent = sent /\ x.outcome = worker[w].outcome
          /\ x.counted = worker[w].counted
      BY <1>0 DEF WorkerRecords
    <3>2. worker' = [worker EXCEPT ![w] = x]
      BY <1>0, <2>1 DEF WorkerRecords
    <3> HIDE DEF x
    <3>3. worker[w].task # IdleTask
      BY <1>0, <1>2 DEF Get, IsWorker
    <3>4. IsWorker(x)
      BY <3>1, <3>3 DEF IsWorker
    <3>5. Reads(w, x)
      BY <2>1, <3>1 DEF Reads
    <3> QED BY <2>1, <3>1, <3>2, <3>4, <3>5
  <2>2. CASE ~ exists /\ worker' = [worker EXCEPT ![w] = IdleWorker]
    BY <2>2
  <2>3. CASE /\ IsReadable(analysis)
             /\ worker' = [worker EXCEPT ![w].seen = now,
                              ![w].sent = Confirmed(analysis),
                              ![w].pc = IF now = worker[w].task.binding
                                        THEN "call" ELSE "complete"]
    BY <2>0, <2>1, <2>3
  <2>4. CASE worker' = [worker EXCEPT ![w].pc = "complete"]
    <3>1. worker' = [worker EXCEPT ![w].seen = worker[w].seen,
                                   ![w].sent = worker[w].sent,
                                   ![w].pc = "complete"]
      BY <1>0, <2>4 DEF WorkerRecords
    <3>2. worker[w].seen \in Bindings /\ worker[w].sent \in SUBSET Changes
      BY <1>0 DEF WorkerRecords
    <3> QED BY <2>1, <3>1, <3>2
  <2> QED BY <1>2, <2>2, <2>3, <2>4 DEF Get
<1>3. ASSUME Call(w)
      PROVE  \E x : /\ worker' = [worker EXCEPT ![w] = x] /\ IsWorker(x)
                    /\ x.pc = "record" /\ x.task = worker[w].task
                    /\ x.seen = worker[w].seen /\ x.sent = worker[w].sent
                    /\ x.counted = worker[w].counted
  <2>1. PICK o \in {"ready", "failed"} :
            worker' = [worker EXCEPT ![w].pc = "record", ![w].outcome = o]
    BY <1>3 DEF Call
  <2> DEFINE x == [worker[w] EXCEPT !.pc = "record", !.outcome = o]
  <2>2. /\ x \in WorkerRecords /\ x.pc = "record" /\ x.task = worker[w].task
        /\ x.seen = worker[w].seen /\ x.sent = worker[w].sent
        /\ x.counted = worker[w].counted
    BY <1>0 DEF WorkerRecords
  <2>3. worker' = [worker EXCEPT ![w] = x]
    BY <1>0, <2>1 DEF WorkerRecords
  <2> HIDE DEF x
  <2>4. IsWorker(x)
    BY <1>0, <1>3, <2>2 DEF IsWorker, Call
  <2> QED BY <2>2, <2>3, <2>4
<1>4. ASSUME Record(w) \/ RecordFails(w)
      PROVE  \E x : /\ worker' = [worker EXCEPT ![w] = x] /\ IsWorker(x)
                    /\ x.pc = "complete" /\ x.task = worker[w].task
                    /\ x.seen = worker[w].seen /\ x.sent = worker[w].sent
                    /\ x.outcome = worker[w].outcome
                    /\ Record(w) => x.counted
  <2>0. PICK b \in BOOLEAN :
            /\ worker' = [worker EXCEPT ![w].pc = "complete", ![w].counted = b]
            /\ Record(w) => b
    <3>1. CASE Record(w)
      BY <3>1 DEF Record
    <3>2. CASE ~ Record(w)
      <4>1. worker' = [worker EXCEPT ![w].pc = "complete",
                                     ![w].counted = worker[w].counted]
        BY <1>0, <1>4, <3>2 DEF RecordFails, WorkerRecords
      <4>2. worker[w].counted \in BOOLEAN
        BY <1>0 DEF WorkerRecords
      <4> QED BY <3>2, <4>1, <4>2
    <3> QED BY <3>1, <3>2
  <2> DEFINE x == [worker[w] EXCEPT !.pc = "complete", !.counted = b]
  <2>2. /\ x \in WorkerRecords /\ x.pc = "complete" /\ x.task = worker[w].task
        /\ x.seen = worker[w].seen /\ x.sent = worker[w].sent
        /\ x.outcome = worker[w].outcome
        /\ x.counted = b
    BY <1>0 DEF WorkerRecords
  <2>3. worker' = [worker EXCEPT ![w] = x]
    BY <1>0, <2>0 DEF WorkerRecords
  <2> HIDE DEF x
  <2>4. IsWorker(x)
    BY <1>0, <1>4, <2>2 DEF IsWorker, Record, RecordFails
  <2> QED BY <2>0, <2>2, <2>3, <2>4
<1>5. ASSUME Complete(w) \/ CompleteFails(w)
      PROVE  worker' = [worker EXCEPT ![w] = IdleWorker]
  BY <1>5 DEF Complete, CompleteFails
<1> QED BY <1>1, <1>2, <1>3, <1>4, <1>5

\* The row that begin writes.
Begun(b) == [NoRow EXCEPT !.status = "preparing", !.binding = b]

\* Where each step takes its request.
LEMMA WhereRequestGoes ==
    ASSUME TypeOK, NEW r \in Requests
    PROVE  /\ \A f \in Findings : Post(r, f) =>
                  \E x : /\ request' = [request EXCEPT ![r] = x] /\ IsRequest(x)
                         /\ x.pc = "settings"
           /\ ReadSettings(r) =>
                  \E x : /\ request' = [request EXCEPT ![r] = x] /\ IsRequest(x)
                         /\ x.pc \in {"idle", "begin"}
           /\ Begin(r) =>
                  \E x : /\ request' = [request EXCEPT ![r] = x] /\ IsRequest(x)
                         /\ \/ x.pc = "idle" /\ rows' = rows
                            \/ LET f == request[r].finding
                                   b == request[r].seen IN
                               /\ x.pc = "submit" /\ x.finding = f /\ x.seen = b
                               /\ exists /\ HasRoom(f)
                               /\ f \in Findings /\ b \in Bindings
                               /\ rows' = [rows EXCEPT ![f] = Begun(b)]
           /\ Submit(r) \/ SubmitRefused(r) =>
                  /\ request' = [request EXCEPT ![r] = IdleRequest]
                  /\ request[r].finding \in Findings
                  /\ request[r].seen \in Bindings
<1>0. /\ OthersOK /\ request \in [Requests -> RequestRecords]
      /\ request[r] \in RequestRecords /\ IsRequest(request[r])
  BY TypeOKSplit
<1>1. ASSUME NEW f \in Findings, Post(r, f)
      PROVE  \E x : /\ request' = [request EXCEPT ![r] = x] /\ IsRequest(x)
                    /\ x.pc = "settings"
  <2> DEFINE x == [pc |-> "settings", finding |-> f,
                   seen |-> [NoBinding EXCEPT !.context = Version(analysis)]]
  <2>1. [NoBinding EXCEPT !.context = Version(analysis)] \in Bindings
    BY <1>0, VersionIsNatural DEF NoBinding, Bindings, OthersOK, AiSettings
  <2>2. x \in RequestRecords /\ x.pc = "settings" /\ x.finding = f
    BY <2>1 DEF RequestRecords
  <2>3. request' = [request EXCEPT ![r] = x]
    BY <1>1 DEF Post
  <2> HIDE DEF x
  <2>4. IsRequest(x)
    BY <2>2, NoFindingIsNone DEF IsRequest
  <2> QED BY <2>2, <2>3, <2>4
<1>2. ASSUME ReadSettings(r)
      PROVE  \E x : /\ request' = [request EXCEPT ![r] = x] /\ IsRequest(x)
                    /\ x.pc \in {"idle", "begin"}
  <2>1. CASE RequestEnds(r)
    BY <2>1, IdleIsIdle DEF RequestEnds
  <2>2. ASSUME NEW ai \in CurrentAi,
               request' = [request EXCEPT ![r].pc = "begin", ![r].seen.ai = ai]
        PROVE  \E x : /\ request' = [request EXCEPT ![r] = x] /\ IsRequest(x)
                      /\ x.pc \in {"idle", "begin"}
    <3> DEFINE seen == [request[r].seen EXCEPT !.ai = ai]
               x == [request[r] EXCEPT !.pc = "begin", !.seen = seen]
    <3>1. seen \in Bindings
      BY <1>0, CurrentAiIsSetting DEF RequestRecords, Bindings
    <3>2. /\ x \in RequestRecords /\ x.pc = "begin"
          /\ x.finding = request[r].finding
      BY <1>0, <3>1 DEF RequestRecords
    <3>3. request' = [request EXCEPT ![r] = x]
      BY <1>0, <2>2 DEF RequestRecords
    <3> HIDE DEF x
    <3>4. IsRequest(x)
      BY <1>0, <1>2, <3>2 DEF IsRequest, ReadSettings
    <3> QED BY <3>2, <3>3, <3>4
  <2> QED BY <1>2, <2>1, <2>2 DEF ReadSettings
<1>3. ASSUME Begin(r)
      PROVE  \E x : /\ request' = [request EXCEPT ![r] = x] /\ IsRequest(x)
                    /\ \/ x.pc = "idle" /\ rows' = rows
                       \/ LET f == request[r].finding
                              b == request[r].seen IN
                          /\ x.pc = "submit" /\ x.finding = f /\ x.seen = b
                          /\ exists /\ HasRoom(f)
                          /\ f \in Findings /\ b \in Bindings
                          /\ rows' = [rows EXCEPT ![f] = Begun(b)]
  <2> DEFINE f == request[r].finding
             b == request[r].seen
  <2>1. CASE RequestEnds(r) /\ rows' = rows
    BY <2>1, IdleIsIdle DEF RequestEnds
  <2>2. CASE /\ exists /\ HasRoom(f)
             /\ rows' = [rows EXCEPT ![f] = Begun(b)]
             /\ request' = [request EXCEPT ![r].pc = "submit"]
    <3> DEFINE x == [request[r] EXCEPT !.pc = "submit"]
    <3>1. x \in RequestRecords /\ x.pc = "submit" /\ x.finding = f /\ x.seen = b
      BY <1>0 DEF RequestRecords
    <3>2. request' = [request EXCEPT ![r] = x]
      BY <2>2
    <3> HIDE DEF x
    <3>3. f \in Findings /\ b \in Bindings /\ f # NoFinding
      BY <1>0, <1>3, NoFindingIsNone DEF Begin, IsRequest, RequestRecords
    <3>4. IsRequest(x)
      BY <3>1, <3>3 DEF IsRequest
    <3> QED BY <2>2, <3>1, <3>2, <3>3, <3>4
  <2> QED BY <1>3, <2>1, <2>2 DEF Begin, Begun
<1>4. ASSUME Submit(r) \/ SubmitRefused(r)
      PROVE  /\ request' = [request EXCEPT ![r] = IdleRequest]
             /\ request[r].finding \in Findings
             /\ request[r].seen \in Bindings
  BY <1>0, <1>4, NoFindingIsNone
  DEF Submit, SubmitRefused, RequestEnds, IsRequest, RequestRecords
<1> QED BY <1>1, <1>2, <1>3, <1>4

\* A step of a change.
Edits(e) == EditorGoesOn(e) \/ \E op \in Operations : EditorReads(e, op)

\* Where each step takes a change, and what an update leaves.
LEMMA WhereEditorGoes ==
    ASSUME TypeOK, NEW e \in Editors, Edits(e)
    PROVE  /\ OnlyEditor
           /\ \E x : /\ editor' = [editor EXCEPT ![e] = x] /\ x \in EditorRecords
                     /\ x.pc = "idle" \/ IsChange(x)
                           \/ /\ editor[e].pc # "idle"
                              /\ x.wants = editor[e].wants /\ x.read = editor[e].read
           /\ editor' \in [Editors -> EditorRecords]
           /\ edits' \in 0 .. MaxEdits /\ overlapped' \in BOOLEAN
           /\ analysis' \in AnalysisRows
           /\ \/ UNCHANGED <<analysis, overlapped>>
              \/ overlapped'
              \/ /\ editor[e].pc # "idle" /\ analysis = editor[e].read
                 /\ analysis' = editor[e].wants /\ overlapped' = overlapped
<1>0. /\ OthersOK /\ analysis \in AnalysisRows /\ overlapped \in BOOLEAN
      /\ editor \in [Editors -> EditorRecords] /\ editor[e] \in EditorRecords
      /\ editor[e].read \in AnalysisRows /\ editor[e].wants \in AnalysisRows
      /\ editor[e].base \in AnalysisRows /\ edits \in 0 .. MaxEdits
  BY TypeOKSplit DEF OthersOK, EditorRecords
<1>1. ASSUME NEW op \in Operations, EditorReads(e, op)
      PROVE  /\ OnlyEditor /\ UNCHANGED <<analysis, overlapped>>
             /\ edits' \in 0 .. MaxEdits
             /\ \E x : /\ editor' = [editor EXCEPT ![e] = x]
                       /\ x \in EditorRecords /\ IsChange(x)
  <2> DEFINE wants == Applied(op, analysis, edits + 1)
             x == [IdleEditor EXCEPT !.pc = "load", !.read = analysis,
                                     !.wants = wants]
  <2>1. edits + 1 \in Changes /\ edits' \in 0 .. MaxEdits
    BY <1>0, <1>1, EnrichmentModelBounds DEF EditorReads, Changes
  <2>2. wants \in AnalysisRows
    BY <1>0, <2>1, AppliedIsRow
  <2>3. IsReadable(analysis) /\ Accepts(op, analysis)
    BY <1>1 DEF EditorReads
  <2>4. editor' = [editor EXCEPT ![e] = x]
    BY <1>1 DEF EditorReads
  <2>5. wants = Applied(op, analysis, edits + 1)
    OBVIOUS
  <2> HIDE DEF wants
  <2>6. x \in EditorRecords /\ x.read = analysis /\ x.wants = wants
    BY <1>0, <2>2, NoChangeIsEditor DEF EditorRecords, IdleEditor
  <2> HIDE DEF x
  <2>7. IsChange(x)
    BY <2>1, <2>3, <2>5, <2>6 DEF IsChange
  <2> QED BY <1>1, <2>1, <2>4, <2>6, <2>7 DEF EditorReads
<1>2. ASSUME EditorLoads(e)
      PROVE  /\ OnlyEditor /\ UNCHANGED <<analysis, edits, overlapped>>
             /\ editor[e].pc # "idle"
             /\ \E x : /\ editor' = [editor EXCEPT ![e] = x]
                       /\ x \in EditorRecords
                       /\ \/ x.pc = "idle"
                          \/ /\ x.wants = editor[e].wants
                             /\ x.read = editor[e].read
  <2>1. CASE ~ exists
    BY <1>2, <2>1, NoChangeIsEditor DEF EditorLoads
  <2>2. CASE exists
    <3> DEFINE x == [editor[e] EXCEPT !.pc = "update", !.base = analysis]
    <3>1. /\ x \in EditorRecords /\ x.wants = editor[e].wants
          /\ x.read = editor[e].read
      BY <1>0 DEF EditorRecords
    <3>2. editor' = [editor EXCEPT ![e] = x]
      BY <1>0, <1>2, <2>2 DEF EditorLoads, EditorRecords
    <3> HIDE DEF x
    <3> QED BY <1>2, <3>1, <3>2 DEF EditorLoads
  <2> QED BY <2>1, <2>2
<1>3. ASSUME EditorUpdates(e)
      PROVE  /\ OnlyEditor /\ edits' = edits /\ editor[e].pc # "idle"
             /\ editor' = [editor EXCEPT ![e] = IdleEditor]
             /\ overlapped' \in BOOLEAN /\ analysis' \in AnalysisRows
             /\ \/ UNCHANGED <<analysis, overlapped>>
                \/ overlapped'
                \/ /\ analysis = editor[e].read /\ analysis' = editor[e].wants
                   /\ overlapped' = overlapped
  <2>1. CASE ~ exists
    BY <1>0, <1>3, <2>1 DEF EditorUpdates
  <2>2. CASE exists
    <3>1. analysis' = Merged(editor[e].wants, editor[e].base, analysis)
      BY <1>3, <2>2 DEF EditorUpdates
    <3>2. overlapped' = (\/ overlapped \/ analysis # editor[e].read
                         \/ analysis # editor[e].base)
      BY <1>3, <2>2 DEF EditorUpdates
    <3>3. /\ analysis' \in AnalysisRows
          /\ analysis = editor[e].base => analysis' = editor[e].wants
      BY <1>0, <3>1, MergedIsRow
    <3> QED BY <1>0, <1>3, <3>2, <3>3 DEF EditorUpdates
  <2> QED BY <2>1, <2>2
<1>4. CASE \E op \in Operations : EditorReads(e, op)
  BY <1>0, <1>1, <1>4
<1>5. CASE EditorLoads(e)
  BY <1>0, <1>2, <1>5
<1>6. CASE EditorUpdates(e)
  BY <1>0, <1>3, <1>6, NoChangeIsEditor
<1> QED BY <1>4, <1>5, <1>6 DEF Edits, EditorGoesOn

\* A new row.
LEMMA BegunIsRow ==
    ASSUME NEW b \in Bindings
    PROVE  Begun(b) \in Rows /\ Begun(b).status = "preparing" /\ Begun(b).binding = b
<1>1. NoBinding \in Bindings
  BY NoBindingIsBinding
<1> QED BY <1>1 DEF Begun, NoRow, Rows

\* The row that the write of a result leaves.
Written(row, status, made, sent, counted) ==
    [row EXCEPT !.status = status, !.made = made, !.sent = sent,
                !.counted = counted]

LEMMA FinishedIsRow ==
    ASSUME NEW row \in Rows, NEW status \in {"ready", "failed"},
           NEW made \in Bindings, NEW sent \in SUBSET Changes,
           NEW counted \in BOOLEAN
    PROVE  LET new == Written(row, status, made, sent, counted) IN
           /\ new \in Rows /\ new.status = status /\ new.made = made
           /\ new.sent = sent /\ new.counted = counted
           /\ new.binding = row.binding
<1>1. ASSUME NEW new, new = Written(row, status, made, sent, counted)
      PROVE  new = [status |-> status, binding |-> row.binding, made |-> made,
                    sent |-> sent, counted |-> counted]
  BY <1>1 DEF Written, Rows
<1>2. row.binding \in Bindings
  BY DEF Rows
<1> QED BY <1>1, <1>2 DEF Rows

\* What the write of a result leaves in the rows.
LEMMA CompletedRows ==
    ASSUME TypeOK, NEW w \in Workers, Complete(w)
    PROVE  /\ rows' \in [Findings -> Rows]
           /\ \A f \in Findings :
                  IF /\ f = worker[w].task.finding
                     /\ Finishes(f, worker[w].task.binding)
                  THEN /\ rows'[f].status = worker[w].outcome
                       /\ rows'[f].binding = rows[f].binding
                       /\ rows'[f].made = worker[w].seen
                       /\ rows'[f].sent = worker[w].sent
                       /\ rows'[f].counted = worker[w].counted
                  ELSE rows'[f] = rows[f]
<1>0. /\ worker[w] \in WorkerRecords /\ rows \in [Findings -> Rows]
      /\ worker[w].task.finding \in Findings
  BY TaskIsNotIdle, TypeOKSplit DEF OthersOK, IsWorker, WorkerRecords, Complete
<1> DEFINE g == worker[w].task.finding
<1>1. CASE ~ Finishes(g, worker[w].task.binding)
  BY <1>0, <1>1 DEF Complete
<1>2. CASE Finishes(g, worker[w].task.binding)
  <2> DEFINE y == Written(rows[g], worker[w].outcome, worker[w].seen,
                            worker[w].sent, worker[w].counted)
  <2>0. /\ worker[w].outcome \in {"ready", "failed"}
        /\ worker[w].seen \in Bindings /\ worker[w].sent \in SUBSET Changes
        /\ worker[w].counted \in BOOLEAN
    BY <1>0 DEF WorkerRecords
  <2>1. /\ y \in Rows /\ y.status = worker[w].outcome
        /\ y.binding = rows[g].binding /\ y.made = worker[w].seen
        /\ y.sent = worker[w].sent /\ y.counted = worker[w].counted
    BY <1>0, <2>0, FinishedIsRow
  <2>2. rows' = [rows EXCEPT ![g] = y]
    BY <1>0, <1>2 DEF Complete, Written, Rows
  <2> HIDE DEF y
  <2> QED BY <1>0, <1>2, <2>1, <2>2
<1> QED BY <1>1, <1>2

\* Every step preserves the types.
LEMMA NextTypeOK ==
    ASSUME TypeOK, RestartIsLeft, [Next]_vars PROVE TypeOK'
<1>0. OthersOK /\ rows \in [Findings -> Rows] /\ queue \in Seq(Tasks)
  BY TypeOKSplit DEF OthersOK
<1>1. CASE Switch \/ DeleteAnalysis
  <2>1. rows' \in [Findings -> Rows]
    BY <1>0, <1>1, NoBindingIsBinding DEF Switch, DeleteAnalysis
  <2>2. exists' \in BOOLEAN /\ stored' \in BOOLEAN
    BY <1>0, <1>1 DEF Switch, DeleteAnalysis, OthersOK
  <2>3. switches' \in 0 .. MaxSwitches
    BY <1>0, <1>1, EnrichmentModelBounds DEF Switch, DeleteAnalysis, OthersOK
  <2>4. OthersOK' /\ UNCHANGED <<worker, request>>
    BY <1>0, <1>1, <2>1, <2>2, <2>3
    DEF Switch, DeleteAnalysis, OnlyAnalysis, threads, editing, process, OthersOK
  <2> QED BY <2>4, OtherStepTypeOK
<1>15. ASSUME NEW e \in Editors, Edits(e) PROVE TypeOK'
  <2>1. /\ OnlyEditor /\ analysis' \in AnalysisRows
        /\ editor' \in [Editors -> EditorRecords]
        /\ edits' \in 0 .. MaxEdits /\ overlapped' \in BOOLEAN
    BY <1>15, WhereEditorGoes
  <2>2. OthersOK' /\ UNCHANGED <<worker, request>>
    BY <1>0, <2>1 DEF OnlyEditor, editing, threads, process, bounds, OthersOK
  <2> QED BY <2>2, OtherStepTypeOK
<1>2. ASSUME NEW r \in Requests, NEW f \in Findings, Post(r, f) PROVE TypeOK'
  <2>1. OthersOK' /\ worker' = worker
    BY <1>0, <1>2, EnrichmentModelBounds
    DEF Post, OnlyRequest, editing, persistent, process, OthersOK
  <2> QED BY <1>2, <2>1, WhereRequestGoes, RequestStepTypeOK
<1>3. ASSUME NEW r \in Requests, ReadSettings(r) PROVE TypeOK'
  <2>1. OthersOK' /\ worker' = worker
    BY <1>0, <1>3 DEF ReadSettings, OnlyRequest, editing, persistent, process, OthersOK
  <2> QED BY <1>3, <2>1, WhereRequestGoes, RequestStepTypeOK
<1>4. ASSUME NEW r \in Requests, Begin(r) PROVE TypeOK'
  <2>1. rows' \in [Findings -> Rows]
    <3>1. CASE rows' = rows
      BY <1>0, <3>1
    <3>2. CASE rows' # rows
      BY <1>0, <1>4, <3>2, WhereRequestGoes, BegunIsRow
    <3> QED BY <3>1, <3>2
  <2>2. OthersOK' /\ worker' = worker
    BY <1>0, <1>4, <2>1 DEF Begin, editing, process, bounds, OthersOK
  <2> QED BY <1>4, <2>2, WhereRequestGoes, RequestStepTypeOK
<1>5. ASSUME NEW r \in Requests, Submit(r) PROVE TypeOK'
  <2>1. [finding |-> request[r].finding, binding |-> request[r].seen] \in Tasks
    BY <1>5, WhereRequestGoes DEF Tasks
  <2>2. queue' \in Seq(Tasks)
    BY <1>0, <1>5, <2>1 DEF Submit
  <2>3. OthersOK' /\ worker' = worker
    BY <1>0, <1>5, <2>2 DEF Submit, editing, persistent, process, bounds, OthersOK
  <2> QED BY <1>5, <2>3, WhereRequestGoes, IdleIsIdle, RequestStepTypeOK
<1>6. ASSUME NEW r \in Requests, SubmitRefused(r) PROVE TypeOK'
  <2>1. rows' \in [Findings -> Rows]
    <3>1. \A g \in Findings : [rows[g] EXCEPT !.status = "failed"] \in Rows
      BY <1>0 DEF Rows
    <3>2. CASE rows' = rows
      BY <1>0, <3>2
    <3>3. CASE rows' = [rows EXCEPT ![request[r].finding] =
                            [rows[request[r].finding] EXCEPT !.status = "failed"]]
      BY <1>0, <1>6, <3>1, <3>3, WhereRequestGoes
    <3> QED BY <1>6, <3>2, <3>3 DEF SubmitRefused
  <2>2. OthersOK' /\ worker' = worker
    BY <1>0, <1>6, <2>1 DEF SubmitRefused, editing, process, bounds, OthersOK
  <2> QED BY <1>6, <2>2, WhereRequestGoes, IdleIsIdle, RequestStepTypeOK
<1>7. ASSUME NEW w \in Workers, Take(w) PROVE TypeOK'
  <2>1. queue' \in Seq(Tasks)
    BY <1>0, <1>7 DEF Take
  <2>2. OthersOK' /\ request' = request
    BY <1>0, <1>7, <2>1
    DEF Take, OnlyWorker, editing, persistent, process, bounds, OthersOK
  <2> QED BY <1>7, <2>2, WhereWorkerGoes, WorkerStepTypeOK
<1>8. ASSUME NEW w \in Workers, Get(w) \/ Call(w) PROVE TypeOK'
  <2>1. OthersOK' /\ request' = request
    BY <1>0, <1>8
    DEF Get, Call, OnlyWorker, editing, persistent, process, bounds, OthersOK
  <2> QED BY <1>8, <2>1, WhereWorkerGoes, IdleIsIdle, WorkerStepTypeOK
<1>9. ASSUME NEW w \in Workers, Record(w) \/ RecordFails(w) PROVE TypeOK'
  <2>1. OthersOK' /\ request' = request
    BY <1>0, <1>9, EnrichmentModelBounds
    DEF Record, RecordFails, editing, persistent, process, bounds, OthersOK
  <2> QED BY <1>9, <2>1, WhereWorkerGoes, WorkerStepTypeOK
<1>10. ASSUME NEW w \in Workers, Complete(w) \/ CompleteFails(w) PROVE TypeOK'
  <2>1. rows' \in [Findings -> Rows]
    <3>1. CASE Complete(w)
      BY <3>1, CompletedRows
    <3>2. CASE CompleteFails(w)
      BY <1>0, <3>2 DEF CompleteFails, persistent
    <3> QED BY <1>10, <3>1, <3>2
  <2>2. faults' \in 0 .. MaxFaults
    <3>1. \/ faults' = faults
          \/ faults < MaxFaults /\ faults' = faults + 1
      BY <1>10 DEF Complete, CompleteFails
    <3>2. faults \in 0 .. MaxFaults
      BY <1>0 DEF OthersOK
    <3> QED BY <3>1, <3>2, EnrichmentModelBounds
  <2>3. OthersOK' /\ request' = request
    BY <1>0, <1>10, <2>1, <2>2
    DEF Complete, CompleteFails, editing, persistent, process, bounds, OthersOK
  <2> QED BY <1>10, <2>3, WhereWorkerGoes, IdleIsIdle, WorkerStepTypeOK
<1>11. CASE Exit \/ Crash
  <2>1. Ends /\ restarts < MaxRestarts
    BY <1>11 DEF Crash, Exit, RestartIsLeft
  <2>2. OthersOK'
    BY <1>0, <2>1, NoChangeIsEditor, EnrichmentModelBounds
    DEF Ends, persistent, OthersOK
  <2>3. /\ worker' \in [Workers -> WorkerRecords]
        /\ request' \in [Requests -> RequestRecords]
        /\ \A w \in Workers : IsWorker(worker'[w])
        /\ \A r \in Requests : IsRequest(request'[r])
    BY <2>1, IdleIsIdle DEF Ends, IsWorker, IsRequest
  <2> QED
    BY <2>2, <2>3
    DEF TypeOK, OthersOK, WorkerRecords, IsWorker, RequestRecords, IsRequest,
      EditorRecords
<1>12. CASE Interrupt
  <2>1. rows' \in [Findings -> Rows]
    BY <1>0, <1>12 DEF Interrupt, Rows
  <2>2. OthersOK' /\ UNCHANGED <<worker, request>>
    BY <1>0, <1>12, <2>1 DEF Interrupt, editing, threads, bounds, Preparing, OthersOK
  <2> QED BY <2>2, OtherStepTypeOK
<1>13. CASE Shutdown \/ Serve \/ \E f \in Findings : RecordInterrupted(f)
  <2>1. OthersOK' /\ UNCHANGED <<worker, request>>
    BY <1>0, <1>13
    DEF Shutdown, Serve, RecordInterrupted, editing, persistent, threads, bounds,
        OthersOK
  <2> QED BY <2>1, OtherStepTypeOK
<1>14. CASE UNCHANGED vars
  BY <1>0, <1>14, OtherStepTypeOK
  DEF vars, editing, persistent, threads, process, bounds, OthersOK
<1> QED
  BY <1>1, <1>2, <1>3, <1>4, <1>5, <1>6, <1>7, <1>8, <1>9, <1>10, <1>11,
     <1>12, <1>13, <1>14, <1>15
  DEF Next, Edits, RequestGoesOn, WorkerGoesOn, ProcessGoesOn
-----------------------------------------------------------------------------
(* The rest of the invariant.                                              *)

\* A thread that is somewhere else after a step has made it, or the process
\* has ended.
LEMMA WhoMoves ==
    ASSUME TypeOK, [Next]_vars, NEW w \in Workers, worker'[w] # worker[w]
    PROVE  \/ WorkerGoesOn(w)
           \/ worker'[w] = IdleWorker /\ phase' = "down"
<1>1. ASSUME NEW v \in Workers, WorkerGoesOn(v), v # w PROVE FALSE
  BY <1>1
  DEF WorkerGoesOn, Take, Get, Call, Record, RecordFails, Complete, CompleteFails,
      TypeOK
<1>2. ASSUME NEW r \in Requests, RequestGoesOn(r) \/ \E f \in Findings : Post(r, f)
      PROVE  FALSE
  BY <1>2
  DEF RequestGoesOn, Post, ReadSettings, Begin, Submit, SubmitRefused, OnlyRequest
<1>3. CASE Switch \/ DeleteAnalysis \/ \E e \in Editors : Edits(e)
  BY <1>3, WhereEditorGoes
  DEF Switch, DeleteAnalysis, OnlyAnalysis, OnlyEditor, threads
<1>4. CASE Exit \/ Crash
  BY <1>4 DEF Exit, Crash, Ends
<1>5. CASE \/ Shutdown \/ Interrupt \/ Serve \/ UNCHANGED vars
           \/ \E f \in Findings : RecordInterrupted(f)
  BY <1>5 DEF Shutdown, Interrupt, Serve, RecordInterrupted, vars, threads
<1> QED BY <1>1, <1>2, <1>3, <1>4, <1>5 DEF Next, Edits, ProcessGoesOn

\* A process that shuts down may still end.
LEMMA NextRestartIsLeft ==
    ASSUME TypeOK, RestartIsLeft, [Next]_vars PROVE RestartIsLeft'
BY DEF RestartIsLeft, Next, vars, EditorGoesOn, EditorReads, EditorLoads,
       EditorUpdates, OnlyEditor, Switch, DeleteAnalysis, OnlyAnalysis, Post,
       OnlyRequest, RequestGoesOn, ReadSettings, Begin, Submit, SubmitRefused,
       WorkerGoesOn, Take, Get, Call, OnlyWorker, Record, RecordFails, Complete,
       CompleteFails, Shutdown, Crash, ProcessGoesOn, Exit, Ends, Interrupt,
       RecordInterrupted, Serve, process, bounds

\* A call is made under the task's binding, and nothing else makes an
\* explanation.
LEMMA NextHandsAreSound ==
    ASSUME TypeOK, HandsAreSound, [Next]_vars PROVE HandsAreSound'
<1> DEFINE Sound(x) == /\ x.pc \in {"call", "record"} => x.seen = x.task.binding
                       /\ x.outcome = "ready" => /\ x.pc \in {"record", "complete"}
                                                 /\ x.seen = x.task.binding
                       /\ x.counted => x.pc = "complete"
<1>1. \A w \in Workers : Sound(worker[w])
  BY DEF HandsAreSound
<1>2. Sound(IdleWorker)
  BY IdleIsIdle
<1>3. worker \in [Workers -> WorkerRecords]
  BY TypeOKSplit
<1>4. ASSUME NEW w \in Workers, WorkerGoesOn(w) PROVE Sound(worker'[w])
  <2>1. CASE Take(w)
    BY <1>3, <2>1, WhereWorkerGoes
  <2>2. CASE Get(w)
    <3>1. worker[w].pc = "get"
      BY <2>2 DEF Get
    <3>2. worker[w].outcome # "ready" /\ ~ worker[w].counted
      BY <1>1, <3>1
    <3> QED BY <1>2, <1>3, <2>2, <3>2, WhereWorkerGoes
  <2>3. CASE Call(w)
    <3>1. worker[w].pc = "call"
      BY <2>3 DEF Call
    <3>2. worker[w].seen = worker[w].task.binding /\ ~ worker[w].counted
      BY <1>1, <3>1
    <3> QED BY <1>3, <2>3, <3>2, WhereWorkerGoes
  <2>4. CASE Record(w) \/ RecordFails(w)
    <3>1. worker[w].pc = "record"
      BY <2>4 DEF Record, RecordFails
    <3>2. worker[w].seen = worker[w].task.binding
      BY <1>1, <3>1
    <3> QED BY <1>3, <2>4, <3>2, WhereWorkerGoes
  <2>5. CASE Complete(w) \/ CompleteFails(w)
    BY <1>2, <1>3, <2>5, WhereWorkerGoes
  <2> QED BY <1>4, <2>1, <2>2, <2>3, <2>4, <2>5 DEF WorkerGoesOn
<1>5. \A w \in Workers : Sound(worker'[w])
  BY <1>1, <1>2, <1>4, WhoMoves
<1> QED BY <1>5 DEF HandsAreSound

\* A step changes nothing of the analysis, unless it is one of a change.
LEMMA EditingStep ==
    ASSUME [Next]_vars
    PROVE  \/ \E e \in Editors : Edits(e)
           \/ /\ UNCHANGED <<analysis, overlapped>>
              /\ \/ editor' = editor
                 \/ editor' = [e \in Editors |-> IdleEditor]
BY DEF Next, vars, Edits, Switch, DeleteAnalysis, OnlyAnalysis, Post, OnlyRequest,
       RequestGoesOn, ReadSettings, Begin, Submit, SubmitRefused, WorkerGoesOn,
       Take, Get, Call, OnlyWorker, Record, RecordFails, Complete, CompleteFails,
       Shutdown, Crash, ProcessGoesOn, Exit, Ends, Interrupt, RecordInterrupted,
       Serve, persistent, editing

\* A change in hand is what an operation makes of the row it has read.
LEMMA NextChangesAreSound ==
    ASSUME TypeOK, ChangesAreSound, [Next]_vars PROVE ChangesAreSound'
<1>1. ASSUME NEW e \in Editors, Edits(e) PROVE ChangesAreSound'
  <2>1. PICK x : /\ editor' = [editor EXCEPT ![e] = x]
                 /\ x.pc = "idle" \/ IsChange(x)
                       \/ /\ editor[e].pc # "idle"
                          /\ x.wants = editor[e].wants /\ x.read = editor[e].read
    BY <1>1, WhereEditorGoes
  <2>2. x.pc # "idle" => IsChange(x)
    BY <2>1 DEF ChangesAreSound, IsChange
  <2> QED BY <2>1, <2>2 DEF ChangesAreSound, TypeOK
<1>2. CASE editor' = editor \/ editor' = [e \in Editors |-> IdleEditor]
  BY <1>2, NoChangeIsEditor DEF ChangesAreSound
<1> QED BY <1>1, <1>2, EditingStep

\* Whatever an operation makes of the row that is stored, a version that was
\* seen stands for what it stood for, or for something earlier.
LEMMA FitsStays ==
    ASSUME NEW row \in AnalysisRows, NEW op \in Operations, NEW c \in Changes,
           NEW version \in Nat, NEW sent, Fits(row, version, sent),
           IsReadable(row), Accepts(op, row)
    PROVE  Fits(Applied(op, row, c), version, sent)
<1>0. CASE version = 0
  BY <1>0 DEF Fits
<1>1. CASE version # 0
  <2>0. /\ row.finalized /\ version > 0 /\ row.context # NoContext
        /\ \/ version < row.version
           \/ version = row.version /\ sent = row.context.edits
        /\ row.version \in Nat
    BY <1>1 DEF Fits, IsReadable, AnalysisRows
  <2>1. op \in {"confirm", "finalize", "other"}
    BY <2>0 DEF Accepts, Operations
  <2>2. CASE op = "confirm"
    <3> DEFINE new == ConfirmFields(row, c)
    <3>1. new.finalized /\ new.version = row.version + 1
      BY <2>0 DEF ConfirmFields, AnalysisRows
    <3> HIDE DEF new
    <3>2. version < new.version
      BY <2>0, <3>1
    <3>3. Applied(op, row, c) = new
      BY <2>2 DEF Applied, new
    <3> QED BY <2>0, <3>1, <3>2, <3>3 DEF Fits
  <2>3. CASE op = "finalize"
    <3>1. FinalizeContext(row) = row
      BY <2>0 DEF FinalizeContext, AnalysisRows
    <3> QED BY <2>3, <3>1 DEF Applied
  <2>4. CASE op = "other"
    BY <2>4 DEF Applied
  <2> QED BY <2>1, <2>2, <2>3, <2>4
<1> QED BY <1>0, <1>1

\* What is read of a row at once fits it.
LEMMA ReadFits ==
    ASSUME NEW row \in AnalysisRows, IsReadable(row)
    PROVE  Fits(row, Version(row), Confirmed(row))
BY DEF Fits, Version, Confirmed, IsReadable, AnalysisRows

\* Nothing has been read, and nothing sent.
LEMMA NothingFits == ASSUME NEW row PROVE Fits(row, 0, {})
BY DEF Fits

\* Nothing is in hand until the process serves again.
LEMMA NextQuietWhenDown ==
    ASSUME TypeOK, QuietWhenDown, [Next]_vars PROVE QuietWhenDown'
<1>0. CASE Exit \/ Crash
  BY <1>0, IdleIsIdle DEF Exit, Crash, Ends, QuietWhenDown, TypeOK
<1>1. CASE phase \in {"down", "recording"} /\ ~ (Exit \/ Crash)
  <2>0. ~ \/ \E r \in Requests : RequestGoesOn(r) \/ \E f \in Findings : Post(r, f)
          \/ \E w \in Workers : WorkerGoesOn(w)
    BY <1>1
    DEF QuietWhenDown, RequestGoesOn, Post, ReadSettings, Begin, Submit,
        SubmitRefused, WorkerGoesOn, Take, Get, Call, Record, RecordFails,
        Complete, CompleteFails
  <2>1. UNCHANGED <<queue, worker, request, restarts>>
    <3>1. ~ (Switch \/ DeleteAnalysis \/ Shutdown)
      BY <1>1 DEF Switch, DeleteAnalysis, Shutdown
    <3>2. CASE \E e \in Editors : Edits(e)
      BY <3>2, WhereEditorGoes DEF OnlyEditor, threads, bounds
    <3>3. CASE \/ Interrupt \/ Serve \/ UNCHANGED vars
               \/ \E f \in Findings : RecordInterrupted(f)
      BY <3>3 DEF Interrupt, Serve, RecordInterrupted, vars, threads, bounds
    <3> QED BY <1>1, <2>0, <3>1, <3>2, <3>3 DEF Next, Edits, ProcessGoesOn
  <2>2. phase' = "recording" => Preparing' = {}
    <3>1. CASE Interrupt
      BY <3>1 DEF Interrupt, Preparing, TypeOK, Rows
    <3>2. CASE ~ Interrupt /\ phase' = "recording"
      <4>1. phase = "recording" /\ rows' = rows
        BY <1>1, <3>2
        DEF QuietWhenDown, Next, vars, EditorGoesOn, EditorReads, EditorLoads,
            EditorUpdates, OnlyEditor, Switch, DeleteAnalysis, Post,
            RequestGoesOn, ReadSettings, Begin, Submit, SubmitRefused,
            WorkerGoesOn, Take, Get, Call, Record, RecordFails, Complete,
            CompleteFails, Shutdown, Crash, ProcessGoesOn, Exit, Ends,
            RecordInterrupted, Serve, persistent, process
      <4> QED BY <4>1 DEF QuietWhenDown, Preparing
    <3> QED BY <3>1, <3>2
  <2> QED BY <1>1, <2>1, <2>2 DEF QuietWhenDown
<1>2. CASE phase \notin {"down", "recording"} /\ ~ (Exit \/ Crash)
  <2>1. phase' \notin {"down", "recording"}
    BY <1>2
    DEF Next, vars, EditorGoesOn, EditorReads, EditorLoads, EditorUpdates,
        OnlyEditor, Switch, DeleteAnalysis, OnlyAnalysis, Post, OnlyRequest,
        RequestGoesOn, ReadSettings, Begin, Submit, SubmitRefused, WorkerGoesOn,
        Take, Get, Call, OnlyWorker, Record, RecordFails, Complete,
        CompleteFails, Shutdown, ProcessGoesOn, Interrupt, RecordInterrupted,
        Serve, process
  <2> QED BY <2>1 DEF QuietWhenDown
<1> QED BY <1>0, <1>1, <1>2

\* A request that begins an explanation of f writes its row.
Begins(r, f) ==
    /\ Begin(r)
    /\ f = request[r].finding
    /\ exists
    /\ HasRoom(f)
    /\ request[r].seen \in Bindings
    /\ rows' = [rows EXCEPT ![f] = Begun(request[r].seen)]
    /\ request'[r].pc = "submit"
    /\ request'[r].finding = f
    /\ request'[r].seen = request[r].seen

\* A thread that finishes f writes what it has.
Finished(w, f) ==
    /\ Complete(w)
    /\ f = worker[w].task.finding
    /\ Finishes(f, worker[w].task.binding)
    /\ rows'[f].status = worker[w].outcome
    /\ rows'[f].binding = rows[f].binding
    /\ rows'[f].made = worker[w].seen
    /\ rows'[f].sent = worker[w].sent
    /\ rows'[f].counted = worker[w].counted

\* What a step may do to a row.
LEMMA RowsStep ==
    ASSUME TypeOK, [Next]_vars, NEW f \in Findings
    PROVE  \/ rows'[f] = rows[f]
           \/ rows'[f] = NoRow /\ DeleteAnalysis
           \/ \E r \in Requests : Begins(r, f)
           \/ rows[f].status = "preparing" /\ rows'[f].status = "failed"
           \/ \E w \in Workers : Finished(w, f)
<1>0. rows \in [Findings -> Rows]
  BY DEF TypeOK
<1>1. CASE DeleteAnalysis
  BY <1>1 DEF DeleteAnalysis
<1>2. ASSUME NEW r \in Requests, Begin(r)
      PROVE  rows'[f] = rows[f] \/ Begins(r, f)
  <2>1. PICK x : /\ request' = [request EXCEPT ![r] = x]
                 /\ \/ x.pc = "idle" /\ rows' = rows
                    \/ LET g == request[r].finding
                           b == request[r].seen IN
                       /\ x.pc = "submit" /\ x.finding = g /\ x.seen = b
                       /\ exists /\ HasRoom(g)
                       /\ g \in Findings /\ b \in Bindings
                       /\ rows' = [rows EXCEPT ![g] = Begun(b)]
    BY <1>2, WhereRequestGoes
  <2>2. request'[r] = x
    BY <2>1 DEF TypeOK
  <2> QED BY <1>0, <1>2, <2>1, <2>2 DEF Begins
<1>3. ASSUME NEW r \in Requests, SubmitRefused(r)
      PROVE  \/ rows'[f] = rows[f]
             \/ rows[f].status = "preparing" /\ rows'[f].status = "failed"
  BY <1>0, <1>3 DEF SubmitRefused, Finishes, Rows
<1>4. ASSUME NEW w \in Workers, Complete(w)
      PROVE  rows'[f] = rows[f] \/ Finished(w, f)
  BY <1>4, CompletedRows DEF Finished
<1>5. CASE Interrupt
  BY <1>0, <1>5 DEF Interrupt, Preparing, Rows
<1>6. CASE /\ ~ DeleteAnalysis /\ ~ Interrupt
           /\ ~ \E r \in Requests : Begin(r) \/ SubmitRefused(r)
           /\ ~ \E w \in Workers : Complete(w)
  BY <1>6
  DEF Next, vars, EditorGoesOn, EditorReads, EditorLoads, EditorUpdates,
      OnlyEditor, Switch, OnlyAnalysis, Post, OnlyRequest, RequestGoesOn,
      ReadSettings, Submit, WorkerGoesOn, Take, Get, Call, OnlyWorker, Record,
      RecordFails, CompleteFails, Shutdown, Crash, ProcessGoesOn, Exit, Ends,
      RecordInterrupted, Serve, persistent
<1> QED BY <1>1, <1>2, <1>3, <1>4, <1>5, <1>6

\* What is stored as an explanation was made under the binding it has.
LEMMA NextMadeAsBound ==
    ASSUME TypeOK, HandsAreSound, MadeAsBound, [Next]_vars PROVE MadeAsBound'
<1> SUFFICES ASSUME NEW f \in Findings, rows'[f].status = "ready"
             PROVE  rows'[f].made = rows'[f].binding
  BY DEF MadeAsBound
<1>1. ASSUME NEW w \in Workers, Finished(w, f)
      PROVE  rows'[f].made = rows'[f].binding
  BY <1>1 DEF Finished, Finishes, HandsAreSound
<1>2. ASSUME NEW r \in Requests, Begins(r, f) PROVE FALSE
  BY <1>2, BegunIsRow DEF Begins, TypeOK
<1> QED BY <1>1, <1>2, RowsStep DEF MadeAsBound, NoRow

\* What has been read of the context, and stored with an explanation, is what
\* its version stands for.
LEMMA NextVersionsFit ==
    ASSUME TypeOK, ChangesAreSound, VersionsFit, [Next]_vars PROVE VersionsFit'
<1> SUFFICES ASSUME ~ overlapped'
             PROVE  /\ \A w \in Workers :
                           Fits(analysis', worker'[w].seen.context, worker'[w].sent)
                    /\ \A f \in Findings : rows'[f].status = "ready" =>
                           Fits(analysis', rows'[f].made.context, rows'[f].sent)
  BY DEF VersionsFit
<1>0. /\ worker \in [Workers -> WorkerRecords] /\ analysis \in AnalysisRows
      /\ rows \in [Findings -> Rows]
  BY TypeOKSplit DEF OthersOK
<1>1. /\ ~ overlapped
      /\ \/ analysis' = analysis
         \/ \E e \in Editors : /\ editor[e].pc # "idle"
                               /\ analysis = editor[e].read
                               /\ analysis' = editor[e].wants
  BY EditingStep, WhereEditorGoes
<1>2. ASSUME NEW version \in Nat, NEW sent, Fits(analysis, version, sent)
      PROVE  Fits(analysis', version, sent)
  <2>1. ASSUME NEW e \in Editors, editor[e].pc # "idle",
               analysis = editor[e].read, analysis' = editor[e].wants
        PROVE  Fits(analysis', version, sent)
    <3>1. PICK op \in Operations, c \in Changes :
              /\ analysis' = Applied(op, analysis, c)
              /\ IsReadable(analysis) /\ Accepts(op, analysis)
      BY <2>1 DEF ChangesAreSound, IsChange
    <3> QED BY <1>0, <1>2, <3>1, FitsStays
  <2> QED BY <1>1, <1>2, <2>1
<1>3. /\ \A w \in Workers :
             /\ worker[w].seen.context \in Nat
             /\ Fits(analysis, worker[w].seen.context, worker[w].sent)
      /\ \A f \in Findings :
             /\ rows[f].made.context \in Nat
             /\ rows[f].status = "ready" =>
                    Fits(analysis, rows[f].made.context, rows[f].sent)
  BY <1>0, <1>1 DEF VersionsFit, WorkerRecords, Rows, Bindings
<1>4. ASSUME NEW w \in Workers
      PROVE  Fits(analysis', worker'[w].seen.context, worker'[w].sent)
  <2>1. CASE worker'[w] = worker[w]
    BY <1>2, <1>3, <2>1
  <2>2. CASE worker'[w] = IdleWorker
    BY <2>2, NothingFits DEF IdleWorker, NoBinding
  <2>3. CASE WorkerGoesOn(w)
    <3>1. PICK x : /\ worker'[w] = x
                   /\ \/ x.seen.context = 0 /\ x.sent = {}
                      \/ Reads(w, x)
      BY <1>0, <2>2, <2>3, WhereWorkerGoes
      DEF WorkerGoesOn, Reads, IdleWorker, NoBinding
    <3>2. analysis' = analysis
      BY <2>3 DEF WorkerGoesOn, Take, Get, Call, OnlyWorker, Record, RecordFails,
                  Complete, CompleteFails, persistent
    <3>3. CASE IsReadable(analysis) /\ x.seen.context = Version(analysis)
                                   /\ x.sent = Confirmed(analysis)
      BY <1>0, <3>1, <3>2, <3>3, ReadFits
    <3>4. CASE x.seen = worker[w].seen /\ x.sent = worker[w].sent
      BY <1>3, <3>1, <3>2, <3>4
    <3> QED BY <3>1, <3>3, <3>4, NothingFits DEF Reads
  <2> QED BY <2>1, <2>2, <2>3, WhoMoves
<1>5. ASSUME NEW f \in Findings, rows'[f].status = "ready"
      PROVE  Fits(analysis', rows'[f].made.context, rows'[f].sent)
  <2>1. CASE rows'[f] = rows[f]
    BY <1>2, <1>3, <1>5, <2>1
  <2>2. ASSUME NEW w \in Workers, Finished(w, f)
        PROVE  Fits(analysis', rows'[f].made.context, rows'[f].sent)
    BY <1>2, <1>3, <2>2 DEF Finished
  <2>3. ASSUME NEW r \in Requests, Begins(r, f) PROVE FALSE
    BY <1>5, <2>3, BegunIsRow DEF Begins, TypeOK
  <2> QED BY <1>5, <2>1, <2>2, <2>3, RowsStep DEF NoRow
<1> QED BY <1>4, <1>5

\* The rows of an analysis are gone with it, and stay so.
LEMMA NextNothingOutlivesItsAnalysis ==
    ASSUME TypeOK, NothingOutlivesItsAnalysis, [Next]_vars
    PROVE  NothingOutlivesItsAnalysis'
<1> SUFFICES ASSUME ~ exists', NEW f \in Findings PROVE rows'[f] = NoRow
  BY DEF NothingOutlivesItsAnalysis
<1>1. CASE DeleteAnalysis
  BY <1>1 DEF DeleteAnalysis
<1>2. CASE ~ DeleteAnalysis
  <2>1. ~ exists
    BY <1>2
    DEF Next, vars, EditorGoesOn, EditorReads, EditorLoads, EditorUpdates,
        OnlyEditor, Switch, OnlyAnalysis, Post, OnlyRequest, RequestGoesOn,
        ReadSettings, Begin, Submit, SubmitRefused, WorkerGoesOn, Take, Get,
        Call, OnlyWorker, Record, RecordFails, Complete, CompleteFails,
        Shutdown, Crash, ProcessGoesOn, Exit, Ends, Interrupt,
        RecordInterrupted, Serve, persistent
  <2>2. rows[f] = NoRow /\ rows[f].status = "none"
    <3>1. rows[f] = NoRow
      BY <2>1 DEF NothingOutlivesItsAnalysis
    <3> QED BY <3>1 DEF NoRow
  <2>3. ~ \E r \in Requests : Begins(r, f)
    BY <2>1 DEF Begins
  <2>4. ~ \E w \in Workers : Finished(w, f)
    BY <2>2 DEF Finished, Finishes
  <2> QED BY <2>2, <2>3, <2>4, RowsStep
<1> QED BY <1>1, <1>2

\* A request begins an explanation only where there is room for one.
LEMMA NextFewArePreparing ==
    ASSUME TypeOK, FewArePreparing, [Next]_vars PROVE FewArePreparing'
<1> USE FS_CardinalityType, PreparingBound DEF FewArePreparing, PreparingIsBounded
<1>1. ASSUME NEW r \in Requests, NEW f \in Findings, Begins(r, f)
      PROVE  FewArePreparing'
  <2> DEFINE P == Preparing \ {f}
  <2>1. IsFiniteSet(P) /\ Cardinality(P) < MaxPreparing
    BY <1>1, FS_Subset DEF Begins, HasRoom
  <2>2. IsFiniteSet(P \cup {f}) /\ Cardinality(P \cup {f}) = Cardinality(P) + 1
    <3>1. f \notin P
      OBVIOUS
    <3> HIDE DEF P
    <3> QED BY <2>1, <3>1, FS_AddElement
  <2>3. Preparing' \in SUBSET (P \cup {f})
    BY <1>1 DEF Begins, Preparing, TypeOK
  <2>4. IsFiniteSet(Preparing') /\ Cardinality(Preparing') <= Cardinality(P \cup {f})
    BY <2>2, <2>3, FS_Subset
  <2> QED BY <2>1, <2>2, <2>4
<1>2. CASE ~ \E r \in Requests, f \in Findings : Begins(r, f)
  <2>1. ASSUME NEW f \in Findings, rows'[f].status = "preparing"
        PROVE  rows[f].status = "preparing"
    <3>1. ~ \E w \in Workers : Finished(w, f)
      BY <2>1 DEF Finished, TypeOK
    <3> QED BY <1>2, <2>1, <3>1, RowsStep DEF NoRow
  <2>2. Preparing' \in SUBSET Preparing
    BY <2>1 DEF Preparing
  <2>3. IsFiniteSet(Preparing') /\ Cardinality(Preparing') <= Cardinality(Preparing)
    BY <2>2, FS_Subset
  <2> QED BY <2>3
<1> QED BY <1>1, <1>2

\* A request that is somewhere else after a step has made it, or the process
\* has ended.
LEMMA WhoAsks ==
    ASSUME TypeOK, [Next]_vars, NEW r \in Requests, request'[r] # request[r]
    PROVE  \/ RequestGoesOn(r) \/ \E f \in Findings : Post(r, f)
           \/ phase' = "down"
<1>1. ASSUME NEW q \in Requests,
             RequestGoesOn(q) \/ \E f \in Findings : Post(q, f), q # r
      PROVE  FALSE
  BY <1>1
  DEF RequestGoesOn, Post, ReadSettings, Begin, Submit, SubmitRefused, RequestEnds,
      TypeOK
<1>2. ASSUME NEW w \in Workers, WorkerGoesOn(w) PROVE FALSE
  BY <1>2
  DEF WorkerGoesOn, Take, Get, Call, Record, RecordFails, Complete, CompleteFails,
      OnlyWorker
<1>3. CASE Switch \/ DeleteAnalysis \/ \E e \in Editors : Edits(e)
  BY <1>3, WhereEditorGoes
  DEF Switch, DeleteAnalysis, OnlyAnalysis, OnlyEditor, threads
<1>4. CASE Exit \/ Crash
  BY <1>4 DEF Exit, Crash, Ends
<1>5. CASE \/ Shutdown \/ Interrupt \/ Serve \/ UNCHANGED vars
           \/ \E f \in Findings : RecordInterrupted(f)
  BY <1>5 DEF Shutdown, Interrupt, Serve, RecordInterrupted, vars, threads
<1> QED BY <1>1, <1>2, <1>3, <1>4, <1>5 DEF Next, Edits, ProcessGoesOn

\* What a step may do to the queue.
LEMMA QueueStep ==
    ASSUME TypeOK, [Next]_vars
    PROVE  \/ queue' = queue
           \/ \E w \in Workers : Take(w)
           \/ \E r \in Requests : Submit(r)
           \/ phase' = "down"
BY DEF Next, vars, EditorGoesOn, EditorReads, EditorLoads, EditorUpdates,
       OnlyEditor, Switch, DeleteAnalysis, OnlyAnalysis, Post, OnlyRequest,
       RequestGoesOn, ReadSettings, Begin, SubmitRefused, WorkerGoesOn, Get,
       Call, OnlyWorker, Record, RecordFails, Complete, CompleteFails, Shutdown,
       Crash, ProcessGoesOn, Exit, Ends, Interrupt, RecordInterrupted, Serve,
       threads

\* A failed write is not forgotten.
LEMMA FaultsStay ==
    ASSUME TypeOK, [Next]_vars
    PROVE  /\ faults \in Nat
           /\ (\E w \in Workers : RecordFails(w) \/ CompleteFails(w))
                  => faults' = faults + 1
           /\ (\A w \in Workers : ~ RecordFails(w) /\ ~ CompleteFails(w))
                  => faults' = faults
<1>1. faults \in Nat
  BY EnrichmentModelBounds DEF TypeOK
<1>2. ASSUME NEW w \in Workers, RecordFails(w) \/ CompleteFails(w)
      PROVE  faults' = faults + 1
  BY <1>2 DEF RecordFails, CompleteFails
<1>3. ASSUME \A w \in Workers : ~ RecordFails(w) /\ ~ CompleteFails(w)
      PROVE  faults' = faults
  BY <1>3
  DEF Next, vars, EditorGoesOn, EditorReads, EditorLoads, EditorUpdates,
      OnlyEditor, Switch, DeleteAnalysis, OnlyAnalysis, Post, OnlyRequest,
      RequestGoesOn, ReadSettings, Begin, Submit, SubmitRefused, WorkerGoesOn,
      Take, Get, Call, OnlyWorker, Record, Complete, Shutdown, Crash,
      ProcessGoesOn, Exit, Ends, Interrupt, RecordInterrupted, Serve
<1> QED BY <1>1, <1>2, <1>3

\* Whoever is to finish a row does, or hands it on.
LEMMA NextPreparingIsOwned ==
    ASSUME TypeOK, QuietWhenDown, NothingOutlivesItsAnalysis, PreparingIsOwned,
           [Next]_vars, TypeOK'
    PROVE  PreparingIsOwned'
<1> SUFFICES ASSUME phase' \in {"up", "closing"}, faults' = 0,
                    NEW f \in Findings, rows'[f].status = "preparing",
                    NEW task, task = [finding |-> f, binding |-> rows'[f].binding]
             PROVE  \/ \E i \in 1 .. Len(queue') : queue'[i] = task
                    \/ \E w \in Workers : worker'[w].task = task
                    \/ \E r \in Requests : /\ request'[r].pc = "submit"
                                           /\ request'[r].finding = f
                                           /\ request'[r].seen = rows'[f].binding
  BY DEF PreparingIsOwned, Preparing
<1>0. /\ faults = 0
      /\ \A w \in Workers : ~ RecordFails(w) /\ ~ CompleteFails(w)
      /\ worker \in [Workers -> WorkerRecords]
      /\ request \in [Requests -> RequestRecords]
  BY FaultsStay, TypeOKSplit
<1>1. rows'[f].binding \in Bindings /\ task \in Tasks
  BY DEF TypeOK, Rows, Tasks
<1>2. CASE \E r \in Requests : Begins(r, f)
  BY <1>2, BegunIsRow DEF Begins, TypeOK
<1>3. CASE ~ \E r \in Requests : Begins(r, f)
  <2>1. rows'[f] = rows[f]
    <3>1. ~ \E w \in Workers : Finished(w, f)
      BY DEF Finished, TypeOK
    <3> QED BY <1>3, <3>1, RowsStep DEF NoRow
  <2>2. rows[f].status = "preparing" /\ rows[f] # NoRow
    BY <2>1 DEF NoRow
  <2>3. exists /\ phase \in {"up", "closing"}
    <3>1. exists
      BY <2>2 DEF NothingOutlivesItsAnalysis
    <3>2. phase # "recording"
      BY <2>2 DEF QuietWhenDown, Preparing
    <3>3. phase # "down"
      BY DEF QuietWhenDown, Next, vars, EditorGoesOn, EditorReads, EditorLoads,
             EditorUpdates, OnlyEditor, Switch, DeleteAnalysis, Post,
             RequestGoesOn, ReadSettings, Begin, Submit, SubmitRefused,
             WorkerGoesOn, Take, Get, Call, Record, RecordFails, Complete,
             CompleteFails, Shutdown, Crash, ProcessGoesOn, Exit, Interrupt,
             RecordInterrupted, Serve, process
    <3> QED BY <3>1, <3>2, <3>3 DEF TypeOK
  <2>4. \/ \E i \in 1 .. Len(queue) : queue[i] = task
        \/ \E w \in Workers : worker[w].task = task
        \/ \E r \in Requests : /\ request[r].pc = "submit"
                               /\ request[r].finding = f
                               /\ request[r].seen = rows[f].binding
    BY <1>0, <2>1, <2>2, <2>3 DEF PreparingIsOwned, Preparing
  <2>5. ASSUME NEW i \in 1 .. Len(queue), queue[i] = task
        PROVE  \/ \E j \in 1 .. Len(queue') : queue'[j] = task
               \/ \E w \in Workers : worker'[w].task = task
    <3>0. queue \in Seq(Tasks)
      BY DEF TypeOK
    <3>1. CASE \E w \in Workers : Take(w)
      <4>1. PICK w \in Workers : Take(w)
        BY <3>1
      <4>2. CASE i = 1
        <5>1. worker'[w].task = Head(queue)
          BY <1>0, <4>1, WhereWorkerGoes
        <5> QED BY <2>5, <3>0, <4>2, <5>1
      <4>3. CASE i # 1
        <5>1. queue' = Tail(queue) /\ queue # <<>>
          BY <4>1 DEF Take
        <5>2. i - 1 \in 1 .. Len(queue') /\ queue'[i - 1] = queue[i]
          BY <3>0, <4>3, <5>1
        <5> QED BY <2>5, <5>2
      <4> QED BY <4>2, <4>3
    <3>2. CASE \E r \in Requests : Submit(r)
      <4>1. PICK r \in Requests : Submit(r)
        BY <3>2
      <4>2. queue' = Append(queue, [finding |-> request[r].finding,
                                    binding |-> request[r].seen])
        BY <4>1 DEF Submit
      <4>3. i \in 1 .. Len(queue') /\ queue'[i] = queue[i]
        BY <3>0, <4>2
      <4> QED BY <2>5, <4>3
    <3>3. CASE queue' = queue
      BY <2>5, <3>3
    <3> QED BY <3>1, <3>2, <3>3, QueueStep
  <2>6. ASSUME NEW w \in Workers, worker[w].task = task
        PROVE  worker'[w].task = task
    <3>1. worker[w].pc # "idle"
      BY <1>1, <2>6, TaskIsNotIdle DEF TypeOK
    <3>2. CASE worker'[w] = worker[w]
      BY <2>6, <3>2
    <3>3. CASE worker'[w] # worker[w]
      <4>1. WorkerGoesOn(w)
        BY <3>3, WhoMoves
      <4>2. CASE Get(w)
        BY <1>0, <2>3, <2>6, <4>2, WhereWorkerGoes
      <4>3. CASE Call(w)
        BY <1>0, <2>6, <4>3, WhereWorkerGoes
      <4>4. CASE Record(w)
        BY <1>0, <2>6, <4>4, WhereWorkerGoes
      <4>5. CASE Complete(w)
        <5>1. /\ worker[w].task.finding = f
              /\ worker[w].task.binding = rows[f].binding
          BY <2>1, <2>6
        <5>2. rows'[f].status = worker[w].outcome
          BY <2>2, <4>5, <5>1, CompletedRows DEF Finishes
        <5>3. worker[w].outcome # "preparing"
          BY DEF TypeOK
        <5> QED BY <5>2, <5>3
      <4> QED BY <1>0, <3>1, <4>1, <4>2, <4>3, <4>4, <4>5 DEF WorkerGoesOn, Take
    <3> QED BY <3>2, <3>3
  <2>7. ASSUME NEW r \in Requests, request[r].pc = "submit", request[r].finding = f,
               request[r].seen = rows[f].binding
        PROVE  \/ \E i \in 1 .. Len(queue') : queue'[i] = task
               \/ /\ request'[r].pc = "submit" /\ request'[r].finding = f
                  /\ request'[r].seen = rows'[f].binding
    <3>1. CASE request'[r] = request[r]
      BY <2>1, <2>7, <3>1
    <3>2. CASE request'[r] # request[r]
      <4>1. Submit(r) \/ SubmitRefused(r)
        BY <2>7, <3>2, WhoAsks
        DEF RequestGoesOn, Post, ReadSettings, Begin
      <4>2. CASE Submit(r)
        <5>1. queue' = Append(queue, task)
          BY <2>1, <2>7, <4>2 DEF Submit
        <5>2. queue \in Seq(Tasks)
          BY DEF TypeOK
        <5>3. Len(queue') \in 1 .. Len(queue') /\ queue'[Len(queue')] = task
          BY <1>1, <5>1, <5>2
        <5> QED BY <5>3
      <4>3. CASE SubmitRefused(r)
        BY <2>1, <2>2, <2>7, <4>3 DEF SubmitRefused, Finishes, TypeOK, Rows
      <4> QED BY <4>1, <4>2, <4>3
    <3> QED BY <3>1, <3>2
  <2> QED BY <2>4, <2>5, <2>6, <2>7
<1> QED BY <1>2, <1>3

\* Only a thread that finishes a row stores an explanation.
LEMMA UncountedStep ==
    ASSUME TypeOK, [Next]_vars, NEW f \in Uncounted', f \notin Uncounted
    PROVE  \E w \in ToBeUncounted : Finished(w, f)
<1>1. f \in Findings /\ rows'[f].status = "ready" /\ ~ rows'[f].counted
  BY DEF Uncounted
<1>2. rows'[f] # rows[f]
  BY <1>1 DEF Uncounted
<1>3. ASSUME NEW r \in Requests, Begins(r, f) PROVE FALSE
  BY <1>1, <1>3, BegunIsRow DEF Begins, TypeOK
<1>4. PICK w \in Workers : Finished(w, f)
  BY <1>1, <1>2, <1>3, RowsStep DEF NoRow
<1>5. w \in ToBeUncounted
  BY <1>1, <1>4 DEF Finished, Complete, ToBeUncounted
<1> QED BY <1>4, <1>5

\* A thread comes to have an uncounted explanation by a failed write only.
LEMMA ToBeUncountedStep ==
    ASSUME TypeOK, HandsAreSound, [Next]_vars,
           NEW w \in ToBeUncounted', w \notin ToBeUncounted
    PROVE  RecordFails(w)
<1>0. worker \in [Workers -> WorkerRecords]
  BY TypeOKSplit
<1>1. /\ w \in Workers /\ worker'[w].pc = "complete"
      /\ worker'[w].outcome = "ready" /\ ~ worker'[w].counted
  BY DEF ToBeUncounted
<1>2. worker'[w] # worker[w]
  BY <1>1 DEF ToBeUncounted
<1>3. WorkerGoesOn(w)
  BY <1>1, <1>2, WhoMoves, IdleIsIdle
<1>4. ~ Take(w) /\ ~ Call(w) /\ ~ Complete(w) /\ ~ CompleteFails(w)
  BY <1>0, <1>1, WhereWorkerGoes, IdleIsIdle
<1>5. ~ Record(w)
  BY <1>0, <1>1, WhereWorkerGoes
<1>6. ~ Get(w)
  <2>1. ASSUME Get(w) PROVE FALSE
    <3>1. worker[w].outcome # "ready"
      BY <1>1, <2>1 DEF Get, HandsAreSound
    <3> QED BY <1>0, <1>1, <2>1, <3>1, WhereWorkerGoes, IdleIsIdle
  <2> QED BY <2>1
<1> QED BY <1>3, <1>4, <1>5, <1>6 DEF WorkerGoesOn

\* One more element is one more at most.
LEMMA OneMore ==
    ASSUME NEW S, NEW x, IsFiniteSet(S)
    PROVE  /\ IsFiniteSet(S \cup {x})
           /\ Cardinality(S \cup {x}) <= Cardinality(S) + 1
<1>1. Cardinality(S) \in Nat
  BY FS_CardinalityType
<1>2. CASE x \in S
  <2> DEFINE X == S \cup {x}
  <2>1. X = S
    BY <1>2
  <2> HIDE DEF X
  <2>2. IsFiniteSet(X) /\ Cardinality(X) <= Cardinality(S) + 1
    BY <1>1, <2>1
  <2> QED BY <2>2 DEF X
<1>3. CASE x \notin S
  BY <1>1, <1>3, FS_AddElement
<1> QED BY <1>2, <1>3

\* An explanation whose call was not counted is stored, or in hand, for each
\* failed write at most.
LEMMA NextFewAreUncounted ==
    ASSUME TypeOK, HandsAreSound, FewAreUncounted, [Next]_vars
    PROVE  FewAreUncounted'
<1> DEFINE U == Uncounted
           T == ToBeUncounted
<1>0. /\ IsFiniteSet(U) /\ IsFiniteSet(T)
      /\ Cardinality(U) \in Nat /\ Cardinality(T) \in Nat
      /\ Cardinality(U) + Cardinality(T) <= faults
      /\ faults \in Nat
  BY FS_CardinalityType, FaultsStay DEF FewAreUncounted
<1>1. ASSUME NEW w \in Workers, RecordFails(w) PROVE FewAreUncounted'
  <2>1. faults' = faults + 1
    BY <1>1, FaultsStay
  <2>2. Uncounted' = U
    BY <1>1 DEF RecordFails, persistent, Uncounted
  <2>3. ToBeUncounted' \subseteq T \cup {w}
    <3>1. ASSUME NEW v \in ToBeUncounted', v \notin T PROVE v = w
      <4>1. RecordFails(v) /\ v \in Workers
        BY <3>1, ToBeUncountedStep DEF ToBeUncounted
      <4> QED BY <1>1, <4>1 DEF RecordFails, TypeOK
    <3> QED BY <3>1
  <2>4. /\ IsFiniteSet(T \cup {w})
        /\ Cardinality(T \cup {w}) <= Cardinality(T) + 1
    BY <1>0, OneMore
  <2>5. /\ IsFiniteSet(ToBeUncounted')
        /\ Cardinality(ToBeUncounted') <= Cardinality(T) + 1
        /\ Cardinality(ToBeUncounted') \in Nat
    BY <1>0, <2>3, <2>4, FS_Subset, FS_CardinalityType
  <2> QED BY <1>0, <2>1, <2>2, <2>5 DEF FewAreUncounted
<1>2. CASE \A w \in Workers : ~ RecordFails(w)
  <2>1. ToBeUncounted' \subseteq T
    BY <1>2, ToBeUncountedStep DEF ToBeUncounted
  <2>2. faults <= faults' /\ faults' \in Nat
    BY <1>0, FaultsStay
  <2>3. CASE Uncounted' \subseteq U
    <3>1. /\ IsFiniteSet(ToBeUncounted') /\ IsFiniteSet(Uncounted')
          /\ Cardinality(ToBeUncounted') <= Cardinality(T)
          /\ Cardinality(Uncounted') <= Cardinality(U)
          /\ Cardinality(ToBeUncounted') \in Nat /\ Cardinality(Uncounted') \in Nat
      BY <1>0, <2>1, <2>3, FS_Subset, FS_CardinalityType
    <3> QED BY <1>0, <2>2, <3>1 DEF FewAreUncounted
  <2>4. ASSUME NEW f \in Uncounted', f \notin U PROVE FewAreUncounted'
    <3>1. PICK w \in T : Finished(w, f)
      BY <2>4, UncountedStep
    <3>2. w \in Workers /\ Complete(w)
      BY <3>1 DEF Finished, ToBeUncounted
    <3>3. worker'[w] = IdleWorker
      BY <3>2, WhereWorkerGoes DEF TypeOK
    <3>4. ToBeUncounted' \subseteq T \ {w}
      BY <2>1, <3>3, IdleIsIdle DEF ToBeUncounted
    <3>5. Uncounted' \subseteq U \cup {f}
      <4>1. ASSUME NEW g \in Uncounted', g \notin U PROVE g = f
        <5>1. PICK v \in T : Finished(v, g)
          BY <4>1, UncountedStep
        <5>2. g = worker[v].task.finding /\ Complete(v) /\ v \in Workers
          BY <5>1 DEF Finished, ToBeUncounted
        <5>3. v = w
          BY <3>2, <3>3, <5>2, IdleIsIdle DEF Complete, TypeOK
        <5> QED BY <3>1, <5>2, <5>3 DEF Finished
      <4> QED BY <4>1
    <3>6. /\ IsFiniteSet(T \ {w}) /\ Cardinality(T \ {w}) = Cardinality(T) - 1
          /\ IsFiniteSet(U \cup {f}) /\ Cardinality(U \cup {f}) <= Cardinality(U) + 1
      BY <1>0, <3>1, FS_RemoveElement, OneMore
    <3>7. /\ IsFiniteSet(ToBeUncounted') /\ IsFiniteSet(Uncounted')
          /\ Cardinality(ToBeUncounted') <= Cardinality(T) - 1
          /\ Cardinality(Uncounted') <= Cardinality(U) + 1
          /\ Cardinality(ToBeUncounted') \in Nat /\ Cardinality(Uncounted') \in Nat
      BY <1>0, <3>4, <3>5, <3>6, FS_Subset, FS_CardinalityType
    <3> QED BY <1>0, <2>2, <3>7 DEF FewAreUncounted
  <2> QED BY <2>3, <2>4
<1> QED BY <1>1, <1>2

\* A thread that calls is about to record the call.
LEMMA RecordingStep ==
    ASSUME TypeOK, [Next]_vars, NEW w \in Workers
    PROVE  /\ w \in Recording' /\ w \notin Recording => Call(w)
           /\ w \in Recording /\ w \notin Recording' =>
                  Record(w) \/ RecordFails(w) \/ phase' = "down"
<1>0. worker \in [Workers -> WorkerRecords]
  BY TypeOKSplit
<1>1. ASSUME w \in Recording', w \notin Recording PROVE Call(w)
  <2>1. worker'[w].pc = "record" /\ worker'[w] # worker[w]
    BY <1>1 DEF Recording
  <2>2. WorkerGoesOn(w)
    BY <2>1, WhoMoves, IdleIsIdle
  <2>3. /\ ~ Take(w) /\ ~ Get(w) /\ ~ Record(w) /\ ~ RecordFails(w)
        /\ ~ Complete(w) /\ ~ CompleteFails(w)
    BY <1>0, <2>1, WhereWorkerGoes, IdleIsIdle
  <2> QED BY <2>2, <2>3 DEF WorkerGoesOn
<1>2. ASSUME w \in Recording, w \notin Recording', phase' # "down"
      PROVE  Record(w) \/ RecordFails(w)
  <2>1. worker[w].pc = "record" /\ worker'[w] # worker[w]
    BY <1>2 DEF Recording
  <2> QED
    BY <1>2, <2>1, WhoMoves
    DEF WorkerGoesOn, Take, Get, Call, Complete, CompleteFails
<1> QED BY <1>1, <1>2

\* Every attempt is counted, or about to be.
LEMMA NextAttemptsAreCounted ==
    ASSUME TypeOK, QuietWhenDown, AttemptsAreCounted, [Next]_vars, TypeOK'
    PROVE  AttemptsAreCounted'
<1> DEFINE R == Recording
<1>0. /\ IsFiniteSet(R) /\ Cardinality(R) \in Nat /\ faults \in Nat
      /\ count \in Nat /\ attempts \in Nat /\ restarts \in Nat
  BY FS_CardinalityType, FaultsStay, EnrichmentModelBounds
  DEF AttemptsAreCounted, TypeOK
<1>1. IsFiniteSet(Recording')
  <2>1. CASE \E w \in Workers : Call(w)
    <3>1. PICK w \in Workers : Call(w)
      BY <2>1
    <3>2. \A v \in Workers : Call(v) => v = w
      BY <3>1, IdleIsIdle DEF Call, TypeOK
    <3>3. Recording' \subseteq R \cup {w}
      BY <3>2, RecordingStep DEF Recording
    <3> QED BY <1>0, <3>3, OneMore, FS_Subset
  <2>2. CASE ~ \E w \in Workers : Call(w)
    <3>1. Recording' \subseteq R
      BY <2>2, RecordingStep DEF Recording
    <3> QED BY <1>0, <3>1, FS_Subset
  <2> QED BY <2>1, <2>2
<1> SUFFICES ASSUME exists', restarts' = 0, faults' = 0
             PROVE  attempts' = count' + Cardinality(Recording')
  BY <1>1 DEF AttemptsAreCounted
<1>2. /\ faults = 0
      /\ \A w \in Workers : ~ RecordFails(w) /\ ~ CompleteFails(w)
  BY FaultsStay
<1>3. ~ Exit /\ ~ Crash
  BY <1>0 DEF Exit, Crash, Ends
<1>4. restarts = 0 /\ exists
  BY <1>3
  DEF Next, vars, EditorGoesOn, EditorReads, EditorLoads, EditorUpdates,
      OnlyEditor, Switch, DeleteAnalysis, OnlyAnalysis, Post, OnlyRequest,
      RequestGoesOn, ReadSettings, Begin, Submit, SubmitRefused, WorkerGoesOn,
      Take, Get, Call, OnlyWorker, Record, RecordFails, Complete, CompleteFails,
      Shutdown, ProcessGoesOn, Interrupt, RecordInterrupted, Serve, persistent,
      bounds
<1>5. attempts = count + Cardinality(R) /\ phase \notin {"down", "recording"}
  BY <1>2, <1>4, <1>0 DEF AttemptsAreCounted, QuietWhenDown
<1>6. phase' # "down"
  BY <1>3, <1>5
  DEF Next, vars, EditorGoesOn, EditorReads, EditorLoads, EditorUpdates,
      OnlyEditor, Switch, DeleteAnalysis, OnlyAnalysis, Post, OnlyRequest,
      RequestGoesOn, ReadSettings, Begin, Submit, SubmitRefused, WorkerGoesOn,
      Take, Get, Call, OnlyWorker, Record, RecordFails, Complete, CompleteFails,
      Shutdown, ProcessGoesOn, Interrupt, RecordInterrupted, Serve, process
<1>7. ASSUME NEW w \in Workers, Call(w)
      PROVE  attempts' = count' + Cardinality(Recording')
  <2>1. w \notin R /\ w \in Recording'
    BY <1>7 DEF Call, Recording, TypeOK
  <2>2. \A v \in Workers : v # w => worker'[v] = worker[v]
    BY <1>7 DEF Call, TypeOK
  <2>3. Recording' = R \cup {w}
    BY <2>1, <2>2 DEF Recording
  <2>4. Cardinality(R \cup {w}) = Cardinality(R) + 1
    BY <1>0, <2>1, FS_AddElement
  <2>5. attempts' = attempts + 1 /\ count' = count
    BY <1>7 DEF Call, OnlyWorker, persistent
  <2> QED BY <1>0, <1>5, <2>3, <2>4, <2>5
<1>8. ASSUME NEW w \in Workers, Record(w)
      PROVE  attempts' = count' + Cardinality(Recording')
  <2>1. w \in R /\ w \notin Recording'
    BY <1>8 DEF Record, Recording, TypeOK
  <2>2. \A v \in Workers : v # w => worker'[v] = worker[v]
    BY <1>8 DEF Record, TypeOK
  <2>3. Recording' = R \ {w}
    BY <2>1, <2>2 DEF Recording
  <2>4. Cardinality(R \ {w}) = Cardinality(R) - 1
    BY <1>0, <2>1, FS_RemoveElement
  <2>5. attempts' = attempts /\ count' = count + 1
    BY <1>4, <1>8 DEF Record
  <2> QED BY <1>0, <1>5, <2>3, <2>4, <2>5
<1>9. CASE ~ \E w \in Workers : Call(w) \/ Record(w)
  <2>1. Recording' = R
    BY <1>2, <1>6, <1>9, RecordingStep DEF Recording
  <2>2. UNCHANGED <<attempts, count>>
    BY <1>2, <1>3, <1>5, <1>9
    DEF Next, vars, EditorGoesOn, EditorReads, EditorLoads, EditorUpdates,
        OnlyEditor, Switch, DeleteAnalysis, OnlyAnalysis, Post, OnlyRequest,
        RequestGoesOn, ReadSettings, Begin, Submit, SubmitRefused, WorkerGoesOn,
        Take, Get, OnlyWorker, Complete, Shutdown, ProcessGoesOn, Interrupt,
        RecordInterrupted, Serve, persistent
  <2> QED BY <1>5, <2>1, <2>2
<1> QED BY <1>7, <1>8, <1>9

\* The invariant holds at first.
LEMMA InitIInv == Init => IInv
<1> SUFFICES ASSUME Init PROVE IInv
  OBVIOUS
<1>1. TypeOK
  BY InitTypeOK
<1>2. \A f \in Findings : rows[f].status = "none"
  BY DEF Init, NoRow
<1>3. Preparing = {} /\ Uncounted = {}
  BY <1>2 DEF Preparing, Uncounted
<1>4. ToBeUncounted = {} /\ Recording = {}
  BY IdleIsIdle DEF Init, ToBeUncounted, Recording
<1>5. HandsAreSound
  BY IdleIsIdle DEF Init, HandsAreSound
<1>10. ChangesAreSound /\ VersionsFit
  <2>1. \A w \in Workers : worker[w].seen.context = 0 /\ worker[w].sent = {}
    BY DEF Init, IdleWorker, NoBinding
  <2> QED
    BY <1>2, <2>1, NothingFits, NoChangeIsEditor
    DEF Init, ChangesAreSound, VersionsFit
<1>6. MadeAsBound /\ QuietWhenDown /\ RestartIsLeft /\ NothingOutlivesItsAnalysis
  BY <1>2 DEF Init, MadeAsBound, QuietWhenDown, RestartIsLeft,
              NothingOutlivesItsAnalysis
<1>7. FewArePreparing /\ PreparingIsOwned
  BY <1>3, FS_EmptySet, PreparingBound
  DEF FewArePreparing, PreparingIsBounded, PreparingIsOwned
<1>8. FewAreUncounted
  BY <1>3, <1>4, FS_EmptySet DEF Init, FewAreUncounted
<1>9. AttemptsAreCounted
  BY <1>4, FS_EmptySet DEF Init, AttemptsAreCounted
<1> QED BY <1>1, <1>5, <1>6, <1>7, <1>8, <1>9, <1>10 DEF IInv

\* Every step preserves it, part by part.
LEMMA NextIInv == IInv /\ [Next]_vars => IInv'
<1> SUFFICES ASSUME IInv, [Next]_vars PROVE IInv'
  OBVIOUS
<1>1. TypeOK'
  BY NextTypeOK DEF IInv
<1> QED
  BY <1>1, NextHandsAreSound, NextMadeAsBound, NextChangesAreSound,
     NextVersionsFit, NextQuietWhenDown, NextRestartIsLeft,
     NextNothingOutlivesItsAnalysis, NextFewArePreparing, NextPreparingIsOwned,
     NextFewAreUncounted, NextAttemptsAreCounted DEF IInv
-----------------------------------------------------------------------------
(* Theorems.                                                               *)

\* The rows, the threads of the pool and the counters fit each other in every
\* reachable state.
THEOREM EnrichmentIInvHolds == Spec => []IInv
<1>1. Init => IInv
  BY InitIInv
<1>2. IInv /\ [Next]_vars => IInv'
  BY NextIInv
<1> QED BY <1>1, <1>2, PTL DEF Spec

\* Rows, tasks, requests and counters keep their types, and a thread has a task
\* in hand exactly while it works.
THEOREM EnrichmentTypeCorrect == Spec => []TypeOK
<1>1. IInv => TypeOK
  BY DEF IInv
<1> QED BY <1>1, EnrichmentIInvHolds, PTL

\* An explanation that is shown as ready was made under the version, the model
\* and the switch that are in force, however often they changed and whoever else
\* was preparing it; and its call was given what is confirmed now, as long as no
\* change of the analysis has been written over another one.
THEOREM ShownIsCurrentHolds == Spec => []ShownIsCurrent
<1>1. IInv => ShownIsCurrent
  <2> SUFFICES ASSUME IInv, NEW f \in Findings, State(f) = "ready"
               PROVE  /\ Current.ai # Off
                      /\ rows[f].made = Current
                      /\ ~ overlapped => rows[f].sent = Confirmed(analysis)
    BY DEF ShownIsCurrent
  <2>1. Current.ai # Off /\ IsReadable(analysis)
    BY DEF State
  <2>2. rows[f].status = "ready" /\ rows[f].binding = Current
    BY <2>1 DEF State
  <2>3. rows[f].made = Current
    BY <2>2 DEF IInv, MadeAsBound
  <2>4. ASSUME ~ overlapped PROVE rows[f].sent = Confirmed(analysis)
    <3>1. rows[f].made.context = Version(analysis)
      BY <2>3 DEF Current
    <3>2. Fits(analysis, Version(analysis), rows[f].sent)
      BY <2>2, <2>4, <3>1 DEF IInv, VersionsFit
    <3>3. analysis \in AnalysisRows
      BY DEF IInv, TypeOK
    <3> QED BY <2>1, <3>2, <3>3
            DEF Fits, Version, Confirmed, IsReadable, AnalysisRows
  <2> QED BY <2>1, <2>3, <2>4
<1> QED BY <1>1, EnrichmentIInvHolds, PTL

\* What is preparing is bounded, has a thread or a request that will finish it
\* unless a write failed, and never survives the deletion of its analysis.
THEOREM RowsAreAccountedForHolds == Spec => []RowsAreAccountedFor
<1>1. IInv => RowsAreAccountedFor
  BY DEF IInv, RowsAreAccountedFor, FewArePreparing
<1> QED BY <1>1, EnrichmentIInvHolds, PTL

\* An explanation is stored before its call is counted once for each failed
\* write at most; without restarts and failures every attempt is counted.
THEOREM CallsAreCountedHolds == Spec => []CallsAreCounted
<1>1. IInv => CallsAreCounted
  <2> SUFFICES ASSUME IInv PROVE CallsAreCounted
    OBVIOUS
  <2>1. Cardinality(Uncounted) <= faults
    <3>1. /\ Cardinality(Uncounted) \in Nat /\ Cardinality(ToBeUncounted) \in Nat
          /\ faults \in Nat
          /\ Cardinality(Uncounted) + Cardinality(ToBeUncounted) <= faults
      BY FS_CardinalityType, EnrichmentModelBounds DEF IInv, FewAreUncounted, TypeOK
    <3> QED BY <3>1
  <2> QED BY <2>1 DEF IInv, CallsAreCounted, Uncounted, AttemptsAreCounted, Recording
<1> QED BY <1>1, EnrichmentIInvHolds, PTL
=============================================================================
