-------------------------- MODULE AnalysisJobsProofs --------------------------
(***************************************************************************)
(* Proofs about AnalysisJobs, for any sets of analyses, worker threads and *)
(* request threads and any bounds.  The argument is one inductive          *)
(* invariant, IInv: an analysis is in one pair of hands at a time, those   *)
(* hands know its state, and the process holds nothing while it is down.   *)
(* CancelInv, on top of it, says that a cancellation flagged before the    *)
(* worker's last checkpoint is honoured and that none is invented.         *)
(***************************************************************************)
EXTENDS AnalysisJobs, TLAPS

USE NoIdIsNotAnId, BoundsAreNaturals

\* Names for the definitions that every step unfolds.
USE DEF NonTerminal, Terminal, Lifecycle!NonTerminal, Lifecycle!Terminal,
        Lifecycle!Statuses

-----------------------------------------------------------------------------
(* Type correctness.                                                       *)

\* The initial state is well typed.
LEMMA InitTypeOK == Init => TypeOK
  BY DEF Init, TypeOK, IdleWorker, IdleRequest, WorkerPCs, RequestPCs, Phases

\* A step of a request keeps the types, and names an analysis while it has one.
LEMMA RequestTypeOK ==
  ASSUME TypeOK, NEW r \in Requests, RequestStarts(r) \/ RequestContinues(r)
  PROVE  TypeOK'
<1> USE DEF TypeOK, RequestPCs, RequestGoes, RequestEnds, IdleRequest, Starts,
            OnlyRequest, AddRow, persistent, bounds, history
<1>1. ASSUME NEW a \in Ids, Create(r, a) PROVE TypeOK'
  BY <1>1 DEF Create
<1>2. ASSUME NEW a \in Ids, ReadForRetry(r, a) PROVE TypeOK'
  BY <1>2 DEF ReadForRetry
<1>3. ASSUME NEW a \in Ids, ReadForRerun(r, a) PROVE TypeOK'
  BY <1>3 DEF ReadForRerun
<1>4. ASSUME NEW a \in Ids, ReadForCancel(r, a) PROVE TypeOK'
  BY <1>4 DEF ReadForCancel
<1>5. ASSUME NEW a \in Ids, ReadForDelete(r, a) PROVE TypeOK'
  BY <1>5 DEF ReadForDelete
<1>6. ASSUME NEW a \in Ids, AddAgain(r, a) PROVE TypeOK'
  BY <1>6 DEF AddAgain
<1>7. CASE AddFails(r)
  BY <1>7 DEF AddFails
<1>8. CASE Submit(r)
  BY <1>8 DEF Submit
<1>9. CASE Flag(r)
  <2>1. request[r].id \in Ids
    BY <1>9 DEF Flag
  <2>2. asked' \in [Ids -> {"no", "in_time", "late"}]
    BY <1>9, <2>1 DEF Flag
  <2>3. \/ RequestEnds(r)
        \/ RequestGoes(r, "delete", request[r].id)
    BY <1>9 DEF Flag
  <2>4. cancelRequested' \in SUBSET Ids
    BY <1>9, <2>1 DEF Flag
  <2>5. UNCHANGED <<row, retryOf, queue, worker, unreconciled, phase, crashes,
                    storeErrors, stranded>>
    BY <1>9 DEF Flag
  <2>7. /\ request' \in [Requests -> [pc : RequestPCs, id : Ids \cup {NoId}]]
        /\ \A s \in Requests : request'[s].pc = "idle" <=> request'[s].id = NoId
    <3>1. CASE RequestEnds(r)
      BY <3>1
    <3>2. CASE RequestGoes(r, "delete", request[r].id)
      BY <2>1, <3>2
    <3> QED
      BY <2>3, <3>1, <3>2
  <2> QED
    BY <2>2, <2>4, <2>5, <2>7
<1>10. CASE Delete(r)
  BY <1>10 DEF Delete
<1> QED
  BY <1>1, <1>2, <1>3, <1>4, <1>5, <1>6, <1>7, <1>8, <1>9, <1>10
  DEF RequestStarts, RequestContinues

\* A step of a worker keeps the types, and the copy it holds in a state its
\* next step makes sense for.
LEMMA WorkerTypeOK ==
  ASSUME TypeOK, NEW w \in Workers, WorkerGoesOn(w) \/ StoreError(w)
  PROVE  TypeOK'
<1> USE DEF TypeOK, WorkerPCs, WorkerGoes, WorkerHolds, IdleWorker, OnlyWorker,
            Replace, persistent, bounds, history
<1>1. CASE Take(w)
  BY <1>1 DEF Take
<1>2. CASE Get(w)
  <2>1. CASE WorkerHolds(w, "check", "queued")
    BY <1>2, <2>1 DEF Get
  <2>2. CASE WorkerGoes(w, "discard")
    BY <1>2, <2>2 DEF Get
  <2> QED
    BY <1>2, <2>1, <2>2 DEF Get
<1>3. CASE Check(w)
  BY <1>3 DEF Check
<1>4. CASE WriteCancelled(w)
  BY <1>4 DEF WriteCancelled
<1>5. CASE Advance(w)
  <2>1. worker[w].held \in {"queued", "parsing", "profiling"}
    BY <1>5 DEF Advance
  <2>2. Lifecycle!Follows[worker[w].held] \in NonTerminal
    BY <2>1 DEF Lifecycle!Follows
  <2> QED
    BY <1>5, <2>2 DEF Advance
<1>6. CASE RunStage(w)
  BY <1>6 DEF RunStage
<1>7. CASE WriteFailed(w)
  BY <1>7 DEF WriteFailed
<1>8. CASE WriteCompleted(w)
  BY <1>8 DEF WriteCompleted
<1>9. CASE Discard(w)
  BY <1>9 DEF Discard
<1>10. CASE CaughtStoreError(w)
  BY <1>10 DEF CaughtStoreError
<1>11. CASE EscapedStoreError(w)
  BY <1>11 DEF EscapedStoreError
<1> QED
  BY <1>1, <1>2, <1>3, <1>4, <1>5, <1>6, <1>7, <1>8, <1>9, <1>10, <1>11
  DEF WorkerGoesOn, StoreError

\* Starting, stopping and dying keep the types.
LEMMA ProcessTypeOK ==
  ASSUME TypeOK, ProcessGoesOn \/ Shutdown \/ Crash
  PROVE  TypeOK'
<1> USE DEF TypeOK, Phases, IdleWorker, IdleRequest, WorkerPCs, RequestPCs,
            persistent, process, bounds, history
<1>1. CASE Stop
  BY <1>1 DEF Stop
<1>2. CASE Restart
  BY <1>2 DEF Restart
<1>3. CASE Serve
  BY <1>3 DEF Serve
<1>4. ASSUME NEW a \in Ids, ReconcileOne(a) PROVE TypeOK'
  BY <1>4 DEF ReconcileOne
<1>5. CASE Shutdown
  BY <1>5 DEF Shutdown
<1>6. CASE Crash
  BY <1>6 DEF Crash
<1> QED
  BY <1>1, <1>2, <1>3, <1>4, <1>5, <1>6 DEF ProcessGoesOn

\* Every variable keeps its type, and a thread names an analysis exactly while
\* it works on one.
THEOREM TypeCorrect == Spec => []TypeOK
<1>1. TypeOK /\ [Next]_vars => TypeOK'
  <2> SUFFICES ASSUME TypeOK, [Next]_vars PROVE TypeOK'
    OBVIOUS
  <2>1. CASE Next
    BY <2>1, RequestTypeOK, WorkerTypeOK, ProcessTypeOK DEF Next
  <2>2. CASE UNCHANGED vars
    BY <2>2 DEF TypeOK, vars, persistent, process, bounds, history
  <2> QED
    BY <2>1, <2>2
<1> QED
  BY <1>1, InitTypeOK, PTL DEF Spec
-----------------------------------------------------------------------------
(* The inductive invariant.                                                *)

\* What waits for a worker has not been started.
WaitingIsQueued ==
    \A a \in Ids :
        Queued(a) \/ (\E r \in Requests : Submits(r, a))
            => row[a] \in {"queued", "deleted"}

\* Requests run only while the process serves, workers only while it runs,
\* and startup selects exactly the unfinished analyses.
QuietWhenDown ==
    /\ phase # "up" => \A r \in Requests : request[r].pc = "idle"
    /\ phase \notin {"up", "draining"} =>
           queue = <<>> /\ \A w \in Workers : worker[w].pc = "idle"
    /\ phase = "starting" =>
           \A a \in Ids : row[a] \in NonTerminal <=> a \in unreconciled

Hands == OneOwner /\ CopyIsCurrent /\ WaitingIsQueued /\ QuietWhenDown
             /\ UnfinishedIsOwned
IInv == TypeOK /\ Hands

\* Nothing is in anybody's hands at the start.
LEMMA InitHands == Init => Hands
  BY DEF Init, Hands, OneOwner, CopyIsCurrent, WaitingIsQueued, QuietWhenDown,
         UnfinishedIsOwned, IdleWorker, IdleRequest, Queued, Works, Submits

\* A step that moves no analysis from one pair of hands to another.
LEMMA SameOwners ==
  ASSUME OneOwner, UNCHANGED queue,
         \A w \in Workers : worker'[w].job = worker[w].job,
         \A r \in Requests, a \in Ids : Submits(r, a)' <=> Submits(r, a),
         TypeOK, TypeOK'
  PROVE  /\ OneOwner'
         /\ \A a \in Ids : Queued(a)' <=> Queued(a)
         /\ \A a \in Ids : Owned(a)' <=> Owned(a)
<1>1. \A a \in Ids : Queued(a)' <=> Queued(a)
  BY DEF Queued
<1>2. \A w \in Workers, a \in Ids : Works(w, a)' <=> Works(w, a)
  BY DEF Works
<1>3. \A a \in Ids : Owned(a)' <=> Owned(a)
  BY <1>1, <1>2 DEF Owned
<1>4. \A r, s \in Requests :
        request'[r].pc = "submit" /\ request'[s].pc = "submit"
          /\ request'[r].id = request'[s].id => r = s
  <2> SUFFICES ASSUME NEW r \in Requests, NEW s \in Requests,
                      request'[r].pc = "submit", request'[s].pc = "submit",
                      request'[r].id = request'[s].id
               PROVE  r = s
    OBVIOUS
  <2>1. request'[r].id \in Ids
    BY DEF TypeOK
  <2>2. Submits(r, request'[r].id) /\ Submits(s, request'[r].id)
    BY <2>1 DEF Submits
  <2> QED
    BY <2>2 DEF Submits, OneOwner
<1> QED
  BY <1>1, <1>2, <1>3, <1>4 DEF OneOwner

\* The step of a request that moves nothing but itself, to a pc other than
\* "submit" or to the end of the request.
LEMMA RequestMoves ==
  ASSUME IInv, TypeOK', NEW r \in Requests,
         phase = "up",
         request[r].pc # "submit", request'[r].pc # "submit",
         \A s \in Requests : s # r => request'[s] = request[s],
         UNCHANGED <<row, queue, worker, phase, unreconciled, stranded>>
  PROVE  Hands'
<1>1. \A s \in Requests, a \in Ids : Submits(s, a)' <=> Submits(s, a)
  BY DEF Submits
<1>2. OneOwner' /\ \A a \in Ids : (Queued(a)' <=> Queued(a)) /\ (Owned(a)' <=> Owned(a))
  BY <1>1, SameOwners DEF IInv, Hands
<1>3. CopyIsCurrent'
  BY DEF IInv, Hands, CopyIsCurrent
<1>4. WaitingIsQueued'
  BY <1>1, <1>2 DEF IInv, Hands, WaitingIsQueued
<1>5. QuietWhenDown'
  BY DEF IInv, Hands, QuietWhenDown
<1>6. UnfinishedIsOwned'
  BY <1>2 DEF IInv, Hands, UnfinishedIsOwned
<1> QED
  BY <1>2, <1>3, <1>4, <1>5, <1>6 DEF Hands

\* A route that only reads moves no analysis.
LEMMA ReadsHands ==
  ASSUME IInv, TypeOK', NEW r \in Requests, NEW a \in Ids,
         \/ ReadForRetry(r, a) \/ ReadForRerun(r, a)
         \/ ReadForCancel(r, a) \/ ReadForDelete(r, a)
  PROVE  Hands'
<1>1. \E pc \in RequestPCs \ {"submit"} : RequestGoes(r, pc, a)
  BY DEF ReadForRetry, ReadForRerun, ReadForCancel, ReadForDelete, RequestPCs
<1>2. Starts(r) /\ OnlyRequest
  BY DEF ReadForRetry, ReadForRerun, ReadForCancel, ReadForDelete
<1>3. /\ request'[r].pc # "submit"
      /\ \A s \in Requests : s # r => request'[s] = request[s]
  BY <1>1 DEF RequestGoes, IInv, TypeOK
<1> QED
  BY <1>2, <1>3, RequestMoves
  DEF Starts, OnlyRequest, persistent, bounds, history

\* A failed store.add leaves everything as it was.
LEMMA AddFailsHands ==
  ASSUME IInv, TypeOK', NEW r \in Requests, AddFails(r)
  PROVE  Hands'
<1>1. /\ request'[r].pc # "submit"
      /\ \A s \in Requests : s # r => request'[s] = request[s]
  BY DEF AddFails, RequestEnds, IdleRequest, IInv, TypeOK
<1>2. phase = "up" /\ request[r].pc # "submit"
  BY DEF AddFails, IInv, Hands, QuietWhenDown
<1> QED
  BY <1>1, <1>2, RequestMoves DEF AddFails, OnlyRequest, persistent, bounds, history

\* Flagging a cancellation moves no analysis.
LEMMA FlagHands ==
  ASSUME IInv, TypeOK', NEW r \in Requests, Flag(r)
  PROVE  Hands'
<1>1. RequestEnds(r) \/ RequestGoes(r, "delete", request[r].id)
  BY DEF Flag
<1>2. /\ request'[r].pc # "submit"
      /\ \A s \in Requests : s # r => request'[s] = request[s]
  BY <1>1 DEF RequestEnds, RequestGoes, IdleRequest, IInv, TypeOK
<1>3. phase = "up" /\ request[r].pc # "submit"
  BY DEF Flag, IInv, Hands, QuietWhenDown
<1>4. UNCHANGED <<row, queue, worker, phase, unreconciled, stranded>>
  BY DEF Flag, persistent
<1> QED
  BY <1>2, <1>3, <1>4, RequestMoves

\* A fresh analysis goes to the request that will submit it.
LEMMA AddHands ==
  ASSUME IInv, TypeOK', NEW r \in Requests, NEW a \in Ids,
         Create(r, a) \/ AddAgain(r, a)
  PROVE  Hands'
<1>1. /\ row[a] = "none" /\ row' = [row EXCEPT ![a] = "queued"]
      /\ request' = [request EXCEPT ![r] = [pc |-> "submit", id |-> a]]
      /\ request[r].pc # "submit"
      /\ UNCHANGED <<queue, worker, unreconciled, phase, stranded>>
  BY DEF Create, AddAgain, Starts, AddRow, RequestGoes, bounds, history
<1>2. phase = "up"
  BY <1>1 DEF Create, AddAgain, Starts, IInv, Hands, QuietWhenDown
<1>3. /\ ~ Queued(a)
      /\ \A s \in Requests : ~ Submits(s, a)
      /\ \A w \in Workers : worker[w].job # a
  <2>1. ~ Queued(a) /\ \A s \in Requests : ~ Submits(s, a)
    BY <1>1 DEF IInv, Hands, WaitingIsQueued
  <2>2. \A w \in Workers : worker[w].job # a
    BY <1>1 DEF IInv, Hands, CopyIsCurrent, TypeOK, WorkerPCs
  <2> QED
    BY <2>1, <2>2
<1>4. /\ Submits(r, a)'
      /\ \A b \in Ids : Submits(r, b)' => b = a
      /\ \A s \in Requests, b \in Ids : s # r => (Submits(s, b)' <=> Submits(s, b))
  BY <1>1 DEF Submits, IInv, TypeOK
<1>5. \A b \in Ids : Queued(b)' <=> Queued(b)
  BY <1>1 DEF Queued
<1>6. OneOwner'
  <2>1. \A s, t \in Requests :
          /\ request'[s].pc = "submit" /\ request'[t].pc = "submit"
          /\ request'[s].id = request'[t].id
          => s = t
    <3> SUFFICES ASSUME NEW s \in Requests, NEW t \in Requests,
                        request'[s].pc = "submit", request'[t].pc = "submit",
                        request'[s].id = request'[t].id, s # t
                 PROVE  FALSE
      OBVIOUS
    <3>1. PICK b \in Ids : b = request'[s].id
      BY DEF TypeOK
    <3>2. Submits(s, b)' /\ Submits(t, b)'
      BY <3>1 DEF Submits
    <3>3. CASE s = r \/ t = r
      BY <3>2, <3>3, <1>3, <1>4
    <3>4. CASE s # r /\ t # r
      BY <3>1, <3>2, <3>4, <1>4 DEF Submits, IInv, Hands, OneOwner
    <3> QED
      BY <3>3, <3>4
  <2>2. \A b \in Ids :
          /\ ~ (Queued(b)' /\ \E s \in Requests : Submits(s, b)')
          /\ ~ ((\E w \in Workers : Works(w, b)')
                 /\ \E s \in Requests : Submits(s, b)')
    BY <1>1, <1>3, <1>4, <1>5 DEF Works, IInv, Hands, OneOwner
  <2> QED
    BY <1>1, <1>5, <2>1, <2>2 DEF Works, IInv, Hands, OneOwner
<1>7. CopyIsCurrent'
  BY <1>1, <1>3 DEF IInv, Hands, CopyIsCurrent, TypeOK
<1>8. WaitingIsQueued'
  BY <1>1, <1>4, <1>5 DEF IInv, Hands, WaitingIsQueued, TypeOK
<1>9. QuietWhenDown'
  BY <1>2, <1>1 DEF IInv, Hands, QuietWhenDown
<1>10. UnfinishedIsOwned'
  <2>1. \A b \in Ids : b # a /\ Owned(b) => Owned(b)'
    BY <1>1, <1>4, <1>5 DEF Owned, Works, Submits
  <2> QED
    BY <1>1, <1>2, <1>4, <2>1 DEF Owned, IInv, Hands, UnfinishedIsOwned, TypeOK
<1> QED
  BY <1>6, <1>7, <1>8, <1>9, <1>10 DEF Hands

\* The request hands the analysis over to the queue.
LEMMA SubmitHands ==
  ASSUME IInv, TypeOK', NEW r \in Requests, Submit(r)
  PROVE  Hands'
<1>1. PICK a \in Ids : a = request[r].id
  BY DEF Submit, IInv, TypeOK
<1>2. /\ Submits(r, a)
      /\ queue' = Append(queue, a)
      /\ request' = [request EXCEPT ![r] = IdleRequest]
      /\ UNCHANGED <<row, worker, unreconciled, phase, stranded>>
  BY <1>1 DEF Submit, Submits, RequestEnds, persistent, bounds, history
<1>3. phase = "up"
  BY <1>2 DEF Submits, IInv, Hands, QuietWhenDown
<1>4. /\ Len(queue') = Len(queue) + 1
      /\ queue'[Len(queue) + 1] = a
      /\ \A i \in 1..Len(queue) : queue'[i] = queue[i]
  BY <1>2 DEF IInv, TypeOK
<1>5. \A b \in Ids : Queued(b)' <=> Queued(b) \/ b = a
  <2> SUFFICES ASSUME NEW b \in Ids PROVE Queued(b)' <=> Queued(b) \/ b = a
    OBVIOUS
  <2>1. Len(queue) \in Nat
    BY DEF IInv, TypeOK
  <2>2. Queued(b)' => Queued(b) \/ b = a
    BY <1>4, <2>1 DEF Queued
  <2>3. Queued(b) => Queued(b)'
    BY <1>4, <2>1 DEF Queued
  <2>4. Queued(a)'
    BY <1>4, <2>1 DEF Queued
  <2> QED
    BY <2>2, <2>3, <2>4
<1>6. \A s \in Requests, b \in Ids : Submits(s, b)' <=> Submits(s, b) /\ s # r
  BY <1>2 DEF Submits, IdleRequest, IInv, TypeOK
<1>7. /\ ~ Queued(a)
      /\ \A w \in Workers : ~ Works(w, a)
      /\ \A s \in Requests : Submits(s, a) => s = r
  BY <1>2 DEF IInv, Hands, OneOwner, Submits
<1>8. OneOwner'
  <2>1. \A i, j \in 1..Len(queue') : queue'[i] = queue'[j] => i = j
    <3>1. Len(queue) \in Nat
      BY DEF IInv, TypeOK
    <3>2. \A i \in 1..Len(queue) : queue[i] # a
      BY <1>7 DEF Queued
    <3> QED
      BY <1>4, <3>1, <3>2 DEF IInv, Hands, OneOwner
  <2>2. \A s, t \in Requests :
          /\ request'[s].pc = "submit" /\ request'[t].pc = "submit"
          /\ request'[s].id = request'[t].id
          => s = t
    BY <1>2 DEF IdleRequest, IInv, TypeOK, Hands, OneOwner
  <2>3. \A b \in Ids :
          /\ ~ (Queued(b)' /\ \E w \in Workers : Works(w, b)')
          /\ ~ (Queued(b)' /\ \E s \in Requests : Submits(s, b)')
          /\ ~ ((\E w \in Workers : Works(w, b)')
                 /\ \E s \in Requests : Submits(s, b)')
    <3>1. \A w \in Workers, b \in Ids : Works(w, b)' <=> Works(w, b)
      BY <1>2 DEF Works
    <3> QED
      BY <1>5, <1>6, <1>7, <3>1 DEF IInv, Hands, OneOwner
  <2>4. \A v, w \in Workers :
          worker'[v].job = worker'[w].job /\ worker'[v].job # NoId => v = w
    BY <1>2 DEF IInv, Hands, OneOwner
  <2> QED
    BY <2>1, <2>2, <2>3, <2>4 DEF OneOwner
<1>9. CopyIsCurrent'
  BY <1>2 DEF IInv, Hands, CopyIsCurrent
<1>10. WaitingIsQueued'
  BY <1>2, <1>5, <1>6 DEF IInv, Hands, WaitingIsQueued
<1>11. QuietWhenDown'
  BY <1>2, <1>3 DEF QuietWhenDown
<1>12. UnfinishedIsOwned'
  <2>1. \A b \in Ids : Owned(b) => Owned(b)'
    BY <1>2, <1>5, <1>6, <1>7 DEF Owned, Works, Submits
  <2> QED
    BY <1>2, <2>1 DEF IInv, Hands, UnfinishedIsOwned
<1> QED
  BY <1>8, <1>9, <1>10, <1>11, <1>12 DEF Hands

\* Deleting a row takes it from nobody: its owner finds out by itself.
LEMMA DeleteHands ==
  ASSUME IInv, TypeOK', NEW r \in Requests, Delete(r)
  PROVE  Hands'
<1>1. PICK a \in Ids : a = request[r].id
  BY DEF Delete, IInv, TypeOK
<1>2. /\ request[r].pc = "delete"
      /\ request' = [request EXCEPT ![r] = IdleRequest]
      /\ UNCHANGED <<queue, worker, unreconciled, phase, stranded>>
      /\ row' = row \/ row' = [row EXCEPT ![a] = "deleted"]
  BY <1>1 DEF Delete, RequestEnds, bounds, history
<1>3. \A b \in Ids : row'[b] = row[b] \/ row'[b] = "deleted"
  BY <1>2 DEF IInv, TypeOK
<1>4. phase = "up"
  BY <1>2 DEF IInv, Hands, QuietWhenDown
<1>5. \A s \in Requests, b \in Ids : Submits(s, b)' <=> Submits(s, b)
  BY <1>2 DEF Submits, IdleRequest, IInv, TypeOK
<1>6. OneOwner' /\ \A b \in Ids : (Queued(b)' <=> Queued(b)) /\ (Owned(b)' <=> Owned(b))
  BY <1>2, <1>5, SameOwners DEF IInv, Hands
<1>7. CopyIsCurrent'
  BY <1>2, <1>3 DEF IInv, Hands, CopyIsCurrent, TypeOK
<1>8. WaitingIsQueued'
  BY <1>3, <1>5, <1>6 DEF IInv, Hands, WaitingIsQueued
<1>9. QuietWhenDown'
  BY <1>2, <1>4 DEF QuietWhenDown
<1>10. UnfinishedIsOwned'
  BY <1>2, <1>3, <1>6 DEF IInv, Hands, UnfinishedIsOwned
<1> QED
  BY <1>6, <1>7, <1>8, <1>9, <1>10 DEF Hands

\* Every step of a request keeps each analysis in one pair of hands.
LEMMA RequestHands ==
  ASSUME IInv, TypeOK', NEW r \in Requests, RequestStarts(r) \/ RequestContinues(r)
  PROVE  Hands'
BY AddHands, ReadsHands, AddFailsHands, SubmitHands, FlagHands, DeleteHands
DEF RequestStarts, RequestContinues

-----------------------------------------------------------------------------
(* Steps of a worker.                                                      *)

\* What CopyIsCurrent says of one worker and the analysis it has in hand.
CopyOf(w, a) ==
    /\ worker[w].pc = "get" => row[a] \in {"queued", "deleted"}
    /\ worker[w].pc = "discard" =>
           \/ row[a] \in Terminal \cup {"deleted"}
           \/ row[a] \in NonTerminal /\ a \in stranded
    /\ worker[w].pc \notin {"idle", "get", "discard"} =>
           row[a] \in {worker[w].held, "deleted"}

\* A step of a worker that keeps its analysis a and touches no other row.
LEMMA WorkerMoves ==
  ASSUME IInv, TypeOK', NEW w \in Workers, NEW a \in Ids,
         worker[w].job = a, worker'[w].job = a,
         \A v \in Workers : v # w => worker'[v] = worker[v],
         UNCHANGED <<queue, request, unreconciled, phase>>,
         stranded \subseteq stranded',
         \A b \in Ids : b # a => row'[b] = row[b],
         CopyOf(w, a)'
  PROVE  Hands'
<1>1. phase \in {"up", "draining"}
  BY DEF IInv, Hands, QuietWhenDown, TypeOK
<1>2. \A r \in Requests, b \in Ids : Submits(r, b)' <=> Submits(r, b)
  BY DEF Submits
<1>3. OneOwner' /\ \A b \in Ids : (Queued(b)' <=> Queued(b)) /\ (Owned(b)' <=> Owned(b))
  BY <1>2, SameOwners DEF IInv, Hands
<1>4. \A v \in Workers : v # w => worker[v].job # a
  BY DEF IInv, Hands, OneOwner
<1>5. CopyIsCurrent'
  <2> SUFFICES ASSUME NEW v \in Workers, NEW b, b = worker'[v].job PROVE CopyOf(v, b)'
    BY DEF CopyIsCurrent, CopyOf
  <2>1. CASE v = w
    BY <2>1
  <2>2. CASE v # w
    <3>1. worker'[v] = worker[v]
      BY <2>2
    <3>2. CopyOf(v, b)
      BY <3>1 DEF IInv, Hands, CopyIsCurrent, CopyOf
    <3>3. CASE worker[v].pc = "idle"
      BY <3>1, <3>3 DEF CopyOf
    <3>4. CASE worker[v].pc # "idle"
      <4>1. b \in Ids /\ row'[b] = row[b]
        BY <2>2, <3>1, <3>4, <1>4 DEF IInv, TypeOK
      <4> QED
        BY <3>1, <3>2, <4>1 DEF CopyOf
    <3> QED
      BY <3>3, <3>4
  <2> QED
    BY <2>1, <2>2
<1>6. ~ Queued(a) /\ \A r \in Requests : ~ Submits(r, a)
  BY DEF IInv, Hands, OneOwner, Works
<1>7. WaitingIsQueued'
  BY <1>2, <1>3, <1>6 DEF IInv, Hands, WaitingIsQueued
<1>8. QuietWhenDown'
  BY <1>1 DEF IInv, Hands, QuietWhenDown
<1>9. UnfinishedIsOwned'
  <2>1. Owned(a)
    BY DEF Owned, Works
  <2> QED
    BY <1>3, <2>1 DEF IInv, Hands, UnfinishedIsOwned
<1> QED
  BY <1>3, <1>5, <1>7, <1>8, <1>9 DEF Hands

\* Reads, stages and caught errors: only the worker's pc and copy change.
LEMMA PrivateHands ==
  ASSUME IInv, TypeOK', NEW w \in Workers,
         Get(w) \/ Check(w) \/ RunStage(w) \/ CaughtStoreError(w)
  PROVE  Hands'
<1>1. PICK a \in Ids : a = worker[w].job
  BY DEF Get, Check, RunStage, CaughtStoreError, IInv, TypeOK
<1>2. /\ worker'[w].job = a
      /\ \A v \in Workers : v # w => worker'[v] = worker[v]
  BY <1>1 DEF Get, Check, RunStage, CaughtStoreError, WorkerGoes, WorkerHolds,
              IInv, TypeOK
<1>3. UNCHANGED <<row, queue, request, unreconciled, phase, stranded>>
  BY DEF Get, Check, RunStage, CaughtStoreError, OnlyWorker, persistent, bounds,
         history
<1>4. CopyOf(w, a)
  BY <1>1 DEF IInv, Hands, CopyIsCurrent, CopyOf
<1>5. CopyOf(w, a)'
  <2>1. CASE Get(w)
    BY <1>1, <1>3, <1>4, <2>1
    DEF Get, WorkerGoes, WorkerHolds, CopyOf, IInv, TypeOK
  <2>2. CASE Check(w)
    BY <1>1, <1>3, <1>4, <2>2 DEF Check, WorkerGoes, CopyOf, IInv, TypeOK
  <2>3. CASE RunStage(w)
    BY <1>1, <1>3, <1>4, <2>3 DEF RunStage, WorkerGoes, CopyOf, IInv, TypeOK
  <2>4. CASE CaughtStoreError(w)
    BY <1>1, <1>3, <1>4, <2>4
    DEF CaughtStoreError, WorkerGoes, CopyOf, IInv, TypeOK
  <2> QED
    BY <2>1, <2>2, <2>3, <2>4
<1> QED
  BY <1>1, <1>2, <1>3, <1>5, WorkerMoves

\* Writes of the row, by a worker whose copy is current.
LEMMA WriteHands ==
  ASSUME IInv, TypeOK', NEW w \in Workers,
         WriteCancelled(w) \/ Advance(w) \/ WriteFailed(w) \/ WriteCompleted(w)
  PROVE  Hands'
<1>1. PICK a \in Ids : a = worker[w].job
  BY DEF WriteCancelled, Advance, WriteFailed, WriteCompleted, IInv, TypeOK
<1>2. /\ worker'[w].job = a
      /\ \A v \in Workers : v # w => worker'[v] = worker[v]
  BY <1>1 DEF WriteCancelled, Advance, WriteFailed, WriteCompleted, WorkerGoes,
              WorkerHolds, IInv, TypeOK
<1>3. UNCHANGED <<queue, request, unreconciled, phase, stranded>>
  BY DEF WriteCancelled, Advance, WriteFailed, WriteCompleted, Replace, bounds,
         history
<1>4. \A b \in Ids : b # a => row'[b] = row[b]
  BY <1>1 DEF WriteCancelled, Advance, WriteFailed, WriteCompleted, Replace,
              IInv, TypeOK
<1>5. CopyOf(w, a) /\ row[a] \in NonTerminal \cup {"deleted"}
  BY <1>1 DEF WriteCancelled, Advance, WriteFailed, WriteCompleted,
              IInv, Hands, CopyIsCurrent, CopyOf, TypeOK
<1>6. ASSUME NEW s, Replace(a, s)
      PROVE  row'[a] = IF row[a] = "deleted" THEN "deleted" ELSE s
  BY <1>5, <1>6 DEF Replace, Exists, IInv, TypeOK
<1>7. CopyOf(w, a)'
  <2>1. CASE Advance(w)
    <3>1. /\ Replace(a, Lifecycle!Follows[worker[w].held])
          /\ WorkerHolds(w, "run", Lifecycle!Follows[worker[w].held])
      BY <1>1, <2>1 DEF Advance
    <3>2. row'[a] \in {Lifecycle!Follows[worker[w].held], "deleted"}
      BY <1>6, <3>1
    <3>3. worker'[w].pc = "run"
          /\ worker'[w].held = Lifecycle!Follows[worker[w].held]
      BY <3>1 DEF WorkerHolds, IInv, TypeOK
    <3> QED
      BY <3>2, <3>3 DEF CopyOf
  <2>2. CASE ~ Advance(w)
    <3>1. \E s \in Terminal : Replace(a, s)
      BY <1>1, <2>2 DEF WriteCancelled, WriteFailed, WriteCompleted
    <3>2. row'[a] \in Terminal \cup {"deleted"}
      BY <1>6, <3>1
    <3>3. worker'[w].pc = "discard"
      BY <2>2 DEF WriteCancelled, WriteFailed, WriteCompleted, WorkerGoes, IInv,
                  TypeOK
    <3> QED
      BY <3>2, <3>3 DEF CopyOf
  <2> QED
    BY <2>1, <2>2
<1> QED
  BY <1>1, <1>2, <1>3, <1>4, <1>7, WorkerMoves

\* A worker whose last write failed leaves its analysis stranded.
LEMMA EscapedHands ==
  ASSUME IInv, TypeOK', NEW w \in Workers, EscapedStoreError(w)
  PROVE  Hands'
<1>1. PICK a \in Ids : a = worker[w].job
  BY DEF EscapedStoreError, IInv, TypeOK
<1>2. /\ worker'[w].job = a
      /\ worker'[w].pc = "discard"
      /\ \A v \in Workers : v # w => worker'[v] = worker[v]
  BY <1>1 DEF EscapedStoreError, WorkerGoes, IInv, TypeOK
<1>3. /\ UNCHANGED <<row, queue, request, unreconciled, phase>>
      /\ stranded' = stranded \cup {a}
  BY <1>1 DEF EscapedStoreError, persistent
<1>4. row[a] \in NonTerminal \cup {"deleted"}
  BY <1>1 DEF EscapedStoreError, IInv, Hands, CopyIsCurrent, TypeOK
<1>5. CopyOf(w, a)'
  BY <1>2, <1>3, <1>4 DEF CopyOf
<1> QED
  BY <1>1, <1>2, <1>3, <1>5, WorkerMoves

\* The queue hands its oldest analysis over to a free worker.
LEMMA TakeHands ==
  ASSUME IInv, TypeOK', NEW w \in Workers, Take(w)
  PROVE  Hands'
<1>1. PICK a \in Ids : a = Head(queue)
  BY DEF Take, IInv, TypeOK
<1>2. /\ Len(queue) \in Nat \ {0}
      /\ queue[1] = a
      /\ Len(queue') = Len(queue) - 1
      /\ \A i \in 1..Len(queue') : queue'[i] = queue[i + 1]
  BY <1>1 DEF Take, IInv, TypeOK
<1>3. /\ worker[w].pc = "idle"
      /\ worker' = [worker EXCEPT ![w] = [pc |-> "get", job |-> a, held |-> "none"]]
      /\ UNCHANGED <<row, request, unreconciled, phase, stranded>>
  BY <1>1 DEF Take, persistent, bounds, history
<1>4. Queued(a)
  BY <1>2 DEF Queued
<1>5. \A b \in Ids : Queued(b)' <=> Queued(b) /\ b # a
  <2> SUFFICES ASSUME NEW b \in Ids PROVE Queued(b)' <=> Queued(b) /\ b # a
    OBVIOUS
  <2>1. Queued(b)' => Queued(b)
    BY <1>2 DEF Queued
  <2>2. ~ Queued(a)'
    <3> SUFFICES ASSUME NEW i \in 1..Len(queue'), queue'[i] = a PROVE FALSE
      BY DEF Queued
    <3>1. i + 1 \in 1..Len(queue) /\ queue[i + 1] = a
      BY <1>2
    <3> QED
      BY <1>2, <3>1 DEF IInv, Hands, OneOwner
  <2>3. Queued(b) /\ b # a => Queued(b)'
    <3> SUFFICES ASSUME NEW i \in 1..Len(queue), queue[i] = b, b # a
                 PROVE  \E j \in 1..Len(queue') : queue'[j] = b
      BY DEF Queued
    <3>1. i - 1 \in 1..Len(queue')
      BY <1>2
    <3>2. queue'[i - 1] = queue[(i - 1) + 1] /\ (i - 1) + 1 = i
      BY <1>2, <3>1
    <3> QED
      BY <3>1, <3>2
  <2> QED
    BY <2>1, <2>2, <2>3
<1>6. /\ \A v \in Workers : worker[v].job # a
      /\ \A r \in Requests : ~ Submits(r, a)
      /\ row[a] \in {"queued", "deleted"}
  BY <1>4 DEF IInv, Hands, OneOwner, Works, WaitingIsQueued
<1>7. \A v \in Workers, b \in Ids :
         Works(v, b)' <=> IF v = w THEN b = a ELSE Works(v, b)
  BY <1>3 DEF Works, IInv, TypeOK
<1>8. OneOwner'
  <2>1. \A i, j \in 1..Len(queue') : queue'[i] = queue'[j] => i = j
    <3> SUFFICES ASSUME NEW i \in 1..Len(queue'), NEW j \in 1..Len(queue'),
                        queue'[i] = queue'[j]
                 PROVE  i = j
      OBVIOUS
    <3>1. i + 1 \in 1..Len(queue) /\ j + 1 \in 1..Len(queue)
      BY <1>2
    <3>2. queue[i + 1] = queue[j + 1]
      BY <1>2
    <3>3. i + 1 = j + 1
      BY <3>1, <3>2 DEF IInv, Hands, OneOwner
    <3> QED
      BY <3>3
  <2>2. \A u, v \in Workers :
          worker'[u].job = worker'[v].job /\ worker'[u].job # NoId => u = v
    BY <1>3, <1>6 DEF IInv, Hands, OneOwner, TypeOK
  <2>3. \A b \in Ids :
          /\ ~ (Queued(b)' /\ \E v \in Workers : Works(v, b)')
          /\ ~ (Queued(b)' /\ \E r \in Requests : Submits(r, b)')
          /\ ~ ((\E v \in Workers : Works(v, b)')
                 /\ \E r \in Requests : Submits(r, b)')
    <3>1. \A r \in Requests, b \in Ids : Submits(r, b)' <=> Submits(r, b)
      BY <1>3 DEF Submits
    <3> QED
      BY <1>5, <1>6, <1>7, <3>1 DEF IInv, Hands, OneOwner
  <2>4. \A r, s \in Requests :
          /\ request'[r].pc = "submit" /\ request'[s].pc = "submit"
          /\ request'[r].id = request'[s].id
          => r = s
    BY <1>3 DEF IInv, Hands, OneOwner
  <2> QED
    BY <2>1, <2>2, <2>3, <2>4 DEF OneOwner
<1>9. CopyIsCurrent'
  <2> SUFFICES ASSUME NEW v \in Workers, NEW b, b = worker'[v].job PROVE CopyOf(v, b)'
    BY DEF CopyIsCurrent, CopyOf
  <2>1. CASE v = w
    BY <1>3, <1>6, <2>1 DEF CopyOf, IInv, TypeOK
  <2>2. CASE v # w
    BY <1>3, <2>2 DEF CopyOf, IInv, Hands, CopyIsCurrent, TypeOK
  <2> QED
    BY <2>1, <2>2
<1>10. WaitingIsQueued'
  BY <1>3, <1>5 DEF IInv, Hands, WaitingIsQueued, Submits
<1>11. QuietWhenDown'
  BY <1>2, <1>3 DEF IInv, Hands, QuietWhenDown, TypeOK
<1>12. UnfinishedIsOwned'
  <2>1. \A b \in Ids : Owned(b) => Owned(b)'
    BY <1>3, <1>5, <1>7 DEF Owned, Submits, Works, IInv, TypeOK
  <2> QED
    BY <1>3, <2>1 DEF IInv, Hands, UnfinishedIsOwned
<1> QED
  BY <1>8, <1>9, <1>10, <1>11, <1>12 DEF Hands

\* The worker lets go of an analysis that has ended.
LEMMA DiscardHands ==
  ASSUME IInv, TypeOK', NEW w \in Workers, Discard(w)
  PROVE  Hands'
<1>1. PICK a \in Ids : a = worker[w].job
  BY DEF Discard, IInv, TypeOK
<1>2. /\ worker' = [worker EXCEPT ![w] = IdleWorker]
      /\ UNCHANGED <<row, queue, request, unreconciled, phase, stranded>>
  BY DEF Discard, persistent, bounds, history
<1>3. row[a] \in NonTerminal => a \in stranded
  BY <1>1 DEF Discard, IInv, Hands, CopyIsCurrent
<1>4. \A v \in Workers, b \in Ids : Works(v, b)' <=> Works(v, b) /\ v # w
  BY <1>2 DEF Works, IdleWorker, IInv, TypeOK
<1>5. /\ \A b \in Ids : Queued(b)' <=> Queued(b)
      /\ \A r \in Requests, b \in Ids : Submits(r, b)' <=> Submits(r, b)
  BY <1>2 DEF Queued, Submits
<1>6. OneOwner'
  <2>1. \A u, v \in Workers :
          worker'[u].job = worker'[v].job /\ worker'[u].job # NoId => u = v
    BY <1>2 DEF IInv, Hands, OneOwner, IdleWorker, TypeOK
  <2>2. \A b \in Ids :
          /\ ~ (Queued(b)' /\ \E v \in Workers : Works(v, b)')
          /\ ~ (Queued(b)' /\ \E r \in Requests : Submits(r, b)')
          /\ ~ ((\E v \in Workers : Works(v, b)')
                 /\ \E r \in Requests : Submits(r, b)')
    BY <1>4, <1>5 DEF IInv, Hands, OneOwner
  <2> QED
    BY <1>2, <2>1, <2>2 DEF IInv, Hands, OneOwner
<1>7. CopyIsCurrent'
  <2> SUFFICES ASSUME NEW v \in Workers, NEW b, b = worker'[v].job PROVE CopyOf(v, b)'
    BY DEF CopyIsCurrent, CopyOf
  <2>1. CASE v = w
    BY <1>2, <2>1 DEF CopyOf, IdleWorker, IInv, TypeOK
  <2>2. CASE v # w
    BY <1>2, <2>2 DEF CopyOf, IInv, Hands, CopyIsCurrent, TypeOK
  <2> QED
    BY <2>1, <2>2
<1>8. WaitingIsQueued'
  BY <1>2, <1>5 DEF IInv, Hands, WaitingIsQueued
<1>9. QuietWhenDown'
  BY <1>2 DEF IInv, Hands, QuietWhenDown, IdleWorker, TypeOK
<1>10. UnfinishedIsOwned'
  <2>1. \A b \in Ids : b # a /\ Owned(b) => Owned(b)'
    BY <1>1, <1>4, <1>5 DEF Owned, Works
  <2> QED
    BY <1>2, <1>3, <2>1 DEF IInv, Hands, UnfinishedIsOwned
<1> QED
  BY <1>6, <1>7, <1>8, <1>9, <1>10 DEF Hands

\* Every step of a worker keeps each analysis in one pair of hands.
LEMMA WorkerHands ==
  ASSUME IInv, TypeOK', NEW w \in Workers, WorkerGoesOn(w) \/ StoreError(w)
  PROVE  Hands'
BY TakeHands, PrivateHands, WriteHands, EscapedHands, DiscardHands
DEF WorkerGoesOn, StoreError

-----------------------------------------------------------------------------
(* Steps of the process.                                                   *)

\* After a step that leaves no thread with anything in hand.
LEMMA NothingInHand ==
  ASSUME queue' = <<>>,
         \A w \in Workers : worker'[w].pc = "idle",
         \A r \in Requests : request'[r].pc = "idle",
         TypeOK'
  PROVE  OneOwner' /\ CopyIsCurrent' /\ WaitingIsQueued'
BY DEF Queued, Works, Submits, OneOwner, CopyIsCurrent, WaitingIsQueued, TypeOK

\* A crash empties all hands, and startup ends what they held.
LEMMA ProcessHands ==
  ASSUME IInv, TypeOK', ProcessGoesOn \/ Shutdown \/ Crash
  PROVE  Hands'
<1>1. CASE Shutdown
  BY <1>1
  DEF Shutdown, persistent, process, bounds, history, IInv, Hands, OneOwner,
      CopyIsCurrent, WaitingIsQueued, QuietWhenDown, UnfinishedIsOwned, Owned,
      Queued, Works, Submits
<1>2. CASE Stop
  <2>1. \A r \in Requests : request[r].pc = "idle"
    BY <1>2 DEF Stop, IInv, Hands, QuietWhenDown
  <2>2. /\ queue' = <<>>
        /\ \A w \in Workers : worker'[w].pc = "idle"
        /\ \A r \in Requests : request'[r].pc = "idle"
    BY <1>2, <2>1 DEF Stop, process
  <2>3. OneOwner' /\ CopyIsCurrent' /\ WaitingIsQueued'
    BY <2>2, NothingInHand
  <2>4. \A a \in Ids : ~ Owned(a)
    BY <1>2, <2>1 DEF Stop, IInv, TypeOK, Owned, Queued, Works, Submits
  <2>5. UnfinishedIsOwned'
    BY <1>2, <2>4 DEF Stop, persistent, history, IInv, Hands, UnfinishedIsOwned
  <2>6. QuietWhenDown'
    BY <1>2, <2>2 DEF Stop, QuietWhenDown
  <2> QED
    BY <2>3, <2>5, <2>6 DEF Hands
<1>3. CASE Crash
  <2>1. /\ queue' = <<>>
        /\ \A w \in Workers : worker'[w].pc = "idle"
        /\ \A r \in Requests : request'[r].pc = "idle"
        /\ phase' = "crashed"
    BY <1>3 DEF Crash, IdleWorker, IdleRequest
  <2>2. OneOwner' /\ CopyIsCurrent' /\ WaitingIsQueued'
    BY <2>1, NothingInHand
  <2> QED
    BY <2>1, <2>2 DEF Hands, QuietWhenDown, UnfinishedIsOwned
<1>4. ASSUME phase \in {"stopped", "crashed", "starting"},
             UNCHANGED <<queue, worker, request>>
      PROVE  /\ \A w \in Workers : worker'[w].pc = "idle"
             /\ \A r \in Requests : request'[r].pc = "idle"
             /\ queue' = <<>>
             /\ OneOwner' /\ CopyIsCurrent' /\ WaitingIsQueued'
  <2>1. /\ queue' = <<>>
        /\ \A w \in Workers : worker'[w].pc = "idle"
        /\ \A r \in Requests : request'[r].pc = "idle"
    BY <1>4 DEF IInv, Hands, QuietWhenDown
  <2> QED
    BY <2>1, NothingInHand
<1>5. CASE Restart
  <2>1. /\ phase' = "starting"
        /\ \A a \in Ids : row'[a] \in NonTerminal <=> a \in unreconciled'
    BY <1>5 DEF Restart, persistent
  <2> QED
    BY <1>4, <1>5, <2>1 DEF Restart, Hands, QuietWhenDown, UnfinishedIsOwned
<1>6. ASSUME NEW a \in Ids, ReconcileOne(a)
      PROVE  Hands'
  <2>1. /\ phase = "starting" /\ phase' = "starting"
        /\ row' = [row EXCEPT ![a] = "failed"]
        /\ unreconciled' = unreconciled \ {a}
        /\ UNCHANGED <<queue, worker, request>>
    BY <1>6 DEF ReconcileOne
  <2>2. \A b \in Ids : row'[b] \in NonTerminal <=> b \in unreconciled'
    BY <2>1 DEF IInv, TypeOK, Hands, QuietWhenDown
  <2> QED
    BY <1>4, <2>1, <2>2 DEF Hands, QuietWhenDown, UnfinishedIsOwned
<1>7. CASE Serve
  <2>1. \A a \in Ids : row'[a] \notin NonTerminal
    BY <1>7 DEF Serve, persistent, IInv, Hands, QuietWhenDown
  <2> QED
    BY <1>4, <1>7, <2>1 DEF Serve, process, Hands, QuietWhenDown, UnfinishedIsOwned
<1> QED
  BY <1>1, <1>2, <1>3, <1>5, <1>6, <1>7 DEF ProcessGoesOn

\* Every step keeps each analysis in one pair of hands.
LEMMA NextHands == IInv /\ TypeOK' /\ [Next]_vars => Hands'
<1> SUFFICES ASSUME IInv, TypeOK', [Next]_vars PROVE Hands'
  OBVIOUS
<1>1. CASE Next
  BY <1>1, RequestHands, WorkerHands, ProcessHands DEF Next
<1>2. CASE UNCHANGED vars
  BY <1>2
  DEF vars, persistent, process, bounds, history, IInv, Hands, OneOwner,
      CopyIsCurrent, WaitingIsQueued, QuietWhenDown, UnfinishedIsOwned, Owned,
      Queued, Works, Submits
<1> QED
  BY <1>1, <1>2

\* The inductive invariant: types, one owner, current copies, and no
\* unfinished analysis that nobody owns.
THEOREM IInvHolds == Spec => []IInv
<1>1. Init => IInv
  BY InitTypeOK, InitHands DEF IInv
<1>2. IInv /\ TypeOK' /\ [Next]_vars => IInv'
  BY NextHands DEF IInv
<1> QED
  BY <1>1, <1>2, TypeCorrect, PTL DEF Spec

\* An analysis is in one pair of hands at a time: run_analysis never runs
\* twice for it.
THEOREM OneOwnerHolds == Spec => []OneOwner
<1>1. IInv => OneOwner
  BY DEF IInv, Hands
<1> QED
  BY <1>1, IInvHolds, PTL

\* The whole-row writes of a worker overwrite nobody else's.
THEOREM CopyIsCurrentHolds == Spec => []CopyIsCurrent
<1>1. IInv => CopyIsCurrent
  BY DEF IInv, Hands
<1> QED
  BY <1>1, IInvHolds, PTL

\* One thread writes the rows of an analysis, from a current copy.
THEOREM OneWriterHolds == Spec => []OneWriter
<1>1. OneOwner /\ CopyIsCurrent => OneWriter
  BY DEF OneWriter
<1> QED
  BY <1>1, OneOwnerHolds, CopyIsCurrentHolds, PTL

\* A restart leaves no analysis that claims to be running and is not.
THEOREM UnfinishedIsOwnedHolds == Spec => []UnfinishedIsOwned
<1>1. IInv => UnfinishedIsOwned
  BY DEF IInv, Hands
<1> QED
  BY <1>1, IInvHolds, PTL

-----------------------------------------------------------------------------
(* AnalysisJobs implements AnalysisLifecycle.                              *)

\* A worker's write is a step of the life cycle, because its copy is current.
LEMMA WriteIsAStep ==
  ASSUME IInv, NEW w \in Workers, WorkerGoesOn(w) \/ StoreError(w)
  PROVE  [Lifecycle!Next]_row
<1>1. CASE WriteCancelled(w) \/ WriteFailed(w) \/ WriteCompleted(w) \/ Advance(w)
  <2>1. PICK a \in Ids : a = worker[w].job
    BY <1>1 DEF WriteCancelled, Advance, WriteFailed, WriteCompleted, IInv, TypeOK
  <2>2. row[a] \in {worker[w].held, "deleted"}
    BY <1>1, <2>1
    DEF WriteCancelled, Advance, WriteFailed, WriteCompleted, IInv, Hands,
        CopyIsCurrent
  <2>3. ASSUME NEW s, Replace(a, s)
        PROVE  row' = row \/ (row[a] = worker[w].held
                                /\ row' = [row EXCEPT ![a] = s])
    BY <2>2, <2>3 DEF Replace, Exists
  <2>4. CASE WriteCancelled(w) \/ WriteFailed(w)
    <3>1. worker[w].held \in NonTerminal
      BY <2>4 DEF WriteCancelled, WriteFailed, IInv, TypeOK
    <3>2. \E s \in {"failed", "cancelled"} : Replace(a, s)
      BY <2>1, <2>4 DEF WriteCancelled, WriteFailed
    <3> QED
      BY <2>3, <3>1, <3>2 DEF Lifecycle!Next, Lifecycle!GiveUp
  <2>5. CASE WriteCompleted(w)
    <3>1. worker[w].held = "detecting" /\ Replace(a, "completed")
      BY <2>1, <2>5 DEF WriteCompleted, IInv, TypeOK
    <3> QED
      BY <2>3, <3>1 DEF Lifecycle!Next, Lifecycle!Complete
  <2>6. CASE Advance(w)
    <3>1. worker[w].held \in NonTerminal \ {"detecting"}
      BY <2>6 DEF Advance, IInv, TypeOK
    <3>2. Replace(a, Lifecycle!Follows[worker[w].held])
      BY <2>1, <2>6 DEF Advance
    <3> QED
      BY <2>3, <3>1, <3>2 DEF Lifecycle!Next, Lifecycle!EnterStage
  <2> QED
    BY <1>1, <2>4, <2>5, <2>6
<1>2. CASE ~ (WriteCancelled(w) \/ WriteFailed(w) \/ WriteCompleted(w) \/ Advance(w))
  BY <1>2
  DEF WorkerGoesOn, StoreError, Take, Get, Check, RunStage, CaughtStoreError,
      EscapedStoreError, Discard, OnlyWorker, persistent
<1> QED
  BY <1>1, <1>2

\* What a request does to the rows is a step of the life cycle.
LEMMA RequestIsAStep ==
  ASSUME IInv, NEW r \in Requests, RequestStarts(r) \/ RequestContinues(r)
  PROVE  [Lifecycle!Next]_row
<1>1. CASE \E a \in Ids : Create(r, a) \/ AddAgain(r, a)
  BY <1>1 DEF Create, AddAgain, AddRow, Lifecycle!Next, Lifecycle!Queue
<1>2. CASE Delete(r)
  <2>1. request[r].id \in Ids
    BY <1>2 DEF Delete, IInv, TypeOK
  <2> QED
    BY <1>2, <2>1 DEF Delete, Exists, Lifecycle!Next, Lifecycle!Delete
<1>3. CASE ~ Delete(r) /\ ~ \E a \in Ids : Create(r, a) \/ AddAgain(r, a)
  BY <1>3
  DEF RequestStarts, RequestContinues, ReadForRetry, ReadForRerun,
      ReadForCancel, ReadForDelete, AddFails, Submit, Flag, OnlyRequest,
      persistent
<1> QED
  BY <1>1, <1>2, <1>3

\* What the process does to the rows is a step of the life cycle.
LEMMA ProcessIsAStep ==
  ASSUME IInv, ProcessGoesOn \/ Shutdown \/ Crash
  PROVE  [Lifecycle!Next]_row
<1>1. ASSUME NEW a \in Ids, ReconcileOne(a) PROVE [Lifecycle!Next]_row
  <2>1. row[a] \in NonTerminal
    BY <1>1 DEF ReconcileOne, IInv, Hands, QuietWhenDown
  <2> QED
    BY <1>1, <2>1 DEF ReconcileOne, Lifecycle!Next, Lifecycle!GiveUp
<1>2. CASE Stop \/ Restart \/ Serve \/ Shutdown \/ Crash
  BY <1>2 DEF Stop, Restart, Serve, Shutdown, Crash, persistent
<1> QED
  BY <1>1, <1>2 DEF ProcessGoesOn

\* Every step of the program is a step or a stutter of the life cycle.
LEMMA NextIsAStep == IInv /\ [Next]_vars => [Lifecycle!Next]_row
BY RequestIsAStep, WriteIsAStep, ProcessIsAStep DEF Next, vars, persistent

\* What a client can observe of analyses follows the promised life cycle: a
\* finished analysis stays as it is, a deleted one stays gone.
THEOREM ImplementsLifecycleHolds == Spec => ImplementsLifecycle
<1>1. Init => Lifecycle!Init
  BY DEF Init, Lifecycle!Init
<1> QED
  BY <1>1, NextIsAStep, IInvHolds, PTL DEF Spec, ImplementsLifecycle, Lifecycle!Spec
-----------------------------------------------------------------------------
(* Retries.                                                                *)

\* The life cycle leaves a failed or deleted analysis failed or deleted.
LEMMA FailedStaysFailed ==
  ASSUME IInv, [Lifecycle!Next]_row, NEW a \in Ids, row[a] \in {"failed", "deleted"}
  PROVE  row'[a] \in {"failed", "deleted"}
BY DEF Lifecycle!Next, Lifecycle!Queue, Lifecycle!EnterStage, Lifecycle!Complete,
       Lifecycle!GiveUp, Lifecycle!Delete, IInv, TypeOK

\* A request that retries an analysis has seen it failed.
RetriesFailed ==
    \A r \in Requests :
        request[r].pc = "add_retry" => row[request[r].id] \in {"failed", "deleted"}

RetryInv == RetriesFailed /\ RetryOfFailed

\* Requests that are about to retry name a failed analysis, and so do the
\* analyses they added.
LEMMA NextRetryInv ==
  ASSUME IInv, IInv', RetryInv, [Next]_vars
  PROVE  RetryInv'
<1>1. [Lifecycle!Next]_row
  BY NextIsAStep
<1>2. RetriesFailed'
  <2> SUFFICES ASSUME NEW r \in Requests, request'[r].pc = "add_retry"
               PROVE  row'[request'[r].id] \in {"failed", "deleted"}
    BY DEF RetriesFailed
  <2>1. request'[r].id \in Ids
    BY DEF IInv, TypeOK
  <2>2. CASE request'[r] = request[r]
    BY <1>1, <2>1, <2>2, FailedStaysFailed DEF RetryInv, RetriesFailed
  <2>3. CASE request'[r] # request[r]
    <3>1. PICK s \in Requests : RequestStarts(s) \/ RequestContinues(s)
      BY <2>3
      DEF Next, vars, persistent, process, bounds, history, WorkerGoesOn,
          StoreError, Take, Get, Check, WriteCancelled, Advance, RunStage,
          WriteFailed, WriteCompleted, CaughtStoreError, EscapedStoreError,
          Discard, OnlyWorker, Replace, ProcessGoesOn, Stop, Restart, Serve,
          ReconcileOne, Shutdown, Crash, IdleRequest
    <3>2. PICK a \in Ids : ReadForRetry(s, a)
      BY <2>3, <3>1
      DEF RequestStarts, RequestContinues, Create, AddAgain, ReadForRerun,
          ReadForCancel, ReadForDelete, AddFails, Submit, Flag, Delete,
          RequestGoes, RequestEnds, IdleRequest, IInv, TypeOK
    <3> QED
      BY <2>3, <3>2
      DEF ReadForRetry, RequestGoes, OnlyRequest, persistent, IInv, TypeOK
  <2> QED
    BY <2>2, <2>3
<1>3. RetryOfFailed'
  <2> SUFFICES ASSUME NEW a \in Ids, retryOf'[a] # NoId
               PROVE  retryOf'[a] # a /\ row'[retryOf'[a]] \in {"failed", "deleted"}
    BY DEF RetryOfFailed
  <2>1. retryOf'[a] \in Ids
    BY DEF IInv, TypeOK
  <2>2. CASE retryOf'[a] = retryOf[a]
    BY <1>1, <2>1, <2>2, FailedStaysFailed DEF RetryInv, RetryOfFailed
  <2>3. CASE retryOf'[a] # retryOf[a]
    <3>1. PICK r \in Requests : RequestStarts(r) \/ RequestContinues(r)
      BY <2>3
      DEF Next, vars, persistent, process, bounds, history, WorkerGoesOn,
          StoreError, Take, Get, Check, WriteCancelled, Advance, RunStage,
          WriteFailed, WriteCompleted, CaughtStoreError, EscapedStoreError,
          Discard, OnlyWorker, Replace, ProcessGoesOn, Stop, Restart, Serve,
          ReconcileOne, Shutdown, Crash
    <3>2. PICK b \in Ids : AddAgain(r, b) /\ request[r].pc = "add_retry"
      BY <2>3, <3>1
      DEF RequestStarts, RequestContinues, Create, AddAgain, AddRow,
          ReadForRetry, ReadForRerun, ReadForCancel, ReadForDelete, AddFails,
          Submit, Flag, Delete, OnlyRequest, persistent, IInv, TypeOK
    <3>3. /\ b = a /\ retryOf'[a] = request[r].id
          /\ row[a] = "none" /\ row[request[r].id] \in {"failed", "deleted"}
      BY <2>3, <3>2 DEF AddAgain, AddRow, RetryInv, RetriesFailed, IInv, TypeOK
    <3> QED
      BY <1>1, <2>1, <3>3, FailedStaysFailed
  <2> QED
    BY <2>2, <2>3
<1> QED
  BY <1>2, <1>3 DEF RetryInv

\* An analysis that retries another points at a failed one as long as it exists.
THEOREM RetryOfFailedHolds == Spec => []RetryOfFailed
<1>1. Init => RetryInv
  BY DEF Init, RetryInv, RetriesFailed, RetryOfFailed, IdleRequest
<1>2. IInv /\ IInv' /\ RetryInv /\ [Next]_vars => RetryInv'
  BY NextRetryInv
<1>3. RetryInv => RetryOfFailed
  BY DEF RetryInv
<1> QED
  BY <1>1, <1>2, <1>3, IInvHolds, PTL DEF Spec
-----------------------------------------------------------------------------
(* Cancellation.  The argument follows the flag: it is set for an analysis *)
(* that was seen unfinished, stays set while somebody has the analysis in  *)
(* hand, and is what the worker finds at its last checkpoint.              *)

\* Somebody has the analysis in hand and may still write that it completed.
InHand(a) == \/ Queued(a)
             \/ \E r \in Requests : Submits(r, a)
             \/ \E w \in Workers : Works(w, a) /\ worker[w].pc # "discard"

\* A flag that was set in time stays set until the worker is done.
FlagIsKept ==
    \A a \in Ids : asked[a] = "in_time" /\ InHand(a) => a \in cancelRequested

\* So a worker that has passed its last checkpoint was not asked in time.
NoneIsPassed ==
    \A w \in Workers :
        worker[w].pc = "complete" => asked[worker[w].job] # "in_time"

\* Only analyses that exist, or existed, are flagged.
OnlyAddedAreFlagged ==
    /\ \A r \in Requests : request[r].pc \in {"flag", "flag_then_delete"}
                               => row[request[r].id] # "none"
    /\ \A a \in Ids : a \in cancelRequested \/ asked[a] # "no" => row[a] # "none"

\* A flag for an unfinished analysis, and a worker that is about to write
\* that one was cancelled, have a client who asked for it.
FlagHasReason ==
    /\ \A a \in Ids : a \in cancelRequested /\ row[a] \in NonTerminal
                          => asked[a] # "no"
    /\ \A w \in Workers :
           worker[w].pc = "cancel" /\ row[worker[w].job] \in NonTerminal
               => asked[worker[w].job] # "no"

CancelInv == /\ FlagIsKept /\ NoneIsPassed /\ OnlyAddedAreFlagged
             /\ FlagHasReason /\ CancelInTimeIsHonoured /\ CancelledOnRequest

-----------------------------------------------------------------------------
\* Added analyses stay added and finished ones finished; nothing becomes
\* unfinished but by being added.
LEMMA RowsGoForward ==
  ASSUME IInv, [Lifecycle!Next]_row, NEW a \in Ids
  PROVE  /\ row[a] # "none" => row'[a] # "none"
         /\ row[a] # "none" /\ row'[a] \in NonTerminal => row[a] \in NonTerminal
         /\ row'[a] \in {"completed", "cancelled"} /\ row'[a] # row[a]
                => row[a] \in NonTerminal
BY DEF Lifecycle!Next, Lifecycle!Queue, Lifecycle!EnterStage, Lifecycle!Complete,
       Lifecycle!GiveUp, Lifecycle!Delete, Lifecycle!Follows, IInv, TypeOK

\* A worker past store.get has an analysis that exists or existed.
LEMMA WorkedOnIsAdded ==
  ASSUME IInv, NEW w \in Workers, worker[w].pc \notin {"idle", "get", "discard"}
  PROVE  worker[w].job \in Ids /\ row[worker[w].job] # "none"
BY DEF IInv, TypeOK, Hands, CopyIsCurrent

\* A step that asks for no cancellation keeps the argument, if it takes up
\* only what was in hand or is new, drops no flag of what is in hand, and lets
\* a worker complete or cancel only what the flags allow.
LEMMA NobodyAsks ==
  ASSUME IInv, IInv', CancelInv, [Lifecycle!Next]_row,
         UNCHANGED asked, cancelRequested' \subseteq cancelRequested,
         \A a \in Ids : InHand(a)' => InHand(a) \/ asked[a] = "no",
         \A a \in cancelRequested : InHand(a)' => a \in cancelRequested',
         \A w \in Workers : worker'[w].pc = "complete" =>
             asked[worker'[w].job] # "in_time",
         \A w \in Workers : worker'[w].pc = "cancel" =>
             /\ row[worker'[w].job] # "none"
             /\ row[worker'[w].job] \in NonTerminal =>
                    asked[worker'[w].job] # "no",
         \A a \in Ids : row'[a] = "completed" =>
             row[a] = "completed" \/ asked[a] # "in_time",
         \A a \in Ids : row'[a] = "cancelled" =>
             row[a] = "cancelled" \/ asked[a] # "no",
         \A r \in Requests : request'[r].pc \in {"flag", "flag_then_delete"} =>
             request'[r] = request[r] \/ row[request'[r].id] # "none"
  PROVE  CancelInv'
<1>1. FlagIsKept'
  BY DEF CancelInv, FlagIsKept
<1>2. NoneIsPassed'
  BY DEF NoneIsPassed
<1>3. OnlyAddedAreFlagged'
  <2>1. ASSUME NEW r \in Requests, request'[r].pc \in {"flag", "flag_then_delete"}
        PROVE  row'[request'[r].id] # "none"
    <3>1. request'[r].id \in Ids
      BY <2>1 DEF IInv, TypeOK
    <3>2. row[request'[r].id] # "none"
      BY <2>1 DEF CancelInv, OnlyAddedAreFlagged
    <3> QED
      BY <3>1, <3>2, RowsGoForward
  <2> QED
    BY <2>1, RowsGoForward DEF CancelInv, OnlyAddedAreFlagged
<1>4. FlagHasReason'
  <2>1. ASSUME NEW a \in Ids, a \in cancelRequested, row'[a] \in NonTerminal
        PROVE  asked[a] # "no"
    BY <2>1, RowsGoForward DEF CancelInv, FlagHasReason, OnlyAddedAreFlagged
  <2>2. ASSUME NEW w \in Workers, worker'[w].pc = "cancel",
               row'[worker'[w].job] \in NonTerminal
        PROVE  asked[worker'[w].job] # "no"
    <3>1. worker'[w].job \in Ids
      BY <2>2 DEF IInv, TypeOK
    <3> QED
      BY <2>2, <3>1, RowsGoForward
  <2> QED
    BY <2>1, <2>2 DEF FlagHasReason
<1>5. CancelInTimeIsHonoured' /\ CancelledOnRequest'
  BY DEF CancelInv, CancelInTimeIsHonoured, CancelledOnRequest
<1> QED
  BY <1>1, <1>2, <1>3, <1>4, <1>5 DEF CancelInv
-----------------------------------------------------------------------------
(* Requests.                                                               *)

\* A new analysis has not been asked about; reading, adding, submitting and
\* deleting ask for nothing.
LEMMA QuietRequestCancels ==
  ASSUME IInv, IInv', CancelInv, [Lifecycle!Next]_row, NEW r \in Requests,
         RequestStarts(r) \/ RequestContinues(r), ~ Flag(r)
  PROVE  CancelInv'
<1>1. UNCHANGED <<worker, cancelRequested, asked>>
  BY DEF RequestStarts, RequestContinues, Create, AddAgain, AddRow,
         ReadForRetry, ReadForRerun, ReadForCancel, ReadForDelete, AddFails,
         Submit, Delete, OnlyRequest, history
<1>2. ASSUME NEW a \in Ids, row'[a] \in {"completed", "cancelled"}
      PROVE  row'[a] = row[a]
  BY <1>2
  DEF RequestStarts, RequestContinues, Create, AddAgain, AddRow,
      ReadForRetry, ReadForRerun, ReadForCancel, ReadForDelete, AddFails,
      Submit, Delete, OnlyRequest, persistent, IInv, TypeOK
<1>3. ASSUME NEW s \in Requests, request'[s].pc \in {"flag", "flag_then_delete"}
      PROVE  request'[s] = request[s] \/ row[request'[s].id] # "none"
  BY <1>3
  DEF RequestStarts, RequestContinues, Create, AddAgain, AddRow,
      ReadForRetry, ReadForRerun, ReadForCancel, ReadForDelete, AddFails,
      Submit, Delete, RequestGoes, RequestEnds, IdleRequest, Exists, IInv, TypeOK
<1>4. ASSUME NEW a \in Ids, InHand(a)'
      PROVE  InHand(a) \/ asked[a] = "no"
  <2>1. CASE \E b \in Ids : Create(r, b) \/ AddAgain(r, b)
    <3>1. PICK b \in Ids : Create(r, b) \/ AddAgain(r, b)
      BY <2>1
    <3>2. asked[b] = "no"
      BY <3>1 DEF Create, AddAgain, AddRow, CancelInv, OnlyAddedAreFlagged
    <3>3. UNCHANGED <<queue, worker>> /\ RequestGoes(r, "submit", b)
      BY <3>1 DEF Create, AddAgain, AddRow
    <3> QED
      BY <1>4, <3>2, <3>3 DEF InHand, Queued, Works, Submits, RequestGoes, IInv, TypeOK
  <2>2. CASE Submit(r)
    <3>1. /\ queue' = Append(queue, request[r].id) /\ UNCHANGED worker
          /\ request[r].pc = "submit" /\ RequestEnds(r)
      BY <2>2 DEF Submit
    <3>2. Queued(a)' => Queued(a) \/ Submits(r, a)
      BY <3>1 DEF Queued, Submits, IInv, TypeOK
    <3>3. \A s \in Requests : Submits(s, a)' => Submits(s, a)
      BY <3>1 DEF Submits, RequestEnds, IdleRequest, IInv, TypeOK
    <3> QED
      BY <1>4, <3>1, <3>2, <3>3 DEF InHand, Works
  <2>3. CASE ~ Submit(r) /\ ~ \E b \in Ids : Create(r, b) \/ AddAgain(r, b)
    <3>1. UNCHANGED <<queue, worker>>
      BY <2>3
      DEF RequestStarts, RequestContinues, ReadForRetry, ReadForRerun,
          ReadForCancel, ReadForDelete, AddFails, Delete, OnlyRequest
    <3>2. \A s \in Requests : Submits(s, a)' => Submits(s, a)
      BY <2>3
      DEF RequestStarts, RequestContinues, ReadForRetry, ReadForRerun,
          ReadForCancel, ReadForDelete, AddFails, Delete, OnlyRequest, Submits,
          RequestGoes, RequestEnds, IdleRequest, IInv, TypeOK
    <3> QED
      BY <1>4, <3>1, <3>2 DEF InHand, Queued, Works
  <2> QED
    BY <2>1, <2>2, <2>3
<1>5. \A w \in Workers : worker[w].pc = "complete" => asked[worker[w].job] # "in_time"
  BY DEF CancelInv, NoneIsPassed
<1>6. \A w \in Workers : worker[w].pc = "cancel" =>
          /\ row[worker[w].job] # "none"
          /\ row[worker[w].job] \in NonTerminal => asked[worker[w].job] # "no"
  BY WorkedOnIsAdded DEF CancelInv, FlagHasReason
<1> QED
  BY <1>1, <1>2, <1>3, <1>4, <1>5, <1>6, NobodyAsks

\* A request asks in time exactly when no worker has passed its last
\* checkpoint, and then leaves the flag behind.
LEMMA FlagCancels ==
  ASSUME IInv, IInv', CancelInv, NEW r \in Requests, Flag(r)
  PROVE  CancelInv'
<1> DEFINE a == request[r].id
<1>1. /\ a \in Ids /\ row[a] # "none"
      /\ UNCHANGED <<row, queue, worker>>
      /\ cancelRequested' = cancelRequested \cup {a}
      /\ asked' = IF asked[a] = "no" /\ row[a] \in NonTerminal
                  THEN [asked EXCEPT ![a] = IF PastLastCheck(a) THEN "late"
                                                                ELSE "in_time"]
                  ELSE asked
  BY DEF Flag, persistent, IInv, TypeOK, CancelInv, OnlyAddedAreFlagged
<1>2. \A b \in Ids : b # a => asked'[b] = asked[b]
  BY <1>1 DEF IInv, TypeOK
<1>3. asked'[a] = asked[a] \/ (row[a] \in NonTerminal /\ asked[a] = "no"
                               /\ asked'[a] # "no"
                               /\ (asked'[a] = "in_time" => ~ PastLastCheck(a)))
  BY <1>1 DEF IInv, TypeOK
<1>4. RequestEnds(r) \/ RequestGoes(r, "delete", a)
  BY DEF Flag
<1>5. \A b \in Ids : InHand(b)' => InHand(b)
  BY <1>1, <1>4
  DEF InHand, Queued, Works, Submits, RequestEnds, RequestGoes, IdleRequest,
      IInv, TypeOK
<1>6. FlagIsKept'
  BY <1>1, <1>2, <1>5 DEF CancelInv, FlagIsKept
<1>7. NoneIsPassed'
  <2> SUFFICES ASSUME NEW w \in Workers, worker[w].pc = "complete"
               PROVE  asked'[worker[w].job] # "in_time"
    BY <1>1 DEF NoneIsPassed
  <2>1. worker[w].job \in Ids /\ asked[worker[w].job] # "in_time"
    BY DEF IInv, TypeOK, CancelInv, NoneIsPassed
  <2> QED
    BY <1>2, <1>3, <2>1 DEF PastLastCheck
<1>8. OnlyAddedAreFlagged'
  <2>1. \A s \in Requests : request'[s].pc \in {"flag", "flag_then_delete"}
                                => request'[s] = request[s]
    BY <1>4 DEF RequestEnds, RequestGoes, IdleRequest, IInv, TypeOK
  <2> QED
    BY <1>1, <1>2, <1>3, <2>1 DEF CancelInv, OnlyAddedAreFlagged
<1>9. FlagHasReason'
  <2>1. row[a] \in NonTerminal => asked'[a] # "no"
    BY <1>1 DEF IInv, TypeOK
  <2>2. ASSUME NEW w \in Workers, worker[w].pc = "cancel",
               row[worker[w].job] \in NonTerminal
        PROVE  asked'[worker[w].job] # "no"
    <3>1. worker[w].job \in Ids
      BY <2>2 DEF IInv, TypeOK
    <3> QED
      BY <1>2, <1>3, <2>2, <3>1 DEF CancelInv, FlagHasReason
  <2> QED
    BY <1>1, <1>2, <2>1, <2>2 DEF CancelInv, FlagHasReason
<1>10. CancelInTimeIsHonoured' /\ CancelledOnRequest'
  BY <1>1, <1>2, <1>3 DEF CancelInv, CancelInTimeIsHonoured, CancelledOnRequest
<1> QED
  BY <1>6, <1>7, <1>8, <1>9, <1>10 DEF CancelInv
-----------------------------------------------------------------------------
(* Workers.                                                                *)

\* The last checkpoint finds the flag of an analysis that was asked about in
\* time, and only finds flags that somebody asked for.
LEMMA CheckCancels ==
  ASSUME IInv, IInv', CancelInv, [Lifecycle!Next]_row, NEW w \in Workers, Check(w)
  PROVE  CancelInv'
<1> DEFINE a == worker[w].job
<1>1. /\ a \in Ids /\ row[a] # "none" /\ worker[w].pc = "check"
      /\ UNCHANGED <<row, queue, request, cancelRequested, asked>>
  BY WorkedOnIsAdded DEF Check, OnlyWorker, persistent, history
<1>2. /\ \A v \in Workers : worker'[v].job = worker[v].job
      /\ \A v \in Workers : v # w => worker'[v] = worker[v]
      /\ worker'[w].pc = "complete" => a \notin cancelRequested
      /\ worker'[w].pc = "cancel" => a \in cancelRequested
  BY DEF Check, WorkerGoes, IInv, TypeOK
<1>3. \A b \in Ids : InHand(b)' => InHand(b)
  BY <1>1, <1>2 DEF InHand, Queued, Works, Submits, IInv, TypeOK
<1>4. ASSUME NEW v \in Workers, worker'[v].pc = "complete"
      PROVE  asked[worker'[v].job] # "in_time"
  <2>1. CASE v = w
    <3>1. InHand(a)
      BY <1>1 DEF InHand, Works
    <3> QED
      BY <1>1, <1>2, <1>4, <2>1, <3>1 DEF CancelInv, FlagIsKept
  <2>2. CASE v # w
    BY <1>2, <1>4, <2>2 DEF CancelInv, NoneIsPassed
  <2> QED
    BY <2>1, <2>2
<1>5. ASSUME NEW v \in Workers, worker'[v].pc = "cancel"
      PROVE  /\ row[worker'[v].job] # "none"
             /\ row[worker'[v].job] \in NonTerminal => asked[worker'[v].job] # "no"
  <2>1. CASE v = w
    BY <1>1, <1>2, <1>5, <2>1 DEF CancelInv, FlagHasReason
  <2>2. CASE v # w
    BY <1>2, <1>5, <2>2, WorkedOnIsAdded DEF CancelInv, FlagHasReason
  <2> QED
    BY <2>1, <2>2
<1> QED
  BY <1>1, <1>3, <1>4, <1>5, NobodyAsks

\* The finished worker drops the flag of an analysis nobody else has in hand.
LEMMA DiscardCancels ==
  ASSUME IInv, IInv', CancelInv, [Lifecycle!Next]_row, NEW w \in Workers, Discard(w)
  PROVE  CancelInv'
<1>1. /\ worker[w].pc = "discard" /\ worker[w].job \in Ids
      /\ cancelRequested' = cancelRequested \ {worker[w].job}
      /\ UNCHANGED <<row, queue, request, asked>>
      /\ worker'[w] = IdleWorker
      /\ \A v \in Workers : v # w => worker'[v] = worker[v]
  BY DEF Discard, persistent, history, IInv, TypeOK
<1>2. \A b \in Ids : InHand(b)' => InHand(b)
  BY <1>1 DEF InHand, Queued, Works, Submits, IdleWorker
<1>3. ~ InHand(worker[w].job)
  BY <1>1 DEF InHand, Works, IInv, Hands, OneOwner
<1>4. \A v \in Workers : worker'[v].pc = "complete" => asked[worker'[v].job] # "in_time"
  BY <1>1 DEF CancelInv, NoneIsPassed, IdleWorker
<1>5. \A v \in Workers : worker'[v].pc = "cancel" =>
          /\ row[worker'[v].job] # "none"
          /\ row[worker'[v].job] \in NonTerminal => asked[worker'[v].job] # "no"
  BY <1>1, WorkedOnIsAdded DEF CancelInv, FlagHasReason, IdleWorker
<1> QED
  BY <1>1, <1>2, <1>3, <1>4, <1>5, NobodyAsks

\* Every other step of a worker leaves the flags alone and decides nothing.
\* What it writes, its last checkpoint allowed.
LEMMA OtherWorkCancels ==
  ASSUME IInv, IInv', CancelInv, [Lifecycle!Next]_row, NEW w \in Workers,
         WorkerGoesOn(w) \/ StoreError(w), ~ Check(w), ~ Discard(w)
  PROVE  CancelInv'
<1> USE DEF WorkerGoesOn, StoreError, Take, Get, WriteCancelled, Advance,
            RunStage, WriteFailed, WriteCompleted, CaughtStoreError,
            EscapedStoreError
<1>1. UNCHANGED <<request, cancelRequested, asked>>
  BY DEF OnlyWorker, Replace, history
<1>2. /\ \A v \in Workers : v # w => worker'[v] = worker[v]
      /\ worker'[w].pc \notin {"complete", "cancel"}
  BY DEF WorkerGoes, WorkerHolds, IInv, TypeOK
<1>3. ASSUME NEW a \in Ids, InHand(a)' PROVE InHand(a)
  <2>1. CASE Take(w)
    <3>1. /\ queue # <<>> /\ queue' = Tail(queue) /\ UNCHANGED request
          /\ \A v \in Workers : worker'[v] = worker[v] \/ worker'[v].job = Head(queue)
      BY <2>1 DEF IInv, TypeOK
    <3>2. Head(queue) = queue[1] /\ 1 \in 1..Len(queue)
      BY <3>1 DEF IInv, TypeOK
    <3>3. Queued(a)' => Queued(a)
      BY <3>1 DEF Queued, IInv, TypeOK
    <3>4. (\E v \in Workers : Works(v, a) /\ worker[v].pc # "discard")' => InHand(a)
      BY <3>1, <3>2 DEF InHand, Works, Queued
    <3>5. (\E r \in Requests : Submits(r, a))' => InHand(a)
      BY <3>1 DEF InHand, Submits
    <3> QED
      BY <1>3, <3>3, <3>4, <3>5 DEF InHand
  <2>2. CASE ~ Take(w)
    <3>1. /\ UNCHANGED queue
          /\ worker'[w].job = worker[w].job /\ worker[w].pc # "discard"
      BY <2>2 DEF OnlyWorker, Replace, WorkerGoes, WorkerHolds, IInv, TypeOK
    <3> QED
      BY <1>1, <1>2, <1>3, <3>1 DEF InHand, Queued, Works, Submits
  <2> QED
    BY <2>1, <2>2
<1>4. ASSUME NEW a \in Ids, row'[a] = "completed"
      PROVE  row[a] = "completed" \/ asked[a] # "in_time"
  BY <1>4, WorkedOnIsAdded
  DEF OnlyWorker, Replace, persistent, CancelInv, NoneIsPassed,
      Lifecycle!Follows, IInv, TypeOK
<1>5. ASSUME NEW a \in Ids, row'[a] = "cancelled"
      PROVE  row[a] = "cancelled" \/ asked[a] # "no"
  <2>1. CASE WriteCancelled(w) /\ a = worker[w].job /\ row[a] \in NonTerminal
    BY <2>1 DEF CancelInv, FlagHasReason
  <2>2. CASE ~ WriteCancelled(w) \/ a # worker[w].job
    BY <1>5, <2>2
    DEF OnlyWorker, Replace, persistent, Lifecycle!Follows, IInv, TypeOK
  <2>3. CASE WriteCancelled(w) /\ a = worker[w].job /\ row[a] \notin NonTerminal
    BY <1>5, <2>3, RowsGoForward
  <2> QED
    BY <2>1, <2>2, <2>3
<1>6. \A v \in Workers : worker'[v].pc = "complete" => asked[worker'[v].job] # "in_time"
  BY <1>2 DEF CancelInv, NoneIsPassed
<1>7. \A v \in Workers : worker'[v].pc = "cancel" =>
          /\ row[worker'[v].job] # "none"
          /\ row[worker'[v].job] \in NonTerminal => asked[worker'[v].job] # "no"
  BY <1>2, WorkedOnIsAdded DEF CancelInv, FlagHasReason
<1> QED
  BY <1>1, <1>3, <1>4, <1>5, <1>6, <1>7, NobodyAsks
-----------------------------------------------------------------------------
(* The process.                                                            *)

\* A process that stops or dies takes the flags with it, and everything that
\* was in hand; what startup writes is a failure.
LEMMA ProcessCancels ==
  ASSUME IInv, IInv', CancelInv, [Lifecycle!Next]_row,
         ProcessGoesOn \/ Shutdown \/ Crash
  PROVE  CancelInv'
<1>1. UNCHANGED asked /\ cancelRequested' \subseteq cancelRequested
  BY DEF ProcessGoesOn, Stop, Restart, Serve, ReconcileOne, Shutdown, Crash,
         process, history
<1>2. ASSUME NEW a \in Ids, row'[a] \in {"completed", "cancelled"}
      PROVE  row'[a] = row[a]
  BY <1>2
  DEF ProcessGoesOn, Stop, Restart, Serve, ReconcileOne, Shutdown, Crash,
      persistent, IInv, TypeOK
<1>3. CASE Crash \/ Restart
  <2>1. /\ queue' = <<>>
        /\ \A v \in Workers : worker'[v].pc = "idle"
        /\ \A r \in Requests : request'[r].pc = "idle"
    BY <1>3 DEF Crash, Restart, IdleWorker, IdleRequest, IInv, Hands, QuietWhenDown
  <2>2. \A a \in Ids : ~ InHand(a)'
    BY <2>1 DEF InHand, Queued, Works, Submits, IInv, TypeOK
  <2>3. cancelRequested \subseteq Ids
    BY DEF IInv, TypeOK
  <2> QED
    BY <1>1, <1>2, <2>1, <2>2, <2>3, NobodyAsks
<1>4. CASE ~ Crash /\ ~ Restart
  <2>1. UNCHANGED <<queue, worker, request, cancelRequested>>
    BY <1>4 DEF ProcessGoesOn, Stop, Serve, ReconcileOne, Shutdown, process
  <2>2. \A a \in Ids : InHand(a)' => InHand(a)
    BY <2>1 DEF InHand, Queued, Works, Submits
  <2>3. \A v \in Workers : worker[v].pc = "cancel" => row[worker[v].job] # "none"
    BY WorkedOnIsAdded
  <2> QED
    BY <1>1, <1>2, <2>1, <2>2, <2>3, NobodyAsks
    DEF CancelInv, NoneIsPassed, FlagHasReason
<1> QED
  BY <1>3, <1>4
-----------------------------------------------------------------------------
\* The argument holds in every reachable state.
LEMMA NextCancelInv == IInv /\ IInv' /\ CancelInv /\ [Next]_vars => CancelInv'
<1> SUFFICES ASSUME IInv, IInv', CancelInv, [Next]_vars PROVE CancelInv'
  OBVIOUS
<1>1. [Lifecycle!Next]_row
  BY NextIsAStep
<1>2. CASE Next
  BY <1>1, <1>2, QuietRequestCancels, FlagCancels, CheckCancels,
     DiscardCancels, OtherWorkCancels, ProcessCancels
  DEF Next
<1>3. CASE UNCHANGED vars
  BY <1>3
  DEF vars, persistent, process, bounds, history, CancelInv, FlagIsKept,
      NoneIsPassed, OnlyAddedAreFlagged, FlagHasReason, InHand, Queued, Works,
      Submits, CancelInTimeIsHonoured, CancelledOnRequest
<1> QED
  BY <1>2, <1>3

\* Nothing is flagged at the start.
LEMMA InitCancelInv == Init => CancelInv
BY DEF Init, CancelInv, FlagIsKept, NoneIsPassed, OnlyAddedAreFlagged,
       FlagHasReason, CancelInTimeIsHonoured, CancelledOnRequest, IdleWorker,
       IdleRequest

\* The invariant of cancellation: a flag that was set in time is kept until
\* the worker has looked at it, and every flag has a client who asked.
THEOREM CancelInvHolds == Spec => []CancelInv
  BY InitCancelInv, NextCancelInv, IInvHolds, PTL DEF Spec

\* A cancellation that is flagged before the last checkpoint is honoured.
THEOREM CancelInTimeIsHonouredHolds == Spec => []CancelInTimeIsHonoured
<1>1. CancelInv => CancelInTimeIsHonoured
  BY DEF CancelInv
<1> QED
  BY <1>1, CancelInvHolds, PTL

\* An analysis ends cancelled only if a client asked for that analysis.
THEOREM CancelledOnRequestHolds == Spec => []CancelledOnRequest
<1>1. CancelInv => CancelledOnRequest
  BY DEF CancelInv
<1> QED
  BY <1>1, CancelInvHolds, PTL

\* A cancellation in time is honoured, and none is made without a request.
THEOREM CancellationsAreExactHolds == Spec => []CancellationsAreExact
<1>1. CancelInTimeIsHonoured /\ CancelledOnRequest => CancellationsAreExact
  BY DEF CancellationsAreExact
<1> QED
  BY <1>1, CancelInTimeIsHonouredHolds, CancelledOnRequestHolds, PTL
=============================================================================
