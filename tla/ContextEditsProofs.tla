-------------------------- MODULE ContextEditsProofs --------------------------
(***************************************************************************)
(* Proofs about the row of an analysis that overlapping requests edit:     *)
(* while no update is torn it is one that requests alone would have        *)
(* written, the count of model calls is never lost, and a deleted analysis *)
(* stays deleted; for any number of threads and changes.                   *)
(***************************************************************************)
EXTENDS ContextEdits, FiniteSetTheorems, TLAPS

\* What TypeOK says of requests, and of requests at each step.
ThreadRecords ==
    [pc : PCs, op : Ops, copy : Rows \cup {Gone}, base : Rows \cup {Gone},
     first : BOOLEAN, change : Changes \cup {NoChange}]

CallPCs   == {"call", "augment", "augment_write", "augment_update", "record"}
WritePCs  == {"infer_write", "augment_write", "write"}
UpdatePCs == {"infer_update", "augment_update", "update"}

\* A request that writes has a row to write, and one that changes has a change.
IsThread(x) ==
    /\ x \in ThreadRecords
    /\ x.change # NoChange <=> x.op \notin Reads
    /\ x.pc \in {"read", "write", "update"} => x.op \notin Reads
    /\ x.pc \in CallPCs => x.op = "context" /\ x.first
    /\ x.pc \in WritePCs \cup UpdatePCs => x.copy \in Rows

ThreadsOK == \A t \in Threads : IsThread(thread[t])

\* The row without the count is one that requests alone would have written.
Consistent(r) ==
    /\ r.version = IF r.context = NoContext THEN 0
                   ELSE 1 + Cardinality(r.context.edits)
    /\ r.answered \subseteq r.context.edits
    /\ r.finalized => r.context # NoContext

\* So are the copies that requests have, before and after their change.
CopyIsConsistent(x) ==
    /\ x.pc \in WritePCs \cup UpdatePCs => Consistent(x.copy)
    /\ x.pc = "infer_write" => x.copy.context = NoContext
    /\ x.pc = "augment_write" => x.copy.version = 1 /\ ~ x.copy.finalized
    /\ x.pc = "write" /\ x.op \in Edits => x.copy.context # NoContext

AllConsistent ==
    ~ torn => /\ row # Gone => Consistent(row)
              /\ \A t \in Threads : CopyIsConsistent(thread[t])

\* A change is made by one request, and is in no row before that request has
\* made it.
ChangesAreFresh ==
    /\ \A t, u \in Threads :
           thread[t].change # NoChange /\ thread[t].change = thread[u].change
               => t = u
    /\ \A t \in Threads : thread[t].change <= changes
    /\ row # Gone => \A e \in row.context.edits :
           e <= changes /\ \A t \in Threads : thread[t].change # e
    /\ \A u \in Threads : thread[u].pc \in WritePCs \cup UpdatePCs =>
           \A e \in thread[u].copy.context.edits :
               /\ e <= changes
               /\ \A t \in Threads :
                      thread[t].change = e => t = u /\ thread[u].pc = "update"

IInv ==
    /\ TypeOK
    /\ ThreadsOK
    /\ ChangesAreFresh
    /\ AllConsistent
    /\ CountIsKept
    /\ DeletedForGood
-----------------------------------------------------------------------------
(* Rows.                                                                   *)

Columns == {"context", "version", "answered", "finalized", "rules", "review",
            "count"}

\* A deleted analysis has no row, and a new one has.
LEMMA GoneIsNoRow == Gone \notin Rows /\ Fresh \in Rows
BY DEF Gone, Fresh, Rows, NoContext, NoChange

\* A merge, column by column.
LEMMA MergedIs ==
    ASSUME NEW new \in Rows, NEW base \in Rows, NEW old \in Rows
    PROVE  Merged(new, base, old) =
              [context   |-> Column(new.context, base.context, old.context),
               version   |-> Column(new.version, base.version, old.version),
               answered  |-> Column(new.answered, base.answered, old.answered),
               finalized |-> Column(new.finalized, base.finalized, old.finalized),
               rules     |-> Column(new.rules, base.rules, old.rules),
               review    |-> Column(new.review, base.review, old.review),
               count     |-> old.count]
<1>1. DOMAIN old = Columns
  BY DEF Rows, Columns
<1>2. Merged(new, base, old) =
          [c \in Columns |-> IF c = "count" THEN old[c]
                             ELSE Column(new[c], base[c], old[c])]
  BY <1>1 DEF Merged
<1> QED BY <1>2 DEF Columns

\* It is a row, with the count of the one it meets, and its context is one of
\* the two.
LEMMA MergedIsRow ==
    ASSUME NEW new \in Rows, NEW base \in Rows, NEW old \in Rows
    PROVE  /\ Merged(new, base, old) \in Rows
           /\ Merged(new, base, old).count = old.count
           /\ Merged(new, base, old).context \in {new.context, old.context}
<1> DEFINE m == Merged(new, base, old)
<1>1. /\ m.context = Column(new.context, base.context, old.context)
      /\ m.count = old.count
  BY MergedIs
<1>2. m \in Rows
  BY MergedIs DEF Rows, Column
<1> QED BY <1>1, <1>2 DEF Column

\* An update that is not torn leaves what the request wanted.
LEMMA MergedIsNew ==
    ASSUME NEW new \in Rows, NEW base \in Rows, NEW old \in Rows,
           SameButCount(old, base)
    PROVE  /\ Merged(new, base, old).context = new.context
           /\ Merged(new, base, old).version = new.version
           /\ Merged(new, base, old).answered = new.answered
           /\ Merged(new, base, old).finalized = new.finalized
<1>1. /\ old.context = base.context /\ old.version = base.version
      /\ old.answered = base.answered /\ old.finalized = base.finalized
  BY DEF SameButCount, Rows
<1> QED BY <1>1, MergedIs DEF Column

\* A request that has none.
LEMMA IdleIsThread ==
    /\ IsThread(IdleThread) /\ CopyIsConsistent(IdleThread)
    /\ IdleThread.pc = "idle" /\ IdleThread.change = NoChange
BY DEF IdleThread, IsThread, ThreadRecords, CopyIsConsistent, PCs, Ops, Edits,
       RowChanges, Reads, CallPCs, WritePCs, UpdatePCs, NoChange

\* The types hold at first.
LEMMA InitTypeOK == Init => TypeOK /\ ThreadsOK
<1> SUFFICES ASSUME Init PROVE TypeOK /\ ThreadsOK
  OBVIOUS
<1>1. thread \in [Threads -> ThreadRecords] /\ ThreadsOK
  BY IdleIsThread DEF Init, ThreadsOK, IsThread
<1>2. row \in Rows \cup {Gone}
  BY GoneIsNoRow DEF Init
<1>3. torn \in BOOLEAN /\ deleted \in BOOLEAN
  BY DEF Init
<1> QED
  BY <1>1, <1>2, <1>3, MaxChangesIsNatural
  DEF Init, TypeOK, ThreadsOK, IsThread, ThreadRecords, CallPCs
-----------------------------------------------------------------------------
(* What a step does to its request.                                        *)

\* The five ways a request goes on.
GoesTo(t, pc)      == [thread[t] EXCEPT !.pc = pc, !.copy = Gone, !.base = Gone]
LooksAt(t)         == [thread[t] EXCEPT !.pc = "infer",
                                        !.first = row.context = NoContext]
CopiesTo(t, pc)    == [thread[t] EXCEPT !.pc = pc, !.copy = row]
LoadsTo(t, new, pc) ==
    [thread[t] EXCEPT !.pc = pc, !.copy = new, !.base = row]
Arrived(op) ==
    [IdleThread EXCEPT !.op = op,
        !.pc = CASE op = "context" -> "get"
                 [] op \in Edits \cup {"questions"} -> "infer"
                 [] op \in RowChanges -> "read",
        !.change = IF op \in Reads THEN NoChange ELSE changes + 1]

\* Their fields.
LEMMA GoesToIs ==
    ASSUME NEW t, IsThread(thread[t]), NEW pc \in PCs
    PROVE  /\ GoesTo(t, pc) \in ThreadRecords /\ GoesTo(t, pc).pc = pc
           /\ GoesTo(t, pc).op = thread[t].op
           /\ GoesTo(t, pc).first = thread[t].first
           /\ GoesTo(t, pc).change = thread[t].change
BY DEF IsThread, ThreadRecords, GoesTo

\* The same for the first look at the context.
LEMMA LooksAtIs ==
    ASSUME NEW t, IsThread(thread[t])
    PROVE  /\ LooksAt(t) \in ThreadRecords /\ LooksAt(t).pc = "infer"
           /\ LooksAt(t).op = thread[t].op
           /\ LooksAt(t).change = thread[t].change
BY DEF IsThread, ThreadRecords, LooksAt, PCs

\* The same for a copy of the row.
LEMMA CopiesToIs ==
    ASSUME NEW t, IsThread(thread[t]), NEW pc \in PCs, row \in Rows
    PROVE  /\ CopiesTo(t, pc) \in ThreadRecords /\ CopiesTo(t, pc).pc = pc
           /\ CopiesTo(t, pc).copy = row
           /\ CopiesTo(t, pc).op = thread[t].op
           /\ CopiesTo(t, pc).first = thread[t].first
           /\ CopiesTo(t, pc).change = thread[t].change
BY DEF IsThread, ThreadRecords, CopiesTo

\* The same for what replace is given.
LEMMA LoadsToIs ==
    ASSUME NEW t, IsThread(thread[t]), NEW pc \in PCs, NEW new \in Rows,
           row \in Rows \cup {Gone}
    PROVE  /\ LoadsTo(t, new, pc) \in ThreadRecords /\ LoadsTo(t, new, pc).pc = pc
           /\ LoadsTo(t, new, pc).copy = new /\ LoadsTo(t, new, pc).base = row
           /\ LoadsTo(t, new, pc).op = thread[t].op
           /\ LoadsTo(t, new, pc).first = thread[t].first
           /\ LoadsTo(t, new, pc).change = thread[t].change
BY DEF IsThread, ThreadRecords, LoadsTo

\* The same for a request that arrives.
LEMMA ArrivedIs ==
    ASSUME NEW op \in Ops, changes \in 0 .. MaxChanges,
           op \notin Reads => changes < MaxChanges
    PROVE  /\ Arrived(op) \in ThreadRecords /\ Arrived(op).op = op
           /\ Arrived(op).pc \in {"get", "infer", "read"}
           /\ Arrived(op).pc = "read" => op \notin Reads
           /\ Arrived(op).change = IF op \in Reads THEN NoChange ELSE changes + 1
<1>1. Gone \in Rows \cup {Gone} /\ MaxChanges \in Nat
  BY MaxChangesIsNatural
<1>2. (CASE op = "context" -> "get"
         [] op \in Edits \cup {"questions"} -> "infer"
         [] op \in RowChanges -> "read") \in {"get", "infer", "read"}
  BY DEF Ops, Edits, RowChanges, Reads
<1>3. (CASE op = "context" -> "get"
         [] op \in Edits \cup {"questions"} -> "infer"
         [] op \in RowChanges -> "read") = "read" => op \notin Reads
  BY DEF Ops, Edits, RowChanges, Reads
<1>4. (IF op \in Reads THEN NoChange ELSE changes + 1) \in Changes \cup {NoChange}
  BY <1>1 DEF Changes, NoChange
<1> QED
  BY <1>1, <1>2, <1>3, <1>4 DEF Arrived, IdleThread, ThreadRecords, PCs
-----------------------------------------------------------------------------
(* What a request wants stored.                                            *)

\* The context that was inferred first.
LEMMA InferredIs ==
    ASSUME NEW c \in Rows
    PROVE  LET n == [c EXCEPT !.context.source = "inferred", !.version = 1] IN
           /\ n \in Rows /\ n.context # NoContext
           /\ n.context.edits = c.context.edits
           /\ n.version = 1 /\ n.answered = c.answered
           /\ n.finalized = c.finalized
BY DEF Rows, NoContext

\* The context of a model.
LEMMA RefinedIs ==
    ASSUME NEW c \in Rows
    PROVE  LET n == [c EXCEPT !.context = [source |-> "model", edits |-> {}]] IN
           /\ n \in Rows /\ n.context # NoContext
           /\ n.context.edits = {}
           /\ n.version = c.version /\ n.answered = c.answered
           /\ n.finalized = c.finalized
BY DEF Rows, NoContext

\* An edit, or an answer.
LEMMA ConfirmedIs ==
    ASSUME NEW c \in Rows, NEW e \in Changes,
           NEW n \in {ConfirmFields(c, e), AnswerQuestion(c, e)}
    PROVE  /\ n \in Rows
           /\ n.context.edits = c.context.edits \cup {e}
           /\ n.context.source = c.context.source
           /\ n.version = c.version + 1
           /\ n.answered \subseteq c.answered \cup {e}
           /\ n.finalized = c.finalized
<1> DEFINE x == [c.context EXCEPT !.edits = c.context.edits \cup {e}]
           m == [c EXCEPT !.context = x, !.version = c.version + 1]
<1>1. /\ x.edits = c.context.edits \cup {e} /\ x.source = c.context.source
      /\ x \in [source : {"none", "inferred", "model"}, edits : SUBSET Changes]
  BY DEF Rows
<1>2. ConfirmFields(c, e) = m
  BY DEF ConfirmFields, Rows
<1> HIDE DEF x
<1>3. /\ m \in Rows /\ m.context = x /\ m.version = c.version + 1
      /\ m.answered = c.answered /\ m.finalized = c.finalized
  <2>1. c.version + 1 \in Nat
    BY DEF Rows
  <2> QED BY <1>1, <2>1 DEF Rows
<1>4. AnswerQuestion(c, e) = [m EXCEPT !.answered = m.answered \cup {e}]
  BY <1>2 DEF AnswerQuestion
<1> HIDE DEF m
<1>5. CASE n = m
  BY <1>1, <1>3, <1>5
<1>6. CASE n = [m EXCEPT !.answered = m.answered \cup {e}]
  <2>1. /\ n \in Rows /\ n.context = m.context /\ n.version = m.version
        /\ n.answered = m.answered \cup {e} /\ n.finalized = m.finalized
    BY <1>3, <1>6 DEF Rows
  <2> QED BY <1>1, <1>3, <2>1
<1> QED BY <1>2, <1>4, <1>5, <1>6

\* A finalization.
LEMMA FinalizedIs ==
    ASSUME NEW c \in Rows
    PROVE  LET n == FinalizeContext(c) IN
           /\ n \in Rows /\ n.context = c.context /\ n.version = c.version
           /\ n.answered = c.answered
BY DEF FinalizeContext, Rows

\* What a client's change makes of a row; a rule is the client's choice.
LEMMA ChangedIs ==
    ASSUME NEW t, IsThread(thread[t]), thread[t].pc = "write",
           NEW new \in Changed(t)
    PROVE  LET c == thread[t].copy
               e == thread[t].change IN
           /\ new \in Rows
           /\ \/ /\ thread[t].op \in Edits
                 /\ new.context.edits = c.context.edits \cup {e}
                 /\ new.context.source = c.context.source
                 /\ new.version = c.version + 1
                 /\ new.answered \subseteq c.answered \cup {e}
                 /\ new.finalized = c.finalized
              \/ /\ new.context = c.context /\ new.version = c.version
                 /\ new.answered = c.answered
                 /\ new.finalized = c.finalized \/ thread[t].op \in Edits
<1> DEFINE c == thread[t].copy
           e == thread[t].change
<1>0. c \in Rows /\ e \in Changes /\ thread[t].op \in Ops \ Reads
  BY DEF IsThread, ThreadRecords, WritePCs
<1>1. CASE thread[t].op \in {"put", "answer"}
  <2>1. new \in {ConfirmFields(c, e), AnswerQuestion(c, e)}
    BY <1>1 DEF Changed
  <2> QED BY <1>0, <1>1, <2>1, ConfirmedIs DEF Edits
<1>2. CASE thread[t].op = "finalize"
  <2>1. new = FinalizeContext(c)
    BY <1>2 DEF Changed
  <2> QED BY <1>0, <1>2, <2>1, FinalizedIs DEF Edits
<1>3. CASE thread[t].op \in RowChanges
  <2>1. \E r : new \in {SetReview(c, e), CreateRule(c, e), ExecuteRule(c),
                        DeleteRule(c, r)}
    BY <1>3 DEF Changed, RowChanges
  <2>2. ASSUME NEW r, new \in {SetReview(c, e), CreateRule(c, e), ExecuteRule(c),
                               DeleteRule(c, r)}
        PROVE  /\ new \in Rows /\ new.context = c.context
               /\ new.version = c.version /\ new.answered = c.answered
               /\ new.finalized = c.finalized
    BY <1>0, <2>2 DEF SetReview, CreateRule, ExecuteRule, DeleteRule, Rows
  <2> QED BY <2>1, <2>2
<1> QED BY <1>0, <1>1, <1>2, <1>3 DEF Ops, Edits
-----------------------------------------------------------------------------
(* The kinds of step.                                                      *)

Stays == UNCHANGED <<row, changes, recorded, torn, deleted>>

Becomes(t, x) == thread' = [thread EXCEPT ![t] = x]

\* A request ends, or goes on without the row.
MovesOn(t, x) ==
    \/ x = IdleThread
    \/ x = LooksAt(t)
    \/ x = GoesTo(t, "read") /\ thread[t].op \in Edits
    \/ \E pc \in {"call", "augment", "record"} :
           x = GoesTo(t, pc) /\ thread[t].op = "context" /\ thread[t].first

\* A request takes a copy.
TakesCopy(t, pc) ==
    /\ row \in Rows
    /\ thread[t].pc = CASE pc = "infer_write" -> "infer"
                        [] pc = "augment_write" -> "augment"
                        [] pc = "write" -> "read"
    /\ pc = "infer_write" => row.context = NoContext
    /\ pc = "augment_write" => row.version = 1 /\ ~ row.finalized
    /\ pc = "write" /\ thread[t].op \in Edits => row.context # NoContext

\* A request gives replace what it wants.
Wants(t, new, pc) ==
    LET c == thread[t].copy IN
    \/ /\ thread[t].pc = "infer_write" /\ pc = "infer_update"
       /\ new = [c EXCEPT !.context.source = "inferred", !.version = 1]
    \/ /\ thread[t].pc = "augment_write" /\ pc = "augment_update"
       /\ new = [c EXCEPT !.context = [source |-> "model", edits |-> {}]]
    \/ thread[t].pc = "write" /\ pc = "update" /\ new \in Changed(t)

\* A call is recorded, if the row is still there.
Recorded ==
    \/ UNCHANGED <<row, recorded>>
    \/ /\ row # Gone
       /\ row' = [row EXCEPT !.count = @ + 1]
       /\ recorded' = recorded + 1

\* The kinds of step a request makes.
Moving(t) == Stays /\ \E x : MovesOn(t, x) /\ Becomes(t, x)

Arriving(t) ==
    /\ UNCHANGED <<row, recorded, torn, deleted>>
    /\ thread[t].pc = "idle"
    /\ \E op \in Ops : /\ op \notin Reads => changes < MaxChanges
                       /\ changes' = IF op \in Reads THEN changes ELSE changes + 1
                       /\ Becomes(t, Arrived(op))

Copying(t) ==
    Stays /\ \E pc \in WritePCs : TakesCopy(t, pc) /\ Becomes(t, CopiesTo(t, pc))

Loading(t) ==
    Stays /\ \E new, pc : Wants(t, new, pc) /\ Becomes(t, LoadsTo(t, new, pc))

Updating(t) ==
    /\ Updates(t)
    /\ thread[t].pc \in UpdatePCs
    /\ \E x : /\ MovesOn(t, x) /\ Becomes(t, x) /\ x # LooksAt(t)
              /\ thread[t].pc = "update" => x = IdleThread

Recording(t) ==
    Recorded /\ Becomes(t, IdleThread) /\ UNCHANGED <<changes, torn, deleted>>

StepOf(t) ==
    \/ Moving(t) \/ Arriving(t) \/ Copying(t) \/ Loading(t) \/ Updating(t)
    \/ Recording(t)

\* What follows an inference is an end, an edit's read or the first call.
LEMMA AfterInferIs ==
    ASSUME NEW t, IsThread(thread[t]), NEW pc \in AfterInfer(t), Continue(t, pc)
    PROVE  \E x : MovesOn(t, x) /\ Becomes(t, x) /\ x # LooksAt(t)
<1>1. CASE pc = "idle"
  <2>1. Becomes(t, IdleThread)
    BY <1>1 DEF Continue, Ends, Becomes
  <2>2. IdleThread # LooksAt(t)
    BY IdleIsThread, LooksAtIs
  <2> QED BY <2>1, <2>2 DEF MovesOn
<1>2. CASE pc # "idle"
  <2>1. Becomes(t, GoesTo(t, pc))
    BY <1>2 DEF Continue, Goes, Becomes, GoesTo
  <2>2. MovesOn(t, GoesTo(t, pc)) /\ pc \in {"read", "call"}
    BY <1>2 DEF MovesOn, AfterInfer
  <2>3. GoesTo(t, pc) # LooksAt(t)
    BY <2>2, GoesToIs, LooksAtIs DEF PCs
  <2> QED BY <2>1, <2>2, <2>3
<1> QED BY <1>1, <1>2

\* Every step is of one of these kinds, or deletes the row, or none.
LEMMA StepsAre ==
    ASSUME TypeOK, ThreadsOK, [Next]_vars
    PROVE  \/ UNCHANGED vars
           \/ row' = Gone /\ deleted' /\ UNCHANGED <<thread, changes, recorded, torn>>
           \/ \E t \in Threads : StepOf(t)
<1> SUFFICES ASSUME NEW t \in Threads,
                    \/ \E op \in Ops : Arrive(t, op)
                    \/ Get(t) \/ Infer(t) \/ InferWrite(t) \/ InferUpdate(t)
                    \/ Call(t) \/ Augment(t) \/ AugmentWrite(t) \/ AugmentUpdate(t)
                    \/ Record(t) \/ Read(t) \/ Write(t) \/ FinalUpdate(t)
             PROVE  StepOf(t)
  BY DEF Next, Delete
<1>0. /\ IsThread(thread[t]) /\ thread[t] \in ThreadRecords
      /\ thread \in [Threads -> ThreadRecords]
      /\ row \in Rows \cup {Gone}
  BY DEF ThreadsOK, IsThread, TypeOK, ThreadRecords
<1>1. ASSUME NEW op \in Ops, Arrive(t, op) PROVE StepOf(t)
  BY <1>1 DEF Arrive, StepOf, Arriving, Becomes, Arrived, history
<1>2. CASE Get(t)
  <2>1. CASE Ends(t)
    BY <1>2, <2>1
    DEF Get, OnlyThread, history, Ends, StepOf, Moving, Stays, MovesOn, Becomes
  <2>2. CASE Becomes(t, LooksAt(t))
    BY <1>2, <2>2 DEF Get, OnlyThread, history, StepOf, Moving, Stays, MovesOn
  <2>3. Ends(t) \/ Becomes(t, LooksAt(t))
    BY <1>0, <1>2 DEF Get, Becomes, LooksAt, ThreadRecords
  <2> QED BY <2>1, <2>2, <2>3
<1>3. CASE Infer(t)
  <2>1. CASE Ends(t)
    BY <1>3, <2>1
    DEF Infer, OnlyThread, history, Ends, StepOf, Moving, Copying, Stays, MovesOn,
        Becomes
  <2>2. CASE row \in Rows /\ row.context = NoContext /\ Copies(t, "infer_write")
    BY <1>3, <2>2
    DEF Infer, OnlyThread, history, Copies, StepOf, Moving, Copying, Stays,
        TakesCopy, Becomes, CopiesTo, WritePCs
  <2>3. CASE \E pc \in AfterInfer(t) : Continue(t, pc)
    <3>1. \E x : MovesOn(t, x) /\ Becomes(t, x)
      BY <1>0, <2>3, AfterInferIs
    <3> QED BY <1>3, <3>1
      DEF Infer, OnlyThread, history, StepOf, Moving, Copying, Stays
  <2> QED BY <1>0, <1>3, <2>1, <2>2, <2>3 DEF Infer, Readable
<1>4. CASE InferWrite(t)
  BY <1>4
  DEF InferWrite, InferContext, Load, OnlyThread, history, StepOf, Loading,
      Stays, Wants, Becomes, LoadsTo
<1>5. CASE InferUpdate(t)
  <2>1. \E x : MovesOn(t, x) /\ Becomes(t, x) /\ x # LooksAt(t)
    BY <1>0, <1>5, AfterInferIs DEF InferUpdate
  <2> QED BY <1>5, <2>1 DEF InferUpdate, StepOf, Updating, UpdatePCs
<1>6. CASE Call(t)
  <2>1. thread[t].op = "context" /\ thread[t].first
    BY <1>0, <1>6 DEF Call, IsThread, CallPCs
  <2>2. \E x : MovesOn(t, x) /\ Becomes(t, x)
    <3>1. CASE Ends(t)
      BY <3>1 DEF Ends, MovesOn, Becomes
    <3>2. CASE \E pc \in {"augment", "record"} : Goes(t, pc)
      <4>1. PICK pc \in {"augment", "record"} : Goes(t, pc)
        BY <3>2
      <4>2. Becomes(t, GoesTo(t, pc))
        BY <4>1 DEF Goes, GoesTo, Becomes
      <4>3. MovesOn(t, GoesTo(t, pc))
        BY <2>1 DEF MovesOn
      <4> QED BY <4>2, <4>3
    <3> QED BY <1>6, <3>1, <3>2 DEF Call
  <2> QED BY <1>6, <2>2 DEF Call, StepOf, Moving, Stays
<1>7. CASE Augment(t)
  <2>1. CASE Ends(t)
    BY <1>7, <2>1
    DEF Augment, OnlyThread, history, Ends, StepOf, Moving, Copying, Stays,
        MovesOn, Becomes
  <2>2. CASE /\ row \in Rows /\ row.version = 1 /\ ~ row.finalized
             /\ Copies(t, "augment_write")
    <3>1. Stays
      BY <1>7 DEF Augment, OnlyThread, history, Stays
    <3>2. TakesCopy(t, "augment_write")
      BY <1>7, <2>2 DEF Augment, TakesCopy
    <3>3. Becomes(t, CopiesTo(t, "augment_write"))
      BY <2>2 DEF Copies, Becomes, CopiesTo
    <3> QED BY <3>1, <3>2, <3>3 DEF StepOf, Copying, WritePCs
  <2> QED BY <1>0, <1>7, <2>1, <2>2 DEF Augment, ReadsRow, Readable
<1>8. CASE AugmentWrite(t)
  BY <1>8
  DEF AugmentWrite, AugmentContext, Load, OnlyThread, history, StepOf, Loading,
      Stays, Wants, Becomes, LoadsTo
<1>9. CASE AugmentUpdate(t)
  <2>1. thread[t].op = "context" /\ thread[t].first
    BY <1>0, <1>9 DEF AugmentUpdate, IsThread, CallPCs
  <2>2. \E x : MovesOn(t, x) /\ Becomes(t, x) /\ x # LooksAt(t)
    <3>1. /\ Becomes(t, IdleThread) \/ Becomes(t, GoesTo(t, "record"))
      BY <1>9 DEF AugmentUpdate, Goes, Ends, GoesTo, Becomes
    <3>2. /\ MovesOn(t, IdleThread) /\ MovesOn(t, GoesTo(t, "record"))
          /\ IdleThread # LooksAt(t) /\ GoesTo(t, "record") # LooksAt(t)
      BY <1>0, <2>1, IdleIsThread, GoesToIs, LooksAtIs DEF MovesOn, PCs
    <3> QED BY <3>1, <3>2
  <2> QED BY <1>9, <2>2 DEF AugmentUpdate, StepOf, Updating, UpdatePCs
<1>10. CASE Record(t)
  BY <1>10 DEF Record, Ends, StepOf, Recording, Recorded, Becomes
<1>11. CASE Read(t)
  <2>1. CASE Ends(t)
    BY <1>11, <2>1
    DEF Read, OnlyThread, history, Ends, StepOf, Moving, Copying, Stays, MovesOn,
        Becomes
  <2>2. CASE ~ Ends(t)
    BY <1>0, <1>11, <2>2
    DEF Read, Readable, OnlyThread, history, Copies, StepOf, Moving, Copying,
        Stays, TakesCopy, Becomes, CopiesTo, WritePCs
  <2> QED BY <2>1, <2>2
<1>12. CASE Write(t)
  <2>1. PICK new \in Changed(t) : Becomes(t, LoadsTo(t, new, "update"))
    BY <1>12 DEF Write, Load, Becomes, LoadsTo
  <2>2. Wants(t, new, "update")
    BY <1>12, <2>1 DEF Wants, Write
  <2> QED BY <1>12, <2>1, <2>2
    DEF Write, OnlyThread, history, StepOf, Loading, Stays
<1>13. CASE FinalUpdate(t)
  <2>1. \E x : MovesOn(t, x) /\ Becomes(t, x) /\ x # LooksAt(t) /\ x = IdleThread
    BY <1>0, <1>13, IdleIsThread, LooksAtIs
    DEF FinalUpdate, Ends, MovesOn, Becomes
  <2> QED BY <1>13, <2>1 DEF FinalUpdate, StepOf, Updating, UpdatePCs
<1> QED
  BY <1>1, <1>2, <1>3, <1>4, <1>5, <1>6, <1>7, <1>8, <1>9, <1>10, <1>11, <1>12,
     <1>13
-----------------------------------------------------------------------------
(* Types.                                                                  *)

\* A request that moves on is one still, with nothing to write.
LEMMA MovesOnIs ==
    ASSUME NEW t, IsThread(thread[t]), NEW x, MovesOn(t, x)
    PROVE  /\ IsThread(x) /\ x.pc \notin WritePCs \cup UpdatePCs
           /\ x.change \in {NoChange, thread[t].change}
<1>1. CASE x = IdleThread
  BY <1>1, IdleIsThread DEF WritePCs, UpdatePCs
<1>2. CASE x = LooksAt(t)
  BY <1>2, LooksAtIs DEF IsThread, CallPCs, WritePCs, UpdatePCs
<1>3. CASE x = GoesTo(t, "read") /\ thread[t].op \in Edits
  BY <1>3, GoesToIs DEF IsThread, CallPCs, WritePCs, UpdatePCs, PCs, Edits, Reads
<1>4. ASSUME NEW pc \in {"call", "augment", "record"}, x = GoesTo(t, pc),
             thread[t].op = "context", thread[t].first
      PROVE  /\ IsThread(x) /\ x.pc \notin WritePCs \cup UpdatePCs
             /\ x.change \in {NoChange, thread[t].change}
  BY <1>4, GoesToIs DEF IsThread, CallPCs, WritePCs, UpdatePCs, PCs
<1> QED BY <1>1, <1>2, <1>3, <1>4 DEF MovesOn

\* A request that arrives is one, with nothing to write.
LEMMA ArrivedIsThread ==
    ASSUME TypeOK, NEW op \in Ops, op \notin Reads => changes < MaxChanges
    PROVE  /\ IsThread(Arrived(op))
           /\ Arrived(op).pc \notin WritePCs \cup UpdatePCs
           /\ Arrived(op).change = IF op \in Reads THEN NoChange ELSE changes + 1
<1>1. changes \in 0 .. MaxChanges
  BY DEF TypeOK
<1> QED
  BY <1>1, ArrivedIs, MaxChangesIsNatural
  DEF IsThread, CallPCs, WritePCs, UpdatePCs, NoChange

\* So is a request with a copy.
LEMMA CopiesToIsThread ==
    ASSUME NEW t, IsThread(thread[t]), NEW pc \in WritePCs, TakesCopy(t, pc)
    PROVE  IsThread(CopiesTo(t, pc))
<1>1. pc \in PCs
  BY DEF WritePCs, PCs
<1>2. /\ pc = "write" => thread[t].pc = "read"
      /\ pc = "augment_write" => thread[t].pc = "augment"
  BY DEF TakesCopy
<1> QED
  BY <1>1, <1>2, CopiesToIs DEF TakesCopy, IsThread, CallPCs, WritePCs, UpdatePCs

\* And one that has given replace its row.
LEMMA LoadsToIsThread ==
    ASSUME NEW t, IsThread(thread[t]), NEW new, NEW pc, Wants(t, new, pc),
           row \in Rows \cup {Gone}
    PROVE  /\ new \in Rows /\ pc \in UpdatePCs /\ pc \in PCs
           /\ thread[t].pc \in WritePCs /\ thread[t].copy \in Rows
           /\ IsThread(LoadsTo(t, new, pc))
<1>1. new \in Rows /\ pc \in UpdatePCs /\ thread[t].pc \in WritePCs
  BY InferredIs, RefinedIs, ChangedIs DEF Wants, IsThread, WritePCs, UpdatePCs
<1>2. pc \in PCs
  BY <1>1 DEF UpdatePCs, PCs
<1>3. /\ pc = "update" => thread[t].pc = "write"
      /\ pc = "augment_update" => thread[t].pc = "augment_write"
  BY DEF Wants
<1>4. IsThread(LoadsTo(t, new, pc))
  BY <1>1, <1>2, <1>3, LoadsToIs DEF IsThread, CallPCs, WritePCs, UpdatePCs
<1> QED BY <1>1, <1>2, <1>4 DEF IsThread

\* A step leaves a request a request.
LEMMA StepIsThread ==
    ASSUME TypeOK, NEW t \in Threads, IsThread(thread[t]), StepOf(t)
    PROVE  \E x : IsThread(x) /\ Becomes(t, x)
<1>0. row \in Rows \cup {Gone}
  BY DEF TypeOK
<1>1. CASE Moving(t)
  BY <1>1, MovesOnIs DEF Moving
<1>2. CASE Arriving(t)
  BY <1>2, ArrivedIsThread DEF Arriving
<1>3. CASE Copying(t)
  BY <1>3, CopiesToIsThread DEF Copying
<1>4. CASE Loading(t)
  BY <1>0, <1>4, LoadsToIsThread DEF Loading
<1>5. CASE Updating(t)
  BY <1>5, MovesOnIs DEF Updating
<1>6. CASE Recording(t)
  BY <1>6, IdleIsThread DEF Recording
<1> QED BY <1>1, <1>2, <1>3, <1>4, <1>5, <1>6 DEF StepOf

\* What an update does to the row.
LEMMA UpdateIs ==
    ASSUME TypeOK, NEW t \in Threads, IsThread(thread[t]), Updating(t)
    PROVE  \/ row' = row
           \/ /\ row \in Rows /\ thread[t].base \in Rows /\ thread[t].copy \in Rows
              /\ row' = Merged(thread[t].copy, thread[t].base, row)
              /\ row' \in Rows /\ row'.count = row.count
              /\ row'.context \in {thread[t].copy.context, row.context}
<1>1. row \in Rows \cup {Gone} /\ thread[t].copy \in Rows
      /\ thread[t].base \in Rows \cup {Gone}
  BY DEF TypeOK, Updating, IsThread, ThreadRecords
<1>2. CASE row = Gone \/ thread[t].base = Gone
  BY <1>2 DEF Updating, Updates, Update
<1>3. CASE ~ (row = Gone \/ thread[t].base = Gone)
  <2>1. row' = Merged(thread[t].copy, thread[t].base, row)
    BY <1>3 DEF Updating, Updates, Update
  <2> QED BY <1>1, <1>3, <2>1, MergedIsRow
<1> QED BY <1>2, <1>3

\* What a record does to the row.
LEMMA RecordIs ==
    ASSUME TypeOK, NEW t \in Threads, Recording(t)
    PROVE  \/ row' = row /\ recorded' = recorded
           \/ /\ row \in Rows /\ row' \in Rows
              /\ row'.count = row.count + 1 /\ recorded' = recorded + 1
              /\ row'.context = row.context /\ row'.version = row.version
              /\ row'.answered = row.answered /\ row'.finalized = row.finalized
<1>1. row \in Rows \cup {Gone}
  BY DEF TypeOK
<1> QED BY <1>1 DEF Recording, Recorded, Rows

\* No step but a call counts one.
LEMMA CallsAreKept == TypeOK /\ [Next]_vars => calls' \in Nat
<1> SUFFICES ASSUME TypeOK, [Next]_vars PROVE calls' \in {calls, calls + 1}
  BY DEF TypeOK
<1> USE DEF history, OnlyThread
<1>1. CASE UNCHANGED vars
  BY <1>1 DEF vars
<1>2. ASSUME NEW t \in Threads,
             \/ \E op \in Ops : Arrive(t, op)
             \/ Get(t) \/ Infer(t) \/ InferWrite(t) \/ Augment(t)
             \/ AugmentWrite(t) \/ Read(t) \/ Write(t) \/ Delete(t)
      PROVE  calls' = calls
  BY <1>2
  DEF Arrive, Get, Infer, InferWrite, Augment, AugmentWrite, Read, Write, Delete
<1>3. ASSUME NEW t \in Threads,
             InferUpdate(t) \/ AugmentUpdate(t) \/ FinalUpdate(t) \/ Record(t)
      PROVE  calls' = calls
  BY <1>3 DEF InferUpdate, AugmentUpdate, FinalUpdate, Record, Updates
<1>4. ASSUME NEW t \in Threads, Call(t) PROVE calls' \in {calls, calls + 1}
  BY <1>4 DEF Call
<1> QED BY <1>1, <1>2, <1>3, <1>4 DEF Next

\* Types are kept.
LEMMA StepTypes ==
    ASSUME TypeOK, ThreadsOK, NEW t \in Threads, StepOf(t), calls' \in Nat
    PROVE  TypeOK' /\ ThreadsOK'
<1>0. IsThread(thread[t]) /\ thread \in [Threads -> ThreadRecords]
  BY DEF ThreadsOK, TypeOK, ThreadRecords
<1>1. PICK x : IsThread(x) /\ Becomes(t, x)
  BY <1>0, StepIsThread
<1>2. /\ thread' \in [Threads -> ThreadRecords]
      /\ \A u \in Threads : IsThread(thread'[u])
  BY <1>0, <1>1 DEF Becomes, ThreadsOK, IsThread
<1>3. ThreadsOK'
  BY <1>2 DEF ThreadsOK, IsThread, ThreadRecords
<1>4. row' \in Rows \cup {Gone}
  BY <1>0, UpdateIs, RecordIs
  DEF StepOf, TypeOK, Moving, Arriving, Copying, Loading, Stays
<1>5. changes' \in 0 .. MaxChanges
  BY MaxChangesIsNatural
  DEF StepOf, TypeOK, Moving, Arriving, Copying, Loading, Stays, Updating, Updates,
      Recording
<1>6. recorded' \in Nat
  BY RecordIs
  DEF StepOf, TypeOK, Moving, Arriving, Copying, Loading, Stays, Updating, Updates
<1>7. torn' \in BOOLEAN /\ deleted' \in BOOLEAN
  BY DEF StepOf, TypeOK, Moving, Arriving, Copying, Loading, Stays, Updating,
         Updates, Recording
<1>8. \A u \in Threads :
          /\ thread'[u].change # NoChange <=> thread'[u].op \notin Reads
          /\ thread'[u].pc \in {"write", "update"} => thread'[u].op \notin Reads
          /\ thread'[u].pc \in CallPCs
                 => thread'[u].op = "context" /\ thread'[u].first
  BY <1>2 DEF IsThread
<1> QED
  BY <1>2, <1>3, <1>4, <1>5, <1>6, <1>7, <1>8 DEF TypeOK, ThreadRecords, CallPCs
-----------------------------------------------------------------------------
(* Each change is made once.                                               *)

\* The part of ChangesAreFresh about one request's copy.
CopyIsFresh(u) ==
    thread[u].pc \in WritePCs \cup UpdatePCs =>
        \A e \in thread[u].copy.context.edits :
            /\ e <= changes
            /\ \A t \in Threads :
                   thread[t].change = e => t = u /\ thread[u].pc = "update"

\* What a step of t leaves to be proved: its own change and copy.
LEMMA FreshIs ==
    ASSUME TypeOK, ThreadsOK, TypeOK', ChangesAreFresh, NEW t \in Threads, NEW x,
           Becomes(t, x), changes' \in {changes, changes + 1},
           \/ x.change \in {NoChange, thread[t].change}
           \/ x.change = changes + 1 /\ changes' = changes + 1,
           row' # Gone => \A e \in row'.context.edits :
               e <= changes /\ \A u \in Threads :
                   thread[u].change = e => u = t /\ x.change = NoChange,
           CopyIsFresh(t)'
    PROVE  ChangesAreFresh'
<1>1. /\ \A u \in Threads : thread'[u] = IF u = t THEN x ELSE thread[u]
      /\ \A u \in Threads : thread[u].change \in Changes \cup {NoChange}
      /\ \A u \in Threads : thread'[u].change \in Changes \cup {NoChange}
      /\ changes \in Nat /\ changes' \in Nat
  BY MaxChangesIsNatural DEF Becomes, TypeOK
<1>2. \A e \in Changes \cup {NoChange} : e \in Nat
  BY MaxChangesIsNatural DEF Changes, NoChange
<1>3. /\ row' # Gone => row'.context.edits \subseteq Changes
      /\ \A u \in Threads : thread[u].pc \in WritePCs \cup UpdatePCs =>
             thread[u].copy.context.edits \subseteq Changes
  <2>1. row' # Gone => row' \in Rows
    BY DEF TypeOK
  <2>2. \A u \in Threads : thread[u].pc \in WritePCs \cup UpdatePCs =>
            thread[u].copy \in Rows
    BY DEF ThreadsOK, IsThread
  <2> QED BY <2>1, <2>2 DEF Rows
<1>4. \A u, w \in Threads :
          thread'[u].change # NoChange /\ thread'[u].change = thread'[w].change
              => u = w
  BY <1>1, <1>2 DEF ChangesAreFresh
<1>5. \A u \in Threads : thread'[u].change <= changes'
  BY <1>1, <1>2 DEF ChangesAreFresh, NoChange
<1>6. row' # Gone => \A e \in row'.context.edits :
          e <= changes' /\ \A u \in Threads : thread'[u].change # e
  BY <1>1, <1>2, <1>3 DEF Changes, NoChange
<1>7. \A u \in Threads : CopyIsFresh(u)'
  <2>1. ASSUME NEW u \in Threads, u # t PROVE CopyIsFresh(u)'
    BY <1>1, <1>2, <1>3, <2>1 DEF ChangesAreFresh, CopyIsFresh, Changes, NoChange
  <2> QED BY <2>1
<1> QED BY <1>4, <1>5, <1>6, <1>7 DEF ChangesAreFresh, CopyIsFresh

\* Changes are made once, whatever step a request makes.
LEMMA StepChangesAreFresh ==
    ASSUME TypeOK, ThreadsOK, TypeOK', ChangesAreFresh, NEW t \in Threads,
           StepOf(t)
    PROVE  ChangesAreFresh'
<1>0. /\ IsThread(thread[t]) /\ changes \in Nat
      /\ row \in Rows \cup {Gone} /\ row' \in Rows \cup {Gone}
      /\ thread \in [Threads -> ThreadRecords]
  BY MaxChangesIsNatural DEF ThreadsOK, TypeOK, ThreadRecords
<1>1. row # Gone => \A e \in row.context.edits :
          e <= changes /\ \A u \in Threads : thread[u].change # e
  BY DEF ChangesAreFresh
<1>2. ASSUME NEW x, Becomes(t, x) PROVE thread'[t] = x
  BY <1>0, <1>2 DEF Becomes
<1>3. CASE Moving(t)
  <2>1. PICK x : MovesOn(t, x) /\ Becomes(t, x)
    BY <1>3 DEF Moving
  <2>2. CopyIsFresh(t)'
    BY <1>0, <1>2, <2>1, MovesOnIs DEF CopyIsFresh
  <2> QED BY <1>0, <1>1, <1>3, <2>1, <2>2, MovesOnIs, FreshIs DEF Moving, Stays
<1>4. CASE Arriving(t)
  <2>1. PICK op \in Ops : /\ op \notin Reads => changes < MaxChanges
                          /\ changes' = IF op \in Reads THEN changes ELSE changes + 1
                          /\ Becomes(t, Arrived(op))
    BY <1>4 DEF Arriving
  <2>2. CopyIsFresh(t)'
    BY <1>2, <2>1, ArrivedIsThread DEF CopyIsFresh
  <2> QED BY <1>0, <1>1, <1>4, <2>1, <2>2, ArrivedIsThread, FreshIs DEF Arriving
<1>5. CASE Copying(t)
  <2>1. PICK pc \in WritePCs : TakesCopy(t, pc) /\ Becomes(t, CopiesTo(t, pc))
    BY <1>5 DEF Copying
  <2>2. /\ pc \in PCs /\ row \in Rows /\ row # Gone
        /\ CopiesTo(t, pc).copy = row /\ CopiesTo(t, pc).change = thread[t].change
    BY <1>0, <2>1, CopiesToIs, GoneIsNoRow DEF WritePCs, PCs, TakesCopy
  <2>3. CopyIsFresh(t)'
    <3>1. \A u \in Threads : thread'[u].change = thread[u].change
      BY <1>0, <2>1, <2>2 DEF Becomes
    <3> QED BY <1>1, <1>2, <1>5, <2>1, <2>2, <3>1 DEF CopyIsFresh, Copying, Stays
  <2> QED BY <1>0, <1>1, <1>5, <2>1, <2>2, <2>3, FreshIs DEF Copying, Stays
<1>6. CASE Loading(t)
  <2>1. PICK new, pc : Wants(t, new, pc) /\ Becomes(t, LoadsTo(t, new, pc))
    BY <1>6 DEF Loading
  <2>2. /\ new \in Rows /\ pc \in UpdatePCs /\ thread[t].pc \in WritePCs
        /\ thread[t].copy \in Rows
        /\ LoadsTo(t, new, pc).copy = new /\ LoadsTo(t, new, pc).pc = pc
        /\ LoadsTo(t, new, pc).change = thread[t].change
    BY <1>0, <2>1, LoadsToIsThread, LoadsToIs
  <2>3. \A u \in Threads : thread'[u].change = thread[u].change
    BY <1>0, <2>1, <2>2 DEF Becomes
  <2>4. \/ new.context.edits \subseteq thread[t].copy.context.edits
        \/ /\ pc = "update" /\ thread[t].change # NoChange
           /\ new.context.edits = thread[t].copy.context.edits
                                      \cup {thread[t].change}
    <3>1. CASE thread[t].pc = "infer_write"
      BY <2>1, <2>2, <3>1, InferredIs DEF Wants
    <3>2. CASE thread[t].pc = "augment_write"
      BY <2>1, <2>2, <3>2, RefinedIs DEF Wants
    <3>3. CASE thread[t].pc = "write"
      <4>1. thread[t].change # NoChange
        BY <1>0, <3>3 DEF IsThread
      <4> QED BY <1>0, <2>1, <3>3, <4>1, ChangedIs DEF Wants
    <3> QED BY <2>2, <3>1, <3>2, <3>3 DEF WritePCs
  <2>5. CopyIsFresh(t)
    BY DEF ChangesAreFresh, CopyIsFresh
  <2>6. thread[t].pc # "update"
    BY <2>2 DEF WritePCs
  <2>7. changes' = changes /\ thread[t].change <= changes
    BY <1>6 DEF Loading, Stays, ChangesAreFresh
  <2>8. \A e \in new.context.edits :
            /\ e <= changes'
            /\ \A u \in Threads :
                   thread'[u].change = e => u = t /\ pc = "update"
    BY <2>2, <2>3, <2>4, <2>5, <2>6, <2>7 DEF CopyIsFresh, ChangesAreFresh
  <2>9. CopyIsFresh(t)'
    BY <1>2, <2>1, <2>2, <2>8 DEF CopyIsFresh
  <2> QED BY <1>0, <1>1, <1>6, <2>1, <2>2, <2>9, FreshIs DEF Loading, Stays
<1>7. CASE Updating(t)
  <2>1. PICK x : /\ MovesOn(t, x) /\ Becomes(t, x)
                 /\ thread[t].pc = "update" => x = IdleThread
    BY <1>7 DEF Updating
  <2>2. CopyIsFresh(t)'
    BY <1>0, <1>2, <2>1, MovesOnIs DEF CopyIsFresh
  <2>3. CopyIsFresh(t) /\ thread[t].pc \in UpdatePCs
    BY <1>7 DEF ChangesAreFresh, CopyIsFresh, Updating
  <2>4. row' # Gone => \A e \in row'.context.edits :
            e <= changes /\ \A u \in Threads :
                thread[u].change = e => u = t /\ x.change = NoChange
    BY <1>0, <1>1, <1>7, <2>1, <2>3, UpdateIs, IdleIsThread, GoneIsNoRow
    DEF CopyIsFresh
  <2> QED BY <1>0, <1>7, <2>1, <2>2, <2>4, MovesOnIs, FreshIs DEF Updating, Updates
<1>8. CASE Recording(t)
  <2>1. CopyIsFresh(t)'
    BY <1>2, <1>8, IdleIsThread DEF CopyIsFresh, Recording, WritePCs, UpdatePCs
  <2> QED BY <1>0, <1>1, <1>8, <2>1, RecordIs, IdleIsThread, FreshIs, GoneIsNoRow
    DEF Recording
<1> QED BY <1>3, <1>4, <1>5, <1>6, <1>7, <1>8 DEF StepOf
-----------------------------------------------------------------------------
(* The row that requests alone would have written.                         *)

\* What a step of t leaves to be proved: the row, and its own copy.
LEMMA ConsistentIs ==
    ASSUME thread \in [Threads -> ThreadRecords], AllConsistent, NEW t \in Threads,
           NEW x, Becomes(t, x), torn => torn',
           ~ torn' => /\ row' # Gone => Consistent(row')
                      /\ CopyIsConsistent(x)
    PROVE  AllConsistent'
<1>1. \A u \in Threads : thread'[u] = IF u = t THEN x ELSE thread[u]
  BY DEF Becomes
<1> QED BY <1>1 DEF AllConsistent, CopyIsConsistent, Consistent

\* Finitely many changes are in a context, and a new one counts.
LEMMA EditsAreCounted ==
    ASSUME NEW r \in Rows
    PROVE  /\ Cardinality(r.context.edits) \in Nat
           /\ r.context.edits = {} <=> Cardinality(r.context.edits) = 0
           /\ \A e \in Changes : e \notin r.context.edits =>
                  Cardinality(r.context.edits \cup {e})
                      = 1 + Cardinality(r.context.edits)
<1>1. IsFiniteSet(Changes)
  BY FS_Interval, MaxChangesIsNatural DEF Changes
<1>2. PICK es : es = r.context.edits
  OBVIOUS
<1>3. es \subseteq Changes
  BY <1>2 DEF Rows
<1>4. IsFiniteSet(es)
  BY <1>1, <1>3, FS_Subset
<1>5. /\ Cardinality(es) \in Nat
      /\ es = {} <=> Cardinality(es) = 0
      /\ \A e \in Changes : e \notin es =>
             Cardinality(es \cup {e}) = Cardinality(es) + 1
  BY <1>4, FS_CardinalityType, FS_EmptySet, FS_AddElement
<1> QED BY <1>2, <1>5

\* The row a request wants is consistent, if the row it has read was.
LEMMA WantedIsConsistent ==
    ASSUME NEW t \in Threads, IsThread(thread[t]), NEW new, NEW pc,
           Wants(t, new, pc), CopyIsConsistent(thread[t]),
           thread[t].pc \in WritePCs, thread[t].copy \in Rows, new \in Rows,
           thread[t].pc = "write" =>
               thread[t].change \notin thread[t].copy.context.edits
    PROVE  Consistent(new)
<1>1. PICK c \in Rows : c = thread[t].copy
  OBVIOUS
<1>2. Consistent(c)
  BY <1>1 DEF CopyIsConsistent
<1>3. CASE thread[t].pc = "infer_write"
  <2>1. c.context = NoContext
    BY <1>1, <1>3 DEF CopyIsConsistent
  <2>2. c.context.edits = {} /\ Cardinality({}) = 0
    BY <2>1, FS_EmptySet DEF NoContext
  <2>3. /\ new.context # NoContext /\ new.context.edits = c.context.edits
        /\ new.version = 1 /\ new.answered = c.answered
    BY <1>1, <1>3, InferredIs DEF Wants
  <2> QED BY <1>2, <2>2, <2>3 DEF Consistent
<1>4. CASE thread[t].pc = "augment_write"
  <2>1. c.version = 1
    BY <1>1, <1>4 DEF CopyIsConsistent
  <2>2. c.context.edits = {} /\ Cardinality({}) = 0
    BY <1>2, <2>1, EditsAreCounted, FS_EmptySet DEF Consistent
  <2>3. /\ new.context # NoContext /\ new.context.edits = {}
        /\ new.version = 1 /\ new.answered = c.answered
    BY <1>1, <1>4, <2>1, RefinedIs DEF Wants
  <2> QED BY <1>2, <2>2, <2>3 DEF Consistent
<1>5. CASE thread[t].pc = "write"
  <2>1. new \in Changed(t)
    BY <1>5 DEF Wants
  <2>2. CASE /\ new.context = c.context /\ new.version = c.version
             /\ new.answered = c.answered
             /\ new.finalized = c.finalized \/ thread[t].op \in Edits
    <3>1. new.finalized = c.finalized \/ new.context # NoContext
      BY <1>1, <1>5, <2>2 DEF CopyIsConsistent
    <3> QED BY <1>2, <2>2, <3>1 DEF Consistent
  <2>3. CASE /\ thread[t].op \in Edits
             /\ new.context.edits = c.context.edits \cup {thread[t].change}
             /\ new.context.source = c.context.source
             /\ new.version = c.version + 1
             /\ new.answered \subseteq c.answered \cup {thread[t].change}
             /\ new.finalized = c.finalized
    <3>1. c.context # NoContext
      BY <1>1, <1>5, <2>3 DEF CopyIsConsistent
    <3>2. new.context # NoContext
      BY <2>3 DEF NoContext
    <3>3. thread[t].change \in Changes /\ thread[t].change \notin c.context.edits
      BY <1>1, <1>5, <2>3 DEF IsThread, ThreadRecords, Edits, Reads
    <3>4. /\ Cardinality(new.context.edits) = 1 + Cardinality(c.context.edits)
          /\ Cardinality(c.context.edits) \in Nat
      BY <2>3, <3>3, EditsAreCounted
    <3>5. new.version = 1 + Cardinality(new.context.edits)
      BY <1>2, <2>3, <3>1, <3>4 DEF Consistent
    <3> QED BY <1>2, <2>3, <3>2, <3>5 DEF Consistent
  <2> QED BY <1>1, <1>5, <2>1, <2>2, <2>3, ChangedIs
<1> QED BY <1>3, <1>4, <1>5 DEF WritePCs

\* The row stays consistent, and so do the copies, while no update is torn.
LEMMA StepAllConsistent ==
    ASSUME TypeOK, ThreadsOK, ChangesAreFresh, AllConsistent, NEW t \in Threads,
           StepOf(t)
    PROVE  AllConsistent'
<1>0. /\ IsThread(thread[t]) /\ thread \in [Threads -> ThreadRecords]
      /\ row \in Rows \cup {Gone}
  BY DEF ThreadsOK, TypeOK, ThreadRecords
<1>1. ~ torn => (row # Gone => Consistent(row)) /\ CopyIsConsistent(thread[t])
  BY DEF AllConsistent
<1>2. \A x : x.pc \notin WritePCs \cup UpdatePCs => CopyIsConsistent(x)
  BY DEF CopyIsConsistent, WritePCs
<1>3. CASE Moving(t)
  <2>1. PICK x : MovesOn(t, x) /\ Becomes(t, x)
    BY <1>3 DEF Moving
  <2>2. CopyIsConsistent(x) /\ row' = row /\ torn' = torn
    BY <1>0, <1>2, <1>3, <2>1, MovesOnIs DEF Moving, Stays
  <2>3. (row # Gone => Consistent(row)) => (row' # Gone => Consistent(row'))
    BY <2>2
  <2> QED BY <1>0, <1>1, <2>1, <2>2, <2>3, ConsistentIs
<1>4. CASE Arriving(t)
  <2>1. PICK x : Becomes(t, x) /\ x.pc \notin WritePCs \cup UpdatePCs
    BY <1>4, ArrivedIsThread DEF Arriving
  <2>2. CopyIsConsistent(x) /\ row' = row /\ torn' = torn
    BY <1>2, <1>4, <2>1 DEF Arriving
  <2> QED BY <1>0, <1>1, <2>1, <2>2, ConsistentIs
<1>5. CASE Copying(t)
  <2>1. PICK pc \in WritePCs : TakesCopy(t, pc) /\ Becomes(t, CopiesTo(t, pc))
    BY <1>5 DEF Copying
  <2>2. /\ row \in Rows /\ row # Gone /\ row' = row /\ torn' = torn
        /\ CopiesTo(t, pc).pc = pc /\ CopiesTo(t, pc).copy = row
        /\ CopiesTo(t, pc).op = thread[t].op
    BY <1>0, <1>5, <2>1, CopiesToIs, GoneIsNoRow
    DEF WritePCs, PCs, TakesCopy, Copying, Stays
  <2>3. Consistent(row) => CopyIsConsistent(CopiesTo(t, pc))
    BY <2>1, <2>2 DEF CopyIsConsistent, TakesCopy
  <2> QED BY <1>0, <1>1, <2>1, <2>2, <2>3, ConsistentIs
<1>6. CASE Loading(t)
  <2>1. PICK new, pc : Wants(t, new, pc) /\ Becomes(t, LoadsTo(t, new, pc))
    BY <1>6 DEF Loading
  <2>2. /\ new \in Rows /\ pc \in UpdatePCs /\ thread[t].pc \in WritePCs
        /\ thread[t].copy \in Rows
        /\ LoadsTo(t, new, pc).copy = new /\ LoadsTo(t, new, pc).pc = pc
        /\ row' = row /\ torn' = torn
    BY <1>0, <1>6, <2>1, LoadsToIsThread, LoadsToIs DEF Loading, Stays
  <2>3. thread[t].pc = "write" =>
            thread[t].change \notin thread[t].copy.context.edits
    BY DEF ChangesAreFresh, WritePCs
  <2>4. ~ torn => Consistent(new)
    BY <1>0, <1>1, <2>1, <2>2, <2>3, WantedIsConsistent
  <2>5. ~ torn => CopyIsConsistent(LoadsTo(t, new, pc))
    BY <2>2, <2>4 DEF CopyIsConsistent, UpdatePCs
  <2> QED BY <1>0, <1>1, <2>1, <2>2, <2>5, ConsistentIs
<1>7. CASE Updating(t)
  <2>1. PICK x : MovesOn(t, x) /\ Becomes(t, x)
    BY <1>7 DEF Updating
  <2>2. CopyIsConsistent(x)
    BY <1>0, <1>2, <2>1, MovesOnIs
  <2>3. torn' = (torn \/ /\ row # Gone /\ thread[t].base # Gone
                         /\ ~ SameButCount(row, thread[t].base))
    BY <1>7 DEF Updating, Updates
  <2>4. ASSUME ~ torn', row' # Gone PROVE Consistent(row')
    <3>1. CASE row' = row
      BY <1>1, <2>3, <2>4, <3>1
    <3>2. CASE row' # row
      <4>1. /\ row \in Rows /\ thread[t].base \in Rows /\ thread[t].copy \in Rows
            /\ row' = Merged(thread[t].copy, thread[t].base, row)
        BY <1>0, <1>7, <3>2, UpdateIs
      <4>2. SameButCount(row, thread[t].base)
        BY <2>3, <2>4, <4>1, GoneIsNoRow
      <4>3. Consistent(thread[t].copy)
        BY <1>1, <1>7, <2>3, <2>4 DEF Updating, CopyIsConsistent
      <4>4. /\ row'.context = thread[t].copy.context
            /\ row'.version = thread[t].copy.version
            /\ row'.answered = thread[t].copy.answered
            /\ row'.finalized = thread[t].copy.finalized
        BY <4>1, <4>2, MergedIsNew
      <4> QED BY <4>3, <4>4 DEF Consistent
    <3> QED BY <3>1, <3>2
  <2> QED BY <1>0, <2>1, <2>2, <2>3, <2>4, ConsistentIs
<1>8. CASE Recording(t)
  <2>1. CopyIsConsistent(IdleThread) /\ Becomes(t, IdleThread) /\ torn' = torn
    BY <1>8, IdleIsThread DEF Recording
  <2>2. ASSUME ~ torn', row' # Gone PROVE Consistent(row')
    <3>1. row # Gone /\ Consistent(row)
      BY <1>0, <1>1, <1>8, <2>1, <2>2, RecordIs, GoneIsNoRow
    <3> QED BY <1>8, <3>1, RecordIs DEF Consistent
  <2> QED BY <1>0, <2>1, <2>2, ConsistentIs
<1> QED BY <1>3, <1>4, <1>5, <1>6, <1>7, <1>8 DEF StepOf
-----------------------------------------------------------------------------
(* The invariant.                                                          *)

\* It holds at first.
LEMMA InitIInv == Init => IInv
<1> SUFFICES ASSUME Init PROVE IInv
  OBVIOUS
<1>1. TypeOK /\ ThreadsOK
  BY InitTypeOK
<1>2. \A t \in Threads : thread[t] = IdleThread
  BY DEF Init
<1>3. /\ row = Fresh /\ row.context = NoContext /\ row.version = 0
      /\ row.answered = {} /\ ~ row.finalized /\ row.count = 0
      /\ row.context.edits = {}
  BY DEF Init, Fresh, NoContext
<1>4. ChangesAreFresh
  BY <1>2, <1>3, IdleIsThread
  DEF Init, ChangesAreFresh, WritePCs, UpdatePCs, NoChange
<1>5. AllConsistent
  BY <1>2, <1>3, IdleIsThread DEF AllConsistent, Consistent
<1> QED
  BY <1>1, <1>3, <1>4, <1>5 DEF IInv, CountIsKept, DeletedForGood, Init

\* Every step keeps it.
LEMMA NextIInv == IInv /\ [Next]_vars => IInv'
<1> SUFFICES ASSUME IInv, [Next]_vars PROVE IInv'
  OBVIOUS
<1>0. TypeOK /\ ThreadsOK /\ ChangesAreFresh /\ AllConsistent
  BY DEF IInv
<1>1. CASE UNCHANGED vars
  BY <1>1
  DEF IInv, vars, history, TypeOK, ThreadsOK, ChangesAreFresh, AllConsistent,
      CountIsKept, DeletedForGood
<1>2. CASE row' = Gone /\ deleted' /\ UNCHANGED <<thread, changes, recorded, torn>>
  <2>1. TypeOK'
    BY <1>0, <1>2, CallsAreKept DEF TypeOK
  <2>2. ThreadsOK' /\ ChangesAreFresh' /\ AllConsistent'
    BY <1>0, <1>2 DEF ThreadsOK, ChangesAreFresh, AllConsistent
  <2> QED BY <1>2, <2>1, <2>2 DEF IInv, CountIsKept, DeletedForGood
<1>3. ASSUME NEW t \in Threads, StepOf(t) PROVE IInv'
  <2>1. TypeOK' /\ ThreadsOK'
    BY <1>0, <1>3, CallsAreKept, StepTypes
  <2>2. ChangesAreFresh'
    BY <1>0, <1>3, <2>1, StepChangesAreFresh
  <2>3. AllConsistent'
    BY <1>0, <1>3, StepAllConsistent
  <2>4. IsThread(thread[t])
    BY <1>0 DEF ThreadsOK
  <2>5. \/ UNCHANGED <<row, recorded>>
        \/ row # Gone /\ row' # Gone /\ row'.count = row.count /\ recorded' = recorded
        \/ row # Gone /\ row'.count = row.count + 1 /\ recorded' = recorded + 1
    BY <1>0, <1>3, <2>4, UpdateIs, RecordIs, GoneIsNoRow
    DEF StepOf, Moving, Arriving, Copying, Loading, Stays, Updating, Updates
  <2>6. CountIsKept'
    BY <2>5 DEF IInv, CountIsKept
  <2>7. deleted' = deleted
    BY <1>3
    DEF StepOf, Moving, Arriving, Copying, Loading, Stays, Updating, Updates,
        Recording
  <2>8. DeletedForGood'
    BY <2>5, <2>7 DEF IInv, DeletedForGood
  <2> QED BY <2>1, <2>2, <2>3, <2>6, <2>8 DEF IInv
<1> QED BY <1>0, <1>1, <1>2, <1>3, StepsAre

\* The invariant that the properties rest on.
THEOREM ContextEditsIInvHolds == Spec => []IInv
BY InitIInv, NextIInv, PTL DEF Spec

\* Types, of the row and of every request at each of its steps.
THEOREM ContextEditsTypeCorrect == Spec => []TypeOK
<1>1. IInv => TypeOK
  BY DEF IInv
<1> QED BY <1>1, ContextEditsIInvHolds, PTL

\* However many requests hold copies of the row, and for however long, the row
\* is one that requests alone would have written, while no update is torn.
THEOREM RowIsConsistentHolds == Spec => []RowIsConsistent
<1>1. IInv => RowIsConsistent
  BY DEF IInv, AllConsistent, Consistent, RowIsConsistent
<1> QED BY <1>1, ContextEditsIInvHolds, PTL

\* A recorded model call stays counted, torn updates or not.
THEOREM CountIsKeptHolds == Spec => []CountIsKept
<1>1. IInv => CountIsKept
  BY DEF IInv
<1> QED BY <1>1, ContextEditsIInvHolds, PTL

\* No request brings a deleted analysis back.
THEOREM DeletedForGoodHolds == Spec => []DeletedForGood
<1>1. IInv => DeletedForGood
  BY DEF IInv
<1> QED BY <1>1, ContextEditsIInvHolds, PTL
=============================================================================
