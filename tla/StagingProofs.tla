----------------------------- MODULE StagingProofs -----------------------------
(***************************************************************************)
(* Proofs that a staging reference is worth one analysis of the bytes it   *)
(* was drawn for and that the store keeps its bound on files, for any      *)
(* number of references, files and requests, and any clock.                *)
(***************************************************************************)
EXTENDS Staging, FiniteSetTheorems, TLAPS

\* What TypeOK says of requests.
CallerRecords ==
    [pc : CallerPCs, ref : Refs \cup {NoRef}, file : Row \cup {NoRow},
     since : 0 .. MaxTime]

IsRequest(x) ==
    /\ x \in CallerRecords
    /\ x.pc \in {"idle", "stage", "insert"} <=> x.ref = NoRef
    /\ x.pc \in {"stage", "insert", "consume", "start"} => x.file.digest \in Files

\* What TypeOK says of everything else.
OthersOK ==
    /\ rows \in [Refs -> Row \cup {NoRow}]
    /\ issued \in SUBSET Refs
    /\ runs \in [Refs -> Seq(Files \cup {Damaged})]
    /\ now \in 0 .. MaxTime
    /\ up \in BOOLEAN
    /\ crashes \in 0 .. MaxCrashes
    /\ damages \in 0 .. MaxDamages
    /\ staged \in [Refs -> Files \cup {NoFile}]

\* What is stored, or was analysed, was staged under its reference; and what
\* was analysed is not stored any more.
FilesAreStaged ==
    \A r \in Refs :
        /\ rows[r] # NoRow => rows[r].digest = staged[r]
        /\ runs[r] # <<>> => rows[r] = NoRow /\ staged[r] # NoFile

\* A client only knows references that were drawn.
RefsAreStaged ==
    /\ \A r \in issued : staged[r] # NoFile
    /\ \A c \in Callers : caller[c].ref # NoRef => staged[caller[c].ref] # NoFile

\* What a Run has read is what was staged, and was fresh when it was read; what
\* it has consumed is nowhere else.
HandsAreSound ==
    \A c \in Callers :
        LET x == caller[c] IN
        /\ x.pc = "load" =>
               rows[x.ref] = NoRow \/ rows[x.ref].expires > x.since
        /\ x.pc \in {"consume", "start"} =>
               /\ x.file.digest = staged[x.ref]
               /\ x.file.bytes = x.file.digest
               /\ x.file.expires > x.since
        /\ x.pc = "start" => rows[x.ref] = NoRow /\ runs[x.ref] = <<>>

OneTaker ==
    \A b, c \in Callers :
        caller[b].pc = "start" /\ caller[c].pc = "start"
            /\ caller[b].ref = caller[c].ref => b = c

IInv ==
    /\ TypeOK
    /\ FilesAreStaged
    /\ RefsAreStaged
    /\ HandsAreSound
    /\ OneTaker
    /\ AnalysesAreOfStagedBytes
-----------------------------------------------------------------------------
(* Types.                                                                  *)

\* A reference that holds nothing is told from one that does.
LEMMA NoRowIsNone ==
    /\ NoRow \notin Row
    /\ \A x \in Row \cup {NoRow} : x # NoRow => x \in Row /\ x.digest \in Files
BY StagingNames DEF NoRow, Row

\* TypeOK in two parts.
LEMMA TypeOKSplit ==
    TypeOK <=> /\ OthersOK
               /\ caller \in [Callers -> CallerRecords]
               /\ \A c \in Callers : /\ IsRequest(caller[c])
                                     /\ ~ up => caller[c].pc = "idle"
BY DEF TypeOK, OthersOK, CallerRecords, IsRequest

\* A request that is not there.
LEMMA IdleIsIdle ==
    /\ IsRequest(IdleCaller) /\ IdleCaller \in CallerRecords
    /\ IdleCaller.pc = "idle" /\ IdleCaller.ref = NoRef
BY StagingModelBounds DEF IdleCaller, IsRequest, CallerRecords, CallerPCs

\* The types hold at first.
LEMMA InitTypeOK == Init => TypeOK
<1> SUFFICES ASSUME Init PROVE TypeOK
  OBVIOUS
<1>1. OthersOK
  BY StagingModelBounds DEF Init, OthersOK
<1>2. /\ caller \in [Callers -> CallerRecords] /\ up
      /\ \A c \in Callers : IsRequest(caller[c])
  BY IdleIsIdle DEF Init
<1> QED BY <1>1, <1>2, TypeOKSplit

\* A step of one request is well typed if its new record and the rest are.
LEMMA CallerStepTypeOK ==
    ASSUME TypeOK, NEW c \in Callers, NEW x, IsRequest(x), up, up' = up,
           caller' = [caller EXCEPT ![c] = x], OthersOK'
    PROVE  TypeOK'
<1>1. caller \in [Callers -> CallerRecords] /\ \A b \in Callers : IsRequest(caller[b])
  BY TypeOKSplit
<1>2. caller' \in [Callers -> CallerRecords]
  BY <1>1 DEF IsRequest
<1>3. ASSUME NEW b \in Callers PROVE IsRequest(caller'[b])
  BY <1>1
<1> QED
  BY <1>2, <1>3 DEF TypeOK, OthersOK, CallerRecords, IsRequest

\* What is left when rows expire are rows.
LEMMA PurgedIsTyped ==
    ASSUME OthersOK, NEW t
    PROVE  Purged(t) \in [Refs -> Row \cup {NoRow}]
BY DEF Purged, OthersOK

\* The time a transaction is given.
LEMMA TimesAreTimes ==
    ASSUME TypeOK, NEW c \in Callers, NEW t \in caller[c].since .. now
    PROVE  t \in 0 .. MaxTime /\ t \in Nat
BY StagingModelBounds DEF TypeOK

\* A request that goes on with the same file and reference.
LEMMA SameRequest ==
    ASSUME NEW x, IsRequest(x), NEW pc \in CallerPCs, NEW t \in 0 .. MaxTime,
           pc \in {"idle", "stage", "insert"} <=> x.ref = NoRef,
           pc \in {"stage", "insert", "consume", "start"} => x.file.digest \in Files
    PROVE  IsRequest([x EXCEPT !.pc = pc, !.since = t])
<1> DEFINE y == [x EXCEPT !.pc = pc, !.since = t]
<1>1. y \in CallerRecords
  BY DEF IsRequest, CallerRecords
<1>2. y.pc = pc /\ y.ref = x.ref /\ y.file = x.file
  BY DEF IsRequest, CallerRecords
<1> HIDE DEF y
<1>3. IsRequest(y)
  BY <1>1, <1>2 DEF IsRequest
<1> QED BY <1>3 DEF y

\* Every step preserves the types.
LEMMA NextTypeOK ==
    ASSUME TypeOK, [Next]_vars PROVE TypeOK'
<1>0. /\ OthersOK
      /\ caller \in [Callers -> CallerRecords]
      /\ \A c \in Callers : /\ IsRequest(caller[c])
                            /\ caller[c].pc # "idle" => up
                            /\ caller[c].since \in 0 .. MaxTime
  BY TypeOKSplit DEF CallerRecords
<1>1. ASSUME NEW c \in Callers, NEW r \in Refs,
             NEW pc \in {"inspect", "run", "discard"}, Request(c, pc, r)
      PROVE  TypeOK'
  <2> DEFINE x == [pc |-> pc, ref |-> r, file |-> NoRow, since |-> now]
  <2>1. x \in CallerRecords
    BY <1>0 DEF CallerRecords, CallerPCs, OthersOK
  <2>2. IsRequest(x)
    BY <2>1, StagingNames DEF IsRequest
  <2> HIDE DEF x
  <2>3. OthersOK'
    BY <1>0, <1>1 DEF Request, bounds, OthersOK
  <2> QED
    BY <1>1, <2>2, <2>3, CallerStepTypeOK DEF Request, x
<1>2. ASSUME NEW c \in Callers, NEW f \in Files, RequestStage(c, f) PROVE TypeOK'
  <2> DEFINE x == [pc |-> "stage", ref |-> NoRef, since |-> now,
                   file |-> [digest |-> f, bytes |-> f, expires |-> 0]]
  <2>1. x \in CallerRecords
    BY <1>0 DEF CallerRecords, CallerPCs, OthersOK, Row
  <2>2. x.pc = "stage" /\ x.ref = NoRef /\ x.file.digest \in Files
    OBVIOUS
  <2>3. caller' = [caller EXCEPT ![c] = x] /\ up /\ up' = up
    BY <1>2 DEF RequestStage
  <2> HIDE DEF x
  <2>4. IsRequest(x)
    BY <2>1, <2>2 DEF IsRequest
  <2>5. OthersOK'
    BY <1>0, <1>2 DEF RequestStage, bounds, OthersOK
  <2> QED
    BY <2>3, <2>4, <2>5, CallerStepTypeOK
<1>3. ASSUME NEW c \in Callers, Purge(c) PROVE TypeOK'
  <2>1. PICK t \in caller[c].since .. now :
            /\ rows' = Purged(t)
            /\ \/ caller[c].pc = "stage" /\ GoesAt(c, "insert", t)
               \/ caller[c].pc = "inspect" /\ GoesAt(c, "look", t)
               \/ caller[c].pc = "run" /\ GoesAt(c, "load", t)
            /\ UNCHANGED <<issued, runs, now, up, bounds, staged>>
    BY <1>3 DEF Purge
  <2>2. t \in 0 .. MaxTime
    BY TimesAreTimes
  <2>3. PICK pc \in {"insert", "look", "load"} :
            /\ GoesAt(c, pc, t)
            /\ caller[c].pc = (CASE pc = "insert" -> "stage"
                                 [] pc = "look" -> "inspect"
                                 [] pc = "load" -> "run")
    BY <2>1
  <2> DEFINE x == [caller[c] EXCEPT !.pc = pc, !.since = t]
  <2>4. IsRequest(x)
    <3>1. /\ pc \in {"idle", "stage", "insert"} <=> caller[c].ref = NoRef
          /\ pc \in {"stage", "insert", "consume", "start"} =>
                 caller[c].file.digest \in Files
      BY <1>0, <2>3 DEF IsRequest
    <3> QED BY <1>0, <2>2, <3>1, SameRequest DEF CallerPCs
  <2>5. caller' = [caller EXCEPT ![c] = x]
    BY <1>0, <2>3 DEF GoesAt, CallerRecords
  <2>6. OthersOK'
    BY <1>0, <2>1, PurgedIsTyped DEF OthersOK, bounds
  <2>7. up /\ up' = up
    BY <1>0, <2>1, <2>3
  <2> QED BY <2>4, <2>5, <2>6, <2>7, CallerStepTypeOK
<1>4. ASSUME NEW c \in Callers, NEW r \in Refs, Insert(c, r) PROVE TypeOK'
  <2> DEFINE x == [caller[c] EXCEPT !.pc = "answer", !.ref = r]
             f == caller[c].file.digest
  <2>1. x \in CallerRecords
    BY <1>0 DEF CallerRecords, CallerPCs
  <2>2. x.pc = "answer" /\ x.ref = r
    BY <1>0 DEF CallerRecords
  <2>3. f \in Files
    BY <1>0, <1>4 DEF Insert, IsRequest
  <2>4. caller' = [caller EXCEPT ![c] = x]
    BY <1>0, <1>4 DEF Insert, CallerRecords
  <2> HIDE DEF x
  <2>5. IsRequest(x)
    BY <2>1, <2>2, StagingNames DEF IsRequest
  <2>6. PICK t \in caller[c].since .. now :
            rows' = [rows EXCEPT ![r] = [digest |-> f, bytes |-> f, expires |-> t + Ttl]]
    BY <1>4 DEF Insert
  <2>7. [digest |-> f, bytes |-> f, expires |-> t + Ttl] \in Row
    BY <2>3, TimesAreTimes, StagingBounds DEF Row
  <2>8. rows' \in [Refs -> Row \cup {NoRow}]
    BY <1>0, <2>6, <2>7 DEF OthersOK
  <2>9. OthersOK'
    BY <1>0, <1>4, <2>3, <2>8 DEF Insert, bounds, OthersOK
  <2> QED BY <1>0, <1>4, <2>4, <2>5, <2>9, CallerStepTypeOK DEF Insert
<1>5. ASSUME NEW c \in Callers, Full(c) \/ Look(c) \/ Answer(c) PROVE TypeOK'
  <2>1. caller' = [caller EXCEPT ![c] = IdleCaller] /\ up /\ up' = up
    BY <1>0, <1>5 DEF Full, Look, Answer, Ends
  <2>2. caller[c].pc = "answer" => caller[c].ref \in Refs
    BY <1>0 DEF IsRequest, CallerRecords
  <2>3. OthersOK'
    BY <1>0, <1>5, <2>2 DEF Full, Look, Answer, bounds, OthersOK
  <2> QED BY <2>1, <2>3, IdleIsIdle, CallerStepTypeOK
<1>6. ASSUME NEW c \in Callers, Load(c) PROVE TypeOK'
  <2> DEFINE r == caller[c].ref
  <2>0. r \in Refs /\ r # NoRef
    BY <1>0, <1>6 DEF Load, IsRequest, CallerRecords
  <2>1. OthersOK' /\ up /\ up' = up
    BY <1>0, <1>6 DEF Load, bounds, OthersOK
  <2>2. CASE caller' = [caller EXCEPT ![c] = IdleCaller]
    BY <2>1, <2>2, IdleIsIdle, CallerStepTypeOK
  <2>3. CASE Goes(c, "discard")
    <3> DEFINE x == [caller[c] EXCEPT !.pc = "discard"]
    <3>1. x \in CallerRecords /\ x.pc = "discard" /\ x.ref = r
      BY <1>0 DEF CallerRecords, CallerPCs
    <3>2. caller' = [caller EXCEPT ![c] = x]
      BY <2>3 DEF Goes
    <3> HIDE DEF x
    <3>3. IsRequest(x)
      BY <2>0, <3>1 DEF IsRequest
    <3> QED BY <2>1, <3>2, <3>3, CallerStepTypeOK
  <2>4. CASE /\ rows[r] # NoRow
             /\ caller' = [caller EXCEPT ![c].pc = "consume", ![c].file = rows[r]]
    <3> DEFINE x == [caller[c] EXCEPT !.pc = "consume", !.file = rows[r]]
    <3>1. /\ x \in CallerRecords /\ x.pc = "consume" /\ x.ref = r
          /\ x.file = rows[r]
      BY <1>0, <2>0 DEF CallerRecords, CallerPCs, OthersOK
    <3>2. caller' = [caller EXCEPT ![c] = x]
      BY <1>0, <2>4 DEF CallerRecords
    <3>3. rows[r].digest \in Files
      BY <1>0, <2>0, <2>4, NoRowIsNone DEF OthersOK
    <3> HIDE DEF x
    <3>4. IsRequest(x)
      BY <2>0, <3>1, <3>3 DEF IsRequest
    <3> QED BY <2>1, <3>2, <3>4, CallerStepTypeOK
  <2> QED BY <1>6, <2>2, <2>3, <2>4 DEF Load, Ends
<1>7. ASSUME NEW c \in Callers, Consume(c) PROVE TypeOK'
  <2> DEFINE r == caller[c].ref
  <2>0. r \in Refs /\ r # NoRef /\ up /\ caller[c].pc = "consume"
    BY <1>0, <1>7 DEF Consume, IsRequest, CallerRecords
  <2>1. rows' \in [Refs -> Row \cup {NoRow}] /\ up' = up
    BY <1>0, <1>7 DEF Consume, OthersOK
  <2>2. OthersOK'
    BY <1>0, <1>7, <2>1 DEF Consume, bounds, OthersOK
  <2>3. CASE caller' = [caller EXCEPT ![c] = IdleCaller]
    BY <2>0, <2>1, <2>2, <2>3, IdleIsIdle, CallerStepTypeOK
  <2>4. ASSUME NEW t \in caller[c].since .. now, rows[r].digest = caller[c].file.digest,
               caller' = [caller EXCEPT ![c].pc = "start", ![c].since = t,
                                        ![c].file = rows[r]]
        PROVE  TypeOK'
    <3> DEFINE x == [caller[c] EXCEPT !.pc = "start", !.since = t, !.file = rows[r]]
    <3>1. /\ x \in CallerRecords /\ x.pc = "start" /\ x.ref = r
          /\ x.file = rows[r]
      BY <1>0, <2>0, TimesAreTimes DEF CallerRecords, CallerPCs, OthersOK
    <3>2. caller' = [caller EXCEPT ![c] = x]
      BY <1>0, <2>4 DEF CallerRecords
    <3>3. rows[r].digest \in Files
      BY <1>0, <2>0, <2>4 DEF IsRequest
    <3> HIDE DEF x
    <3>4. IsRequest(x)
      BY <2>0, <3>1, <3>3 DEF IsRequest
    <3> QED BY <2>0, <2>1, <2>2, <3>2, <3>4, CallerStepTypeOK
  <2> QED BY <1>7, <2>3, <2>4 DEF Consume, Ends
<1>8. ASSUME NEW c \in Callers, Start(c) PROVE TypeOK'
  <2>1. caller' = [caller EXCEPT ![c] = IdleCaller] /\ up /\ up' = up
    BY <1>0, <1>8 DEF Start, Ends
  <2>2. caller[c].ref \in Refs /\ caller[c].file.bytes \in Files \cup {Damaged}
    BY <1>0, <1>8, NoRowIsNone, StagingNames
    DEF Start, IsRequest, CallerRecords, Row, NoRow
  <2>3. runs' \in [Refs -> Seq(Files \cup {Damaged})]
    <3> DEFINE r == caller[c].ref
               S == Files \cup {Damaged}
    <3>1. runs \in [Refs -> Seq(S)]
      BY <1>0 DEF OthersOK
    <3>2. runs' \in {runs, [runs EXCEPT ![r] = Append(@, caller[c].file.bytes)]}
      BY <1>8 DEF Start
    <3> HIDE DEF S
    <3>3. Append(runs[r], caller[c].file.bytes) \in Seq(S)
      BY <2>2, <3>1 DEF S
    <3>4. runs' \in [Refs -> Seq(S)]
      BY <3>1, <3>2, <3>3
    <3> QED BY <3>4 DEF S
  <2>4. OthersOK'
    BY <1>0, <1>8, <2>3 DEF Start, bounds, OthersOK
  <2> QED BY <2>1, <2>4, IdleIsIdle, CallerStepTypeOK
<1>9. ASSUME NEW c \in Callers, Discard(c) PROVE TypeOK'
  <2>1. caller' = [caller EXCEPT ![c] = IdleCaller] /\ up /\ up' = up
    BY <1>0, <1>9 DEF Discard, Ends
  <2>2. OthersOK'
    BY <1>0, <1>9 DEF Discard, bounds, OthersOK
  <2> QED BY <2>1, <2>2, IdleIsIdle, CallerStepTypeOK
<1>10. CASE Tick
  BY <1>10, StagingModelBounds DEF Tick, bounds, TypeOK
<1>11. CASE Crash
  <2>0. ~ up' /\ up' \in BOOLEAN
    BY <1>11 DEF Crash
  <2>1. OthersOK'
    BY <1>0, <1>11, <2>0, StagingModelBounds DEF Crash, OthersOK
  <2>2. /\ caller' \in [Callers -> CallerRecords]
        /\ \A c \in Callers : IsRequest(caller'[c]) /\ caller'[c].pc = "idle"
    BY <1>11, IdleIsIdle DEF Crash
  <2> QED BY <2>0, <2>1, <2>2 DEF TypeOK, OthersOK, CallerRecords, IsRequest
<1>12. CASE Restart
  <2>1. OthersOK' /\ caller' = caller /\ up'
    BY <1>0, <1>12, PurgedIsTyped DEF Restart, bounds, OthersOK
  <2> QED BY <1>0, <2>1 DEF TypeOK, OthersOK, CallerRecords, IsRequest
<1>13. ASSUME NEW r \in Refs, Damage(r) PROVE TypeOK'
  <2>1. rows[r] \in Row
    BY <1>0, <1>13, NoRowIsNone DEF Damage, Held, OthersOK
  <2>2. rows' \in [Refs -> Row \cup {NoRow}]
    BY <1>0, <1>13, <2>1 DEF Damage, OthersOK, Row
  <2>3. OthersOK' /\ caller' = caller /\ up' = up
    BY <1>0, <1>13, <2>2, StagingModelBounds DEF Damage, OthersOK
  <2> QED BY <1>0, <2>3 DEF TypeOK, OthersOK, CallerRecords, IsRequest
<1>14. CASE UNCHANGED vars
  BY <1>14 DEF vars, bounds, TypeOK
<1> QED
  BY <1>1, <1>2, <1>3, <1>4, <1>5, <1>6, <1>7, <1>8, <1>9, <1>10, <1>11,
     <1>12, <1>13, <1>14 DEF Next, RequestArrives, RequestGoesOn
-----------------------------------------------------------------------------
(* Who does what.                                                          *)

\* A request that is somewhere else after a step has made it, or the process
\* has died.
LEMMA WhoMoves ==
    ASSUME TypeOK, [Next]_vars, NEW c \in Callers, caller'[c] # caller[c]
    PROVE  RequestArrives(c) \/ RequestGoesOn(c) \/ Crash
<1>1. ASSUME NEW b \in Callers, RequestArrives(b), b # c PROVE FALSE
  BY <1>1 DEF RequestArrives, Request, RequestStage, TypeOK
<1>2. ASSUME NEW b \in Callers, RequestGoesOn(b), b # c PROVE FALSE
  BY <1>2
  DEF RequestGoesOn, Purge, Full, Answer, Look, Load, Consume, Start, Discard,
      Insert, Goes, GoesAt, Ends, TypeOK
<1>3. ~ (Tick \/ Restart \/ UNCHANGED vars \/ \E r \in Refs : Damage(r))
  BY DEF Tick, Restart, vars, Damage
<1> QED BY <1>1, <1>2, <1>3 DEF Next

\* Where each step takes its request.
LEMMA WhereTo ==
    ASSUME TypeOK, NEW c \in Callers
    PROVE  /\ \A r \in Refs, pc \in {"inspect", "run", "discard"} :
                  Request(c, pc, r) =>
                      caller'[c].pc = pc /\ caller'[c].ref = r /\ r \in issued
           /\ \A f \in Files : RequestStage(c, f) =>
                  caller'[c].pc = "stage" /\ caller'[c].ref = NoRef
           /\ Purge(c) => /\ caller'[c].ref = caller[c].ref
                          /\ caller'[c].pc \in {"insert", "look", "load"}
           /\ \A r \in Refs : Insert(c, r) =>
                  caller'[c].pc = "answer" /\ caller'[c].ref = r
           /\ Full(c) \/ Answer(c) \/ Look(c) \/ Start(c) \/ Discard(c) =>
                  caller'[c] = IdleCaller
           /\ Load(c) =>
                  \/ caller'[c] = IdleCaller
                  \/ caller'[c].pc = "discard" /\ caller'[c].ref = caller[c].ref
                  \/ /\ caller'[c].pc = "consume" /\ caller'[c].ref = caller[c].ref
                     /\ caller'[c].since = caller[c].since
                     /\ caller'[c].file = rows[caller[c].ref]
                     /\ rows[caller[c].ref] # NoRow
                     /\ rows[caller[c].ref].bytes = rows[caller[c].ref].digest
           /\ Consume(c) =>
                  \/ caller'[c] = IdleCaller
                  \/ LET r == caller[c].ref IN
                     /\ caller'[c].pc = "start" /\ caller'[c].ref = r
                     /\ caller'[c].file = rows[r] /\ caller'[c].since \in Nat
                     /\ rows[r].digest = caller[c].file.digest
                     /\ rows[r].bytes = rows[r].digest
                     /\ rows[r].expires > caller'[c].since
                     /\ rows' = [rows EXCEPT ![r] = NoRow]
           /\ Crash => caller'[c] = IdleCaller
<1>0. caller \in [Callers -> CallerRecords] /\ caller[c] \in CallerRecords
  BY TypeOKSplit
<1>1. ASSUME NEW r \in Refs, NEW pc \in {"inspect", "run", "discard"},
             Request(c, pc, r)
      PROVE  caller'[c].pc = pc /\ caller'[c].ref = r /\ r \in issued
  BY <1>0, <1>1 DEF Request
<1>2. ASSUME NEW f \in Files, RequestStage(c, f)
      PROVE  caller'[c].pc = "stage" /\ caller'[c].ref = NoRef
  BY <1>0, <1>2 DEF RequestStage
<1>3. ASSUME Purge(c)
      PROVE  /\ caller'[c].ref = caller[c].ref
             /\ caller'[c].pc \in {"insert", "look", "load"}
  BY <1>0, <1>3 DEF Purge, GoesAt, CallerRecords
<1>4. ASSUME NEW r \in Refs, Insert(c, r)
      PROVE  caller'[c].pc = "answer" /\ caller'[c].ref = r
  BY <1>0, <1>4 DEF Insert, CallerRecords
<1>5. ASSUME Full(c) \/ Answer(c) \/ Look(c) \/ Start(c) \/ Discard(c)
      PROVE  caller'[c] = IdleCaller
  BY <1>0, <1>5 DEF Full, Answer, Look, Start, Discard, Ends
<1>6. ASSUME Load(c)
      PROVE  \/ caller'[c] = IdleCaller
             \/ caller'[c].pc = "discard" /\ caller'[c].ref = caller[c].ref
             \/ /\ caller'[c].pc = "consume" /\ caller'[c].ref = caller[c].ref
                /\ caller'[c].since = caller[c].since
                /\ caller'[c].file = rows[caller[c].ref]
                /\ rows[caller[c].ref] # NoRow
                /\ rows[caller[c].ref].bytes = rows[caller[c].ref].digest
  <2>1. CASE Ends(c)
    BY <1>0, <2>1 DEF Ends
  <2>2. CASE Goes(c, "discard")
    BY <1>0, <2>2 DEF Goes, CallerRecords
  <2>3. CASE /\ rows[caller[c].ref] # NoRow
             /\ rows[caller[c].ref].bytes = rows[caller[c].ref].digest
             /\ caller' = [caller EXCEPT ![c].pc = "consume",
                                         ![c].file = rows[caller[c].ref]]
    BY <1>0, <2>3 DEF CallerRecords
  <2> QED BY <1>6, <2>1, <2>2, <2>3 DEF Load
<1>7. ASSUME Consume(c)
      PROVE  \/ caller'[c] = IdleCaller
             \/ LET r == caller[c].ref IN
                /\ caller'[c].pc = "start" /\ caller'[c].ref = r
                /\ caller'[c].file = rows[r] /\ caller'[c].since \in Nat
                /\ rows[r].digest = caller[c].file.digest
                /\ rows[r].bytes = rows[r].digest
                /\ rows[r].expires > caller'[c].since
                /\ rows' = [rows EXCEPT ![r] = NoRow]
  <2> DEFINE r == caller[c].ref
  <2>1. CASE Ends(c)
    BY <1>0, <2>1 DEF Ends
  <2>2. ASSUME NEW t \in caller[c].since .. now,
               rows[r].digest = caller[c].file.digest, rows[r].expires > t,
               rows' = [rows EXCEPT ![r] = NoRow],
               rows[r].bytes = caller[c].file.digest,
               caller' = [caller EXCEPT ![c].pc = "start", ![c].since = t,
                                        ![c].file = rows[r]]
        PROVE  /\ caller'[c].pc = "start" /\ caller'[c].ref = r
               /\ caller'[c].file = rows[r] /\ caller'[c].since \in Nat
               /\ rows[r].digest = caller[c].file.digest
               /\ rows[r].bytes = rows[r].digest
               /\ rows[r].expires > caller'[c].since
               /\ rows' = [rows EXCEPT ![r] = NoRow]
    <3>1. t \in Nat
      BY TimesAreTimes
    <3>2. /\ caller'[c].pc = "start" /\ caller'[c].ref = r
          /\ caller'[c].file = rows[r] /\ caller'[c].since = t
      BY <1>0, <2>2 DEF CallerRecords
    <3> QED BY <2>2, <3>1, <3>2
  <2>3. PICK t \in caller[c].since .. now :
            IF rows[r].digest = caller[c].file.digest /\ rows[r].expires > t
            THEN /\ rows' = [rows EXCEPT ![r] = NoRow]
                 /\ IF rows[r].bytes = caller[c].file.digest
                    THEN caller' = [caller EXCEPT ![c].pc = "start",
                                       ![c].since = t, ![c].file = rows[r]]
                    ELSE Ends(c)
            ELSE Ends(c) /\ UNCHANGED rows
    BY <1>7 DEF Consume
  <2> QED BY <2>1, <2>2, <2>3
<1>8. ASSUME Crash PROVE caller'[c] = IdleCaller
  BY <1>8 DEF Crash
<1> QED BY <1>1, <1>2, <1>3, <1>4, <1>5, <1>6, <1>7, <1>8

\* A reference is drawn once, and a row of a drawn reference never comes back.
LEMMA RowsOnlyGo ==
    ASSUME TypeOK, [Next]_vars, NEW r \in Refs, staged[r] # NoFile
    PROVE  /\ staged'[r] = staged[r]
           /\ \/ rows'[r] = NoRow
              \/ /\ rows[r] # NoRow /\ rows'[r] # NoRow
                 /\ rows'[r].digest = rows[r].digest
                 /\ rows'[r].expires = rows[r].expires
<1>0. rows \in [Refs -> Row \cup {NoRow}] /\ staged \in [Refs -> Files \cup {NoFile}]
  BY DEF TypeOK
<1>1. ASSUME NEW c \in Callers, RequestArrives(c)
      PROVE  staged' = staged /\ rows' = rows
  BY <1>1 DEF RequestArrives, Request, RequestStage
<1>2. ASSUME NEW c \in Callers, NEW p \in Refs, Insert(c, p)
      PROVE  staged'[r] = staged[r] /\ rows'[r] = rows[r]
  BY <1>0, <1>2 DEF Insert
<1>3. ASSUME NEW t, rows' = Purged(t)
      PROVE  rows'[r] \in {rows[r], NoRow}
  BY <1>0, <1>3 DEF Purged
<1>4. ASSUME NEW c \in Callers, RequestGoesOn(c), ~ \E p \in Refs : Insert(c, p)
      PROVE  staged' = staged /\ rows'[r] \in {rows[r], NoRow}
  <2>1. CASE Purge(c)
    BY <1>3, <2>1 DEF Purge
  <2>2. CASE Consume(c)
    BY <1>0, <2>2 DEF Consume
  <2>3. CASE Discard(c)
    BY <1>0, <2>3 DEF Discard
  <2>4. CASE Full(c) \/ Answer(c) \/ Look(c) \/ Load(c) \/ Start(c)
    BY <2>4 DEF Full, Answer, Look, Load, Start
  <2> QED BY <1>4, <2>1, <2>2, <2>3, <2>4 DEF RequestGoesOn
<1>5. CASE Tick \/ Crash \/ UNCHANGED vars
  BY <1>5 DEF Tick, Crash, vars
<1>6. CASE Restart
  BY <1>3, <1>6 DEF Restart
<1>7. ASSUME NEW p \in Refs, Damage(p)
      PROVE  /\ staged' = staged
             /\ \/ rows'[r] = rows[r]
                \/ /\ rows[r] # NoRow /\ rows'[r] # NoRow
                   /\ rows'[r].digest = rows[r].digest
                   /\ rows'[r].expires = rows[r].expires
  <2>1. CASE p # r
    BY <1>0, <1>7, <2>1 DEF Damage
  <2>2. CASE p = r
    <3>1. rows[r] \in Row
      BY <1>0, <1>7, <2>2, NoRowIsNone DEF Damage, Held
    <3>2. rows'[r] = [rows[r] EXCEPT !.bytes = Damaged]
      BY <1>0, <1>7, <2>2 DEF Damage
    <3>3. /\ rows'[r] \in Row
          /\ rows'[r].digest = rows[r].digest /\ rows'[r].expires = rows[r].expires
      BY <3>1, <3>2 DEF Row
    <3> QED BY <1>7, <3>1, <3>3, NoRowIsNone DEF Damage
  <2> QED BY <2>1, <2>2
<1> QED BY <1>1, <1>2, <1>4, <1>5, <1>6, <1>7 DEF Next, Restart

\* Only an insertion gives an empty reference a row.
LEMMA RowsOfFresh ==
    ASSUME TypeOK, [Next]_vars, NEW r \in Refs, rows[r] = NoRow, rows'[r] # NoRow
    PROVE  \E c \in Callers : Insert(c, r)
<1>0. rows \in [Refs -> Row \cup {NoRow}]
  BY DEF TypeOK
<1>1. ASSUME NEW c \in Callers, RequestArrives(c) PROVE FALSE
  BY <1>1 DEF RequestArrives, Request, RequestStage
<1>2. ASSUME NEW t, rows' = Purged(t) PROVE FALSE
  BY <1>0, <1>2 DEF Purged
<1>3. ASSUME NEW c \in Callers, RequestGoesOn(c), ~ \E p \in Refs : Insert(c, p)
      PROVE  FALSE
  <2>1. CASE Purge(c)
    BY <1>2, <2>1 DEF Purge
  <2>2. CASE Consume(c)
    BY <1>0, <2>2 DEF Consume
  <2>3. CASE Discard(c)
    BY <1>0, <2>3 DEF Discard
  <2>4. CASE Full(c) \/ Answer(c) \/ Look(c) \/ Load(c) \/ Start(c)
    BY <2>4 DEF Full, Answer, Look, Load, Start
  <2> QED BY <1>3, <2>1, <2>2, <2>3, <2>4 DEF RequestGoesOn
<1>4. ASSUME NEW c \in Callers, NEW p \in Refs, Insert(c, p), p # r PROVE FALSE
  BY <1>0, <1>4 DEF Insert
<1>5. ASSUME NEW p \in Refs, Damage(p) PROVE FALSE
  BY <1>0, <1>5 DEF Damage, Held
<1>6. CASE Tick \/ Crash \/ UNCHANGED vars
  BY <1>6 DEF Tick, Crash, vars
<1>7. CASE Restart
  BY <1>2, <1>7 DEF Restart
<1> QED BY <1>1, <1>3, <1>4, <1>5, <1>6, <1>7 DEF Next

\* Only the start of an analysis is counted as one.
LEMMA RunsStep ==
    ASSUME TypeOK, [Next]_vars, NEW r \in Refs, runs'[r] # runs[r]
    PROVE  \E c \in Callers :
               /\ Start(c) /\ caller[c].ref = r
               /\ runs'[r] = Append(runs[r], caller[c].file.bytes)
<1>0. runs \in [Refs -> Seq(Files \cup {Damaged})]
  BY DEF TypeOK
<1>1. PICK c \in Callers : Start(c)
  BY DEF Next, vars, RequestArrives, RequestGoesOn, Request, RequestStage, Purge,
         Full, Answer, Look, Load, Consume, Discard, Insert, Tick, Crash, Restart,
         Damage
<1>2. runs' = [runs EXCEPT ![caller[c].ref] = Append(@, caller[c].file.bytes)]
  BY <1>1 DEF Start
<1>3. caller[c].ref = r
  BY <1>0, <1>2
<1> QED BY <1>0, <1>1, <1>2, <1>3
-----------------------------------------------------------------------------
(* The rest of the invariant.                                              *)

\* What IInv says of a request's reference.
LEMMA RefOf ==
    ASSUME TypeOK, RefsAreStaged, NEW c \in Callers,
           caller[c].pc \notin {"idle", "stage", "insert"}
    PROVE  caller[c].ref \in Refs /\ staged[caller[c].ref] # NoFile
BY DEF TypeOK, RefsAreStaged

\* What is stored or was analysed stays what was staged.
LEMMA NextFilesAreStaged ==
    ASSUME IInv, [Next]_vars PROVE FilesAreStaged'
<1> USE DEF IInv
<1> SUFFICES ASSUME NEW r \in Refs
             PROVE  /\ rows'[r] # NoRow => rows'[r].digest = staged'[r]
                    /\ runs'[r] # <<>> => rows'[r] = NoRow /\ staged'[r] # NoFile
  BY DEF FilesAreStaged
<1>1. ASSUME rows'[r] # NoRow PROVE rows'[r].digest = staged'[r]
  <2>1. CASE staged[r] # NoFile
    BY <1>1, <2>1, RowsOnlyGo DEF FilesAreStaged
  <2>2. CASE staged[r] = NoFile
    <3>1. rows[r] = NoRow
      BY <2>2, NoRowIsNone, StagingNames DEF FilesAreStaged, TypeOK
    <3>2. PICK c \in Callers : Insert(c, r)
      BY <1>1, <3>1, RowsOfFresh
    <3> QED BY <3>2 DEF Insert, TypeOK
  <2> QED BY <2>1, <2>2
<1>2. ASSUME runs'[r] # <<>> PROVE rows'[r] = NoRow /\ staged'[r] # NoFile
  <2>1. rows[r] = NoRow /\ staged[r] # NoFile
    <3>1. CASE runs'[r] = runs[r]
      BY <1>2, <3>1 DEF FilesAreStaged
    <3>2. CASE runs'[r] # runs[r]
      <4>1. PICK c \in Callers : Start(c) /\ caller[c].ref = r
        BY <3>2, RunsStep
      <4>2. caller[c].pc = "start"
        BY <4>1 DEF Start
      <4> QED BY <4>1, <4>2, RefOf DEF HandsAreSound
    <3> QED BY <3>1, <3>2
  <2> QED BY <2>1, RowsOnlyGo
<1> QED BY <1>1, <1>2

\* References that clients know, or requests have, were drawn.
LEMMA NextRefsAreStaged ==
    ASSUME IInv, [Next]_vars PROVE RefsAreStaged'
<1> USE DEF IInv
<1>0. \A r \in Refs : staged[r] # NoFile => staged'[r] # NoFile
  BY RowsOnlyGo
<1>1. ASSUME NEW r \in issued' PROVE staged'[r] # NoFile
  <2>1. CASE r \in issued
    BY <1>0, <2>1 DEF RefsAreStaged, TypeOK
  <2>2. CASE r \notin issued
    <3>1. PICK c \in Callers : Answer(c)
      BY <1>1, <2>2
      DEF Next, vars, RequestArrives, RequestGoesOn, Request, RequestStage, Purge,
          Full, Look, Load, Consume, Start, Discard, Insert, Tick, Crash, Restart,
          Damage
    <3>2. r = caller[c].ref /\ caller[c].pc = "answer"
      BY <1>1, <2>2, <3>1 DEF Answer
    <3> QED BY <1>0, <3>2, RefOf
  <2> QED BY <2>1, <2>2
<1>2. ASSUME NEW c \in Callers, caller'[c].ref # NoRef
      PROVE  staged'[caller'[c].ref] # NoFile
  <2>1. CASE caller'[c].ref = caller[c].ref
    BY <1>0, <1>2, <2>1 DEF RefsAreStaged, TypeOK
  <2>2. CASE caller'[c].ref # caller[c].ref
    <3>1. CASE \E r \in Refs : Insert(c, r)
      <4>1. PICK r \in Refs : Insert(c, r)
        BY <3>1
      <4>2. caller'[c].ref = r /\ caller[c].file.digest \in Files
        BY <4>1, WhereTo DEF Insert, TypeOK
      <4> QED BY <4>1, <4>2, StagingNames DEF Insert, TypeOK
    <3>2. CASE \E r \in Refs, pc \in {"inspect", "run", "discard"} : Request(c, pc, r)
      BY <1>0, <3>2, WhereTo DEF RefsAreStaged, TypeOK
    <3>3. CASE ~ \E r \in Refs : \/ Insert(c, r)
                                 \/ \E pc \in {"inspect", "run", "discard"} :
                                        Request(c, pc, r)
      BY <1>2, <2>2, <3>3, WhoMoves, WhereTo, IdleIsIdle
      DEF RequestArrives, RequestGoesOn
    <3> QED BY <3>1, <3>2, <3>3
  <2> QED BY <2>1, <2>2
<1> QED BY <1>1, <1>2 DEF RefsAreStaged

\* A consumed file is in one request only.
LEMMA NextOneTaker ==
    ASSUME IInv, [Next]_vars PROVE OneTaker'
<1> USE DEF IInv
<1>1. ASSUME NEW c \in Callers, caller'[c].pc = "start", caller'[c] # caller[c]
      PROVE  Consume(c) /\ caller'[c].ref \in Refs /\ rows[caller'[c].ref] # NoRow
  <2>1. Consume(c)
    <3>1. CASE RequestArrives(c)
      BY <1>1, <3>1, WhereTo DEF RequestArrives
    <3>2. CASE RequestGoesOn(c)
      BY <1>1, <3>2, WhereTo, IdleIsIdle DEF RequestGoesOn
    <3>3. CASE Crash
      BY <1>1, <3>3, WhereTo, IdleIsIdle
    <3> QED BY <1>1, <3>1, <3>2, <3>3, WhoMoves
  <2>2. /\ caller[c].pc = "consume" /\ caller[c].ref \in Refs
        /\ caller[c].file.digest \in Files
    BY <2>1, RefOf DEF Consume, TypeOK
  <2>3. /\ caller'[c].ref = caller[c].ref
        /\ rows[caller[c].ref].digest = caller[c].file.digest
    BY <1>1, <2>1, WhereTo, IdleIsIdle
  <2> QED BY <2>1, <2>2, <2>3, StagingNames DEF NoRow
<1>2. ASSUME NEW b \in Callers, NEW c \in Callers, b # c,
             caller'[b].pc = "start", caller'[c].pc = "start",
             caller'[b].ref = caller'[c].ref, caller'[b] # caller[b]
      PROVE  FALSE
  <2>1. Consume(b) /\ rows[caller'[b].ref] # NoRow
    BY <1>1, <1>2
  <2>2. caller'[c] = caller[c]
    BY <1>2, <2>1 DEF Consume, Ends, TypeOK
  <2> QED BY <1>2, <2>1, <2>2 DEF HandsAreSound
<1>3. ASSUME NEW b \in Callers, NEW c \in Callers,
             caller'[b].pc = "start", caller'[c].pc = "start",
             caller'[b].ref = caller'[c].ref
      PROVE  b = c
  <2>1. CASE caller'[b] = caller[b] /\ caller'[c] = caller[c]
    BY <1>3, <2>1 DEF OneTaker
  <2> QED BY <1>2, <1>3, <2>1
<1> QED BY <1>3 DEF OneTaker

\* How a request comes to a Run's steps.
LEMMA HowRunGoesOn ==
    ASSUME TypeOK, [Next]_vars, NEW c \in Callers, caller'[c] # caller[c]
    PROVE  /\ caller'[c].pc = "load" => Purge(c)
           /\ caller'[c].pc = "consume" => Load(c)
           /\ caller'[c].pc = "start" => Consume(c)
<1>1. CASE RequestArrives(c)
  BY <1>1, WhereTo DEF RequestArrives
<1>2. CASE RequestGoesOn(c)
  BY <1>2, WhereTo, IdleIsIdle DEF RequestGoesOn
<1>3. CASE Crash
  BY <1>3, WhereTo, IdleIsIdle
<1> QED BY <1>1, <1>2, <1>3, WhoMoves

\* What a request has in hand stays sound, whatever the others do to the row.
LEMMA NextHandsAreSound ==
    ASSUME IInv, [Next]_vars PROVE HandsAreSound'
<1> USE DEF IInv
<1> SUFFICES ASSUME NEW c \in Callers
             PROVE  /\ caller'[c].pc = "load" =>
                           \/ rows'[caller'[c].ref] = NoRow
                           \/ rows'[caller'[c].ref].expires > caller'[c].since
                    /\ caller'[c].pc \in {"consume", "start"} =>
                           /\ caller'[c].file.digest = staged'[caller'[c].ref]
                           /\ caller'[c].file.bytes = caller'[c].file.digest
                           /\ caller'[c].file.expires > caller'[c].since
                    /\ caller'[c].pc = "start" =>
                           /\ rows'[caller'[c].ref] = NoRow
                           /\ runs'[caller'[c].ref] = <<>>
  BY DEF HandsAreSound
<1> DEFINE r == caller[c].ref
<1>1. CASE caller'[c] = caller[c]
  <2>1. CASE caller[c].pc = "load"
    <3>1. r \in Refs /\ staged[r] # NoFile
      BY <2>1, RefOf
    <3> QED BY <1>1, <2>1, <3>1, RowsOnlyGo DEF HandsAreSound
  <2>2. CASE caller[c].pc \in {"consume", "start"}
    <3>1. r \in Refs /\ staged[r] # NoFile
      BY <2>2, RefOf
    <3>2. staged'[r] = staged[r] /\ (rows[r] = NoRow => rows'[r] = NoRow)
      BY <3>1, RowsOnlyGo
    <3>3. caller[c].pc = "start" => runs'[r] = runs[r]
      <4> SUFFICES ASSUME caller[c].pc = "start", runs'[r] # runs[r] PROVE FALSE
        OBVIOUS
      <4>1. PICK b \in Callers : Start(b) /\ caller[b].ref = r
        BY <3>1, RunsStep
      <4>2. b = c
        BY <4>1 DEF Start, OneTaker
      <4> QED BY <1>1, <4>1, <4>2, WhereTo, IdleIsIdle
    <3> QED BY <1>1, <2>2, <3>2, <3>3 DEF HandsAreSound
  <2> QED BY <1>1, <2>1, <2>2
<1>2. ASSUME caller'[c] # caller[c], caller'[c].pc = "load"
      PROVE  rows'[caller'[c].ref] = NoRow \/
             rows'[caller'[c].ref].expires > caller'[c].since
  <2>1. PICK t \in caller[c].since .. now :
            /\ rows' = Purged(t)
            /\ \/ caller[c].pc = "stage" /\ GoesAt(c, "insert", t)
               \/ caller[c].pc = "inspect" /\ GoesAt(c, "look", t)
               \/ caller[c].pc = "run" /\ GoesAt(c, "load", t)
    BY <1>2, HowRunGoesOn DEF Purge
  <2>2. PICK pc \in CallerPCs : GoesAt(c, pc, t)
    BY <2>1 DEF CallerPCs
  <2>3. /\ caller'[c].since = t /\ caller'[c].ref = r
        /\ caller[c].pc = "run"
    BY <1>2, <2>1, <2>2 DEF GoesAt, TypeOK
  <2>4. r \in Refs
    BY <2>3, RefOf
  <2>5. rows'[r] = NoRow \/ (rows'[r] = rows[r] /\ rows[r] # NoRow
                             /\ ~ (rows[r].expires <= t))
    BY <2>1, <2>4 DEF Purged, Expired, Held
  <2>6. t \in Nat /\ (rows[r] # NoRow => rows[r].expires \in Nat)
    BY <2>4, TimesAreTimes, NoRowIsNone DEF TypeOK, Row
  <2> QED BY <2>3, <2>5, <2>6
<1>3. ASSUME caller'[c] # caller[c], caller'[c].pc = "consume"
      PROVE  /\ caller'[c].file.digest = staged'[caller'[c].ref]
             /\ caller'[c].file.bytes = caller'[c].file.digest
             /\ caller'[c].file.expires > caller'[c].since
  <2>1. Load(c) /\ caller[c].pc = "load"
    BY <1>3, HowRunGoesOn DEF Load
  <2>2. r \in Refs /\ staged[r] # NoFile
    BY <2>1, RefOf
  <2>3. /\ caller'[c].ref = r /\ caller'[c].since = caller[c].since
        /\ caller'[c].file = rows[r] /\ rows[r] # NoRow
        /\ rows[r].bytes = rows[r].digest
    BY <1>3, <2>1, WhereTo, IdleIsIdle
  <2>4. rows[r].digest = staged[r] /\ rows[r].expires > caller[c].since
    BY <2>1, <2>2, <2>3 DEF FilesAreStaged, HandsAreSound
  <2> QED BY <2>2, <2>3, <2>4, RowsOnlyGo
<1>4. ASSUME caller'[c] # caller[c], caller'[c].pc = "start"
      PROVE  /\ caller'[c].file.digest = staged'[caller'[c].ref]
             /\ caller'[c].file.bytes = caller'[c].file.digest
             /\ caller'[c].file.expires > caller'[c].since
             /\ rows'[caller'[c].ref] = NoRow
             /\ runs'[caller'[c].ref] = <<>>
  <2>1. Consume(c) /\ caller[c].pc = "consume"
    BY <1>4, HowRunGoesOn DEF Consume
  <2>2. r \in Refs /\ staged[r] # NoFile
    BY <2>1, RefOf
  <2>3. /\ caller'[c].ref = r /\ caller'[c].file = rows[r]
        /\ rows[r].digest = caller[c].file.digest
        /\ rows[r].bytes = rows[r].digest
        /\ rows[r].expires > caller'[c].since
        /\ rows' = [rows EXCEPT ![r] = NoRow]
    BY <1>4, <2>1, WhereTo, IdleIsIdle
  <2>4. rows[r].digest \in Files /\ rows[r] # NoRow
    BY <2>1, <2>3, StagingNames DEF TypeOK, NoRow
  <2>5. rows[r].digest = staged[r] /\ runs[r] = <<>>
    BY <2>2, <2>4 DEF FilesAreStaged
  <2>6. runs' = runs /\ rows'[r] = NoRow
    BY <2>1, <2>2, <2>3 DEF Consume, TypeOK
  <2> QED BY <2>2, <2>3, <2>5, <2>6, RowsOnlyGo
<1> QED BY <1>1, <1>2, <1>3, <1>4

\* What an analysis is created from is what was staged.
LEMMA NextAnalysesAreOfStagedBytes ==
    ASSUME IInv, [Next]_vars PROVE AnalysesAreOfStagedBytes'
<1> USE DEF IInv
<1> SUFFICES ASSUME NEW r \in Refs, NEW i \in 1 .. Len(runs'[r])
             PROVE  runs'[r][i] = staged'[r]
  BY DEF AnalysesAreOfStagedBytes
<1>1. CASE runs'[r] = runs[r]
  <2>1. runs[r] # <<>>
    BY <1>1
  <2>2. staged[r] # NoFile
    BY <2>1 DEF FilesAreStaged
  <2> QED BY <1>1, <2>2, RowsOnlyGo DEF AnalysesAreOfStagedBytes
<1>2. CASE runs'[r] # runs[r]
  <2>1. PICK c \in Callers : /\ Start(c) /\ caller[c].ref = r
                             /\ runs'[r] = Append(runs[r], caller[c].file.bytes)
    BY <1>2, RunsStep
  <2>2. /\ runs[r] = <<>> /\ caller[c].file.bytes = staged[r]
        /\ staged[r] # NoFile
    BY <2>1, RefOf DEF Start, HandsAreSound
  <2>3. runs'[r] = <<staged[r]>>
    BY <2>1, <2>2
  <2>4. i = 1
    BY <2>3
  <2> QED BY <2>2, <2>3, <2>4, RowsOnlyGo
<1> QED BY <1>1, <1>2

\* The invariant holds at first.
LEMMA InitIInv == Init => IInv
<1> SUFFICES ASSUME Init PROVE IInv
  OBVIOUS
<1>1. TypeOK
  BY InitTypeOK
<1>2. FilesAreStaged /\ AnalysesAreOfStagedBytes
  BY DEF Init, FilesAreStaged, AnalysesAreOfStagedBytes
<1>3. RefsAreStaged /\ HandsAreSound /\ OneTaker
  BY IdleIsIdle DEF Init, RefsAreStaged, HandsAreSound, OneTaker
<1> QED BY <1>1, <1>2, <1>3 DEF IInv

\* Every step preserves it, part by part.
LEMMA NextIInv == IInv /\ [Next]_vars => IInv'
<1> SUFFICES ASSUME IInv, [Next]_vars PROVE IInv'
  OBVIOUS
<1>1. TypeOK'
  BY NextTypeOK DEF IInv
<1> QED
  BY <1>1, NextFilesAreStaged, NextRefsAreStaged, NextHandsAreSound, NextOneTaker,
     NextAnalysesAreOfStagedBytes DEF IInv
-----------------------------------------------------------------------------
(* The life of a reference.                                                *)

Taken(r) == \E c \in Callers : caller[c].pc = "start" /\ caller[c].ref = r

\* Of a reference that holds a file, nobody has the file and no analysis was
\* made; of one that a Run took, the row is gone.
LEMMA StatusIs ==
    ASSUME IInv, NEW r \in Refs
    PROVE  /\ r \in Held => ~ Taken(r) /\ runs[r] = <<>> /\ staged[r] # NoFile
           /\ Taken(r) => r \notin Held /\ runs[r] = <<>> /\ staged[r] # NoFile
           /\ runs[r] # <<>> => staged[r] # NoFile
<1> USE DEF IInv
<1>1. r \in Held => staged[r] # NoFile
  BY NoRowIsNone, StagingNames DEF Held, FilesAreStaged, TypeOK
<1>2. r \in Held \/ runs[r] # <<>> => ~ Taken(r)
  BY DEF Held, Taken, HandsAreSound
<1>3. Taken(r) => staged[r] # NoFile
  BY DEF Taken, RefsAreStaged, TypeOK
<1> QED BY <1>1, <1>2, <1>3 DEF FilesAreStaged, Held

\* Nothing happened to a reference.
LEMMA StatusStays ==
    ASSUME NEW r \in Refs, rows'[r] = NoRow <=> rows[r] = NoRow,
           runs'[r] = <<>> <=> runs[r] = <<>>, Taken(r)' <=> Taken(r),
           staged'[r] = staged[r]
    PROVE  Status(r)' = Status(r)
BY DEF Status, Held, Taken

\* A step of one request is no step of another.
LEMMA OthersStay ==
    ASSUME TypeOK, NEW c \in Callers, RequestArrives(c) \/ RequestGoesOn(c),
           NEW b \in Callers, b # c
    PROVE  caller'[b] = caller[b]
<1>1. CASE RequestArrives(c)
  BY <1>1 DEF RequestArrives, Request, RequestStage, TypeOK
<1>2. CASE RequestGoesOn(c)
  BY <1>2
  DEF RequestGoesOn, Purge, Full, Answer, Look, Load, Consume, Start, Discard,
      Insert, Goes, GoesAt, Ends, TypeOK
<1> QED BY <1>1, <1>2

\* A step of a request that neither has a file nor takes one.
LEMMA TakenStays ==
    ASSUME TypeOK, NEW c \in Callers, RequestArrives(c) \/ RequestGoesOn(c),
           NEW r, caller[c].pc = "start" => caller[c].ref # r,
           caller'[c].pc = "start" => caller'[c].ref # r
    PROVE  Taken(r)' <=> Taken(r)
BY OthersStay DEF Taken

Statuses   == [r \in Refs |-> Status(r)]
AnalysesOf == [r \in Refs |-> Len(runs[r])]

\* What a step says to the client, in five ways.  It may leave all references
\* alone.
LEMMA ReferenceStutters ==
    ASSUME \A r \in Refs : Status(r)' = Status(r), runs' = runs
    PROVE  UNCHANGED <<Statuses, AnalysesOf>>
BY DEF Statuses, AnalysesOf

\* It may store a file under a new reference.
LEMMA ReferenceStages ==
    ASSUME NEW p \in Refs, Status(p) = "fresh", Status(p)' = "held",
           \A r \in Refs \ {p} : Status(r)' = Status(r), runs' = runs
    PROVE  Reference!Next
<1>1. Statuses' = [Statuses EXCEPT ![p] = "held"] /\ Statuses[p] = "fresh"
  BY DEF Statuses
<1>2. AnalysesOf' = AnalysesOf
  BY DEF AnalysesOf
<1> QED
  BY <1>1, <1>2 DEF Statuses, AnalysesOf, Reference!Next, Reference!Stage,
                    Reference!Moves

\* A Run may take the file.
LEMMA ReferenceIsTaken ==
    ASSUME NEW p \in Refs, Status(p) = "held", Status(p)' = "taken",
           \A r \in Refs \ {p} : Status(r)' = Status(r), runs' = runs
    PROVE  Reference!Next
<1>1. Statuses' = [Statuses EXCEPT ![p] = "taken"] /\ Statuses[p] = "held"
  BY DEF Statuses
<1>2. AnalysesOf' = AnalysesOf
  BY DEF AnalysesOf
<1> QED
  BY <1>1, <1>2 DEF Statuses, AnalysesOf, Reference!Next, Reference!Take,
                    Reference!Moves

\* An analysis may be made of it.
LEMMA ReferenceStarts ==
    ASSUME NEW p \in Refs, Status(p) = "taken", Status(p)' = "used",
           \A r \in Refs \ {p} : Status(r)' = Status(r) /\ runs'[r] = runs[r],
           Len(runs'[p]) = Len(runs[p]) + 1
    PROVE  Reference!Next
<1>1. Statuses' = [Statuses EXCEPT ![p] = "used"] /\ Statuses[p] = "taken"
  BY DEF Statuses
<1>2. AnalysesOf' = [AnalysesOf EXCEPT ![p] = AnalysesOf[p] + 1]
  BY DEF AnalysesOf
<1> QED
  BY <1>1, <1>2 DEF Statuses, AnalysesOf, Reference!Next, Reference!Start,
                    Reference!Moves

\* References may be lost, or none.
LEMMA ReferenceIsLost ==
    ASSUME NEW R \in SUBSET Refs,
           \A r \in R : Status(r) \in {"held", "taken"} /\ Status(r)' = "gone",
           \A r \in Refs \ R : Status(r)' = Status(r), runs' = runs
    PROVE  [Reference!Next]_<<Statuses, AnalysesOf>>
<1>1. CASE R = {}
  BY <1>1, ReferenceStutters
<1>2. CASE R # {}
  <2>1. /\ Statuses' = [r \in Refs |-> IF r \in R THEN "gone" ELSE Statuses[r]]
        /\ \A r \in R : Statuses[r] \in {"held", "taken"}
    BY DEF Statuses
  <2>2. AnalysesOf' = AnalysesOf
    BY DEF AnalysesOf
  <2> QED
    BY <1>2, <2>1, <2>2 DEF Statuses, AnalysesOf, Reference!Next, Reference!Lose
<1> QED BY <1>1, <1>2

\* Rows that expire are lost to their references.
LEMMA PurgeLoses ==
    ASSUME IInv, NEW t, rows' = Purged(t), UNCHANGED <<runs, staged>>,
           \A r \in Refs : Taken(r)' <=> Taken(r)
    PROVE  [Reference!Next]_<<Statuses, AnalysesOf>>
<1>0. rows \in [Refs -> Row \cup {NoRow}]
  BY DEF IInv, TypeOK
<1>1. ASSUME NEW r \in Expired(t)
      PROVE  r \in Refs /\ Status(r) = "held" /\ Status(r)' = "gone"
  <2>1. r \in Refs /\ r \in Held
    BY DEF Expired, Held
  <2>2. rows'[r] = NoRow
    BY <2>1 DEF Purged
  <2>3. ~ Taken(r)' /\ runs'[r] = <<>> /\ staged'[r] # NoFile
    BY <2>1, StatusIs
  <2> QED BY <2>1, <2>2, <2>3 DEF Status, Taken, Held
<1>2. ASSUME NEW r \in Refs \ Expired(t) PROVE Status(r)' = Status(r)
  BY <1>2, StatusStays DEF Purged
<1>3. Expired(t) \in SUBSET Refs
  BY DEF Expired, Held
<1> QED BY <1>1, <1>2, <1>3, ReferenceIsLost

\* A row that is deleted is lost to its reference, if it was there.
LEMMA DeleteLoses ==
    ASSUME IInv, NEW p \in Refs, rows' = [rows EXCEPT ![p] = NoRow],
           UNCHANGED <<runs, staged>>, \A r \in Refs : Taken(r)' <=> Taken(r)
    PROVE  [Reference!Next]_<<Statuses, AnalysesOf>>
<1>0. rows \in [Refs -> Row \cup {NoRow}]
  BY DEF IInv, TypeOK
<1> DEFINE R == {r \in {p} : r \in Held}
<1>1. ASSUME NEW r \in R PROVE Status(r) = "held" /\ Status(r)' = "gone"
  <2>1. r = p /\ r \in Held
    OBVIOUS
  <2>2. ~ Taken(r)' /\ runs'[r] = <<>> /\ staged'[r] # NoFile /\ rows'[r] = NoRow
    BY <1>0, <2>1, StatusIs
  <2> QED BY <2>1, <2>2 DEF Status, Taken, Held
<1>2. ASSUME NEW r \in Refs \ R PROVE Status(r)' = Status(r)
  BY <1>0, <1>2, StatusStays DEF Held
<1> QED BY <1>1, <1>2, ReferenceIsLost

\* Every step is a step of the references, or leaves them alone.
LEMMA NextReference ==
    ASSUME IInv, [Next]_vars
    PROVE  [Reference!Next]_<<Statuses, AnalysesOf>>
<1> USE DEF IInv
<1>0. rows \in [Refs -> Row \cup {NoRow}] /\ runs \in [Refs -> Seq(Files \cup {Damaged})]
  BY DEF TypeOK
<1>1. ASSUME UNCHANGED <<runs, staged>>,
             \A r \in Refs : /\ rows'[r] = NoRow <=> rows[r] = NoRow
                             /\ Taken(r)' <=> Taken(r)
      PROVE  UNCHANGED <<Statuses, AnalysesOf>>
  BY <1>1, StatusStays, ReferenceStutters
<1>2. ASSUME NEW c \in Callers,
             RequestArrives(c) \/ Full(c) \/ Answer(c) \/ Look(c) \/ Load(c)
      PROVE  UNCHANGED <<Statuses, AnalysesOf>>
  <2>1. UNCHANGED <<rows, runs, staged>>
    BY <1>2 DEF RequestArrives, Request, RequestStage, Full, Answer, Look, Load
  <2>2. caller[c].pc # "start" /\ caller'[c].pc # "start"
    BY <1>2, WhereTo, IdleIsIdle
    DEF RequestArrives, Request, RequestStage, Full, Answer, Look, Load
  <2>3. \A r \in Refs : Taken(r)' <=> Taken(r)
    BY <1>2, <2>2, TakenStays DEF RequestGoesOn
  <2> QED BY <1>1, <2>1, <2>3
<1>3. ASSUME NEW c \in Callers, Purge(c)
      PROVE  [Reference!Next]_<<Statuses, AnalysesOf>>
  <2>1. caller[c].pc # "start" /\ caller'[c].pc # "start"
    BY <1>3, WhereTo DEF Purge
  <2>2. \A r \in Refs : Taken(r)' <=> Taken(r)
    BY <1>3, <2>1, TakenStays DEF RequestGoesOn
  <2> QED BY <1>3, <2>2, PurgeLoses DEF Purge
<1>4. ASSUME NEW c \in Callers, NEW p \in Refs, Insert(c, p) PROVE Reference!Next
  <2>1. staged[p] = NoFile /\ caller[c].file.digest \in Files /\ runs' = runs
    BY <1>4 DEF Insert, TypeOK
  <2>2. \A r \in Refs : Taken(r)' <=> Taken(r)
    BY <1>4, WhereTo, TakenStays DEF Insert, RequestGoesOn
  <2>3. Status(p) = "fresh"
    BY <2>1, StatusIs DEF Status, Taken
  <2>4. rows'[p] # NoRow
    BY <1>0, <1>4, <2>1, StagingNames DEF Insert, NoRow
  <2>5. Status(p)' = "held"
    BY <2>4 DEF Status, Held
  <2>6. ASSUME NEW r \in Refs \ {p} PROVE Status(r)' = Status(r)
    <3>1. rows'[r] = rows[r] /\ staged'[r] = staged[r]
      BY <1>4, <2>6 DEF Insert, TypeOK
    <3> QED BY <2>1, <2>2, <3>1, StatusStays
  <2> QED BY <2>1, <2>3, <2>5, <2>6, ReferenceStages
<1>5. ASSUME NEW c \in Callers, Consume(c)
      PROVE  [Reference!Next]_<<Statuses, AnalysesOf>>
  <2>0. PICK p \in Refs : p = caller[c].ref
    BY <1>5, RefOf DEF Consume
  <2>1. caller[c].pc = "consume" /\ UNCHANGED <<runs, staged>>
    BY <1>5 DEF Consume
  <2>2. CASE caller'[c].pc # "start"
    <3>1. \A r \in Refs : Taken(r)' <=> Taken(r)
      BY <1>5, <2>0, <2>1, <2>2, TakenStays DEF RequestGoesOn
    <3>2. rows' = rows \/ rows' = [rows EXCEPT ![p] = NoRow]
      BY <1>5, <2>0 DEF Consume
    <3> QED BY <1>1, <2>0, <2>1, <3>1, <3>2, DeleteLoses
  <2>3. CASE caller'[c].pc = "start"
    <3>1. /\ caller'[c].ref = p /\ rows[p].digest = caller[c].file.digest
          /\ rows' = [rows EXCEPT ![p] = NoRow]
      BY <1>5, <2>0, <2>3, WhereTo, IdleIsIdle
    <3>2. p \in Held
      BY <2>0, <2>1, <3>1, StagingNames DEF TypeOK, Held, NoRow
    <3>3. Status(p) = "held"
      BY <3>2 DEF Status
    <3>4. Taken(p)' /\ runs'[p] = <<>> /\ rows'[p] = NoRow
      BY <1>0, <2>0, <2>1, <2>3, <3>1, <3>2, StatusIs DEF Taken
    <3>5. Status(p)' = "taken"
      BY <3>4 DEF Status, Held, Taken
    <3>6. ASSUME NEW r \in Refs \ {p} PROVE Status(r)' = Status(r)
      <4>1. Taken(r)' <=> Taken(r)
        BY <1>5, <2>0, <2>1, <3>1, <3>6, TakenStays DEF RequestGoesOn
      <4> QED BY <1>0, <2>0, <2>1, <3>1, <3>6, <4>1, StatusStays
    <3> QED BY <2>0, <2>1, <3>3, <3>5, <3>6, ReferenceIsTaken
  <2> QED BY <2>2, <2>3
<1>6. ASSUME NEW c \in Callers, Start(c)
      PROVE  [Reference!Next]_<<Statuses, AnalysesOf>>
  <2>0. PICK p \in Refs : p = caller[c].ref
    BY <1>6, RefOf DEF Start
  <2>1. caller[c].pc = "start" /\ UNCHANGED <<rows, staged>>
    BY <1>6 DEF Start
  <2>2. Taken(p) /\ p \notin Held /\ runs[p] = <<>> /\ staged[p] # NoFile
    <3>1. Taken(p)
      BY <2>0, <2>1 DEF Taken
    <3> QED BY <2>0, <2>1, <3>1, StatusIs
  <2>3. Status(p) = "taken"
    BY <2>2 DEF Status, Taken
  <2>4. caller'[c].pc = "idle"
    BY <1>6, WhereTo, IdleIsIdle
  <2>5. ~ Taken(p)'
    <3>1. \A b \in Callers : b # c => ~ (caller[b].pc = "start" /\ caller[b].ref = p)
      BY <2>0, <2>1 DEF OneTaker
    <3>2. \A b \in Callers : b # c => caller'[b] = caller[b]
      BY <1>6, OthersStay DEF RequestGoesOn
    <3> QED BY <2>4, <3>1, <3>2 DEF Taken
  <2>6. \A r \in Refs \ {p} : Taken(r)' <=> Taken(r)
    BY <1>6, <2>0, <2>4, TakenStays DEF RequestGoesOn
  <2>7. \A r \in Refs \ {p} : runs'[r] = runs[r]
    BY <1>0, <1>6, <2>0 DEF Start
  <2>8. \A r \in Refs \ {p} : Status(r)' = Status(r)
    BY <2>0, <2>1, <2>6, <2>7, StatusStays
  <2>9. CASE runs' = runs
    <3>1. Status(p)' = "gone"
      BY <2>0, <2>1, <2>2, <2>5, <2>9 DEF Status, Held, Taken
    <3> QED BY <2>0, <2>1, <2>3, <2>8, <2>9, <3>1, ReferenceIsLost
  <2>10. CASE runs' # runs
    <3>1. runs'[p] = Append(runs[p], caller[c].file.bytes)
      BY <1>0, <1>6, <2>0, <2>1, <2>10 DEF Start
    <3>2. runs'[p] = <<caller[c].file.bytes>>
      BY <2>2, <3>1
    <3>3. Len(runs'[p]) = Len(runs[p]) + 1 /\ runs'[p] # <<>>
      BY <2>2, <3>2
    <3>4. Status(p)' = "used"
      BY <2>0, <2>1, <2>2, <3>3 DEF Status, Held
    <3> QED BY <2>0, <2>1, <2>3, <2>7, <2>8, <3>3, <3>4, ReferenceStarts
  <2> QED BY <2>9, <2>10
<1>7. ASSUME NEW c \in Callers, Discard(c)
      PROVE  [Reference!Next]_<<Statuses, AnalysesOf>>
  <2>1. /\ caller[c].pc = "discard" /\ caller[c].ref \in Refs
        /\ rows' = [rows EXCEPT ![caller[c].ref] = NoRow]
        /\ UNCHANGED <<runs, staged>>
    BY <1>7, RefOf DEF Discard
  <2>2. \A r \in Refs : Taken(r)' <=> Taken(r)
    BY <1>7, <2>1, WhereTo, IdleIsIdle, TakenStays DEF RequestGoesOn
  <2> QED BY <2>1, <2>2, DeleteLoses
<1>8. CASE Crash
  <2>0. UNCHANGED <<rows, runs, staged>>
    BY <1>8 DEF Crash
  <2>1. \A r \in Refs : ~ Taken(r)'
    BY <1>8, WhereTo, IdleIsIdle DEF Taken
  <2> DEFINE R == {r \in Refs : Taken(r)}
  <2>2. ASSUME NEW r \in R PROVE Status(r) = "taken" /\ Status(r)' = "gone"
    <3>1. Taken(r) /\ r \notin Held /\ runs[r] = <<>> /\ staged[r] # NoFile
      BY StatusIs
    <3> QED BY <2>0, <2>1, <3>1 DEF Status, Held, Taken
  <2>3. ASSUME NEW r \in Refs \ R PROVE Status(r)' = Status(r)
    <3>1. ~ Taken(r) /\ ~ Taken(r)'
      BY <2>1, <2>3
    <3> QED BY <2>0, <3>1, StatusStays
  <2> QED BY <2>0, <2>2, <2>3, ReferenceIsLost
<1>9. CASE Restart
  BY <1>9, PurgeLoses DEF Restart, Taken
<1>10. CASE Tick \/ UNCHANGED vars
  BY <1>1, <1>10 DEF Tick, vars, Taken
<1>11. ASSUME NEW p \in Refs, Damage(p) PROVE UNCHANGED <<Statuses, AnalysesOf>>
  <2>1. UNCHANGED <<caller, runs, staged>>
    BY <1>11 DEF Damage
  <2>2. ASSUME NEW r \in Refs PROVE rows'[r] = NoRow <=> rows[r] = NoRow
    <3>1. CASE r # p
      BY <1>0, <1>11, <3>1 DEF Damage
    <3>2. CASE r = p
      <4>1. rows[p] \in Row /\ rows[p] # NoRow
        BY <1>0, <1>11, NoRowIsNone DEF Damage, Held
      <4>2. rows'[p] \in Row
        BY <1>0, <1>11, <4>1 DEF Damage, Row
      <4> QED BY <3>2, <4>1, <4>2, NoRowIsNone
    <3> QED BY <3>1, <3>2
  <2> QED BY <1>1, <2>1, <2>2 DEF Taken
<1> QED
  BY <1>2, <1>3, <1>4, <1>5, <1>6, <1>7, <1>8, <1>9, <1>10, <1>11
  DEF Next, RequestGoesOn
-----------------------------------------------------------------------------
(* The bounds on the files stored, and on their bytes.                     *)

\* WithinBounds, and that there is something to count.
BoundsInv == IsFiniteSet(Held) /\ IsFiniteSet(StoredBytes) /\ WithinBounds

\* The bytes of one file under a reference.
BytesAs(r, f) == {r} \X (1 .. SizeOf[f])

\* A file has as many bytes as its size says.
LEMMA BytesAsManyAsItsSize ==
    ASSUME NEW r, NEW f \in Files
    PROVE  IsFiniteSet(BytesAs(r, f)) /\ Cardinality(BytesAs(r, f)) = SizeOf[f]
<1>1. SizeOf[f] \in Nat
  BY StagingSizes
<1>2. /\ IsFiniteSet(1 .. SizeOf[f])
      /\ Cardinality(1 .. SizeOf[f]) = SizeOf[f]
  BY <1>1, FS_Interval
<1>3. IsFiniteSet({r}) /\ Cardinality({r}) = 1
  BY FS_Singleton
<1>4. /\ IsFiniteSet({r} \X (1 .. SizeOf[f]))
      /\ Cardinality({r} \X (1 .. SizeOf[f]))
             = Cardinality({r}) * Cardinality(1 .. SizeOf[f])
  BY <1>2, <1>3, FS_Product
<1> QED BY <1>1, <1>2, <1>3, <1>4 DEF BytesAs

\* What a file is worth does not change while it is stored.
LEMMA KeptFilesAreTheSame ==
    ASSUME IInv, [Next]_vars, NEW r \in Refs, rows[r] # NoRow, rows'[r] # NoRow
    PROVE  rows'[r].digest = rows[r].digest
<1>1. rows[r].digest = staged[r] /\ rows'[r].digest = staged'[r]
  BY NextIInv DEF IInv, FilesAreStaged
<1>2. staged[r] # NoFile
  BY <1>1, StagingNames DEF IInv, TypeOK, Row
<1> QED BY <1>1, <1>2, RowsOnlyGo DEF IInv

\* No step stores more than there may be: an insertion adds one file where
\* there was room for it, and every other step at most deletes.
LEMMA NextBoundsInv ==
    ASSUME IInv, BoundsInv, [Next]_vars PROVE BoundsInv'
<1> USE FS_CardinalityType, StagingBounds DEF BoundsInv, WithinBounds, TotalBytes
<1>1. CASE \E c \in Callers, r \in Refs : Insert(c, r)
  <2>1. PICK c \in Callers, r \in Refs : Insert(c, r)
    BY <1>1
  <2> DEFINE f == caller[c].file.digest
             more == BytesAs(r, f)
  <2>2. /\ Cardinality(Held) < MaxCount
        /\ Cardinality(StoredBytes) + SizeOf[f] <= MaxBytes
    BY <2>1 DEF Insert, Fits
  <2>3. f \in Files /\ SizeOf[f] \in Nat
    BY <2>1, StagingSizes DEF Insert, IInv, TypeOK
  <2>4. Held' \in SUBSET (Held \cup {r})
    BY <2>1 DEF Insert, Held, IInv, TypeOK
  <2>5. /\ IsFiniteSet(Held \cup {r})
        /\ Cardinality(Held \cup {r}) \in {Cardinality(Held), Cardinality(Held) + 1}
    BY FS_AddElement
  <2>6. IsFiniteSet(Held') /\ Cardinality(Held') <= Cardinality(Held \cup {r})
    BY <2>4, <2>5, FS_Subset
  <2>7. /\ rows'[r].digest = f
        /\ \A p \in Refs \ {r} : rows'[p] = rows[p]
    BY <2>1 DEF Insert, IInv, TypeOK
  <2>8. StoredBytes' \in SUBSET (StoredBytes \cup more)
    BY <2>4, <2>7 DEF StoredBytes, BytesAs, Held
  <2>9. IsFiniteSet(more) /\ Cardinality(more) = SizeOf[f]
    BY <2>3, BytesAsManyAsItsSize
  <2> HIDE DEF more
  <2>10. /\ IsFiniteSet(StoredBytes \cup more)
         /\ Cardinality(StoredBytes \cup more)
                = Cardinality(StoredBytes) + Cardinality(more)
                      - Cardinality(StoredBytes \cap more)
    BY <2>9, FS_Union
  <2>11. Cardinality(StoredBytes \cap more) \in Nat
    BY <2>9, FS_Intersection
  <2>12. /\ IsFiniteSet(StoredBytes')
         /\ Cardinality(StoredBytes') <= Cardinality(StoredBytes \cup more)
    BY <2>8, <2>10, FS_Subset
  <2>13. Cardinality(Held') <= MaxCount
    BY <2>2, <2>5, <2>6
  <2>14. Cardinality(StoredBytes') <= MaxBytes
    BY <2>2, <2>3, <2>9, <2>10, <2>11, <2>12
  <2> QED BY <2>6, <2>12, <2>13, <2>14
<1>2. CASE ~ \E c \in Callers, r \in Refs : Insert(c, r)
  <2>1. Held' \in SUBSET Held
    BY <1>2, RowsOfFresh DEF Held, IInv
  <2>2. IsFiniteSet(Held') /\ Cardinality(Held') <= Cardinality(Held)
    BY <2>1, FS_Subset
  <2>3. \A r \in Held' : rows'[r].digest = rows[r].digest
    BY <2>1, KeptFilesAreTheSame DEF Held
  <2>4. StoredBytes' \in SUBSET StoredBytes
    BY <2>1, <2>3 DEF StoredBytes
  <2>5. /\ IsFiniteSet(StoredBytes')
        /\ Cardinality(StoredBytes') <= Cardinality(StoredBytes)
    BY <2>4, FS_Subset
  <2> QED BY <2>2, <2>5
<1> QED BY <1>1, <1>2
-----------------------------------------------------------------------------
(* Theorems.                                                               *)

\* Whatever clients, the clock, crashes and damage do to the store, what a
\* request has in hand is what was staged, and nobody else has it.
THEOREM StagingIInvHolds == Spec => []IInv
<1>1. Init => IInv
  BY InitIInv
<1>2. IInv /\ [Next]_vars => IInv'
  BY NextIInv
<1> QED BY <1>1, <1>2, PTL DEF Spec

\* The rows, the requests, the counters and the histories keep their types,
\* and no request outlives the process.
THEOREM StagingTypeCorrect == Spec => []TypeOK
<1>1. IInv => TypeOK
  BY DEF IInv
<1> QED BY <1>1, StagingIInvHolds, PTL

\* A Run uses exactly the bytes that were staged, and only while they had not
\* expired, whatever became of the row since it was inspected.
THEOREM RunsOnlySoundFilesHolds == Spec => []RunsOnlySoundFiles
<1>1. IInv => RunsOnlySoundFiles
  BY DEF IInv, RunsOnlySoundFiles, RunReadsFreshFiles, HandsAreSound
<1> QED BY <1>1, StagingIInvHolds, PTL

\* Every step of the store and its callers is a step in the life of a
\* reference, or leaves it alone: a reference is worth one analysis at most.
THEOREM ImplementsOneTimeReferenceHolds == Spec => ImplementsOneTimeReference
<1>1. Init => Reference!Init
  BY IdleIsIdle DEF Init, Reference!Init, Status, Held
<1>2. IInv /\ [Next]_vars
          => [Reference!Next]_<<[r \in Refs |-> Status(r)],
                                [r \in Refs |-> Len(runs[r])]>>
  BY NextReference DEF Statuses, AnalysesOf
<1> QED
  BY <1>1, <1>2, StagingIInvHolds, PTL
  DEF Spec, ImplementsOneTimeReference, Reference!Spec

\* However many clients stage at once, and whatever is purged, consumed,
\* discarded or damaged meanwhile, the store never has more files, or more
\* bytes, than it may.
THEOREM WithinBoundsHolds == Spec => []WithinBounds
<1>1. Init => BoundsInv
  <2>1. ASSUME Init PROVE Held = {} /\ StoredBytes = {}
    BY <2>1 DEF Init, Held, StoredBytes
  <2> QED
    BY <2>1, FS_EmptySet, StagingBounds DEF BoundsInv, WithinBounds, TotalBytes
<1>2. IInv /\ BoundsInv /\ [Next]_vars => BoundsInv'
  BY NextBoundsInv
<1>3. BoundsInv => WithinBounds
  BY DEF BoundsInv
<1> QED BY <1>1, <1>2, <1>3, StagingIInvHolds, PTL DEF Spec
=============================================================================
