------------------------------- MODULE Staging -------------------------------
(***************************************************************************)
(* Staged uploads: a chosen file is stored behind a single-use reference,  *)
(* inspected, and then run or discarded (persistence/staging_store.py,     *)
(* api/v1/staged_uploads.py, the start of the process in main.py).         *)
(*                                                                         *)
(* A step is one transaction of the store.  The clock is read between the  *)
(* caller's previous step and the transaction, so a step sees any time in  *)
(* since..now: the transaction may be late for the time it was given.      *)
(***************************************************************************)
EXTENDS Naturals, Sequences, FiniteSets

CONSTANTS
    Refs,       \* references (256 random bits: never drawn twice)
    Files,      \* contents, as the digest recorded at staging tells them apart
    SizeOf,     \* [Files -> Nat]: their bytes
    Callers,    \* the threads that serve the staging routes
    NoRef, NoFile, Damaged,
    MaxCount, MaxBytes,   \* the two bounds of the store
    Ttl,        \* how long a staged file is kept
    MaxTime,    \* bound: the last value of the clock
    MaxCrashes, \* bound: how often the process may die
    MaxDamages  \* bound: how often the stored bytes may be damaged

ASSUME StagingBounds == /\ MaxCount \in Nat \ {0}
                        /\ MaxBytes \in Nat \ {0}
                        /\ Ttl \in Nat \ {0}
ASSUME StagingSizes == SizeOf \in [Files -> Nat]
ASSUME StagingNames == /\ NoRef \notin Refs /\ NoFile \notin Files
                       /\ Damaged \notin Files /\ NoFile # Damaged
ASSUME StagingModelBounds == /\ MaxTime \in Nat /\ MaxCrashes \in Nat
                             /\ MaxDamages \in Nat

VARIABLES
    rows,       \* [Refs -> row]: the table of staged uploads
    caller,     \* [Callers -> what a request has in hand]
    issued,     \* the references clients have been given
    runs,       \* [Refs -> Seq(bytes)]: what analyses were created from
    now,        \* the clock of the server
    up,         \* whether the process serves requests
    crashes, damages,
    staged      \* history: the file each reference was drawn for

bounds == <<crashes, damages>>
vars == <<rows, caller, issued, runs, now, up, bounds, staged>>

\* digest is content_sha256, bytes the content as it is read back.
Row   == [digest : Files, bytes : Files \cup {Damaged}, expires : Nat]
NoRow == [digest |-> NoFile, bytes |-> NoFile, expires |-> 0]
Held  == {r \in Refs : rows[r] # NoRow}

\* since: the latest time the caller's request has read, or its start.
IdleCaller == [pc |-> "idle", ref |-> NoRef, file |-> NoRow, since |-> 0]

CallerPCs == {"idle", "stage", "insert", "answer", "inspect", "run", "look",
              "load", "consume", "start", "discard"}

Init ==
    /\ rows = [r \in Refs |-> NoRow]
    /\ caller = [c \in Callers |-> IdleCaller]
    /\ issued = {}
    /\ runs = [r \in Refs |-> <<>>]
    /\ now = 0
    /\ up = TRUE
    /\ crashes = 0
    /\ damages = 0
    /\ staged = [r \in Refs |-> NoFile]

Goes(c, pc)    == caller' = [caller EXCEPT ![c].pc = pc]
GoesAt(c, pc, t) == caller' = [caller EXCEPT ![c].pc = pc, ![c].since = t]
Ends(c)        == caller' = [caller EXCEPT ![c] = IdleCaller]
-----------------------------------------------------------------------------
\* A request for a reference the client knows.
Request(c, pc, r) ==
    /\ up
    /\ caller[c].pc = "idle"
    /\ r \in issued
    /\ caller' = [caller EXCEPT ![c] =
           [pc |-> pc, ref |-> r, file |-> NoRow, since |-> now]]
    /\ UNCHANGED <<rows, issued, runs, now, up, bounds, staged>>

\* POST /staged-uploads with a readable file f.
RequestStage(c, f) ==
    /\ up
    /\ caller[c].pc = "idle"
    /\ caller' = [caller EXCEPT ![c] =
           [pc |-> "stage", ref |-> NoRef, since |-> now,
            file |-> [digest |-> f, bytes |-> f, expires |-> 0]]]
    /\ UNCHANGED <<rows, issued, runs, now, up, bounds, staged>>

\* Mutation: a row is kept at the instant it expires.
ExpiredAfter(t) == {r \in Held : rows[r].expires < t}

\* The rows purge_expired deletes at time t.
Expired(t) == {r \in Held : rows[r].expires <= t}

Purged(t) == [r \in Refs |-> IF r \in Expired(t) THEN NoRow ELSE rows[r]]

\* SqlStagingStore.purge_expired, called first by stage and by peek.
Purge(c) ==
    \E t \in caller[c].since .. now :
        /\ rows' = Purged(t)
        /\ \/ caller[c].pc = "stage" /\ GoesAt(c, "insert", t)
           \/ caller[c].pc = "inspect" /\ GoesAt(c, "look", t)
           \/ caller[c].pc = "run" /\ GoesAt(c, "load", t)
        /\ UNCHANGED <<issued, runs, now, up, bounds, staged>>

\* The bytes that are stored, each with the reference it is stored under.
StoredBytes == UNION {{r} \X (1 .. SizeOf[rows[r].digest]) : r \in Held}

TotalBytes == Cardinality(StoredBytes)

\* Mutation: room for one file too many.
FitsOneMore(f) ==
    /\ Cardinality(Held) <= MaxCount
    /\ TotalBytes + SizeOf[f] <= MaxBytes

Fits(f) ==
    /\ Cardinality(Held) < MaxCount
    /\ TotalBytes + SizeOf[f] <= MaxBytes

\* The rest of stage draws the token r; its INSERT ... SELECT stores the file
\* only if it fits.
Insert(c, r) ==
    LET f == caller[c].file.digest IN
    /\ caller[c].pc = "insert"
    /\ staged[r] = NoFile
    /\ Fits(f)
    /\ \E t \in caller[c].since .. now :
           rows' = [rows EXCEPT ![r] =
               [digest |-> f, bytes |-> f, expires |-> t + Ttl]]
    /\ staged' = [staged EXCEPT ![r] = f]
    /\ caller' = [caller EXCEPT ![c].pc = "answer", ![c].ref = r]
    /\ UNCHANGED <<issued, runs, now, up, bounds>>

\* Nothing was inserted: the route answers 409.
Full(c) ==
    /\ caller[c].pc = "insert"
    /\ ~ Fits(caller[c].file.digest)
    /\ Ends(c)
    /\ UNCHANGED <<rows, issued, runs, now, up, bounds, staged>>

\* The reply reaches the client, or the "analysed before" lookup that comes
\* first fails and the client never learns the reference.
Answer(c) ==
    /\ caller[c].pc = "answer"
    /\ issued' \in {issued, issued \cup {caller[c].ref}}
    /\ Ends(c)
    /\ UNCHANGED <<rows, runs, now, up, bounds, staged>>

\* POST .../inspect: the rest of peek, then a reply.
Look(c) ==
    /\ caller[c].pc = "look"
    /\ Ends(c)
    /\ UNCHANGED <<rows, issued, runs, now, up, bounds, staged>>

\* POST .../run: the rest of peek, then the digest of what was read, then the
\* inspection, which may refuse the file as chosen and spends nothing.
Load(c) ==
    LET file == rows[caller[c].ref] IN
    /\ caller[c].pc = "load"
    /\ IF file = NoRow THEN Ends(c)
       ELSE IF file.bytes # file.digest THEN Goes(c, "discard")
       ELSE \/ Ends(c)
            \/ caller' = [caller EXCEPT ![c].pc = "consume", ![c].file = file]
    /\ UNCHANGED <<rows, issued, runs, now, up, bounds, staged>>

\* Mutation: the row is read and deleted, and whoever read it goes on.
ConsumeRead(c) ==
    LET r == caller[c].ref IN
    /\ caller[c].pc = "consume"
    /\ rows' = [rows EXCEPT ![r] = NoRow]
    /\ Goes(c, "start")
    /\ UNCHANGED <<issued, runs, now, up, bounds, staged>>

\* Mutation: what comes back from consume is not verified again.
ConsumeUnverified(c) ==
    LET r == caller[c].ref IN
    /\ caller[c].pc = "consume"
    /\ \E t \in caller[c].since .. now :
           IF /\ rows[r].digest = caller[c].file.digest
              /\ rows[r].expires > t
           THEN /\ rows' = [rows EXCEPT ![r] = NoRow]
                /\ caller' = [caller EXCEPT ![c].pc = "start", ![c].since = t,
                                            ![c].file = rows[r]]
           ELSE Ends(c) /\ UNCHANGED rows
    /\ UNCHANGED <<issued, runs, now, up, bounds, staged>>

\* SqlStagingStore.consume, one DELETE ... RETURNING, and the digest of what
\* it returned: damaged bytes leave the reference spent for nothing.
Consume(c) ==
    LET r == caller[c].ref IN
    /\ caller[c].pc = "consume"
    /\ \E t \in caller[c].since .. now :
           IF /\ rows[r].digest = caller[c].file.digest
              /\ rows[r].expires > t
           THEN /\ rows' = [rows EXCEPT ![r] = NoRow]
                /\ IF rows[r].bytes = caller[c].file.digest
                   THEN caller' = [caller EXCEPT ![c].pc = "start",
                                      ![c].since = t, ![c].file = rows[r]]
                   ELSE Ends(c)
           ELSE Ends(c) /\ UNCHANGED rows
    /\ UNCHANGED <<issued, runs, now, up, bounds, staged>>

\* start_analysis_from_content over the consumed bytes, or its failure.
Start(c) ==
    LET r == caller[c].ref IN
    /\ caller[c].pc = "start"
    /\ runs' \in {runs, [runs EXCEPT ![r] = Append(@, caller[c].file.bytes)]}
    /\ Ends(c)
    /\ UNCHANGED <<rows, issued, now, up, bounds, staged>>

\* Mutation: the thread keeps the reference it has discarded.
DiscardOnly(c) ==
    /\ caller[c].pc = "discard"
    /\ rows' = [rows EXCEPT ![caller[c].ref] = NoRow]
    /\ Goes(c, "idle")
    /\ UNCHANGED <<issued, runs, now, up, bounds, staged>>

\* SqlStagingStore.discard, for the client or for damaged bytes.
Discard(c) ==
    /\ caller[c].pc = "discard"
    /\ rows' = [rows EXCEPT ![caller[c].ref] = NoRow]
    /\ Ends(c)
    /\ UNCHANGED <<issued, runs, now, up, bounds, staged>>

RequestArrives(c) ==
    \/ \E r \in Refs, pc \in {"inspect", "run", "discard"} : Request(c, pc, r)
    \/ \E f \in Files : RequestStage(c, f)

RequestGoesOn(c) ==
    \/ Purge(c) \/ Full(c) \/ Answer(c) \/ Look(c) \/ Load(c)
    \/ Consume(c) \/ Start(c) \/ Discard(c)
    \/ \E r \in Refs : Insert(c, r)
-----------------------------------------------------------------------------
Tick ==
    /\ now < MaxTime
    /\ now' = now + 1
    /\ UNCHANGED <<rows, caller, issued, runs, up, bounds, staged>>

\* The process dies, and with it the requests: only the tables are left.
Crash ==
    /\ up
    /\ crashes < MaxCrashes
    /\ crashes' = crashes + 1
    /\ up' = FALSE
    /\ caller' = [c \in Callers |-> IdleCaller]
    /\ UNCHANGED <<rows, issued, runs, now, damages, staged>>

\* create_app purges what expired while the process was away.
Restart ==
    /\ ~ up
    /\ up' = TRUE
    /\ rows' = Purged(now)
    /\ UNCHANGED <<caller, issued, runs, now, bounds, staged>>

\* The stored bytes change under the application.
Damage(r) ==
    /\ r \in Held
    /\ damages < MaxDamages
    /\ damages' = damages + 1
    /\ rows' = [rows EXCEPT ![r].bytes = Damaged]
    /\ UNCHANGED <<caller, issued, runs, now, up, crashes, staged>>

Next ==
    \/ \E c \in Callers : RequestArrives(c) \/ RequestGoesOn(c)
    \/ Tick \/ Crash \/ Restart
    \/ \E r \in Refs : Damage(r)

Spec == Init /\ [][Next]_vars
-----------------------------------------------------------------------------
(* Properties.                                                             *)

\* Types, and: a request names a reference once it has one, and
\* only the store's own rows are in the table.
TypeOK ==
    /\ rows \in [Refs -> Row \cup {NoRow}]
    /\ caller \in [Callers -> [pc : CallerPCs, ref : Refs \cup {NoRef},
                               file : Row \cup {NoRow}, since : 0 .. MaxTime]]
    /\ \A c \in Callers :
           /\ caller[c].pc \in {"idle", "stage", "insert"}
                  <=> caller[c].ref = NoRef
           /\ caller[c].pc \in {"stage", "insert", "consume", "start"}
                  => caller[c].file.digest \in Files
           /\ ~ up => caller[c].pc = "idle"
    /\ issued \in SUBSET Refs
    /\ runs \in [Refs -> Seq(Files \cup {Damaged})]
    /\ now \in 0 .. MaxTime
    /\ up \in BOOLEAN
    /\ crashes \in 0 .. MaxCrashes
    /\ damages \in 0 .. MaxDamages
    /\ staged \in [Refs -> Files \cup {NoFile}]

\* The store never holds more files, or more bytes, than it may, however
\* many clients stage at once (staging_store.py: checked by the INSERT).
WithinBounds == Cardinality(Held) <= MaxCount /\ TotalBytes <= MaxBytes

\* An analysis is made from exactly the bytes the client staged, whatever
\* happened to the row between the inspection and the Run.
AnalysesAreOfStagedBytes ==
    \A r \in Refs : \A i \in 1 .. Len(runs[r]) : runs[r][i] = staged[r]

\* What Run has read, or has consumed, had not expired at the time it went by.
RunReadsFreshFiles ==
    \A c \in Callers : caller[c].pc \in {"consume", "start"} =>
        caller[c].file.expires > caller[c].since

\* Run uses what was staged, and only while it may be used.
RunsOnlySoundFiles == AnalysesAreOfStagedBytes /\ RunReadsFreshFiles

\* A reference is worth one file and one analysis at most.
Status(r) ==
    IF r \in Held THEN "held"
    ELSE IF runs[r] # <<>> THEN "used"
    ELSE IF \E c \in Callers : caller[c].pc = "start" /\ caller[c].ref = r
         THEN "taken"
    ELSE IF staged[r] = NoFile THEN "fresh" ELSE "gone"

Reference == INSTANCE OneTimeReference
    WITH status <- [r \in Refs |-> Status(r)],
         analyses <- [r \in Refs |-> Len(runs[r])]

ImplementsOneTimeReference == Reference!Spec
=============================================================================
