------------------------------- MODULE Settings -------------------------------
(***************************************************************************)
(* The one setting of the product, AI assistance: its row and the writes   *)
(* that quote a version (persistence/settings_store.py), the routes that   *)
(* show and change it (api/v1/settings.py), and the test of the connection *)
(* to the AI runtime with its gate (ai_readiness.py, api/v1/               *)
(* ai_readiness.py).                                                       *)
(*                                                                         *)
(* A step is one access to state that threads share: one read or one       *)
(* write of the row, one use of the gate under its lock.  The lock of a    *)
(* store keeps the writes of that store apart; those of another store      *)
(* object, or process, only meet the version in the row.                   *)
(***************************************************************************)
EXTENDS Naturals, AiSettings

CONSTANTS
    Clients,        \* clients, each with one request at a time
    Stores,         \* processes over the same database, with a store and a gate
    NoStore,
    Installed,      \* the configurations the installation is given
    Interval,       \* MIN_TEST_INTERVAL_SECONDS
    MaxVersion,     \* bound: how often the setting is written
    MaxTime,        \* bound: the clock
    MaxRestarts,    \* bound: how often the installation is started again
    MaxFaults       \* bound: how many accesses to the row fail

ASSUME NoStoreIsNone == NoStore \notin Stores
ASSUME InstalledAreDeployments == Installed \subseteq Deployments
ASSUME SettingsBounds ==
    /\ Interval \in Nat /\ MaxVersion \in Nat /\ MaxTime \in Nat \ {0}
    /\ MaxRestarts \in Nat /\ MaxFaults \in Nat

VARIABLES
    row,        \* [value, version]; version 0: no row yet
    deployed,   \* how the installation is configured
    client,     \* [Clients -> what a request has in hand]
    gate,       \* [Stores -> [busy, last]]; last 0: no test has finished
    now,        \* the monotonic clock
    restarts, faults,
    screen,     \* history: what each client was shown last, if that was sound
    ended       \* history: when a test last ended in each process

bounds == <<restarts, faults>>
vars == <<row, deployed, client, gate, now, bounds, screen, ended>>

Versions == 0 .. MaxVersion

\* A request, with the process that serves it while that matters: what it
\* writes and the version it expects, or what it has read; known: whether it
\* could be read; at: the version read or answered; began: when a test began.
IdleClient == [pc |-> "idle", store |-> NoStore, value |-> "unset",
               expected |-> 0, enabled |-> FALSE, known |-> FALSE, at |-> 0,
               provider |-> "disabled", began |-> 0]

PCs == {"idle", "version", "read", "commit", "respond", "refused", "gate",
        "probe"}

\* Nothing, or a value that was not read, or not together with its version, or
\* not under the configuration that is in force.
NoScreen == [known |-> FALSE, enabled |-> FALSE, version |-> 0]

Shows(c, enabled, version, known) ==
    screen' = [screen EXCEPT ![c] =
        IF known THEN [known |-> TRUE, enabled |-> enabled, version |-> version]
        ELSE NoScreen]

Init ==
    /\ row = [value |-> "unset", version |-> 0]
    /\ deployed \in Installed
    /\ client = [c \in Clients |-> IdleClient]
    /\ gate = [s \in Stores |-> [busy |-> FALSE, last |-> 0]]
    /\ now = 1
    /\ restarts = 0 /\ faults = 0
    /\ screen = [c \in Clients |-> NoScreen]
    /\ ended = [s \in Stores |-> 0]

Ends(c)     == client' = [client EXCEPT ![c] = IdleClient]
Goes(c, pc) == client' = [client EXCEPT ![c].pc = pc]
Replies(c, pc, version) ==
    client' = [client EXCEPT ![c] = [IdleClient EXCEPT !.pc = pc, !.at = version]]

OnlyClient == UNCHANGED <<row, deployed, gate, now, restarts, screen,
                          ended>>

\* An access to the row: it may fail.
Works == UNCHANGED faults
Fails == faults < MaxFaults /\ faults' = faults + 1

\* resolve_current_ai: a row that cannot be read counts as not stored.
Resolved(readable) == Resolve(deployed, IF readable THEN row.value ELSE "unset")
-----------------------------------------------------------------------------
(* GET /settings                                                           *)

\* The value is read ...
Load(c) ==
    /\ client[c].pc = "idle"
    /\ \E readable \in BOOLEAN :
           /\ IF readable THEN Works ELSE Fails
           /\ client' = [client EXCEPT ![c] =
                  [IdleClient EXCEPT !.pc = "version", !.at = row.version,
                                     !.enabled = Resolved(readable).enabled,
                                     !.known = readable]]
    /\ OnlyClient

\* ... and then its version, which is 0 if it cannot be read.
LoadVersion(c) ==
    /\ client[c].pc = "version"
    /\ \E readable \in BOOLEAN :
           /\ IF readable THEN Works ELSE Fails
           /\ Shows(c, client[c].enabled, IF readable THEN row.version ELSE 0,
                    client[c].known /\ row.version = client[c].at)
    /\ Ends(c)
    /\ UNCHANGED <<row, deployed, gate, now, restarts, ended>>
-----------------------------------------------------------------------------
(* PUT and DELETE /settings/ai_assistance                                  *)

\* Mutation: the route does not ask who manages the setting.
AskUnchecked(c, s, value, expected) ==
    /\ client[c].pc = "idle"
    /\ expected < MaxVersion
    /\ client' = [client EXCEPT ![c] =
           [IdleClient EXCEPT !.pc = "read", !.store = s, !.value = value,
                              !.expected = expected]]
    /\ UNCHANGED <<row, deployed, gate, now, bounds, screen, ended>>

\* _check_writable: nobody changes what the installation manages.  A client
\* may quote any version.
Ask(c, s, value, expected) ==
    /\ client[c].pc = "idle"
    /\ ~ deployed.override
    /\ expected < MaxVersion
    /\ client' = [client EXCEPT ![c] =
           [IdleClient EXCEPT !.pc = "read", !.store = s, !.value = value,
                              !.expected = expected]]
    /\ UNCHANGED <<row, deployed, gate, now, bounds, screen, ended>>

LockIsFree(c) ==
    \A b \in Clients \ {c} :
        client[b].store = client[c].store => client[b].pc # "commit"

\* _write, under the lock: the row is read and its version compared ...
Read(c) ==
    /\ client[c].pc = "read"
    /\ LockIsFree(c)
    /\ IF row.version = client[c].expected
       THEN Goes(c, "commit") ELSE Replies(c, "refused", row.version)
    /\ UNCHANGED faults /\ OnlyClient

\* Mutation: the UPDATE does not look at the version again.
StillExpectedAlways(c) == TRUE

\* The INSERT meets no row, or the UPDATE one of the version it names.
StillExpected(c) == row.version = client[c].expected

\* Mutation: a reset takes the row away, and its version with it.
CommitOrDelete(c) ==
    LET next == client[c].expected + 1 IN
    /\ client[c].pc = "commit"
    /\ StillExpected(c)
    /\ row' = IF client[c].value = "unset" THEN [value |-> "unset", version |-> 0]
              ELSE [value |-> client[c].value, version |-> next]
    /\ Replies(c, "respond", next)
    /\ UNCHANGED <<deployed, gate, now, bounds, screen, ended>>

\* ... the value is stored with the next version ...
Commit(c) ==
    LET next == client[c].expected + 1 IN
    /\ client[c].pc = "commit"
    /\ StillExpected(c)
    /\ row' = [value |-> client[c].value, version |-> next]
    /\ Replies(c, "respond", next)
    /\ UNCHANGED <<deployed, gate, now, bounds, screen, ended>>

\* ... or the key is taken, or the version is gone (IntegrityError, rowcount).
CommitRefused(c) ==
    /\ client[c].pc = "commit"
    /\ ~ StillExpected(c)
    /\ Replies(c, "refused", client[c].expected + 1)
    /\ UNCHANGED faults /\ OnlyClient

\* The 409 names the version found; the client still sees what it saw.
AnswerRefused(c) ==
    /\ client[c].pc = "refused"
    /\ Ends(c)
    /\ UNCHANGED faults /\ OnlyClient

\* The read or the write raises: the request fails and stores nothing.
WriteFails(c) ==
    /\ client[c].pc \in {"read", "commit"}
    /\ Fails
    /\ Ends(c)
    /\ OnlyClient

\* The value is resolved again and shown with the version of this write: it
\* may be the value of a later one.
Respond(c) ==
    /\ client[c].pc = "respond"
    /\ \E readable \in BOOLEAN :
           /\ IF readable THEN Works ELSE Fails
           /\ Shows(c, Resolved(readable).enabled, client[c].at, readable)
    /\ Ends(c)
    /\ UNCHANGED <<row, deployed, gate, now, restarts, ended>>
-----------------------------------------------------------------------------
(* POST /ai/connection-test                                                *)

\* The setting is resolved, on the event loop, and refused or handed on to a
\* thread.
StartTest(c, s) ==
    /\ client[c].pc = "idle"
    /\ \E readable \in BOOLEAN :
           LET res == Resolved(readable) IN
           /\ IF readable THEN Works ELSE Fails
           /\ Refusal(res, deployed) = "none"
           /\ client' = [client EXCEPT ![c] =
                  [IdleClient EXCEPT !.pc = "gate", !.store = s,
                                     !.provider = res.provider]]
    /\ OnlyClient

\* ConnectionTestGate.begin: "busy", "too_soon", or ...
GateIsShut(s) ==
    \/ gate[s].busy
    \/ gate[s].last > 0 /\ now < gate[s].last + Interval

TestRefused(c) ==
    /\ client[c].pc = "gate"
    /\ GateIsShut(client[c].store)
    /\ Ends(c)
    /\ UNCHANGED faults /\ OnlyClient

\* ... "ok".
BeginTest(c) ==
    /\ client[c].pc = "gate"
    /\ ~ GateIsShut(client[c].store)
    /\ gate' = [gate EXCEPT ![client[c].store].busy = TRUE]
    /\ client' = [client EXCEPT ![c].pc = "probe", ![c].began = now]
    /\ UNCHANGED <<row, deployed, now, bounds, screen, ended>>

\* Mutation: a probe that raises does not reach end.
EndTestIfAnswered(c) ==
    /\ client[c].pc = "probe"
    /\ \E answered \in BOOLEAN :
           gate' = [gate EXCEPT ![client[c].store] =
                       [busy |-> ~ answered, last |-> now]]
    /\ ended' = [ended EXCEPT ![client[c].store] = now]
    /\ Ends(c)
    /\ UNCHANGED <<row, deployed, now, bounds, screen>>

\* The runtime answers or not, or the probe raises: end is in a finally.
EndTest(c) ==
    /\ client[c].pc = "probe"
    /\ gate' = [gate EXCEPT ![client[c].store] = [busy |-> FALSE, last |-> now]]
    /\ ended' = [ended EXCEPT ![client[c].store] = now]
    /\ Ends(c)
    /\ UNCHANGED <<row, deployed, now, bounds, screen>>
-----------------------------------------------------------------------------
Tick ==
    /\ now < MaxTime
    /\ now' = now + 1
    /\ UNCHANGED <<row, deployed, client, gate, bounds, screen, ended>>

\* The installation ends and is started again, perhaps configured otherwise:
\* its processes share their configuration.  The row and what clients have on
\* their screens remain; a gate is created on its first use.
Restart(d) ==
    /\ restarts < MaxRestarts
    /\ restarts' = restarts + 1
    /\ deployed' = d
    /\ client' = [c \in Clients |-> IdleClient]
    /\ gate' = [s \in Stores |-> [busy |-> FALSE, last |-> 0]]
    /\ ended' = [s \in Stores |-> 0]
    /\ screen' = IF d = deployed THEN screen ELSE [c \in Clients |-> NoScreen]
    /\ UNCHANGED <<row, now, faults>>

Next ==
    \/ \E c \in Clients :
           \/ \E s \in Stores :
                  \/ StartTest(c, s)
                  \/ \E v \in StoredValues, n \in Versions : Ask(c, s, v, n)
           \/ Load(c) \/ LoadVersion(c)
           \/ Read(c) \/ Commit(c) \/ CommitRefused(c) \/ WriteFails(c)
           \/ Respond(c) \/ AnswerRefused(c)
           \/ TestRefused(c) \/ BeginTest(c) \/ EndTest(c)
    \/ Tick
    \/ \E d \in Installed : Restart(d)

Spec == Init /\ [][Next]_vars
-----------------------------------------------------------------------------
(* Properties.                                                             *)

\* Types, and: a test that has begun is one that found the gate open.
TypeOK ==
    /\ row \in [value : StoredValues, version : Versions]
    /\ row.version = 0 => row.value = "unset"
    /\ deployed \in Installed
    /\ client \in [Clients -> [pc : PCs, store : Stores \cup {NoStore},
                               value : StoredValues, expected : Versions,
                               enabled : BOOLEAN, known : BOOLEAN,
                               at : Versions,
                               provider : Providers, began : 0 .. MaxTime]]
    /\ gate \in [Stores -> [busy : BOOLEAN, last : 0 .. MaxTime]]
    /\ now \in 1 .. MaxTime
    /\ restarts \in 0 .. MaxRestarts
    /\ faults \in 0 .. MaxFaults
    /\ screen \in [Clients -> [known : BOOLEAN, enabled : BOOLEAN,
                               version : Versions]]
    /\ ended \in [Stores -> 0 .. MaxTime]
    /\ \A c \in Clients :
           /\ client[c].pc = "probe" <=> client[c].began > 0
           /\ client[c].pc \in {"read", "commit"} =>
                  ~ deployed.override /\ client[c].expected < MaxVersion
           /\ client[c].pc \in {"read", "commit", "gate", "probe"} <=>
                  client[c].store # NoStore

\* Two writes that quote one version are never both stored, also the first
\* two, in one process and in several; a refusal names a version the setting
\* has had and the client did not quote.
NoWrite == [value |-> "none", expected |-> 0]

Write(c) == IF client[c].pc \in {"read", "commit"}
            THEN [value |-> client[c].value, expected |-> client[c].expected]
            ELSE NoWrite

AnswerTo(c) ==
    IF client[c].pc = "respond" THEN [kind |-> "stored", version |-> client[c].at]
    ELSE IF client[c].pc = "refused"
    THEN [kind |-> "conflict", version |-> client[c].at]
    ELSE [kind |-> "none", version |-> 0]

Promise == INSTANCE VersionedSetting
    WITH Values <- StoredValues, Default <- "unset",
         value <- row.value, version <- row.version,
         write <- [c \in Clients |-> Write(c)],
         answer <- [c \in Clients |-> AnswerTo(c)]

ImplementsRegister == Promise!Spec

\* A client that quotes the version it was shown changes the value it was
\* shown, and not one it has never seen: unless the two reads of its GET had a
\* write between them, or its value could not be read, or the installation
\* has been configured otherwise since (settings.py: the version a write must
\* quote is the one shown with the value).
IsStored(c) == client[c].pc = "commit" /\ client'[c].pc = "respond"

EditsAreInformed ==
    [][\A c \in Clients :
           IsStored(c) /\ screen[c].known
               /\ screen[c].version = client[c].expected
           => screen[c].enabled = (row.value = "on")]_vars

\* In one process one test runs at a time and the next begins only Interval
\* after it has ended; the gate is shut by a running test and by nothing that
\* is over; and what is probed is on this machine, in a configuration that
\* names a model, whatever the setting has become meanwhile.
TestsAreSound ==
    /\ \A s \in Stores :
           gate[s].busy <=>
               \E c \in Clients : client[c].store = s /\ client[c].pc = "probe"
    /\ \A b, c \in Clients :
           client[b].pc = "probe" /\ client[c].pc = "probe"
               /\ client[b].store = client[c].store => b = c
    /\ \A c \in Clients : client[c].pc = "probe" =>
           /\ LET last == ended[client[c].store] IN
              last > 0 => client[c].began >= last + Interval
           /\ Location(client[c].provider, deployed) = "local"
           /\ client[c].provider = "mock" \/ HasModel(deployed)

\* What four routes tell a client of one stored value.
RoutesAgree(d, value, up) ==
    LET res    == Resolve(d, value)
        test   == Refusal(res, d)
        status == Status(res, d, up)
        checks == Readiness(res, status)
        unnamed == res.provider = "llama_cpp" /\ ~ HasModel(d)
    IN
    /\ status.assistance = "on" <=> res.enabled
    /\ Ready(checks) =>
           test = "none" /\ Probe(res, d, up) /\ status.location = "local"
    /\ status.state = "ready" <=> checks["runtime_answers"] = "done"
    /\ test = "none" <=>
           checks["runtime_on_this_machine"] = "done" /\ ~ unnamed
    /\ test = "no_runtime" <=>
           checks["runtime_configured"] = "todo" \/ unnamed
    /\ ShowsRuntime(res) =>
           res.enabled /\ (res.managed \/ Location(res.provider, d) = "local")
    /\ Note(res) \in {"no_runtime", "not_local"} <=>
           res.enabled /\ ~ ShowsRuntime(res)

\* The setting, the status, the checklist and the connection test, each with
\* its own conditions, say the same of the stored value, whatever the
\* configuration and the runtime: what is ready to one is ready to all, an
\* address that is not on this machine is only ever used on the operator's own
\* word, and a client that is told that nothing will be sent is told so by all
\* of them.  A runtime that an operator names without a model is one to the
\* checklist and none to the test.
SaysTheSame ==
    \A d \in Deployments, up \in BOOLEAN : RoutesAgree(d, row.value, up)
=============================================================================
