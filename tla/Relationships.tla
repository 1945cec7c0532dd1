----------------------------- MODULE Relationships -----------------------------
(***************************************************************************)
(* The confirmed relationships of one completed analysis: versions a       *)
(* client confirms, replaces and withdraws (analysis/confirmed_            *)
(* relationships.py, domain/confirmed_relationship.py) in an insert-only   *)
(* table (persistence/relationship_store.py).                              *)
(*                                                                         *)
(* A writer decides from the whole history and then inserts.  The lock of  *)
(* its store keeps the writers of that store apart; those of another store *)
(* object, or process, only meet the unique key of the table.              *)
(***************************************************************************)
EXTENDS Naturals, FiniteSets

CONSTANTS
    Ids,            \* relationship ids (random: a new one is always fresh)
    Roles,          \* the pairs of columns a relationship may name
    Stores,         \* store objects over the same database
    Writers,        \* the threads that serve POST .../confirmed-relationships
    StoreOf,        \* [Writers -> Stores]
    NoId, NoRoles,
    MaxActive,      \* MAX_ACTIVE_RELATIONSHIPS
    MaxVersions,    \* MAX_VERSIONS_PER_RELATIONSHIP
    MaxPerAnalysis  \* MAX_VERSIONS_PER_ANALYSIS

ASSUME RelationshipCaps ==
    /\ MaxActive \in Nat \ {0} /\ MaxVersions \in Nat \ {0}
    /\ MaxPerAnalysis \in Nat \ {0}
ASSUME FiniteStores == IsFiniteSet(Stores)
ASSUME RelationshipNames ==
    NoId \notin Ids /\ NoRoles \notin Roles /\ StoreOf \in [Writers -> Stores]

VARIABLES
    exists,     \* whether the analysis has not been deleted
    versions,   \* the table: a set of versions
    writer      \* [Writers -> what a request has in hand]

vars == <<exists, versions, writer>>

Transitions == {"confirm", "replace", "withdraw"}
Version == [id : Ids, version : Nat \ {0}, transition : Transitions,
            roles : Roles]

\* TransitionRequest: confirm names no relationship, withdraw no roles.
Requests ==
    [transition : {"confirm"}, id : {NoId}, expected : {0}, roles : Roles]
    \cup [transition : {"replace"}, id : Ids, expected : Nat \ {0}, roles : Roles]
    \cup [transition : {"withdraw"}, id : Ids, expected : Nat \ {0},
          roles : {NoRoles}]

NoRequest == [transition |-> "confirm", id |-> NoId, expected |-> 0,
              roles |-> NoRoles]
NoVersion == [id |-> NoId, version |-> 0, transition |-> "confirm",
              roles |-> NoRoles]

IdleWriter == [pc |-> "idle", request |-> NoRequest,
               outcome |-> NoVersion]

Init ==
    /\ exists = TRUE
    /\ versions = {}
    /\ writer = [w \in Writers |-> IdleWriter]
-----------------------------------------------------------------------------
(* next_version.                                                           *)

History(i) == {v \in versions : v.id = i}

\* The version of a history no other follows.
IsCurrent(v) == v \in versions /\ \A u \in History(v.id) : u.version <= v.version

Active == {i \in Ids : \E v \in versions :
               v.id = i /\ IsCurrent(v) /\ v.transition # "withdraw"}

MayConfirm ==
    /\ Cardinality(versions) < MaxPerAnalysis
    /\ Cardinality(Active) < MaxActive

\* Mutation: a relationship that was withdrawn may be changed again.
MayChangeAny(q, v) == IsCurrent(v) /\ v.id = q.id /\ v.version = q.expected

MayChange(q, v) ==
    /\ IsCurrent(v)
    /\ v.id = q.id
    /\ v.transition # "withdraw"
    /\ v.version = q.expected

WithinCaps(q) ==
    q.transition = "replace" =>
        /\ Cardinality(History(q.id)) < MaxVersions
        /\ Cardinality(versions) < MaxPerAnalysis

IsFresh(i) == History(i) = {} /\ \A w \in Writers : writer[w].outcome.id # i

\* The versions next_version may answer with: none is a rejection.
NextVersion(q) ==
    IF q.transition = "confirm"
    THEN {[id |-> i, version |-> 1, transition |-> "confirm",
           roles |-> q.roles] : i \in {j \in Ids : MayConfirm /\ IsFresh(j)}}
    ELSE {[id |-> v.id, version |-> v.version + 1, transition |-> q.transition,
           roles |-> IF q.transition = "replace" THEN q.roles ELSE v.roles] :
              v \in {u \in versions : MayChange(q, u) /\ WithinCaps(q)}}
-----------------------------------------------------------------------------
Ends(w) == writer' = [writer EXCEPT ![w] = IdleWriter]

\* The route finds the analysis, and apply_transition a well-formed request
\* over its columns.  A client may expect any version it has seen.
Post(w, q) ==
    /\ writer[w].pc = "idle"
    /\ exists
    /\ writer' = [writer EXCEPT ![w] = [IdleWriter EXCEPT !.pc = "append",
                                                          !.request = q]]
    /\ UNCHANGED <<exists, versions>>

PostConfirm(w) ==
    \E r \in Roles : Post(w, [NoRequest EXCEPT !.roles = r])

PostReplace(w) ==
    \E v \in versions, r \in Roles :
        Post(w, [transition |-> "replace", id |-> v.id,
                 expected |-> v.version, roles |-> r])

PostWithdraw(w) ==
    \E v \in versions :
        Post(w, [transition |-> "withdraw", id |-> v.id,
                 expected |-> v.version, roles |-> NoRoles])

\* Mutation: the store has no lock.
LockIsFreeAlways(w) == TRUE

\* Nobody else holds the write lock of the store.
LockIsFree(w) ==
    \A v \in Writers \ {w} :
        StoreOf[v] = StoreOf[w] => writer[v].pc \notin {"insert", "conflict"}

\* append takes the lock, reads the history, and decides.
Decide(w) ==
    LET outcomes == NextVersion(writer[w].request) IN
    /\ writer[w].pc = "append"
    /\ LockIsFree(w)
    /\ \/ \E v \in outcomes :
              writer' = [writer EXCEPT ![w].pc = "insert", ![w].outcome = v]
       \/ outcomes = {} /\ Ends(w)
    /\ UNCHANGED <<exists, versions>>

\* Mutation: the table has no unique key.
KeyIsTakenNever(v) == FALSE

KeyIsTaken(v) == \E u \in versions : u.id = v.id /\ u.version = v.version

\* Mutation: a row is inserted whether or not the analysis is still there.
InsertAnyway(w) ==
    LET v == writer[w].outcome IN
    /\ writer[w].pc = "insert"
    /\ ~ KeyIsTaken(v)
    /\ versions' = versions \cup {v}
    /\ Ends(w)
    /\ UNCHANGED <<exists>>

\* _insert: a row if the analysis is still there, and its commit.
Insert(w) ==
    LET v == writer[w].outcome IN
    /\ writer[w].pc = "insert"
    /\ ~ (exists /\ KeyIsTaken(v))
    /\ versions' = IF exists THEN versions \cup {v} ELSE versions
    /\ Ends(w)
    /\ UNCHANGED <<exists>>

\* The unique key refuses the row (IntegrityError).
Refused(w) ==
    /\ writer[w].pc = "insert"
    /\ exists /\ KeyIsTaken(writer[w].outcome)
    /\ writer' = [writer EXCEPT ![w].pc = "conflict"]
    /\ UNCHANGED <<exists, versions>>

\* Mutation: the thread is free but keeps its request.
ConflictAndKeep(w) ==
    /\ writer[w].pc = "conflict"
    /\ writer' = [writer EXCEPT ![w].pc = "idle"]
    /\ UNCHANGED <<exists, versions>>

\* _conflict decides once more, for the words of the refusal alone.
Conflict(w) ==
    /\ writer[w].pc = "conflict"
    /\ Ends(w)
    /\ UNCHANGED <<exists, versions>>

\* SqlAnalysisStore.delete takes the versions with the analysis.
DeleteAnalysis ==
    /\ exists
    /\ exists' = FALSE
    /\ versions' = {}
    /\ UNCHANGED writer

\* The process of a store dies, and the requests it served with it.
Crash(s) ==
    /\ \E w \in Writers : StoreOf[w] = s /\ writer[w].pc # "idle"
    /\ writer' = [w \in Writers |-> IF StoreOf[w] = s THEN IdleWriter
                                    ELSE writer[w]]
    /\ UNCHANGED <<exists, versions>>

Next ==
    \/ \E w \in Writers :
           \/ PostConfirm(w) \/ PostReplace(w) \/ PostWithdraw(w)
           \/ Decide(w) \/ Insert(w) \/ Refused(w) \/ Conflict(w)
    \/ DeleteAnalysis
    \/ \E s \in Stores : Crash(s)

Spec == Init /\ [][Next]_vars
-----------------------------------------------------------------------------
(* Properties.                                                             *)

\* Types, and: a writer has a request in hand exactly while it serves one, and
\* an outcome exactly once it has decided.
TypeOK ==
    /\ exists \in BOOLEAN
    /\ versions \in SUBSET Version
    /\ writer \in [Writers -> [pc : {"idle", "append", "insert", "conflict"},
                               request : Requests \cup {NoRequest},
                               outcome : Version \cup {NoVersion}]]
    /\ \A w \in Writers :
           /\ writer[w].pc = "idle" <=> writer[w].request = NoRequest
           /\ writer[w].pc \in {"idle", "append"} <=> writer[w].outcome = NoVersion

\* Every relationship's versions are numbered from 1 without a gap or a fork,
\* only the first confirms, only the last withdraws, and a withdrawal names
\* the roles it ends: whatever several processes write at once.
HistoryIsLinear ==
    \A v \in versions :
        /\ v.transition = "confirm" <=> v.version = 1
        /\ \A u \in History(v.id) : u.version = v.version => u = v
        /\ v.version > 1 => \E u \in History(v.id) :
               /\ u.version = v.version - 1
               /\ u.transition # "withdraw"
               /\ v.transition = "withdraw" => u.roles = v.roles

\* Processes beyond the first may each exceed a cap by one.
Slack == Cardinality(Stores) - 1

\* The caps hold (domain/confirmed_relationship.py: growth stays bounded
\* because each relationship is withdrawn at most once).  The cap of one
\* relationship is exact; the two that span relationships are exact in one
\* process, and each further one may exceed them by one.
CapsHold ==
    /\ \A i \in Ids : Cardinality(History(i)) <= MaxVersions + 1
    /\ Cardinality(Active) <= MaxActive + Slack
    /\ Cardinality(versions) + Cardinality(Active)
           <= MaxPerAnalysis + MaxActive + 2 * Slack

\* A relationship at its cap can always be withdrawn.
WithdrawalIsAlwaysPossible ==
    \A v \in versions : IsCurrent(v) /\ v.transition # "withdraw" =>
        NextVersion([transition |-> "withdraw", id |-> v.id,
                     expected |-> v.version, roles |-> NoRoles]) # {}

\* A late write for a deleted analysis stores nothing.
NothingOutlivesItsAnalysis == ~ exists => versions = {}

\* What is stored is sound, however stale what its writer decided from: linear
\* histories, and none of an analysis that is gone.
StoredVersionsAreSound == HistoryIsLinear /\ NothingOutlivesItsAnalysis

\* The histories clients see grow the way RelationshipHistory promises.
RolesOf(i) ==
    [n \in 1 .. Cardinality(History(i)) |->
        LET v == CHOOSE u \in History(i) : u.version = n IN
        IF v.transition = "withdraw" THEN NoRoles ELSE v.roles]

Promise == INSTANCE RelationshipHistory
    WITH Relationships <- Ids, Withdrawn <- NoRoles,
         history <- [i \in Ids |-> RolesOf(i)]

ImplementsHistory == Promise!Spec
=============================================================================
