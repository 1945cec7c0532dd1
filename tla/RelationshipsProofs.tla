-------------------------- MODULE RelationshipsProofs --------------------------
(***************************************************************************)
(* Proofs about Relationships, for any number of store objects and writers *)
(* and any caps.  The argument: what a writer has decided still follows    *)
(* from the table when it is inserted, however stale the history it was    *)
(* decided from, because versions are only added; and the unique key       *)
(* refuses the second of two versions that both follow.                    *)
(***************************************************************************)
EXTENDS Relationships, Sequences, FiniteSetTheorems, TLAPS

USE RelationshipCaps, RelationshipNames

\* u is a version that v may follow.
Precedes(u, v) ==
    /\ u.id = v.id
    /\ u.version = v.version - 1
    /\ u.transition # "withdraw"
    /\ v.transition = "withdraw" => u.roles = v.roles

\* v is the first of its history, or follows a version in the table.
Continues(v) ==
    /\ v.transition = "confirm" <=> v.version = 1
    /\ v.version > 1 => \E u \in versions : Precedes(u, v)

\* No two versions of a relationship have the same number.
KeyIsUnique ==
    \A u, v \in versions : u.id = v.id /\ u.version = v.version => u = v

\* What is stored, and what is about to be, continues its history.
IInv ==
    /\ TypeOK
    /\ KeyIsUnique
    /\ \A v \in versions : Continues(v)
    /\ \A w \in Writers :
           exists /\ writer[w].pc \in {"insert", "conflict"}
               => Continues(writer[w].outcome)
    /\ NothingOutlivesItsAnalysis

-----------------------------------------------------------------------------
\* Initially no version is stored and nobody writes.
LEMMA InitIInv == Init => IInv
BY DEF Init, IInv, TypeOK, KeyIsUnique, NothingOutlivesItsAnalysis, IdleWriter

\* Whatever next_version answers with is a version of its own history that
\* continues it.
LEMMA NextVersionContinues ==
  ASSUME IInv, NEW w \in Writers, writer[w].pc = "append",
         NEW v \in NextVersion(writer[w].request)
  PROVE  v \in Version /\ Continues(v)
<1> DEFINE q == writer[w].request
<1>1. q \in Requests
  BY DEF IInv, TypeOK
<1>2. CASE q.transition = "confirm"
  <2>1. q.roles \in Roles
    BY <1>1, <1>2 DEF Requests
  <2> QED
    BY <1>2, <2>1 DEF NextVersion, Version, Transitions, Continues
<1>3. CASE q.transition # "confirm"
  <2>1. PICK u \in versions :
            /\ MayChange(q, u)
            /\ v = [id |-> u.id, version |-> u.version + 1,
                    transition |-> q.transition,
                    roles |-> IF q.transition = "replace" THEN q.roles ELSE u.roles]
    BY <1>3 DEF NextVersion
  <2>2. u \in Version /\ u.version \in Nat \ {0}
    BY DEF IInv, TypeOK, Version
  <2>3. /\ q.transition \in {"replace", "withdraw"}
        /\ q.transition = "replace" => q.roles \in Roles
    BY <1>1, <1>3 DEF Requests
  <2>4. v \in Version
    BY <2>1, <2>2, <2>3 DEF Version, Transitions
  <2>5. Precedes(u, v)
    BY <2>1, <2>2, <2>3 DEF Precedes, MayChange
  <2>6. v.version > 1 /\ v.version # 1 /\ v.transition # "confirm"
    BY <2>1, <2>2, <2>3
  <2> QED
    BY <2>4, <2>5, <2>6 DEF Continues
<1> QED
  BY <1>2, <1>3

\* A step that stores nothing keeps the invariant, if what writers hold
\* continues the table as it is.
LEMMA TableIsKept ==
  ASSUME IInv, TypeOK', UNCHANGED <<exists, versions>>,
         \A w \in Writers : exists /\ writer'[w].pc \in {"insert", "conflict"}
             => Continues(writer'[w].outcome)
  PROVE  IInv'
BY DEF IInv, KeyIsUnique, Continues, NothingOutlivesItsAnalysis

\* A request that arrives has decided nothing.
LEMMA PostIInv ==
  ASSUME IInv, NEW w \in Writers, PostConfirm(w) \/ PostReplace(w) \/ PostWithdraw(w)
  PROVE  IInv'
<1>1. PICK q : q \in Requests /\ q # NoRequest /\ Post(w, q)
  <2>1. CASE PostConfirm(w)
    BY <2>1 DEF PostConfirm, Requests, NoRequest
  <2>2. CASE PostReplace(w)
    BY <2>2 DEF PostReplace, Requests, NoRequest, IInv, TypeOK, Version
  <2>3. CASE PostWithdraw(w)
    BY <2>3 DEF PostWithdraw, Requests, NoRequest, IInv, TypeOK, Version
  <2> QED
    BY <2>1, <2>2, <2>3
<1>2. TypeOK'
  BY <1>1 DEF Post, IdleWriter, IInv, TypeOK
<1> QED
  BY <1>1, <1>2, TableIsKept DEF Post, IdleWriter, IInv, TypeOK

\* Deciding leaves the writer with a version that continues its history, or
\* with nothing.
LEMMA DecideIInv ==
  ASSUME IInv, NEW w \in Writers, Decide(w)
  PROVE  IInv'
<1>1. CASE Ends(w)
  <2>1. TypeOK'
    BY <1>1 DEF Decide, Ends, IdleWriter, IInv, TypeOK
  <2> QED
    BY <1>1, <2>1, TableIsKept DEF Decide, Ends, IdleWriter, IInv, TypeOK
<1>2. CASE ~ Ends(w)
  <2>1. PICK v \in NextVersion(writer[w].request) :
            writer' = [writer EXCEPT ![w].pc = "insert", ![w].outcome = v]
    BY <1>2 DEF Decide
  <2>2. writer[w].pc = "append" /\ UNCHANGED <<exists, versions>>
    BY DEF Decide
  <2>3. v \in Version /\ Continues(v)
    BY <2>2, NextVersionContinues
  <2>4. v # NoVersion
    BY <2>3 DEF Version, NoVersion
  <2>5. TypeOK'
    BY <2>1, <2>2, <2>3, <2>4 DEF IInv, TypeOK
  <2> QED
    BY <2>1, <2>2, <2>3, <2>5, TableIsKept DEF IInv, TypeOK
<1> QED
  BY <1>1, <1>2

\* The insert adds a version that continues its history and has a number of
\* its own, or nothing.
LEMMA InsertIInv ==
  ASSUME IInv, NEW w \in Writers, Insert(w)
  PROVE  IInv'
<1> DEFINE v == writer[w].outcome
<1>1. /\ writer[w].pc = "insert" /\ v \in Version
      /\ exists' = exists /\ Ends(w)
  BY DEF Insert, IInv, TypeOK
<1>2. TypeOK'
  BY <1>1 DEF Insert, Ends, IdleWriter, IInv, TypeOK
<1>3. \A u \in Writers : u # w => writer'[u] = writer[u]
  BY <1>1 DEF Ends, IInv, TypeOK
<1>4. writer'[w].pc = "idle"
  BY <1>1 DEF Ends, IdleWriter, IInv, TypeOK
<1>5. CASE exists
  <2>1. versions' = versions \cup {v} /\ ~ KeyIsTaken(v) /\ Continues(v)
    BY <1>1, <1>5 DEF Insert, IInv
  <2>2. \A x : Continues(x) => Continues(x)'
    BY <2>1 DEF Continues
  <2>3. KeyIsUnique'
    BY <2>1 DEF IInv, KeyIsUnique, KeyIsTaken
  <2>4. \A x \in versions' : Continues(x)'
    BY <2>1, <2>2 DEF IInv
  <2>5. ASSUME NEW u \in Writers, writer'[u].pc \in {"insert", "conflict"}
        PROVE  Continues(writer[u].outcome)'
    <3>1. writer'[u] = writer[u]
      BY <1>3, <1>4, <2>5
    <3>2. Continues(writer[u].outcome)
      BY <1>5, <2>5, <3>1 DEF IInv
    <3> QED
      BY <2>1, <3>1, <3>2 DEF Continues
  <2> QED
    BY <1>1, <1>2, <1>5, <2>3, <2>4, <2>5 DEF IInv, NothingOutlivesItsAnalysis
<1>6. CASE ~ exists
  <2>1. UNCHANGED <<exists, versions>>
    BY <1>6 DEF Insert
  <2> QED
    BY <1>2, <1>6, <2>1, TableIsKept
<1> QED
  BY <1>5, <1>6

\* A refusal keeps the decision or drops it.
LEMMA RefusalIInv ==
  ASSUME IInv, NEW w \in Writers, Refused(w) \/ Conflict(w)
  PROVE  IInv'
<1>1. TypeOK'
  BY DEF Refused, Conflict, Ends, IdleWriter, IInv, TypeOK
<1>2. UNCHANGED <<exists, versions>>
  BY DEF Refused, Conflict
<1>3. ASSUME NEW u \in Writers, exists, writer'[u].pc \in {"insert", "conflict"}
      PROVE  Continues(writer'[u].outcome)
  <2>1. CASE Conflict(w)
    BY <1>3, <2>1 DEF Conflict, Ends, IdleWriter, IInv, TypeOK
  <2>2. CASE Refused(w)
    BY <1>3, <2>2 DEF Refused, IInv, TypeOK
  <2> QED
    BY <2>1, <2>2
<1> QED
  BY <1>1, <1>2, <1>3, TableIsKept

\* Deleting the analysis leaves nothing to continue, and a process that dies
\* drops what it decided.
LEMMA EndIInv ==
  ASSUME IInv, DeleteAnalysis \/ \E s \in Stores : Crash(s)
  PROVE  IInv'
<1>1. CASE DeleteAnalysis
  BY <1>1 DEF DeleteAnalysis, IInv, TypeOK, KeyIsUnique, NothingOutlivesItsAnalysis
<1>2. CASE \E s \in Stores : Crash(s)
  <2>1. PICK s \in Stores : Crash(s)
    BY <1>2
  <2>2. TypeOK'
    BY <2>1 DEF Crash, IdleWriter, IInv, TypeOK
  <2>3. \A u \in Writers : writer'[u] = writer[u] \/ writer'[u].pc = "idle"
    BY <2>1 DEF Crash, IdleWriter
  <2> QED
    BY <2>1, <2>2, <2>3, TableIsKept DEF Crash, IInv
<1> QED
  BY <1>1, <1>2

\* Every step keeps the invariant.
LEMMA NextIInv == IInv /\ [Next]_vars => IInv'
<1> SUFFICES ASSUME IInv, [Next]_vars PROVE IInv'
  OBVIOUS
<1>1. CASE Next
  BY <1>1, PostIInv, DecideIInv, InsertIInv, RefusalIInv, EndIInv DEF Next
<1>2. CASE UNCHANGED vars
  BY <1>2 DEF vars, IInv, TypeOK, KeyIsUnique, Continues, NothingOutlivesItsAnalysis
<1> QED
  BY <1>1, <1>2

\* Keys are unique, and what is stored or about to be stored continues its
\* history, whatever the writers of other processes do in between.
THEOREM RelationshipsIInvHolds == Spec => []IInv
  BY InitIInv, NextIInv, PTL DEF Spec
-----------------------------------------------------------------------------
(* What follows from it.                                                   *)

\* Types, and what a writer has in hand.
THEOREM RelationshipsTypeCorrect == Spec => []TypeOK
<1>1. IInv => TypeOK
  BY DEF IInv
<1> QED
  BY <1>1, RelationshipsIInvHolds, PTL

\* Histories have no gap and no fork, and nothing follows a withdrawal.
THEOREM HistoryIsLinearHolds == Spec => []HistoryIsLinear
<1>1. IInv => HistoryIsLinear
  <2> SUFFICES ASSUME IInv, NEW v \in versions
               PROVE  /\ v.transition = "confirm" <=> v.version = 1
                      /\ \A u \in History(v.id) : u.version = v.version => u = v
                      /\ v.version > 1 => \E u \in History(v.id) :
                             /\ u.version = v.version - 1
                             /\ u.transition # "withdraw"
                             /\ v.transition = "withdraw" => u.roles = v.roles
    BY DEF HistoryIsLinear
  <2>1. Continues(v)
    BY DEF IInv
  <2>2. v.version > 1 => \E u \in History(v.id) : Precedes(u, v)
    BY <2>1 DEF Continues, Precedes, History
  <2> QED
    BY <2>1, <2>2 DEF IInv, KeyIsUnique, Continues, Precedes, History
<1> QED
  BY <1>1, RelationshipsIInvHolds, PTL

\* No cap keeps a relationship from being withdrawn.
THEOREM WithdrawalIsAlwaysPossibleHolds == Spec => []WithdrawalIsAlwaysPossible
<1>1. WithdrawalIsAlwaysPossible
  <2> SUFFICES ASSUME NEW v \in versions, IsCurrent(v), v.transition # "withdraw"
               PROVE  NextVersion([transition |-> "withdraw", id |-> v.id,
                                   expected |-> v.version, roles |-> NoRoles]) # {}
    BY DEF WithdrawalIsAlwaysPossible
  <2> DEFINE q == [transition |-> "withdraw", id |-> v.id,
                   expected |-> v.version, roles |-> NoRoles]
  <2>1. MayChange(q, v) /\ WithinCaps(q)
    BY DEF MayChange, WithinCaps
  <2>2. [id |-> v.id, version |-> v.version + 1, transition |-> q.transition,
         roles |-> IF q.transition = "replace" THEN q.roles ELSE v.roles]
            \in NextVersion(q)
    BY <2>1 DEF NextVersion
  <2> QED
    BY <2>2
<1> QED
  BY <1>1, PTL

\* A late write for a deleted analysis stores nothing.
THEOREM NothingOutlivesHolds == Spec => []NothingOutlivesItsAnalysis
<1>1. IInv => NothingOutlivesItsAnalysis
  BY DEF IInv
<1> QED
  BY <1>1, RelationshipsIInvHolds, PTL

\* Both together, as the run states it: what is stored is sound, however stale
\* what its writer decided from.
THEOREM StoredVersionsAreSoundHolds == Spec => []StoredVersionsAreSound
<1>1. HistoryIsLinear /\ NothingOutlivesItsAnalysis => StoredVersionsAreSound
  BY DEF StoredVersionsAreSound
<1> QED
  BY <1>1, HistoryIsLinearHolds, NothingOutlivesHolds, PTL
-----------------------------------------------------------------------------
(* The numbers of a history are 1 up to how many versions it has.          *)

Numbered ==
    \A i \in Ids :
        /\ IsFiniteSet(History(i))
        /\ \A n \in Nat : n \in 1 .. Cardinality(History(i))
                              <=> \E v \in History(i) : v.version = n

\* Histories are empty at the start.
LEMMA InitNumbered == Init => Numbered
<1> SUFFICES ASSUME Init, NEW i \in Ids
             PROVE  /\ IsFiniteSet(History(i))
                    /\ \A n \in Nat : n \in 1 .. Cardinality(History(i))
                                          <=> \E v \in History(i) : v.version = n
  BY DEF Numbered
<1>1. History(i) = {}
  BY DEF Init, History
<1> QED
  BY <1>1, FS_EmptySet

\* An insert that stores a version adds the next number to its history, and
\* leaves the other histories as they are.
LEMMA InsertExtends ==
  ASSUME IInv, Numbered, NEW w \in Writers, Insert(w), exists,
         NEW v, v = writer[w].outcome
  PROVE  /\ v \in Version /\ v \notin History(v.id)
         /\ v.version = Cardinality(History(v.id)) + 1
         /\ Cardinality(History(v.id)) \in Nat
         /\ History(v.id)' = History(v.id) \cup {v}
         /\ IsFiniteSet(History(v.id)')
         /\ Cardinality(History(v.id)') = Cardinality(History(v.id)) + 1
         /\ \A j \in Ids \ {v.id} : History(j)' = History(j)
<1> DEFINE n == Cardinality(History(v.id))
<1>1. /\ v \in Version /\ v.id \in Ids /\ v.version \in Nat \ {0}
      /\ versions' = versions \cup {v} /\ ~ KeyIsTaken(v) /\ Continues(v)
  BY DEF Insert, IInv, TypeOK, Version
<1>2. IsFiniteSet(History(v.id)) /\ n \in Nat
  BY <1>1, FS_CardinalityType DEF Numbered
<1>3. v.version \notin 1 .. n
  BY <1>1 DEF Numbered, KeyIsTaken, History
<1>4. v.version > 1 => v.version - 1 \in 1 .. n
  <2> SUFFICES ASSUME v.version > 1 PROVE v.version - 1 \in 1 .. n
    OBVIOUS
  <2>1. PICK u \in versions : Precedes(u, v)
    BY <1>1 DEF Continues
  <2>2. u \in History(v.id) /\ u.version = v.version - 1 /\ v.version - 1 \in Nat
    BY <1>1, <2>1 DEF Precedes, History
  <2> QED
    BY <1>1, <2>2 DEF Numbered
<1>5. v.version = n + 1
  BY <1>1, <1>2, <1>3, <1>4
<1>6. /\ v \notin History(v.id)
      /\ History(v.id)' = History(v.id) \cup {v}
      /\ \A j \in Ids \ {v.id} : History(j)' = History(j)
  BY <1>1 DEF History, KeyIsTaken
<1> QED
  BY <1>1, <1>2, <1>5, <1>6, FS_AddElement

\* Every step keeps the numbers.
LEMMA NextNumbered == IInv /\ Numbered /\ [Next]_vars => Numbered'
<1> SUFFICES ASSUME IInv, Numbered, [Next]_vars PROVE Numbered'
  OBVIOUS
<1>1. CASE UNCHANGED versions
  BY <1>1 DEF Numbered, History
<1>2. CASE DeleteAnalysis
  <2> SUFFICES ASSUME NEW i \in Ids
               PROVE  /\ IsFiniteSet(History(i)')
                      /\ \A n \in Nat : n \in 1 .. Cardinality(History(i)')
                                            <=> \E v \in History(i)' : v.version = n
    BY DEF Numbered
  <2>1. History(i)' = {}
    BY <1>2 DEF DeleteAnalysis, History
  <2> QED
    BY <2>1, FS_EmptySet
<1>3. ASSUME NEW w \in Writers, Insert(w), exists PROVE Numbered'
  <2>0. PICK v : v = writer[w].outcome
    OBVIOUS
  <2> DEFINE k == Cardinality(History(v.id))
  <2>1. /\ v \in Version /\ v.version = k + 1 /\ k \in Nat
        /\ History(v.id)' = History(v.id) \cup {v}
        /\ IsFiniteSet(History(v.id)')
        /\ Cardinality(History(v.id)') = k + 1
        /\ \A j \in Ids \ {v.id} : History(j)' = History(j)
    BY <1>3, <2>0, InsertExtends
  <2>2. v.id \in Ids
    BY <2>1 DEF Version
  <2>3. ASSUME NEW n \in Nat
        PROVE  n \in 1 .. Cardinality(History(v.id)')
                   <=> \E u \in History(v.id)' : u.version = n
    <3>1. n \in 1 .. k + 1 <=> n \in 1 .. k \/ n = k + 1
      BY <2>1
    <3>2. n \in 1 .. k <=> \E u \in History(v.id) : u.version = n
      BY <2>2 DEF Numbered
    <3> HIDE DEF k
    <3> QED
      BY <2>1, <3>1, <3>2
  <2>4. ASSUME NEW i \in Ids
        PROVE  /\ IsFiniteSet(History(i)')
               /\ \A n \in Nat : n \in 1 .. Cardinality(History(i)')
                                     <=> \E u \in History(i)' : u.version = n
    <3>1. CASE i = v.id
      BY <2>1, <2>3, <3>1
    <3>2. CASE i # v.id
      <4>1. History(i)' = History(i)
        BY <2>1, <3>2
      <4> QED
        BY <4>1 DEF Numbered
    <3> QED
      BY <3>1, <3>2
  <2> QED
    BY <2>4 DEF Numbered
<1>4. UNCHANGED versions \/ DeleteAnalysis \/ \E w \in Writers : Insert(w) /\ exists
  BY DEF Next, vars, PostConfirm, PostReplace, PostWithdraw, Post, Decide,
         Insert, Refused, Conflict, Crash
<1> QED
  BY <1>1, <1>2, <1>3, <1>4

\* The versions of a relationship are numbered 1, 2, ... without a gap.
THEOREM NumberedHolds == Spec => []Numbered
  BY InitNumbered, NextNumbered, RelationshipsIInvHolds, PTL DEF Spec
-----------------------------------------------------------------------------
(* Relationships implements RelationshipHistory.                           *)

\* What the version v shows of its relationship.
Shown(v) == IF v.transition = "withdraw" THEN NoRoles ELSE v.roles

\* What a set of versions of one relationship shows, in their order.
Listed(H) == [n \in 1 .. Cardinality(H) |-> Shown(CHOOSE u \in H : u.version = n)]

\* H holds one version for each of the numbers 1 up to its size.
IsHistory(H) ==
    /\ H \subseteq Version /\ Cardinality(H) \in Nat
    /\ \A n \in 1 .. Cardinality(H) : \E u \in H : u.version = n
    /\ \A u, v \in H : u.version = v.version => u = v

\* The list shows each version at its number.
LEMMA ListedAt ==
  ASSUME NEW H, IsHistory(H), NEW v \in H, v.version \in 1 .. Cardinality(H)
  PROVE  Listed(H)[v.version] = Shown(v)
<1>1. \A u \in H : u.version = v.version => u = v
  BY DEF IsHistory
<1>2. (CHOOSE u \in H : u.version = v.version) = v
  BY <1>1
<1> QED
  BY <1>2 DEF Listed

\* The list is a sequence of what versions show.
LEMMA ListedIsASequence ==
  ASSUME NEW H, IsHistory(H)
  PROVE  /\ Listed(H) \in Seq(Roles \cup {NoRoles})
         /\ Len(Listed(H)) = Cardinality(H)
<1>1. ASSUME NEW n \in 1 .. Cardinality(H)
      PROVE  Shown(CHOOSE u \in H : u.version = n) \in Roles \cup {NoRoles}
  <2>1. PICK u \in H : u.version = n
    BY DEF IsHistory
  <2>2. (CHOOSE x \in H : x.version = n) \in H
    BY <2>1
  <2> QED
    BY <2>2 DEF IsHistory, Version, Shown
<1>2. Cardinality(H) \in Nat
  BY DEF IsHistory
<1>3. Listed(H) \in [1 .. Cardinality(H) -> Roles \cup {NoRoles}]
  BY <1>1 DEF Listed
<1> QED
  BY <1>2, <1>3

\* A version with the next number is shown at the end of the list.
LEMMA ListedGrows ==
  ASSUME NEW H, NEW v, IsHistory(H), IsHistory(H \cup {v}),
         v.version = Cardinality(H) + 1,
         Cardinality(H \cup {v}) = Cardinality(H) + 1
  PROVE  Listed(H \cup {v}) = Append(Listed(H), Shown(v))
<1> DEFINE k == Cardinality(H)
           s == Listed(H)
           t == Listed(H \cup {v})
<1>1. /\ s \in Seq(Roles \cup {NoRoles}) /\ Len(s) = k /\ k \in Nat
      /\ t \in Seq(Roles \cup {NoRoles}) /\ Len(t) = k + 1
  BY ListedIsASequence DEF IsHistory
<1>2. t[k + 1] = Shown(v)
  BY <1>1, ListedAt
<1>3. ASSUME NEW n \in 1 .. k PROVE t[n] = s[n]
  <2>1. PICK u \in H : u.version = n
    BY DEF IsHistory
  <2>2. n \in 1 .. k + 1
    BY <1>1
  <2>3. s[n] = Shown(u)
    BY <2>1, ListedAt
  <2>4. t[n] = Shown(u)
    BY <2>1, <2>2, ListedAt
  <2> QED
    BY <2>3, <2>4
<1> HIDE DEF s, t, k
<1>4. Shown(v) \in Roles \cup {NoRoles}
  BY <1>1, <1>2
<1>5. /\ Append(s, Shown(v)) \in Seq(Roles \cup {NoRoles})
      /\ Len(Append(s, Shown(v))) = k + 1
      /\ \A n \in 1 .. k : Append(s, Shown(v))[n] = s[n]
      /\ Append(s, Shown(v))[k + 1] = Shown(v)
  BY <1>1, <1>4
<1>6. \A n \in 1 .. k + 1 : t[n] = Append(s, Shown(v))[n]
  BY <1>1, <1>2, <1>3, <1>5
<1>7. t = Append(s, Shown(v))
  BY <1>1, <1>5, <1>6
<1> QED
  BY <1>7 DEF s, t

\* Every history of the table is one.
LEMMA HistoriesAre ==
  ASSUME IInv, Numbered, NEW i \in Ids
  PROVE  IsHistory(History(i)) /\ RolesOf(i) = Listed(History(i))
<1>1. Cardinality(History(i)) \in Nat
  BY FS_CardinalityType DEF Numbered
<1>2. \A n \in 1 .. Cardinality(History(i)) : \E u \in History(i) : u.version = n
  BY <1>1 DEF Numbered
<1> QED
  BY <1>1, <1>2
  DEF IsHistory, History, IInv, TypeOK, KeyIsUnique, RolesOf, Listed, Shown

\* What clients see lists the versions.
HistoriesAreListed ==
    \A i \in Ids : IsHistory(History(i)) /\ RolesOf(i) = Listed(History(i))

\* It does so in every reachable state.
LEMMA HistoriesAreListedHolds == Spec => []HistoriesAreListed
<1>1. IInv /\ Numbered => HistoriesAreListed
  BY HistoriesAre DEF HistoriesAreListed
<1> QED
  BY <1>1, RelationshipsIInvHolds, NumberedHolds, PTL

\* No version: nothing to show.
LEMMA NothingIsListed == Listed({}) = << >>
<1>1. Cardinality({}) = 0
  BY FS_EmptySet
<1> QED
  BY <1>1 DEF Listed

\* The insert that stores a version is a step of its history.
LEMMA InsertIsAStep ==
  ASSUME IInv, Numbered, HistoriesAreListed', NEW w \in Writers, Insert(w), exists
  PROVE  Promise!Next
<1>1. PICK v : v = writer[w].outcome
  OBVIOUS
<1> DEFINE i == v.id
           H == History(i)
           k == Cardinality(H)
<1>2. /\ v \in Version /\ v \notin H /\ v.version = k + 1 /\ k \in Nat
      /\ History(i)' = H \cup {v} /\ Cardinality(H \cup {v}) = k + 1
      /\ \A j \in Ids \ {i} : History(j)' = History(j)
  BY <1>1, InsertExtends
<1>3. i \in Ids /\ Continues(v) /\ exists' = exists
  BY <1>1, <1>2 DEF Version, IInv, Insert
<1>4. IsHistory(H) /\ RolesOf(i) = Listed(H)
  BY <1>3, HistoriesAre
<1>5. \A j \in Ids : IsHistory(History(j)') /\ RolesOf(j)' = Listed(History(j)')
  BY DEF HistoriesAreListed, IsHistory
<1>6. RolesOf(i)' = Append(RolesOf(i), Shown(v))
  BY <1>2, <1>3, <1>4, <1>5, ListedGrows
<1>7. \A j \in Ids \ {i} : RolesOf(j)' = RolesOf(j)
  BY <1>2, <1>5, HistoriesAre
<1>8. Promise!Grows(i, Shown(v))
  BY <1>3, <1>6, <1>7 DEF Promise!Grows
<1>9. Len(RolesOf(i)) = k /\ RolesOf(i) \in Seq(Roles \cup {NoRoles})
  BY <1>4, ListedIsASequence
<1>10. CASE v.version = 1
  <2>1. RolesOf(i) = << >>
    BY <1>2, <1>9, <1>10
  <2>2. Shown(v) \in Roles
    BY <1>2, <1>3, <1>10 DEF Shown, Continues, Version
  <2> QED
    BY <1>3, <1>8, <2>1, <2>2 DEF Promise!Next, Promise!Confirm
<1>11. CASE v.version > 1
  <2>1. PICK u \in versions : Precedes(u, v)
    BY <1>3, <1>11 DEF Continues
  <2>2. u \in H /\ u.version = k /\ u.transition # "withdraw" /\ u.roles \in Roles
    BY <1>2, <2>1 DEF Precedes, History, IInv, TypeOK, Version
  <2>3. k \in 1 .. k
    BY <1>2, <1>11
  <2>4. RolesOf(i)[k] = u.roles
    BY <1>4, <2>2, <2>3, ListedAt DEF Shown
  <2>5. RolesOf(i) # << >> /\ ~ Promise!Ended(i)
    BY <1>3, <1>9, <2>2, <2>3, <2>4 DEF Promise!Ended
  <2>6. Shown(v) \in Roles \/ Shown(v) = NoRoles
    BY <1>2 DEF Shown, Version
  <2> QED
    BY <1>3, <1>8, <2>5, <2>6 DEF Promise!Next, Promise!Replace, Promise!Withdraw
<1> QED
  BY <1>2, <1>10, <1>11

\* Every step is a step or a stutter of the promised histories.
LEMMA RelationshipsStep ==
  ASSUME IInv, Numbered, HistoriesAreListed', [Next]_vars
  PROVE  [Promise!Next]_<<exists, [i \in Ids |-> RolesOf(i)]>>
<1>1. CASE UNCHANGED <<exists, versions>>
  BY <1>1 DEF RolesOf, History
<1>2. CASE DeleteAnalysis
  <2>1. \A i \in Ids : History(i)' = {} /\ RolesOf(i)' = Listed({})
    BY <1>2 DEF DeleteAnalysis, History, RolesOf, Listed, Shown
  <2> QED
    BY <1>2, <2>1, NothingIsListed DEF DeleteAnalysis, Promise!Next, Promise!Delete
<1>3. ASSUME NEW w \in Writers, Insert(w), exists
      PROVE  Promise!Next
  BY <1>3, InsertIsAStep
<1>4. \/ UNCHANGED <<exists, versions>> \/ DeleteAnalysis
      \/ \E w \in Writers : Insert(w) /\ exists
  BY DEF Next, vars, PostConfirm, PostReplace, PostWithdraw, Post, Decide,
         Insert, Refused, Conflict, Crash
<1> QED
  BY <1>1, <1>2, <1>3, <1>4

\* The histories that clients see only grow at their end, end with a
\* withdrawal, and go with the analysis.
THEOREM ImplementsHistoryHolds == Spec => ImplementsHistory
<1>1. Init => Promise!Init
  <2> SUFFICES ASSUME Init PROVE Promise!Init
    OBVIOUS
  <2>1. \A i \in Ids : History(i) = {} /\ RolesOf(i) = Listed({})
    BY DEF Init, History, RolesOf, Listed, Shown
  <2> QED
    BY <2>1, NothingIsListed DEF Init, Promise!Init
<1> QED
  BY <1>1, RelationshipsStep, RelationshipsIInvHolds, NumberedHolds,
     HistoriesAreListedHolds, PTL
  DEF Spec, ImplementsHistory, Promise!Spec
-----------------------------------------------------------------------------
(* The caps.  A decision is made below a cap and takes effect later.  What *)
(* was decided and is not yet stored is counted with what is stored: a     *)
(* store object has one writer inside its lock, so that is one version for *)
(* each store object at most.                                              *)

\* The store objects whose writer is about to insert a version of this kind.
Inserting(transition) ==
    {s \in Stores : \E w \in Writers :
         /\ StoreOf[w] = s /\ writer[w].pc = "insert"
         /\ writer[w].outcome.transition = transition}

Confirming == Inserting("confirm")
Replacing  == Inserting("replace")

Inside(w) == writer[w].pc \in {"insert", "conflict"}

\* The lock: one writer of a store object is inside at a time.
OneInside ==
    \A v, w \in Writers : Inside(v) /\ Inside(w) /\ StoreOf[v] = StoreOf[w] => v = w

FiniteTable == IsFiniteSet(versions) /\ IsFiniteSet(Active)

\* What counts towards the cap on active relationships.
ActiveCap ==
    Cardinality(Active) + Cardinality(Confirming) <= MaxActive + Slack

\* What counts towards the cap on all versions: a confirmation adds a version
\* and an active relationship, which may be withdrawn later.
VersionsCap ==
    Cardinality(versions) + Cardinality(Active)
        + 2 * Cardinality(Confirming) + Cardinality(Replacing)
            <= MaxPerAnalysis + MaxActive + 2 * Slack

\* Only a withdrawal has a number beyond the cap of its relationship.
OwnCap ==
    /\ \A v \in versions : v.transition # "withdraw" => v.version <= MaxVersions
    /\ \A w \in Writers :
           exists /\ Inside(w) /\ writer[w].outcome.transition # "withdraw"
               => writer[w].outcome.version <= MaxVersions

CapInv == OneInside /\ FiniteTable /\ ActiveCap /\ VersionsCap /\ OwnCap

\* A store object is inserting at most one version.
LEMMA PendingIsBounded ==
  ASSUME IInv, OneInside
  PROVE  /\ IsFiniteSet(Confirming) /\ IsFiniteSet(Replacing)
         /\ Cardinality(Confirming) \in Nat /\ Cardinality(Replacing) \in Nat
         /\ Cardinality(Stores) \in Nat
         /\ Cardinality(Confirming) + Cardinality(Replacing) <= Cardinality(Stores)
         /\ \A s \in Stores : s \notin Confirming \cup Replacing =>
                Cardinality(Confirming) + Cardinality(Replacing) < Cardinality(Stores)
<1>1. Confirming \in SUBSET Stores /\ Replacing \in SUBSET Stores
  BY DEF Confirming, Replacing, Inserting
<1>2. Confirming \cap Replacing = {}
  <2> SUFFICES ASSUME NEW s \in Confirming, s \in Replacing PROVE FALSE
    OBVIOUS
  <2>1. PICK v \in Writers : /\ StoreOf[v] = s /\ writer[v].pc = "insert"
                             /\ writer[v].outcome.transition = "confirm"
    BY DEF Confirming, Inserting
  <2>2. PICK w \in Writers : /\ StoreOf[w] = s /\ writer[w].pc = "insert"
                             /\ writer[w].outcome.transition = "replace"
    BY DEF Replacing, Inserting
  <2>3. v = w
    BY <2>1, <2>2 DEF OneInside, Inside
  <2> QED
    BY <2>1, <2>2, <2>3
<1>3. IsFiniteSet(Confirming) /\ IsFiniteSet(Replacing)
  BY <1>1, FS_Subset, FiniteStores
<1> DEFINE U == Confirming \cup Replacing
<1>4. /\ Cardinality(Confirming) \in Nat /\ Cardinality(Replacing) \in Nat
      /\ Cardinality(Stores) \in Nat
  BY <1>3, FS_CardinalityType, FiniteStores
<1>5. Cardinality(U) = Cardinality(Confirming) + Cardinality(Replacing)
  <2>1. Cardinality(U) = Cardinality(Confirming) + Cardinality(Replacing)
                              - Cardinality(Confirming \cap Replacing)
    BY <1>3, FS_Union
  <2>2. Cardinality(Confirming \cap Replacing) = 0
    BY <1>2, FS_EmptySet
  <2> QED
    BY <1>4, <2>1, <2>2
<1>6. U \in SUBSET Stores
  BY <1>1
<1>7. Cardinality(U) <= Cardinality(Stores)
  BY <1>6, FS_Subset, FiniteStores
<1>8. ASSUME NEW s \in Stores, s \notin U
      PROVE  Cardinality(U) # Cardinality(Stores)
  BY <1>6, <1>8, FS_Subset, FiniteStores
<1> HIDE DEF U
<1>9. ASSUME NEW s \in Stores, s \notin Confirming \cup Replacing
      PROVE  Cardinality(Confirming) + Cardinality(Replacing) < Cardinality(Stores)
  <2>1. Cardinality(U) # Cardinality(Stores)
    BY <1>8, <1>9 DEF U
  <2> QED
    BY <1>4, <1>5, <1>7, <2>1
<1>10. Cardinality(Confirming) + Cardinality(Replacing) <= Cardinality(Stores)
  BY <1>5, <1>7
<1> QED
  BY <1>3, <1>4, <1>9, <1>10


\* The sizes that the caps speak of are numbers.
LEMMA SizesAreNumbers ==
  ASSUME IInv, CapInv
  PROVE  /\ Cardinality(Active) \in Nat /\ Cardinality(versions) \in Nat
         /\ Cardinality(Confirming) \in Nat /\ Cardinality(Replacing) \in Nat
         /\ Cardinality(Stores) \in Nat /\ Slack = Cardinality(Stores) - 1
BY FS_CardinalityType, FiniteStores, PendingIsBounded DEF CapInv, FiniteTable, Slack

\* What is pending can only become less in a step that decides nothing.
LEMMA NothingDecided ==
  ASSUME IInv, CapInv, UNCHANGED <<exists, versions>>,
         \A w \in Writers : Inside(w)' =>
             Inside(w) /\ writer'[w].outcome = writer[w].outcome,
         \A w \in Writers : writer'[w].pc = "insert" => writer[w].pc = "insert"
  PROVE  CapInv'
<1>1. OneInside' /\ OwnCap'
  BY DEF CapInv, OneInside, OwnCap
<1>2. FiniteTable' /\ Active' = Active
  BY DEF CapInv, FiniteTable, Active, IsCurrent, History
<1>3. Confirming' \in SUBSET Confirming /\ Replacing' \in SUBSET Replacing
  BY DEF Confirming, Replacing, Inserting, Inside
<1>4. /\ Cardinality(Confirming') <= Cardinality(Confirming)
      /\ Cardinality(Replacing') <= Cardinality(Replacing)
      /\ Cardinality(Confirming') \in Nat /\ Cardinality(Replacing') \in Nat
  BY <1>3, PendingIsBounded, FS_Subset, FS_CardinalityType DEF CapInv
<1>5. ActiveCap' /\ VersionsCap'
  BY <1>2, <1>4, SizesAreNumbers DEF CapInv, ActiveCap, VersionsCap, Slack
<1> QED
  BY <1>1, <1>2, <1>5 DEF CapInv

\* A decision to add a version is made below the caps, by a store object that
\* had nothing pending.
LEMMA DecideCapInv ==
  ASSUME IInv, Numbered, CapInv, NEW w \in Writers, Decide(w)
  PROVE  CapInv'
<1>1. CASE Ends(w)
  BY <1>1, NothingDecided DEF Decide, Ends, IdleWriter, Inside, IInv, TypeOK
<1>2. CASE ~ Ends(w)
  <2> DEFINE s == StoreOf[w]
             q == writer[w].request
  <2>1. PICK v \in NextVersion(q) :
            writer' = [writer EXCEPT ![w].pc = "insert", ![w].outcome = v]
    BY <1>2 DEF Decide
  <2>2. /\ writer[w].pc = "append" /\ UNCHANGED <<exists, versions>> /\ s \in Stores
        /\ \A u \in Writers \ {w} : StoreOf[u] = s => ~ Inside(u)
    BY DEF Decide, LockIsFree, Inside
  <2>3. /\ writer'[w].pc = "insert" /\ writer'[w].outcome = v
        /\ \A u \in Writers \ {w} : writer'[u] = writer[u]
    BY <2>1 DEF IInv, TypeOK
  <2>4. OneInside'
    BY <2>2, <2>3 DEF CapInv, OneInside, Inside
  <2>5. FiniteTable' /\ Active' = Active
    BY <2>2 DEF CapInv, FiniteTable, Active, IsCurrent, History
  <2>6. s \notin Confirming \cup Replacing
    BY <2>2 DEF Confirming, Replacing, Inserting, Inside
  <2>7. /\ Confirming' = IF v.transition = "confirm" THEN Confirming \cup {s}
                         ELSE Confirming
        /\ Replacing' = IF v.transition = "replace" THEN Replacing \cup {s}
                        ELSE Replacing
    BY <2>2, <2>3 DEF Confirming, Replacing, Inserting
  <2>8. Cardinality(Confirming) + Cardinality(Replacing) < Cardinality(Stores)
    BY <2>2, <2>6, PendingIsBounded DEF CapInv
  <2>9. CASE v.transition = "confirm"
    <3>1. v.version = 1 /\ MayConfirm
      BY <2>1, <2>9 DEF NextVersion, IInv, TypeOK, Requests
    <3>2. OwnCap'
      BY <2>2, <2>3, <3>1 DEF CapInv, OwnCap, Inside
    <3>3. /\ Cardinality(Confirming') = Cardinality(Confirming) + 1
          /\ Cardinality(Replacing') = Cardinality(Replacing)
      BY <2>6, <2>7, <2>9, FS_AddElement, PendingIsBounded DEF CapInv
    <3>4. ActiveCap'
      BY <2>5, <2>8, <3>1, <3>3, SizesAreNumbers DEF ActiveCap, Slack, MayConfirm
    <3>5. VersionsCap'
      BY <2>2, <2>5, <2>8, <3>1, <3>3, SizesAreNumbers DEF VersionsCap, Slack, MayConfirm
    <3> QED
      BY <2>4, <2>5, <3>2, <3>4, <3>5 DEF CapInv
  <2>10. CASE v.transition = "replace"
    <3>1. PICK u \in versions :
              /\ MayChange(q, u) /\ q.transition = "replace"
              /\ v.id = u.id /\ v.version = u.version + 1
              /\ Cardinality(History(u.id)) < MaxVersions
              /\ Cardinality(versions) < MaxPerAnalysis
      BY <2>1, <2>10 DEF NextVersion, WithinCaps, MayChange
    <3>2. v.version <= MaxVersions
      <4>1. u \in History(u.id) /\ u.id \in Ids /\ u.version \in Nat
        BY DEF History, IInv, TypeOK, Version
      <4>2. u.version \in 1 .. Cardinality(History(u.id))
        BY <4>1 DEF Numbered
      <4>3. Cardinality(History(u.id)) \in Nat
        BY <4>1, FS_CardinalityType DEF Numbered
      <4> QED
        BY <3>1, <4>2, <4>3
    <3>3. OwnCap'
      BY <2>2, <2>3, <3>2 DEF CapInv, OwnCap, Inside
    <3>4. /\ Cardinality(Confirming') = Cardinality(Confirming)
          /\ Cardinality(Replacing') = Cardinality(Replacing) + 1
      BY <2>6, <2>7, <2>10, FS_AddElement, PendingIsBounded DEF CapInv
    <3>5. ActiveCap'
      BY <2>5, <3>4, SizesAreNumbers DEF CapInv, ActiveCap, Slack
    <3>6. VersionsCap'
      BY <2>2, <2>5, <2>8, <3>1, <3>4, SizesAreNumbers DEF CapInv, ActiveCap, VersionsCap, Slack
    <3> QED
      BY <2>4, <2>5, <3>3, <3>5, <3>6 DEF CapInv
  <2>11. CASE v.transition \notin {"confirm", "replace"}
    <3>1. v.transition = "withdraw"
      BY <2>2, <2>11, NextVersionContinues DEF Version, Transitions
    <3>2. OwnCap'
      BY <2>2, <2>3, <3>1 DEF CapInv, OwnCap, Inside
    <3>3. Confirming' = Confirming /\ Replacing' = Replacing
      BY <2>7, <2>11
    <3>4. ActiveCap' /\ VersionsCap'
      BY <2>2, <2>5, <3>3 DEF CapInv, ActiveCap, VersionsCap, Slack
    <3> QED
      BY <2>4, <2>5, <3>2, <3>4 DEF CapInv
  <2> QED
    BY <2>9, <2>10, <2>11
<1> QED
  BY <1>1, <1>2

\* An insert makes its relationship active or ends it, and changes no other.
LEMMA InsertActive ==
  ASSUME IInv, Numbered, NEW w \in Writers, Insert(w), exists,
         NEW v, v = writer[w].outcome
  PROVE  /\ v.transition = "confirm" => Active' = Active \cup {v.id}
         /\ v.transition = "replace" => Active' = Active
         /\ v.transition = "withdraw" => v.id \in Active /\ Active' = Active \ {v.id}
<1> DEFINE i == v.id
           n == Cardinality(History(i))
<1>1. /\ v \in Version /\ i \in Ids /\ v.version = n + 1 /\ n \in Nat
      /\ History(i)' = History(i) \cup {v}
      /\ \A j \in Ids \ {i} : History(j)' = History(j)
      /\ versions' = versions \cup {v} /\ Continues(v)
  BY InsertExtends DEF Version, Insert, IInv
<1>2. \A u \in History(i) : u.version \in Nat /\ u.version <= n
  <2> SUFFICES ASSUME NEW u \in History(i) PROVE u.version \in Nat /\ u.version <= n
    OBVIOUS
  <2>1. u.version \in Nat
    BY DEF History, IInv, TypeOK, Version
  <2>2. u.version \in 1 .. n
    BY <1>1, <2>1 DEF Numbered
  <2> QED
    BY <1>1, <2>2
<1>3. \A j \in Ids \ {i} : j \in Active' <=> j \in Active
  BY <1>1 DEF Active, IsCurrent, History
<1>4. \A u \in versions' : u.id = i /\ IsCurrent(u)' <=> u = v
  <2>1. IsCurrent(v)'
    BY <1>1, <1>2 DEF IsCurrent
  <2>2. ASSUME NEW u \in versions', u.id = i, IsCurrent(u)' PROVE u = v
    <3>1. v.version <= u.version
      BY <1>1, <2>2 DEF IsCurrent
    <3>2. u \in History(i)'
      BY <2>2 DEF History
    <3> QED
      BY <1>1, <1>2, <3>1, <3>2
  <2> QED
    BY <2>1, <2>2
<1>5. i \in Active' <=> v.transition # "withdraw"
  BY <1>1, <1>4 DEF Active
<1>6. ASSUME v.transition # "confirm" PROVE i \in Active
  <2>1. v.version # 1 /\ v.version > 1
    BY <1>1, <1>6 DEF Continues
  <2>2. PICK u \in versions : Precedes(u, v)
    BY <1>1, <2>1 DEF Continues
  <2>3. u.id = i /\ u.version = n /\ u.transition # "withdraw"
    BY <1>1, <2>2 DEF Precedes
  <2>4. IsCurrent(u)
    BY <1>2, <2>3 DEF IsCurrent
  <2> QED
    BY <1>1, <2>3, <2>4 DEF Active
<1>7. Active \in SUBSET Ids /\ Active' \in SUBSET Ids
  BY DEF Active
<1> QED
  BY <1>1, <1>3, <1>5, <1>6, <1>7

\* An insert turns what was pending into what is stored.
LEMMA InsertCapInv ==
  ASSUME IInv, Numbered, CapInv, NEW w \in Writers, Insert(w)
  PROVE  CapInv'
<1>1. CASE ~ exists
  BY <1>1, NothingDecided DEF Insert, Ends, IdleWriter, Inside, IInv, TypeOK
<1>2. CASE exists
  <2> DEFINE s == StoreOf[w]
             v == writer[w].outcome
  <2>1. /\ v \in Version /\ s \in Stores /\ writer[w].pc = "insert"
        /\ versions' = versions \cup {v} /\ v \notin versions /\ exists'
    BY <1>2 DEF Insert, KeyIsTaken, IInv, TypeOK
  <2>2. /\ writer'[w].pc = "idle"
        /\ \A u \in Writers \ {w} : writer'[u] = writer[u]
    BY DEF Insert, Ends, IdleWriter, IInv, TypeOK
  <2>3. OneInside'
    BY <2>2 DEF CapInv, OneInside, Inside
  <2>4. /\ IsFiniteSet(versions')
        /\ Cardinality(versions') = Cardinality(versions) + 1
    BY <2>1, FS_AddElement DEF CapInv, FiniteTable
  <2>5. \A u \in Writers \ {w} : Inside(u) => StoreOf[u] # s
    BY <2>1 DEF CapInv, OneInside, Inside
  <2>6. /\ Confirming' = IF v.transition = "confirm" THEN Confirming \ {s}
                         ELSE Confirming
        /\ v.transition = "confirm" => s \in Confirming
        /\ Replacing' = IF v.transition = "replace" THEN Replacing \ {s}
                        ELSE Replacing
        /\ v.transition = "replace" => s \in Replacing
    BY <2>1, <2>2, <2>5 DEF Confirming, Replacing, Inserting, Inside
  <2>7. OwnCap'
    BY <1>2, <2>1, <2>2 DEF CapInv, OwnCap, Inside
  <2>8. IsFiniteSet(Active) /\ IsFiniteSet(Confirming) /\ IsFiniteSet(Replacing)
    BY PendingIsBounded DEF CapInv, FiniteTable
  <2>9. CASE v.transition = "confirm"
    <3>1. /\ IsFiniteSet(Active')
          /\ Cardinality(Active') \in Nat
          /\ Cardinality(Active') <= Cardinality(Active) + 1
      <4>1. Active' = Active \cup {v.id}
        BY <1>2, <2>9, InsertActive
      <4>2. /\ IsFiniteSet(Active \cup {v.id})
            /\ Cardinality(Active \cup {v.id}) =
                   IF v.id \in Active THEN Cardinality(Active)
                   ELSE Cardinality(Active) + 1
        BY <2>8, FS_AddElement
      <4> HIDE DEF v
      <4> QED
        BY <4>1, <4>2, SizesAreNumbers
    <3>2. /\ Cardinality(Confirming') = Cardinality(Confirming) - 1
          /\ Replacing' = Replacing
      BY <2>6, <2>8, <2>9, FS_RemoveElement
    <3> QED
      BY <2>3, <2>4, <2>7, <3>1, <3>2, SizesAreNumbers
      DEF CapInv, FiniteTable, ActiveCap, VersionsCap, Slack
  <2>10. CASE v.transition = "replace"
    <3>1. Active' = Active
      BY <1>2, <2>10, InsertActive
    <3>2. /\ Cardinality(Replacing') = Cardinality(Replacing) - 1
          /\ Confirming' = Confirming
      BY <2>6, <2>8, <2>10, FS_RemoveElement
    <3> QED
      BY <2>3, <2>4, <2>7, <2>8, <3>1, <3>2, SizesAreNumbers
      DEF CapInv, FiniteTable, ActiveCap, VersionsCap, Slack
  <2>11. CASE v.transition = "withdraw"
    <3>1. /\ IsFiniteSet(Active')
          /\ Cardinality(Active') = Cardinality(Active) - 1
      <4>1. v.id \in Active /\ Active' = Active \ {v.id}
        BY <1>2, <2>11, InsertActive
      <4> QED
        BY <2>8, <4>1, FS_RemoveElement
    <3>2. Confirming' = Confirming /\ Replacing' = Replacing
      BY <2>6, <2>11
    <3> QED
      BY <2>3, <2>4, <2>7, <3>1, <3>2, SizesAreNumbers
      DEF CapInv, FiniteTable, ActiveCap, VersionsCap, Slack
  <2> QED
    BY <2>1, <2>9, <2>10, <2>11 DEF Version, Transitions
<1> QED
  BY <1>1, <1>2

\* Deleting the analysis leaves at most what is pending, which stores nothing.
LEMMA DeleteCapInv ==
  ASSUME IInv, CapInv, DeleteAnalysis
  PROVE  CapInv'
<1>1. /\ versions' = {} /\ Active' = {} /\ exists' = FALSE /\ UNCHANGED writer
  BY DEF DeleteAnalysis, Active, IsCurrent
<1>2. /\ OneInside' /\ OwnCap' /\ Confirming' = Confirming /\ Replacing' = Replacing
  BY <1>1 DEF CapInv, OneInside, OwnCap, Inside, Confirming, Replacing, Inserting
<1>3. FiniteTable' /\ Cardinality(versions') = 0 /\ Cardinality(Active') = 0
  BY <1>1, FS_EmptySet DEF FiniteTable
<1>4. Cardinality(Confirming) + Cardinality(Replacing) <= Cardinality(Stores)
  BY PendingIsBounded DEF CapInv
<1>5. ActiveCap' /\ VersionsCap'
  BY <1>2, <1>3, <1>4, SizesAreNumbers DEF ActiveCap, VersionsCap, Slack
<1> QED
  BY <1>2, <1>3, <1>5 DEF CapInv

\* Nothing is stored or pending at the start.
LEMMA InitCapInv == Init => CapInv
<1> SUFFICES ASSUME Init PROVE CapInv
  OBVIOUS
<1>1. /\ versions = {} /\ Active = {} /\ Confirming = {} /\ Replacing = {}
      /\ \A w \in Writers : ~ Inside(w)
  BY DEF Init, Active, IsCurrent, Confirming, Replacing, Inserting, Inside, IdleWriter
<1>2. Cardinality(Stores) \in Nat /\ Cardinality({}) = 0 /\ IsFiniteSet({})
  BY FiniteStores, FS_CardinalityType, FS_EmptySet
<1> QED
  BY <1>1, <1>2 DEF CapInv, OneInside, FiniteTable, ActiveCap, VersionsCap, OwnCap, Slack

\* Every step keeps the caps.
LEMMA NextCapInv == IInv /\ Numbered /\ CapInv /\ [Next]_vars => CapInv'
<1> SUFFICES ASSUME IInv, Numbered, CapInv, [Next]_vars PROVE CapInv'
  OBVIOUS
<1>1. ASSUME NEW w \in Writers, PostConfirm(w) \/ PostReplace(w) \/ PostWithdraw(w)
      PROVE  CapInv'
  <2>1. PICK q : Post(w, q)
    BY <1>1 DEF PostConfirm, PostReplace, PostWithdraw
  <2>2. writer'[w].pc = "append" /\ \A u \in Writers \ {w} : writer'[u] = writer[u]
    BY <2>1 DEF Post, IdleWriter, IInv, TypeOK
  <2> QED
    BY <2>1, <2>2, NothingDecided DEF Post, Inside
<1>2. ASSUME NEW w \in Writers, Refused(w) \/ Conflict(w)
      PROVE  CapInv'
  BY <1>2, NothingDecided DEF Refused, Conflict, Ends, IdleWriter, Inside, IInv, TypeOK
<1>3. ASSUME NEW s \in Stores, Crash(s)
      PROVE  CapInv'
  BY <1>3, NothingDecided DEF Crash, IdleWriter, Inside
<1>4. CASE UNCHANGED vars
  BY <1>4, NothingDecided DEF vars, Inside
<1> QED
  BY <1>1, <1>2, <1>3, <1>4, DecideCapInv, InsertCapInv, DeleteCapInv DEF Next

\* The caps hold up to the slack of stores that decide at the same time; the
\* cap of one relationship is exact.
THEOREM CapsHoldHolds == Spec => []CapsHold
<1>1. ASSUME IInv, Numbered, CapInv, NEW i \in Ids
      PROVE  Cardinality(History(i)) <= MaxVersions + 1
  <2> DEFINE n == Cardinality(History(i))
  <2>1. n \in Nat
    BY <1>1, FS_CardinalityType DEF Numbered
  <2>2. CASE n = 0
    BY <2>2
  <2>3. CASE n # 0
    <3>1. n \in 1 .. n
      BY <2>1, <2>3
    <3>2. PICK v \in History(i) : v.version = n
      BY <1>1, <2>1, <3>1 DEF Numbered
    <3>3. v \in versions /\ Continues(v)
      BY <1>1 DEF History, IInv
    <3>4. CASE v.transition # "withdraw"
      BY <1>1, <2>1, <3>2, <3>3, <3>4 DEF CapInv, OwnCap
    <3>5. CASE v.transition = "withdraw"
      <4>1. n > 1
        BY <2>1, <2>3, <3>2, <3>3, <3>5 DEF Continues
      <4>2. PICK u \in versions : Precedes(u, v)
        BY <3>2, <3>3, <4>1 DEF Continues
      <4>3. u.version = n - 1 /\ u.version <= MaxVersions
        BY <1>1, <3>2, <4>2 DEF Precedes, CapInv, OwnCap
      <4> QED
        BY <2>1, <4>3
    <3> QED
      BY <3>4, <3>5
  <2> QED
    BY <2>2, <2>3
<1>2. IInv /\ Numbered /\ CapInv => CapsHold
  <2> SUFFICES ASSUME IInv, Numbered, CapInv PROVE CapsHold
    OBVIOUS
  <2>1. /\ Cardinality(Active) <= MaxActive + Slack
        /\ Cardinality(versions) + Cardinality(Active)
               <= MaxPerAnalysis + MaxActive + 2 * Slack
    BY SizesAreNumbers DEF CapInv, ActiveCap, VersionsCap
  <2> QED
    BY <1>1, <2>1 DEF CapsHold
<1> QED
  BY <1>2, InitCapInv, NextCapInv, RelationshipsIInvHolds, NumberedHolds, PTL DEF Spec
=============================================================================
