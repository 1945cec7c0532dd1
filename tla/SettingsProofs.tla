---------------------------- MODULE SettingsProofs ----------------------------
(***************************************************************************)
(* Proofs that the stored setting is a versioned register, that edits are  *)
(* informed and that connection tests exclude one another, for any number  *)
(* of clients and processes and any configurations.                        *)
(***************************************************************************)
EXTENDS Settings, TLAPS

\* A write on its way to the row has met the version it expects, and versions
\* only grow.
CommitsAreLate ==
    \A c \in Clients :
        client[c].pc = "commit" => client[c].expected <= row.version

\* What is stored for users is what a client sees, if it is of that version.
IsTrueOf(enabled, version) ==
    /\ version <= row.version
    /\ ~ deployed.override /\ version = row.version =>
           (enabled <=> row.value = "on")

ReadsAreTrue ==
    \A c \in Clients :
        /\ client[c].pc \in {"version", "respond"} => client[c].at <= row.version
        /\ client[c].pc = "version" /\ client[c].known =>
               IsTrueOf(client[c].enabled, client[c].at)

ScreensAreTrue ==
    \A c \in Clients :
        screen[c].known => IsTrueOf(screen[c].enabled, screen[c].version)

\* What has passed the refusals is probed under the same configuration.
OnlyLocalIsTested ==
    \A c \in Clients :
        client[c].pc \in {"gate", "probe"} =>
            /\ Location(client[c].provider, deployed) = "local"
            /\ client[c].provider = "mock" \/ HasModel(deployed)

GatesRemember == \A s \in Stores : gate[s].last = ended[s]

IInv ==
    /\ TypeOK
    /\ CommitsAreLate
    /\ ReadsAreTrue
    /\ ScreensAreTrue
    /\ OnlyLocalIsTested
    /\ GatesRemember
    /\ TestsAreSound
-----------------------------------------------------------------------------
(* What the operators return.                                              *)

\* The effective setting is the stored one, where users manage it.
LEMMA ResolveShowsStored ==
    ASSUME NEW d \in Deployments, NEW v \in StoredValues
    PROVE  /\ Resolve(d, v).enabled \in BOOLEAN
           /\ Resolve(d, v).provider \in Providers
           /\ ~ d.override => (Resolve(d, v).enabled <=> v = "on")
BY DEF Resolve, Unavailable, Deployments, Providers, StoredValues, Location,
       HasModel

\* What is not refused is on this machine and has a model.
LEMMA NotRefusedIsLocal ==
    ASSUME NEW d \in Deployments, NEW res, Refusal(res, d) = "none"
    PROVE  /\ Location(res.provider, d) = "local"
           /\ res.provider = "mock" \/ HasModel(d)
BY DEF Refusal, NothingToProbe

\* The installation's configurations are configurations.
LEMMA DeployedIsADeployment ==
    ASSUME TypeOK PROVE deployed \in Deployments
BY InstalledAreDeployments DEF TypeOK
-----------------------------------------------------------------------------
(* Types.                                                                  *)

ClientRecords ==
    [pc : PCs, store : Stores \cup {NoStore}, value : StoredValues,
     expected : Versions, enabled : BOOLEAN, known : BOOLEAN, at : Versions,
     provider : Providers, began : 0 .. MaxTime]

\* What TypeOK says of one client.
IsRequest(x) ==
    /\ x \in ClientRecords
    /\ x.pc = "probe" <=> x.began > 0
    /\ x.pc \in {"read", "commit"} =>
           ~ deployed.override /\ x.expected < MaxVersion
    /\ x.pc \in {"read", "commit", "gate", "probe"} <=> x.store # NoStore

\* A client without a request.
LEMMA IdleIsIdle ==
    /\ IdleClient \in ClientRecords
    /\ IdleClient.pc = "idle" /\ IdleClient.began = 0
    /\ IdleClient.store = NoStore /\ IdleClient.expected = 0
BY SettingsBounds, NoStoreIsNone
DEF IdleClient, ClientRecords, PCs, StoredValues, Versions, Providers

\* A request that has come from "idle" to some other place.
LEMMA NewRequest ==
    ASSUME NEW x \in ClientRecords, x.began = 0, x.pc # "probe",
           \/ x.pc \in {"version", "respond", "refused"} /\ x.store = NoStore
           \/ x.pc = "gate" /\ x.store # NoStore
           \/ /\ x.pc = "read" /\ x.store # NoStore
              /\ ~ deployed.override /\ x.expected < MaxVersion
    PROVE  IsRequest(x)
BY DEF IsRequest

\* A step that leaves the other clients and the configuration alone.
LEMMA OneClientMoves ==
    ASSUME TypeOK, NEW c \in Clients, NEW x, IsRequest(x),
           client' = [client EXCEPT ![c] = x], deployed' = deployed
    PROVE  /\ client' \in [Clients -> ClientRecords]
           /\ \A b \in Clients : IsRequest(client[b])'
<1>1. client \in [Clients -> ClientRecords] /\ \A b \in Clients : IsRequest(client[b])
  BY DEF TypeOK, IsRequest, ClientRecords
<1> HIDE DEF TypeOK, ClientRecords
<1>2. client' \in [Clients -> ClientRecords]
  BY <1>1 DEF IsRequest
<1>3. ASSUME NEW b \in Clients PROVE IsRequest(client[b])'
  BY <1>1, <1>2 DEF IsRequest
<1> QED BY <1>2, <1>3

\* What TypeOK says of everything else.
OthersOK ==
    /\ row \in [value : StoredValues, version : Versions]
    /\ row.version = 0 => row.value = "unset"
    /\ deployed \in Installed
    /\ gate \in [Stores -> [busy : BOOLEAN, last : 0 .. MaxTime]]
    /\ now \in 1 .. MaxTime
    /\ restarts \in 0 .. MaxRestarts
    /\ faults \in 0 .. MaxFaults
    /\ screen \in [Clients -> [known : BOOLEAN, enabled : BOOLEAN,
                               version : Versions]]
    /\ ended \in [Stores -> 0 .. MaxTime]

\* TypeOK in two parts.
LEMMA TypeOKSplit ==
    TypeOK <=> /\ OthersOK
               /\ client \in [Clients -> ClientRecords]
               /\ \A c \in Clients : IsRequest(client[c])
BY DEF TypeOK, OthersOK, ClientRecords, IsRequest

\* The types hold at first.
LEMMA InitTypeOK == Init => TypeOK
BY SettingsBounds, NoStoreIsNone
DEF Init, TypeOK, Versions, IdleClient, NoScreen, StoredValues, PCs, Providers

\* A step of one client is well typed if its new record and the rest are.
LEMMA ClientStepTypeOK ==
    ASSUME TypeOK, NEW c \in Clients, NEW x, IsRequest(x),
           client' = [client EXCEPT ![c] = x], deployed' = deployed, OthersOK'
    PROVE  TypeOK'
<1>1. /\ client' \in [Clients -> ClientRecords]
      /\ \A b \in Clients : IsRequest(client[b])'
  BY OneClientMoves
<1> QED BY <1>1 DEF TypeOK, OthersOK, ClientRecords, IsRequest

\* Every step preserves the types.
LEMMA NextTypeOK ==
    ASSUME TypeOK, [Next]_vars PROVE TypeOK'
<1> USE IdleIsIdle
<1>0. /\ OthersOK /\ deployed \in Deployments
      /\ client \in [Clients -> ClientRecords]
      /\ \A c \in Clients : IsRequest(client[c])
  BY TypeOKSplit, DeployedIsADeployment
<1>1. ASSUME NEW c \in Clients, Load(c) PROVE TypeOK'
  <2>1. PICK readable \in BOOLEAN :
            /\ IF readable THEN Works ELSE Fails
            /\ client' = [client EXCEPT ![c] =
                   [IdleClient EXCEPT !.pc = "version", !.at = row.version,
                                      !.enabled = Resolved(readable).enabled,
                                      !.known = readable]]
    BY <1>1 DEF Load
  <2>2. Resolved(readable).enabled \in BOOLEAN
    BY <1>0, ResolveShowsStored DEF Resolved, OthersOK, StoredValues
  <2> DEFINE x == [IdleClient EXCEPT !.pc = "version", !.at = row.version,
                                     !.enabled = Resolved(readable).enabled,
                                     !.known = readable]
  <2>3. IsRequest(x)
    <3>1. x \in ClientRecords
      BY <1>0, <2>2 DEF ClientRecords, PCs, OthersOK
    <3>2. x.pc = "version" /\ x.began = 0 /\ x.store = NoStore
      BY DEF ClientRecords
    <3> HIDE DEF x
    <3> QED BY <3>1, <3>2, NewRequest
  <2>4. OthersOK' /\ deployed' = deployed
    BY <1>0, <1>1, <2>1, SettingsBounds DEF Load, OnlyClient, Works, Fails, OthersOK
  <2> QED BY <2>1, <2>3, <2>4, ClientStepTypeOK
<1>2. ASSUME NEW c \in Clients, LoadVersion(c) PROVE TypeOK'
  <2>1. IsRequest(IdleClient)
    BY DEF IsRequest
  <2>2. client[c].enabled \in BOOLEAN
    BY <1>0 DEF ClientRecords
  <2>3. screen' \in [Clients -> [known : BOOLEAN, enabled : BOOLEAN,
                                 version : Versions]]
    BY <1>0, <1>2, <2>2, SettingsBounds
    DEF LoadVersion, Shows, NoScreen, OthersOK, Versions
  <2>4. OthersOK' /\ deployed' = deployed
    BY <1>0, <1>2, <2>3, SettingsBounds DEF LoadVersion, Works, Fails, OthersOK
  <2> QED BY <1>2, <2>1, <2>4, ClientStepTypeOK DEF LoadVersion, Ends
<1>3. ASSUME NEW c \in Clients, NEW s \in Stores, NEW v \in StoredValues,
             NEW n \in Versions, Ask(c, s, v, n)
      PROVE  TypeOK'
  <2> DEFINE x == [IdleClient EXCEPT !.pc = "read", !.store = s, !.value = v,
                                     !.expected = n]
  <2>1. IsRequest(x)
    <3>1. x \in ClientRecords
      BY DEF ClientRecords, PCs
    <3>2. x.pc = "read" /\ x.began = 0 /\ x.store = s /\ x.expected = n
      BY DEF ClientRecords
    <3>3. s # NoStore /\ ~ deployed.override /\ n < MaxVersion
      BY <1>3, NoStoreIsNone DEF Ask
    <3> HIDE DEF x
    <3> QED BY <3>1, <3>2, <3>3, NewRequest
  <2> QED
    BY <1>0, <1>3, <2>1, ClientStepTypeOK DEF Ask, bounds, OthersOK
<1>4. ASSUME NEW c \in Clients, Read(c) PROVE TypeOK'
  <2>1. CASE row.version = client[c].expected
    <3>1. IsRequest([client[c] EXCEPT !.pc = "commit"])
      BY <1>0, <1>4 DEF Read, IsRequest, ClientRecords, PCs
    <3> QED
      BY <1>0, <1>4, <2>1, <3>1, ClientStepTypeOK
      DEF Read, Goes, OnlyClient, OthersOK
  <2>2. CASE row.version # client[c].expected
    <3> DEFINE x == [IdleClient EXCEPT !.pc = "refused", !.at = row.version]
    <3>1. IsRequest(x)
      <4>1. x \in ClientRecords
        BY <1>0 DEF ClientRecords, PCs, OthersOK
      <4>2. x.pc = "refused" /\ x.began = 0 /\ x.store = NoStore
        BY DEF ClientRecords
      <4> HIDE DEF x
      <4> QED BY <4>1, <4>2, NewRequest
    <3> QED
      BY <1>0, <1>4, <2>2, <3>1, ClientStepTypeOK
      DEF Read, Replies, OnlyClient, OthersOK
  <2> QED BY <2>1, <2>2
<1>5. ASSUME NEW c \in Clients, Commit(c) \/ CommitRefused(c) PROVE TypeOK'
  <2> DEFINE next == client[c].expected + 1
  <2>1. /\ next \in Versions /\ next > 0
        /\ client[c].value \in StoredValues
    BY <1>0, <1>5, SettingsBounds
    DEF Commit, CommitRefused, IsRequest, ClientRecords, Versions
  <2>2. ASSUME NEW pc \in {"respond", "refused"}
        PROVE  IsRequest([IdleClient EXCEPT !.pc = pc, !.at = next])
    <3> DEFINE x == [IdleClient EXCEPT !.pc = pc, !.at = next]
    <3>1. x \in ClientRecords
      BY <2>1 DEF ClientRecords, PCs
    <3>2. /\ x.pc \in {"respond", "refused"}
          /\ x.began = 0 /\ x.store = NoStore
      BY DEF ClientRecords
    <3> HIDE DEF x
    <3>3. IsRequest(x)
      BY <3>1, <3>2, NewRequest
    <3> QED BY <3>3 DEF x
  <2>3. OthersOK' /\ deployed' = deployed
    BY <1>0, <1>5, <2>1
    DEF Commit, CommitRefused, OnlyClient, bounds, OthersOK
  <2>4. \E pc \in {"respond", "refused"} :
            client' = [client EXCEPT ![c] =
                          [IdleClient EXCEPT !.pc = pc, !.at = next]]
    BY <1>5 DEF Commit, CommitRefused, Replies
  <2> QED BY <2>2, <2>3, <2>4, ClientStepTypeOK
<1>6. ASSUME NEW c \in Clients, AnswerRefused(c) \/ WriteFails(c) \/ TestRefused(c)
      PROVE  TypeOK'
  <2>1. IsRequest(IdleClient)
    BY DEF IsRequest
  <2>2. OthersOK' /\ deployed' = deployed
    BY <1>0, <1>6, SettingsBounds
    DEF AnswerRefused, WriteFails, TestRefused, Fails, OnlyClient, OthersOK
  <2> QED
    BY <1>6, <2>1, <2>2, ClientStepTypeOK
    DEF AnswerRefused, WriteFails, TestRefused, Ends
<1>7. ASSUME NEW c \in Clients, Respond(c) PROVE TypeOK'
  <2>1. IsRequest(IdleClient)
    BY DEF IsRequest
  <2>2. \A readable \in BOOLEAN : Resolved(readable).enabled \in BOOLEAN
    BY <1>0, ResolveShowsStored DEF Resolved, OthersOK, StoredValues
  <2>3. client[c].at \in Versions
    BY <1>0 DEF ClientRecords
  <2>4. screen' \in [Clients -> [known : BOOLEAN, enabled : BOOLEAN,
                                 version : Versions]]
    BY <1>0, <1>7, <2>2, <2>3, SettingsBounds
    DEF Respond, Shows, NoScreen, OthersOK, Versions
  <2>5. OthersOK' /\ deployed' = deployed
    BY <1>0, <1>7, <2>4, SettingsBounds DEF Respond, Works, Fails, OthersOK
  <2> QED BY <1>7, <2>1, <2>5, ClientStepTypeOK DEF Respond, Ends
<1>8. ASSUME NEW c \in Clients, NEW s \in Stores, StartTest(c, s) PROVE TypeOK'
  <2>1. PICK readable \in BOOLEAN :
            /\ IF readable THEN Works ELSE Fails
            /\ client' = [client EXCEPT ![c] =
                   [IdleClient EXCEPT !.pc = "gate", !.store = s,
                                      !.provider = Resolved(readable).provider]]
    BY <1>8 DEF StartTest
  <2>2. Resolved(readable).provider \in Providers
    BY <1>0, ResolveShowsStored DEF Resolved, OthersOK, StoredValues
  <2> DEFINE x == [IdleClient EXCEPT !.pc = "gate", !.store = s,
                                     !.provider = Resolved(readable).provider]
  <2>3. IsRequest(x)
    <3>1. x \in ClientRecords
      BY <2>2 DEF ClientRecords, PCs
    <3>2. x.pc = "gate" /\ x.began = 0 /\ x.store = s
      BY DEF ClientRecords
    <3>3. s # NoStore
      BY NoStoreIsNone
    <3> HIDE DEF x
    <3> QED BY <3>1, <3>2, <3>3, NewRequest
  <2>4. OthersOK' /\ deployed' = deployed
    BY <1>0, <1>8, <2>1, SettingsBounds DEF StartTest, OnlyClient, Works, Fails, OthersOK
  <2> QED BY <2>1, <2>3, <2>4, ClientStepTypeOK
<1>9. ASSUME NEW c \in Clients, BeginTest(c) PROVE TypeOK'
  <2>1. IsRequest([client[c] EXCEPT !.pc = "probe", !.began = now])
    BY <1>0, <1>9, SettingsBounds
    DEF BeginTest, IsRequest, ClientRecords, PCs, OthersOK
  <2>2. client' = [client EXCEPT ![c] = [client[c] EXCEPT !.pc = "probe",
                                                          !.began = now]]
    BY <1>0, <1>9 DEF BeginTest, ClientRecords
  <2>3. OthersOK' /\ deployed' = deployed
    BY <1>0, <1>9 DEF BeginTest, bounds, OthersOK
  <2> QED BY <2>1, <2>2, <2>3, ClientStepTypeOK
<1>10. ASSUME NEW c \in Clients, EndTest(c) PROVE TypeOK'
  <2>1. IsRequest(IdleClient)
    BY DEF IsRequest
  <2>2. now \in 0 .. MaxTime
    BY <1>0, SettingsBounds DEF OthersOK
  <2>3. gate' \in [Stores -> [busy : BOOLEAN, last : 0 .. MaxTime]]
    BY <1>0, <1>10, <2>2 DEF EndTest, OthersOK
  <2>4. OthersOK' /\ deployed' = deployed
    BY <1>0, <1>10, <2>2, <2>3 DEF EndTest, bounds, OthersOK
  <2> QED BY <1>10, <2>1, <2>4, ClientStepTypeOK DEF EndTest, Ends
<1>11. CASE Tick
  BY <1>11, SettingsBounds DEF Tick, bounds, TypeOK
<1>12. ASSUME NEW d \in Installed, Restart(d) PROVE TypeOK'
  <2>1. /\ client' \in [Clients -> ClientRecords]
        /\ \A b \in Clients : IsRequest(client[b])'
    BY <1>12 DEF Restart, IsRequest
  <2>2. OthersOK'
    BY <1>0, <1>12, SettingsBounds DEF Restart, OthersOK, NoScreen, Versions
  <2> QED BY <2>1, <2>2 DEF TypeOK, OthersOK, ClientRecords, IsRequest
<1>13. CASE UNCHANGED vars
  BY <1>13 DEF vars, bounds, TypeOK
<1> QED
  BY <1>1, <1>2, <1>3, <1>4, <1>5, <1>6, <1>7, <1>8, <1>9, <1>10, <1>11,
     <1>12, <1>13 DEF Next
-----------------------------------------------------------------------------
(* Who does what.                                                          *)

\* The steps of one client.
Moves(c) ==
    \/ \E s \in Stores :
           \/ StartTest(c, s)
           \/ \E v \in StoredValues, n \in Versions : Ask(c, s, v, n)
    \/ Load(c) \/ LoadVersion(c)
    \/ Read(c) \/ Commit(c) \/ CommitRefused(c) \/ WriteFails(c)
    \/ Respond(c) \/ AnswerRefused(c)
    \/ TestRefused(c) \/ BeginTest(c) \/ EndTest(c)

\* A client that is somewhere else after a step has made the step, or the
\* installation was started again.
LEMMA WhoMoves ==
    ASSUME TypeOK, [Next]_vars, NEW c \in Clients, client'[c] # client[c]
    PROVE  Moves(c) \/ \E d \in Installed : Restart(d)
<1>1. ASSUME NEW b \in Clients, Moves(b), b # c PROVE FALSE
  BY <1>1
  DEF TypeOK, Moves, StartTest, Ask, Load, LoadVersion, Read, Commit,
      CommitRefused, WriteFails, Respond, AnswerRefused, TestRefused,
      BeginTest, EndTest, Ends, Goes, Replies
<1>2. CASE Tick \/ UNCHANGED vars
  BY <1>2 DEF Tick, vars
<1>3. CASE \E b \in Clients : Moves(b)
  BY <1>1, <1>3
<1> QED BY <1>2, <1>3 DEF Next, Moves

\* Where each step takes its client.
LEMMA WhereTo ==
    ASSUME TypeOK, NEW c \in Clients
    PROVE  /\ \A s \in Stores : StartTest(c, s) => client'[c].pc = "gate"
           /\ \A s \in Stores, v \in StoredValues, n \in Versions :
                  Ask(c, s, v, n) => /\ client'[c].pc = "read"
                                     /\ client'[c].value = v
                                     /\ client'[c].expected = n
           /\ Load(c) => /\ client'[c].pc = "version"
                         /\ client'[c].at = row.version
           /\ Read(c) =>
                  \/ /\ row.version = client[c].expected
                     /\ client'[c].pc = "commit"
                     /\ client'[c].expected = client[c].expected
                     /\ client'[c].value = client[c].value
                  \/ /\ row.version # client[c].expected
                     /\ client'[c].pc = "refused"
                     /\ client'[c].at = row.version
           /\ Commit(c) => /\ client'[c].pc = "respond"
                           /\ client'[c].at = client[c].expected + 1
           /\ CommitRefused(c) => /\ client'[c].pc = "refused"
                                  /\ client'[c].at = client[c].expected + 1
           /\ BeginTest(c) => /\ client'[c].pc = "probe"
                              /\ client'[c].began = now
                              /\ client'[c].store = client[c].store
                              /\ client'[c].provider = client[c].provider
           /\ \/ LoadVersion(c) \/ WriteFails(c) \/ Respond(c)
              \/ AnswerRefused(c) \/ TestRefused(c) \/ EndTest(c)
              => client'[c] = IdleClient
           /\ \A d \in Installed : Restart(d) => client'[c] = IdleClient
<1> USE IdleIsIdle
<1>0. client \in [Clients -> ClientRecords]
  BY TypeOKSplit
<1>1. ASSUME NEW s \in Stores, StartTest(c, s) PROVE client'[c].pc = "gate"
  BY <1>0, <1>1 DEF StartTest, ClientRecords
<1>2. ASSUME NEW s \in Stores, NEW v \in StoredValues, NEW n \in Versions,
             Ask(c, s, v, n)
      PROVE  client'[c].pc = "read" /\ client'[c].value = v /\ client'[c].expected = n
  BY <1>0, <1>2 DEF Ask, ClientRecords
<1>3. ASSUME Load(c)
      PROVE  client'[c].pc = "version" /\ client'[c].at = row.version
  BY <1>0, <1>3 DEF Load, ClientRecords
<1>4. ASSUME Read(c)
      PROVE  \/ /\ row.version = client[c].expected
                /\ client'[c].pc = "commit"
                /\ client'[c].expected = client[c].expected
                /\ client'[c].value = client[c].value
             \/ /\ row.version # client[c].expected
                /\ client'[c].pc = "refused" /\ client'[c].at = row.version
  <2>1. CASE row.version = client[c].expected
    BY <1>0, <1>4, <2>1 DEF Read, Goes, ClientRecords
  <2>2. CASE row.version # client[c].expected
    BY <1>0, <1>4, <2>2 DEF Read, Replies, ClientRecords
  <2> QED BY <2>1, <2>2
<1>5. ASSUME Commit(c)
      PROVE  client'[c].pc = "respond" /\ client'[c].at = client[c].expected + 1
  BY <1>0, <1>5 DEF Commit, Replies, ClientRecords
<1>6. ASSUME CommitRefused(c)
      PROVE  client'[c].pc = "refused" /\ client'[c].at = client[c].expected + 1
  BY <1>0, <1>6 DEF CommitRefused, Replies, ClientRecords
<1>7. ASSUME BeginTest(c)
      PROVE  /\ client'[c].pc = "probe" /\ client'[c].began = now
             /\ client'[c].store = client[c].store
             /\ client'[c].provider = client[c].provider
  BY <1>0, <1>7 DEF BeginTest, ClientRecords
<1>8. ASSUME \/ LoadVersion(c) \/ WriteFails(c) \/ Respond(c)
             \/ AnswerRefused(c) \/ TestRefused(c) \/ EndTest(c)
      PROVE  client'[c] = IdleClient
  BY <1>0, <1>8
  DEF LoadVersion, WriteFails, Respond, AnswerRefused, TestRefused, EndTest, Ends
<1>9. ASSUME NEW d \in Installed, Restart(d) PROVE client'[c] = IdleClient
  BY <1>9 DEF Restart
<1> QED BY <1>1, <1>2, <1>3, <1>4, <1>5, <1>6, <1>7, <1>8, <1>9

\* The version only grows, and a value without a new version is the old one.
LEMMA RowGrows ==
    ASSUME TypeOK, [Next]_vars
    PROVE  row' = row \/ row'.version = row.version + 1
<1>1. ASSUME NEW c \in Clients, Commit(c) PROVE row'.version = row.version + 1
  BY <1>1 DEF Commit, StillExpected
<1>2. ASSUME NEW c \in Clients, Moves(c), ~ Commit(c) PROVE row' = row
  BY <1>2
  DEF Moves, StartTest, Ask, Load, LoadVersion, Read, OnlyClient,
      CommitRefused, WriteFails, Respond, AnswerRefused, TestRefused,
      BeginTest, EndTest
<1>3. CASE Tick \/ (\E d \in Installed : Restart(d)) \/ UNCHANGED vars
  BY <1>3 DEF Tick, Restart, vars
<1> QED BY <1>1, <1>2, <1>3 DEF Next, Moves

\* Only a restart configures the installation.
LEMMA DeployedIsKept ==
    ASSUME [Next]_vars, ~ \E d \in Installed : Restart(d)
    PROVE  deployed' = deployed
<1>1. ASSUME NEW c \in Clients, Moves(c) PROVE deployed' = deployed
  BY <1>1
  DEF Moves, StartTest, Ask, Load, LoadVersion, Read, Commit, OnlyClient,
      CommitRefused, WriteFails, Respond, AnswerRefused, TestRefused,
      BeginTest, EndTest
<1>2. CASE Tick \/ UNCHANGED vars
  BY <1>2 DEF Tick, vars
<1> QED BY <1>1, <1>2 DEF Next, Moves
-----------------------------------------------------------------------------
(* The rest of the invariant.                                              *)

\* A write goes to the row from a comparison that was true.
LEMMA NextCommitsAreLate ==
    ASSUME TypeOK, TypeOK', CommitsAreLate, [Next]_vars PROVE CommitsAreLate'
<1> SUFFICES ASSUME NEW c \in Clients, client'[c].pc = "commit"
             PROVE  client'[c].expected <= row'.version
  BY DEF CommitsAreLate
<1>1. row.version <= row'.version /\ row.version \in Nat /\ row'.version \in Nat
  BY RowGrows DEF TypeOK, Versions
<1>2. client[c].expected \in Nat
  BY DEF TypeOK, Versions
<1>3. CASE client'[c] = client[c]
  BY <1>1, <1>2, <1>3 DEF CommitsAreLate
<1>4. CASE client'[c] # client[c]
  <2>1. Read(c)
    <3>1. CASE \E d \in Installed : Restart(d)
      BY <3>1, WhereTo, IdleIsIdle
    <3>2. CASE Moves(c)
      BY <3>2, WhereTo, IdleIsIdle DEF Moves
    <3> QED BY <1>4, <3>1, <3>2, WhoMoves
  <2>2. row.version = client[c].expected /\ client'[c].expected = client[c].expected
    BY <2>1, WhereTo
  <2> QED BY <1>1, <2>2
<1> QED BY <1>3, <1>4

\* What a request has read is true of the version it has read.
LEMMA NextReadsAreTrue ==
    ASSUME TypeOK, TypeOK', ReadsAreTrue, [Next]_vars PROVE ReadsAreTrue'
<1> SUFFICES ASSUME NEW c \in Clients, client'[c].pc \in {"version", "respond"}
             PROVE  /\ client'[c].at <= row'.version
                    /\ client'[c].pc = "version" /\ client'[c].known =>
                           IsTrueOf(client[c].enabled, client[c].at)'
  BY DEF ReadsAreTrue
<1>1. ~ \E d \in Installed : Restart(d)
  BY WhereTo, IdleIsIdle
<1>2. deployed' = deployed
  BY <1>1, DeployedIsKept
<1>3. CASE client'[c] = client[c]
  <2>1. client[c].at \in Versions
    BY DEF TypeOK
  <2>2. client'[c].at <= row'.version
    BY <1>3, <2>1, RowGrows DEF ReadsAreTrue, TypeOK, Versions
  <2>3. ASSUME client'[c].pc = "version", client'[c].known
        PROVE  IsTrueOf(client[c].enabled, client[c].at)'
    <3>1. IsTrueOf(client[c].enabled, client[c].at)
      BY <1>3, <2>3 DEF ReadsAreTrue
    <3> DEFINE e == client[c].enabled
               v == client[c].at
    <3>2. IsTrueOf(e, v) /\ v \in Versions /\ e' = e /\ v' = v
      BY <1>3, <2>1, <3>1
    <3> HIDE DEF e, v
    <3>3. IsTrueOf(e, v)'
      BY <1>2, <3>2, RowGrows DEF IsTrueOf, TypeOK, Versions
    <3> QED BY <3>3 DEF e, v
  <2> QED BY <2>2, <2>3
<1>4. CASE client'[c] # client[c]
  <2>1. Load(c) \/ Commit(c)
    BY <1>1, <1>4, WhoMoves, WhereTo, IdleIsIdle DEF Moves
  <2>2. CASE Load(c)
    <3>1. PICK readable \in BOOLEAN :
              client' = [client EXCEPT ![c] =
                  [IdleClient EXCEPT !.pc = "version", !.at = row.version,
                                     !.enabled = Resolved(readable).enabled,
                                     !.known = readable]]
      BY <2>2 DEF Load
    <3>2. /\ client'[c].at = row.version /\ client'[c].known = readable
          /\ client'[c].enabled = Resolved(readable).enabled
      BY <3>1, IdleIsIdle DEF TypeOK, ClientRecords
    <3>3. row' = row
      BY <2>2 DEF Load, OnlyClient
    <3>4. readable /\ ~ deployed.override =>
              (Resolved(readable).enabled <=> row.value = "on")
      BY ResolveShowsStored, DeployedIsADeployment DEF Resolved, TypeOK
    <3> QED BY <1>2, <3>2, <3>3, <3>4 DEF IsTrueOf, TypeOK, Versions
  <2>3. CASE Commit(c)
    <3>1. client'[c].pc = "respond" /\ client'[c].at = row'.version
      BY <2>3, WhereTo DEF Commit
    <3> QED BY <3>1 DEF TypeOK, Versions
  <2> QED BY <2>1, <2>2, <2>3
<1> QED BY <1>3, <1>4

\* A client that is shown something is shown what the step shows.
LEMMA WhatIsShown ==
    ASSUME TypeOK, NEW c \in Clients, NEW enabled, NEW version,
           NEW known \in BOOLEAN, Shows(c, enabled, version, known),
           screen'[c].known
    PROVE  known /\ screen'[c].enabled = enabled /\ screen'[c].version = version
<1>1. screen'[c] = IF known
                   THEN [known |-> TRUE, enabled |-> enabled, version |-> version]
                   ELSE NoScreen
  BY DEF Shows, TypeOK
<1>2. CASE known
  BY <1>1, <1>2
<1>3. CASE ~ known
  BY <1>1, <1>3 DEF NoScreen
<1> QED BY <1>2, <1>3

\* What a client was shown is true of the version it was shown.
LEMMA NextScreensAreTrue ==
    ASSUME TypeOK, TypeOK', ReadsAreTrue, ScreensAreTrue, [Next]_vars
    PROVE  ScreensAreTrue'
<1> SUFFICES ASSUME NEW c \in Clients, screen'[c].known
             PROVE  IsTrueOf(screen[c].enabled, screen[c].version)'
  BY DEF ScreensAreTrue
<1> DEFINE e == screen[c].enabled
           v == screen[c].version
<1>1. /\ v' \in Versions /\ row.version \in Nat /\ row'.version \in Nat
      /\ \A n \in Versions : n \in Nat
  BY DEF TypeOK, Versions
<1>2. CASE screen' = screen /\ deployed' = deployed
  BY <1>1, <1>2, RowGrows DEF ScreensAreTrue, IsTrueOf
<1>3. ASSUME NEW b \in Clients, LoadVersion(b) PROVE IsTrueOf(e, v)'
  <2>1. row' = row /\ deployed' = deployed
    BY <1>3 DEF LoadVersion
  <2>2. CASE b # c
    <3>1. screen'[c] = screen[c]
      BY <1>3, <2>2 DEF LoadVersion, Shows, TypeOK
    <3> QED BY <2>1, <3>1 DEF ScreensAreTrue, IsTrueOf
  <2>3. CASE b = c
    <3>1. /\ client[c].pc = "version" /\ client[c].known
          /\ row.version = client[c].at
          /\ e' = client[c].enabled /\ v' \in {0, row.version}
      <4>1. PICK readable \in BOOLEAN :
                Shows(c, client[c].enabled, IF readable THEN row.version ELSE 0,
                      client[c].known /\ row.version = client[c].at)
        BY <1>3, <2>3 DEF LoadVersion
      <4>2. client[c].pc = "version" /\ client[c].known \in BOOLEAN
        BY <1>3, <2>3 DEF LoadVersion, TypeOK
      <4> QED BY <4>1, <4>2, WhatIsShown
    <3>2. IsTrueOf(client[c].enabled, client[c].at)
      BY <3>1 DEF ReadsAreTrue
    <3> QED BY <1>1, <2>1, <3>1, <3>2 DEF IsTrueOf
  <2> QED BY <2>2, <2>3
<1>4. ASSUME NEW b \in Clients, Respond(b) PROVE IsTrueOf(e, v)'
  <2>1. row' = row /\ deployed' = deployed
    BY <1>4 DEF Respond
  <2>2. CASE b # c
    <3>1. screen'[c] = screen[c]
      BY <1>4, <2>2 DEF Respond, Shows, TypeOK
    <3> QED BY <2>1, <3>1 DEF ScreensAreTrue, IsTrueOf
  <2>3. CASE b = c
    <3>1. /\ client[c].pc = "respond"
          /\ e' = Resolve(deployed, row.value).enabled /\ v' = client[c].at
      <4>1. PICK readable \in BOOLEAN :
                Shows(c, Resolved(readable).enabled, client[c].at, readable)
        BY <1>4, <2>3 DEF Respond
      <4>2. readable /\ e' = Resolved(readable).enabled /\ v' = client[c].at
        BY <4>1, WhatIsShown
      <4> QED BY <1>4, <2>3, <4>2 DEF Respond, Resolved
    <3>2. v' <= row.version
      BY <3>1 DEF ReadsAreTrue
    <3>3. ~ deployed.override => (e' <=> row.value = "on")
      BY <3>1, ResolveShowsStored, DeployedIsADeployment DEF TypeOK
    <3> QED BY <2>1, <3>2, <3>3 DEF IsTrueOf
  <2> QED BY <2>2, <2>3
<1>5. ASSUME NEW d \in Installed, Restart(d) PROVE IsTrueOf(e, v)'
  <2>1. screen' = screen /\ deployed' = deployed
    BY <1>5 DEF Restart, NoScreen
  <2> QED BY <1>2, <2>1
<1>6. CASE ~ (\/ \E b \in Clients : LoadVersion(b) \/ Respond(b)
              \/ \E d \in Installed : Restart(d))
  <2>1. screen' = screen
    BY <1>6
    DEF Next, vars, StartTest, Ask, Load, Read, Commit, CommitRefused,
        WriteFails, AnswerRefused, TestRefused, BeginTest, EndTest, Tick,
        OnlyClient
  <2> QED BY <1>2, <1>6, <2>1, DeployedIsKept
<1> QED BY <1>3, <1>4, <1>5, <1>6

\* A test goes on with the configuration it was allowed for.
LEMMA NextOnlyLocalIsTested ==
    ASSUME TypeOK, OnlyLocalIsTested, [Next]_vars PROVE OnlyLocalIsTested'
<1> SUFFICES ASSUME NEW c \in Clients, client'[c].pc \in {"gate", "probe"}
             PROVE  (/\ Location(client[c].provider, deployed) = "local"
                     /\ client[c].provider = "mock" \/ HasModel(deployed))'
  BY DEF OnlyLocalIsTested
<1>1. ~ \E d \in Installed : Restart(d)
  BY WhereTo, IdleIsIdle
<1>2. deployed' = deployed
  BY <1>1, DeployedIsKept
<1>3. CASE client'[c].provider = client[c].provider /\ client[c].pc \in {"gate", "probe"}
  BY <1>2, <1>3 DEF OnlyLocalIsTested, Location, HasModel
<1>4. CASE client'[c] # client[c]
  <2>1. BeginTest(c) \/ \E s \in Stores : StartTest(c, s)
    BY <1>1, <1>4, WhoMoves, WhereTo, IdleIsIdle DEF Moves
  <2>2. CASE BeginTest(c)
    BY <1>3, <2>2, WhereTo DEF BeginTest
  <2>3. ASSUME NEW s \in Stores, StartTest(c, s)
        PROVE  /\ Location(client'[c].provider, deployed) = "local"
               /\ client'[c].provider = "mock" \/ HasModel(deployed)
    <3>1. PICK readable \in BOOLEAN :
              /\ Refusal(Resolved(readable), deployed) = "none"
              /\ client' = [client EXCEPT ![c] =
                     [IdleClient EXCEPT !.pc = "gate", !.store = s,
                                        !.provider = Resolved(readable).provider]]
      BY <2>3 DEF StartTest
    <3>2. client'[c].provider = Resolved(readable).provider
      BY <3>1, IdleIsIdle DEF TypeOK, ClientRecords
    <3> QED BY <3>1, <3>2, NotRefusedIsLocal, DeployedIsADeployment
  <2> QED BY <1>2, <2>1, <2>2, <2>3 DEF Location, HasModel
<1> QED BY <1>3, <1>4

\* A gate knows when the last test ended.
LEMMA NextGatesRemember ==
    ASSUME TypeOK, GatesRemember, [Next]_vars PROVE GatesRemember'
<1>1. ASSUME NEW c \in Clients, BeginTest(c) PROVE GatesRemember'
  BY <1>1 DEF BeginTest, GatesRemember, TypeOK
<1>2. ASSUME NEW c \in Clients, EndTest(c) PROVE GatesRemember'
  BY <1>2 DEF EndTest, GatesRemember, TypeOK
<1>3. ASSUME NEW d \in Installed, Restart(d) PROVE GatesRemember'
  BY <1>3 DEF Restart, GatesRemember
<1>4. CASE ~ (\/ \E c \in Clients : BeginTest(c) \/ EndTest(c)
              \/ \E d \in Installed : Restart(d))
  <2>1. gate' = gate /\ ended' = ended
    BY <1>4
    DEF Next, vars, StartTest, Ask, Load, LoadVersion, Read, Commit,
        CommitRefused, WriteFails, Respond, AnswerRefused, TestRefused, Tick,
        OnlyClient
  <2> QED BY <2>1 DEF GatesRemember
<1> QED BY <1>1, <1>2, <1>3, <1>4

\* The three parts of TestsAreSound.
GateIsBusy ==
    \A s \in Stores :
        gate[s].busy <=>
            \E c \in Clients : client[c].store = s /\ client[c].pc = "probe"

OneTest ==
    \A b, c \in Clients :
        client[b].pc = "probe" /\ client[c].pc = "probe"
            /\ client[b].store = client[c].store => b = c

NotTooSoon ==
    \A c \in Clients :
        client[c].pc = "probe" /\ ended[client[c].store] > 0 =>
            client[c].began >= ended[client[c].store] + Interval

\* TestsAreSound in parts, of which one is in the invariant already.
LEMMA TestsAreSoundSplit ==
    ASSUME TypeOK, OnlyLocalIsTested
    PROVE  TestsAreSound <=> GateIsBusy /\ OneTest /\ NotTooSoon
BY DEF TestsAreSound, GateIsBusy, OneTest, NotTooSoon, OnlyLocalIsTested

\* A client that starts or ends no test, in an installation that goes on.
LEMMA ProbesAreKept ==
    ASSUME TypeOK, TypeOK', [Next]_vars,
           ~ (\/ \E c \in Clients : BeginTest(c) \/ EndTest(c)
              \/ \E d \in Installed : Restart(d))
    PROVE  /\ gate' = gate /\ ended' = ended
           /\ \A c \in Clients :
                  /\ client'[c].pc = "probe" <=> client[c].pc = "probe"
                  /\ client[c].pc = "probe" => client'[c] = client[c]
<1>1. gate' = gate /\ ended' = ended
  BY DEF Next, vars, StartTest, Ask, Load, LoadVersion, Read, Commit,
         CommitRefused, WriteFails, Respond, AnswerRefused, TestRefused, Tick,
         OnlyClient
<1>2. ASSUME NEW c \in Clients, client'[c] # client[c]
      PROVE  client[c].pc # "probe" /\ client'[c].pc # "probe"
  <2>1. Moves(c) /\ ~ BeginTest(c) /\ ~ EndTest(c)
    BY <1>2, WhoMoves
  <2>2. client[c].pc # "probe"
    BY <2>1
    DEF Moves, StartTest, Ask, Load, LoadVersion, Read, Commit,
        CommitRefused, WriteFails, Respond, AnswerRefused, TestRefused
  <2>3. client'[c].pc # "probe"
    BY <2>1, WhereTo, IdleIsIdle DEF Moves
  <2> QED BY <2>2, <2>3
<1> QED BY <1>1, <1>2

\* Every step preserves what is said of tests.
LEMMA NextTestsAreSound ==
    ASSUME TypeOK, TypeOK', OnlyLocalIsTested, OnlyLocalIsTested',
           GatesRemember, TestsAreSound, [Next]_vars
    PROVE  TestsAreSound'
<1>0. GateIsBusy /\ OneTest /\ NotTooSoon
  BY TestsAreSoundSplit
<1> SUFFICES GateIsBusy' /\ OneTest' /\ NotTooSoon'
  BY DEF TestsAreSound, GateIsBusy, OneTest, NotTooSoon, OnlyLocalIsTested
<1>1. ASSUME NEW c \in Clients, BeginTest(c)
      PROVE  GateIsBusy' /\ OneTest' /\ NotTooSoon'
  <2> DEFINE s == client[c].store
  <2>1. /\ s \in Stores /\ client[c].pc = "gate"
        /\ client'[c].pc = "probe" /\ client'[c].store = s
        /\ client'[c].began = now
        /\ \A b \in Clients \ {c} : client'[b] = client[b]
    BY <1>1, WhereTo DEF BeginTest, TypeOK
  <2>2. /\ ~ gate[s].busy
        /\ gate[s].last > 0 => now >= gate[s].last + Interval
    BY <1>1, <2>1, SettingsBounds DEF BeginTest, GateIsShut, TypeOK
  <2>3. /\ gate'[s].busy /\ ended' = ended
        /\ \A t \in Stores \ {s} : gate'[t] = gate[t]
    BY <1>1, <2>1 DEF BeginTest, TypeOK
  <2>4. \A b \in Clients : client[b].pc = "probe" => client[b].store # s
    BY <1>0, <2>1, <2>2 DEF GateIsBusy
  <2> HIDE DEF s
  <2>5. GateIsBusy'
    BY <1>0, <2>1, <2>3, <2>4 DEF GateIsBusy
  <2>6. OneTest'
    BY <1>0, <2>1, <2>4 DEF OneTest
  <2>7. NotTooSoon'
    BY <1>0, <2>1, <2>2, <2>3 DEF NotTooSoon, GatesRemember
  <2> QED BY <2>5, <2>6, <2>7
<1>2. ASSUME NEW c \in Clients, EndTest(c)
      PROVE  GateIsBusy' /\ OneTest' /\ NotTooSoon'
  <2> DEFINE s == client[c].store
  <2>1. /\ s \in Stores /\ client[c].store = s
        /\ client[c].pc = "probe" /\ client'[c].pc = "idle"
        /\ \A b \in Clients \ {c} : client'[b] = client[b]
    BY <1>2, IdleIsIdle DEF EndTest, Ends, TypeOK
  <2>2. /\ ~ gate'[s].busy
        /\ \A t \in Stores \ {s} : gate'[t] = gate[t] /\ ended'[t] = ended[t]
    BY <1>2, <2>1 DEF EndTest, TypeOK
  <2>3. \A b \in Clients \ {c} : client[b].pc = "probe" => client[b].store # s
    BY <1>0, <2>1 DEF OneTest
  <2>4. \A b \in Clients : client[b].pc = "probe" => client[b].store \in Stores
    BY DEF TypeOK
  <2> HIDE DEF s
  <2>5. GateIsBusy'
    BY <1>0, <2>1, <2>2, <2>3 DEF GateIsBusy
  <2>6. OneTest'
    BY <1>0, <2>1 DEF OneTest
  <2>7. NotTooSoon'
    BY <1>0, <2>1, <2>2, <2>3, <2>4 DEF NotTooSoon
  <2> QED BY <2>5, <2>6, <2>7
<1>3. ASSUME NEW d \in Installed, Restart(d)
      PROVE  GateIsBusy' /\ OneTest' /\ NotTooSoon'
  BY <1>3 DEF Restart, IdleClient, GateIsBusy, OneTest, NotTooSoon
<1>4. CASE ~ (\/ \E c \in Clients : BeginTest(c) \/ EndTest(c)
              \/ \E d \in Installed : Restart(d))
  BY <1>0, <1>4, ProbesAreKept DEF GateIsBusy, OneTest, NotTooSoon
<1> QED BY <1>1, <1>2, <1>3, <1>4
-----------------------------------------------------------------------------
(* The invariant holds.                                                    *)

\* The invariant holds at first.
LEMMA InitIInv == Init => IInv
<1> SUFFICES ASSUME Init PROVE IInv
  OBVIOUS
<1>1. TypeOK
  BY InitTypeOK
<1>2. CommitsAreLate /\ ReadsAreTrue /\ OnlyLocalIsTested
  BY DEF Init, IdleClient, CommitsAreLate, ReadsAreTrue, OnlyLocalIsTested
<1>3. ScreensAreTrue /\ GatesRemember
  BY DEF Init, NoScreen, ScreensAreTrue, GatesRemember
<1>4. TestsAreSound
  BY DEF Init, IdleClient, TestsAreSound
<1> QED BY <1>1, <1>2, <1>3, <1>4 DEF IInv

\* Every step preserves the invariant.
LEMMA NextIInv == IInv /\ [Next]_vars => IInv'
BY NextTypeOK, NextCommitsAreLate, NextReadsAreTrue, NextScreensAreTrue,
   NextOnlyLocalIsTested, NextGatesRemember, NextTestsAreSound DEF IInv

\* What is shown, read, written and tested fits the stored setting, in every
\* reachable state.
THEOREM SettingsIInvHolds == Spec => []IInv
BY InitIInv, NextIInv, PTL DEF Spec

\* Every reachable state is of the types TypeOK names.
THEOREM SettingsTypeCorrect == Spec => []TypeOK
<1>1. IInv => TypeOK
  BY DEF IInv
<1> QED BY <1>1, SettingsIInvHolds, PTL

\* In each process one connection test runs at a time, not sooner than agreed,
\* of this machine only, and a gate is shut only while it does.
THEOREM TestsAreSoundHolds == Spec => []TestsAreSound
<1>1. IInv => TestsAreSound
  BY DEF IInv
<1> QED BY <1>1, SettingsIInvHolds, PTL

\* A client that quotes the version it was shown replaces the value it was
\* shown.
THEOREM EditsAreInformedHolds == Spec => EditsAreInformed
<1> DEFINE Informed ==
        \A c \in Clients :
            IsStored(c) /\ screen[c].known
                /\ screen[c].version = client[c].expected
            => screen[c].enabled = (row.value = "on")
<1>1. IInv /\ [Next]_vars => [Informed]_vars
  <2> SUFFICES ASSUME IInv, [Next]_vars, NEW c \in Clients, IsStored(c),
                      screen[c].known, screen[c].version = client[c].expected
               PROVE  screen[c].enabled = (row.value = "on")
    OBVIOUS
  <2>1. client'[c] # client[c] /\ ~ \E d \in Installed : Restart(d)
    BY WhereTo, IdleIsIdle DEF IsStored, IInv
  <2>2. Commit(c)
    BY <2>1, WhoMoves, WhereTo, IdleIsIdle DEF IsStored, IInv, Moves
  <2>3. ~ deployed.override /\ screen[c].version = row.version
    BY <2>2 DEF Commit, StillExpected, IInv, TypeOK
  <2>4. screen[c].enabled <=> row.value = "on"
    BY <2>3 DEF IInv, ScreensAreTrue, IsTrueOf
  <2>5. screen[c].enabled \in BOOLEAN
    BY DEF IInv, TypeOK
  <2> QED BY <2>4, <2>5
<1> QED BY <1>1, SettingsIInvHolds, PTL DEF Spec, EditsAreInformed
-----------------------------------------------------------------------------
(* The routes agree.                                                       *)

\* What every effective setting is: on exactly if it has a provider or a
\* reason not to, and, where users manage it, run by a local model only.
IsEffective(res, d) ==
    /\ res.provider \in Providers
    /\ res.reason \in {"none", "no_runtime", "not_local"}
    /\ res.enabled \in BOOLEAN /\ res.managed \in BOOLEAN
    /\ res.enabled <=> res.provider # "disabled" \/ res.reason # "none"
    /\ res.reason # "none" => res.provider = "disabled" /\ ~ res.managed
    /\ ~ res.managed /\ res.provider # "disabled" =>
           HasModel(d) /\ Location(res.provider, d) = "local"

\* Every stored value resolves to such a setting.
LEMMA ResolveIsEffective ==
    ASSUME NEW d \in Deployments, NEW v \in StoredValues
    PROVE  IsEffective(Resolve(d, v), d)
<1>1. /\ d.override \in BOOLEAN /\ d.provider \in Providers
      /\ ~ d.override => d.provider = "disabled"
  BY DEF Deployments
<1>2. CASE d.override
  BY <1>1, <1>2 DEF Resolve, IsEffective, Providers
<1>3. CASE ~ d.override
  BY <1>1, <1>3 DEF Resolve, IsEffective, Providers, Unavailable, Location
<1> QED BY <1>2, <1>3

\* The status, in terms of the effective setting.
LEMMA StatusSays ==
    ASSUME NEW res, NEW d, NEW up \in BOOLEAN, IsEffective(res, d)
    PROVE  LET status == Status(res, d, up) IN
           /\ status.assistance = "on" <=> res.enabled
           /\ status.state = "ready" <=>
                 res.provider # "disabled" /\ Probe(res, d, up)
           /\ status.location = IF res.provider = "disabled" THEN "none"
                                ELSE Location(res.provider, d)
BY DEF Status, IsEffective, Providers

\* The connection test, in terms of the effective setting.
LEMMA RefusalSays ==
    ASSUME NEW res, NEW d, IsEffective(res, d)
    PROVE  /\ Refusal(res, d) = "none" <=>
                  /\ res.provider # "disabled"
                  /\ res.provider = "mock" \/ HasModel(d)
                  /\ Location(res.provider, d) = "local"
           /\ Refusal(res, d) = "no_runtime" <=>
                  \/ res.reason = "no_runtime"
                  \/ res.provider = "llama_cpp" /\ ~ HasModel(d)
BY DEF Refusal, NothingToProbe, IsEffective, Providers

ChecksSay(checks, res, d, up) ==
    /\ checks["runtime_answers"] = "done" <=>
           res.provider # "disabled" /\ Probe(res, d, up)
    /\ checks["runtime_on_this_machine"] = "done" <=>
           res.provider # "disabled" /\ Location(res.provider, d) = "local"
    /\ checks["runtime_configured"] = "todo" <=> res.reason = "no_runtime"
    /\ checks["model_named"] = "done" => HasLabel(res, d)

\* The checklist, in terms of the effective setting: one case for each place
\* at which it stops.
LEMMA ReadinessSays ==
    ASSUME NEW res, NEW d, NEW up \in BOOLEAN, IsEffective(res, d)
    PROVE  ChecksSay(Readiness(res, Status(res, d, up)), res, d, up)
<1> DEFINE status == Status(res, d, up)
           checks == Readiness(res, status)
<1>1. res.provider # "disabled" =>
          /\ status.state = "ready" <=> Probe(res, d, up)
          /\ status.location = Location(res.provider, d)
          /\ status.labelled = HasLabel(res, d)
  BY DEF Status
<1> SUFFICES ChecksSay(checks, res, d, up)
  OBVIOUS
<1>2. status.location = "none" <=> res.provider = "disabled"
  BY DEF Status, Location
<1> HIDE DEF status
<1>3. CASE ~ res.enabled
  <2>1. checks = StopsAt({}, "assistance_on")
    BY <1>3 DEF Readiness
  <2> HIDE DEF checks
  <2> QED BY <1>3, <2>1 DEF StopsAt, IsEffective, CheckKeys, ChecksSay
<1>4. CASE res.reason = "not_local"
  <2>1. checks = StopsAt({"assistance_on", "runtime_configured"},
                         "runtime_on_this_machine")
    BY <1>4 DEF Readiness, IsEffective
  <2> HIDE DEF checks
  <2> QED BY <1>4, <2>1 DEF StopsAt, IsEffective, CheckKeys, ChecksSay
<1>5. CASE res.reason = "no_runtime"
  <2>1. checks = StopsAt({"assistance_on"}, "runtime_configured")
    BY <1>5 DEF Readiness, IsEffective
  <2> HIDE DEF checks
  <2> QED BY <1>5, <2>1 DEF StopsAt, IsEffective, CheckKeys, ChecksSay
<1>6. CASE res.enabled /\ res.reason = "none"
  <2>1. res.provider # "disabled"
    BY <1>6 DEF IsEffective
  <2>2. /\ checks["runtime_answers"] =
               IF status.state = "ready" THEN "done" ELSE "todo"
        /\ checks["runtime_on_this_machine"] =
               IF status.location = "local" THEN "done" ELSE "attention"
        /\ checks["runtime_configured"] = "done"
        /\ checks["model_named"] =
               IF status.labelled THEN "done" ELSE "attention"
    BY <1>6, <1>2 DEF Readiness, IsEffective
  <2> HIDE DEF checks
  <2> QED BY <1>1, <1>6, <2>1, <2>2 DEF ChecksSay
<1> QED BY <1>3, <1>4, <1>5, <1>6 DEF IsEffective

\* So the four routes agree, whatever is stored, configured and running.
LEMMA RoutesAlwaysAgree ==
    ASSUME NEW d \in Deployments, NEW v \in StoredValues, NEW up \in BOOLEAN
    PROVE  RoutesAgree(d, v, up)
<1> DEFINE res == Resolve(d, v)
           checks == Readiness(res, Status(res, d, up))
<1>1. IsEffective(res, d)
  BY ResolveIsEffective
<1>2. Ready(checks) =>
          /\ checks["runtime_answers"] = "done"
          /\ checks["runtime_on_this_machine"] = "done"
          /\ checks["model_named"] = "done"
  BY DEF Ready, CheckKeys
<1> HIDE DEF res
<1>3. HasLabel(res, d) => res.provider = "mock" \/ HasModel(d)
  BY DEF HasLabel, HasModel
<1> QED
  BY <1>1, <1>2, <1>3, StatusSays, RefusalSays, ReadinessSays
  DEF RoutesAgree, res, ChecksSay, IsEffective, Providers, ShowsRuntime, Note

\* The setting, the status, the checklist and the connection test never
\* contradict one another about what is stored.
THEOREM SaysTheSameHolds == Spec => []SaysTheSame
<1>1. IInv => SaysTheSame
  BY RoutesAlwaysAgree DEF IInv, TypeOK, SaysTheSame
<1> QED BY <1>1, SettingsIInvHolds, PTL
-----------------------------------------------------------------------------
(* The setting is a versioned register.                                    *)

\* The same answer to the same request leaves the register alone.
LEMMA UnseenSteps ==
    ASSUME row' = row,
           \A c \in Clients : Write(c)' = Write(c) /\ AnswerTo(c)' = AnswerTo(c)
    PROVE  UNCHANGED Promise!vars
BY DEF Promise!vars

\* A request that neither writes nor has an answer about a write.
Unseen(pc) == pc \in {"idle", "version", "gate", "probe"}

\* Such a request shows as nothing.
LEMMA UnseenIsNothing ==
    ASSUME NEW c \in Clients, Unseen(client[c].pc)
    PROVE  Write(c) = NoWrite /\ AnswerTo(c) = Promise!NoAnswer
BY DEF Unseen, Write, AnswerTo, Promise!NoAnswer

\* What the others write and were answered does not change in a step of c.
LEMMA OthersAreKept ==
    ASSUME TypeOK, NEW c \in Clients, Moves(c)
    PROVE  \A b \in Clients \ {c} :
               Write(b)' = Write(b) /\ AnswerTo(b)' = AnswerTo(b)
<1>1. \A b \in Clients \ {c} : client'[b] = client[b]
  BY DEF TypeOK, Moves, StartTest, Ask, Load, LoadVersion, Read, Commit,
         CommitRefused, WriteFails, Respond, AnswerRefused, TestRefused,
         BeginTest, EndTest, Ends, Goes, Replies
<1> QED BY <1>1 DEF Write, AnswerTo

\* A step of c that ends its write and gives it this answer.
LEMMA AnswersOne ==
    ASSUME TypeOK, NEW c \in Clients, Moves(c), NEW kind, NEW n,
           Write(c)' = NoWrite,
           AnswerTo(c)' = [kind |-> kind, version |-> n]
    PROVE  Promise!Answers(c, kind, n)
<1> DEFINE W == [b \in Clients |-> Write(b)]
           A == [b \in Clients |-> AnswerTo(b)]
           x == [kind |-> kind, version |-> n]
<1>1. A' = [A EXCEPT ![c] = x]
  BY OthersAreKept
<1>2. W' = [W EXCEPT ![c] = NoWrite]
  BY OthersAreKept
<1> QED BY <1>1, <1>2 DEF Promise!Answers

\* A change that is asked for is asked of the register.
LEMMA AskIsAStep ==
    ASSUME TypeOK, NEW c \in Clients, NEW s \in Stores, NEW v \in StoredValues,
           NEW n \in Versions, Ask(c, s, v, n)
    PROVE  Promise!Ask(c)
<1>1. Moves(c) /\ row' = row
  BY DEF Moves, Ask
<1>2. Write(c) = NoWrite /\ AnswerTo(c) = Promise!NoAnswer
  BY UnseenIsNothing DEF Ask, Unseen
<1>3. /\ Write(c)' = [value |-> v, expected |-> n]
      /\ AnswerTo(c)' = Promise!NoAnswer
  BY WhereTo DEF Write, AnswerTo, Promise!NoAnswer
<1>4. n \in Nat
  BY SettingsBounds DEF Versions
<1> QED
  BY <1>1, <1>2, <1>3, <1>4, OthersAreKept DEF Promise!Ask

\* A commit stores, under the version that was expected.
LEMMA CommitIsAStep ==
    ASSUME TypeOK, NEW c \in Clients, Commit(c)
    PROVE  Promise!Store(c)
<1>1. Moves(c)
  BY DEF Moves
<1>2. /\ Write(c) = [value |-> client[c].value, expected |-> client[c].expected]
      /\ Write(c) # NoWrite
  BY DEF Commit, Write, NoWrite, TypeOK, StoredValues
<1>3. /\ client[c].expected = row.version
      /\ row'.value = client[c].value /\ row'.version = row.version + 1
  BY DEF Commit, StillExpected
<1>4. /\ Write(c)' = NoWrite
      /\ AnswerTo(c)' = [kind |-> "stored", version |-> row.version + 1]
  BY <1>3, WhereTo DEF Write, AnswerTo
<1> QED
  BY <1>1, <1>2, <1>3, <1>4, AnswersOne DEF Promise!Store

\* A refusal, at either comparison, names another version.
LEMMA RefusalIsAStep ==
    ASSUME TypeOK, CommitsAreLate, NEW c \in Clients,
           CommitRefused(c) \/ (Read(c) /\ row.version # client[c].expected)
    PROVE  Promise!Refuse(c)
<1>1. Moves(c) /\ row' = row
  BY DEF Moves, CommitRefused, Read, OnlyClient
<1>2. /\ Write(c) = [value |-> client[c].value, expected |-> client[c].expected]
      /\ Write(c) # NoWrite
  BY DEF CommitRefused, Read, Write, NoWrite, TypeOK, StoredValues
<1>3. client[c].expected \in Nat /\ row.version \in Nat
  BY SettingsBounds DEF TypeOK, Versions
<1>4. client[c].expected # row.version
  BY DEF CommitRefused, StillExpected
<1>5. PICK n \in (0 .. row.version) \ {client[c].expected} :
          client'[c].pc = "refused" /\ client'[c].at = n
  <2>1. CASE CommitRefused(c)
    <3>1. client[c].expected <= row.version
      BY <2>1 DEF CommitRefused, CommitsAreLate
    <3> QED BY <1>3, <1>4, <2>1, <3>1, WhereTo
  <2>2. CASE Read(c)
    BY <1>3, <1>4, <2>2, WhereTo
  <2> QED BY <2>1, <2>2
<1>6. /\ Write(c)' = NoWrite
      /\ AnswerTo(c)' = [kind |-> "conflict", version |-> n]
  BY <1>5 DEF Write, AnswerTo
<1> QED
  BY <1>1, <1>2, <1>4, <1>5, <1>6, AnswersOne DEF Promise!Refuse

\* An answer, or a failure, ends a request.
LEMMA EndIsAStep ==
    ASSUME TypeOK, NEW c \in Clients,
           Respond(c) \/ AnswerRefused(c) \/ WriteFails(c)
    PROVE  Promise!End
<1>1. Moves(c) /\ row' = row
  BY DEF Moves, Respond, AnswerRefused, WriteFails, OnlyClient
<1>2. client'[c].pc = "idle"
  BY WhereTo, IdleIsIdle
<1>3. Write(c)' = NoWrite /\ AnswerTo(c)' = Promise!NoAnswer
  BY <1>2 DEF Write, AnswerTo, Promise!NoAnswer
<1> DEFINE W == [b \in Clients |-> Write(b)]
           A == [b \in Clients |-> AnswerTo(b)]
<1>4. /\ W' = [b \in Clients |-> IF b \in {c} THEN NoWrite ELSE W[b]]
      /\ A' = [b \in Clients |-> IF b \in {c} THEN Promise!NoAnswer ELSE A[b]]
  BY <1>1, <1>3, OthersAreKept
<1>5. {c} \in SUBSET Clients
  OBVIOUS
<1> QED
  BY <1>1, <1>4, <1>5 DEF Promise!End

\* Reads, tests and accepted comparisons are not seen.
LEMMA RestIsUnseen ==
    ASSUME TypeOK, NEW c \in Clients,
           \/ \E s \in Stores : StartTest(c, s)
           \/ Load(c) \/ LoadVersion(c) \/ TestRefused(c) \/ BeginTest(c)
           \/ EndTest(c) \/ (Read(c) /\ row.version = client[c].expected)
    PROVE  UNCHANGED Promise!vars
<1>1. Moves(c) /\ row' = row
  BY DEF Moves, StartTest, Load, LoadVersion, TestRefused, BeginTest, EndTest,
         Read, OnlyClient
<1>2. Write(c)' = Write(c) /\ AnswerTo(c)' = AnswerTo(c)
  <2>1. CASE Read(c) /\ row.version = client[c].expected
    BY <2>1, WhereTo DEF Read, Write, AnswerTo
  <2>2. CASE \/ \E s \in Stores : StartTest(c, s)
             \/ Load(c) \/ LoadVersion(c) \/ TestRefused(c) \/ BeginTest(c)
             \/ EndTest(c)
    <3>1. Unseen(client[c].pc)
      BY <2>2 DEF StartTest, Load, LoadVersion, TestRefused, BeginTest, EndTest,
                  Unseen
    <3>2. client'[c].pc \in {"idle", "version", "gate", "probe"}
      BY <2>2, WhereTo, IdleIsIdle
    <3>3. Write(c)' = NoWrite /\ AnswerTo(c)' = Promise!NoAnswer
      BY <3>2 DEF Write, AnswerTo, Promise!NoAnswer
    <3> QED BY <3>1, <3>3, UnseenIsNothing
  <2> QED BY <2>1, <2>2
<1> QED BY <1>1, <1>2, OthersAreKept, UnseenSteps

\* Every step is a step or a stutter of the register.
LEMMA NextIsAStep == IInv /\ [Next]_vars => [Promise!Next]_(Promise!vars)
<1> SUFFICES ASSUME IInv, [Next]_vars PROVE [Promise!Next]_(Promise!vars)
  OBVIOUS
<1>0. TypeOK /\ CommitsAreLate
  BY DEF IInv
<1>1. ASSUME NEW c \in Clients, Moves(c)
      PROVE  [Promise!Next]_(Promise!vars)
  <2>1. CASE \E s \in Stores, v \in StoredValues, n \in Versions : Ask(c, s, v, n)
    BY <1>0, <2>1, AskIsAStep DEF Promise!Next
  <2>2. CASE Commit(c)
    BY <1>0, <2>2, CommitIsAStep DEF Promise!Next
  <2>3. CASE CommitRefused(c) \/ (Read(c) /\ row.version # client[c].expected)
    BY <1>0, <2>3, RefusalIsAStep DEF Promise!Next
  <2>4. CASE Respond(c) \/ AnswerRefused(c) \/ WriteFails(c)
    BY <1>0, <2>4, EndIsAStep DEF Promise!Next
  <2>5. CASE \/ \E s \in Stores : StartTest(c, s)
             \/ Load(c) \/ LoadVersion(c) \/ TestRefused(c) \/ BeginTest(c)
             \/ EndTest(c) \/ (Read(c) /\ row.version = client[c].expected)
    BY <1>0, <2>5, RestIsUnseen
  <2> QED BY <1>1, <2>1, <2>2, <2>3, <2>4, <2>5 DEF Moves
<1>2. ASSUME NEW d \in Installed, Restart(d) PROVE Promise!End
  <2>1. \A c \in Clients :
            Write(c)' = NoWrite /\ AnswerTo(c)' = Promise!NoAnswer
    BY <1>2 DEF Restart, IdleClient, Write, AnswerTo, Promise!NoAnswer
  <2>2. row' = row
    BY <1>2 DEF Restart
  <2> DEFINE W == [c \in Clients |-> Write(c)]
             A == [c \in Clients |-> AnswerTo(c)]
  <2>3. /\ W' = [c \in Clients |-> IF c \in Clients THEN NoWrite ELSE W[c]]
        /\ A' = [c \in Clients |-> IF c \in Clients THEN Promise!NoAnswer ELSE A[c]]
    BY <2>1
  <2>4. Clients \in SUBSET Clients
    OBVIOUS
  <2> QED BY <2>2, <2>3, <2>4 DEF Promise!End
<1>3. CASE Tick \/ UNCHANGED vars
  BY <1>3, UnseenSteps DEF Tick, vars, Write, AnswerTo
<1> QED BY <1>1, <1>2, <1>3 DEF Next, Moves, Promise!Next

\* Of two writes that quote one version one at most is stored, in any number
\* of processes; a write is refused only for a version it does not quote.
THEOREM ImplementsRegisterHolds == Spec => ImplementsRegister
<1>1. Init => Promise!Init
  BY DEF Init, IdleClient, Write, AnswerTo, Promise!Init, Promise!NoAnswer
<1> QED
  BY <1>1, NextIsAStep, SettingsIInvHolds, PTL
  DEF Spec, ImplementsRegister, Promise!Spec
=============================================================================
