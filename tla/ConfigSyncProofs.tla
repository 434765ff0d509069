--------------------------- MODULE ConfigSyncProofs ---------------------------
(* Proofs about ConfigSync, for every number of requests, bound and event set. *)
EXTENDS ConfigSync, TLAPS

LEMMA EmptyType == Empty \in Content /\ NoDownload \in [hash : Digest, tab : Content]
  BY DEF Empty, Content, NoDownload, Digest

LEMMA EmptyInbox == <<>> \in Seq(Digest) /\ Len(<<>>) <= InboxCap
  BY BoundsAssumption

LEMMA OpTablesType == \A op \in DOMAIN OpTables : OpTables[op] \in Seq(Commit)
<1>1. \A c, d, e \in Commit :
        <<c>> \in Seq(Commit) /\ <<c, d>> \in Seq(Commit) /\ <<c, d, e>> \in Seq(Commit)
  OBVIOUS
<1>2. \A S : S \subseteq {"readers", "containers", "telemetry"} =>
        Checked(S) \in Commit /\ Dropped(S) \in Commit /\ Either(S) \in Commit
  BY DEF Commit, Checked, Dropped, Either, Tables
<1>3. /\ CreateReader \in Seq(Commit) /\ UpdateReader \in Seq(Commit)
      /\ DeleteReader \in Seq(Commit) /\ CreateSensor \in Seq(Commit)
      /\ UpdateSensor \in Seq(Commit) /\ DeleteSensor \in Seq(Commit)
  BY <1>1, <1>2 DEF CreateReader, UpdateReader, DeleteReader, CreateSensor, UpdateSensor,
                    DeleteSensor
<1>4. /\ CreateMapping \in Seq(Commit) /\ UpdateMapping \in Seq(Commit)
      /\ DeleteMapping \in Seq(Commit) /\ UpdateRegistry \in Seq(Commit)
  BY <1>1, <1>2 DEF CreateMapping, UpdateMapping, DeleteMapping, UpdateRegistry
<1>5. SmartCreate \in Seq(Commit)
  BY <1>3 DEF SmartCreate
<1> QED
  BY <1>3, <1>4, <1>5 DEF OpTables

\* What a query yields is a version of its table, the present one if no error is
\* dropped.
LEMMA ReadsType ==
  ASSUME TypeOK, NEW t \in Tables
  PROVE  /\ Reads(t) \subseteq Nat
         /\ "query" \notin Events => Reads(t) = {db[t]}
  BY DEF Reads, TypeOK, Content

\* Every variable keeps its type: in particular the channel to a device never
\* holds more than its capacity, and the bounds are respected.
THEOREM TypeCorrect == Spec => []TypeOK
<1> USE ThreadsAssumption, OpsAssumption, BoundsAssumption DEF history
<1>1. Init => TypeOK
  <2> SUFFICES ASSUME Init PROVE TypeOK
    OBVIOUS
  <2>1. rtodo \in [Requests -> Seq(Commit)]
    BY DEF Init
  <2>2. rsnap \in [Requests -> [Hashed -> Nat]]
    BY DEF Init
  <2>3. dl \in [Threads -> [hash : Digest, tab : Content]]
    BY EmptyType DEF Init
  <2>4. connected \in BOOLEAN /\ inbox \in Seq(Digest) /\ Len(inbox) <= InboxCap
    BY EmptyInbox DEF Init
  <2>5. stateHash \in Digest /\ localHash \in Digest /\ hashFile \in Digest
    BY DEF Init, Digest
  <2>6. announced \in Content /\ stranded \in BOOLEAN
    BY EmptyType DEF Init
  <2>7. /\ rpc \in [Requests -> RequestPC] /\ apc \in [Threads -> ThreadPC]
        /\ started \in 0..MaxRequests /\ events \in 0..MaxEvents
    BY DEF Init, RequestPC, ThreadPC
  <2>8. /\ db \in Content /\ sqlite \in [Hashed -> Nat]
        /\ compose \in Nat \cup {Torn} /\ running \in Nat \cup {Torn}
    BY EmptyType DEF Init
  <2> QED
    BY <2>1, <2>2, <2>3, <2>4, <2>5, <2>6, <2>7, <2>8 DEF TypeOK
<1>2. TypeOK /\ [Next]_vars => TypeOK'
  <2> SUFFICES ASSUME TypeOK, [Next]_vars PROVE TypeOK'
    OBVIOUS
  <2>1. ASSUME NEW r \in Requests, StartRequest(r) PROVE TypeOK'
    <3>1. PICK op \in AdminOps : rtodo' = [rtodo EXCEPT ![r] = OpTables[op]]
      BY <2>1 DEF StartRequest
    <3>2. OpTables[op] \in Seq(Commit)
      BY OpTablesType, OpsAssumption
    <3> QED
      BY <2>1, <3>1, <3>2
      DEF StartRequest, GoR, TypeOK, RequestPC, wsVars, agentVars, diskVars
  <2>2. ASSUME NEW r \in Requests, RequestStep(r) PROVE TypeOK'
    <3>a. \A t \in Tables : Reads(t) \subseteq Nat
      BY ReadsType
    <3>1. CASE Edit(r)
      <4>1. PICK new \in [Head(rtodo[r]).tables -> 0..MaxVersion] :
              db' = [t \in Tables |-> IF t \in DOMAIN new THEN new[t] ELSE db[t]]
        BY <3>1 DEF Edit
      <4>2. db' \in Content
        BY <4>1 DEF TypeOK, Content, MaxVersion
      <4>3. rtodo' \in [Requests -> Seq(Commit)]
        BY <3>1 DEF Edit, TypeOK
      <4> QED
        BY <3>1, <4>2, <4>3 DEF Edit, TypeOK, RequestPC, wsVars, agentVars, diskVars
    <3>2. CASE EndEdit(r)
      BY <3>2 DEF EndEdit, GoR, TypeOK, RequestPC, wsVars, agentVars, diskVars
    <3>3. CASE HashReaders(r)
      <4>1. PICK v \in Nat : rsnap' = [rsnap EXCEPT ![r]["readers"] = v]
        BY <3>3, <3>a DEF HashReaders, Tables
      <4> QED
        BY <3>3, <4>1 DEF HashReaders, GoR, TypeOK, RequestPC, wsVars, agentVars, diskVars,
                          Hashed
    <3>4. CASE HashTelemetry(r)
      <4>1. PICK v \in Nat : rsnap' = [rsnap EXCEPT ![r]["telemetry"] = v]
        BY <3>4, <3>a DEF HashTelemetry, Tables
      <4> QED
        BY <3>4, <4>1 DEF HashTelemetry, GoR, TypeOK, RequestPC, wsVars, agentVars, diskVars,
                          Hashed
    <3>5. CASE StoreHash(r)
      BY <3>5 DEF StoreHash, GoR, TypeOK, RequestPC, wsVars, agentVars, diskVars, Digest
    <3>6. CASE NotifyConfigChange(r)
      <4>1. rsnap[r] \in Digest
        BY DEF TypeOK, Digest
      <4>2. Len(inbox) < InboxCap /\ inbox' = Append(inbox, rsnap[r])
              => inbox' \in Seq(Digest) /\ Len(inbox') <= InboxCap
        BY <4>1 DEF TypeOK
      <4>5. inbox' \in Seq(Digest) /\ Len(inbox') <= InboxCap /\ connected' \in BOOLEAN
        BY <3>6, <4>2, EmptyInbox, Zenon DEF NotifyConfigChange, TypeOK, wsVars
      <4> QED
        BY <3>6, <4>5 DEF NotifyConfigChange, GoR, TypeOK, RequestPC, agentVars, diskVars
    <3> QED
      BY <2>2, <3>1, <3>2, <3>3, <3>4, <3>5, <3>6 DEF RequestStep
  <2>3. ASSUME NEW r \in Requests, CommitFails(r) \/ RecomputeFails(r) PROVE TypeOK'
    <3>1. CASE CommitFails(r)
      <4>1. rtodo' \in [Requests -> Seq(Commit)]
        <5>1. <<>> \in Seq(Commit) /\ (rtodo[r] # <<>> => Tail(rtodo[r]) \in Seq(Commit))
          BY DEF TypeOK
        <5> QED
          BY <3>1, <5>1, Zenon DEF CommitFails, TypeOK
      <4>2. rpc' \in [Requests -> RequestPC] /\ stranded' \in BOOLEAN
        BY <3>1 DEF CommitFails, TypeOK, RequestPC
      <4> QED
        BY <3>1, <4>1, <4>2 DEF CommitFails, Event, TypeOK, wsVars, agentVars, diskVars
    <3>2. CASE RecomputeFails(r)
      BY <3>2 DEF RecomputeFails, Event, TypeOK, RequestPC, wsVars, agentVars, diskVars
    <3> QED
      BY <2>3, <3>1, <3>2
  <2>4. CASE ConnectWS
    BY <2>4 DEF ConnectWS, TypeOK, cloudVars, agentVars, diskVars
  <2>5. CASE ReceivePush
    <3>1. inbox' \in Seq(Digest) /\ Len(inbox') <= InboxCap
      BY <2>5 DEF ReceivePush, TypeOK
    <3> QED
      BY <2>5, <3>1 DEF ReceivePush, TypeOK, ThreadPC, cloudVars, diskVars
  <2>6. CASE PollState
    BY <2>6 DEF PollState, GoA, TypeOK, ThreadPC, cloudVars, wsVars, diskVars
  <2>7. CASE Compare
    BY <2>7, EmptyType DEF Compare, GoA, TypeOK, ThreadPC, cloudVars, wsVars, diskVars
  <2>8. ASSUME NEW a \in Threads, SyncStep(a) PROVE TypeOK'
    <3>a. \A t \in Tables : Reads(t) \subseteq Nat
      BY ReadsType
    <3>1. CASE LoadHash(a)
      BY <3>1, ZenonT(40) DEF LoadHash, GoA, TypeOK, ThreadPC, cloudVars, wsVars, diskVars
    <3> USE DEF GoA, TypeOK, ThreadPC, cloudVars, wsVars, diskVars, Content, Tables
    <3>2. CASE LoadReaders(a)
      <4>1. PICK v \in Nat : dl' = [dl EXCEPT ![a].tab["readers"] = v]
        BY <3>2, <3>a DEF LoadReaders
      <4>2. dl' \in [Threads -> [hash : Digest, tab : Content]]
        BY <4>1, ZenonT(40)
      <4> QED
        BY <3>2, <4>2 DEF LoadReaders
    <3>3. CASE LoadContainers(a)
      <4>1. PICK v \in Nat : dl' = [dl EXCEPT ![a].tab["containers"] = v]
        BY <3>3, <3>a DEF LoadContainers
      <4>2. dl' \in [Threads -> [hash : Digest, tab : Content]]
        BY <4>1, ZenonT(40)
      <4> QED
        BY <3>3, <4>2 DEF LoadContainers
    <3>4. CASE LoadTelemetry(a)
      <4>1. PICK v \in Nat : dl' = [dl EXCEPT ![a].tab["telemetry"] = v]
        BY <3>4, <3>a DEF LoadTelemetry
      <4>2. dl' \in [Threads -> [hash : Digest, tab : Content]]
        BY <4>1, ZenonT(40)
      <4> QED
        BY <3>4, <4>2 DEF LoadTelemetry
    <3>5. CASE TruncateCompose(a) \/ WriteCompose(a)
      <4>1. compose' \in Nat \cup {Torn}
        BY <3>5 DEF TruncateCompose, WriteCompose
      <4> QED
        BY <3>5, <4>1 DEF TruncateCompose, WriteCompose
    <3>6. CASE WriteSQLite(a)
      <4>1. sqlite' \in [Hashed -> Nat]
        BY <3>6 DEF WriteSQLite, Hashed
      <4> QED
        BY <3>6, <4>1 DEF WriteSQLite
    <3>7. CASE Deploy(a)
      BY <3>7 DEF Deploy
    <3>8. CASE SetLocalHash(a)
      BY <3>8 DEF SetLocalHash
    <3>9. CASE SaveHashFile(a)
      BY <3>9, EmptyType DEF SaveHashFile
    <3> QED
      BY <2>8, <3>1, <3>2, <3>3, <3>4, <3>5, <3>6, <3>7, <3>8, <3>9 DEF SyncStep
  <2>9. ASSUME NEW a \in Threads,
               CallFails(a) \/ WriteFails(a) \/ SaveHashFails(a) \/ DeployFails(a)
        PROVE  TypeOK'
    <3>1. CASE CallFails(a)
      BY <3>1, EmptyType DEF CallFails, Event, TypeOK, ThreadPC, cloudVars, wsVars, diskVars
    <3>2. CASE WriteFails(a)
      BY <3>2, EmptyType DEF WriteFails, Event, TypeOK, ThreadPC, cloudVars, wsVars, diskVars
    <3>3. CASE DeployFails(a)
      BY <3>3 DEF DeployFails, Event, GoA, TypeOK, ThreadPC, cloudVars, wsVars, diskVars
    <3>4. CASE SaveHashFails(a)
      BY <3>4, EmptyType
      DEF SaveHashFails, Event, GoA, TypeOK, ThreadPC, cloudVars, wsVars, Digest
    <3> QED
      BY <2>9, <3>1, <3>2, <3>3, <3>4
  <2>10. CASE AgentCrash
    <3>1. hashFile' \in Digest
      BY <2>10 DEF AgentCrash, TypeOK, Digest
    <3>2. apc' \in [Threads -> ThreadPC] /\ dl' \in [Threads -> [hash : Digest, tab : Content]]
      BY <2>10, EmptyType DEF AgentCrash, ThreadPC
    <3>3. connected' \in BOOLEAN /\ inbox' \in Seq(Digest) /\ Len(inbox') <= InboxCap
      BY <2>10, EmptyInbox DEF AgentCrash
    <3>4. events' \in 0..MaxEvents
      BY <2>10 DEF AgentCrash, Event, TypeOK
    <3> QED
      BY <2>10, <3>1, <3>2, <3>3, <3>4 DEF AgentCrash, TypeOK, cloudVars
  <2>11. CASE WSDrop
    <3>1. connected' \in BOOLEAN /\ inbox' \in Seq(Digest) /\ Len(inbox') <= InboxCap
      BY <2>11, EmptyInbox DEF WSDrop
    <3>2. events' \in 0..MaxEvents
      BY <2>11 DEF WSDrop, Event, TypeOK
    <3> QED
      BY <2>11, <3>1, <3>2 DEF WSDrop, TypeOK, cloudVars, agentVars, diskVars
  <2>12. CASE ApiCrash
    <3>1. rpc' \in [Requests -> RequestPC] /\ rtodo' \in [Requests -> Seq(Commit)]
      BY <2>12 DEF ApiCrash, RequestPC
    <3>2. connected' \in BOOLEAN /\ inbox' \in Seq(Digest) /\ Len(inbox') <= InboxCap
      BY <2>12, EmptyInbox DEF ApiCrash
    <3>3. events' \in 0..MaxEvents
      BY <2>12 DEF ApiCrash, Event, TypeOK
    <3>4. stranded' \in BOOLEAN
      BY <2>12 DEF ApiCrash, TypeOK
    <3> QED
      BY <2>12, <3>1, <3>2, <3>3, <3>4 DEF ApiCrash, TypeOK, agentVars, diskVars
  <2>13. CASE ReloadConfig
    BY <2>13 DEF ReloadConfig, Event, TypeOK, cloudVars, wsVars, Digest
  <2>14. CASE UNCHANGED vars
    BY <2>14 DEF vars, cloudVars, wsVars, agentVars, diskVars, TypeOK
  <2> QED
    BY <2>1, <2>2, <2>3, <2>4, <2>5, <2>6, <2>7, <2>8, <2>9, <2>10, <2>11, <2>12,
       <2>13, <2>14 DEF Next
<1>3. QED
  BY <1>1, <1>2, PTL DEF Spec

-------------------------------------------------------------------------------

\* As long as edits do not restore earlier contents, a commit moves each table forward.
LEMMA EditGrows ==
  ASSUME TypeOK, ~Reverts, NEW r \in Requests, Edit(r)
  PROVE  \A t \in Tables : db[t] <= db'[t]
<1>1. PICK new \in [Head(rtodo[r]).tables -> 0..MaxVersion] :
        /\ \A t \in DOMAIN new : new[t] \in NewVersions(t)
        /\ db' = [t \in Tables |-> IF t \in DOMAIN new THEN new[t] ELSE db[t]]
  BY DEF Edit
<1>2. \A t \in DOMAIN new : new[t] = db[t] + 1
  BY <1>1 DEF NewVersions
<1> QED
  BY <1>1, <1>2 DEF TypeOK, Content

\* A larger table covers whatever a smaller one covered.
LEMMA CoversMonotone ==
  ASSUME NEW c1, NEW c2, NEW h \in Digest,
         \A t \in Hashed : c1[t] \in Nat /\ c2[t] \in Nat /\ c1[t] <= c2[t],
         Covers(c1, h)
  PROVE  Covers(c2, h)
<1>1. CASE h = NoHash
  BY <1>1 DEF Covers
<1>2. CASE h \in [Hashed -> Nat]
  BY <1>2 DEF Covers
<1> QED
  BY <1>1, <1>2 DEF Digest

LEMMA DownloadInvInit == Init => DownloadInv
  BY DEF Init, DownloadInv, Covers, NoDownload, Empty, Hashed, Tables, Loaded,
         ReadersLoaded

\* No step of a request or of the device lets a digest overtake the tables it
\* describes.
LEMMA DownloadInvStep ==
  ASSUME ~Reverts, "query" \notin Events, TypeOK, TypeOK', DownloadInv, [Next]_vars
  PROVE  DownloadInv'
<1> DEFINE relevant == <<db, stateHash, rsnap, apc, dl>>
<1>0. ASSUME UNCHANGED relevant PROVE DownloadInv'
  BY <1>0 DEF DownloadInv
<1> HIDE DEF relevant
<1>1. ASSUME NEW r \in Requests, StartRequest(r) PROVE DownloadInv'
  BY <1>1, <1>0 DEF StartRequest, agentVars, relevant
<1>2. ASSUME NEW r \in Requests, Edit(r) PROVE DownloadInv'
  <2>1. \A t \in Tables : db[t] <= db'[t]
    BY <1>2, EditGrows
  <2>2. UNCHANGED <<stateHash, rsnap, apc, dl>>
    BY <1>2 DEF Edit, agentVars
  <2>a. \A t \in Hashed : db[t] \in Nat /\ db'[t] \in Nat /\ db[t] <= db'[t]
    BY <2>1 DEF TypeOK, Content, Hashed, Tables
  <2>3. Covers(db', stateHash)
    BY <2>a, CoversMonotone DEF TypeOK, DownloadInv
  <2>4. \A a \in Threads : Covers(db', dl[a].hash)
    BY <2>a, CoversMonotone DEF TypeOK, DownloadInv
  <2>5. \A q \in Requests : \A t \in Hashed : rsnap[q][t] <= db'[t]
    <3> SUFFICES ASSUME NEW q \in Requests, NEW t \in Hashed PROVE rsnap[q][t] <= db'[t]
      OBVIOUS
    <3>1. t \in Tables
      BY DEF Hashed, Tables
    <3>2. db[t] \in Nat /\ db'[t] \in Nat
      BY <3>1 DEF TypeOK, Content
    <3>3. rsnap[q][t] \in Nat
      BY DEF TypeOK
    <3>4. rsnap[q][t] <= db[t]
      BY DEF DownloadInv
    <3> QED
      BY <2>1, <3>1, <3>2, <3>3, <3>4
  <2> QED
    BY <2>2, <2>3, <2>4, <2>5 DEF DownloadInv, Covers
<1>3. ASSUME NEW r \in Requests, EndEdit(r) PROVE DownloadInv'
  BY <1>3, <1>0 DEF EndEdit, agentVars, relevant
<1>4. ASSUME NEW r \in Requests, HashReaders(r) \/ HashTelemetry(r) PROVE DownloadInv'
  <2>1. UNCHANGED <<db, stateHash, apc, dl>>
    BY <1>4 DEF HashReaders, HashTelemetry, agentVars
  <2>2. PICK u \in Hashed : rsnap' = [rsnap EXCEPT ![r][u] = db[u]]
    BY <1>4, ReadsType DEF HashReaders, HashTelemetry, Hashed, Tables
  <2>3. \A q \in Requests : \A t \in Hashed : rsnap'[q][t] \in {rsnap[q][t], db[t]}
    BY <2>2 DEF TypeOK
  <2>4. \A t \in Hashed : db[t] <= db[t]
    <3>1. \A t \in Hashed : db[t] \in Nat
      BY DEF TypeOK, Content, Hashed, Tables
    <3> QED
      BY <3>1
  <2>5. \A q \in Requests : \A t \in Hashed : rsnap'[q][t] <= db[t]
    BY <2>3, <2>4 DEF DownloadInv
  <2> QED
    BY <2>1, <2>5 DEF DownloadInv, Covers
<1>5. ASSUME NEW r \in Requests, StoreHash(r) PROVE DownloadInv'
  <2>1. UNCHANGED <<db, rsnap, apc, dl>> /\ stateHash' = rsnap[r]
    BY <1>5 DEF StoreHash, agentVars
  <2>2. Covers(db, rsnap[r])
    BY DEF DownloadInv, Covers
  <2> QED
    BY <2>1, <2>2 DEF DownloadInv, Covers
<1>6. ASSUME NEW r \in Requests,
             NotifyConfigChange(r) \/ CommitFails(r) \/ RecomputeFails(r)
      PROVE  DownloadInv'
  BY <1>6, <1>0 DEF NotifyConfigChange, CommitFails, RecomputeFails, agentVars, relevant
<1>7. CASE ReceivePush \/ PollState \/ Compare
  <2> USE DEF Loaded, ReadersLoaded
  <2>1. UNCHANGED <<db, stateHash, rsnap>>
    BY <1>7 DEF ReceivePush, PollState, Compare, cloudVars
  <2>2. CASE ReceivePush
    <3>1. dl' = dl /\ apc' \in {apc, [apc EXCEPT !["ws"] = "get"]}
      BY <2>2 DEF ReceivePush
    <3> QED
      BY <2>1, <3>1 DEF DownloadInv, TypeOK, Covers
  <2>3. CASE PollState
    BY <2>1, <2>3 DEF PollState, GoA, DownloadInv, TypeOK, Covers
  <2>4. CASE Compare
    <3>1. apc' \in {[apc EXCEPT !["poll"] = "idle"], [apc EXCEPT !["poll"] = "get"]}
      BY <2>4 DEF Compare, GoA
    <3>2. dl' = [dl EXCEPT !["poll"] = NoDownload]
      BY <2>4 DEF Compare
    <3> QED
      BY <2>1, <3>1, <3>2 DEF DownloadInv, TypeOK, Covers, NoDownload
  <2> QED
    BY <1>7, <2>2, <2>3, <2>4
<1>8. ASSUME NEW a \in Threads, SyncStep(a) PROVE DownloadInv'
  <2>a. \A t \in Tables : Reads(t) = {db[t]}
    BY ReadsType
  <2> USE DEF GoA, cloudVars, diskVars, Loaded, ReadersLoaded, TypeOK
  <2>1. CASE LoadHash(a)
    BY <2>1 DEF LoadHash, DownloadInv, Covers
  <2>2. CASE LoadReaders(a)
    <3>1. dl' = [dl EXCEPT ![a].tab["readers"] = db["readers"]]
      BY <2>2, <2>a DEF LoadReaders, Tables
    <3> QED
      BY <2>2, <3>1, SMTT(30)
      DEF LoadReaders, DownloadInv, Covers, Hashed, Tables, Content
  <2>3. CASE LoadContainers(a)
    <3>1. dl' = [dl EXCEPT ![a].tab["containers"] = db["containers"]]
      BY <2>3, <2>a DEF LoadContainers, Tables
    <3> QED
      BY <2>3, <3>1, SMTT(30)
      DEF LoadContainers, DownloadInv, Covers, Hashed, Tables, Content
  <2>4. CASE LoadTelemetry(a)
    <3>1. dl' = [dl EXCEPT ![a].tab["telemetry"] = db["telemetry"]]
      BY <2>4, <2>a DEF LoadTelemetry, Tables
    <3> QED
      BY <2>4, <3>1, SMTT(30)
      DEF LoadTelemetry, DownloadInv, Covers, Hashed, Tables, Content
  <2>5. CASE \/ TruncateCompose(a) \/ WriteCompose(a) \/ WriteSQLite(a) \/ Deploy(a)
             \/ SetLocalHash(a)
    BY <2>5 DEF TruncateCompose, WriteCompose, WriteSQLite, Deploy, SetLocalHash, DownloadInv, Covers
  <2>6. CASE SaveHashFile(a)
    BY <2>6 DEF SaveHashFile, DownloadInv, Covers, NoDownload
  <2> QED
    BY <1>8, <2>1, <2>2, <2>3, <2>4, <2>5, <2>6 DEF SyncStep
<1>9. ASSUME NEW a \in Threads,
             CallFails(a) \/ WriteFails(a) \/ SaveHashFails(a) \/ DeployFails(a)
      PROVE  DownloadInv'
  <2>1. UNCHANGED <<db, stateHash, rsnap>>
    BY <1>9 DEF CallFails, WriteFails, SaveHashFails, DeployFails, cloudVars
  <2>2. CASE CallFails(a) \/ WriteFails(a) \/ SaveHashFails(a)
    <3>1. apc' = [apc EXCEPT ![a] = "idle"] /\ dl' = [dl EXCEPT ![a] = NoDownload]
      BY <2>2 DEF CallFails, WriteFails, SaveHashFails, GoA
    <3> QED
      BY <2>1, <3>1 DEF Loaded, ReadersLoaded, TypeOK, DownloadInv, Covers, NoDownload
  <2>3. CASE DeployFails(a)
    <3>1. apc[a] = "deploy" /\ apc' = [apc EXCEPT ![a] = "local"] /\ dl' = dl
      BY <2>3 DEF DeployFails, GoA
    <3> QED
      BY <2>1, <3>1 DEF Loaded, ReadersLoaded, TypeOK, DownloadInv
  <2> QED
    BY <1>9, <2>2, <2>3
<1>10. CASE AgentCrash
  BY <1>10 DEF AgentCrash, cloudVars, Loaded, ReadersLoaded, DownloadInv, Covers, NoDownload
<1>11. CASE ConnectWS \/ WSDrop \/ ApiCrash \/ ReloadConfig \/ UNCHANGED vars
  BY <1>11, <1>0 DEF ConnectWS, WSDrop, ApiCrash, ReloadConfig, vars, cloudVars,
                     agentVars, relevant
<1> QED
  BY <1>1, <1>2, <1>3, <1>4, <1>5, <1>6, <1>7, <1>8, <1>9, <1>10, <1>11
  DEF Next, RequestStep

\* However many requests edit the tables while the device downloads them, and
\* whichever goroutines download, a configuration is never older than its digest,
\* provided an edit never restores an earlier content and no query breaks off.
THEOREM DownloadsCoverTheirHash ==
  ASSUME ~Reverts, "query" \notin Events PROVE Spec => []DownloadCoversHash
<1>1. DownloadInv => DownloadCoversHash
  BY DEF DownloadInv, DownloadCoversHash
<1>2. TypeOK /\ TypeOK' /\ DownloadInv /\ [Next]_vars => DownloadInv'
  BY DownloadInvStep
<1> QED
  BY <1>1, <1>2, DownloadInvInit, TypeCorrect, PTL DEF Spec

-------------------------------------------------------------------------------

\* With one goroutine syncing, as when the WebSocket is not in use.
OneLoop == \A a, b \in Threads : a = b

LEMMA SyncInvInit == Init => SyncInv
<1> SUFFICES ASSUME Init PROVE SyncInv
  OBVIOUS
<1>1. /\ \A t \in Hashed : sqlite[t] <= db[t]
      /\ running \in Nat /\ running <= compose
      /\ running <= db["containers"] /\ compose <= db["containers"]
  BY DEF Init, Empty, Hashed, Tables
<1>2. \A a \in Threads : apc[a] = "idle" /\ \A t \in Tables : dl[a].tab[t] <= db[t]
  BY DEF Init, NoDownload, Empty
<1>3. HashNeverAhead
  BY DEF Init, HashNeverAhead, Covers
<1> QED
  BY <1>1, <1>2, <1>3 DEF SyncInv, ReadersLoaded, ContainersLoaded, Loaded

\* Every number used below is a natural number.
LEMMA Numbers ==
  ASSUME TypeOK
  PROVE  \A t \in Tables :
           /\ db[t] \in Nat /\ \A a \in Threads : dl[a].tab[t] \in Nat
           /\ t \in Hashed => sqlite[t] \in Nat
  BY DEF TypeOK, Content

\* The single goroutine's steps, and everything that happens around it, keep
\* the files behind the download in hand and the digests behind SQLite.
LEMMA SyncInvStep ==
  ASSUME OneLoop, ~Reverts, Events \cap {"query", "stmt"} = {},
         TypeOK, TypeOK', DownloadInv, SyncInv, [Next]_vars
  PROVE  SyncInv'
<1> DEFINE relevant == <<db, apc, dl, localHash, hashFile, sqlite, compose, running>>
<1>0. ASSUME UNCHANGED relevant PROVE SyncInv'
  BY <1>0 DEF SyncInv, HashNeverAhead
<1> HIDE DEF relevant
<1>a. /\ \A t \in Tables : db[t] \in Nat
      /\ \A t \in Hashed : t \in Tables /\ sqlite[t] \in Nat
      /\ compose \in Nat \cup {Torn} /\ running \in Nat \cup {Torn}
      /\ "containers" \in Tables
  BY Numbers DEF TypeOK, Hashed, Tables
<1>b. \A t \in Tables : Reads(t) = {db[t]}
  BY ReadsType
<1>1. ASSUME NEW r \in Requests, StartRequest(r) PROVE SyncInv'
  BY <1>1, <1>0 DEF StartRequest, agentVars, diskVars, relevant
<1>2. ASSUME NEW r \in Requests, Edit(r) PROVE SyncInv'
  <2>1. \A t \in Tables : db[t] <= db'[t]
    BY <1>2, EditGrows
  <2>2. UNCHANGED <<apc, dl, localHash, hashFile, sqlite, compose, running>>
    BY <1>2 DEF Edit, agentVars, diskVars
  <2>3. \A t \in Tables : db'[t] \in Nat
    BY DEF TypeOK, Content
  <2>4. \A t \in Hashed : sqlite[t] <= db'[t]
    <3> SUFFICES ASSUME NEW t \in Hashed PROVE sqlite[t] <= db'[t]
      OBVIOUS
    <3>1. sqlite[t] <= db[t]
      BY DEF SyncInv
    <3> QED
      BY <2>1, <2>3, <3>1, <1>a
  <2>6. /\ running <= db'["containers"]
        /\ compose # Torn => compose <= db'["containers"]
    <3>1. /\ running \in Nat /\ running <= db["containers"]
          /\ compose # Torn => compose \in Nat /\ compose <= db["containers"]
      BY <1>a DEF SyncInv
    <3> QED
      BY <2>1, <2>3, <3>1, <1>a
  <2>5. \A a \in Threads : \A t \in Tables : dl[a].tab[t] <= db'[t]
    <3> SUFFICES ASSUME NEW a \in Threads, NEW t \in Tables PROVE dl[a].tab[t] <= db'[t]
      OBVIOUS
    <3>1. dl[a].tab[t] <= db[t]
      BY DEF SyncInv
    <3>2. dl[a].tab[t] \in Nat
      BY Numbers
    <3> QED
      BY <2>1, <2>3, <3>1, <3>2, <1>a
  <2> QED
    BY <2>2, <2>4, <2>5, <2>6 DEF SyncInv, HashNeverAhead
<1>3. ASSUME NEW r \in Requests,
             \/ EndEdit(r) \/ HashReaders(r) \/ HashTelemetry(r) \/ StoreHash(r)
             \/ NotifyConfigChange(r) \/ CommitFails(r) \/ RecomputeFails(r)
      PROVE  SyncInv'
  BY <1>3, <1>0 DEF EndEdit, HashReaders, HashTelemetry, StoreHash, NotifyConfigChange,
                    CommitFails, RecomputeFails, agentVars, diskVars, relevant
<1>4. CASE ReceivePush \/ PollState \/ Compare
  <2>1. UNCHANGED <<db, localHash, hashFile, sqlite, compose, running>>
    BY <1>4 DEF ReceivePush, PollState, Compare, cloudVars, diskVars
  <2>2. \A a \in Threads :
          /\ apc'[a] \in {"idle", "compare", "get"} \/ apc'[a] = apc[a]
          /\ dl'[a].tab = dl[a].tab \/ (apc'[a] \in {"idle", "get"} /\ dl'[a].tab = Empty)
    <3>1. CASE ReceivePush
      BY <3>1 DEF ReceivePush, TypeOK
    <3>2. CASE PollState
      BY <3>2 DEF PollState, GoA, TypeOK
    <3>3. CASE Compare
      BY <3>3 DEF Compare, GoA, TypeOK, NoDownload
    <3> QED
      BY <1>4, <3>1, <3>2, <3>3
  <2>3. \A t \in Tables : Empty[t] <= db[t]
    BY <1>a DEF Empty
  <2> QED
    BY <2>1, <2>2, <2>3
    DEF SyncInv, HashNeverAhead, Loaded, ReadersLoaded, ContainersLoaded
<1>5. ASSUME NEW a \in Threads, SyncStep(a) PROVE SyncInv'
  <2>a. \A b \in Threads : b = a
    BY DEF OneLoop
  <2>b. \A t \in Tables : dl[a].tab[t] <= db[t] /\ dl[a].tab[t] \in Nat /\ db[t] <= db[t]
    BY <1>a, Numbers DEF SyncInv
  <2>1. CASE LoadHash(a)
    <3>1. /\ UNCHANGED <<db, localHash, hashFile, sqlite, compose, running>>
          /\ apc'[a] = "readers" /\ dl'[a].tab = dl[a].tab
      BY <2>1 DEF LoadHash, GoA, cloudVars, diskVars, TypeOK
    <3> QED
      BY <2>a, <3>1 DEF SyncInv, HashNeverAhead, Loaded, ReadersLoaded, ContainersLoaded
  <2>2. CASE LoadReaders(a)
    <3>1. /\ UNCHANGED <<db, localHash, hashFile, sqlite, compose, running>>
          /\ apc'[a] = "containers"
          /\ dl'[a].tab = [dl[a].tab EXCEPT !["readers"] = db["readers"]]
      <4>1. dl' = [dl EXCEPT ![a].tab["readers"] = db["readers"]]
        BY <2>2, <1>b DEF LoadReaders, Tables
      <4> QED
        BY <2>2, <4>1 DEF LoadReaders, GoA, cloudVars, diskVars, TypeOK
    <3>2. /\ \A t \in Tables : dl'[a].tab[t] <= db[t]
          /\ sqlite["readers"] <= dl'[a].tab["readers"]
      BY <3>1, <2>b DEF SyncInv, TypeOK, Content, Tables, Hashed
    <3> QED
      BY <2>a, <3>1, <3>2 DEF SyncInv, HashNeverAhead, Loaded, ReadersLoaded, ContainersLoaded
  <2>3. CASE LoadContainers(a)
    <3>1. /\ UNCHANGED <<db, localHash, hashFile, sqlite, compose, running>>
          /\ apc[a] = "containers" /\ apc'[a] = "telemetry"
          /\ dl'[a].tab = [dl[a].tab EXCEPT !["containers"] = db["containers"]]
      <4>1. dl' = [dl EXCEPT ![a].tab["containers"] = db["containers"]]
        BY <2>3, <1>b DEF LoadContainers, Tables
      <4> QED
        BY <2>3, <4>1 DEF LoadContainers, GoA, cloudVars, diskVars, TypeOK
    <3>2. /\ \A t \in Tables : dl'[a].tab[t] <= db[t]
          /\ sqlite["readers"] <= dl'[a].tab["readers"]
          /\ running <= dl'[a].tab["containers"]
          /\ compose # Torn => compose <= dl'[a].tab["containers"]
      BY <3>1, <2>b, SMTT(60) DEF SyncInv, TypeOK, Content, Tables, Hashed, ReadersLoaded
    <3> QED
      BY <2>a, <3>1, <3>2 DEF SyncInv, HashNeverAhead, Loaded, ReadersLoaded, ContainersLoaded
  <2>4. CASE LoadTelemetry(a)
    <3>1. /\ UNCHANGED <<db, localHash, hashFile, sqlite, compose, running>>
          /\ apc[a] = "telemetry" /\ apc'[a] = "compose"
          /\ dl'[a].tab = [dl[a].tab EXCEPT !["telemetry"] = db["telemetry"]]
      <4>1. dl' = [dl EXCEPT ![a].tab["telemetry"] = db["telemetry"]]
        BY <2>4, <1>b DEF LoadTelemetry, Tables
      <4> QED
        BY <2>4, <4>1 DEF LoadTelemetry, GoA, cloudVars, diskVars, TypeOK
    <3>2. /\ \A t \in Tables : dl'[a].tab[t] <= db[t]
          /\ \A t \in Hashed : sqlite[t] <= dl'[a].tab[t]
          /\ running <= dl'[a].tab["containers"]
          /\ compose # Torn => compose <= dl'[a].tab["containers"]
      BY <3>1, <2>b, SMTT(60) DEF SyncInv, TypeOK, Content, Tables, Hashed, ReadersLoaded,
                        ContainersLoaded
    <3> QED
      BY <2>a, <3>1, <3>2
      DEF SyncInv, HashNeverAhead, Loaded, ReadersLoaded, ContainersLoaded, Hashed
  <2>5. CASE TruncateCompose(a)
    <3>1. /\ UNCHANGED <<db, dl, localHash, hashFile, sqlite, running>>
          /\ apc[a] = "compose" /\ apc'[a] = "fill" /\ compose' = Torn
      BY <2>5 DEF TruncateCompose, GoA, cloudVars, TypeOK
    <3> QED
      BY <2>a, <3>1 DEF SyncInv, HashNeverAhead, Loaded, ReadersLoaded, ContainersLoaded
  <2>9. CASE WriteCompose(a)
    <3>1. /\ UNCHANGED <<db, dl, localHash, hashFile, sqlite, running>>
          /\ apc[a] = "fill" /\ apc'[a] = "sqlite"
          /\ compose' = dl[a].tab["containers"]
      BY <2>9 DEF WriteCompose, GoA, cloudVars, TypeOK
    <3>2. /\ compose' <= db["containers"] /\ compose' <= dl[a].tab["containers"]
          /\ running <= compose'
      BY <3>1, <2>b, <1>a DEF SyncInv, Loaded, ContainersLoaded
    <3> QED
      BY <2>a, <3>1, <3>2 DEF SyncInv, HashNeverAhead, Loaded, ReadersLoaded, ContainersLoaded
  <2>6. CASE WriteSQLite(a)
    <3>1. /\ UNCHANGED <<db, dl, localHash, hashFile, compose, running>>
          /\ apc[a] = "sqlite" /\ apc'[a] = "deploy"
          /\ sqlite' = [t \in Hashed |-> dl[a].tab[t]]
      BY <2>6 DEF WriteSQLite, FailedStatements, GoA, cloudVars, TypeOK
    <3>2. /\ \A t \in Hashed : sqlite[t] <= sqlite'[t] /\ sqlite'[t] <= dl[a].tab[t]
          /\ running <= dl[a].tab["containers"] /\ compose = dl[a].tab["containers"]
          /\ compose <= dl[a].tab["containers"]
      BY <3>1, <2>b, <1>a
      DEF SyncInv, Loaded, ReadersLoaded, ContainersLoaded, Tables, Hashed
    <3>3. Covers(sqlite', localHash) /\ Covers(sqlite', hashFile)
      BY <3>2, CoversMonotone DEF TypeOK, SyncInv, HashNeverAhead
    <3>4. \A t \in Hashed : sqlite'[t] <= db[t] /\ sqlite'[t] = dl[a].tab[t]
      BY <3>1, <2>b, <1>a
    <3> QED
      BY <2>a, <2>b, <3>1, <3>2, <3>3, <3>4 DEF SyncInv, HashNeverAhead, Hashed
  <2>7. CASE Deploy(a)
    <3>1. /\ UNCHANGED <<db, dl, localHash, hashFile, sqlite, compose>>
          /\ apc[a] = "deploy" /\ apc'[a] = "local"
          /\ running' \in {compose} \cup (IF compose = Torn THEN {running} ELSE {})
      BY <2>7 DEF Deploy, GoA, cloudVars, TypeOK
    <3>2. compose = dl[a].tab["containers"] /\ compose # Torn
      BY <3>1, <2>b, <1>a, TornAssumption DEF SyncInv
    <3>3. /\ running' \in Nat /\ running' <= compose /\ running' <= db["containers"]
          /\ running' <= dl[a].tab["containers"] /\ compose <= db["containers"]
          /\ compose <= dl[a].tab["containers"]
      BY <3>1, <3>2, <2>b, <1>a
    <3> QED
      BY <2>a, <3>1, <3>3 DEF SyncInv, HashNeverAhead, Loaded, ReadersLoaded, ContainersLoaded
  <2>8. CASE SetLocalHash(a) \/ SaveHashFile(a)
    <3>1. /\ UNCHANGED <<db, sqlite, compose, running>> /\ apc[a] \in {"local", "file"}
          /\ localHash' \in {localHash, dl[a].hash} /\ hashFile' \in {hashFile, dl[a].hash}
      BY <2>8 DEF SetLocalHash, SaveHashFile, GoA, cloudVars, diskVars
    <3>2. Covers(sqlite, dl[a].hash)
      BY <3>1 DEF SyncInv, DownloadInv, Loaded, Covers
    <3>3. \/ apc'[a] = "file" /\ dl' = dl
          \/ apc'[a] = "idle" /\ dl'[a] = NoDownload
      BY <2>8 DEF SetLocalHash, SaveHashFile, GoA, TypeOK
    <3>4. \A t \in Tables : Empty[t] <= db[t]
      BY <1>a DEF Empty
    <3> QED
      BY <2>a, <3>1, <3>2, <3>3, <3>4
      DEF SyncInv, HashNeverAhead, Loaded, ReadersLoaded, ContainersLoaded, NoDownload
  <2> QED
    BY <1>5, <2>1, <2>2, <2>3, <2>4, <2>5, <2>6, <2>7, <2>8, <2>9 DEF SyncStep
<1>6. ASSUME NEW a \in Threads, CallFails(a) \/ WriteFails(a) \/ DeployFails(a)
      PROVE  SyncInv'
  <2>1. UNCHANGED <<db, localHash, hashFile, sqlite, compose, running>>
    BY <1>6 DEF CallFails, WriteFails, DeployFails, cloudVars, diskVars
  <2>2. \A t \in Tables : Empty[t] <= db[t]
    BY <1>a DEF Empty
  <2>3. CASE CallFails(a) \/ WriteFails(a)
    <3>1. apc' = [apc EXCEPT ![a] = "idle"] /\ dl' = [dl EXCEPT ![a] = NoDownload]
      BY <2>3 DEF CallFails, WriteFails
    <3> QED
      BY <2>1, <2>2, <3>1
      DEF SyncInv, HashNeverAhead, Loaded, ReadersLoaded, ContainersLoaded, TypeOK, NoDownload
  <2>4. CASE DeployFails(a)
    <3>1. apc[a] = "deploy" /\ apc' = [apc EXCEPT ![a] = "local"] /\ dl' = dl
      BY <2>4 DEF DeployFails, GoA
    <3> QED
      BY <2>1, <3>1
      DEF SyncInv, HashNeverAhead, Loaded, ReadersLoaded, ContainersLoaded, TypeOK
  <2> QED
    BY <1>6, <2>3, <2>4
<1>10. ASSUME NEW a \in Threads, SaveHashFails(a) PROVE SyncInv'
  <2>1. /\ UNCHANGED <<db, localHash, sqlite, compose, running>>
        /\ hashFile' \in {hashFile, NoHash}
    BY <1>10 DEF SaveHashFails, cloudVars
  <2>2. \A t \in Tables : Empty[t] <= db[t]
    BY <1>a DEF Empty
  <2>3. apc' = [apc EXCEPT ![a] = "idle"] /\ dl' = [dl EXCEPT ![a] = NoDownload]
    BY <1>10 DEF SaveHashFails, GoA
  <2> QED
    BY <2>1, <2>2, <2>3
    DEF SyncInv, HashNeverAhead, Covers, Loaded, ReadersLoaded, ContainersLoaded, TypeOK,
        NoDownload
<1>7. CASE AgentCrash
  <2>1. /\ UNCHANGED <<db, sqlite, compose, running>>
        /\ hashFile' \in {hashFile, NoHash} /\ localHash' = hashFile'
    BY <1>7 DEF AgentCrash, cloudVars
  <2>2. \A a \in Threads : apc'[a] = "idle" /\ dl'[a] = NoDownload
    BY <1>7 DEF AgentCrash
  <2>3. \A t \in Tables : Empty[t] <= db[t]
    BY <1>a DEF Empty
  <2> QED
    BY <2>1, <2>2, <2>3
    DEF SyncInv, HashNeverAhead, Covers, Loaded, ReadersLoaded, ContainersLoaded, NoDownload
<1>8. CASE ReloadConfig
  BY <1>8 DEF ReloadConfig, cloudVars, SyncInv, HashNeverAhead, Covers
<1>9. CASE ConnectWS \/ WSDrop \/ ApiCrash \/ UNCHANGED vars
  BY <1>9, <1>0 DEF ConnectWS, WSDrop, ApiCrash, vars, cloudVars, agentVars, diskVars,
                    relevant
<1> QED
  BY <1>1, <1>2, <1>3, <1>4, <1>5, <1>6, <1>7, <1>8, <1>9, <1>10 DEF Next, RequestStep

\* A device that syncs from one goroutine never records a digest, in memory or on
\* disk, of a configuration newer than the one in its SQLite database, whatever
\* fails and whenever it restarts; the failures whose error the code drops, "query"
\* and "stmt", are the exception.
THEOREM DigestNeverAhead ==
  ASSUME OneLoop, ~Reverts, Events \cap {"query", "stmt"} = {}
  PROVE  Spec => []HashNeverAhead
<1>1. SyncInv => HashNeverAhead
  BY DEF SyncInv
<1>2. TypeOK /\ TypeOK' /\ DownloadInv /\ [Next]_vars => DownloadInv'
  BY DownloadInvStep
<1>3. TypeOK /\ TypeOK' /\ DownloadInv /\ SyncInv /\ [Next]_vars => SyncInv'
  BY SyncInvStep
<1> QED
  BY <1>1, <1>2, <1>3, DownloadInvInit, SyncInvInit, TypeCorrect, PTL DEF Spec

\* A device that syncs from one goroutine never goes back to an older configuration,
\* in SQLite or in what docker runs, and runs no torn or stale compose file, under the
\* same assumptions.
THEOREM ConfigurationNeverOlder ==
  ASSUME OneLoop, ~Reverts, Events \cap {"query", "stmt"} = {}
  PROVE  Spec => NoRollback
<1> DEFINE grows == /\ \A t \in Hashed : sqlite[t] <= sqlite'[t]
                    /\ running' # Torn /\ running <= running'
                    /\ compose' # Torn => running' <= compose'
<1>1. ASSUME TypeOK, TypeOK', SyncInv, SyncInv', [Next]_vars
      PROVE  [grows]_<<sqlite, compose, running>>
  <2>1. /\ \A t \in Hashed : sqlite[t] \in Nat
        /\ running \in Nat /\ running' \in Nat /\ running' # Torn
        /\ compose' # Torn => running' <= compose'
    BY <1>1, Numbers, TornAssumption DEF SyncInv, TypeOK, Hashed, Tables
  <2>2. CASE \E a \in Threads : WriteSQLite(a)
    <3>1. PICK a \in Threads : WriteSQLite(a)
      BY <2>2
    <3>2. \A t \in Hashed : dl[a].tab[t] \in Nat
      BY <1>1, Numbers DEF Hashed, Tables
    <3>3. /\ apc[a] = "sqlite" /\ UNCHANGED running
          /\ sqlite' = [t \in Hashed |-> dl[a].tab[t]]
      BY <3>1 DEF WriteSQLite, FailedStatements, GoA
    <3>4. \A t \in Hashed : sqlite[t] <= sqlite'[t]
      BY <1>1, <3>3, <3>2, <2>1 DEF SyncInv, Loaded, ReadersLoaded, Hashed
    <3> QED
      BY <2>1, <3>3, <3>4
  <2>3. CASE \E a \in Threads : Deploy(a)
    <3>1. PICK a \in Threads : Deploy(a)
      BY <2>3
    <3>2. /\ apc[a] = "deploy" /\ UNCHANGED <<sqlite, compose>>
          /\ running' \in {compose, running}
      BY <3>1 DEF Deploy, GoA
    <3>3. running <= running'
      BY <1>1, <2>1, <3>2, TornAssumption DEF SyncInv
    <3> QED
      BY <2>1, <3>2, <3>3
  <2>4. CASE ~\E a \in Threads : WriteSQLite(a) \/ Deploy(a)
    <3>1. UNCHANGED <<sqlite, running>>
      BY <1>1, <2>4
      DEF Next, RequestStep, SyncStep, StartRequest, Edit, EndEdit, HashReaders,
          HashTelemetry, StoreHash, NotifyConfigChange, CommitFails, RecomputeFails,
          ConnectWS, ReceivePush, PollState, Compare, LoadHash, LoadReaders,
          LoadContainers, LoadTelemetry, TruncateCompose, WriteCompose, SetLocalHash,
          SaveHashFile, CallFails, WriteFails, SaveHashFails, DeployFails, AgentCrash,
          WSDrop, ApiCrash, ReloadConfig, vars, agentVars, diskVars
    <3> QED
      BY <2>1, <3>1
  <2> QED
    BY <2>2, <2>3, <2>4
<1>2. TypeOK /\ TypeOK' /\ DownloadInv /\ [Next]_vars => DownloadInv'
  BY DownloadInvStep
<1>3. TypeOK /\ TypeOK' /\ DownloadInv /\ SyncInv /\ [Next]_vars => SyncInv'
  BY SyncInvStep
<1>4. TypeOK /\ TypeOK' /\ SyncInv /\ SyncInv' /\ [Next]_vars
        => [grows]_<<sqlite, compose, running>>
  BY <1>1
<1> QED
  BY <1>2, <1>3, <1>4, DownloadInvInit, SyncInvInit, TypeCorrect, PTL DEF Spec, NoRollback

-------------------------------------------------------------------------------

LEMMA RequestInvInit == Init => RequestInv
<1> SUFFICES ASSUME Init PROVE RequestInv
  OBVIOUS
<1>1. \A r \in Requests : rpc[r] = "idle"
  BY DEF Init
<1>2. DigestExact
  BY DEF Init, DigestExact, Empty, Hashed, Tables
<1> QED
  BY <1>1, <1>2 DEF RequestInv

\* While the one request runs, nobody else writes what it has read.
LEMMA RequestInvStep ==
  ASSUME NEW r0, Requests = {r0}, "query" \notin Events,
         TypeOK, TypeOK', RequestInv, [Next]_vars
  PROVE  RequestInv'
<1> DEFINE relevant == <<db, stateHash, rpc, rsnap, stranded>>
<1>0. ASSUME UNCHANGED relevant PROVE RequestInv'
  BY <1>0 DEF RequestInv, DigestExact
<1> HIDE DEF relevant
<1>1. ASSUME NEW r \in Requests, StartRequest(r) PROVE RequestInv'
  <2>1. /\ rpc[r] = "idle" /\ rpc'[r] = "begin"
        /\ UNCHANGED <<db, stateHash, stranded>>
    BY <1>1 DEF StartRequest, GoR, TypeOK, history
  <2> QED
    BY <2>1 DEF RequestInv, DigestExact
<1>2. ASSUME NEW r \in Requests, Edit(r) \/ EndEdit(r) PROVE RequestInv'
  <2>1. rpc'[r] \in {"edit", "hash_readers"}
    BY <1>2 DEF Edit, EndEdit, GoR, TypeOK
  <2> QED
    BY <2>1 DEF RequestInv
<1>3. ASSUME NEW r \in Requests, HashReaders(r) PROVE RequestInv'
  <2>1. /\ rpc'[r] = "hash_telemetry" /\ db' = db
        /\ rsnap'[r]["readers"] = db["readers"]
    BY <1>3, ReadsType, SMTT(30) DEF HashReaders, GoR, TypeOK, Hashed, Tables
  <2> QED
    BY <2>1 DEF RequestInv
<1>4. ASSUME NEW r \in Requests, HashTelemetry(r) PROVE RequestInv'
  <2>1. /\ rpc[r] = "hash_telemetry" /\ rpc'[r] = "store" /\ db' = db
        /\ rsnap'[r]["telemetry"] = db["telemetry"]
        /\ rsnap'[r]["readers"] = rsnap[r]["readers"]
    BY <1>4, ReadsType DEF HashTelemetry, GoR, TypeOK, Hashed, Tables
  <2> QED
    BY <2>1 DEF RequestInv
<1>5. ASSUME NEW r \in Requests, StoreHash(r) PROVE RequestInv'
  <2>1. /\ rpc[r] = "store" /\ rpc'[r] = "push" /\ UNCHANGED <<db, rsnap>>
        /\ stateHash' = rsnap[r]
    BY <1>5 DEF StoreHash, GoR, TypeOK
  <2> QED
    BY <2>1 DEF RequestInv
<1>6. ASSUME NEW r \in Requests, NotifyConfigChange(r) PROVE RequestInv'
  <2>1. /\ rpc[r] = "push" /\ rpc'[r] = "idle" /\ UNCHANGED <<db, rsnap, stateHash>>
    BY <1>6 DEF NotifyConfigChange, GoR, TypeOK
  <2>2. rsnap[r] = [t \in Hashed |-> rsnap[r][t]]
    BY DEF TypeOK
  <2>3. \A t \in Hashed : rsnap[r][t] = db[t]
    BY <2>1 DEF RequestInv, Hashed
  <2>4. stateHash = [t \in Hashed |-> db[t]]
    BY <2>1, <2>2, <2>3 DEF RequestInv
  <2> QED
    BY <2>1, <2>4 DEF RequestInv, DigestExact
<1>7. ASSUME NEW r \in Requests, RecomputeFails(r) PROVE RequestInv'
  <2>1. rpc'[r] = "idle" /\ stranded'
    BY <1>7 DEF RecomputeFails, TypeOK
  <2> QED
    BY <2>1 DEF RequestInv
<1>12. ASSUME NEW r \in Requests, CommitFails(r) PROVE RequestInv'
  <2>1. CASE rpc'[r] = "edit"
    BY <2>1 DEF RequestInv
  <2>2. CASE rpc'[r] # "edit"
    <3>1. /\ UNCHANGED <<db, stateHash>>
          /\ stranded' \/ (rpc[r] = "begin" /\ UNCHANGED stranded)
          /\ rpc'[r] \in {"idle", "begin"}
      BY <1>12, <2>2 DEF CommitFails, TypeOK
    <3> QED
      BY <3>1 DEF RequestInv, DigestExact
  <2> QED
    BY <2>1, <2>2
<1>8. CASE ConnectWS \/ ReceivePush \/ PollState \/ Compare
  BY <1>8, <1>0 DEF ConnectWS, ReceivePush, PollState, Compare, cloudVars, history, relevant
<1>9. ASSUME NEW a \in Threads,
             \/ SyncStep(a) \/ CallFails(a) \/ WriteFails(a) \/ SaveHashFails(a)
             \/ DeployFails(a)
      PROVE  RequestInv'
  BY <1>9, <1>0 DEF SyncStep, LoadHash, LoadReaders, LoadContainers, LoadTelemetry,
                    TruncateCompose, WriteCompose, WriteSQLite, Deploy, SetLocalHash,
                    SaveHashFile, CallFails, WriteFails, SaveHashFails, DeployFails,
                    cloudVars, history, relevant
<1>10. CASE AgentCrash \/ WSDrop \/ ReloadConfig \/ UNCHANGED vars
  BY <1>10, <1>0 DEF AgentCrash, WSDrop, ReloadConfig, vars, cloudVars, history, relevant
<1>11. CASE ApiCrash
  <2>1. /\ UNCHANGED <<db, stateHash, rsnap>> /\ \A r \in Requests : rpc'[r] = "idle"
        /\ stranded' = (stranded \/ \E r \in Requests : rpc[r] \in Unannounced)
    BY <1>11 DEF ApiCrash
  <2>2. ASSUME ~stranded' PROVE DigestExact
    <3>1. ~stranded /\ rpc[r0] \in {"idle", "begin", "push"}
      BY <2>1, <2>2 DEF TypeOK, RequestPC, Unannounced
    <3>2. CASE rpc[r0] = "push"
      <4>1. rsnap[r0] = [t \in Hashed |-> db[t]]
        BY <3>2 DEF RequestInv, TypeOK, Hashed
      <4> QED
        BY <3>2, <4>1 DEF RequestInv, DigestExact
    <3> QED
      BY <3>1, <3>2 DEF RequestInv
  <2> QED
    BY <2>1, <2>2 DEF RequestInv, DigestExact
<1> QED
  BY <1>1, <1>2, <1>3, <1>4, <1>5, <1>6, <1>7, <1>8, <1>9, <1>10, <1>11, <1>12
  DEF Next, RequestStep

\* If API requests come one at a time and no query breaks off, the digest the cloud
\* stores is that of its tables whenever no request runs, through failed commits,
\* failed digests and restarts of the cloud: from the next digest on after one of these
\* has left an edit without.
THEOREM DigestExactBetweenRequests ==
  ASSUME NEW r0, Requests = {r0}, "query" \notin Events
  PROVE  Spec => []QuietHashExact
<1>1. RequestInv => QuietHashExact
  <2> SUFFICES ASSUME RequestInv, rpc[r0] = "idle", ~stranded PROVE DigestExact
    BY DEF QuietHashExact, Quiet
  <2> QED
    BY DEF RequestInv
<1>2. TypeOK /\ TypeOK' /\ RequestInv /\ [Next]_vars => RequestInv'
  BY RequestInvStep
<1> QED
  BY <1>1, <1>2, RequestInvInit, TypeCorrect, PTL DEF Spec
=============================================================================
