------------------------------ MODULE ConfigSync ------------------------------
(***************************************************************************)
(* How a configuration edit in the cloud reaches the files, the SQLite     *)
(* database and the containers of one Qube.                                *)
(*                                                                         *)
(* Cloud side: an API request edits tables, then recomputeConfigHash reads *)
(* the hashed tables one query at a time, stores the digest in             *)
(* config_state and pushes it over the WebSocket.  No transaction spans    *)
(* these statements.  TP-API answers /v1/sync/state with the stored digest *)
(* and /v1/sync/config with the digest followed by the tables, again one   *)
(* query at a time.                                                        *)
(*                                                                         *)
(* Device side: conf-agent runs two goroutines, the poll loop and the      *)
(* WebSocket loop; either may run syncConfig, and no lock is held there.   *)
(*                                                                         *)
(* A table's content is a version number; a digest (SHA-256) is the        *)
(* function from the hashed tables to the versions it was computed from.   *)
(***************************************************************************)
EXTENDS Naturals, Sequences

CONSTANTS
  Requests,    \* API request handlers that may run at the same time
  Threads,     \* the agent goroutines in use, a subset of {"poll", "ws"}
  AdminOps,    \* the API operations used, a subset of DOMAIN OpTables
  Reverts,     \* TRUE if an edit may restore an earlier content of a table
  Events,      \* the failures and commands that may happen, of EventKinds
  NoHash,      \* the empty string: no digest
  Torn,        \* a docker-compose.yml that was not written to its end
  MaxRequests, \* bound on the number of API requests
  MaxEvents,   \* bound on the number of Events other than "query" and "stmt"
  InboxCap     \* capacity of a WSClient's send channel (64 in the code)

\* An API request commits to a table at most twice.
MaxVersion == 2 * MaxRequests

Tables == {"readers", "containers", "telemetry"}
Hashed == {"readers", "telemetry"}

\* MaxEvents does not bound the last two, failures whose error the code drops.
EventKinds == {"net", "disk", "deploy", "crash", "wsdrop", "api", "reload",
               "query", "stmt"}

\* A commit of the given tables, and what the handler does when it fails: it
\* answers an error and returns, or drops the error and goes on.
Checked(tables) == [tables |-> tables, onError |-> {"return"}]
Dropped(tables) == [tables |-> tables, onError |-> {"goOn"}]
Either(tables)  == [tables |-> tables, onError |-> {"return", "goOn"}]

\* What each mutating endpoint commits before it recomputes the digest, in order.
\* "readers" stands for readers and sensors,
\* "containers" for what docker-compose.yml is built from (containers and
\* registry_config), "telemetry" for the columns of telemetry_settings the digest
\* sees.  SmartCreate is the case that finds no reader to share.  Deleting a reader
\* or a sensor reaches the rows that refer to it: containers go, mappings lose
\* their sensor.
CreateReader   == <<Checked({"readers", "containers"})>>
UpdateReader   == <<Checked({"readers"})>>
DeleteReader   == <<Checked({"readers", "containers", "telemetry"})>>
CreateSensor   == <<Checked({"readers"}), Dropped({"telemetry"})>>
UpdateSensor   == <<Checked({"readers"})>>
DeleteSensor   == <<Checked({"readers", "telemetry"})>>
SmartCreate    == CreateReader \o CreateSensor
CreateMapping  == <<Checked({"telemetry"})>>
UpdateMapping  == <<Checked({"telemetry"})>>
DeleteMapping  == <<Checked({"telemetry"})>>
UpdateRegistry == <<Checked({"containers"}), Either({"containers"})>>

OpTables ==
  [ create_reader      |-> CreateReader,
    update_reader      |-> UpdateReader,
    delete_reader      |-> DeleteReader,
    create_sensor      |-> CreateSensor,
    update_sensor      |-> UpdateSensor,
    delete_sensor      |-> DeleteSensor,
    delete_last_sensor |-> DeleteReader,
    smart_create       |-> SmartCreate,
    create_mapping     |-> CreateMapping,
    update_mapping     |-> UpdateMapping,
    delete_mapping     |-> DeleteMapping,
    update_registry    |-> UpdateRegistry ]

ASSUME ThreadsAssumption == Threads \subseteq {"poll", "ws"}
ASSUME OpsAssumption == AdminOps \subseteq DOMAIN OpTables
ASSUME RevertsAssumption == Reverts \in BOOLEAN
ASSUME EventsAssumption == Events \subseteq EventKinds
ASSUME BoundsAssumption ==
  MaxRequests \in Nat /\ MaxEvents \in Nat /\ InboxCap \in Nat
ASSUME NoHashAssumption == NoHash \notin [Hashed -> Nat]
ASSUME TornAssumption == Torn \notin Nat

VARIABLES
  db,         \* the cloud tables: version of each
  stateHash,  \* config_state.hash
  rpc,        \* per request: where its handler stands
  rtodo,      \* per request: commits it has still to make
  rsnap,      \* per request: versions recomputeConfigHash has read
  connected,  \* the hub has a client for the Qube
  inbox,      \* config_push digests on their way to the agent
  apc,        \* per agent goroutine: where it stands
  dl,         \* per agent goroutine: the response it holds
  localHash,  \* Agent.localHash
  hashFile,   \* the .config_hash file
  sqlite,     \* versions written by sqlite.WriteConfig
  compose,    \* container version in docker-compose.yml, or Torn
  running,    \* container version docker runs, or Torn
  started,    \* API requests so far
  events,     \* Events so far
  announced,  \* history: the tables when the stored digest last changed
  stranded    \* history: a handler has ended between a commit and the digest, and
              \* none has stored one since

history   == <<announced, stranded>>
cloudVars == <<db, stateHash, rpc, rtodo, rsnap, started, history>>
wsVars    == <<connected, inbox>>
diskVars  == <<hashFile, sqlite, compose, running>>
agentVars == <<apc, dl, localHash, diskVars>>
vars      == <<cloudVars, wsVars, agentVars, events>>

Digest  == [Hashed -> Nat] \cup {NoHash}
Content == [Tables -> Nat]
Empty   == [t \in Tables |-> 0]
NoDownload == [hash |-> NoHash, tab |-> Empty]

\* tab is at least as new as what digest h was computed from.
Covers(tab, h) == h = NoHash \/ \A t \in Hashed : h[t] <= tab[t]

Commit == [tables : SUBSET Tables, onError : SUBSET {"return", "goOn"}]

RequestPC == {"idle", "begin", "edit", "hash_readers", "hash_telemetry", "store", "push"}
ThreadPC  == {"idle", "compare", "get", "readers", "containers", "telemetry",
              "compose", "fill", "sqlite", "deploy", "local", "file"}

TypeOK ==
  /\ db \in Content /\ stateHash \in Digest
  /\ rpc \in [Requests -> RequestPC]
  /\ rtodo \in [Requests -> Seq(Commit)]
  /\ rsnap \in [Requests -> [Hashed -> Nat]]
  /\ connected \in BOOLEAN
  /\ inbox \in Seq(Digest) /\ Len(inbox) <= InboxCap
  /\ apc \in [Threads -> ThreadPC]
  /\ dl \in [Threads -> [hash : Digest, tab : Content]]
  /\ localHash \in Digest /\ hashFile \in Digest
  /\ sqlite \in [Hashed -> Nat]
  /\ compose \in Nat \cup {Torn} /\ running \in Nat \cup {Torn}
  /\ started \in 0..MaxRequests /\ events \in 0..MaxEvents
  /\ announced \in Content /\ stranded \in BOOLEAN

Init ==
  /\ db = Empty /\ stateHash = NoHash
  /\ rpc = [r \in Requests |-> "idle"]
  /\ rtodo = [r \in Requests |-> <<>>]
  /\ rsnap = [r \in Requests |-> [t \in Hashed |-> 0]]
  /\ connected = FALSE /\ inbox = <<>>
  /\ apc = [a \in Threads |-> "idle"]
  /\ dl = [a \in Threads |-> NoDownload]
  /\ localHash = NoHash /\ hashFile = NoHash
  /\ sqlite = [t \in Hashed |-> 0] /\ compose = 0 /\ running = 0
  /\ started = 0 /\ events = 0
  /\ announced = Empty /\ stranded = FALSE

(***************************************************************************)
(* Cloud API: a mutating request                                           *)
(***************************************************************************)

GoR(r, from, to) == rpc[r] = from /\ rpc' = [rpc EXCEPT ![r] = to]

StartRequest(r) ==
  \E op \in AdminOps :
    /\ GoR(r, "idle", "begin")
    /\ started < MaxRequests
    /\ started' = started + 1
    /\ rtodo' = [rtodo EXCEPT ![r] = OpTables[op]]
    /\ UNCHANGED <<db, stateHash, rsnap, history, wsVars, agentVars, events>>

\* Versions a commit may leave in table t.
NewVersions(t) == IF Reverts THEN (0..MaxVersion) \ {db[t]} ELSE {db[t] + 1}

\* One commit; after the last one the digest is recomputed.
Edit(r) ==
  /\ rpc[r] \in {"begin", "edit"}
  /\ rtodo[r] # <<>>
  /\ rpc' = [rpc EXCEPT ![r] = "edit"]
  /\ \E new \in [Head(rtodo[r]).tables -> 0..MaxVersion] :
       /\ \A t \in DOMAIN new : new[t] \in NewVersions(t)
       /\ db' = [t \in Tables |-> IF t \in DOMAIN new THEN new[t] ELSE db[t]]
  /\ rtodo' = [rtodo EXCEPT ![r] = Tail(@)]
  /\ UNCHANGED <<stateHash, rsnap, started, history, wsVars, agentVars, events>>

\* A handler that forgets to call recomputeConfigHash (mutant of EndEdit).
EndEditNoRecompute(r) ==
  /\ GoR(r, "edit", "idle")
  /\ rtodo[r] = <<>>
  /\ UNCHANGED <<db, stateHash, rtodo, rsnap, started, history, wsVars, agentVars,
                 events>>

EndEdit(r) ==
  /\ GoR(r, "edit", "hash_readers")
  /\ rtodo[r] = <<>>
  /\ UNCHANGED <<db, stateHash, rtodo, rsnap, started, history, wsVars, agentVars,
                 events>>

\* What a query on table t yields.  No caller looks at rows.Err, so one that
\* breaks off counts as answered; what it then yields is taken as nothing.
Reads(t) == {db[t]} \cup (IF "query" \in Events THEN {0} ELSE {})

HashReaders(r) ==
  /\ GoR(r, "hash_readers", "hash_telemetry")
  /\ \E v \in Reads("readers") : rsnap' = [rsnap EXCEPT ![r]["readers"] = v]
  /\ UNCHANGED <<db, stateHash, rtodo, started, history, wsVars, agentVars, events>>

HashTelemetry(r) ==
  /\ GoR(r, "hash_telemetry", "store")
  /\ \E v \in Reads("telemetry") : rsnap' = [rsnap EXCEPT ![r]["telemetry"] = v]
  /\ UNCHANGED <<db, stateHash, rtodo, started, history, wsVars, agentVars, events>>

StoreHash(r) ==
  /\ GoR(r, "store", "push")
  /\ stateHash' = rsnap[r]
  /\ announced' = IF stateHash' = stateHash THEN announced ELSE db
  /\ stranded' = FALSE
  /\ UNCHANGED <<db, rtodo, rsnap, started, wsVars, agentVars, events>>

\* A send that does not look at the channel's capacity (mutant of NotifyConfigChange).
NotifyUnbounded(r) ==
  /\ GoR(r, "push", "idle")
  /\ inbox' = IF connected THEN Append(inbox, rsnap[r]) ELSE inbox
  /\ UNCHANGED <<db, stateHash, rtodo, rsnap, started, history, connected, agentVars,
                 events>>

\* SendTo: no client, nothing sent; channel full, the client is dropped.
NotifyConfigChange(r) ==
  /\ GoR(r, "push", "idle")
  /\ \/ ~connected /\ UNCHANGED wsVars
     \/ /\ connected /\ Len(inbox) < InboxCap
        /\ inbox' = Append(inbox, rsnap[r])
        /\ UNCHANGED connected
     \/ /\ connected /\ Len(inbox) = InboxCap
        /\ connected' = FALSE
        /\ inbox' = <<>>
  /\ UNCHANGED <<db, stateHash, rtodo, rsnap, started, history, agentVars, events>>

RequestStep(r) ==
  \/ Edit(r) \/ EndEdit(r) \/ HashReaders(r) \/ HashTelemetry(r)
  \/ StoreHash(r) \/ NotifyConfigChange(r)

(***************************************************************************)
(* conf-agent: deciding to sync                                            *)
(***************************************************************************)

GoA(a, from, to) == apc[a] = from /\ apc' = [apc EXCEPT ![a] = to]

ConnectWS ==
  /\ "ws" \in Threads /\ ~connected /\ apc["ws"] = "idle"
  /\ connected' = TRUE
  /\ UNCHANGED <<cloudVars, inbox, agentVars, events>>

\* handleWSMessage, case "config_push"; the loop reads no further message
\* before syncConfig returns.
ReceivePush ==
  LET hash == Head(inbox)
  IN  /\ "ws" \in Threads /\ apc["ws"] = "idle" /\ inbox # <<>>
      /\ inbox' = Tail(inbox)
      /\ apc' = IF hash # NoHash /\ hash # localHash
                THEN [apc EXCEPT !["ws"] = "get"] ELSE apc
      /\ UNCHANGED <<cloudVars, connected, dl, localHash, diskVars, events>>

\* checkAndSync: ask for the state, then compare with localHash.
PollState ==
  /\ "poll" \in Threads
  /\ GoA("poll", "idle", "compare")
  /\ dl' = [dl EXCEPT !["poll"].hash = stateHash]
  /\ UNCHANGED <<cloudVars, wsVars, localHash, diskVars, events>>

\* A device that has never synced is taken for up to date (mutant of Compare).
CompareSkipsFresh ==
  /\ "poll" \in Threads
  /\ GoA("poll", "compare",
         IF localHash = NoHash \/ dl["poll"].hash = localHash THEN "idle" ELSE "get")
  /\ dl' = [dl EXCEPT !["poll"] = NoDownload]
  /\ UNCHANGED <<cloudVars, wsVars, localHash, diskVars, events>>

Compare ==
  /\ "poll" \in Threads
  /\ GoA("poll", "compare", IF dl["poll"].hash = localHash THEN "idle" ELSE "get")
  /\ dl' = [dl EXCEPT !["poll"] = NoDownload]
  /\ UNCHANGED <<cloudVars, wsVars, localHash, diskVars, events>>

(***************************************************************************)
(* TP-API syncConfigHandler: one query per step                            *)
(***************************************************************************)

LoadHash(a) ==
  /\ GoA(a, "get", "readers")
  /\ dl' = [dl EXCEPT ![a].hash = stateHash]
  /\ UNCHANGED <<cloudVars, wsVars, localHash, diskVars, events>>

LoadReaders(a) ==
  /\ GoA(a, "readers", "containers")
  /\ \E v \in Reads("readers") : dl' = [dl EXCEPT ![a].tab["readers"] = v]
  /\ UNCHANGED <<cloudVars, wsVars, localHash, diskVars, events>>

LoadContainers(a) ==
  /\ GoA(a, "containers", "telemetry")
  /\ \E v \in Reads("containers") : dl' = [dl EXCEPT ![a].tab["containers"] = v]
  /\ UNCHANGED <<cloudVars, wsVars, localHash, diskVars, events>>

\* The digest read after the tables rather than before (mutant of LoadTelemetry).
LoadTelemetryThenHash(a) ==
  /\ GoA(a, "telemetry", "compose")
  /\ dl' = [dl EXCEPT ![a].tab["telemetry"] = db["telemetry"], ![a].hash = stateHash]
  /\ UNCHANGED <<cloudVars, wsVars, localHash, diskVars, events>>

LoadTelemetry(a) ==
  /\ GoA(a, "telemetry", "compose")
  /\ \E v \in Reads("telemetry") : dl' = [dl EXCEPT ![a].tab["telemetry"] = v]
  /\ UNCHANGED <<cloudVars, wsVars, localHash, diskVars, events>>

(***************************************************************************)
(* conf-agent: syncConfig and applyConfig after the download               *)
(***************************************************************************)

\* os.WriteFile on docker-compose.yml: it opens the file empty, then writes it.
TruncateCompose(a) ==
  /\ GoA(a, "compose", "fill")
  /\ compose' = Torn
  /\ UNCHANGED <<cloudVars, wsVars, dl, localHash, hashFile, sqlite, running, events>>

WriteCompose(a) ==
  /\ GoA(a, "fill", "sqlite")
  /\ compose' = dl[a].tab["containers"]
  /\ UNCHANGED <<cloudVars, wsVars, dl, localHash, hashFile, sqlite, running, events>>

\* The tables whose statements fail in WriteConfig's transaction, which looks at
\* no error before Commit's.
FailedStatements == IF "stmt" \in Events THEN SUBSET Hashed ELSE {{}}

\* One SQLite transaction; a table whose statements fail keeps its rows.
WriteSQLite(a) ==
  /\ GoA(a, "sqlite", "deploy")
  /\ \E lost \in FailedStatements :
       sqlite' = [t \in Hashed |-> IF t \in lost THEN sqlite[t] ELSE dl[a].tab[t]]
  /\ UNCHANGED <<cloudVars, wsVars, dl, localHash, hashFile, compose, running, events>>

\* docker stack deploy / docker compose up: reads the file as it is now; of one that
\* the other goroutine is writing it makes something or nothing.
Deploy(a) ==
  /\ GoA(a, "deploy", "local")
  /\ running' \in {compose} \cup (IF compose = Torn THEN {running} ELSE {})
  /\ UNCHANGED <<cloudVars, wsVars, dl, localHash, hashFile, sqlite, compose, events>>

SetLocalHash(a) ==
  /\ GoA(a, "local", "file")
  /\ localHash' = dl[a].hash
  /\ UNCHANGED <<cloudVars, wsVars, dl, diskVars, events>>

SaveHashFile(a) ==
  /\ GoA(a, "file", "idle")
  /\ hashFile' = dl[a].hash
  /\ dl' = [dl EXCEPT ![a] = NoDownload]
  /\ UNCHANGED <<cloudVars, wsVars, localHash, sqlite, compose, running, events>>

SyncStep(a) ==
  \/ LoadHash(a) \/ LoadReaders(a) \/ LoadContainers(a) \/ LoadTelemetry(a)
  \/ TruncateCompose(a) \/ WriteCompose(a) \/ WriteSQLite(a) \/ Deploy(a)
  \/ SetLocalHash(a) \/ SaveHashFile(a)

(***************************************************************************)
(* Failures, restarts and commands                                         *)
(***************************************************************************)

Event(kind) == kind \in Events /\ events < MaxEvents /\ events' = events + 1

\* getState or getConfig returns an error: the cycle ends.
CallFails(a) ==
  /\ Event("net")
  /\ apc[a] \in {"compare", "get", "readers", "containers", "telemetry", "compose"}
  /\ apc' = [apc EXCEPT ![a] = "idle"]
  /\ dl' = [dl EXCEPT ![a] = NoDownload]
  /\ UNCHANGED <<cloudVars, wsVars, localHash, diskVars>>

\* applyConfig's error is ignored by its caller (mutant of WriteFails).
WriteFailsUnnoticed(a) ==
  /\ Event("disk")
  /\ GoA(a, "sqlite", "local")
  /\ UNCHANGED <<cloudVars, wsVars, dl, localHash, diskVars>>

\* The deletes of WriteConfig survive its failure (mutant of WriteFails).
WriteFailsHalfway(a) ==
  /\ Event("disk")
  /\ GoA(a, "sqlite", "idle")
  /\ sqlite' = [t \in Hashed |-> 0]
  /\ dl' = [dl EXCEPT ![a] = NoDownload]
  /\ UNCHANGED <<cloudVars, wsVars, localHash, hashFile, compose, running>>

\* Opening or writing docker-compose.yml or committing the transaction fails:
\* applyConfig returns the error and syncConfig stops before it touches the hash.  A
\* compose file opened and not written stays torn.
WriteFails(a) ==
  /\ Event("disk")
  /\ apc[a] \in {"compose", "fill", "sqlite"}
  /\ apc' = [apc EXCEPT ![a] = "idle"]
  /\ dl' = [dl EXCEPT ![a] = NoDownload]
  /\ UNCHANGED <<cloudVars, wsVars, localHash, diskVars>>

\* The error of writing the hash file is dropped: the file keeps its content if it
\* could not be opened, and is empty if it could not be written.
SaveHashFails(a) ==
  /\ Event("disk")
  /\ GoA(a, "file", "idle")
  /\ hashFile' \in {hashFile, NoHash}
  /\ dl' = [dl EXCEPT ![a] = NoDownload]
  /\ UNCHANGED <<cloudVars, wsVars, localHash, sqlite, compose, running>>

\* Deploy logs its failure and returns; syncConfig goes on.
DeployFails(a) ==
  /\ Event("deploy")
  /\ GoA(a, "deploy", "local")
  /\ UNCHANGED <<cloudVars, wsVars, dl, localHash, diskVars>>

\* The agent restarts: New restores localHash from the file.  A crash in the
\* middle of os.WriteFile may leave the file empty.
AgentCrash ==
  /\ Event("crash")
  /\ apc' = [a \in Threads |-> "idle"]
  /\ dl' = [a \in Threads |-> NoDownload]
  /\ hashFile' \in {hashFile} \cup
                   (IF \E a \in Threads : apc[a] = "file" THEN {NoHash} ELSE {})
  /\ localHash' = hashFile'
  /\ connected' = FALSE /\ inbox' = <<>>
  /\ UNCHANGED <<cloudVars, sqlite, compose, running>>

\* A commit fails and leaves nothing.  Where the handler returns, what it committed
\* before stays and no digest is computed: a smart create whose sensor is refused
\* leaves its reader behind.
CommitFails(r) ==
  /\ Event("api")
  /\ rpc[r] \in {"begin", "edit"}
  /\ rtodo[r] # <<>>
  /\ \/ /\ "return" \in Head(rtodo[r]).onError
        /\ rpc' = [rpc EXCEPT ![r] = "idle"]
        /\ rtodo' = [rtodo EXCEPT ![r] = <<>>]
        /\ stranded' = (stranded \/ rpc[r] = "edit")
     \/ /\ "goOn" \in Head(rtodo[r]).onError
        /\ rtodo' = [rtodo EXCEPT ![r] = Tail(@)]
        /\ UNCHANGED <<rpc, stranded>>
  /\ UNCHANGED <<db, stateHash, rsnap, started, announced, wsVars, agentVars>>

\* recomputeConfigHash cannot read the readers or store the digest; its callers
\* discard the error.
RecomputeFails(r) ==
  /\ Event("api")
  /\ rpc[r] \in {"hash_readers", "store"}
  /\ rpc' = [rpc EXCEPT ![r] = "idle"]
  /\ stranded' = TRUE
  /\ UNCHANGED <<db, stateHash, rtodo, rsnap, started, announced, wsVars, agentVars>>

WSDrop ==
  /\ Event("wsdrop")
  /\ connected
  /\ connected' = FALSE /\ inbox' = <<>>
  /\ UNCHANGED <<cloudVars, agentVars>>

\* Where a handler has committed something and stored no digest of it.
Unannounced == {"edit", "hash_readers", "hash_telemetry", "store"}

\* The cloud process restarts: handlers stop where they are, what they
\* committed stays.
ApiCrash ==
  /\ Event("api")
  /\ rpc' = [r \in Requests |-> "idle"]
  /\ rtodo' = [r \in Requests |-> <<>>]
  /\ stranded' = (stranded \/ \E r \in Requests : rpc[r] \in Unannounced)
  /\ connected' = FALSE /\ inbox' = <<>>
  /\ UNCHANGED <<db, stateHash, rsnap, started, announced, agentVars>>

\* Command reload_config / update_sqlite: run by a goroutine between two syncs,
\* it empties the file and leaves Agent.localHash alone.
ReloadConfig ==
  /\ Event("reload")
  /\ \E a \in Threads : apc[a] = "idle"
  /\ hashFile' = NoHash
  /\ UNCHANGED <<cloudVars, wsVars, apc, dl, localHash, sqlite, compose, running>>

Next ==
  \/ \E r \in Requests : StartRequest(r) \/ RequestStep(r)
  \/ \E r \in Requests : CommitFails(r) \/ RecomputeFails(r)
  \/ ConnectWS \/ ReceivePush \/ PollState \/ Compare
  \/ \E a \in Threads :
       SyncStep(a) \/ CallFails(a) \/ WriteFails(a) \/ SaveHashFails(a) \/ DeployFails(a)
  \/ AgentCrash \/ WSDrop \/ ApiCrash \/ ReloadConfig

Spec == Init /\ [][Next]_vars

\* A handler that has started runs on, and the agent's loops keep looping; no
\* edit, connection, failure or command is owed.
Fairness ==
  /\ \A r \in Requests : WF_vars(RequestStep(r))
  /\ WF_vars(ReceivePush) /\ WF_vars(PollState) /\ WF_vars(Compare)
  /\ \A a \in Threads : WF_vars(SyncStep(a))

FairSpec == Spec /\ Fairness

(***************************************************************************)
(* Properties                                                              *)
(***************************************************************************)

Loaded == {"compose", "fill", "sqlite", "deploy", "local", "file"}

\* A configuration the agent has downloaded is never older than the digest it
\* came with, however many requests edit it meanwhile: syncConfigHandler reads
\* the digest before the tables.
DownloadCoversHash ==
  \A a \in Threads : apc[a] \in Loaded => Covers(dl[a].tab, dl[a].hash)

\* Neither the digest in memory nor the one on disk ever names a configuration
\* newer than the one in SQLite, through crashes, failed writes and restarts:
\* syncConfig advances them last.
HashNeverAhead == Covers(sqlite, localHash) /\ Covers(sqlite, hashFile)

\* The device never goes back to an older configuration, neither in SQLite nor in
\* what docker runs, which is never a torn file and never newer than a whole one:
\* applyConfig deploys only what it has written to the end.  The compose file itself
\* may be torn, by a crash or a failed write, until the next sync.
NoRollback ==
  [][ /\ \A t \in Hashed : sqlite[t] <= sqlite'[t]
      /\ running' # Torn /\ running <= running'
      /\ compose' # Torn => running' <= compose' ]_<<sqlite, compose, running>>

Quiet == \A r \in Requests : rpc[r] = "idle"

\* The stored digest is that of the tables as they are; there is none before the
\* first edit of a hashed table.
DigestExact ==
  \/ stateHash = [t \in Hashed |-> db[t]]
  \/ stateHash = NoHash /\ \A t \in Hashed : db[t] = 0

\* When no request is running, the stored digest is that of the tables as they
\* are, and the agent's comparison tells it the truth, unless a handler broke off
\* between a commit and the digest: then until the next digest is stored.
QuietHashExact == Quiet /\ ~stranded => DigestExact

\* The device has the configuration as it was when the cloud last stored a new
\* digest, or a later one, written and deployed.
CaughtUp ==
  /\ localHash = stateHash
  /\ \A t \in Hashed : announced[t] <= sqlite[t]
  /\ compose # Torn /\ announced["containers"] <= compose
  /\ running = compose

\* Edits being finitely many, the device catches up with all that the cloud has
\* announced, through lost calls, failed writes and crashes, and stays there.
Converges == <>[]CaughtUp

(***************************************************************************)
(* Inductive strengthenings used by ConfigSyncProofs                       *)
(***************************************************************************)

ReadersLoaded    == {"containers", "telemetry"} \cup Loaded
ContainersLoaded == {"telemetry"} \cup Loaded

\* Tables only move forward, so whatever was read from them is a lower bound.
DownloadInv ==
  /\ Covers(db, stateHash)
  /\ \A r \in Requests : \A t \in Hashed : rsnap[r][t] <= db[t]
  /\ \A a \in Threads :
       /\ Covers(db, dl[a].hash)
       /\ apc[a] \in ReadersLoaded =>
            dl[a].hash = NoHash \/ dl[a].hash["readers"] <= dl[a].tab["readers"]
       /\ apc[a] \in Loaded => Covers(dl[a].tab, dl[a].hash)

\* With one goroutine syncing, the files never overtake the download in hand, and
\* what runs is no newer than they are.
SyncInv ==
  /\ \A t \in Hashed : sqlite[t] <= db[t]
  /\ running \in Nat /\ running <= db["containers"]
  /\ compose # Torn => running <= compose /\ compose <= db["containers"]
  /\ \A a \in Threads :
       /\ \A t \in Tables : dl[a].tab[t] <= db[t]
       /\ apc[a] \in ReadersLoaded => sqlite["readers"] <= dl[a].tab["readers"]
       /\ apc[a] \in ContainersLoaded =>
            /\ running <= dl[a].tab["containers"]
            /\ compose # Torn => compose <= dl[a].tab["containers"]
       /\ apc[a] \in Loaded => sqlite["telemetry"] <= dl[a].tab["telemetry"]
       /\ apc[a] \in {"sqlite", "deploy"} => compose = dl[a].tab["containers"]
       /\ apc[a] \in {"deploy", "local", "file"} => \A t \in Hashed : sqlite[t] = dl[a].tab[t]
  /\ HashNeverAhead

\* With one request at a time, what recomputeConfigHash has read stays true.
RequestInv ==
  \A r \in Requests :
    /\ rpc[r] \in {"hash_telemetry", "store", "push"} =>
         rsnap[r]["readers"] = db["readers"]
    /\ rpc[r] \in {"store", "push"} => rsnap[r]["telemetry"] = db["telemetry"]
    /\ rpc[r] = "push" => stateHash = rsnap[r]
    /\ rpc[r] \in {"idle", "begin"} /\ ~stranded => DigestExact
=============================================================================
