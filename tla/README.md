# Qube Enterprise: a TLA+ model and its proofs

Qube Enterprise manages fleets of edge gateways ("Qubes"). A cloud server keeps
the configuration of every Qube and hands it out; an agent on each Qube
downloads it, writes it to a local SQLite database and a `docker-compose.yml`,
and runs the commands users send. Readers on the Qube collect measurements,
`core-switch` routes them to a local InfluxDB (through `influxdb-relay` where
there are several), and `enterprise-influx-to-sql` ships them to the cloud.

This directory specifies the parts whose correctness depends on the order in
which independent processes act. All source paths below are under `src/`.

## 1. The system

| Component | State | Operations | Talks to |
|---|---|---|---|
| Cloud API (`cloud/internal/api`) | PostgreSQL: qubes, readers, sensors, containers, telemetry_settings, registry_config, qube_commands, config_state | REST handlers; an edit that succeeds ends in `recomputeConfigHash` | database, hub |
| WebSocket hub (`wshub.go`, `websocket.go`) | map Qube -> client, a channel of 64 messages per client | Register, Unregister, SendTo, read and write pump | agents, database |
| Dashboard hub (`wshub.go`, `dashboard_ws.go`) | clients and their subscriptions | Subscribe, RelayToSubscribers | browsers |
| TP-API (`cloud/internal/tpapi`) | none of its own | sync/state, sync/config, heartbeat, commands/poll, commands/ack, device/register, telemetry/ingest | database |
| conf-agent | `localHash`, the `.config_hash` file, SQLite, `docker-compose.yml`, `wsAlive` | a poll goroutine and a WebSocket goroutine, both able to sync and to run commands | TP-API, hub, Docker |
| core-switch | map of recent alerts | batch, data, alerts, live forwarding | InfluxDB, conf-agent |
| influxdb-relay | per backend: a retry buffer | ServeHTTP, post, run; UDP relay | InfluxDB backends |
| enterprise-influx-to-sql | none between runs | query a window, map to sensors, post in batches | InfluxDB, TP-API |
| con-checker | a flag per connection | probe, alert on change | core-switch |
| readers (modbus, snmp, mqtt, opcua, http) | the sensors loaded at start | poll a device, send a batch | devices, core-switch |

What is hard in it:

* **Edits and downloads are sequences of separate SQL statements.** No
  transaction spans an edit and its digest, or a digest and the tables it
  answers for. Deleting the last sensor of a reader is a transaction, but counts
  what other transactions change; a claim is not even that.
* **The agent is two goroutines** that share its digest and files without a
  lock, and is restarted at any point.
* **A command has two ways to the device** (pushed, polled) and two ways back,
  each with its own UPDATE, some guarded by the current status and one not.
* **The hub names clients by Qube**, so what an old connection does at its end
  can hit the new one.
* **A Qube changes owner** while its agent holds the old token in memory, in
  `.env` and in the environment of the services it has deployed.
* **Locks and connections**: transactions that lock rows in opposite orders, a
  second connection taken inside a transaction, InfluxDB behind one mutex.
* **The relay answers before it is done**: the handler returns on the first good
  answer while other posts still read the buffer they share; the retry queue is
  shared by request goroutines and a retrying goroutine.
* **Nothing remembers what was sent**: the transfer service relies on windows
  that overlap; alerts are suppressed, lost and overtaken.
* **Errors are dropped** in many places (`tx.Exec`, `rows.Err`, deployment), and
  a handler that returns one may have committed something before.

What makes each part correct:

* *Synchronisation*: the device ends up with the configuration the cloud has
  announced; it never claims, by digest, to have more than it has; it never goes
  back.
* *Commands*: a command reaches an outcome, a recorded outcome is true and
  stays.
* *Rows*: what is committed hangs together under any requests; a deletion takes
  no more than it names; every request is answered.
* *Provisioning*: agent and services end under the token of the owner.
* *Relay*: what a client is told is true of the backends; no bytes of another
  request; accounts exact, order kept within a key; a stop loses nothing taken.
* *Telemetry*: a value comes from registers that were read, goes to the sensor
  that asked for it, and reaches the cloud although runs fail; one device or
  InfluxDB failing stops no other.
* *Alerts*: a device that stays down is heard of.

`PROJECT.json` lists every component and every hazard at its line.

## 2. Modules

| Module | Models | Checked by |
|---|---|---|
| `ConfigSync` | an edit's way from the API to the containers of one Qube | `MCConfigSync` (3 configurations), proofs in `ConfigSyncProofs` |
| `CommandDelivery` | a command's way to one Qube and back | `MCCommandDelivery` (2), proofs in `CommandDeliveryProofs` |
| `Provisioning` | a Qube's owner, token and services over claims | `MCProvisioning`, proofs in `ProvisioningProofs` |
| `CloudRows` | readers, containers, sensors, mappings under concurrent requests | `MCCloudRows`, proofs in `CloudRowsProofs` |
| `CoreSwitch` | core-switch and the client its senders share | |
| `ModbusReader`, `PollingReaders`, `MqttReader`, `ConChecker` | the readers and the connection checker; each EXTENDS `CoreSwitch` | |
| `EdgeReaders` | the composition of these five | `MCEdgeReaders`, proofs in `EdgeReadersProofs` |
| `HttpRelay`, `UdpRelay` | the two kinds of relay of influxdb-relay | |
| `RelayService` | the process they run in | `MCRelayService`, proofs in `RelayServiceProofs` |
| `RetryBuffer` | one backend's retry buffer in influxdb-relay | `MCRetryBuffer` (2), proofs in `RetryBufferProofs` |
| `WriteQueue` | what the retry buffer promises: a FIFO queue per key | refined by `RetryBuffer` |
| `Transfer` | enterprise-influx-to-sql and the ingest endpoint | `MCTransfer`, proofs in `TransferProofs` |

`MC*` modules only give names to constants. Operators whose comment says
"mutant" are wrong on purpose: each stands for a plausible bug and shows that a
property can tell. They are not part of `Next`.

How they fit: `ConfigSync` takes a reader, its sensors and its container as one
versioned table, `CloudRows` shows what the rows of such a table go through.
`HttpRelay` takes a buffered backend by its contract (a post is answered at
once, queued until it is, or refused), `RetryBuffer` is that backend.
`ModbusReader` and the others run against `CoreSwitch` itself. `Transfer` takes
from `CloudRows` the mapping that has lost its sensor.

### ConfigSync

*State.* `db` gives each table a version; `stateHash` is `config_state.hash`.
Per request: `rpc`, the commits left (`rtodo`), what `recomputeConfigHash` has
read (`rsnap`). `connected` and `inbox` are the hub's client and the digests on
their way. Per agent goroutine: `apc` and the download in hand (`dl`).
`localHash`, `hashFile`, `sqlite`, `compose`, `running` are the device; `Torn` is a
compose file not written to its end. `announced` and `stranded` are history: the
tables as they were when the stored digest last changed, and whether a handler has
ended between a commit and its digest since one was stored.

*A table's content is a version number and a digest is the function of the
versions it was computed from*: SHA-256 is taken to be collision-free. With
`Reverts = FALSE` an edit always makes a new content, so the numbers grow; with
`Reverts = TRUE` it may restore any earlier content, and the digest with it.

*Actions.* One per SQL statement or file write, in the code's order:

| Code | Actions |
|---|---|
| a mutating handler | `StartRequest`, `Edit` (one commit), `CommitFails`, `EndEdit` |
| `recomputeConfigHash` | `HashReaders`, `HashTelemetry`, `StoreHash`, `NotifyConfigChange`, `RecomputeFails` |
| `syncStateHandler`, `checkAndSync` | `PollState`, `Compare` |
| `config_push` on the socket | `ReceivePush` |
| `syncConfigHandler` | `LoadHash`, `LoadReaders`, `LoadContainers`, `LoadTelemetry` |
| `applyConfig`, `syncConfig` | `TruncateCompose`, `WriteCompose`, `WriteSQLite`, `Deploy`, `SetLocalHash`, `SaveHashFile`, `CallFails`, `WriteFails`, `DeployFails`, `SaveHashFails` |
| processes | `AgentCrash`, `ApiCrash`, `WSDrop`, `ReloadConfig` |

The endpoints are told apart by what they commit, in order, and by what they do when
a commit fails (`OpTables`): they return the error, and what they committed before
stays without a digest (`Checked`), they go on (`Dropped`), or one or the other
(`Either`). So `SmartCreate` may leave a reader and a container behind whose sensor
was refused (`sensors.go:440-447`), and `UpdateRegistry` some of its keys
(`registry.go:50`). `os.WriteFile` opens a file empty: `TruncateCompose` and
`WriteCompose` are its two halves for `docker-compose.yml`, and a failure or a
crash between them leaves the file torn. For the hash file the two halves are one
step, whose failure, or a crash in it, may leave the file empty.

*Left out.* Readers and sensors are one table, although `recomputeConfigHash`
and `loadReadersForQube` read sensors reader by reader: an edit between two of
those queries is seen as before or after the whole. The columns of
telemetry_settings that the digest does not see (aggregation) and the location
label behave as the registry settings do, an operation that commits "containers"
only: the device is not told (section 3, Assumptions).
coreswitch_settings (no endpoint edits it), the meta table,
config_version and last_seen are not modelled. Of a broken-off query the model
keeps only the extreme: nothing read (version 0). In updateRegistryHandler the
commits to many keys and containers are two. A hash file written in part is taken
for an empty one: neither is a digest the cloud stores.

### CommandDelivery

*State.* `status` is the row in qube_commands; `hub`, `send`, `closed` the hub
and its clients; `wpump`, `rpump`, `replying` the pumps; `link`, `down`, `up`
the socket; `alive` is the agent's `wsConn` while `wsAlive`; `wcmd`, `pcmd` what
each agent goroutine has run and not acknowledged; `ppc`, `polled` the poll.
`ran` is history.

*Actions.* `sendCommandHandler` is `Insert`, `FindClient`, `TrySend` or
`DropSlowClient` and `CloseSlowClient`, `MarkSent`: `SendTo` releases its lock
between lookup and send, so the client may be replaced meanwhile. A connection
is `Dial`, `Register`, `WriteMessage`, `ReadAck`, `ReadBeat`, `SendBeatAck` and
the two ends of its pumps. A poll is `BeginCycle` (the look at `wsAlive`; a heartbeat
call follows), `Select`, `MarkPolled`, `ExpireOld`, `ReceivePolled`, then `RunPolled`
and `AckPolled` per command. `Age` is five
minutes passing.

*Left out.* "executed" stands for executed and failed. A poll returns every open
command, not the first ten. A connection is opened once; a message written to a
dead connection is lost, one written to a live one arrives unless it is cut
first. config_push messages are in `ConfigSync`.

### Provisioning

*State.* `owner`, `readers`, `stored` are qubes.org_id, the readers and the
stored digest; `portal` the request each organisation has running; `apc` the
agent; `client`, `procEnv`, `envFile` the three places of its token; `deployed`
what runs, with the token the services were started under. A token is named by
the organisation whose secret made it.

*Actions.* `claimQubeHandler` is `Claim` (the check), `ClaimUpdate`,
`ClaimReset`; `unclaimQubeHandler` `Unclaim`, `UnclaimDelete`, `UnclaimReset`,
`UnclaimUpdate`; an edit `Edit`, `EditInsert`, `Recompute`; `updateQubeHandler`
`Update`, `Recompute`. The agent is `Boot`, `Healthy`, `Registered`,
`SaveToken`, `TokenReady` (`main.go`, `reRegister`), then `GetState` (with the
401), `WipeToken`, `GetConfig`, `ApplyConfig`, `SetLocalHash`, `SaveHash`. `Crash`
happens at any point, within a file the agent writes included; `SaveTokenFails`
(saving or wiping) and `SaveHashFails` are the errors that are only logged, or
dropped. As in the code, any organisation may unclaim a Qube that is claimed
(`qubes.go:305` does not ask by whom).

*Left out.* The three deletes of the unclaim are one (nothing reads between
them); SQLite and the push, which are in `ConfigSync`; deploy errors. A token
written in part is taken for none: TP-API refuses it, and the agent registers. A
digest written in part is taken for the empty one.

### CloudRows

*State.* The committed rows of four tables, and per request its next statement
(`pc`), what it asks for, the `readerID` of its handler, whether it holds a
connection and which rows its transaction has deleted. A row is named after the
request that inserts it.

*Actions.* One per statement: `Arrive` (the checks), `FindReader`, `Acquire` (a
connection), `InsertReader`, `ResolveImage` (over a second connection),
`CommitReader`, `InsertSensor`, `InsertMapping`; `DeleteSensor`, `Count`,
`DropContainer`, `DropReader`, `Cascade`, `CommitDelete`; the updates; and
`DeadlockVictim`. PostgreSQL at READ COMMITTED is modelled by `Blockers`: which
transactions hold a row, foreign key or unique key a statement needs.

*Left out.* recomputeConfigHash and the answer's text (`ConfigSync`);
updateSensor, which changes no relation; of several readers to share, any is
found (the oldest, in the code); updateMapping waits for its locks at once.

### CoreSwitch and the readers

*State.* `handler` holds the open handlers of each sender, those it has given up
on included; `lock` is writeLock with its queue; `recent` the map `Last`,
`forwards` the goroutines on their way to conf-agent, `heard` what arrived.
`ModbusReader` keeps the sorted readings, the place in `fetchData` and, for each
register, the number of the request that read it, so that a value is the
requests its registers came from. `PollingReaders` keeps for snmp-, http- and
opcua-reader the sensors loaded and the one being polled; `MqttReader` the topic
rules, the filters the broker has accepted and the message in hand; `ConChecker` the
connections and `Raised`.

*Actions.* `SendBatch`, `SendAlert`, `GiveUp` are the client; `QueueWrite`,
`BatchWrite`, `ForwardLive`, `AlertCheck`, `AlertStore` the handlers; `MapRace`
is the end a Go program may come to when a map is written beside another access.
`Connect`, `NextType`, `ReadBlock`, `SendGroup`, ... are `fetchData`, `StartSnmp`
... `Reported` the poll loops, `MqttConnects` ... `HandlerReturns` mqtt-reader,
`Check`, `NextRound` con-checker.

Three ends are in the actions because the code does not guard against them:
`PollSnmp` ends snmp-reader when a device answers a TimeTicks (`snmp.go:142` asserts
a `uint`, gosnmp gives a `uint32`), `PollOpcua` ends opcua-reader on a response
without results, and `MapRace` core-switch. A modbus-reader with no registers runs on:
it connects, and complains when it cannot.

*Topics.* `FilterMatches` is MQTT's definition, with its exception: a filter that
begins with a wildcard does not match a topic that begins with "$" (such as
`$SYS/...`). The broker goes by it; the client library (`LibraryMatches`) and
`mqttTopicMatch` do not. Shared subscriptions (`$share/...`) are left out.

*Left out.* What a register, OID, node or JSON path holds: a sensor answers or
does not. The points written; a handler's points and its live copy are one.
`Slots` bounds the handlers a sender may have abandoned.

### HttpRelay, UdpRelay and RelayService

*State.* Per request the handler, its answer, the 5xx it holds back, its posts,
the channel of responses, and its buffer; `pool` and `bytes` are the
sync.Pool and whose points each buffer holds. The UDP relay keeps the socket,
the packets on their way, the queue and the packet being posted. `RelayService`
adds `main` and the goroutine that waits for the interrupt.

*Actions.* `Refuse`, `StartPosts`, `Receive`, `NoneSucceeded`, `CloseResponses`
are `ServeHTTP`; `SendsOnce`, `SendsToQueue`, `QueueFull`, `BufferedAnswer`,
`Respond` its goroutines; `UdpRun`, `ReadPacket`, `ReadPacketFails`,
`TakePacket`, `SendDatagram`, `PacketDone`, `UdpReturns` the UDP relay; `New`,
`Serve`, `ServeFails`, `HttpReturns`, `Interrupt`, `StopRelay`, `NoHandle`, `Exit` the
process. `StopRelay` panics when the HTTP relay has no listener, be it not yet or
because `Listen` failed; `NoHandle` is the panic of `retry_handle` seen from here.

*A buffered backend* answers a write for the batch it waits on, which is not always
its own (`retry.go:199`): in `BufferedAnswer` `own` is what became of the write and
`told` what its client is to hear; where they differ, `misled` remembers it.

*Left out.* Parsing and rendering of points (a packet is the lengths of its
lines), TLS and dial settings. A packet read and its place in the queue are one
step: the one goroutine that reads does nothing else between. A listener that is
given up because accepting fails.

### RetryBuffer and WriteQueue

*State.* `buffering`, `list` and `size` as in the code; each writer's place,
the pointer `add` holds for it (`handle`) and its answer; the batch `run` has
popped; the answers of finished batches. `applied` is history. A batch is named
by the first write in it.

*Actions.* `post` is `LoadBuffering`, `DirectSucceeds`/`DirectFails`,
`StoreBuffering`, `Refuse`/`Add`, `ReadHandle`, `Wait`; `run` is `Sleep`, `Pop`,
`RetrySucceeds`/`RetryFails`, `Release`. `Add` is one step because it holds the
lock; `ReadHandle` is the read of `*cur` after it.

*Refinement.* `WriteQueue` has a queue of writes per key, a write that goes
through or is accepted, a queue whose first writes are finished together, and
answers. `KeyedQueue` says that `RetryBuffer` implements it: the queue of a key
is the writes of its batches that are not yet answered by the backend, in list
order, the popped batch first (`Unfinished`).

*Left out.* The back-off times. An attempt that fails counts as not stored.

### Transfer

*State.* The clock, the ticker and its channel of one tick; where `main` and
`Run` stand, the end of the window, the map loaded, the readings collected and
how many were posted; the points InfluxDB holds; the cloud's rows. `seen` and
`edition` are history: the contents of the map over time, and which of them the
run began under.

*Actions.* `StartRun` (first ping or tick, and the load of the map),
`QueryTable`, `QueriesDone`, `PostReadings` (with the ingest's transaction),
`RunDone`, `Restart`; `Advance` and `Hang` pass time; `Arrives`, `EditMap`.

*Keys.* `loadFromSQLite` keeps the keys of the map with "." for ":"
(`transfer.go:131`), `lookupSensor` asks for "device.reading". `Normalised` is the
set of maps this may give: where two keys become the same ("a.b" / "c" and "a" /
"b.c"), the one Go's iteration reaches last wins. A device or reading whose own name
has a ":" is never found, since the name asked for keeps it.

*Left out.* The mean itself: a mean is the set of points it is taken over. How often
a row is inserted: the ingest is a plain INSERT into a table without a unique key, so
what is sent again is there again, while `rows` says which rows there are. A map read
in part (`rows.Err` is not read, `sqlite/sqlite.go:43`), under which a series may
fall to its wildcard for a run. The map from a JSON file instead of SQLite.

## 3. What the runs check

Passing runs:

* **cs_fallback** - one request at a time, of every kind; the agent polls; calls are
  lost, commits, digests and file writes fail, the agent and the cloud crash (two
  such events at any point). `Converges`: the device ends with the configuration
  the cloud last announced, or a later one, written and deployed. `HashNeverAhead`:
  no digest names more than SQLite has. `NoRollback`: SQLite and what docker runs
  never go back, and a torn compose file is not run. `QuietHashExact`: the stored
  digest is that of the tables when no request runs and none has broken off since
  it was stored. 239,000 states.
* **cs_full** - two requests at once, both goroutines, every counted event.
  `DownloadCoversHash`: a download is at least as new as its digest, because
  `syncConfigHandler` reads the digest first. This is what makes a stale digest
  cost a second download and not an update missed. 1,500,000 states.
* **cmd_paths** - one command, two connections, any one failure, a channel of
  one, a heartbeat. `AckTruthful`, `OutcomeSticks`, `PollingSettles`,
  `LiveLinkDelivers`. 218,000 states.
* **prov** - two organisations, three claims and unclaims, readers created and the
  Qube edited, a stop of the agent or a failed save at any point. `Adopted`: a Qube that
  stays with an organisation comes to poll with its token. `ServicesSend`: once
  it has readers, its services run under that token too. 939,000 states.
* **rows** - any three of the requests on an empty Qube and on one with a reader,
  two sensors and a mapping, over two connections. `RowsSound`, `SensorKept`,
  `Answered`. 1,030,000 states.
* **readers** - 79 small fleets, each of one kind of reader (two for alerts) with
  the faults that concern it. `ValuesWhole` and `BlocksFit` (the blocks of
  modbus-reader tear no 32-bit value and ask for no more than they may),
  `FiredExactly` (mqtt-reader's matching is MQTT's, but for leading wildcards on
  topics that begin with "$"), `LockSound`, `DownIsHeard`,
  `SteadySensorsReported` (a device that answers keeps being reported while
  others fail and InfluxDB hangs). 51,000 states.
* **relay** - two overlapping writes to a plain and a buffered backend, requests
  that are refused, packets that fit, are split, do not fit or do not parse, a
  listener that fails, an interrupt at any time. `AnswersTrue`, `BytesStable`,
  `DatagramsSound`, `Drained`, `Released`, `StopEnds`. 217,000 states.
* **retry_queue** - two writes that do not fit a batch together, a smaller one
  that fits beside either, one of another key, a buffer too small for all, two
  failed attempts. `QueueSound`, `BytesNotReused`, `AckedIsStored`,
  `EveryWriteAnswered`, and `KeyedQueue`, the refinement of `WriteQueue`. 480,000
  states.
* **transfer** - the service's defaults on two series in two tables, with late
  points, an edit of the map, two keys that become one, and any three failures.
  `Delivered`: when the window has passed, the cloud has the whole mean.
  `MapFresh`: under a sensor the map named for it when the run began. 3,190,000
  states.

Runs that find the code at odds with what it says (`PROJECT.json`, findings):

* **cs_two_loops** - `Converges` fails with both goroutines: the older download
  is written last under the newer digest.
* **cmd_stuck** - `EveryCommandSettles` fails with one connection and no
  failure at all.
* **retry_handle** - `HandleValid` fails: `add` dereferences a popped list.

### Bounds

* `ConfigSync`: `MaxRequests` is 2, as a race needs an edit during a download and
  one before it. An operation makes at most four commits, to three tables, so
  versions are bounded too. `MaxEvents` is 2: a failure during the recovery from
  a failure. It does not count "query" and "stmt", which are choices inside
  another action. Channels have capacity 1, so that they fill.
* `CommandDelivery`: one command, as its properties speak of one each; two
  connections are the least for a replacement.
* `Provisioning`: three claims and unclaims are the least for a Qube that changes
  hands (claim, unclaim, claim), and let two claims cross; two readers let an old and a new configuration differ; one stop, since
  a stop leaves nothing but `.env` and the digest behind. The failures share the
  bound.
* `CloudRows`: three requests are the least for a deletion, a creation that
  meets it and a third that waits for either; one of them at most is an update
  (`MaxSmall`). Two connections stand for the pool (pgxpool's default is four or
  the number of processors): the least at which a second connection can be had,
  and at which it can be missing. Names, endpoints and protocols are those that
  collide and those that do not.
* Readers: addresses wrap at 16, two registers a request (`SingleReadCount`),
  four by protocol; the lists have every pair of 16- and 32-bit values within
  and across a block. Two handlers per sender: one abandoned, one new.
* Relay: two backends, one of each kind; two buffers for two writes; a queue of
  two for three packets, so that it fills (the code's is 1024).
* `RetryBuffer`: four writes, because a batch must be skipped, filled and
  overtaken.
* `Transfer`: the code's minute, interval and window, in ticks of thirty seconds
  (`Poll` 2, `Lookback` 10, to `MaxTime` 11); three failures are all that a
  window of five runs can be asked to bear beside the lost edge; batches of two
  (1000 in the code, `transfer.go:25`), so that one is cut.

### Fairness

`ConfigSync`: a handler that has started goes on, and the agent keeps polling,
reading its socket and finishing its syncs - the loops of `pollLoop`, `readWS`
and `ServeHTTP`. Nothing is assumed of users, failures or reconnections.
`CommandDelivery`: each goroutine runs when it can; ping and pong deadlines make
the pumps notice a dead connection. No connection is owed: `PollingSettles`
speaks of the time the agent takes its socket for down, `LiveLinkDelivers` of
a connection until its end.
`Provisioning`: systemd restarts the agent, which polls on a ticker and retries
its registration; a handler that has started ends.
`CloudRows`: a request that can go on does; a request has finitely many steps.
Readers: tickers tick, handlers run, a client's ten seconds pass
(`SteadySensorsReported` assumes nothing of InfluxDB). `DownIsHeard` assumes
that not every complaint is lost (strong fairness of its way to conf-agent) and
that `IgnoreInterval` passes.
Relay: goroutines run; a post to a backend ends, by its timeout at the latest,
and a queued one when its backend comes back.
`RetryBuffer`: some goroutine that can step does; attempts that fail are
bounded, that is, the backend answers at some point.

### Assumptions a reader should know

* *What is announced.* A digest that is recomputed and differs from the stored one
  announces all the tables at that moment. Some edits get none, and the device is
  not told of them until another edit's does: those of columns the digest leaves out
  (registry settings, images, `hash.go:90`); those of a handler that returns an error
  after a first commit (a smart create whose sensor is refused, `sensors.go:440-447`,
  which leaves a reader and its container; the registry's keys, `registry.go:50`);
  those whose digest fails, an error every caller drops; those a restart of the cloud
  cuts off. The models have them all. `Converges` is therefore about what was
  announced, and `QuietHashExact` holds from the next stored digest on.
* `QuietHashExact` needs one request at a time. With two, the request that read
  first may store last: TLC finds it at once.
* `Converges` is checked without "deploy" (a failed deployment is logged and
  not repeated, so it fails), without "query" and "stmt", and without edits that
  restore an earlier content (a download between such an edit and its digest is not
  repeated).
* `NoRollback` is about SQLite and what runs. `docker-compose.yml` itself does go
  back: a write that fails or a crash in it leaves it empty or in part
  (`agent.go:407`). It stays so until the next sync, which follows because the digest
  has not advanced: `Converges` says that the file is whole in the end. Nothing but
  the agent deploys it.
* `HashNeverAhead` is checked without "stmt": `sqlite.go:75` ignores the errors
  of a transaction's statements and commits.
* `ServicesSend` is for portal requests that do not overlap. With two claims at
  once (`test/test_api.sh:184` expects a 409) both succeed, and the reset of the
  later may erase the digest of the other's edit.
* `Answered` excepts `Starved`: every connection held by a transaction that
  needs a second one to resolve an image. TLC reaches it; nothing in the code
  ends it.
* `RowsSound` lets a mapping have no sensor: the foreign key empties sensor_id
  before the handler's own DELETE looks for it. `SensorKept` lets a deletion
  take sensors created since the request arrived.
* `ValuesWhole` excepts a 32-bit value in which another reading begins;
  `BlocksFit` a list with a register type the reader does not know.
* `Delivered` is for series mapped all along, points that are not late, and maps
  without an id that is not a UUID (one undoes its whole batch, which is answered
  200 and counted as sent). It asks for the whole mean, not for one row: the
  overlap of the windows inserts each mean about five times, and the partial means
  of the window's edges beside them. `enterprise-influx-to-sql/README.md:188` calls
  the fixed window idempotent; the table has no key that would make it so
  (`telemetry.go:57`).
* `AnswersTrue` excepts a queued write whose post was told the answer of a later
  batch while its own had the opposite (`misled`): the client hears 204 for points
  that were rejected, or a 4xx for points that are stored. It takes a backend that
  rejects.
* `Released` takes each queued write to be popped at some time, which one of size 0
  is not (`retry.go:145`).
* `FiredExactly` excepts rules with a leading wildcard on topics that begin with "$",
  which fire when another rule has the broker deliver such a topic
  (`mqtt-reader/main.go:273-291`).
* `SteadySensorsReported` is about the SNMP devices listed before any that answers a
  TimeTicks: that one ends snmp-reader in every round, and those behind it are never
  reported.
* `AckedIsStored` is checked with a backend that answers 2xx or fails. With a
  backend that may reject a batch it is false: through the pointer read at
  `retry.go:199` a writer may wait for a later batch and be told its answer.
* `EveryWriteAnswered` is false with a write of size 0, which `pop` never sees
  (`retry.go:145`).
* `OutcomeSticks` excepts the handler's own UPDATE (`commands.go:127`), which
  looks at the id only and does take an outcome back.

### Seen on the way

Behaviour of the code that the modules have as it is and no doc contradicts:

* influxdb-relay: a body that is not gzip panics the handler (`relay/http.go:154`,
  no return after the error); an interrupt before the listener is open, or after it
  could not be opened, dereferences nil (`relay/http.go:110`).
* opcua-reader indexes a response without results (`opcua-reader/main.go:193`) and
  ends; snmp-reader ends on a TimeTicks (`snmp/snmp.go:142`).
* mqtt-reader whose subscription failed stays connected and deaf
  (`mqtt-reader/main.go:152`), and does not notice a filter the broker refused; its
  "#" rule fires on `$SYS` messages that another rule has asked for.
* modbus-reader: a misspelt register_type is skipped and sends "0" for ever
  (`modbus.go:202`), an empty one is indexed and panics (`modbus.go:72`).
* core-switch answers an error of InfluxDB with 200 (`core-switch/http/http.go:99`).
* Cloud: a failed automatic mapping is only logged (`sensors.go:160`); a smart create
  that fails half-way leaves a reader the device is not told of (`sensors.go:440-447`);
  a second endpoint of a protocol cannot be created without a name
  (`sensors.go:577`: it is given the name of the first, and names are unique).
* enterprise-influx-to-sql: a mapping without a sensor hides the wildcard behind it
  (`transfer.go:162`), and a name with a ":" is never found (`transfer.go:131`).

## 4. What is proved

Eight modules hold theorems that TLAPS proves for all constants that satisfy the
assumptions declared beside them: any number of requests, connections, writers
or senders, any sizes and limits. They state every invariant and every action
property the passing runs check, and that `RetryBuffer` implements `WriteQueue`.
None of the properties is inductive as it stands; each proof is that of a
stronger invariant.

What a function defined along a sequence computes - a sum, an insertion sort, the
addresses without their repetitions, a concatenation - is proved by induction
over the naturals: `SetInduction` derives the principle for a set from the
well-foundedness of `<` (a theorem that takes the predicate as an operator could
not be used), and the definitions are recursive functions, which the provers can
unfold (`Iterated` gives them their recursion equation).

### ConfigSyncProofs

| Theorem | Property | Under |
|---|---|---|
| `TypeCorrect` | `TypeOK` | - |
| `DownloadsCoverTheirHash` | `DownloadCoversHash` | no reverts, no broken-off query |
| `DigestNeverAhead` | `HashNeverAhead` | also: at most one syncing goroutine, no dropped statement |
| `ConfigurationNeverOlder` | `NoRollback` | the same |
| `DigestExactBetweenRequests` | `QuietHashExact` | one request at a time, no broken-off query |

* `DownloadInv`: without reverts versions only grow, so what anybody has read is
  a lower bound of `db`: the stored digest, every request's snapshot and every
  digest in hand are covered by the tables. A table loaded after the digest is
  therefore at least as new as it; the invariant says so table by table as the
  download proceeds.
* `SyncInv`, with one goroutine: SQLite, what runs and a whole compose file never
  overtake the download in hand, table by table from the moment it is loaded; once
  written they equal it. Together with `DownloadInv` this gives `HashNeverAhead`
  when the digest is advanced, and each write is a step forward (`NoRollback`). A
  file may be torn wherever the goroutine is not between its end and the
  deployment, so what is deployed is whole.
* `RequestInv`, with one request: what `recomputeConfigHash` has read stays
  equal to the tables until it has stored the digest, and before its first commit
  the digest is exact unless an earlier handler broke off.

The run `cs_fallback` checks the same properties on an instance that satisfies
the assumptions; `cs_two_loops` shows what happens with a second goroutine.

### CommandDeliveryProofs

| Theorem | Property |
|---|---|
| `TypeCorrect` | `TypeOK` |
| `AckIsTruthful` | `AckTruthful` |
| `OutcomesStick` | `OutcomeSticks` |

* `PlaceInv`: a handler past its lookup has a client that has been registered,
  so the send it goes on to is to a real channel.
* `AckInv`: wherever an acknowledgement is - in a goroutine of the agent, on its
  way up, in the list a poll has run - the agent has run its command before.
  `ran` never shrinks, not even in a restart, which loses the rest.
* `FreshInv`: only a command that was inserted has a status, so an INSERT
  overwrites no outcome.

### RelayServiceProofs

| Theorem | Property |
|---|---|
| `TypeCorrect` | `TypeOK` |
| `AnswersAreTrue` | `AnswersTrue` |
| `BytesAreStable` | `BytesStable` |
| `StopDrains` | `Drained` |
| `DatagramsAreSound` | `DatagramsSound` |

* *Buffers.* A buffer is in the pool, or held by exactly one request whose
  responses are not closed; its bytes are that request's. A post reads it only
  while its request holds it (`http.go` gives it back after the last post, not
  when the handler returns), so what a backend stores is the request's own.
* *Answers.* The result of each post that is done is in the channel, held back,
  or was an error that sends nothing; when the channel is closed and empty without
  a verdict, all that is left is what was held back. A result is what became of the
  write, or `misled` has it (`Results`).
* *Packets.* Each packet read is queued, in the worker's hand or posted; the
  process waits for the worker, which ends when the closed queue is empty.
* *Datagrams.* `ReadsInv`: a packet is read once, and the queue is what was read
  and not yet taken, in order. `SentInv`: datagrams are of packets taken; of the
  one in hand, the backends to come have none, and the one it is being sent to has
  every line before the next. So the next datagram either begins a packet, read
  after all its backend has had, or goes on where the last one ended. A line
  that does not fit, or a write that fails, ends the packet for that backend, hence
  no gap. That a
  datagram fits is a fact about the sum `Length`. Both need that a packet comes once
  and that each configured output is a backend of its own (`MTUAssumption`), as
  `udp.go` makes one per output.

### RetryBufferProofs

| Theorem | Property | Under |
|---|---|---|
| `TypeCorrect` | `TypeOK` | - |
| `BytesAreNotReused` | `BytesNotReused` | - |
| `AckedWritesAreStored` | `AckedIsStored` | a backend that rejects nothing |
| `QueueIsSound` | `QueueSound` | - |
| `ImplementsWriteQueue` | `KeyedQueue` | a backend that rejects nothing |

* `SizeInv`: the batches account for `size`: some function counts down from
  `size` to 0 along the list, batch by batch. `Add` and `Pop` give the next one.
* `PlaceInv`: only the write of a post that has not returned is in a batch.
* `HandleInv`: the batch a post waits for is its write's own or one behind it.
  The pointer `add` reads without the lock may have moved on, but only past
  batches that are finished. With `PlaceInv` the bytes are free when post returns.
* `StoredInv`: a write waited for is in the list, being posted, or stored; when
  the batch waited for is answered, so is every batch before it.
* `SoundInv`: each batch has one key, the sum of its writes and, unless it is a
  single write, no more than `MaxBatch`; of two batches of one key, the earlier is
  full, so that `add` never fills a batch with another of its key behind it.
  `TotalIs` turns the function of `SizeInv` into the sum of `QueueSound`.
* *Refinement.* The queue of a key is the concatenation of its batches, the one
  being posted first. A write that is buffered is appended to it wherever `add`
  puts it, as no later batch has its key; a batch that `run` has finished is its
  first piece; `pop` moves that batch from the list to `run` and is a stutter.
  `ReplyInv`: the batch a post waits for is queued, being posted, or answered.
  Every other step stutters. The assumption cannot be dropped: with rejections a
  writer can be given the answer of a batch behind its own (`AckedIsStored`,
  section 3), and `WriteQueue` forbids a success for what is not stored.

### EdgeReadersProofs

| Theorem | Property |
|---|---|
| `LockIsSound` | `LockSound` |
| `FiredIsExact` | `FiredExactly` |
| `ValuesAreWhole` | `ValuesWhole` |
| `RequestsFit` | `BlocksFit` |
| `TypeCorrect` | `TypeOK` |

* `CoreInv`: types of the handlers, and `LockSound` itself. The holder is the
  head of the queue and the only handler that leaves `BatchWrite`; senders that
  give up, alerts, readers and faults move no handler into or out of it, and a
  restart empties both.
* `MqttInv`: the rules have the filters the client library accepts whenever a message
  is handled. For these, `mqttTopicMatch`, which walks the levels, is the library's
  match (`LibraryMatches`), which is MQTT's but for `WildOnDollar`.
* `ModbusInv`, for the values. `Sorted` orders the readings by type and address
  (`RecsSound`), so `Addrs` of a type lists its addresses upwards, each once
  (`AddrsSound`). `BlockPlace` and `RegsRead`: at each block, every reading before
  it has been read in this cycle, a 32-bit one in a single request, because a
  block that ends in one is longer by a register; when a batch is sent, all have.
  A block's addresses span at most `SingleReadCount`, hence `BlocksFit`.
  The order is all that is used of the sort: for more than twelve readings
  `sort.Slice` is another algorithm, which may put equal addresses differently.
* Both are stated for lists whose register types the reader knows. Others compare
  equal or not by their first letter only, so that the order is none, and blocks
  may be empty or huge. A request must not wrap around the address space:
  `ReadLimit <= AddrSpace - 2`, in the code 125 and 65536.
* `PollInv`, `CoreTypesInv`: each reader's position lies in what it has loaded; an
  alert on its way has a text.

### CloudRowsProofs

| Theorem | Property |
|---|---|
| `RowsAreSound` | `RowsSound` |
| `DeletionsAreNamed` | `SensorKept` |

* `FreshInv`: nothing names a reader before its insertion commits.
* `KeyInv`: an insertion under way has its key for itself. It waits for every
  other insertion of that key, and finds what has committed.
* `Held`, `Exclusive`: what a deletion holds, by where it stands. From
  `DropReader` on it has its reader's container if there is one, and nobody else
  has it, so reader and container go together; when it commits, it has locked
  every sensor of a reader it deletes, and `InsertSensor` waits for it before
  adding another.
* `PoolInv`: a connection is acquired only while one is free.
* `Named`, `SensorFresh`, for `SensorKept`: what a deletion has locked is the
  sensor its request names, or came later. When `Count` finds no sensor left, it
  has locked all there are; whatever is inserted between that and the cascade
  belongs to a request whose sensor nobody can have seen before.

### ProvisioningProofs

| Theorem | Property |
|---|---|
| `TypeCorrect` | `TypeOK` |

* A counter that an edit in flight has raised numbers its reader; the agent polls,
  downloads and deploys only with a token, because `AfterHealth` leads on only
  with one and a 401 leads back to the registration.

### TransferProofs

| Theorem | Property |
|---|---|
| `TypeCorrect` | `TypeOK` |
| `MapsAreFresh` | `MapFresh` |
| `Delivers` | `Delivered` |

* `RunInv`: while a run is under way its map is one that telemetry_settings, as it was
  when it began, may give (`Normalised`), and every reading it has collected was named by that map; no reading
  outlives its run. `RowsInv`: so with what is stored, whatever is edited later.
* `MeansFinite`, `Listed`: a query returns finitely many means, so that
  `SetToSeq` lists just these.
* `DueInv`, for `Delivers`: a bucket that is due and not stored will be, by the run
  under way (`UnderWay`: its window is past the bucket, and the table is still to be
  queried or the mean to be posted) or by one that starts in time. `Deadline`
  weighs the failures against the window: the first run that sees the whole bucket
  starts within a `Poll` of its end, a failure costs at most another `Poll`, and
  a run in progress may still fail, which is the `n` of `Deadline(b, n)`.
* `Delivers` assumes `Poll * (MaxFails + 1) < Lookback`, room in the window for the
  failures and the run that succeeds. The defaults, one minute and five,
  leave room for three failures; the run `transfer` has just these. The bound is
  tight: with `MaxFails = 4` TLC finds a bucket that is lost, and nothing sends it
  again.

The runs of section 3 check all these properties on small instances, with the
same constants' assumptions.

## 5. Only model-checked

Liveness: `Converges`, `PollingSettles`, `LiveLinkDelivers`, `Adopted`,
`ServicesSend`, `Answered`, `DownIsHeard`, `SteadySensorsReported`, `Released`,
`StopEnds` and `EveryWriteAnswered`. Fairness and ENABLED are out of the prover's
reach, so these stay with TLC. Where a theorem has a hypothesis, that it is
needed is not proved either: TLC finds the counterexample when the constant is
changed (two goroutines, two requests, a backend that rejects, a fourth failure).

## 6. Not modelled

* The dashboard hub: live values to browsers, lost without consequence when a
  channel is full.
* Accounts, roles and tokens of the portal, templates, protocols: requests of
  one statement on rows no other handler keeps a copy of.
* The agent's local web interface: it runs scripts on the host and shows their
  output.
* Parsing, rendering, image names, the text of `docker-compose.yml`, logging,
  metrics and the content of measurements.
* The test UI, scripts, learning path and sample data.

PostgreSQL, SQLite, InfluxDB, Docker and the Go runtime are trusted to do what
the code relies on (a commit is atomic and durable, a channel is a bounded
queue, a mutex excludes).

## 7. Plan

All subsystems with behaviour over time are modelled, and the safety properties
of the runs are proved. Left, in this order:

1. **An abstract register** that the device's configuration catches up with,
   implemented by `ConfigSync`.
2. **Action properties** that say more about single steps: which writes a
   restart of core-switch loses, what a claim may change.
3. **Composition** of `HttpRelay` with `RetryBuffer` itself instead of its
   contract, and of `CommandDelivery` with `ConfigSync` through reload_config.
4. **Dashboard hub**, should its subscriptions come to matter.
