------------------------------- MODULE Transfer -------------------------------
(***************************************************************************)
(* enterprise-influx-to-sql and the TP-API's ingest: every Poll ticks the  *)
(* service asks InfluxDB for the means of the last Lookback ticks, names   *)
(* the sensor of each by the map conf-agent keeps in SQLite, and posts     *)
(* them in batches that the cloud inserts.  Nothing remembers what was     *)
(* sent: a mean that a failed run leaves out is sent by a later run whose  *)
(* window still holds it.                                                  *)
(*                                                                         *)
(* A tick is half of the minute the means are grouped by.  A mean stands   *)
(* for the set of points it is taken over.                                 *)
(***************************************************************************)
EXTENDS Integers, SequencesExt

CONSTANTS
  Points,    \* points core-switch writes: [table, series, time]
  Tables,    \* InfluxDB.Tables, in order
  Maps,      \* contents telemetry_settings may have: key "device:reading" -> sensor id
  Normal,    \* per such key: the key with a "." for every ":"
  Exact,     \* per series: the key "device.reading" ...
  Wildcard,  \* ... "device.*" ...
  Device,    \* ... and "device"
  NoSensor,  \* the empty id of a mapping whose sensor is gone
  Invalid,   \* ids that are not a UUID
  Poll, Lookback, BatchSize, \* PollInterval, LookbackMins, batchSize
  MaxTime,   \* bound on the clock
  MaxFails,  \* bound on runs that fail and ticks that are lost
  MaxEdits   \* bound on edits of the map

Bucket == 2

ASSUME NumbersAssumption ==
  /\ Poll \in Nat \ {0} /\ Lookback \in Nat /\ BatchSize \in Nat \ {0}
  /\ MaxTime \in Nat /\ MaxFails \in Nat /\ MaxEdits \in Nat /\ Poll <= MaxTime + 1

\* A series of InfluxDB is of one table.
ASSUME DataAssumption ==
  /\ IsFiniteSet(Points) /\ Tables \in Seq(Range(Tables))
  /\ \A p \in Points : p.time \in Nat
  /\ \A p, q \in Points : p.series = q.series => p.table = q.table

VARIABLES
  now,      \* the clock
  nextTick, \* when the ticker fires next
  pending,  \* a tick waits in the ticker's channel
  tpc,      \* where main and Run stand
  end,      \* the end of the run's window
  table,    \* the next table to query
  smap,     \* the map this run has loaded
  readings, \* the readings of this run
  sentTo,   \* how many of them were posted
  influx,   \* points InfluxDB holds
  late,     \* history: points that came after the end of their bucket
  seen,     \* history: the contents of telemetry_settings, latest last
  edition,  \* history: which of them the run started under
  rows,     \* sensor_readings
  fails     \* failures so far

clockVars == <<now, nextTick, pending>>
runVars   == <<tpc, end, table, smap, readings, sentTo>>
envVars   == <<influx, late, seen>>
vars == <<clockVars, runVars, envVars, edition, rows, fails>>

SeriesOf == {p.series : p \in Points}
BucketOf(t) == t \div Bucket

\* loadFromSQLite writes "." for every ":" of a key: of keys that become the same, the one
\* that Go's map iteration happens to reach last names the sensor.
Normalised(raw) ==
  {m \in [{Normal[k] : k \in DOMAIN raw} -> Range(raw)] :
     \A n \in DOMAIN m : \E k \in DOMAIN raw : Normal[k] = n /\ m[n] = raw[k]}

TypeOK ==
  /\ now \in 0..MaxTime /\ nextTick \in now + 1..now + Poll /\ pending \in BOOLEAN
  /\ tpc \in {"ping", "idle", "query", "post"}
  /\ end \in 0..now /\ table \in 1..Len(Tables) + 1
  /\ smap = << >> \/ \E raw \in Maps : smap \in Normalised(raw)
  /\ sentTo \in 0..Len(readings)
  /\ influx \subseteq Points /\ late \subseteq influx
  /\ Range(seen) \subseteq Maps /\ edition \in 1..Len(seen)
  /\ fails \in 0..MaxFails

NoMap == << >>

Init ==
  /\ now \in 0..Poll - 1 /\ nextTick = now + Poll /\ pending = FALSE
  /\ tpc = "ping" /\ end = 0 /\ table = 1
  /\ smap = NoMap /\ readings = <<>> /\ sentTo = 0
  /\ influx = {} /\ late = {} /\ seen \in {<<m>> : m \in Maps} /\ edition = 1
  /\ rows = {} /\ fails = 0

Failing(n) == fails + n <= MaxFails /\ fails' = fails + n

(***************************************************************************)
(* Time, InfluxDB and conf-agent                                           *)
(***************************************************************************)

\* A tick passes.  The ticker's channel holds one tick: a run that takes longer
\* than Poll misses the others.
PassTick ==
  /\ now < MaxTime
  /\ now' = now + 1
  /\ pending' = (pending \/ (nextTick = now + 1 /\ tpc # "ping"))
  /\ nextTick' = IF nextTick = now + 1 THEN nextTick + Poll ELSE nextTick

\* A run that does not fail takes less than a tick ...
Advance ==
  /\ tpc = "idle" /\ ~pending
  /\ PassTick
  /\ UNCHANGED <<runVars, envVars, edition, rows, fails>>

\* ... and a request that hangs, or an InfluxDB that does not answer the pings
\* at the start, costs ticks.
Hang ==
  /\ tpc # "idle"
  /\ Failing(1) /\ PassTick
  /\ UNCHANGED <<runVars, envVars, edition, rows>>

\* A point reaches InfluxDB, on the tick it is stamped with or later.
Arrives(p) ==
  /\ p \notin influx /\ p.time <= now
  /\ influx' = influx \cup {p}
  /\ late' = IF BucketOf(now) > BucketOf(p.time) THEN late \cup {p} ELSE late
  /\ UNCHANGED <<clockVars, runVars, seen, edition, rows, fails>>

EditMap ==
  /\ Len(seen) <= MaxEdits
  /\ \E m \in Maps : m # Last(seen) /\ seen' = Append(seen, m)
  /\ UNCHANGED <<clockVars, runVars, influx, late, edition, rows, fails>>

(***************************************************************************)
(* transfer.Run                                                            *)
(***************************************************************************)

\* lookupSensor: the first of the three keys that is in the map decides, even
\* when it names no sensor any more.
Lookup(m, s) ==
  CASE Exact[s] \in DOMAIN m -> m[Exact[s]]
    [] Exact[s] \notin DOMAIN m /\ Wildcard[s] \in DOMAIN m -> m[Wildcard[s]]
    [] {Exact[s], Wildcard[s]} \cap DOMAIN m = {} /\ Device[s] \in DOMAIN m -> m[Device[s]]
    [] OTHER -> NoSensor

\* Run returns: its variables are gone.
Idle == tpc' = "idle" /\ readings' = <<>> /\ sentTo' = 0 /\ end' = 0 /\ table' = 1

LoadSensorMapOnce == IF smap = NoMap THEN Normalised(Last(seen)) ELSE {smap} \* (mutant of LoadSensorMap)
LoadSensorMap == Normalised(Last(seen))

\* The start of a run, at once after the first ping that is answered and then
\* on each tick; it is over when the map is empty or cannot be read.
StartRun ==
  /\ tpc = "ping" \/ (tpc = "idle" /\ pending)
  /\ pending' = FALSE
  /\ IF tpc = "ping" THEN nextTick' = now + Poll ELSE UNCHANGED nextTick
  /\ edition' = Len(seen)
  /\ \/ /\ smap' \in LoadSensorMap
        /\ IF smap' = NoMap THEN Idle
           ELSE tpc' = "query" /\ end' = now /\ UNCHANGED <<table, readings, sentTo>>
        /\ UNCHANGED fails
     \/ UNCHANGED smap /\ Idle /\ Failing(1)
  /\ UNCHANGED <<now, envVars, rows>>

\* One reading per series and bucket that has points in the window.
InWindowShort(t) == t > end - Lookback + Bucket /\ t < end \* (mutant of InWindow)
InWindow(t) == t >= end - Lookback /\ t < end

MeansOf(tbl) ==
  LET ps == {p \in influx : p.table = tbl /\ InWindow(p.time)}
      Reading(s, b) ==
        [series |-> s, bucket |-> b, sensor |-> Lookup(smap, s),
         mean |-> {p \in ps : p.series = s /\ BucketOf(p.time) = b}]
  IN {r \in {Reading(p.series, BucketOf(p.time)) : p \in ps} : r.sensor # NoSensor}

QueryTable ==
  /\ tpc = "query" /\ table <= Len(Tables)
  /\ table' = table + 1
  /\ \/ readings' = readings \o SetToSeq(MeansOf(Tables[table])) /\ UNCHANGED fails
     \/ UNCHANGED readings /\ Failing(1)
  /\ UNCHANGED <<clockVars, tpc, end, smap, sentTo, envVars, edition, rows>>

QueriesDone ==
  /\ tpc = "query" /\ table > Len(Tables)
  /\ IF readings = <<>> THEN Idle
     ELSE tpc' = "post" /\ UNCHANGED <<end, table, readings, sentTo>>
  /\ UNCHANGED <<clockVars, smap, envVars, edition, rows, fails>>

\* telemetryIngestHandler inserts a batch as one implicit transaction: a row it
\* refuses (an id that is not a UUID) undoes the others, and the answer is 200
\* all the same.  What is sent again is inserted again: rows says which rows there
\* are, not how often.
Ingest(batch) ==
  rows' = IF \E r \in batch : r.sensor \in Invalid THEN rows
          ELSE rows \cup {[series |-> r.series, bucket |-> r.bucket, mean |-> r.mean,
                           sensor |-> r.sensor, edition |-> edition] : r \in batch}

BatchEndUncapped == sentTo + BatchSize \* (mutant of BatchEnd)
BatchEnd == IF sentTo + BatchSize > Len(readings) THEN Len(readings) ELSE sentTo + BatchSize

\* A post that fails is only counted; so is one the database refused.
PostReadings ==
  /\ tpc = "post" /\ sentTo < Len(readings)
  /\ sentTo' = BatchEnd
  /\ \/ Ingest({readings[i] : i \in DOMAIN readings \cap (sentTo + 1..BatchEnd)}) /\ UNCHANGED fails
     \/ UNCHANGED rows /\ Failing(1)
  /\ UNCHANGED <<clockVars, tpc, end, table, smap, readings, envVars, edition>>

RunDone ==
  /\ tpc = "post" /\ sentTo = Len(readings)
  /\ Idle
  /\ UNCHANGED <<clockVars, smap, envVars, edition, rows, fails>>

\* The container is restarted and pings InfluxDB again.
Restart ==
  /\ tpc # "ping" /\ Failing(1)
  /\ tpc' = "ping" /\ readings' = <<>> /\ sentTo' = 0 /\ end' = 0 /\ table' = 1
  /\ smap' = NoMap
  /\ pending' = FALSE /\ nextTick' = now + Poll
  /\ UNCHANGED <<now, envVars, edition, rows>>

Next ==
  \/ Advance \/ Hang \/ EditMap
  \/ StartRun \/ QueryTable \/ QueriesDone \/ PostReadings \/ RunDone \/ Restart
  \/ \E p \in Points : Arrives(p)

Spec == Init /\ [][Next]_vars

(***************************************************************************)
(* Properties                                                              *)
(***************************************************************************)

\* What is sent of a series and a bucket ...
PointsOf(s, b) == {p \in Points : p.series = s /\ BucketOf(p.time) = b}

\* ... when all of it came in time, in a table of the configuration, its series was
\* mapped all along, and no id spoiled a batch.
Due(s, b) ==
  /\ PointsOf(s, b) # {} /\ PointsOf(s, b) \subseteq influx \ late
  /\ \A p \in PointsOf(s, b) : p.table \in Range(Tables)
  /\ \A raw \in Range(seen) : /\ \A m \in Normalised(raw) : Lookup(m, s) # NoSensor
                              /\ Range(raw) \cap Invalid = {}

Stored(s, b) == \E r \in rows : r.series = s /\ r.bucket = b /\ r.mean = PointsOf(s, b)

\* When Lookback has passed over a bucket, the cloud holds its whole mean, although
\* nothing records what was sent and up to MaxFails runs, batches or ticks failed.
Delivered ==
  \A s \in SeriesOf, b \in {BucketOf(p.time) : p \in Points} :
    Due(s, b) /\ now > b * Bucket + Lookback => Stored(s, b)

\* What a run stores, it stores under the sensor that telemetry_settings named when
\* the run began: an edit reaches every run after it without a restart.
MapFresh ==
  \A r \in rows : \E m \in Normalised(seen[r.edition]) : r.sensor = Lookup(m, r.series)

==============================================================================
