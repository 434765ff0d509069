---------------------------- MODULE PollingReaders ----------------------------
(***************************************************************************)
(* snmp-reader, http-reader and opcua-reader: each loads its sensors once, *)
(* at start, leaves out those whose configuration is of no use, and polls  *)
(* the others one after the other on every tick, sending a batch for each  *)
(* that gave at least one value.                                           *)
(*                                                                         *)
(* Whether a sensor answers a poll, the environment decides; which of the  *)
(* OIDs, JSON paths or nodes it answers for only matters when it is none.  *)
(***************************************************************************)
EXTENDS CoreSwitch, SequencesExt

CONSTANT Steady  \* sensors that always answer

\* A sensor: addressed, whether it has the address its reader needs; mapped, whether
\* it names at least one thing to read there; ticks, whether one of its OIDs is a
\* TimeTicks (such as sysUpTime).
PolledSensor == [name : STRING, addressed : BOOLEAN, mapped : BOOLEAN, ticks : BOOLEAN]

VARIABLES
  fleet,  \* per reader: the sensors SQLite lists for it, by name
  loaded, \* per reader: the sensors it polls, <<>> before it has started
  ppc,    \* per reader: where it stands
  at      \* per reader: the position of the sensor it polls

pollVars == <<fleet, loaded, ppc, at>>

Pollers == {"snmp", "http", "opcua"}

PollTypeOK ==
  /\ ppc \in [Pollers -> {"start", "idle", "poll", "wait", "exited", "off"}]
  /\ \A r \in Pollers : /\ at[r] \in 1..(Len(loaded[r]) + 1)
                        /\ ToSet(loaded[r]) \subseteq ToSet(fleet[r])

PollInit(sensors) ==
  /\ fleet = sensors
  /\ loaded = [r \in Pollers |-> <<>>]
  /\ ppc = [r \in Pollers |-> IF sensors[r] = <<>> THEN "off" ELSE "start"]
  /\ at = [r \in Pollers |-> 1]

GoP(r, from, to) == ppc[r] = from /\ ppc' = [ppc EXCEPT ![r] = to]

(***************************************************************************)
(* main: loading                                                           *)
(***************************************************************************)

\* LoadDevices, and the targets of http-reader: a host or a url, and something to read.
HasTarget(r) == {s \in ToSet(fleet[r]) : s.addressed /\ s.mapped}
\* The sensors of opcua-reader: the address is the reader's own.
HasNodes(r) == {s \in ToSet(fleet[r]) : s.mapped}

\* The loop that appends the sensors of use.
Loaded(sensors, usable) ==
  LET kept[i \in 0..Len(sensors)] ==
        IF i = 0 THEN <<>>
        ELSE IF sensors[i] \in usable THEN Append(kept[i - 1], sensors[i]) ELSE kept[i - 1]
  IN  kept[Len(sensors)]

Starts(r, usable) ==
  /\ loaded' = [loaded EXCEPT ![r] = Loaded(fleet[r], usable)]
  /\ GoP(r, "start", IF loaded'[r] = <<>> THEN "exited" ELSE "poll")
  /\ at' = [at EXCEPT ![r] = 1]
  /\ UNCHANGED <<coreVars, fleet>>

StartSnmp == Starts("snmp", HasTarget("snmp"))
StartHttp == Starts("http", HasTarget("http"))
StartOpcua == Starts("opcua", HasNodes("opcua"))

\* opcua-reader ends when it cannot connect.
OpcuaConnectFails ==
  /\ GoP("opcua", "start", "exited")
  /\ UNCHANGED <<coreVars, fleet, loaded, at>>

\* The restart policy runs a container that ended again.
RunAgain(r) ==
  /\ GoP(r, "exited", "start")
  /\ UNCHANGED <<coreVars, fleet, loaded, at>>

(***************************************************************************)
(* The poll loop                                                           *)
(***************************************************************************)

Tick(r) ==
  /\ GoP(r, "idle", "poll")
  /\ at' = [at EXCEPT ![r] = 1]
  /\ UNCHANGED <<coreVars, fleet, loaded>>

Polled(r) == loaded[r][at[r]]

\* On to the next sensor; after the last one the reader waits for its ticker.
Advance(r) ==
  /\ at' = [at EXCEPT ![r] = @ + 1]
  /\ ppc' = [ppc EXCEPT ![r] = IF at[r] < Len(loaded[r]) THEN "poll" ELSE "idle"]
  /\ UNCHANGED <<fleet, loaded>>

Report(r) ==
  /\ GoP(r, "poll", "wait")
  /\ SendBatch(r, {"influxdb"})
  /\ UNCHANGED <<fleet, loaded, at>>

\* (mutant of NoAnswer)
NoAnswerEndsRound(r) ==
  /\ ppc[r] = "poll" /\ Polled(r).name \notin Steady
  /\ ppc' = [ppc EXCEPT ![r] = "idle"]
  /\ at' = [at EXCEPT ![r] = 1]
  /\ UNCHANGED <<coreVars, fleet, loaded>>

\* The request fails, or answers nothing that becomes a value: on to the next.
NoAnswer(r) ==
  /\ ppc[r] = "poll" /\ Polled(r).name \notin Steady
  /\ Advance(r)
  /\ UNCHANGED coreVars

\* poll: the variables of the response that are known OIDs become readings.  A TimeTicks
\* comes as a uint32 and is asserted to be a uint: the process ends.
PollSnmp ==
  \/ NoAnswer("snmp")
  \/ ppc["snmp"] = "poll" /\ ~Polled("snmp").ticks /\ Report("snmp")
  \/ /\ GoP("snmp", "poll", "exited")
     /\ Polled("snmp").ticks
     /\ UNCHANGED <<coreVars, fleet, loaded, at>>

\* pollEndpoint: any status below 300 with valid JSON, and the paths found in it.
PollHttp ==
  \/ NoAnswer("http")
  \/ ppc["http"] = "poll" /\ Report("http")

\* pollOPCUA: one read per node, a failed one is left out; a response without results
\* is indexed all the same, and the process ends.
PollOpcua ==
  \/ NoAnswer("opcua")
  \/ ppc["opcua"] = "poll" /\ Report("opcua")
  \/ /\ GoP("opcua", "poll", "exited")
     /\ Polled("opcua").name \notin Steady
     /\ UNCHANGED <<coreVars, fleet, loaded, at>>

Reported(r) ==
  /\ waiting[r] = 0
  /\ ppc[r] = "wait"
  /\ Advance(r)
  /\ UNCHANGED coreVars

PollStep(r) ==
  \/ r = "snmp" /\ (StartSnmp \/ PollSnmp)
  \/ r = "http" /\ (StartHttp \/ PollHttp)
  \/ r = "opcua" /\ (StartOpcua \/ PollOpcua)
  \/ RunAgain(r) \/ Tick(r) \/ Reported(r)

\* Tickers tick and requests end: in an answer, an error or a timeout.
PollFairness ==
  \A r \in {"snmp", "http"} :
    WF_pollVars(PollStep(r)) /\ WF_coreVars(GiveUp(r)) /\ HandlersRun(r)

(***************************************************************************)
(* Properties                                                              *)
(***************************************************************************)

\* The reader of n polls it before any device that ends the reader.
Polls(n) ==
  \/ \E s \in HasTarget("http") : s.name = n
  \/ \E i \in 1..Len(fleet["snmp"]) :
       /\ fleet["snmp"][i].name = n /\ fleet["snmp"][i] \in HasTarget("snmp")
       /\ \A j \in 1..i : fleet["snmp"][j] \in HasTarget("snmp") => ~fleet["snmp"][j].ticks
Reporting(n) == \E r \in {"snmp", "http"} : ppc[r] = "wait" /\ Polled(r).name = n

\* Of the devices one snmp-reader or http-reader polls, those that answer keep being
\* reported, whatever the others do and though InfluxDB hangs for ever behind
\* core-switch: no failure, timeout or lock stops the round.  What does stop it is an
\* SNMP device that answers a TimeTicks: only those before it in the list are safe from
\* the reader's ending and starting over.
SteadySensorsReported ==
  \A n \in Steady : Polls(n) => []<>Reporting(n) /\ []<>(~Reporting(n))
=============================================================================
