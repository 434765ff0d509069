------------------------------ MODULE EdgeReaders ------------------------------
(***************************************************************************)
(* The readers of a Qube around its core-switch.  Which of them run, and   *)
(* what they are configured with, is chosen once from Fleets.              *)
(***************************************************************************)
EXTENDS ModbusReader, PollingReaders, MqttReader, ConChecker

CONSTANTS
  Fleets \* records: modbus, the register readings; polled, the sensors per poller;
         \* mqtt, the topic rules; sqlite and csv, the connections; faults, what may go
         \* wrong: "crash", "loss", "influx", "device", "peers"; device (None
         \* without a modbus-reader) and down, how the servers begin

ASSUME SendersAssumption ==
  /\ {Modbus, Mqtt, Con} \cup Pollers \subseteq Senders
  /\ {"cannot connect", "read error", "restored"} \subseteq Texts

ASSUME FleetsAssumption ==
  \A f \in Fleets : /\ f.modbus \in Seq(Reading) /\ f.device \in {"up", "down", "mute", None}
                   /\ f.polled \in [Pollers -> Seq(PolledSensor)]
                   /\ f.mqtt \in Seq(TopicRule)

VARIABLE faults

vars == <<coreVars, modbusVars, pollVars, mqttVars, conVars, faults>>

TypeOK == CoreTypeOK /\ ModbusTypeOK /\ PollTypeOK /\ MqttTypeOK /\ ConTypeOK

Init ==
  \E f \in Fleets :
    /\ CoreInit("influx" \in f.faults)
    /\ ModbusInit(f.modbus, f.device)
    /\ PollInit(f.polled)
    /\ MqttInit(f.mqtt)
    /\ ConInit(f.sqlite, f.csv, f.down)
    /\ faults = f.faults

ModbusNext == ModbusStep /\ UNCHANGED <<pollVars, mqttVars, conVars, faults>>
PollNext ==
  /\ OpcuaConnectFails \/ \E r \in Pollers : PollStep(r)
  /\ UNCHANGED <<modbusVars, mqttVars, conVars, faults>>
MqttNext == MqttStep /\ UNCHANGED <<modbusVars, pollVars, conVars, faults>>
ConNext == ConStep /\ UNCHANGED <<modbusVars, pollVars, mqttVars, faults>>
CoreNext ==
  CoreStep /\ UNCHANGED <<modbusVars, pollVars, mqttVars, conVars, faults>>

Faults ==
  \/ /\ "crash" \in faults /\ MapRace
     /\ UNCHANGED <<modbusVars, pollVars, mqttVars, conVars, faults>>
  \/ /\ "loss" \in faults
     /\ \E a \in Alerts : ForwardLost(a)
     /\ UNCHANGED <<modbusVars, pollVars, mqttVars, conVars, faults>>
  \/ /\ \E x \in {"up", "down", "hung"} : InfluxBecomes(x)
     /\ UNCHANGED <<modbusVars, pollVars, mqttVars, conVars, faults>>
  \/ /\ "device" \in faults
     /\ \E x \in {"up", "down", "mute"} : DeviceBecomes(x)
     /\ UNCHANGED <<pollVars, mqttVars, conVars, faults>>
  \/ /\ "peers" \in faults
     /\ \E c \in cons : PeerChanges(c)
     /\ UNCHANGED <<modbusVars, pollVars, mqttVars, faults>>

Next == ModbusNext \/ PollNext \/ MqttNext \/ ConNext \/ CoreNext \/ Faults

Spec == Init /\ [][Next]_vars

FairSpec == Spec /\ ModbusFairness /\ PollFairness

(***************************************************************************)
(* Properties of the readers and core-switch together                      *)
(***************************************************************************)

\* A Modbus device that stays out of reach, or that accepts connections but no longer
\* answers the reads there are, is complained about again and again, so that a complaint reaches
\* conf-agent in the end: alerts may be suppressed as repetitions, lost, or overtaken
\* by an older "restored", but not all of them for ever.
DownIsHeard ==
  <>[](device = "down" \/ (device = "mute" /\ recs # <<>>)) => []<>(heard[Modbus] = 1)
=============================================================================
