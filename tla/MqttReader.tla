------------------------------ MODULE MqttReader ------------------------------
(***************************************************************************)
(* mqtt-reader (main.go): a rule gives a sensor's reading the topic filter *)
(* it comes from.  Every connection subscribes to all filters; a message   *)
(* is handed to the handler once for each copy the broker sends and each   *)
(* filter the client library finds to match, and the handler looks at all  *)
(* the rules again, sending a batch for each sensor they concern.          *)
(*                                                                         *)
(* A filter or a topic is the sequence of its levels.                      *)
(***************************************************************************)
EXTENDS CoreSwitch, SequencesExt

CONSTANTS
  Topics,      \* topics messages are published on
  DollarLevels \* the levels that begin with "$"

\* Filters and topics; a published topic has no wildcards.  A rule has a topic of its
\* own (given, possibly empty) or leaves it to its sensor's.
Levels == Seq(STRING)
TopicRule == [sensor : STRING, given : BOOLEAN, filter : Levels, default : Levels]

ASSUME TopicsAssumption ==
  \A t \in Topics :
    t \in Levels /\ t # <<>> /\ \A i \in 1..Len(t) : t[i] \notin {"+", "#"}

VARIABLES
  rules,   \* the topic rules, {} when not deployed
  mqpc,    \* "off", "connect", "connected" (subscribing), "subscribed", "deaf"
           \* (connected, but the subscription failed), "message", "message:wait"
  granted, \* the filters the broker has accepted on this connection
  topic,   \* the topic of the message being handled
  calls,   \* calls of the handler this message still leads to, this one included
  batch    \* sensors whose batch is still to be sent in this call

mqttVars == <<rules, mqpc, granted, topic, calls, batch>>

Mqtt == "mqtt"

UniqueTopics == {r.filter : r \in rules}

MqttTypeOK ==
  /\ mqpc \in {"off", "connect", "connected", "subscribed", "deaf", "message",
               "message:wait"}
  /\ granted \subseteq UniqueTopics
  /\ topic \in Topics \cup {<<>>}
  /\ calls \in Nat
  /\ batch \subseteq {r.sensor : r \in rules}

\* A json_paths entry without a topic takes the sensor's; one whose topic is then
\* empty is skipped; a reader without rules ends.
Rules(sensors) ==
  LET WithTopic(s) == [s EXCEPT !.filter = IF s.given THEN @ ELSE s.default]
  IN  {r \in {WithTopic(s) : s \in ToSet(sensors)} : r.filter # <<>>}

MqttInit(sensors) ==
  /\ rules = Rules(sensors)
  /\ mqpc = IF rules = {} THEN "off" ELSE "connect"
  /\ granted = {} /\ topic = <<>> /\ calls = 0 /\ batch = {}

GoQ(from, to) == mqpc = from /\ mqpc' = to

(***************************************************************************)
(* The connection                                                          *)
(***************************************************************************)

\* One of the attempts ten seconds apart succeeds; later the library reconnects.
MqttConnects ==
  /\ GoQ("connect", "connected")
  /\ UNCHANGED <<coreVars, rules, granted, topic, calls, batch>>

\* The client library refuses a filter with "#" before its last level.
ValidFilter(f) == \A i \in 1..Len(f) : f[i] = "#" => i = Len(f)

\* OnConnect: all filters in one request.  The broker accepts some of them; the library
\* reports no error for those it refuses.
Subscribe(accepted) ==
  /\ \A f \in UniqueTopics : ValidFilter(f)
  /\ GoQ("connected", "subscribed")
  /\ granted' = accepted
  /\ UNCHANGED <<coreVars, rules, topic, calls, batch>>

\* An error is logged, and nothing tries again on this connection.
SubscribeFails ==
  /\ GoQ("connected", "deaf")
  /\ UNCHANGED <<coreVars, rules, granted, topic, calls, batch>>

ConnectionLost ==
  /\ mqpc \in {"connected", "subscribed", "deaf"}
  /\ mqpc' = "connect"
  /\ granted' = {}
  /\ UNCHANGED <<coreVars, rules, topic, calls, batch>>

(***************************************************************************)
(* Topics                                                                  *)
(***************************************************************************)

\* (mutant of MqttTopicMatch)
MqttTopicMatchLengthFirst(f, t) ==
  /\ Len(f) <= Len(t)
  /\ \/ \E i \in 1..Len(f) : f[i] = "#" /\ \A j \in 1..(i - 1) : f[j] \in {"+", t[j]}
     \/ Len(f) = Len(t) /\ \A j \in 1..Len(f) : f[j] \in {"+", t[j]}

\* The loop returns true at the first "#", false at the first level that differs or is
\* missing, and at the end compares the lengths.
MqttTopicMatch(f, t) ==
  LET Fits(j) == j <= Len(t) /\ f[j] \in {"+", t[j]}
      hashes  == {i \in 1..Len(f) : f[i] = "#"}
  IN  \/ f = t
      \/ \E i \in hashes : \A j \in 1..(i - 1) : Fits(j)
      \/ hashes = {} /\ Len(f) = Len(t) /\ \A j \in 1..Len(f) : Fits(j)

\* The match of the client library: "+" stands for one level and a final "#" for any
\* number of levels, its parent included.
LibraryMatches(f, t) ==
  LET Level(i) == f[i] = "+" \/ f[i] = t[i]
  IN  IF f # <<>> /\ Last(f) = "#"
        THEN Len(t) >= Len(f) - 1 /\ \A i \in 1..(Len(f) - 1) : Level(i)
        ELSE Len(t) = Len(f) /\ \A i \in 1..Len(f) : Level(i)

\* A leading wildcard and a topic that begins with "$".
WildOnDollar(f, t) == f[1] \in {"+", "#"} /\ t[1] \in DollarLevels

\* What MQTT defines, and the broker does: besides, a filter that begins with a wildcard
\* does not match a topic that begins with "$".
FilterMatches(f, t) == LibraryMatches(f, t) /\ ~WildOnDollar(f, t)

Fired(t) == {r \in rules : MqttTopicMatch(r.filter, t)}

(***************************************************************************)
(* Messages                                                                *)
(***************************************************************************)

\* A message on t: the broker sends one copy, or one for each subscription that
\* matches, and the library calls the handler once per copy and filter it finds to
\* match, whether the broker has accepted that filter or not.
Publish(t) ==
  LET matching == Cardinality({f \in granted : FilterMatches(f, t)})
      routes   == Cardinality({f \in UniqueTopics : LibraryMatches(f, t)})
  IN  /\ matching > 0
      /\ GoQ("subscribed", "message")
      /\ topic' = t
      /\ \E copies \in {1, matching} : calls' = copies * routes
      /\ batch' = {r.sensor : r \in Fired(t)}
      /\ UNCHANGED <<coreVars, rules, granted>>

\* handleMessage groups the readings by sensor and sends them, in any order.
SendSensor(s) ==
  /\ s \in batch
  /\ GoQ("message", "message:wait")
  /\ batch' = batch \ {s}
  /\ SendBatch(Mqtt, {"influxdb", "live"})
  /\ UNCHANGED <<rules, granted, topic, calls>>

\* The payload is no JSON, or does not hold what the rule asks for.
NoValue(s) ==
  /\ mqpc = "message" /\ s \in batch
  /\ batch' = batch \ {s}
  /\ UNCHANGED <<coreVars, rules, mqpc, granted, topic, calls>>

SensorSent ==
  /\ waiting[Mqtt] = 0
  /\ GoQ("message:wait", "message")
  /\ UNCHANGED <<coreVars, rules, granted, topic, calls, batch>>

\* The handler returns: to its next call, or to the next message.
HandlerReturns ==
  /\ mqpc = "message" /\ batch = {}
  /\ calls' = calls - 1
  /\ IF calls' = 0
       THEN mqpc' = "subscribed" /\ UNCHANGED batch
       ELSE batch' = {r.sensor : r \in Fired(topic)} /\ UNCHANGED mqpc
  /\ UNCHANGED <<coreVars, rules, granted, topic>>

MqttStep ==
  \/ MqttConnects \/ SubscribeFails \/ ConnectionLost \/ SensorSent \/ HandlerReturns
  \/ \E accepted \in SUBSET UniqueTopics : Subscribe(accepted)
  \/ \E t \in Topics : Publish(t)
  \/ \E r \in rules : SendSensor(r.sensor) \/ NoValue(r.sensor)

(***************************************************************************)
(* Properties                                                              *)
(***************************************************************************)

\* A message fires every rule whose filter matches its topic as MQTT defines it, and no
\* other: nothing the broker delivers is ignored and nothing is credited to a sensor that
\* did not ask for it.  The exception is a topic that begins with "$": delivered for one
\* rule, it also fires those with a leading wildcard, which MQTT keeps away from it.
FiredExactly ==
  calls > 0 =>
    /\ {r \in rules : FilterMatches(r.filter, topic)} \subseteq Fired(topic)
    /\ \A r \in Fired(topic) :
         FilterMatches(r.filter, topic) \/ WildOnDollar(r.filter, topic)
=============================================================================
