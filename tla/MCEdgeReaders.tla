----------------------------- MODULE MCEdgeReaders -----------------------------
(* Fleets for EdgeReaders small enough for TLC. *)
EXTENDS EdgeReaders

Nobody == [p \in Pollers |-> <<>>]
Quiet  == [modbus |-> <<>>, polled |-> Nobody, mqtt |-> <<>>, sqlite |-> None,
           csv |-> {}, faults |-> {}, device |-> None, down |-> {}]

Reg(eq, type, addr, wide) == [eq |-> eq, type |-> type, addr |-> addr, wide |-> wide]

\* Lists of register readings: every pair and triple of holding registers in a small
\* range, 16 and 32 bits wide; both types; a type the reader does not know.
Narrow == {Reg("a", "Holding", x, w) : x \in {0, 3}, w \in BOOLEAN}
Lists ==
  {<<q, r>> : q \in Narrow, r \in {Reg("b", "holding", x, w) : x \in {1, 3, 4}, w \in BOOLEAN}}
  \cup {<<q, Reg("b", "Holding", 2, w), Reg("a", "Holding", 5, TRUE)>> :
          q \in Narrow, w \in BOOLEAN}
  \cup {<<Reg("a", "input", 4, TRUE), Reg("b", "Holding", 4, TRUE), Reg("a", "Input", 1, FALSE)>>,
        <<Reg("a", "Holding", 5, FALSE), Reg("b", "HOLDING", 3, FALSE), Reg("a", "Holding", 1, TRUE)>>,
        <<Reg("a", "Holding", 3, FALSE), Reg("b", "HOLDING", 9, FALSE), Reg("a", "Holding", 4, TRUE),
          Reg("b", "Holding", 3, FALSE), Reg("a", "coil", 2, FALSE)>>,
        <<Reg("a", "Holding", 15, TRUE), Reg("b", "Holding", 14, FALSE)>>}

WithModbus(l) == [Quiet EXCEPT !.modbus = l, !.device = "up"]
ModbusFleets == {WithModbus(l) : l \in Lists}
\* One register or none, and everything that can fail around it.
AlertFleets ==
  {[WithModbus(<<Reg("a", "Holding", 0, FALSE)>>) EXCEPT !.faults = {"loss", "device"}],
   [WithModbus(<<>>) EXCEPT !.faults = {"loss", "device"}]}
\* Two senders of alerts at once.
ConFleets ==
  {[Quiet EXCEPT !.modbus = <<Reg("a", "Holding", 0, FALSE)>>, !.device = "down",
                 !.sqlite = {[name |-> "plc", alert |-> TRUE]}, !.down = {"plc"},
                 !.faults = {"crash"}],
   [Quiet EXCEPT !.sqlite = {[name |-> "plc", alert |-> TRUE]}, !.faults = {"peers", "loss"}],
   [Quiet EXCEPT !.csv = {[name |-> "ups", alert |-> FALSE]}, !.faults = {"peers"}]}

Sensor(n, a, m) == [name |-> n, addressed |-> a, mapped |-> m, ticks |-> FALSE]
Ups(n) == [Sensor(n, TRUE, TRUE) EXCEPT !.ticks = TRUE]
Polling(p, sensors) ==
  [Quiet EXCEPT !.polled = [Nobody EXCEPT ![p] = sensors], !.faults = {"influx"}]
PollFleets ==
  {Polling("snmp", <<Sensor("s1", FALSE, TRUE), Sensor("s2", TRUE, TRUE), Sensor("s3", TRUE, TRUE)>>),
   Polling("snmp", <<Sensor("s3", TRUE, TRUE), Ups("s4"), Sensor("s5", TRUE, TRUE)>>),
   Polling("snmp", <<Sensor("s1", TRUE, FALSE)>>),
   Polling("http", <<Sensor("h1", TRUE, TRUE), Sensor("h2", TRUE, TRUE)>>),
   Polling("opcua", <<Sensor("o1", FALSE, TRUE), Sensor("o2", TRUE, TRUE)>>)}

Rule(s, f) == [sensor |-> s, given |-> f # <<>>, filter |-> f, default |-> <<"x">>]
MqttFleets ==
  {[Quiet EXCEPT !.mqtt = <<Rule("m1", f), Rule("m2", g)>>] :
     f \in {<<"p", "#">>, <<"#">>, <<"p", "+">>, <<"+", "x">>, <<"#", "x">>, <<>>},
     g \in {<<"p", "x">>, <<"p">>, <<"+", "#">>, <<"p", "x", "#">>, <<"+", "+", "q">>}}
  \cup {[Quiet EXCEPT !.mqtt = <<Rule("m1", f), Rule("m2", <<"$SYS", "x">>),
                                [Rule("m3", <<>>) EXCEPT !.given = TRUE]>>] :
          f \in {<<"#">>, <<"+", "x">>, <<"$SYS", "#">>}}

AllFleets == ModbusFleets \cup AlertFleets \cup ConFleets \cup PollFleets \cup MqttFleets

AllTopics == {<<"p">>, <<"x">>, <<"p", "x">>, <<"q", "x">>, <<"p", "x", "q">>, <<"$SYS", "x">>}
AlertMode == [t \in {"cannot connect", "read error", "restored"} |->
                IF t = "restored" THEN 0 ELSE 1]
=============================================================================
