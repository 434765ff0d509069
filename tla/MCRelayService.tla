---------------------------- MODULE MCRelayService ----------------------------
(* Two writes that overlap, and one of the requests that are refused, on an *)
(* output with a retry buffer and one without; packets of lines that just   *)
(* fit, do not fit, and need to be split, to backends of different MTU.     *)
EXTENDS RelayService

MCKind == [w1 |-> "write", w2 |-> "write", g |-> "badGzip", p |-> "ping",
           n |-> "noDatabase", u |-> "unparsable"]
MCLines == [a |-> <<3, 2, 4>>, b |-> <<6, 1>>, c |-> <<2>>, e |-> <<>>]
MCMTU == [small |-> 5, large |-> 7]
MCUdpBackends == <<"small", "large">>
MCTraffic ==
  {[relays |-> {"http"}, requests |-> {"w1", "w2"}, packets |-> {},
    interrupt |-> FALSE],
   [relays |-> {"http", "udp"}, requests |-> {"w1"}, packets |-> {"c"},
    interrupt |-> TRUE],
   [relays |-> {"http", "udp"}, requests |-> {"p", "n", "u", "g"}, packets |-> {},
    interrupt |-> TRUE],
   [relays |-> {"udp"}, requests |-> {}, packets |-> {"a", "b", "c"},
    interrupt |-> TRUE],
   [relays |-> {"udp"}, requests |-> {}, packets |-> {"a", "e"},
    interrupt |-> TRUE]}
MCNames == [http |-> "influx", udp |-> "metrics"]
==============================================================================
