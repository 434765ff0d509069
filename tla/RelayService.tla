----------------------------- MODULE RelayService -----------------------------
(***************************************************************************)
(* influxdb-relay as a process (main.go, relay.go): the relays of the      *)
(* configuration run side by side until an interrupt stops them, and the   *)
(* process ends when the Run of each has returned.  Traffic is the relays  *)
(* that are configured, what they are sent in one behaviour, and whether   *)
(* the interrupt ever comes: [relays, requests, packets, interrupt].       *)
(***************************************************************************)
EXTENDS HttpRelay, UdpRelay

CONSTANTS
  Traffic,    \* the choices of configuration and of what is sent
  RelayNames  \* the configured name of "http" and of "udp"

ASSUME TrafficAssumption ==
  \A t \in Traffic :
    /\ t.relays \subseteq {"http", "udp"} /\ t.interrupt \in BOOLEAN
    /\ t.requests \subseteq Requests /\ t.packets \subseteq Packets

VARIABLES
  relays,   \* Service.relays
  proc,     \* where main stands
  hrun,     \* where HTTP.Run stands
  closing,  \* HTTP.closing: Stop was called
  sig,      \* where the goroutine that waits for the interrupt stands
  toStop,   \* the relays Stop has still to stop
  incoming  \* requests clients will still make

serviceVars == <<relays, proc, hrun, closing, sig, toStop, incoming>>
vars == <<httpVars, udpVars, serviceVars>>

TypeOK ==
  /\ HttpTypeOK /\ UdpTypeOK
  /\ proc \in {"making", "running", "exited", "fatal", "panic"}
  /\ hrun \in {"made", "failed", "serving", "returned"}
  /\ closing \in BOOLEAN
  /\ sig \in {"never", "waiting", "stopping", "stopped"}
  /\ toStop \subseteq relays
  /\ incoming \subseteq Requests

Init ==
  /\ \E t \in Traffic :
       /\ relays = t.relays /\ incoming = t.requests /\ inbox = t.packets
       /\ sig = IF t.interrupt THEN "waiting" ELSE "never"
  /\ HttpInit /\ UdpInit
  /\ proc = "making" /\ hrun = "made" /\ closing = FALSE
  /\ toStop = {}

\* New: an address that cannot be bound, a bad duration or two relays of the
\* same name are fatal.
New ==
  /\ proc = "making"
  /\ \/ proc' = "fatal"
     \/ /\ relays = {"http", "udp"} => RelayNames.http # RelayNames.udp
        /\ proc' = "running"
  /\ UNCHANGED <<httpVars, udpVars, relays, hrun, closing, sig, toStop, incoming>>

Running == proc = "running"

\* HTTP.Run: Listen, and keep the listener where Stop finds it ...
Serve ==
  /\ Running /\ "http" \in relays /\ hrun = "made" /\ hrun' = "serving"
  /\ UNCHANGED <<httpVars, udpVars, relays, proc, closing, sig, toStop, incoming>>

\* ... or fail to listen, or to load the certificate, and keep none.
ServeFails ==
  /\ Running /\ "http" \in relays /\ hrun = "made" /\ hrun' = "failed"
  /\ UNCHANGED <<httpVars, udpVars, relays, proc, closing, sig, toStop, incoming>>

\* Serve sees the listener closed.
HttpReturns ==
  /\ Running /\ hrun = "serving" /\ closing /\ hrun' = "returned"
  /\ UNCHANGED <<httpVars, udpVars, relays, proc, closing, sig, toStop, incoming>>

Interrupt ==
  /\ Running /\ sig = "waiting"
  /\ sig' = "stopping" /\ toStop' = relays
  /\ UNCHANGED <<httpVars, udpVars, relays, proc, hrun, closing, incoming>>

\* Service.Stop, relay by relay in the order of a map.  An HTTP relay that is
\* not listening yet, or could not, has no listener to close: a nil dereference.
LeftAfterReturn(k) == {} \* (mutant of LeftAfter)
LeftAfter(k) == toStop \ {k}

StopRelay(k) ==
  /\ Running /\ sig = "stopping" /\ k \in toStop
  /\ toStop' = LeftAfter(k)
  /\ sig' = IF LeftAfter(k) = {} THEN "stopped" ELSE sig
  /\ closing' = (closing \/ k = "http")
  /\ listening' = (listening /\ k # "udp")
  /\ proc' = IF k = "http" /\ hrun \in {"made", "failed"} THEN "panic" ELSE proc
  /\ UNCHANGED <<httpVars, upc, inbox, queueVars, datagrams, read, posted, relays, hrun, incoming>>

\* Service.Run returns once both relays have, and with it the process: handlers
\* and queued writes still in flight end there.
Exit ==
  /\ Running
  /\ "http" \in relays => hrun \in {"failed", "returned"}
  /\ "udp" \in relays => upc = "returned"
  /\ proc' = "exited"
  /\ UNCHANGED <<httpVars, udpVars, relays, hrun, closing, sig, toStop, incoming>>

\* A connection accepted while the relay listened brings requests as long as the
\* process runs.
Request(r) ==
  /\ Running /\ hrun \in {"serving", "returned"}
  /\ r \in incoming /\ incoming' = incoming \ {r}
  /\ RequestArrives(r)
  /\ UNCHANGED <<udpVars, relays, proc, hrun, closing, sig, toStop>>

HandlerRuns(r) == Running /\ HandlerStep(r) /\ UNCHANGED <<udpVars, serviceVars>>
PostRuns(r, b) == Running /\ PostStep(r, b) /\ UNCHANGED <<udpVars, serviceVars>>

\* The queue's only batch is popped before add reads the pointer to it: the post waits
\* on a nil batch, and its panic is the process's.
NoHandle(r, b) ==
  /\ Running /\ b \in Buffering /\ post[r][b] = "sending"
  /\ proc' = "panic"
  /\ UNCHANGED <<httpVars, udpVars, relays, hrun, closing, sig, toStop, incoming>>

UdpRuns == Running /\ "udp" \in relays /\ UdpStep /\ UNCHANGED <<httpVars, serviceVars>>

Stopping == \E k \in {"http", "udp"} : StopRelay(k)

Next ==
  \/ New \/ Serve \/ ServeFails \/ HttpReturns \/ Interrupt \/ Stopping \/ Exit
  \/ UdpRuns
  \/ \E r \in Requests :
       \/ Request(r) \/ HandlerRuns(r)
       \/ \E b \in HttpBackends : PostRuns(r, b) \/ NoHandle(r, b)

\* The steps goroutines take by themselves.  A post to an output ends, by its
\* timeout at the latest, and one that waits in a retry queue ends if its backend
\* ever comes back; a closed socket cannot be read but returns its error.
Work ==
  \/ Serve \/ HttpReturns \/ Stopping \/ Exit
  \/ /\ Running /\ "udp" \in relays
     /\ UdpRun \/ PosterStep \/ UdpReturns \/ (~listening /\ ReadPacketFails)
     /\ UNCHANGED <<httpVars, serviceVars>>
  \/ \E r \in Requests : HandlerRuns(r) \/ \E b \in HttpBackends : PostRuns(r, b)

\* Each request, packet and relay takes finitely many of these steps and none
\* disables another's, so that fairness to all together is fairness to each.
Fairness == WF_vars(Work)

Spec == Init /\ [][Next]_vars
FairSpec == Spec /\ Fairness

(***************************************************************************)
(* Properties                                                              *)
(***************************************************************************)

\* When the process ends by itself, every packet the UDP relay has read was
\* posted: Stop loses no packet it has already taken.
Drained == proc = "exited" => ToSet(read) \subseteq posted

\* The buffer of a write goes back to the pool, and the goroutines of its posts
\* end, whatever the handler answered first - unless the process ends before.
Released ==
  \A r \in {q \in Requests : Kind[q] = "write"} :
    (hpc[r] = "posting") ~> (r \in closed \/ ~Running)

\* An interrupt ends the process.
StopEnds == (sig = "stopping") ~> ~Running

==============================================================================
