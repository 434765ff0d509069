--------------------------- MODULE CommandDelivery ---------------------------
(***************************************************************************)
(* How a command sent from the dashboard reaches one Qube and how its      *)
(* outcome comes back.                                                     *)
(*                                                                         *)
(* The API stores the command, then tries the hub's WebSocket client; the  *)
(* agent runs what the socket brings and, only while it believes its       *)
(* socket is down, what TP-API's poll returns.  The hub, the two pumps of  *)
(* each connection, the API handlers and the agent's two goroutines all    *)
(* run concurrently.                                                       *)
(*                                                                         *)
(* "executed" stands for both outcomes, executed and failed.  The columns  *)
(* last_seen, ws_connected and sent_at, written along the way, are only    *)
(* displayed and are left out.                                             *)
(***************************************************************************)
EXTENDS Naturals, SequencesExt

CONSTANTS
  Commands,  \* commands a user may send, each once
  Conns,     \* WebSocket connections the agent may open, each once
  None,
  Events,    \* what may go wrong, a subset of EventKinds
  ChanCap,   \* capacity of WSClient.send (64 in the code)
  MaxBeats,  \* bound on WebSocket heartbeats
  MaxEvents  \* bound on Events

\* The network cuts a connection, an HTTP reply or acknowledgement is lost, the
\* agent or the cloud process restarts.
EventKinds == {"cut", "lost", "crash", "restart"}

ASSUME NoneAssumption == None \notin Commands \cup Conns
ASSUME EventsAssumption == Events \subseteq EventKinds
ASSUME BoundsAssumption ==
  ChanCap \in Nat \ {0} /\ MaxBeats \in Nat /\ MaxEvents \in Nat

VARIABLES
  status,  \* qube_commands.status, "none" before the insert
  hpc,     \* per command: where sendCommandHandler stands
  target,  \* per command: the client SendTo looked up
  hub,     \* WSHub.clients[qube]
  send,    \* per connection: the channel WSClient.send
  closed,  \* connections whose WSClient is closed
  wpump,   \* connections whose write pump runs
  rpump,   \* connections whose read pump runs
  replying, \* connections whose read pump is sending a heartbeat_ack
  link,    \* per connection: "unused", "dialled", "up" or "cut"
  down,    \* per connection: commands on their way to the agent
  up,      \* per connection: acknowledgements and heartbeats on their way back
  alive,   \* the connection the agent takes for up: wsConn while wsAlive
  wcmd,    \* the command the WebSocket goroutine has run and not acknowledged
  ppc,     \* where the poll goroutine, or its request, stands
  polled,  \* the commands it has still to run, in any order
  pcmd,    \* the command it has run and not acknowledged
  old,     \* commands created more than five minutes ago
  ran,     \* history: commands the agent has run
  beats, events

handlerVars == <<hpc, target>>
pumpVars    == <<closed, wpump, rpump, replying>>
wireVars    == <<link, down, up>>
agentVars   == <<alive, wcmd, ppc, polled, pcmd, ran>>
boundVars   == <<old, beats, events>>
vars == <<status, handlerVars, hub, send, pumpVars, wireVars, agentVars, boundVars>>

Beat == "beat"
Open == {"pending", "sent"}
Status == {"none", "executed", "timeout"} \cup Open
HandlerPC == {"idle", "find", "try", "close", "mark", "replied"}
PollPC == {"idle", "asked", "mark", "expire", "reply", "run", "ack"}

TypeOK ==
  /\ status \in [Commands -> Status]
  /\ hpc \in [Commands -> HandlerPC]
  /\ target \in [Commands -> Conns \cup {None}]
  /\ hub \in Conns \cup {None}
  /\ send \in [Conns -> Seq(Commands \cup {Beat})]
  /\ \A c \in Conns : Len(send[c]) <= ChanCap
  /\ closed \subseteq Conns /\ wpump \subseteq Conns
  /\ rpump \subseteq Conns /\ replying \subseteq rpump
  /\ link \in [Conns -> {"unused", "dialled", "up", "cut"}]
  /\ down \in [Conns -> Seq(Commands)]
  /\ up \in [Conns -> Seq(Commands \cup {Beat})]
  /\ alive \in Conns \cup {None} /\ wcmd \in Commands \cup {None}
  /\ ppc \in PollPC /\ polled \subseteq Commands /\ pcmd \in Commands \cup {None}
  /\ old \subseteq Commands /\ ran \subseteq Commands
  /\ beats \in 0..MaxBeats /\ events \in 0..MaxEvents

Init ==
  /\ status = [m \in Commands |-> "none"]
  /\ hpc = [m \in Commands |-> "idle"] /\ target = [m \in Commands |-> None]
  /\ hub = None
  /\ send = [c \in Conns |-> <<>>]
  /\ closed = {} /\ wpump = {} /\ rpump = {} /\ replying = {}
  /\ link = [c \in Conns |-> "unused"]
  /\ down = [c \in Conns |-> <<>>] /\ up = [c \in Conns |-> <<>>]
  /\ alive = None /\ wcmd = None /\ ppc = "idle" /\ polled = {} /\ pcmd = None
  /\ old = {} /\ ran = {} /\ beats = 0 /\ events = 0

(***************************************************************************)
(* sendCommandHandler and WSHub.SendTo                                     *)
(***************************************************************************)

GoH(m, from, to) == hpc[m] = from /\ hpc' = [hpc EXCEPT ![m] = to]

Insert(m) ==
  /\ GoH(m, "idle", "find")
  /\ status' = [status EXCEPT ![m] = "pending"]
  /\ UNCHANGED <<target, hub, send, pumpVars, wireVars, agentVars, boundVars>>

\* IsConnected, and SendTo's lookup under the read lock.
FindClient(m) ==
  /\ GoH(m, "find", IF hub = None THEN "replied" ELSE "try")
  /\ target' = [target EXCEPT ![m] = hub]
  /\ UNCHANGED <<status, hub, send, pumpVars, wireVars, agentVars, boundVars>>

\* A send that does not look at the channel's capacity (mutant of TrySend).
TrySendUnbounded(m) ==
  /\ GoH(m, "try", "mark")
  /\ send' = [send EXCEPT ![target[m]] = Append(@, m)]
  /\ UNCHANGED <<status, target, hub, pumpVars, wireVars, agentVars, boundVars>>

\* The send itself holds no lock: the client may have been replaced meanwhile.
TrySend(m) ==
  /\ hpc[m] = "try" /\ Len(send[target[m]]) < ChanCap
  /\ GoH(m, "try", "mark")
  /\ send' = [send EXCEPT ![target[m]] = Append(@, m)]
  /\ UNCHANGED <<status, target, hub, pumpVars, wireVars, agentVars, boundVars>>

\* Channel full: Unregister, which removes whichever client is registered ...
DropSlowClient(m) ==
  /\ hpc[m] = "try" /\ Len(send[target[m]]) = ChanCap
  /\ GoH(m, "try", "close")
  /\ hub' = None
  /\ UNCHANGED <<status, target, send, pumpVars, wireVars, agentVars, boundVars>>

\* ... then Close on the one that was slow.
CloseSlowClient(m) ==
  /\ GoH(m, "close", "replied")
  /\ closed' = closed \cup {target[m]}
  /\ UNCHANGED <<status, target, hub, send, wpump, rpump, replying, wireVars, agentVars,
                 boundVars>>

\* UPDATE ... SET status='sent', whatever the status is by now.
MarkSent(m) ==
  /\ GoH(m, "mark", "replied")
  /\ status' = [status EXCEPT ![m] = "sent"]
  /\ UNCHANGED <<target, hub, send, pumpVars, wireVars, agentVars, boundVars>>

HandlerStep(m) ==
  \/ FindClient(m) \/ TrySend(m) \/ DropSlowClient(m) \/ CloseSlowClient(m) \/ MarkSent(m)

(***************************************************************************)
(* A WebSocket connection: wsHandler and its two pumps                     *)
(***************************************************************************)

\* The agent's dial returns once the upgrade is done, before Register.
Dial(c) ==
  /\ alive = None /\ wcmd = None /\ link[c] = "unused"
  /\ link' = [link EXCEPT ![c] = "dialled"]
  /\ alive' = c
  /\ UNCHANGED <<status, handlerVars, hub, send, pumpVars, down, up, wcmd, ppc, polled,
                 pcmd, ran, boundVars>>

\* Register closes the client it replaces.
Replaced(c) == {hub} \ {None, c}

Register(c) ==
  /\ link[c] = "dialled"
  /\ link' = [link EXCEPT ![c] = "up"]
  /\ hub' = c
  /\ closed' = closed \cup Replaced(c)
  /\ wpump' = wpump \cup {c} /\ rpump' = rpump \cup {c}
  /\ UNCHANGED <<replying, status, handlerVars, send, down, up, agentVars, boundVars>>

CutLink(c) == link' = [link EXCEPT ![c] = "cut"]

\* The pump takes the message and forgets to write it (mutant of WriteMessage).
DropMessage(c) ==
  /\ c \in wpump /\ send[c] # <<>>
  /\ send' = [send EXCEPT ![c] = Tail(@)]
  /\ UNCHANGED <<status, handlerVars, hub, pumpVars, wireVars, agentVars, boundVars>>

\* A heartbeat_ack has no effect on the agent.  Written to a connection that is
\* cut, a message is lost.
WriteMessage(c) ==
  /\ c \in wpump /\ send[c] # <<>>
  /\ send' = [send EXCEPT ![c] = Tail(@)]
  /\ down' = IF link[c] = "up" /\ Head(send[c]) # Beat
             THEN [down EXCEPT ![c] = Append(@, Head(send[c]))] ELSE down
  /\ UNCHANGED <<status, handlerVars, hub, pumpVars, link, up, agentVars, boundVars>>

\* The write pump ends: client.done, or a write or ping that fails.
WritePumpEnds(c) ==
  /\ c \in wpump
  /\ c \in closed \/ link[c] = "cut"
  /\ wpump' = wpump \ {c}
  /\ CutLink(c)
  /\ UNCHANGED <<status, handlerVars, hub, send, closed, rpump, replying, down, up,
                 agentVars, boundVars>>

\* The UPDATE looks at the id only (mutant of ReadAck).
ReadAckUnguarded(c) ==
  /\ c \in rpump /\ up[c] # <<>> /\ Head(up[c]) # Beat /\ c \notin replying
  /\ up' = [up EXCEPT ![c] = Tail(@)]
  /\ status' = [status EXCEPT ![Head(up[c])] = "executed"]
  /\ UNCHANGED <<handlerVars, hub, send, pumpVars, link, down, agentVars, boundVars>>

\* handleIncomingMessage, "command_ack".
ReadAck(c) ==
  /\ c \in rpump /\ up[c] # <<>> /\ Head(up[c]) # Beat /\ c \notin replying
  /\ up' = [up EXCEPT ![c] = Tail(@)]
  /\ status' = [status EXCEPT ![Head(up[c])] = IF @ \in Open THEN "executed" ELSE @]
  /\ UNCHANGED <<handlerVars, hub, send, pumpVars, link, down, agentVars, boundVars>>

\* handleIncomingMessage, "heartbeat".
ReadBeat(c) ==
  /\ c \in rpump /\ up[c] # <<>> /\ Head(up[c]) = Beat /\ c \notin replying
  /\ up' = [up EXCEPT ![c] = Tail(@)]
  /\ replying' = replying \cup {c}
  /\ UNCHANGED <<status, handlerVars, hub, send, closed, wpump, rpump, link, down, agentVars,
                 boundVars>>

\* The reply waits for room in the channel, and the read pump with it.
SendBeatAck(c) ==
  /\ c \in replying
  /\ Len(send[c]) < ChanCap
  /\ send' = [send EXCEPT ![c] = Append(@, Beat)]
  /\ replying' = replying \ {c}
  /\ UNCHANGED <<status, handlerVars, hub, closed, wpump, rpump, wireVars, agentVars, boundVars>>

\* The read fails: Unregister by Qube, which removes whichever client is
\* registered, and close the connection.
ReadPumpEnds(c) ==
  /\ c \in rpump /\ c \notin replying /\ link[c] = "cut"
  /\ rpump' = rpump \ {c}
  /\ hub' = None
  /\ UNCHANGED <<status, handlerVars, send, closed, wpump, replying, wireVars, agentVars,
                 boundVars>>

ConnStep(c) ==
  \/ Register(c) \/ WriteMessage(c) \/ WritePumpEnds(c)
  \/ ReadAck(c) \/ ReadBeat(c) \/ SendBeatAck(c) \/ ReadPumpEnds(c)

(***************************************************************************)
(* conf-agent's WebSocket goroutine                                        *)
(***************************************************************************)

SendHeartbeat ==
  /\ alive # None /\ beats < MaxBeats
  /\ beats' = beats + 1
  /\ up' = IF link[alive] = "cut" THEN up ELSE [up EXCEPT ![alive] = Append(@, Beat)]
  /\ UNCHANGED <<status, handlerVars, hub, send, pumpVars, link, down, agentVars, old, events>>

\* handleWSMessage, "command": run it ...
RunReceived ==
  /\ alive # None /\ wcmd = None /\ down[alive] # <<>>
  /\ wcmd' = Head(down[alive])
  /\ ran' = ran \cup {wcmd'}
  /\ down' = [down EXCEPT ![alive] = Tail(@)]
  /\ UNCHANGED <<status, handlerVars, hub, send, pumpVars, link, up, alive, ppc, polled,
                 pcmd, boundVars>>

\* ... and acknowledge on the same socket, whatever becomes of the message.
AckReceived ==
  /\ wcmd # None
  /\ up' = IF link[alive] = "cut" THEN up ELSE [up EXCEPT ![alive] = Append(@, wcmd)]
  /\ wcmd' = None
  /\ UNCHANGED <<status, handlerVars, hub, send, pumpVars, link, down, alive, ppc, polled,
                 pcmd, ran, boundVars>>

\* readWS returns an error; what was still on its way is lost.
NoticeCut ==
  /\ alive # None /\ wcmd = None /\ link[alive] = "cut"
  /\ alive' = None
  /\ down' = [down EXCEPT ![alive] = <<>>]
  /\ UNCHANGED <<status, handlerVars, hub, send, pumpVars, link, up, wcmd, ppc, polled, pcmd,
                 ran, boundVars>>

(***************************************************************************)
(* conf-agent's poll goroutine and TP-API's commands/poll                  *)
(***************************************************************************)

GoP(from, to) == ppc = from /\ ppc' = to

\* Only commands never handed out are returned (mutant of Pollable).
PollableOnce == {m \in Commands : status[m] = "pending"}

Pollable == {m \in Commands : status[m] \in Open}

\* A cycle asks for commands only if the socket is taken for down when it begins; a
\* heartbeat goes first, and the socket may be up again when it is answered.
BeginCycle ==
  /\ alive = None
  /\ GoP("idle", "asked")
  /\ UNCHANGED <<status, handlerVars, hub, send, pumpVars, wireVars, alive, wcmd, polled, pcmd,
                 ran, boundVars>>

Select ==
  /\ GoP("asked", "mark")
  /\ polled' = Pollable
  /\ UNCHANGED <<status, handlerVars, hub, send, pumpVars, wireVars, alive, wcmd, pcmd, ran,
                 boundVars>>

\* What is handed out counts as executed already (mutant of MarkPolled).
MarkPolledExecuted ==
  /\ GoP("mark", "expire")
  /\ status' = [m \in Commands |->
                  IF m \in polled /\ status[m] = "pending" THEN "executed" ELSE status[m]]
  /\ UNCHANGED <<handlerVars, hub, send, pumpVars, wireVars, alive, wcmd, pcmd, polled, ran,
                 boundVars>>

MarkPolled ==
  /\ GoP("mark", "expire")
  /\ status' = [m \in Commands |->
                  IF m \in polled /\ status[m] = "pending" THEN "sent" ELSE status[m]]
  /\ UNCHANGED <<handlerVars, hub, send, pumpVars, wireVars, alive, wcmd, pcmd, polled, ran,
                 boundVars>>

\* Commands of this very answer may time out before it is sent.
ExpireOld ==
  /\ GoP("expire", "reply")
  /\ status' = [m \in Commands |->
                  IF m \in old /\ status[m] \in Open THEN "timeout" ELSE status[m]]
  /\ UNCHANGED <<handlerVars, hub, send, pumpVars, wireVars, alive, wcmd, pcmd, polled, ran,
                 boundVars>>

ReceivePolled ==
  /\ GoP("reply", "run")
  /\ UNCHANGED <<status, handlerVars, hub, send, pumpVars, wireVars, alive, wcmd, pcmd,
                 polled, ran, boundVars>>

RunPolled ==
  \E m \in polled :
    /\ GoP("run", "ack")
    /\ pcmd' = m
    /\ ran' = ran \cup {m}
    /\ polled' = polled \ {m}
    /\ UNCHANGED <<status, handlerVars, hub, send, pumpVars, wireVars, alive, wcmd, boundVars>>

AckPolled ==
  /\ GoP("ack", "run")
  /\ status' = [status EXCEPT ![pcmd] = IF @ \in Open THEN "executed" ELSE @]
  /\ pcmd' = None
  /\ UNCHANGED <<handlerVars, hub, send, pumpVars, wireVars, alive, wcmd, polled, ran,
                 boundVars>>

EndCycle ==
  /\ GoP("run", "idle")
  /\ polled = {}
  /\ UNCHANGED <<status, handlerVars, hub, send, pumpVars, wireVars, alive, wcmd, pcmd,
                 polled, ran, boundVars>>

PollStep ==
  \/ BeginCycle \/ Select \/ MarkPolled \/ ExpireOld \/ ReceivePolled \/ RunPolled \/ AckPolled
  \/ EndCycle

(***************************************************************************)
(* Time, failures and restarts                                             *)
(***************************************************************************)

\* Five minutes pass after the insert.
Age(m) ==
  /\ status[m] # "none" /\ m \notin old
  /\ old' = old \cup {m}
  /\ UNCHANGED <<status, handlerVars, hub, send, pumpVars, wireVars, agentVars, beats, events>>

Event(kind) == kind \in Events /\ events < MaxEvents /\ events' = events + 1

Cut(c) ==
  /\ Event("cut")
  /\ link[c] = "up"
  /\ CutLink(c)
  /\ UNCHANGED <<status, handlerVars, hub, send, pumpVars, down, up, agentVars, old, beats>>

\* The request for commands is lost, or its answer.
LoseReply ==
  /\ Event("lost")
  /\ GoP("asked", "idle") \/ GoP("reply", "idle")
  /\ polled' = {}
  /\ UNCHANGED <<status, handlerVars, hub, send, pumpVars, wireVars, alive, wcmd, pcmd, ran,
                 old, beats>>

LoseAck ==
  /\ Event("lost")
  /\ GoP("ack", "run")
  /\ pcmd' = None
  /\ UNCHANGED <<status, handlerVars, hub, send, pumpVars, wireVars, alive, wcmd, polled, ran,
                 old, beats>>

\* The agent restarts, as command reboot also makes it do; a poll request already
\* sent is answered to nobody.
AgentCrash ==
  /\ Event("crash")
  /\ ppc \in {"idle", "asked", "reply", "run", "ack"}
  /\ ppc' = "idle" /\ polled' = {} /\ pcmd' = None
  /\ alive' = None /\ wcmd' = None
  /\ link' = [c \in Conns |-> IF c = alive THEN "cut" ELSE link[c]]
  /\ down' = [c \in Conns |-> <<>>]
  /\ UNCHANGED <<status, handlerVars, hub, send, pumpVars, up, ran, old, beats>>

\* The cloud process restarts: the hub, the pumps and the handlers are gone, the
\* commands are in the database.
CloudRestart ==
  /\ Event("restart")
  /\ ppc \notin {"mark", "expire"}
  /\ hpc' = [m \in Commands |-> IF hpc[m] = "idle" THEN "idle" ELSE "replied"]
  /\ target' = [m \in Commands |-> None]
  /\ hub' = None
  /\ send' = [c \in Conns |-> <<>>]
  /\ wpump' = {} /\ rpump' = {} /\ replying' = {}
  /\ link' = [c \in Conns |-> IF link[c] = "unused" THEN "unused" ELSE "cut"]
  /\ up' = [c \in Conns |-> <<>>]
  /\ UNCHANGED <<status, closed, down, agentVars, old, beats>>

Next ==
  \/ \E m \in Commands : Insert(m) \/ HandlerStep(m) \/ Age(m)
  \/ \E c \in Conns : Dial(c) \/ ConnStep(c) \/ Cut(c)
  \/ SendHeartbeat \/ RunReceived \/ AckReceived \/ NoticeCut
  \/ PollStep
  \/ LoseReply \/ LoseAck \/ AgentCrash \/ CloudRestart

Spec == Init /\ [][Next]_vars

\* Every goroutine that can run does: handlers finish, pumps serve their
\* connection and notice its end, the agent handles what it receives, notices a
\* dead connection and polls while it has none.  No command, connection, failure
\* or delay is owed.
Fairness ==
  /\ \A m \in Commands : WF_vars(HandlerStep(m))
  /\ \A c \in Conns : WF_vars(Register(c)) /\ WF_vars(WriteMessage(c))
                      /\ WF_vars(WritePumpEnds(c)) /\ WF_vars(SendBeatAck(c))
                      /\ WF_vars(ReadAck(c) \/ ReadBeat(c) \/ ReadPumpEnds(c))
  /\ WF_vars(RunReceived \/ AckReceived \/ NoticeCut)
  /\ WF_vars(PollStep)

FairSpec == Spec /\ Fairness

(***************************************************************************)
(* Properties                                                              *)
(***************************************************************************)

\* A command shown as executed was run by the agent.
AckTruthful == \A m \in Commands : status[m] = "executed" => m \in ran

\* An outcome, once recorded, is never changed by a second acknowledgement or a
\* timeout; only sendCommandHandler's own late UPDATE can take it back.
OutcomeSticks ==
  [][\A m \in Commands :
       status[m] \in {"executed", "timeout"} /\ status'[m] # status[m] => hpc[m] = "mark"]_status

Settled(m) == status[m] \in {"none", "executed", "timeout"}

\* While the agent takes its socket for down, the polls settle every command,
\* those handed out before and never acknowledged included.
PollingSettles == \A m \in Commands : []<>(Settled(m) \/ alive # None)

\* A message the hub has accepted is run and acknowledged, or its connection
\* comes to an end.
LiveLinkDelivers ==
  \A m \in Commands, c \in Conns :
    m \in ToSet(send[c]) ~> Settled(m) \/ link[c] = "cut"

\* Every command sent reaches an outcome, over the socket or by polling.
EveryCommandSettles ==
  \A m \in Commands : status[m] = "pending" ~> Settled(m)
=============================================================================
