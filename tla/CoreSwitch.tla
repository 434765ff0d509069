------------------------------ MODULE CoreSwitch ------------------------------
(***************************************************************************)
(* core-switch (http.go, influx.go) and the client its senders share       *)
(* (coreswitch/client.go): a sender posts one batch or one alert at a time *)
(* and waits for the answer at most ten seconds; each request runs in a    *)
(* handler of its own, which goes on when its sender has given up.  Points *)
(* go to InfluxDB under one lock, through a client without a timeout;      *)
(* alerts are suppressed while the same sender and text are recent, and    *)
(* forwarded to conf-agent by goroutines that may fail or overtake each    *)
(* other.                                                                  *)
(***************************************************************************)
EXTENDS Naturals, Sequences

CONSTANTS
  Senders,       \* the processes that post to core-switch
  Slots,         \* bound on the open handlers of a sender, abandoned ones included
  Texts,         \* texts of alerts
  Mode,          \* the Mode of each text: 1 complains, 0 resolves
  InfluxEnabled, \* coreswitch_settings: outputs.influxdb
  LiveEnabled,   \* coreswitch_settings: outputs.live
  None

ASSUME SlotsAssumption == Slots \in Nat \ {0}
ASSUME ModeAssumption == Mode \in [Texts -> {0, 1}]

VARIABLES
  handler,  \* per sender: its handlers, each with what it still has to do
  waiting,  \* per sender: the handler it waits for, 0 when it waits for none
  lock,     \* who holds writeLock, and behind it who waits for it
  influx,   \* InfluxDB: "up", "down" (answers with an error), "hung" (does not answer)
  slow,     \* whether InfluxDB may fail or take longer than a client waits
  recent,   \* alerts whose entry in Last is younger than IgnoreInterval
  forwards, \* alerts on their way to conf-agent; the same one twice counts once
  heard     \* per sender: the mode of its last alert that reached conf-agent's address

coreVars == <<handler, waiting, lock, influx, slow, recent, forwards, heard>>

Alerts   == Senders \X Texts
Handlers == Senders \X (1..Slots)
Free     == [pc |-> "free", text |-> None, live |-> FALSE]

CoreTypeOK ==
  /\ handler \in [Senders -> [1..Slots ->
       [pc : {"free", "batch", "write", "forward", "alert", "store"},
        text : Texts \cup {None}, live : BOOLEAN]]]
  /\ waiting \in [Senders -> 0..Slots]
  /\ lock \in Seq(Handlers)
  /\ influx \in {"up", "down", "hung"} /\ slow \in BOOLEAN
  /\ recent \subseteq Alerts /\ forwards \subseteq Alerts
  /\ heard \in [Senders -> {0, 1, None}]

CoreInit(isSlow) ==
  /\ handler = [s \in Senders |-> [i \in 1..Slots |-> Free]]
  /\ waiting = [s \in Senders |-> 0]
  /\ lock = <<>> /\ influx = "up" /\ slow = isSlow
  /\ recent = {} /\ forwards = {}
  /\ heard = [s \in Senders |-> None]

PC(h) == handler[h[1]][h[2]].pc

(***************************************************************************)
(* The client                                                              *)
(***************************************************************************)

\* The request reaches core-switch and a handler starts on it.
Arrives(s, m) ==
  /\ waiting[s] = 0
  /\ \E i \in 1..Slots :
       /\ handler[s][i] = Free
       /\ handler' = [handler EXCEPT ![s][i] = m]
       /\ waiting' = [waiting EXCEPT ![s] = i]
  /\ UNCHANGED <<lock, influx, slow, recent, forwards, heard>>

\* The connection is refused or reset: the caller gets an error, and only logs it.
Lost(s) == waiting[s] = 0 /\ UNCHANGED coreVars

\* batchData: what a batch with these outputs has to go through.
BatchData(outputs) ==
  [pc   |-> IF "influxdb" \in outputs /\ InfluxEnabled THEN "batch" ELSE "forward",
   text |-> None,
   live |-> "live" \in outputs]

SendBatch(s, outputs) == Arrives(s, BatchData(outputs)) \/ Lost(s)

\* httpClient.Timeout: the sender stops waiting, its handler does not notice.  Only
\* waiting for InfluxDB can take ten seconds.
GiveUp(s) ==
  /\ waiting[s] # 0 /\ slow /\ PC(<<s, waiting[s]>>) = "write"
  /\ waiting' = [waiting EXCEPT ![s] = 0]
  /\ UNCHANGED <<handler, lock, influx, slow, recent, forwards, heard>>

SendAlert(s, text) == Arrives(s, [pc |-> "alert", text |-> text, live |-> FALSE])

(***************************************************************************)
(* Handlers                                                                *)
(***************************************************************************)

Becomes(h, pc) == handler' = [handler EXCEPT ![h[1]][h[2]].pc = pc]

Finish(h) ==
  /\ handler' = [handler EXCEPT ![h[1]][h[2]] = Free]
  /\ waiting' = [waiting EXCEPT ![h[1]] = IF @ = h[2] THEN 0 ELSE @]

\* BatchWrite asks for writeLock.  A Go mutex waited for longer than a millisecond is
\* handed over in the order of the waiters, and a write to InfluxDB takes longer.
QueueWrite(h) ==
  /\ PC(h) = "batch"
  /\ lock' = Append(lock, h)
  /\ Becomes(h, "write")
  /\ UNCHANGED <<waiting, influx, slow, recent, forwards, heard>>

\* (mutant of BatchWrite)
BatchWriteKeepsLock(h) ==
  /\ PC(h) = "write" /\ Head(lock) = h /\ influx # "hung"
  /\ lock' = IF influx = "down" THEN lock ELSE Tail(lock)
  /\ Becomes(h, "forward")
  /\ UNCHANGED <<waiting, influx, slow, recent, forwards, heard>>

\* InfluxDB answers.  Whatever it says, batchData goes on and answers 200.
BatchWrite(h) ==
  /\ PC(h) = "write" /\ Head(lock) = h /\ influx # "hung"
  /\ lock' = Tail(lock)
  /\ Becomes(h, "forward")
  /\ UNCHANGED <<waiting, influx, slow, recent, forwards, heard>>

\* forwardLive, and the answer.  The points are dropped, or handed to a goroutine
\* nobody waits for.
ForwardLive(h) ==
  /\ PC(h) = "forward"
  /\ Finish(h)
  /\ UNCHANGED <<lock, influx, slow, recent, forwards, heard>>

AlertOf(h) == <<h[1], handler[h[1]][h[2]].text>>

\* alertRx looks its alert up in Last.
AlertCheck(h) ==
  /\ PC(h) = "alert"
  /\ IF AlertOf(h) \in recent
       THEN Finish(h) ELSE Becomes(h, "store") /\ UNCHANGED waiting
  /\ UNCHANGED <<lock, influx, slow, recent, forwards, heard>>

\* alertRx enters it in Last and leaves the forwarding to a goroutine.
AlertStore(h) ==
  /\ PC(h) = "store"
  /\ recent' = recent \cup {AlertOf(h)}
  /\ forwards' = IF LiveEnabled THEN forwards \cup {AlertOf(h)} ELSE forwards
  /\ Finish(h)
  /\ UNCHANGED <<lock, influx, slow, heard>>

\* The process is gone with everything it kept in memory, and a new one starts.
Restart ==
  /\ handler' = [s \in Senders |-> [i \in 1..Slots |-> Free]]
  /\ waiting' = [s \in Senders |-> 0]
  /\ lock' = <<>> /\ recent' = {} /\ forwards' = {}
  /\ UNCHANGED <<influx, slow, heard>>

\* Last has no lock: a write beside any other access may end the process.
MapRace ==
  /\ \E h, g \in Handlers :
       h # g /\ PC(h) = "store" /\ PC(g) \in {"alert", "store"}
  /\ Restart

(***************************************************************************)
(* The environment                                                         *)
(***************************************************************************)

ForwardArrives(a) ==
  /\ a \in forwards
  /\ forwards' = forwards \ {a}
  /\ heard' = [heard EXCEPT ![a[1]] = Mode[a[2]]]
  /\ UNCHANGED <<handler, waiting, lock, influx, slow, recent>>

ForwardLost(a) ==
  /\ a \in forwards
  /\ forwards' = forwards \ {a}
  /\ UNCHANGED <<handler, waiting, lock, influx, slow, recent, heard>>

\* IgnoreInterval has passed since the alert was last let through.
Expire(a) ==
  /\ a \in recent
  /\ recent' = recent \ {a}
  /\ UNCHANGED <<handler, waiting, lock, influx, slow, forwards, heard>>

InfluxBecomes(x) ==
  /\ slow /\ influx # x
  /\ influx' = x
  /\ UNCHANGED <<handler, waiting, lock, slow, recent, forwards, heard>>

HandlerStep(h) ==
  \/ QueueWrite(h) \/ BatchWrite(h) \/ ForwardLive(h)
  \/ AlertCheck(h) \/ AlertStore(h)

CoreStep ==
  \/ \E h \in Handlers : HandlerStep(h)
  \/ \E a \in Alerts : ForwardArrives(a) \/ Expire(a)
  \/ \E s \in Senders : GiveUp(s)

\* The scheduler runs the handlers of s.
HandlersRun(s) == WF_coreVars(\E i \in 1..Slots : HandlerStep(<<s, i>>))

\* An interval passes, and neither the network nor a crash keeps every complaint of s
\* from conf-agent.
ComplaintsGetThrough(s) ==
  LET Complaint(a) == a[1] = s /\ a[2] \in Texts /\ Mode[a[2]] = 1
  IN  /\ \A t \in Texts : Mode[t] = 1 => WF_coreVars(Expire(<<s, t>>))
      /\ SF_coreVars(\E h \in Handlers : Complaint(AlertOf(h)) /\ AlertCheck(h))
      /\ SF_coreVars(\E h \in Handlers : Complaint(AlertOf(h)) /\ AlertStore(h))
      /\ SF_coreVars(\E a \in Alerts : Complaint(a) /\ ForwardArrives(a))

(***************************************************************************)
(* Properties                                                              *)
(***************************************************************************)

\* writeLock is held or asked for by exactly the handlers that are in BatchWrite: no
\* way out of it, an error of InfluxDB or a sender that gave up included, leaves the
\* lock taken and every later batch waiting.
LockSound ==
  /\ {lock[i] : i \in 1..Len(lock)} = {h \in Handlers : PC(h) = "write"}
  /\ \A i, j \in 1..Len(lock) : lock[i] = lock[j] => i = j
=============================================================================
