--------------------------- MODULE EdgeReadersProofs ---------------------------
(***************************************************************************)
(* core-switch's write lock, for every number of handlers and whatever     *)
(* readers, crashes, lost alerts and failures of InfluxDB surround it; the *)
(* topics of mqtt-reader, for every set of rules; the blocks and values of *)
(* modbus-reader, for every list of readings; and everyone's types.        *)
(***************************************************************************)
EXTENDS EdgeReaders, TLAPS, FiniteSetTheorems, WellFoundedInduction, SequenceTheorems

Request ==
  [pc : {"free", "batch", "write", "forward", "alert", "store"},
   text : Texts \cup {None}, live : BOOLEAN]

LockTypes ==
  /\ handler \in [Senders -> [1..Slots -> Request]]
  /\ waiting \in [Senders -> 0..Slots]
  /\ lock \in Seq(Handlers)

CoreInv == LockTypes /\ LockSound

\* What a step may do to the handlers without touching the lock: no handler enters
\* or leaves BatchWrite.
LEMMA LockUntouched ==
  ASSUME LockSound, lock' = lock, \A h \in Handlers : PC(h) = "write" <=> PC(h)' = "write"
  PROVE  LockSound'
  BY DEF LockSound, Handlers

LEMMA HandlerParts ==
  ASSUME NEW h \in Handlers
  PROVE  h[1] \in Senders /\ h[2] \in 1..Slots /\ h = <<h[1], h[2]>>
  BY DEF Handlers

\* A request arrives: its handler was free and does not begin in BatchWrite.
LEMMA ArrivesStep ==
  ASSUME CoreInv, NEW s \in Senders, NEW m \in Request, m.pc # "write", Arrives(s, m)
  PROVE  CoreInv'
<1>1. PICK i \in 1..Slots : /\ handler[s][i] = Free
                            /\ handler' = [handler EXCEPT ![s][i] = m]
                            /\ waiting' = [waiting EXCEPT ![s] = i]
  BY DEF Arrives
<1>2. UNCHANGED <<lock, influx, slow, recent, forwards, heard>>
  BY DEF Arrives
<1>3. LockTypes'
  BY <1>1, <1>2, SlotsAssumption DEF CoreInv, LockTypes
<1>4. \A h \in Handlers : PC(h) = "write" <=> PC(h)' = "write"
  BY <1>1, HandlerParts DEF CoreInv, LockTypes, PC, Free
<1>5. QED
  BY <1>2, <1>3, <1>4, LockUntouched DEF CoreInv

\* One handler's next statement: nothing of it but its pc changes, and no other.
LEMMA BecomesTypes ==
  ASSUME LockTypes, NEW h \in Handlers, NEW pc \in {"write", "forward", "store"},
         Becomes(h, pc)
  PROVE  /\ handler' \in [Senders -> [1..Slots -> Request]]
         /\ \A g \in Handlers \ {h} : PC(g)' = PC(g)
         /\ PC(h)' = pc
<1>1. h[1] \in Senders /\ h[2] \in 1..Slots /\ handler \in [Senders -> [1..Slots -> Request]]
  BY HandlerParts DEF LockTypes
<1> DEFINE r == [handler[h[1]][h[2]] EXCEPT !.pc = pc]
<1>2. handler[h[1]][h[2]] \in Request
  BY <1>1
<1>3. r \in Request
  BY <1>2 DEF Request
<1>4. r.pc = pc
  BY <1>2 DEF Request
<1>5. handler' = [handler EXCEPT ![h[1]] = [handler[h[1]] EXCEPT ![h[2]] = r]]
  BY DEF Becomes
<1> HIDE DEF r
<1>6. handler' \in [Senders -> [1..Slots -> Request]]
  BY <1>1, <1>3, <1>5
<1>7. PC(h)' = pc
  BY <1>1, <1>4, <1>5 DEF PC
<1>8. \A g \in Handlers \ {h} : PC(g)' = PC(g)
  BY <1>1, <1>5, HandlerParts DEF PC
<1>9. QED
  BY <1>6, <1>7, <1>8

\* A handler is done, and the client that waits for it hears.
LEMMA FinishTypes ==
  ASSUME LockTypes, NEW h \in Handlers, Finish(h)
  PROVE  /\ handler' \in [Senders -> [1..Slots -> Request]]
         /\ waiting' \in [Senders -> 0..Slots]
         /\ \A g \in Handlers \ {h} : PC(g)' = PC(g)
         /\ PC(h)' = "free"
<1>1. /\ h[1] \in Senders /\ h[2] \in 1..Slots
      /\ handler \in [Senders -> [1..Slots -> Request]] /\ waiting \in [Senders -> 0..Slots]
  BY HandlerParts DEF LockTypes
<1>2. handler' = [handler EXCEPT ![h[1]] = [handler[h[1]] EXCEPT ![h[2]] = Free]]
  BY DEF Finish
<1>3. Free \in Request /\ Free.pc = "free"
  BY DEF Free, Request
<1>4. handler' \in [Senders -> [1..Slots -> Request]]
  BY <1>1, <1>2, <1>3
<1>5. waiting' \in [Senders -> 0..Slots]
  BY <1>1, SlotsAssumption DEF Finish
<1>6. PC(h)' = "free"
  BY <1>1, <1>2, <1>3 DEF PC
<1>7. \A g \in Handlers \ {h} : PC(g)' = PC(g)
  BY <1>1, <1>2, HandlerParts DEF PC
<1>8. QED
  BY <1>4, <1>5, <1>6, <1>7

\* BatchWrite's way in: the handler queues for the lock behind all that write.
LEMMA QueueWriteStep ==
  ASSUME CoreInv, NEW h \in Handlers, QueueWrite(h)
  PROVE  CoreInv'
<1>1. /\ PC(h) = "batch" /\ lock' = Append(lock, h) /\ Becomes(h, "write")
      /\ UNCHANGED <<waiting, influx, slow, recent, forwards, heard>>
  BY DEF QueueWrite
<1>2. handler' \in [Senders -> [1..Slots -> Request]]
  BY <1>1, BecomesTypes DEF CoreInv
<1>3. PC(h)' = "write" /\ \A g \in Handlers \ {h} : PC(g)' = PC(g)
  BY <1>1, BecomesTypes DEF CoreInv
<1>4. lock \in Seq(Handlers) /\ Len(lock) \in Nat
  BY DEF CoreInv, LockTypes
<1>5. /\ lock' \in Seq(Handlers) /\ Len(lock') = Len(lock) + 1 /\ lock'[Len(lock) + 1] = h
      /\ \A i \in 1..Len(lock) : lock'[i] = lock[i]
  BY <1>1, <1>4
<1>6. LockTypes'
  BY <1>1, <1>2, <1>5 DEF CoreInv, LockTypes
<1>7. \A i \in 1..Len(lock) : lock[i] # h /\ lock[i] \in Handlers /\ PC(lock[i]) = "write"
  BY <1>1 DEF CoreInv, LockSound
<1>8. {lock'[i] : i \in 1..Len(lock')} = {lock[i] : i \in 1..Len(lock)} \cup {h}
  <2>1. \A i \in 1..Len(lock') : i \in 1..Len(lock) \/ i = Len(lock) + 1
    BY <1>4, <1>5
  <2>2. 1..Len(lock) \subseteq 1..Len(lock') /\ Len(lock) + 1 \in 1..Len(lock')
    BY <1>4, <1>5
  <2>3. QED
    BY <1>5, <2>1, <2>2
<1>9. {g \in Handlers : PC(g)' = "write"} = {g \in Handlers : PC(g) = "write"} \cup {h}
  BY <1>1, <1>3
<1>10. \A i, j \in 1..Len(lock') : lock'[i] = lock'[j] => i = j
  <2>1. \A i \in 1..Len(lock') : i \in 1..Len(lock) \/ i = Len(lock) + 1
    BY <1>4, <1>5
  <2>2. \A i, j \in 1..Len(lock) : lock[i] = lock[j] => i = j
    BY DEF CoreInv, LockSound
  <2>3. QED
    BY <1>5, <1>7, <2>1, <2>2
<1>11. LockSound'
  BY <1>8, <1>9, <1>10 DEF CoreInv, LockSound
<1>12. QED
  BY <1>6, <1>11 DEF CoreInv

\* BatchWrite's way out: only the holder leaves, and it gives the lock to the next.
LEMMA BatchWriteStep ==
  ASSUME CoreInv, NEW h \in Handlers, BatchWrite(h)
  PROVE  CoreInv'
<1>1. /\ PC(h) = "write" /\ Head(lock) = h /\ lock' = Tail(lock) /\ Becomes(h, "forward")
      /\ UNCHANGED <<waiting, influx, slow, recent, forwards, heard>>
  BY DEF BatchWrite
<1>2. handler' \in [Senders -> [1..Slots -> Request]]
  BY <1>1, BecomesTypes DEF CoreInv
<1>3. PC(h)' = "forward" /\ \A g \in Handlers \ {h} : PC(g)' = PC(g)
  BY <1>1, BecomesTypes DEF CoreInv
<1>4. lock # <<>>
  <2>1. h \in {lock[i] : i \in 1..Len(lock)}
    BY <1>1 DEF CoreInv, LockSound
  <2>2. QED
    BY <2>1
<1>5. /\ lock' \in Seq(Handlers) /\ Len(lock') = Len(lock) - 1 /\ lock[1] = h
      /\ Len(lock) \in Nat \ {0} /\ \A i \in 1..Len(lock') : lock'[i] = lock[i + 1]
  BY <1>1, <1>4 DEF CoreInv, LockTypes
<1>6. LockTypes'
  BY <1>1, <1>2, <1>5 DEF CoreInv, LockTypes
<1>7. \A i, j \in 1..Len(lock) : lock[i] = lock[j] => i = j
  BY DEF CoreInv, LockSound
<1>8. {lock'[i] : i \in 1..Len(lock')} = {lock[i] : i \in 1..Len(lock)} \ {h}
  <2>1. \A i \in 1..Len(lock') : i + 1 \in 1..Len(lock) /\ lock[i + 1] # h
    BY <1>5, <1>7
  <2>2. ASSUME NEW i \in 1..Len(lock), lock[i] # h
        PROVE  i - 1 \in 1..Len(lock') /\ lock'[i - 1] = lock[i]
    <3>1. i - 1 \in 1..Len(lock') /\ (i - 1) + 1 = i
      BY <1>5, <2>2
    <3>2. QED
      BY <1>5, <3>1
  <2>3. ASSUME NEW i \in 1..Len(lock')
        PROVE  \E j \in 1..Len(lock) : lock[j] = lock'[i] /\ lock[j] # h
    BY <1>5, <2>1
  <2>4. ASSUME NEW i \in 1..Len(lock), lock[i] # h
        PROVE  \E j \in 1..Len(lock') : lock'[j] = lock[i]
    BY <2>2, <2>4
  <2>5. ASSUME NEW g \in {lock'[i] : i \in 1..Len(lock')}
        PROVE  g \in {lock[i] : i \in 1..Len(lock)} \ {h}
    BY <2>3
  <2>6. ASSUME NEW g \in {lock[i] : i \in 1..Len(lock)} \ {h}
        PROVE  g \in {lock'[i] : i \in 1..Len(lock')}
    <3>1. PICK i \in 1..Len(lock) : lock[i] = g
      OBVIOUS
    <3>2. PICK j \in 1..Len(lock') : lock'[j] = g
      BY <2>4, <3>1
    <3>3. QED
      BY <3>2
  <2>7. QED
    BY <2>5, <2>6
<1>9. {g \in Handlers : PC(g)' = "write"} = {g \in Handlers : PC(g) = "write"} \ {h}
  BY <1>1, <1>3
<1>10. \A i, j \in 1..Len(lock') : lock'[i] = lock'[j] => i = j
  <2>1. \A i \in 1..Len(lock') : i + 1 \in 1..Len(lock)
    BY <1>5
  <2>2. QED
    BY <1>5, <1>7, <2>1
<1>11. LockSound'
  BY <1>8, <1>9, <1>10 DEF CoreInv, LockSound
<1>12. QED
  BY <1>6, <1>11 DEF CoreInv

\* The other statements of a handler neither enter nor leave BatchWrite.
LEMMA OtherStatements ==
  ASSUME CoreInv, NEW h \in Handlers, ForwardLive(h) \/ AlertCheck(h) \/ AlertStore(h)
  PROVE  CoreInv'
<1>1. PC(h) # "write" /\ UNCHANGED <<lock, influx, slow, heard>>
  BY DEF ForwardLive, AlertCheck, AlertStore
<1>2. Finish(h) \/ (Becomes(h, "store") /\ UNCHANGED waiting)
  BY DEF ForwardLive, AlertCheck, AlertStore
<1>3. /\ handler' \in [Senders -> [1..Slots -> Request]] /\ waiting' \in [Senders -> 0..Slots]
      /\ PC(h)' # "write" /\ \A g \in Handlers \ {h} : PC(g)' = PC(g)
  <2>1. CASE Finish(h)
    BY <2>1, FinishTypes DEF CoreInv
  <2>2. CASE Becomes(h, "store") /\ UNCHANGED waiting
    BY <2>2, BecomesTypes DEF CoreInv, LockTypes
  <2>3. QED
    BY <1>2, <2>1, <2>2
<1>4. QED
  BY <1>1, <1>3, LockUntouched DEF CoreInv, LockTypes

\* A client gives up, an alert or InfluxDB changes, a request is lost: no handler moves.
LEMMA NoHandlerMoves ==
  ASSUME CoreInv, UNCHANGED <<handler, lock>>, waiting' \in [Senders -> 0..Slots]
  PROVE  CoreInv'
  BY LockUntouched DEF CoreInv, LockTypes, PC

\* The process starts over, and the lock with it.
LEMMA RestartStep ==
  ASSUME CoreInv, Restart
  PROVE  CoreInv'
<1>1. \A h \in Handlers : PC(h)' = "free"
  BY HandlerParts DEF Restart, PC, Free
<1>2. lock' = <<>> /\ Len(lock') = 0
  BY DEF Restart
<1>3. LockTypes'
  BY SlotsAssumption DEF Restart, LockTypes, Free, Request
<1>4. {lock'[i] : i \in 1..Len(lock')} = {} /\ {h \in Handlers : PC(h)' = "write"} = {}
  BY <1>1, <1>2
<1>5. LockSound'
  BY <1>2, <1>4 DEF LockSound
<1>6. QED
  BY <1>3, <1>5 DEF CoreInv

LEMMA CoreStepSafe ==
  ASSUME CoreInv, CoreStep
  PROVE  CoreInv'
<1>1. ASSUME NEW h \in Handlers, HandlerStep(h)
      PROVE  CoreInv'
  BY <1>1, QueueWriteStep, BatchWriteStep, OtherStatements DEF HandlerStep
<1>2. ASSUME NEW a \in Alerts, ForwardArrives(a) \/ Expire(a)
      PROVE  CoreInv'
  BY <1>2, NoHandlerMoves DEF ForwardArrives, Expire, CoreInv, LockTypes
<1>3. ASSUME NEW s \in Senders, GiveUp(s)
      PROVE  CoreInv'
  <2>1. waiting' = [waiting EXCEPT ![s] = 0] /\ UNCHANGED <<handler, lock>>
    BY <1>3 DEF GiveUp
  <2>2. waiting' \in [Senders -> 0..Slots]
    BY <2>1, SlotsAssumption DEF CoreInv, LockTypes
  <2>3. QED
    BY <2>1, <2>2, NoHandlerMoves
<1>4. QED
  BY <1>1, <1>2, <1>3 DEF CoreStep

LEMMA NothingMoves ==
  ASSUME CoreInv, UNCHANGED coreVars
  PROVE  CoreInv'
  BY NoHandlerMoves DEF coreVars, CoreInv, LockTypes

\* What a reader does to core-switch: it sends a batch or an alert, or nothing.
LEMMA BatchStep ==
  ASSUME CoreInv, NEW s \in Senders, NEW outputs, SendBatch(s, outputs)
  PROVE  CoreInv'
<1>1. BatchData(outputs) \in Request /\ BatchData(outputs).pc # "write"
  BY DEF BatchData, Request
<1>2. QED
  BY <1>1, ArrivesStep, NothingMoves DEF SendBatch, Lost

LEMMA AlertStep ==
  ASSUME CoreInv, NEW s \in Senders, NEW text \in Texts, SendAlert(s, text) \/ Lost(s)
  PROVE  CoreInv'
<1> DEFINE m == [pc |-> "alert", text |-> text, live |-> FALSE]
<1>1. m \in Request /\ m.pc # "write"
  BY DEF Request
<1>2. CASE SendAlert(s, text)
  BY <1>1, <1>2, ArrivesStep DEF SendAlert
<1>3. CASE Lost(s)
  BY <1>3, NothingMoves DEF Lost
<1>4. QED
  BY <1>2, <1>3

LEMMA ModbusStepSafe ==
  ASSUME CoreInv, ModbusStep
  PROVE  CoreInv'
<1>1. ASSUME NEW arrives \in BOOLEAN, SendConnAlert(arrives)
      PROVE  CoreInv'
  <2>1. Modbus \in Senders /\ TextAt[mpc] \in Texts
    BY <1>1, SendersAssumption DEF SendConnAlert, TextAt
  <2>2. SendAlert(Modbus, TextAt[mpc]) \/ Lost(Modbus)
    BY <1>1 DEF SendConnAlert
  <2>3. QED
    BY <2>1, <2>2, AlertStep
<1>2. ASSUME NEW eq, SendGroup(eq)
      PROVE  CoreInv'
  BY <1>2, BatchStep, SendersAssumption DEF SendGroup
<1>3. ASSUME NEW t, NextType(t)
      PROVE  CoreInv'
  BY <1>3, NothingMoves DEF NextType
<1>4. CASE Connect \/ ConnectFails \/ AlertAnswered \/ CycleComplete \/ SkipBlock
           \/ ReadBlock \/ ReadFails \/ GroupAnswered
  BY <1>4, NothingMoves DEF Connect, ConnectFails, AlertAnswered, CycleComplete,
     SkipBlock, ReadBlock, ReadFails, GroupAnswered
<1>5. QED
  BY <1>1, <1>2, <1>3, <1>4 DEF ModbusStep

LEMMA PollStepSafe ==
  ASSUME CoreInv, OpcuaConnectFails \/ \E r \in Pollers : PollStep(r)
  PROVE  CoreInv'
<1>1. ASSUME NEW r \in Pollers, Report(r)
      PROVE  CoreInv'
  BY <1>1, BatchStep, SendersAssumption DEF Report
<1>2. ASSUME NEW r, NoAnswer(r) \/ Reported(r) \/ RunAgain(r) \/ Tick(r)
      PROVE  CoreInv'
  BY <1>2, NothingMoves DEF NoAnswer, Reported, RunAgain, Tick
<1>3. CASE StartSnmp \/ StartHttp \/ StartOpcua \/ OpcuaConnectFails
  BY <1>3, NothingMoves DEF StartSnmp, StartHttp, StartOpcua, OpcuaConnectFails, Starts
<1>4. CASE PollSnmp \/ PollHttp \/ PollOpcua
  BY <1>1, <1>2, <1>4, NothingMoves DEF PollSnmp, PollHttp, PollOpcua, Pollers
<1>5. QED
  BY <1>2, <1>3, <1>4 DEF PollStep

LEMMA MqttStepSafe ==
  ASSUME CoreInv, MqttStep
  PROVE  CoreInv'
<1>1. ASSUME NEW s, SendSensor(s)
      PROVE  CoreInv'
  BY <1>1, BatchStep, SendersAssumption DEF SendSensor
<1>2. ASSUME NEW s, NoValue(s)
      PROVE  CoreInv'
  BY <1>2, NothingMoves DEF NoValue
<1>3. ASSUME NEW t, Publish(t)
      PROVE  CoreInv'
  BY <1>3, NothingMoves DEF Publish
<1>4. ASSUME NEW ok, Subscribe(ok)
      PROVE  CoreInv'
  BY <1>4, NothingMoves DEF Subscribe
<1>5. CASE \/ MqttConnects \/ SubscribeFails \/ ConnectionLost \/ SensorSent
           \/ HandlerReturns
  BY <1>5, NothingMoves DEF MqttConnects, SubscribeFails, ConnectionLost, SensorSent,
     HandlerReturns
<1>6. QED
  BY <1>1, <1>2, <1>3, <1>4, <1>5 DEF MqttStep

LEMMA ConStepSafe ==
  ASSUME CoreInv, ConStep
  PROVE  CoreInv'
<1>1. ASSUME NEW c, NEW arrives, Check(c, arrives)
      PROVE  CoreInv'
  <2> DEFINE text == IF c \in down THEN "cannot connect" ELSE "restored"
  <2>1. Con \in Senders /\ text \in Texts
    BY SendersAssumption
  <2>2. SendAlert(Con, text) \/ Lost(Con) \/ UNCHANGED coreVars
    BY <1>1 DEF Check
  <2> HIDE DEF text
  <2>3. QED
    BY <2>1, <2>2, AlertStep, NothingMoves
<1>2. CASE ConAnswered \/ NextRound
  BY <1>2, NothingMoves DEF ConAnswered, NextRound
<1>3. QED
  BY <1>1, <1>2 DEF ConStep

LEMMA FaultsSafe ==
  ASSUME CoreInv, Faults
  PROVE  CoreInv'
<1>1. CASE MapRace
  BY <1>1, RestartStep DEF MapRace
<1>2. ASSUME NEW a, ForwardLost(a)
      PROVE  CoreInv'
  BY <1>2, NoHandlerMoves DEF ForwardLost, CoreInv, LockTypes
<1>3. ASSUME NEW x, InfluxBecomes(x)
      PROVE  CoreInv'
  BY <1>3, NoHandlerMoves DEF InfluxBecomes, CoreInv, LockTypes
<1>4. ASSUME NEW x, DeviceBecomes(x)
      PROVE  CoreInv'
  BY <1>4, NothingMoves DEF DeviceBecomes
<1>5. ASSUME NEW c, PeerChanges(c)
      PROVE  CoreInv'
  BY <1>5, NothingMoves DEF PeerChanges
<1>6. QED
  BY <1>1, <1>2, <1>3, <1>4, <1>5 DEF Faults

\* writeLock is held or asked for by exactly the handlers that are in BatchWrite, in
\* http.go and influx.go, whatever the readers send, however many handlers are open,
\* and though senders give up, InfluxDB fails and the process is started over.
THEOREM LockIsSound == Spec => []LockSound
<1>1. Init => CoreInv
  <2> SUFFICES ASSUME Init
               PROVE  CoreInv
    OBVIOUS
  <2>1. PICK f \in Fleets : CoreInit("influx" \in f.faults)
    BY DEF Init
  <2>2. /\ handler = [s \in Senders |-> [i \in 1..Slots |-> Free]]
        /\ waiting = [s \in Senders |-> 0] /\ lock = <<>> /\ Len(lock) = 0
    BY <2>1 DEF CoreInit
  <2>3. LockTypes
    BY <2>2, SlotsAssumption DEF LockTypes, Free, Request
  <2>4. \A h \in Handlers : PC(h) = "free"
    BY <2>2, HandlerParts DEF PC, Free
  <2>5. {lock[i] : i \in 1..Len(lock)} = {} /\ {h \in Handlers : PC(h) = "write"} = {}
    BY <2>2, <2>4
  <2>6. LockSound
    BY <2>2, <2>5 DEF LockSound
  <2>7. QED
    BY <2>3, <2>6 DEF CoreInv
<1>2. CoreInv /\ [Next]_vars => CoreInv'
  <2> SUFFICES ASSUME CoreInv, [Next]_vars
               PROVE  CoreInv'
    OBVIOUS
  <2>1. CASE Next
    BY <2>1, ModbusStepSafe, PollStepSafe, MqttStepSafe, ConStepSafe, CoreStepSafe,
       FaultsSafe DEF Next, ModbusNext, PollNext, MqttNext, ConNext, CoreNext
  <2>2. CASE UNCHANGED vars
    BY <2>2, NothingMoves DEF vars
  <2>3. QED
    BY <2>1, <2>2
<1>3. CoreInv => LockSound
  BY DEF CoreInv
<1>4. QED
  BY <1>1, <1>2, <1>3, PTL DEF Spec

\* mqtt-reader: the rules never change, all their filters are well formed once a message
\* can arrive, and a message leads to calls of the handler until it is done with.
MqttInv ==
  /\ MqttTypeOK
  /\ rules \subseteq TopicRule /\ IsFiniteSet(rules) /\ \A r \in rules : r.filter # <<>>
  /\ calls > 0 <=> mqpc \in {"message", "message:wait"}
  /\ calls > 0 => topic \in Topics
  /\ mqpc \in {"subscribed", "message", "message:wait"} =>
       \A r \in rules : ValidFilter(r.filter)

\* The values of a function on a finite set are finitely many.
LEMMA FiniteRange ==
  ASSUME NEW S, IsFiniteSet(S), NEW f
  PROVE  IsFiniteSet({f[x] : x \in S})
<1> DEFINE T == {f[x] : x \in S}
           g == [x \in S |-> f[x]]
<1>1. g \in Surjection(S, T)
  BY DEF Surjection
<1> HIDE DEF g, T
<1>2. IsFiniteSet(T)
  BY <1>1, FS_Surjection
<1>3. QED
  BY <1>2 DEF T

\* The filter a reading gives, or the default of its sensor.
LEMMA RulesFinite ==
  ASSUME NEW sensors \in Seq(TopicRule)
  PROVE  /\ Rules(sensors) \subseteq TopicRule /\ IsFiniteSet(Rules(sensors))
         /\ \A r \in Rules(sensors) : r.filter # <<>>
<1> DEFINE WithTopic(s) == [s EXCEPT !.filter = IF s.given THEN @ ELSE s.default]
           all == {WithTopic(s) : s \in ToSet(sensors)}
           f   == [i \in 1..Len(sensors) |-> WithTopic(sensors[i])]
<1>1. Rules(sensors) = {r \in all : r.filter # <<>>}
  BY DEF Rules
<1>2. ToSet(sensors) = {sensors[i] : i \in 1..Len(sensors)} /\ ToSet(sensors) \subseteq TopicRule
  BY DEF ToSet
<1>3. ASSUME NEW s \in TopicRule
      PROVE  WithTopic(s) \in TopicRule
  BY DEF TopicRule, Levels
<1>4. all \subseteq TopicRule
  BY <1>2, <1>3
<1>5. all = {f[i] : i \in 1..Len(sensors)}
  <2>1. \A i \in 1..Len(sensors) : f[i] = WithTopic(sensors[i])
    OBVIOUS
  <2> HIDE DEF WithTopic, f
  <2>2. QED
    BY <1>2, <2>1
<1> HIDE DEF f, all
<1>6. IsFiniteSet(all)
  <2>1. IsFiniteSet(1..Len(sensors))
    BY FS_Interval
  <2>2. QED
    BY <1>5, <2>1, FiniteRange
<1>7. QED
  BY <1>1, <1>4, <1>6, FS_Subset

\* Finitely many filters match a topic, for the broker and for the library: a message
\* leads to finitely many calls, and to one at least.
LEMMA MatchesFinite ==
  ASSUME MqttInv, NEW t
  PROVE  /\ Cardinality({f \in granted : FilterMatches(f, t)}) \in Nat
         /\ Cardinality({f \in UniqueTopics : LibraryMatches(f, t)}) \in Nat
         /\ Cardinality({f \in granted : FilterMatches(f, t)})
              <= Cardinality({f \in UniqueTopics : LibraryMatches(f, t)})
<1> DEFINE g == [r \in rules |-> r.filter]
           G == {f \in granted : FilterMatches(f, t)}
           M == {f \in UniqueTopics : LibraryMatches(f, t)}
<1>1. UniqueTopics = {g[r] : r \in rules}
  BY DEF UniqueTopics
<1> HIDE DEF g
<1>2. IsFiniteSet(UniqueTopics)
  BY <1>1, FiniteRange DEF MqttInv
<1>3. M \subseteq UniqueTopics /\ G \subseteq M
  BY DEF MqttInv, MqttTypeOK, FilterMatches
<1> HIDE DEF G, M
<1>4. IsFiniteSet(M) /\ IsFiniteSet(G)
  BY <1>2, <1>3, FS_Subset
<1>5. Cardinality(G) <= Cardinality(M)
  BY <1>3, <1>4, FS_Subset
<1>6. QED
  BY <1>4, <1>5, FS_CardinalityType DEF G, M

\* mqtt-reader starts without a message.
LEMMA MqttInitSafe ==
  ASSUME NEW sensors \in Seq(TopicRule), MqttInit(sensors)
  PROVE  MqttInv
  BY RulesFinite DEF MqttInit, MqttInv, MqttTypeOK

\* What the reader, its broker and core-switch's answers do to it.
LEMMA MqttStepInv ==
  ASSUME MqttInv, MqttStep
  PROVE  MqttInv'
<1> USE DEF GoQ
<1>1. CASE MqttConnects \/ SubscribeFails \/ ConnectionLost \/ SensorSent
  BY <1>1 DEF MqttConnects, SubscribeFails, ConnectionLost, SensorSent, MqttInv,
     MqttTypeOK, UniqueTopics
<1>2. CASE HandlerReturns
  BY <1>2 DEF HandlerReturns, MqttInv, MqttTypeOK, Fired, UniqueTopics
<1>3. ASSUME NEW accepted \in SUBSET UniqueTopics, Subscribe(accepted) PROVE MqttInv'
  BY <1>3 DEF Subscribe, MqttInv, MqttTypeOK, UniqueTopics
<1>4. ASSUME NEW t \in Topics, Publish(t) PROVE MqttInv'
  <2> DEFINE matching == Cardinality({f \in granted : FilterMatches(f, t)})
             routes   == Cardinality({f \in UniqueTopics : LibraryMatches(f, t)})
  <2>0. matching \in Nat /\ routes \in Nat /\ matching <= routes
    BY MatchesFinite
  <2>1. matching \in Nat /\ matching > 0 /\ routes \in Nat /\ routes > 0
    <3>1. matching > 0
      BY <1>4 DEF Publish
    <3> HIDE DEF matching, routes
    <3>2. QED
      BY <2>0, <3>1
  <2>2. PICK copies \in {1, matching} : calls' = copies * routes
    BY <1>4 DEF Publish
  <2>3. /\ mqpc = "subscribed" /\ mqpc' = "message" /\ topic' = t
        /\ UNCHANGED <<rules, granted>> /\ batch' = {r.sensor : r \in Fired(t)}
    BY <1>4 DEF Publish
  <2> HIDE DEF matching, routes
  <2>4. calls' \in Nat /\ calls' > 0
    <3>1. matching * routes \in Nat /\ matching * routes > 0
      BY <2>1
    <3>2. CASE copies = 1
      BY <2>1, <2>2, <3>2
    <3>3. CASE copies = matching
      BY <2>2, <3>1, <3>3
    <3>4. QED
      BY <3>2, <3>3
  <2>5. batch' \subseteq {r.sensor : r \in rules}
    BY <2>3 DEF Fired
  <2>6. MqttTypeOK'
    BY <2>3, <2>4, <2>5 DEF MqttInv, MqttTypeOK, UniqueTopics
  <2>7. QED
    BY <2>3, <2>4, <2>6 DEF MqttInv
<1>5. ASSUME NEW s, SendSensor(s) \/ NoValue(s) PROVE MqttInv'
  BY <1>5 DEF SendSensor, NoValue, MqttInv, MqttTypeOK, UniqueTopics
<1>6. QED
  BY <1>1, <1>2, <1>3, <1>4, <1>5 DEF MqttStep

\* The loop of mqttTopicMatch finds what the client library finds.
LEMMA MatchIsExact ==
  ASSUME NEW f \in Levels, f # <<>>, ValidFilter(f),
         NEW t \in Levels, \A i \in 1..Len(t) : t[i] \notin {"+", "#"}
  PROVE  MqttTopicMatch(f, t) <=> LibraryMatches(f, t)
<1>1. Len(f) \in Nat \ {0} /\ Len(t) \in Nat /\ Last(f) = f[Len(f)]
  BY DEF Levels, Last
<1>2. \A i \in 1..Len(f) : f[i] = "#" => i = Len(f)
  BY DEF ValidFilter
<1> DEFINE hashes == {i \in 1..Len(f) : f[i] = "#"}
           Fits(j) == j <= Len(t) /\ f[j] \in {"+", t[j]}
<1>0. MqttTopicMatch(f, t) <=>
        \/ f = t
        \/ \E i \in hashes : \A j \in 1..(i - 1) : Fits(j)
        \/ hashes = {} /\ Len(f) = Len(t) /\ \A j \in 1..Len(f) : Fits(j)
  BY DEF MqttTopicMatch
<1>3. CASE Last(f) = "#"
  <2>1. f # t
    <3>1. Len(f) \in 1..Len(f) /\ f[Len(f)] = "#"
      BY <1>1, <1>3
    <3>2. QED
      BY <3>1
  <2>2. hashes = {Len(f)}
    <3>1. Len(f) \in 1..Len(f) /\ f[Len(f)] = "#"
      BY <1>1, <1>3
    <3>2. QED
      BY <1>2, <3>1
  <2>3. MqttTopicMatch(f, t) <=> \A j \in 1..(Len(f) - 1) : Fits(j)
    <3> HIDE DEF hashes, Fits
    <3>1. QED
      BY <1>0, <2>1, <2>2
  <2>4. LibraryMatches(f, t) <=>
          /\ Len(t) >= Len(f) - 1
          /\ \A i \in 1..(Len(f) - 1) : f[i] = "+" \/ f[i] = t[i]
    BY <1>3 DEF LibraryMatches
  <2>5. (\A j \in 1..(Len(f) - 1) : j <= Len(t)) <=> Len(t) >= Len(f) - 1
    BY <1>1
  <2>6. QED
    BY <2>3, <2>4, <2>5
<1>4. CASE Last(f) # "#"
  <2>1. hashes = {}
    BY <1>1, <1>2, <1>4
  <2>2. MqttTopicMatch(f, t) <=>
          \/ f = t
          \/ /\ Len(f) = Len(t)
             /\ \A j \in 1..Len(f) : j <= Len(t) /\ f[j] \in {"+", t[j]}
    BY <1>0, <2>1
  <2>3. LibraryMatches(f, t) <=>
          Len(t) = Len(f) /\ \A i \in 1..Len(f) : f[i] = "+" \/ f[i] = t[i]
    BY <1>4 DEF LibraryMatches
  <2>4. QED
    BY <1>1, <2>2, <2>3
<1>5. QED
  BY <1>3, <1>4

\* Nothing but its own steps touches the reader.
LEMMA MqttNextInv == MqttInv /\ [Next]_vars => MqttInv'
<1> SUFFICES ASSUME MqttInv, [Next]_vars PROVE MqttInv'
  OBVIOUS
<1>1. CASE MqttNext
  BY <1>1, MqttStepInv DEF MqttNext
<1>2. ASSUME UNCHANGED mqttVars PROVE MqttInv'
  BY <1>2 DEF mqttVars, MqttInv, MqttTypeOK, UniqueTopics
<1>3. QED
  BY <1>1, <1>2 DEF Next, vars, ModbusNext, PollNext, ConNext, CoreNext, Faults

\* A message fires every rule of mqtt-reader whose filter matches its topic as MQTT
\* defines it, and the only others it fires have a leading wildcard, on a topic that
\* begins with "$": whatever the rules are, however many filters match and whichever of
\* them the broker accepted.
THEOREM FiredIsExact == Spec => []FiredExactly
<1>1. Init => MqttInv
  BY MqttInitSafe, FleetsAssumption DEF Init
<1>2. MqttInv => FiredExactly
  <2> SUFFICES ASSUME MqttInv, calls > 0
               PROVE  \A r \in rules :
                        MqttTopicMatch(r.filter, topic) <=>
                          \/ FilterMatches(r.filter, topic)
                          \/ /\ LibraryMatches(r.filter, topic)
                             /\ WildOnDollar(r.filter, topic)
    BY DEF FiredExactly, Fired
  <2>1. topic \in Levels /\ \A i \in 1..Len(topic) : topic[i] \notin {"+", "#"}
    BY TopicsAssumption DEF MqttInv
  <2>2. \A r \in rules : r.filter \in Levels /\ r.filter # <<>> /\ ValidFilter(r.filter)
    BY DEF MqttInv, TopicRule
  <2>3. \A r \in rules : MqttTopicMatch(r.filter, topic) <=> LibraryMatches(r.filter, topic)
    BY <2>1, <2>2, MatchIsExact
  <2>4. QED
    BY <2>3 DEF FilterMatches
<1>3. QED
  BY <1>1, <1>2, MqttNextInv, PTL DEF Spec

(***************************************************************************)
(* Induction, and what is computed step by step                            *)
(***************************************************************************)

\* Induction over the naturals, about a set of them.
LEMMA SetInduction ==
  ASSUME NEW S, 0 \in S, \A n \in Nat : n \in S => n + 1 \in S
  PROVE  Nat \subseteq S
<1> DEFINE R == {p \in Nat \X Nat : p[1] < p[2]}
           T == {n \in Nat : n \notin S}
<1>1. IsWellFoundedOn(R, Nat)
  BY NatLessThanWellFounded DEF OpToRel
<1>2. SUFFICES ASSUME T # {} PROVE FALSE
  OBVIOUS
<1>3. PICK x \in T : \A y \in T : ~(<<y, x>> \in R)
  <2> HIDE DEF R, T
  <2>1. T \subseteq Nat
    BY DEF T
  <2>2. QED
    BY <1>1, <1>2, <2>1, WFMin, Zenon
<1>4. x \in Nat /\ x - 1 \in Nat /\ x - 1 + 1 = x
  OBVIOUS
<1>5. x - 1 \in T
  BY <1>4
<1>6. <<x - 1, x>> \in Nat \X Nat /\ x - 1 < x
  BY <1>4
<1>7. <<x - 1, x>> \in R
  BY <1>6
<1>8. QED
  BY <1>3, <1>5, <1>7

\* A set of numbers that is bounded and not empty has a greatest.
LEMMA MaxIs ==
  ASSUME NEW n \in Nat, NEW T, T \subseteq 0..n, T # {}
  PROVE  Max(T) \in T /\ \A y \in T : y <= Max(T)
<1> DEFINE S == {m \in Nat : (\E y \in T : n - m <= y) => \E x \in T : \A y \in T : y <= x}
<1>1. 0 \in S
  OBVIOUS
<1>2. ASSUME NEW m \in Nat, m \in S
      PROVE  m + 1 \in S
  <2>1. SUFFICES ASSUME NEW z \in T, n - (m + 1) <= z
                 PROVE  \E x \in T : \A y \in T : y <= x
    OBVIOUS
  <2>2. CASE \E y \in T : n - m <= y
    BY <1>2, <2>2
  <2>3. CASE ~\E y \in T : n - m <= y
    <3>1. \A y \in T : y <= z
      BY <2>1, <2>3
    <3>2. QED
      BY <3>1
  <2>4. QED
    BY <2>2, <2>3
<1>3. Nat \subseteq S
  <2> HIDE DEF S
  <2>1. QED
    BY <1>1, <1>2, SetInduction
<1>4. n \in S
  <2> HIDE DEF S
  <2>1. QED
    BY <1>3
<1>5. PICK x \in T : \A y \in T : y <= x
  <2>1. \E y \in T : n - n <= y
    <3>1. PICK y : y \in T
      OBVIOUS
    <3>2. n - n = 0 /\ 0 <= y
      BY <3>1
    <3>3. QED
      BY <3>1, <3>2
  <2>2. QED
    BY <1>4, <2>1
<1>6. x \in T /\ \A y \in T : x >= y
  BY <1>5
<1>7. Max(T) \in T /\ \A y \in T : Max(T) >= y
  BY <1>6 DEF Max
<1>8. QED
  BY <1>7

\* f is what step computes from x on, in n steps.
Iterated(f, n, S, x, step) ==
  f \in [0..n -> S] /\ f[0] = x /\ \A i \in 1..n : f[i] = step[<<i, f[i - 1]>>]

\* What is computed from step to step, beginning with x, is a function.
LEMMA Iterates ==
  ASSUME NEW n \in Nat, NEW S, NEW x \in S, NEW step \in [(1..n) \X S -> S]
  PROVE  \E f : Iterated(f, n, S, x, step)
<1> DEFINE Upto(f, m) == /\ f \in [0..m -> S] /\ f[0] = x
                         /\ \A i \in 1..m : f[i] = step[<<i, f[i - 1]>>]
           U == {m \in Nat : m <= n => \E f : Upto(f, m)}
<1>1. 0 \in U
  <2>1. Upto([i \in 0..0 |-> x], 0)
    OBVIOUS
  <2>2. QED
    BY <2>1
<1>2. ASSUME NEW m \in Nat, m \in U
      PROVE  m + 1 \in U
  <2>1. SUFFICES ASSUME m + 1 <= n PROVE \E f : Upto(f, m + 1)
    <3> HIDE DEF Upto
    <3>1. QED
      OBVIOUS
  <2>2. PICK f : Upto(f, m)
    <3> HIDE DEF Upto
    <3>1. m <= n
      BY <2>1
    <3>2. QED
      BY <1>2, <3>1
  <2> DEFINE next == step[<<m + 1, f[m]>>]
             g == [i \in 0..(m + 1) |-> IF i = m + 1 THEN next ELSE f[i]]
  <2>3. next \in S
    <3>1. m + 1 \in 1..n /\ f[m] \in S
      BY <2>1, <2>2
    <3>2. QED
      BY <3>1
  <2>4. g \in [0..(m + 1) -> S]
    <3>1. \A i \in 0..(m + 1) : i # m + 1 => i \in 0..m
      OBVIOUS
    <3> HIDE DEF next
    <3>2. QED
      BY <2>2, <2>3, <3>1
  <2>5. g[0] = x
    BY <2>2
  <2>6. ASSUME NEW i \in 1..(m + 1)
        PROVE  g[i] = step[<<i, g[i - 1]>>]
    <3>1. CASE i = m + 1
      <4>1. (m + 1) - 1 = m /\ m \in 0..(m + 1) /\ m + 1 \in 0..(m + 1) /\ m # m + 1
        OBVIOUS
      <4>2. g[m + 1] = next /\ g[m] = f[m]
        BY <4>1
      <4>3. QED
        BY <3>1, <4>1, <4>2
    <3>2. CASE i # m + 1
      <4>1. i \in 1..m /\ i \in 0..(m + 1) /\ i - 1 \in 0..(m + 1) /\ i - 1 # m + 1
        BY <3>2
      <4>2. g[i] = f[i] /\ g[i - 1] = f[i - 1]
        BY <3>2, <4>1
      <4>3. QED
        BY <2>2, <4>1, <4>2
    <3>3. QED
      BY <3>1, <3>2
  <2>7. Upto(g, m + 1)
    BY <2>4, <2>5, <2>6
  <2>8. QED
    BY <2>7
<1>3. Nat \subseteq U
  <2> HIDE DEF U
  <2>1. QED
    BY <1>1, <1>2, SetInduction
<1>4. PICK f : Upto(f, n)
  <2> HIDE DEF Upto
  <2>1. n \in U
    BY <1>3
  <2>2. QED
    BY <2>1
<1>5. QED
  BY <1>4 DEF Iterated

\* Addresses and counts wrap at most once here.
LEMMA ModFacts ==
  ASSUME NEW n \in Nat \ {0}, NEW x \in Nat
  PROVE  /\ x % n \in 0..(n - 1)
         /\ x < n => x % n = x
         /\ n <= x /\ x < n + n => x % n = x - n
OBVIOUS

\* A reading once its type has been given its name.
Row == [eq : STRING, type : STRING \cup Known, addr : 0..(AddrSpace - 1), wide : BOOLEAN]

\* Sorted, and of known types only.
Up(s) == \A i, j \in 1..Len(s) : i < j => ~Less(s[j], s[i])
KnownIn(s) == \A i \in 1..Len(s) : s[i].type \in Known

\* For types that are known the order is by letter, then by address.
LEMMA LessFacts ==
  ASSUME NEW a \in Row, NEW b \in Row, a.type \in Known, b.type \in Known
  PROVE  /\ Letter(a.type) \in {72, 73} /\ Letter(b.type) \in {72, 73}
         /\ Less(a, b) <=> \/ Letter(a.type) < Letter(b.type)
                           \/ Letter(a.type) = Letter(b.type) /\ a.addr < b.addr
         /\ a.addr \in Nat /\ b.addr \in Nat
BY BlockAssumption DEF Less, Letter, Known, Row

\* One element more, and a sorted sequence stays sorted.
LEMMA InsertFacts ==
  ASSUME NEW s \in Seq(Row), NEW r \in Row
  PROVE  /\ Insert(s, r) \in Seq(Row) /\ Len(Insert(s, r)) = Len(s) + 1
         /\ \E i \in 1..(Len(s) + 1) : Insert(s, r)[i] = r
         /\ \A j \in 1..Len(s) : \E i \in 1..(Len(s) + 1) : Insert(s, r)[i] = s[j]
         /\ KnownIn(s) /\ Up(s) /\ r.type \in Known => Up(Insert(s, r))
<1> DEFINE n == Len(s)
           stops == {k \in 1..n : ~Less(r, s[k])}
           k == Max({0} \cup stops)
           t == Insert(s, r)
<1>1. n \in Nat /\ \A i \in 1..n : s[i] \in Row
  OBVIOUS
<1>2. k \in {0} \cup stops /\ \A y \in {0} \cup stops : y <= k
  <2>1. {0} \cup stops \subseteq 0..n /\ {0} \cup stops # {}
    BY <1>1
  <2> HIDE DEF stops
  <2>2. QED
    BY <1>1, <2>1, MaxIs
<1>3. k \in 0..n
  BY <1>1, <1>2
<1>4. t = SubSeq(s, 1, k) \o <<r>> \o SubSeq(s, k + 1, n)
  <2>1. t = InsertAt(s, k + 1, r)
    BY DEF Insert
  <2>2. (k + 1) - 1 = k
    BY <1>3
  <2> HIDE DEF k, t
  <2>3. QED
    BY <2>1, <2>2 DEF InsertAt
<1> HIDE DEF k, t
<1>5. /\ t \in Seq(Row) /\ Len(t) = n + 1 /\ t[k + 1] = r
      /\ \A i \in 1..k : t[i] = s[i]
      /\ \A i \in (k + 1)..n : t[i + 1] = s[i]
  <2> DEFINE u == SubSeq(s, 1, k)
             v == SubSeq(s, k + 1, n)
  <2>1. u \in Seq(Row) /\ Len(u) = k /\ \A i \in 1..k : u[i] = s[i]
    BY <1>1, <1>3, SubSeqProperties
  <2>2. v \in Seq(Row) /\ Len(v) = n - k /\ \A i \in 1..(n - k) : v[i] = s[k + i]
    BY <1>1, <1>3, SubSeqProperties
  <2> HIDE DEF u, v
  <2>3. <<r>> \in Seq(Row) /\ Len(<<r>>) = 1 /\ <<r>>[1] = r
    OBVIOUS
  <2>4. t = u \o <<r>> \o v
    BY <1>4 DEF u, v
  <2> DEFINE w == u \o <<r>>
  <2>5. w \in Seq(Row) /\ Len(w) = k + 1 /\ w[k + 1] = r /\ \A i \in 1..k : w[i] = u[i]
    BY <1>3, <2>1, <2>3
  <2> HIDE DEF w
  <2>6. t = w \o v
    BY <2>4 DEF w
  <2>7. t \in Seq(Row) /\ Len(t) = n + 1
    <3>1. t \in Seq(Row) /\ Len(t) = Len(w) + Len(v)
      BY <2>2, <2>5, <2>6, ConcatProperties
    <3>2. QED
      BY <1>1, <1>3, <2>2, <2>5, <3>1
  <2>8. \A i \in 1..(k + 1) : t[i] = w[i]
    BY <1>1, <1>3, <2>2, <2>5, <2>6
  <2>9. \A i \in (k + 1)..n : t[i + 1] = s[i]
    <3>1. TAKE i \in (k + 1)..n
    <3>2. i + 1 \in 1..(n + 1) /\ i + 1 > k + 1 /\ (i + 1) - (k + 1) = i - k /\ i - k \in 1..(n - k) /\ k + (i - k) = i
      BY <1>1, <1>3
    <3>3. t[i + 1] = v[(i + 1) - (k + 1)]
      BY <1>1, <1>3, <2>2, <2>5, <2>6, <2>7, <3>2
    <3>4. QED
      BY <2>2, <3>2, <3>3
  <2>10. k + 1 \in 1..(k + 1) /\ \A i \in 1..k : i \in 1..(k + 1)
    BY <1>3
  <2>11. QED
    BY <2>1, <2>5, <2>7, <2>8, <2>9, <2>10
<1>6. \A j \in 1..n : \E i \in 1..(n + 1) : t[i] = s[j]
  <2>1. TAKE j \in 1..n
  <2>2. CASE j <= k
    <3>1. j \in 1..k /\ j \in 1..(n + 1)
      BY <1>1, <1>3, <2>2
    <3>2. QED
      BY <1>5, <3>1
  <2>3. CASE j > k
    <3>1. j \in (k + 1)..n /\ j + 1 \in 1..(n + 1)
      BY <1>1, <1>3, <2>3
    <3>2. QED
      BY <1>5, <3>1
  <2>4. QED
    BY <1>1, <1>3, <2>2, <2>3
<1>7. ASSUME KnownIn(s), Up(s), r.type \in Known
      PROVE  Up(t)
  <2>1. \A i \in 1..n : s[i] \in Row /\ s[i].type \in Known
    BY <1>1, <1>7 DEF KnownIn
  <2>2. \A i \in 1..k : ~Less(r, s[i])
    <3>1. TAKE i \in 1..k
    <3>2. k \in stops /\ k \in 1..n /\ i \in 1..n
      BY <1>1, <1>2, <1>3
    <3>3. ~Less(r, s[k])
      BY <3>2
    <3>4. i = k \/ ~Less(s[k], s[i])
      BY <1>7, <3>2 DEF Up
    <3>5. QED
      BY <2>1, <3>2, <3>3, <3>4, <1>7, LessFacts
  <2>3. \A i \in (k + 1)..n : ~Less(s[i], r)
    <3>1. TAKE i \in (k + 1)..n
    <3>2. i \in 1..n /\ i \notin stops
      BY <1>1, <1>2, <1>3
    <3>3. Less(r, s[i])
      BY <3>2
    <3>4. QED
      BY <2>1, <3>2, <3>3, <1>7, LessFacts
  <2>4. SUFFICES ASSUME NEW i \in 1..(n + 1), NEW j \in 1..(n + 1), i < j
                 PROVE  ~Less(t[j], t[i])
    BY <1>5 DEF Up
  <2>5. CASE j <= k
    <3>1. i \in 1..k /\ j \in 1..k /\ i \in 1..n /\ j \in 1..n
      BY <1>1, <1>3, <2>4, <2>5
    <3>2. t[i] = s[i] /\ t[j] = s[j]
      BY <1>5, <3>1
    <3>3. QED
      BY <1>7, <2>4, <3>1, <3>2 DEF Up
  <2>6. CASE j = k + 1
    <3>1. i \in 1..k
      BY <1>1, <1>3, <2>4, <2>6
    <3>2. QED
      BY <1>5, <2>2, <2>6, <3>1
  <2>7. CASE j > k + 1
    <3>1. j - 1 \in (k + 1)..n /\ (j - 1) + 1 = j /\ j - 1 \in 1..n
      BY <1>1, <1>3, <2>7
    <3>2. t[j] = s[j - 1]
      BY <1>5, <3>1
    <3>3. CASE i <= k
      <4>1. i \in 1..k /\ i \in 1..n /\ i < j - 1
        BY <1>1, <1>3, <2>7, <3>3
      <4>2. t[i] = s[i]
        BY <1>5, <4>1
      <4>3. QED
        BY <1>7, <3>1, <3>2, <4>1, <4>2 DEF Up
    <3>4. CASE i = k + 1
      BY <1>5, <2>3, <3>1, <3>2, <3>4
    <3>5. CASE i > k + 1
      <4>1. i - 1 \in (k + 1)..n /\ (i - 1) + 1 = i /\ i - 1 \in 1..n /\ i - 1 < j - 1
        BY <1>1, <1>3, <2>4, <3>5
      <4>2. t[i] = s[i - 1]
        BY <1>5, <4>1
      <4>3. QED
        BY <1>7, <3>1, <3>2, <4>1, <4>2 DEF Up
    <3>6. QED
      BY <1>3, <3>3, <3>4, <3>5
  <2>8. QED
    BY <1>3, <2>5, <2>6, <2>7
<1>8. \E i \in 1..(n + 1) : t[i] = r
  <2>1. k + 1 \in 1..(n + 1)
    BY <1>1, <1>3
  <2>2. QED
    BY <1>5, <2>1
<1>9. QED
  BY <1>5, <1>6, <1>7, <1>8 DEF t

(***************************************************************************)
(* modbus-reader: sorting, addresses and blocks                            *)
(***************************************************************************)

\* A reading is still one when its type has been given its name.
LEMMA ParsedFacts ==
  ASSUME NEW r \in Reading
  PROVE  Parsed(r) \in Row
<1>1. \A x \in STRING \cup Known : [r EXCEPT !.type = x] \in Row
  BY DEF Reading, Row
<1>2. r.type \in STRING
  BY DEF Reading
<1>3. NormalType(r.type) \in STRING \cup Known
  BY <1>2 DEF NormalType, Known
<1>4. QED
  BY <1>1, <1>3 DEF Parsed

\* What Init leaves in recs.
RecsSound(s) == s \in Seq(Row) /\ (KnownIn(s) => Up(s))

\* Sorted sorts, when the types are known.
LEMMA SortedFacts ==
  ASSUME NEW readings \in Seq(Reading)
  PROVE  RecsSound(Sorted(readings)) /\ Len(Sorted(readings)) = Len(readings)
<1> DEFINE n == Len(readings)
           IsTable(f) == f = [i \in 0..n |->
             IF i = 0 THEN <<>> ELSE Insert(f[i - 1], Parsed(readings[i]))]
           sorted == CHOOSE f : IsTable(f)
           step == [p \in (1..n) \X Seq(Row) |-> Insert(p[2], Parsed(readings[p[1]]))]
<1>1. n \in Nat /\ \A i \in 1..n : Parsed(readings[i]) \in Row
  BY ParsedFacts
<1>2. step \in [(1..n) \X Seq(Row) -> Seq(Row)]
  <2>1. \A p \in (1..n) \X Seq(Row) : Insert(p[2], Parsed(readings[p[1]])) \in Seq(Row)
    <3>1. TAKE p \in (1..n) \X Seq(Row)
    <3>2. p[1] \in 1..n /\ p[2] \in Seq(Row)
      OBVIOUS
    <3>3. QED
      BY <1>1, <3>2, InsertFacts
  <2>2. QED
    BY <2>1
<1>3. \E f : IsTable(f)
  <2>1. \A i \in 1..n, s \in Seq(Row) :
          step[<<i, s>>] = Insert(s, Parsed(readings[i]))
    OBVIOUS
  <2> HIDE DEF step
  <2>2. <<>> \in Seq(Row)
    OBVIOUS
  <2>3. PICK f \in [0..n -> Seq(Row)] :
          f[0] = <<>> /\ \A i \in 1..n : f[i] = step[<<i, f[i - 1]>>]
    <3> DEFINE Sr == Seq(Row)
               e == <<>>
    <3> HIDE DEF Sr, e, n
    <3>1. e \in Sr /\ step \in [(1..n) \X Sr -> Sr] /\ n \in Nat
      BY <1>1, <1>2, <2>2 DEF Sr, e
    <3>2. \E f : Iterated(f, n, Sr, e, step)
      BY <3>1, Iterates
    <3>3. QED
      BY <3>2 DEF Iterated, Sr, e
  <2>4. \A i \in 1..n : f[i] = Insert(f[i - 1], Parsed(readings[i]))
    <3>1. TAKE i \in 1..n
    <3>2. i - 1 \in 0..n
      BY <1>1
    <3>3. f[i - 1] \in Seq(Row)
      BY <2>3, <3>2
    <3>4. QED
      BY <2>1, <2>3, <3>3
  <2>5. \A i \in 0..n : f[i] = IF i = 0 THEN <<>> ELSE Insert(f[i - 1], Parsed(readings[i]))
    <3>1. TAKE i \in 0..n
    <3>2. i = 0 \/ i \in 1..n
      BY <1>1
    <3>3. QED
      BY <1>1, <2>3, <2>4, <3>2
  <2>6. f = [i \in 0..n |-> f[i]]
    BY <2>3
  <2>7. IsTable(f)
    <3> DEFINE b(i) == IF i = 0 THEN <<>> ELSE Insert(f[i - 1], Parsed(readings[i]))
    <3>1. \A i \in 0..n : f[i] = b(i)
      BY <2>5
    <3> HIDE DEF b
    <3>2. f = [i \in 0..n |-> b(i)]
      BY <2>6, <3>1
    <3>3. QED
      BY <3>2 DEF b
  <2>8. QED
    BY <2>7
<1>4. IsTable(sorted)
  <2> HIDE DEF IsTable
  <2>1. QED
    BY <1>3
<1>5. Sorted(readings) = sorted[n]
  BY DEF Sorted
<1>6. /\ sorted[0] = <<>>
      /\ \A m \in Nat : m + 1 <= n => sorted[m + 1] = Insert(sorted[m], Parsed(readings[m + 1]))
  <2>1. \A i \in 0..n : sorted[i] = IF i = 0 THEN <<>> ELSE Insert(sorted[i - 1], Parsed(readings[i]))
    <3> HIDE DEF sorted
    <3>1. QED
      BY <1>4
  <2> HIDE DEF sorted, IsTable
  <2>2. 0 \in 0..n /\ \A m \in Nat : m + 1 <= n =>
          m + 1 \in 0..n /\ m + 1 # 0 /\ (m + 1) - 1 = m
    BY <1>1
  <2>3. QED
    BY <2>1, <2>2
<1> HIDE DEF sorted, IsTable, step
<1> DEFINE S == {m \in Nat : m <= n => RecsSound(sorted[m]) /\ Len(sorted[m]) = m}
<1>7. 0 \in S
  <2>1. RecsSound(<<>>)
    BY DEF RecsSound, Up
  <2>2. QED
    BY <1>6, <2>1
<1>8. ASSUME NEW m \in Nat, m \in S
      PROVE  m + 1 \in S
  <2>1. SUFFICES ASSUME m + 1 <= n
                 PROVE  RecsSound(sorted[m + 1]) /\ Len(sorted[m + 1]) = m + 1
    OBVIOUS
  <2>2. RecsSound(sorted[m]) /\ Len(sorted[m]) = m
    BY <1>1, <1>8, <2>1
  <2> DEFINE s == sorted[m]
             t == sorted[m + 1]
             r == Parsed(readings[m + 1])
  <2>3. s \in Seq(Row) /\ r \in Row /\ t = Insert(s, r)
    <3>1. m + 1 \in 1..n
      BY <1>1, <2>1
    <3>2. QED
      BY <1>1, <1>6, <2>1, <2>2, <3>1 DEF RecsSound
  <2>4. Len(s) = m /\ (KnownIn(s) => Up(s))
    BY <2>2 DEF RecsSound
  <2> HIDE DEF s, t, r
  <2>5. /\ t \in Seq(Row) /\ Len(t) = m + 1
        /\ \A j \in 1..Len(s) : \E i \in 1..(Len(s) + 1) : t[i] = s[j]
        /\ KnownIn(s) /\ Up(s) /\ r.type \in Known => Up(t)
    BY <2>3, <2>4, InsertFacts
  <2>6. KnownIn(t) => KnownIn(s)
    BY <2>4, <2>5 DEF KnownIn
  <2>7. KnownIn(t) => r.type \in Known
    <3>1. \E i \in 1..(Len(s) + 1) : t[i] = r
      BY <2>3, InsertFacts
    <3>2. QED
      BY <2>4, <2>5, <3>1 DEF KnownIn
  <2>8. RecsSound(t)
    BY <2>4, <2>5, <2>6, <2>7 DEF RecsSound
  <2>9. QED
    BY <2>5, <2>8 DEF t
<1>9. Nat \subseteq S
  <2> HIDE DEF S
  <2>1. QED
    BY <1>7, <1>8, SetInduction
<1>10. n \in S
  <2> HIDE DEF S
  <2>1. QED
    BY <1>1, <1>9
<1>11. QED
  BY <1>1, <1>5, <1>10

Addresses == 0..(AddrSpace - 1)

\* One address more at most, and it is in.
LEMMA WithAddrFacts ==
  ASSUME NEW s \in Seq(Addresses), NEW t, NEW r \in Row
  PROVE  LET u == WithAddr(s, t, r)
         IN  /\ u \in Seq(Addresses) /\ Len(u) \in {Len(s), Len(s) + 1}
             /\ \A i \in 1..Len(s) : i \in 1..Len(u) /\ u[i] = s[i]
             /\ Len(u) = Len(s) + 1 =>
                  /\ r.type = t /\ u[Len(s) + 1] = r.addr
                  /\ s # <<>> => s[Len(s)] # r.addr
             /\ r.type = t => \E i \in 1..Len(u) : u[i] = r.addr
<1> DEFINE u == WithAddr(s, t, r)
           skips == r.type # t \/ (s # <<>> /\ Last(s) = r.addr)
<1>1. r.addr \in Addresses /\ Len(s) \in Nat
  BY DEF Row, Addresses
<1>2. CASE skips
  <2>1. u = s
    BY <1>2 DEF WithAddr
  <2>2. r.type = t => \E i \in 1..Len(s) : s[i] = r.addr
    <3>1. s # <<>> => Len(s) \in 1..Len(s)
      BY <1>1
    <3>2. QED
      BY <1>2, <3>1 DEF Last
  <2>3. Len(s) # Len(s) + 1
    BY <1>1
  <2> HIDE DEF u
  <2>4. QED
    BY <2>1, <2>2, <2>3 DEF u
<1>3. CASE ~skips
  <2>1. u = Append(s, r.addr) /\ r.type = t /\ (s # <<>> => s[Len(s)] # r.addr)
    BY <1>3 DEF WithAddr, Last
  <2> HIDE DEF u
  <2>2. /\ u \in Seq(Addresses) /\ Len(u) = Len(s) + 1 /\ u[Len(s) + 1] = r.addr
        /\ \A i \in 1..Len(s) : i \in 1..Len(u) /\ u[i] = s[i]
        /\ Len(s) + 1 \in 1..Len(u)
    BY <1>1, <2>1
  <2>3. QED
    BY <2>1, <2>2 DEF u
<1>4. QED
  BY <1>2, <1>3

\* a holds the addresses of the first m readings of type t.
AddressTable(a, t, m) ==
  /\ a \in Seq(Addresses) /\ Len(a) <= m
  /\ \A j \in 1..m : recs[j].type = t => \E i \in 1..Len(a) : a[i] = recs[j].addr
  /\ \A i \in 1..Len(a) : \E j \in 1..m : recs[j].type = t /\ recs[j].addr = a[i]
  /\ KnownIn(recs) => \A i, j \in 1..Len(a) : i < j => a[i] < a[j]

\* One reading more.
LEMMA AddressStep ==
  ASSUME RecsSound(recs), NEW m \in Nat, m + 1 <= Len(recs), NEW t, NEW a,
         AddressTable(a, t, m)
  PROVE  AddressTable(WithAddr(a, t, recs[m + 1]), t, m + 1)
<1> DEFINE r == recs[m + 1]
           u == WithAddr(a, t, r)
           n == Len(a)
<1>1. /\ recs \in Seq(Row) /\ r \in Row /\ m + 1 \in 1..Len(recs)
      /\ \A j \in 1..m : j \in 1..Len(recs) /\ recs[j] \in Row /\ j \in 1..(m + 1)
      /\ m + 1 \in 1..(m + 1)
  BY DEF RecsSound
<1>2. a \in Seq(Addresses) /\ n \in Nat /\ n <= m
  BY DEF AddressTable
<1>3. /\ u \in Seq(Addresses) /\ Len(u) \in {n, n + 1}
      /\ \A i \in 1..n : i \in 1..Len(u) /\ u[i] = a[i]
      /\ Len(u) = n + 1 =>
           /\ r.type = t /\ u[n + 1] = r.addr
           /\ a # <<>> => a[n] # r.addr
      /\ r.type = t => \E i \in 1..Len(u) : u[i] = r.addr
  <2> HIDE DEF r
  <2>1. QED
    BY <1>1, <1>2, WithAddrFacts
<1> HIDE DEF u, n
<1>4. Len(u) <= m + 1
  BY <1>2, <1>3
<1>5. ASSUME NEW j \in 1..(m + 1), recs[j].type = t
      PROVE  \E i \in 1..Len(u) : u[i] = recs[j].addr
  <2>1. CASE j = m + 1
    BY <1>3, <1>5, <2>1
  <2>2. CASE j # m + 1
    <3>1. j \in 1..m
      BY <2>2
    <3>2. PICK i \in 1..n : a[i] = recs[j].addr
      BY <1>5, <3>1 DEF AddressTable, n
    <3>3. QED
      BY <1>3, <3>2
  <2>3. QED
    BY <2>1, <2>2
<1>6. \A i \in 1..Len(u) : i \in 1..n \/ (i = n + 1 /\ Len(u) = n + 1)
  BY <1>2, <1>3
<1>7. \A i \in 1..Len(u) : \E j \in 1..(m + 1) : recs[j].type = t /\ recs[j].addr = u[i]
  <2>1. TAKE i \in 1..Len(u)
  <2>2. CASE i \in 1..n
    <3>1. PICK j \in 1..m : recs[j].type = t /\ recs[j].addr = a[i]
      BY <2>2 DEF AddressTable, n
    <3>2. QED
      BY <1>1, <1>3, <2>2, <3>1
  <2>3. CASE i = n + 1 /\ Len(u) = n + 1
    BY <1>1, <1>3, <2>3
  <2>4. QED
    BY <1>6, <2>2, <2>3
<1>8. ASSUME KnownIn(recs), NEW i \in 1..Len(u), NEW j \in 1..Len(u), i < j
      PROVE  u[i] < u[j]
  <2>1. \A k, l \in 1..n : k < l => a[k] < a[l]
    BY <1>8 DEF AddressTable, n
  <2>2. i \in 1..n
    BY <1>2, <1>3, <1>8
  <2>3. CASE j \in 1..n
    <3>1. a[i] < a[j]
      BY <1>8, <2>1, <2>2, <2>3
    <3>2. QED
      BY <1>3, <2>2, <2>3, <3>1
  <2>4. CASE j = n + 1 /\ Len(u) = n + 1
    <3>1. n \in 1..n /\ a # <<>>
      BY <1>2, <2>2 DEF n
    <3>2. PICK k \in 1..m : recs[k].type = t /\ recs[k].addr = a[n]
      BY <3>1 DEF AddressTable, n
    <3>3. /\ recs[k] \in Row /\ recs[k].type \in Known /\ r.type \in Known
          /\ r.type = t /\ a[n] # r.addr /\ u[j] = r.addr
      BY <1>1, <1>3, <1>8, <2>4, <3>1, <3>2 DEF KnownIn
    <3>4. ~Less(r, recs[k])
      <4>1. Up(recs)
        BY <1>8 DEF RecsSound
      <4>2. k \in 1..Len(recs) /\ k < m + 1
        BY <1>1
      <4>3. QED
        BY <1>1, <4>1, <4>2 DEF Up
    <3>5. r.addr \in Nat /\ recs[k].addr \in Nat /\ ~(r.addr < recs[k].addr)
      <4>1. r.addr \in Nat /\ recs[k].addr \in Nat
        BY <1>1, <3>3, LessFacts
      <4>2. Less(r, recs[k]) = (r.addr < recs[k].addr)
        BY <3>2, <3>3 DEF Less
      <4>3. QED
        BY <3>4, <4>1, <4>2
    <3>6. a[n] < u[j]
      BY <3>2, <3>3, <3>5
    <3>7. a[i] \in Nat /\ a[n] \in Nat /\ (i = n \/ a[i] < a[n])
      <4>1. a[i] \in Addresses /\ a[n] \in Addresses
        BY <1>2, <2>2, <3>1 DEF n
      <4>2. i = n \/ i < n
        BY <1>2, <2>2
      <4>3. QED
        BY <2>1, <2>2, <3>1, <4>1, <4>2 DEF Addresses
    <3>8. u[i] = a[i] /\ u[j] \in Nat
      BY <1>3, <2>2, <3>3, <3>5
    <3>9. QED
      BY <3>6, <3>7, <3>8
  <2>5. QED
    BY <1>6, <2>3, <2>4
<1>9. QED
  BY <1>3, <1>4, <1>5, <1>7, <1>8 DEF AddressTable, u

\* The addresses of a type, all of them, in ascending order when the types are known.
LEMMA AddrsFacts ==
  ASSUME RecsSound(recs), NEW t
  PROVE  AddressTable(Addrs(t), t, Len(recs))
<1> DEFINE n == Len(recs)
           IsTable(f) == f = [i \in 0..n |->
             IF i = 0 THEN <<>> ELSE WithAddr(f[i - 1], t, recs[i])]
           kept == CHOOSE f : IsTable(f)
           step == [p \in (1..n) \X Seq(Addresses) |-> WithAddr(p[2], t, recs[p[1]])]
<1>1. n \in Nat /\ recs \in Seq(Row) /\ \A i \in 1..n : recs[i] \in Row
  BY DEF RecsSound
<1>2. step \in [(1..n) \X Seq(Addresses) -> Seq(Addresses)]
  <2>1. \A p \in (1..n) \X Seq(Addresses) : WithAddr(p[2], t, recs[p[1]]) \in Seq(Addresses)
    <3>1. TAKE p \in (1..n) \X Seq(Addresses)
    <3>2. p[1] \in 1..n /\ p[2] \in Seq(Addresses)
      OBVIOUS
    <3>3. QED
      BY <1>1, <3>2, WithAddrFacts
  <2>2. QED
    BY <2>1
<1>3. \E f : IsTable(f)
  <2>1. \A i \in 1..n, s \in Seq(Addresses) : step[<<i, s>>] = WithAddr(s, t, recs[i])
    OBVIOUS
  <2> HIDE DEF step
  <2>2. <<>> \in Seq(Addresses)
    OBVIOUS
  <2>3. PICK f \in [0..n -> Seq(Addresses)] :
          f[0] = <<>> /\ \A i \in 1..n : f[i] = step[<<i, f[i - 1]>>]
    <3> DEFINE Sa == Seq(Addresses)
               e == <<>>
    <3> HIDE DEF Sa, e, n
    <3>1. e \in Sa /\ step \in [(1..n) \X Sa -> Sa] /\ n \in Nat
      BY <1>1, <1>2, <2>2 DEF Sa, e
    <3>2. \E f : Iterated(f, n, Sa, e, step)
      BY <3>1, Iterates
    <3>3. QED
      BY <3>2 DEF Iterated, Sa, e
  <2>4. \A i \in 1..n : f[i] = WithAddr(f[i - 1], t, recs[i])
    <3>1. TAKE i \in 1..n
    <3>2. i - 1 \in 0..n
      BY <1>1
    <3>3. f[i - 1] \in Seq(Addresses)
      BY <2>3, <3>2
    <3>4. QED
      BY <2>1, <2>3, <3>3
  <2> DEFINE b(i) == IF i = 0 THEN <<>> ELSE WithAddr(f[i - 1], t, recs[i])
  <2>5. \A i \in 0..n : f[i] = b(i)
    <3>1. TAKE i \in 0..n
    <3>2. i = 0 \/ i \in 1..n
      BY <1>1
    <3>3. QED
      BY <1>1, <2>3, <2>4, <3>2
  <2>6. f = [i \in 0..n |-> f[i]]
    BY <2>3
  <2>7. IsTable(f)
    <3> HIDE DEF b
    <3>1. f = [i \in 0..n |-> b(i)]
      BY <2>5, <2>6
    <3>2. QED
      BY <3>1 DEF b
  <2>8. QED
    BY <2>7
<1>4. IsTable(kept)
  <2> HIDE DEF IsTable
  <2>1. QED
    BY <1>3
<1>5. Addrs(t) = kept[n]
  BY DEF Addrs
<1>6. /\ kept[0] = <<>>
      /\ \A m \in Nat : m + 1 <= n => kept[m + 1] = WithAddr(kept[m], t, recs[m + 1])
  <2>1. \A i \in 0..n : kept[i] = IF i = 0 THEN <<>> ELSE WithAddr(kept[i - 1], t, recs[i])
    <3> HIDE DEF kept
    <3>1. QED
      BY <1>4
  <2> HIDE DEF kept, IsTable
  <2>2. 0 \in 0..n /\ \A m \in Nat : m + 1 <= n =>
          m + 1 \in 0..n /\ m + 1 # 0 /\ (m + 1) - 1 = m
    BY <1>1
  <2>3. QED
    BY <2>1, <2>2
<1> HIDE DEF kept, IsTable, step
<1> DEFINE S == {m \in Nat : m <= n => AddressTable(kept[m], t, m)}
<1>7. 0 \in S
  <2>1. AddressTable(<<>>, t, 0)
    BY DEF AddressTable
  <2>2. QED
    BY <1>6, <2>1
<1>8. ASSUME NEW m \in Nat, m \in S
      PROVE  m + 1 \in S
  <2>1. SUFFICES ASSUME m + 1 <= n
                 PROVE  AddressTable(kept[m + 1], t, m + 1)
    OBVIOUS
  <2>2. AddressTable(kept[m], t, m)
    BY <1>1, <1>8, <2>1
  <2>3. AddressTable(WithAddr(kept[m], t, recs[m + 1]), t, m + 1)
    BY <1>1, <2>1, <2>2, AddressStep
  <2>4. QED
    BY <1>6, <2>1, <2>3
<1>9. Nat \subseteq S
  <2> HIDE DEF S
  <2>1. QED
    BY <1>7, <1>8, SetInduction
<1>10. n \in S
  <2> HIDE DEF S
  <2>1. QED
    BY <1>1, <1>9
<1>11. QED
  BY <1>1, <1>5, <1>10

\* The addresses of type t as the steps of fetchData see them.
AddrsSound(t) ==
  LET a == Addrs(t)
  IN  /\ a \in Seq(Addresses) /\ Len(a) \in Nat /\ Len(a) <= Len(recs)
      /\ OfType(t) \subseteq Row
      /\ \A r \in OfType(t) : \E i \in 1..Len(a) : a[i] = r.addr
      /\ \A i \in 1..Len(a) : a[i] \in Nat /\ a[i] < AddrSpace
                              /\ \E r \in OfType(t) : r.addr = a[i]
      /\ AllKnown => \A i, j \in 1..Len(a) : i < j => a[i] < a[j]

\* They are so once the readings are sorted.
LEMMA AddrsAreSound ==
  ASSUME RecsSound(recs), NEW t
  PROVE  AddrsSound(t)
<1> DEFINE a == Addrs(t)
<1>1. AddressTable(a, t, Len(recs))
  BY AddrsFacts
<1>2. recs \in Seq(Row) /\ \A j \in 1..Len(recs) : recs[j] \in Row
  BY DEF RecsSound
<1>3. \A r : r \in OfType(t) <=> \E j \in 1..Len(recs) : recs[j] = r /\ recs[j].type = t
  BY <1>2 DEF OfType, ToSet
<1>4. AllKnown => KnownIn(recs)
  BY <1>2 DEF AllKnown, KnownIn, ToSet
<1> HIDE DEF a
<1>5. a \in Seq(Addresses) /\ Len(a) \in Nat /\ \A i \in 1..Len(a) : a[i] \in Addresses
  BY <1>1 DEF AddressTable
<1>6. \A i \in 1..Len(a) : a[i] \in Nat /\ a[i] < AddrSpace
  BY <1>5, BlockAssumption DEF Addresses
<1>7. \A r \in OfType(t) : \E i \in 1..Len(a) : a[i] = r.addr
  BY <1>1, <1>3 DEF AddressTable
<1>8. \A i \in 1..Len(a) : \E r \in OfType(t) : r.addr = a[i]
  BY <1>1, <1>3 DEF AddressTable
<1>9. OfType(t) \subseteq Row
  BY <1>2, <1>3
<1>10. Len(a) <= Len(recs) /\ (AllKnown => \A i, j \in 1..Len(a) : i < j => a[i] < a[j])
  BY <1>1, <1>4 DEF AddressTable
<1>11. QED
  BY <1>5, <1>6, <1>7, <1>8, <1>9, <1>10 DEF AddrsSound, a

\* A block ends where it begins or at an address it takes in.
LEMMA BlockEnd ==
  ASSUME AddrsSound(rtype), start \in 1..Len(Addrs(rtype))
  PROVE  /\ LastIndex \in start..Len(Addrs(rtype))
         /\ LastIndex = start \/ InBlock(LastIndex)
<1> DEFINE n == Len(Addrs(rtype))
           T == {start} \cup {i \in start..n : InBlock(i)}
<1>1. n \in Nat /\ start \in 1..n
  BY DEF AddrsSound
<1> HIDE DEF n
<1>2. T \subseteq 0..n /\ T # {}
  BY <1>1
<1>3. LastIndex = Max(T)
  BY DEF LastIndex, n
<1> HIDE DEF T
<1>4. LastIndex \in T
  BY <1>1, <1>2, <1>3, MaxIs
<1>5. QED
  BY <1>1, <1>4 DEF T, n

\* From its first address on, the request covers the last one, and both registers of
\* every 32-bit value that begins in the block, unless that lies past the last register
\* there is.
LEMMA BlockBounds ==
  ASSUME AddrsSound(rtype), start \in 1..Len(Addrs(rtype)), AllKnown
  PROVE  LET a == Addrs(rtype)
             f == a[start]
             l == a[LastIndex]
         IN  /\ f \in Nat /\ l \in Nat /\ f <= l /\ l < AddrSpace
             /\ BlockCount \in 1..(SingleReadCount + 1)
             /\ l < f + BlockCount
             /\ \A r \in OfType(rtype) : f <= r.addr /\ r.addr <= l /\ r.wide =>
                  r.addr + 2 <= f + BlockCount \/ r.addr + 2 = f + AddrSpace
<1> DEFINE a == Addrs(rtype)
           L == LastIndex
           f == a[start]
           l == a[L]
           c == l - f + 1
<1>1. L \in start..Len(a) /\ (L = start \/ InBlock(L))
  BY BlockEnd
<1>2. /\ Len(a) \in Nat /\ start \in 1..Len(a) /\ L \in 1..Len(a)
      /\ f \in Nat /\ f < AddrSpace /\ l \in Nat /\ l < AddrSpace
      /\ SingleReadCount \in Nat \ {0} /\ SingleReadCount < AddrSpace /\ AddrSpace \in Nat \ {0, 1}
      /\ L = start \/ f < l
  <2>1. Len(a) \in Nat /\ start \in 1..Len(a) /\ L \in 1..Len(a)
    <3> HIDE DEF L
    <3>1. QED
      BY <1>1 DEF AddrsSound
  <2> HIDE DEF L
  <2>2. L = start \/ start < L
    BY <1>1, <2>1
  <2>3. f \in Nat /\ f < AddrSpace /\ l \in Nat /\ l < AddrSpace /\ (L = start \/ f < l)
    BY <2>1, <2>2 DEF AddrsSound
  <2>4. QED
    BY <2>1, <2>3, BlockAssumption
<1>3. c \in 1..SingleReadCount
  <2>1. CASE L = start
    BY <1>2, <2>1
  <2>2. CASE L # start /\ InBlock(L)
    <3>1. start \in start..L /\ L \in start..L
      BY <1>1, <1>2
    <3>2. f < Limit /\ l < Limit
      BY <2>2, <3>1 DEF InBlock
    <3>3. Limit = (f + SingleReadCount) % AddrSpace
      BY DEF Limit
    <3> HIDE DEF f, l, L
    <3>4. f + SingleReadCount \in Nat /\ f + SingleReadCount < AddrSpace + AddrSpace
      BY <1>2
    <3>5. \/ f + SingleReadCount < AddrSpace /\ Limit = f + SingleReadCount
          \/ AddrSpace <= f + SingleReadCount /\ Limit = (f + SingleReadCount) - AddrSpace
      <4> DEFINE x == f + SingleReadCount
      <4>1. AddrSpace \in Nat \ {0}
        BY <1>2
      <4>2. x \in Nat
        BY <3>4
      <4> HIDE DEF x
      <4>3. x < AddrSpace => x % AddrSpace = x
        BY <4>1, <4>2, ModFacts
      <4>4. AddrSpace <= x /\ x < AddrSpace + AddrSpace => x % AddrSpace = x - AddrSpace
        BY <4>1, <4>2, ModFacts
      <4>5. x < AddrSpace \/ AddrSpace <= x
        BY <4>1, <4>2
      <4>6. x < AddrSpace + AddrSpace /\ Limit = x % AddrSpace
        BY <3>3, <3>4 DEF x
      <4>7. QED
        BY <4>3, <4>4, <4>5, <4>6 DEF x
    <3>6. Limit = f + SingleReadCount
      BY <1>2, <3>2, <3>5
    <3>7. QED
      BY <1>2, <2>2, <3>2, <3>6
  <2>3. QED
    BY <1>1, <2>1, <2>2
<1>4. c % AddrSpace = c /\ (f + c - 1) % AddrSpace = l
  <2> HIDE DEF f, l
  <2>1. c \in Nat /\ c < AddrSpace /\ f + c - 1 = l
    BY <1>2, <1>3
  <2> HIDE DEF c
  <2>2. QED
    BY <1>2, <2>1, ModFacts
<1> DEFINE inside == {r \in OfType(rtype) : r.addr >= f /\ r.addr <= l /\ r.wide}
           T == {c} \cup {(r.addr + 2 - f) % AddrSpace : r \in inside}
<1>5. BlockCount = Max(T)
  <2>1. BlockCount = AdjustCount(f, c % AddrSpace)
    BY DEF BlockCount
  <2> HIDE DEF f, l, c
  <2>2. AdjustCount(f, c) = Max(T)
    BY <1>4 DEF AdjustCount
  <2>3. QED
    BY <1>4, <2>1, <2>2
<1>6. ASSUME NEW r \in inside
      PROVE  /\ r.addr \in Nat /\ r.addr + 2 - f \in 2..(SingleReadCount + 1)
             /\ \/ (r.addr + 2 - f) % AddrSpace = r.addr + 2 - f
                \/ r.addr + 2 - f = AddrSpace
             /\ (r.addr + 2 - f) % AddrSpace \in 0..(SingleReadCount + 1)
  <2>1. r.addr \in Nat /\ f <= r.addr /\ r.addr <= l
    <3>1. r \in Row
      BY DEF AddrsSound
    <3>2. r.addr \in Nat
      BY <1>2, <3>1 DEF Row
    <3>3. QED
      BY <1>2, <3>2
  <2> HIDE DEF f, l, inside
  <2> DEFINE x == r.addr + 2 - f
  <2>2. x \in 2..(SingleReadCount + 1) /\ x \in Nat /\ x <= AddrSpace
    BY <1>2, <1>3, <2>1
  <2> HIDE DEF x
  <2>3. x < AddrSpace \/ (AddrSpace <= x /\ x < AddrSpace + AddrSpace)
    BY <1>2, <2>2
  <2>4. x % AddrSpace = x \/ (x = AddrSpace /\ x % AddrSpace = 0)
    <3>1. AddrSpace \in Nat \ {0}
      BY <1>2
    <3>2. x < AddrSpace => x % AddrSpace = x
      BY <2>2, <3>1, ModFacts
    <3>3. AddrSpace <= x /\ x < AddrSpace + AddrSpace => x % AddrSpace = x - AddrSpace
      BY <2>2, <3>1, ModFacts
    <3>4. QED
      BY <1>2, <2>2, <2>3, <3>2, <3>3
  <2>5. x % AddrSpace \in 0..(SingleReadCount + 1)
    BY <1>2, <2>2, <2>4
  <2>6. QED
    BY <2>1, <2>2, <2>4, <2>5 DEF x
<1>7. BlockCount \in T /\ \A y \in T : y <= BlockCount
  <2>1. c \in 0..(SingleReadCount + 1)
    <3> HIDE DEF c
    <3>1. QED
      BY <1>2, <1>3
  <2>2. T \subseteq 0..(SingleReadCount + 1) /\ T # {} /\ SingleReadCount + 1 \in Nat
    <3> HIDE DEF c, f, inside
    <3>1. QED
      BY <1>2, <1>6, <2>1
  <2> HIDE DEF T
  <2>3. QED
    BY <1>5, <2>2, MaxIs
<1>8. BlockCount \in c..(SingleReadCount + 1)
  <2>1. \A y \in T : y \in 0..(SingleReadCount + 1)
    <3> HIDE DEF c, f, inside
    <3>1. QED
      BY <1>2, <1>3, <1>6
  <2>2. c \in T
    OBVIOUS
  <2> HIDE DEF T, c
  <2>3. QED
    BY <1>2, <1>3, <1>7, <2>1, <2>2
<1>9. l < f + BlockCount
  <2> HIDE DEF f, l
  <2>1. QED
    BY <1>2, <1>8
<1>10. ASSUME NEW r \in OfType(rtype), f <= r.addr, r.addr <= l, r.wide
       PROVE  r.addr + 2 <= f + BlockCount \/ r.addr + 2 = f + AddrSpace
  <2>1. r.addr \in Nat
    <3>1. r \in Row
      BY DEF AddrsSound
    <3>2. QED
      BY <1>2, <3>1 DEF Row
  <2>2. r \in inside
    <3>1. r.addr >= f
      BY <1>2, <1>10, <2>1
    <3>2. QED
      BY <1>10, <3>1
  <2>3. (r.addr + 2 - f) % AddrSpace <= BlockCount
    <3> HIDE DEF inside, f, c
    <3>1. QED
      BY <1>7, <2>2
  <2> HIDE DEF inside, f, l, c, T
  <2>4. BlockCount \in Nat
    BY <1>2, <1>3, <1>8
  <2>5. \/ (r.addr + 2 - f) % AddrSpace = r.addr + 2 - f
        \/ r.addr + 2 - f = AddrSpace
    BY <1>6, <2>2
  <2>6. r.addr + 2 - f <= BlockCount \/ r.addr + 2 - f = AddrSpace
    BY <2>3, <2>5
  <2>7. QED
    BY <1>2, <2>1, <2>4, <2>6, SMTT(30)
<1>11. BlockCount \in 1..(SingleReadCount + 1)
  <2> HIDE DEF c
  <2>1. QED
    BY <1>2, <1>3, <1>8
<1>12. f <= l
  BY <1>2
<1> HIDE DEF f, l
<1>13. QED
  BY <1>2, <1>9, <1>10, <1>11, <1>12 DEF f, l

(***************************************************************************)
(* modbus-reader: what has been read                                       *)
(***************************************************************************)

\* The registers of a reading were read in this cycle, both in one request unless it is
\* shadowed.
Fresh(r) ==
  /\ regs[r.addr] # 0
  /\ r.wide /\ ~Shadowed(r) => r.addr + 1 < AddrSpace /\ regs[r.addr + 1] = regs[r.addr]

\* The type being read is that of a reading, and a block begins at one of its addresses.
BlockPlace ==
  mpc = "block" =>
    /\ rtype \in {r.type : r \in ToSet(recs)}
    /\ start \in 1..Len(Addrs(rtype))

\* What lies before the next block has been read, and everything when a batch is sent.
RegsRead ==
  AllKnown =>
    /\ mpc = "block" => \A r \in OfType(rtype) : r.addr < Addrs(rtype)[start] => Fresh(r)
    /\ mpc \in {"send", "send:wait"} => \A r \in OfType(rtype) : Fresh(r)

ModbusInv == RecsSound(recs) /\ ModbusTypeOK /\ BlockPlace /\ RegsRead /\ ValuesWhole

\* Nobody sorts the readings again, so nothing that depends on them alone changes.
LEMMA RecsKept ==
  ASSUME recs' = recs
  PROVE  /\ RecsSound(recs)' = RecsSound(recs) /\ AllKnown' = AllKnown
         /\ \A t : Addrs(t)' = Addrs(t) /\ OfType(t)' = OfType(t)
         /\ \A r : Shadowed(r)' = Shadowed(r)
<1>1. RecsSound(recs)' = RecsSound(recs)
  OBVIOUS
<1>2. AllKnown' = AllKnown /\ \A r : Shadowed(r)' = Shadowed(r)
  BY DEF AllKnown, Shadowed
<1>3. \A t : OfType(t)' = OfType(t)
  BY DEF OfType
<1>4. \A t : Addrs(t)' = Addrs(t)
  BY DEF Addrs
<1>5. QED
  BY <1>1, <1>2, <1>3, <1>4

\* A step that begins no block, reads nothing and sends no value.
LEMMA Elsewhere ==
  ASSUME ModbusInv, UNCHANGED <<recs, rtype, start, regs, sent>>,
         device' \in {"up", "down", "mute", None}, mpc' \in ModbusPC,
         types' \subseteq {r.type : r \in ToSet(recs)}, requests' \in Nat,
         groups' \subseteq {r.eq : r \in ToSet(recs)}, conError' \in BOOLEAN,
         mpc' = "block" => mpc = "block",
         mpc' \in {"send", "send:wait"} => mpc \in {"send", "send:wait"}
  PROVE  ModbusInv'
<1>1. /\ RecsSound(recs)' = RecsSound(recs) /\ AllKnown' = AllKnown
      /\ \A t : Addrs(t)' = Addrs(t) /\ OfType(t)' = OfType(t)
      /\ \A r : Shadowed(r)' = Shadowed(r)
  BY RecsKept
<1>2. ModbusTypeOK'
  BY DEF ModbusInv, ModbusTypeOK
<1>3. BlockPlace'
  BY <1>1 DEF ModbusInv, BlockPlace
<1>4. \A r : Fresh(r)' = Fresh(r)
  BY <1>1 DEF Fresh
<1>5. RegsRead'
  <2>1. Addrs(rtype)' = Addrs(rtype) /\ OfType(rtype)' = OfType(rtype)
    BY <1>1
  <2>2. QED
    BY <1>1, <1>4, <2>1 DEF ModbusInv, RegsRead
<1>6. ValuesWhole'
  BY <1>1 DEF ModbusInv, ValuesWhole
<1>7. QED
  BY <1>1, <1>2, <1>3, <1>5, <1>6 DEF ModbusInv

\* What a place in fetchData may be left for.
LEMMA Places ==
  /\ {"idle", "restored", "restored:wait", "next", "block", "complain connect",
      "complain read", "complain:wait", "send", "send:wait", "off"} = ModbusPC
  /\ \A p \in DOMAIN TextAt : After(p) \in {"restored:wait", "complain:wait"}
BY DEF ModbusPC, TextAt, After

LEMMA ElsewhereSteps ==
  ASSUME ModbusInv,
         \/ Connect \/ ConnectFails
         \/ \E arrives \in BOOLEAN : SendConnAlert(arrives)
         \/ AlertAnswered \/ CycleComplete \/ ReadFails \/ GroupAnswered
         \/ \E x \in {"up", "down", "mute"} : DeviceBecomes(x)
  PROVE  ModbusInv'
<1>1. /\ device \in {"up", "down", "mute", None} /\ mpc \in ModbusPC
      /\ types \subseteq {r.type : r \in ToSet(recs)} /\ requests \in Nat
      /\ groups \subseteq {r.eq : r \in ToSet(recs)} /\ conError \in BOOLEAN
  BY DEF ModbusInv, ModbusTypeOK
<1>2. CASE Connect
  BY <1>1, <1>2, Elsewhere DEF Connect, GoM, BeginCycle, configVars, ModbusPC
<1>3. CASE ConnectFails
  BY <1>1, <1>3, Elsewhere DEF ConnectFails, GoM, configVars, cycleVars, ModbusPC
<1>4. ASSUME NEW arrives \in BOOLEAN, SendConnAlert(arrives)
      PROVE  ModbusInv'
  <2>1. /\ mpc' \in {"restored:wait", "complain:wait"} /\ conError' \in BOOLEAN
        /\ UNCHANGED <<configVars, cycleVars, sent>>
    BY <1>4, Places DEF SendConnAlert
  <2>2. QED
    BY <1>1, <2>1, Elsewhere DEF configVars, cycleVars, ModbusPC
<1>5. CASE AlertAnswered
  BY <1>1, <1>5, Elsewhere DEF AlertAnswered, GoM, configVars, cycleVars, ModbusPC
<1>6. CASE CycleComplete
  BY <1>1, <1>6, Elsewhere DEF CycleComplete, GoM, configVars, cycleVars, ModbusPC
<1>7. CASE ReadFails
  BY <1>1, <1>7, Elsewhere DEF ReadFails, configVars, cycleVars, ModbusPC
<1>8. CASE GroupAnswered
  BY <1>1, <1>8, Elsewhere DEF GroupAnswered, GoM, configVars, cycleVars, ModbusPC
<1>9. CASE \E x \in {"up", "down", "mute"} : DeviceBecomes(x)
  BY <1>1, <1>9, Elsewhere DEF DeviceBecomes, cycleVars
<1>10. QED
  BY <1>2, <1>3, <1>4, <1>5, <1>6, <1>7, <1>8, <1>9

\* No address comes before the first one.
LEMMA NextTypeStep ==
  ASSUME ModbusInv, NEW t, t \in {r.type : r \in ToSet(recs)}, NextType(t)
  PROVE  ModbusInv'
<1>1. /\ t \in types /\ mpc' = "block" /\ types' = types \ {t} /\ rtype' = t /\ start' = 1
      /\ regs' = [a \in DOMAIN regs |-> 0]
      /\ UNCHANGED <<recs, device, requests, groups, sent, conError>>
  BY DEF NextType, GoM, configVars
<1>2. /\ RecsSound(recs)' = RecsSound(recs) /\ AllKnown' = AllKnown
      /\ \A u : Addrs(u)' = Addrs(u) /\ OfType(u)' = OfType(u)
      /\ \A r : Shadowed(r)' = Shadowed(r)
  BY <1>1, RecsKept
<1>3. AddrsSound(t)
  BY AddrsAreSound DEF ModbusInv
<1>4. 1 \in 1..Len(Addrs(t))
  <2>1. PICK r : r \in OfType(t)
    BY DEF OfType
  <2>2. \E i \in 1..Len(Addrs(t)) : Addrs(t)[i] = r.addr
    BY <1>3, <2>1 DEF AddrsSound
  <2>3. Len(Addrs(t)) \in Nat
    BY <1>3 DEF AddrsSound
  <2>4. QED
    BY <2>2, <2>3
<1>5. ModbusTypeOK'
  <2>1. [a \in DOMAIN regs |-> 0] \in [0..(AddrSpace - 1) -> Nat]
    BY DEF ModbusInv, ModbusTypeOK
  <2>2. Len(recs) \in Nat
    BY DEF ModbusInv, RecsSound
  <2>3. "block" \in ModbusPC /\ 1 \in 1..(Len(recs) + 1)
    BY <2>2 DEF ModbusPC
  <2>4. QED
    BY <1>1, <2>1, <2>3 DEF ModbusInv, ModbusTypeOK
<1>6. BlockPlace'
  BY <1>1, <1>2, <1>4 DEF BlockPlace
<1>7. RegsRead'
  <2>1. SUFFICES ASSUME AllKnown, NEW r \in OfType(t), r.addr < Addrs(t)[1] PROVE FALSE
    BY <1>1, <1>2 DEF RegsRead
  <2>2. PICK i \in 1..Len(Addrs(t)) : Addrs(t)[i] = r.addr
    BY <1>3, <2>1 DEF AddrsSound
  <2>3. i = 1 \/ 1 < i
    BY <1>3 DEF AddrsSound
  <2>4. Addrs(t)[i] \in Nat /\ Addrs(t)[1] \in Nat /\ (i = 1 \/ Addrs(t)[1] < Addrs(t)[i])
    BY <1>3, <1>4, <2>1, <2>3 DEF AddrsSound
  <2>5. QED
    BY <2>1, <2>2, <2>4
<1>8. ValuesWhole'
  BY <1>1, <1>2 DEF ModbusInv, ValuesWhole
<1>9. QED
  BY <1>2, <1>5, <1>6, <1>7, <1>8 DEF ModbusInv

\* The index goes on behind the block; behind the last address everything is sent.
LEMMA AfterBlockFacts ==
  ASSUME ModbusInv, mpc = "block", AfterBlock, recs' = recs, rtype' = rtype
  PROVE  /\ AddrsSound(rtype) /\ start \in 1..Len(Addrs(rtype))
         /\ LastIndex \in 1..Len(Addrs(rtype))
         /\ start' = LastIndex + 1 /\ start' \in 1..(Len(recs) + 1)
         /\ groups' \subseteq {r.eq : r \in ToSet(recs)}
         /\ BlockPlace'
         /\ \/ mpc' = "block" /\ start' \in 1..Len(Addrs(rtype))
            \/ mpc' = "send" /\ LastIndex = Len(Addrs(rtype))
<1>1. AddrsSound(rtype) /\ start \in 1..Len(Addrs(rtype))
      /\ rtype \in {r.type : r \in ToSet(recs)}
  BY AddrsAreSound DEF ModbusInv, BlockPlace
<1>2. LastIndex \in start..Len(Addrs(rtype)) /\ Len(Addrs(rtype)) \in Nat
      /\ Len(Addrs(rtype)) <= Len(recs) /\ Len(recs) \in Nat
  <2>1. Len(recs) \in Nat
    BY DEF ModbusInv, RecsSound
  <2>2. QED
    BY <1>1, <2>1, BlockEnd DEF AddrsSound
<1>3. start' = LastIndex + 1
      /\ \/ start' <= Len(Addrs(rtype)) /\ mpc' = mpc /\ groups' = groups
         \/ ~(start' <= Len(Addrs(rtype))) /\ mpc' = "send" /\ groups' = {r.eq : r \in OfType(rtype)}
  BY DEF AfterBlock
<1>4. groups' \subseteq {r.eq : r \in ToSet(recs)}
  BY <1>3 DEF OfType, ModbusInv, ModbusTypeOK
<1>5. \/ mpc' = "block" /\ start' \in 1..Len(Addrs(rtype))
      \/ mpc' = "send" /\ LastIndex = Len(Addrs(rtype))
  BY <1>1, <1>2, <1>3
<1>6. BlockPlace'
  <2>1. Addrs(rtype)' = Addrs(rtype)
    BY RecsKept
  <2>2. QED
    BY <1>1, <1>5, <2>1 DEF BlockPlace
<1>7. QED
  BY <1>1, <1>2, <1>3, <1>4, <1>5, <1>6

\* A type nobody knows: nothing is promised.
LEMMA SkipBlockStep ==
  ASSUME ModbusInv, SkipBlock
  PROVE  ModbusInv'
<1>1. /\ mpc = "block" /\ rtype \notin Known /\ AfterBlock
      /\ UNCHANGED <<recs, device, types, rtype, requests, regs, sent, conError>>
  BY DEF SkipBlock, configVars
<1>2. /\ RecsSound(recs)' = RecsSound(recs) /\ AllKnown' = AllKnown
  BY <1>1, RecsKept
<1>3. /\ start' \in 1..(Len(recs) + 1) /\ groups' \subseteq {r.eq : r \in ToSet(recs)}
      /\ BlockPlace' /\ mpc' \in {"block", "send"}
  BY <1>1, AfterBlockFacts
<1>4. ~AllKnown
  BY <1>1 DEF ModbusInv, BlockPlace, AllKnown
<1>5. ModbusTypeOK'
  BY <1>1, <1>3 DEF ModbusInv, ModbusTypeOK, ModbusPC
<1>6. RegsRead' /\ ValuesWhole'
  BY <1>2, <1>4 DEF RegsRead, ValuesWhole
<1>7. QED
  BY <1>2, <1>3, <1>5, <1>6 DEF ModbusInv

\* What begins in the block was read by one request; what lies before it stays, its
\* second register too, which would be the block's first only if it were shadowed.
LEMMA ReadFresh ==
  ASSUME ModbusInv, ReadBlock, AllKnown,
         NEW r \in OfType(rtype), r.addr <= Addrs(rtype)[LastIndex]
  PROVE  Fresh(r)'
<1> DEFINE f == Addrs(rtype)[start]
           l == Addrs(rtype)[LastIndex]
           c == BlockCount
<1>1. /\ mpc = "block" /\ c \in 1..ReadLimit /\ f + c <= AddrSpace
      /\ requests' = requests + 1 /\ recs' = recs
      /\ regs' = [a \in DOMAIN regs |-> IF a \in f..(f + c - 1) THEN requests + 1 ELSE regs[a]]
  <2>1. /\ mpc = "block" /\ ~BadRequest(f, c) /\ requests' = requests + 1 /\ recs' = recs
        /\ regs' = [a \in DOMAIN regs |-> IF a \in f..(f + c - 1) THEN requests' ELSE regs[a]]
    BY DEF ReadBlock, configVars
  <2> HIDE DEF f, c
  <2>2. c \in 1..ReadLimit /\ ~(f + c > AddrSpace)
    BY <2>1 DEF BadRequest
  <2>3. f + c <= AddrSpace
    <3>1. f \in Nat
      <4>1. AddrsSound(rtype) /\ start \in 1..Len(Addrs(rtype))
        BY <2>1, AddrsAreSound DEF ModbusInv, BlockPlace
      <4>2. QED
        BY <4>1 DEF AddrsSound, f
    <3>2. QED
      BY <2>2, <3>1, BlockAssumption
  <2>4. QED
    BY <2>1, <2>2, <2>3
<1>2. AddrsSound(rtype) /\ start \in 1..Len(Addrs(rtype))
  BY <1>1, AddrsAreSound DEF ModbusInv, BlockPlace
<1>3. /\ f \in Nat /\ l \in Nat /\ f <= l /\ l < f + c
      /\ \A q \in OfType(rtype) : f <= q.addr /\ q.addr <= l /\ q.wide =>
           q.addr + 2 <= f + c \/ q.addr + 2 = f + AddrSpace
  BY <1>2, BlockBounds
<1>4. r.addr \in Nat /\ r.addr < AddrSpace /\ r.addr <= l
  <2>1. \E i \in 1..Len(Addrs(rtype)) : Addrs(rtype)[i] = r.addr
    BY <1>2 DEF AddrsSound
  <2>2. QED
    BY <1>2, <2>1 DEF AddrsSound
<1>5. Shadowed(r)' = Shadowed(r)
  BY <1>1, RecsKept
<1>6. regs \in [0..(AddrSpace - 1) -> Nat] /\ requests \in Nat
  BY DEF ModbusInv, ModbusTypeOK
<1>7. r.addr < f => Fresh(r)
  BY <1>1 DEF ModbusInv, RegsRead
<1> HIDE DEF f, l, c
<1>8. \A a \in 0..(AddrSpace - 1) : regs'[a] = IF a \in f..(f + c - 1) THEN requests + 1 ELSE regs[a]
  BY <1>1, <1>6
<1>9. CASE f <= r.addr
  <2>1. r.addr \in f..(f + c - 1) /\ r.addr \in 0..(AddrSpace - 1)
    BY <1>1, <1>3, <1>4, <1>9, BlockAssumption
  <2>2. regs'[r.addr] = requests + 1
    BY <1>8, <2>1
  <2>3. ASSUME r.wide
        PROVE  r.addr + 1 < AddrSpace /\ regs'[r.addr + 1] = requests + 1
    <3>1. r.addr + 2 <= f + c \/ r.addr + 2 = f + AddrSpace
      BY <1>3, <1>4, <1>9, <2>3
    <3>2. r.addr + 2 <= f + c
      BY <1>1, <1>3, <1>4, <3>1, BlockAssumption
    <3>3. r.addr + 1 \in f..(f + c - 1) /\ r.addr + 1 \in 0..(AddrSpace - 1)
      BY <1>1, <1>3, <1>4, <1>9, <3>2, BlockAssumption
    <3>4. QED
      BY <1>8, <3>3, BlockAssumption
  <2>4. requests + 1 # 0
    BY <1>6
  <2>5. QED
    BY <2>2, <2>3, <2>4 DEF Fresh
<1>10. CASE r.addr < f
  <2>1. Fresh(r)
    BY <1>7, <1>10
  <2>2. r.addr \in 0..(AddrSpace - 1) /\ r.addr \notin f..(f + c - 1)
    BY <1>3, <1>4, <1>10, BlockAssumption
  <2>3. regs'[r.addr] = regs[r.addr]
    BY <1>8, <2>2
  <2>4. ASSUME r.wide, ~Shadowed(r)
        PROVE  r.addr + 1 < AddrSpace /\ regs'[r.addr + 1] = regs[r.addr]
    <3>1. r.addr + 1 < AddrSpace /\ regs[r.addr + 1] = regs[r.addr]
      BY <2>1, <2>4 DEF Fresh
    <3>2. r.addr + 1 # f
      <4>1. PICK q \in OfType(rtype) : q.addr = f
        BY <1>2 DEF AddrsSound, f
      <4>2. q \in ToSet(recs) /\ q.type = r.type
        BY <4>1 DEF OfType
      <4>3. QED
        BY <2>4, <4>1, <4>2 DEF Shadowed
    <3>3. r.addr + 1 \in 0..(AddrSpace - 1) /\ r.addr + 1 \notin f..(f + c - 1)
      BY <1>3, <1>4, <1>10, <3>1, <3>2, BlockAssumption
    <3>4. QED
      BY <1>8, <3>1, <3>3
  <2>5. QED
    BY <1>5, <2>1, <2>3, <2>4 DEF Fresh
<1>11. QED
  BY <1>3, <1>4, <1>9, <1>10

LEMMA ReadBlockStep ==
  ASSUME ModbusInv, ReadBlock
  PROVE  ModbusInv'
<1>1. /\ mpc = "block" /\ AfterBlock /\ requests' = requests + 1
      /\ UNCHANGED <<recs, device, types, rtype, sent, conError>>
  BY DEF ReadBlock, configVars
<1>2. /\ RecsSound(recs)' = RecsSound(recs) /\ AllKnown' = AllKnown
      /\ \A u : Addrs(u)' = Addrs(u) /\ OfType(u)' = OfType(u)
      /\ \A r : Shadowed(r)' = Shadowed(r)
  BY <1>1, RecsKept
<1>3. /\ AddrsSound(rtype) /\ LastIndex \in 1..Len(Addrs(rtype))
      /\ start' = LastIndex + 1 /\ start' \in 1..(Len(recs) + 1)
      /\ groups' \subseteq {r.eq : r \in ToSet(recs)} /\ BlockPlace'
      /\ \/ mpc' = "block" /\ start' \in 1..Len(Addrs(rtype))
         \/ mpc' = "send" /\ LastIndex = Len(Addrs(rtype))
  BY <1>1, AfterBlockFacts
<1>4. regs' \in [0..(AddrSpace - 1) -> Nat] /\ requests' \in Nat
  <2>1. regs \in [0..(AddrSpace - 1) -> Nat] /\ requests + 1 \in Nat
    BY DEF ModbusInv, ModbusTypeOK
  <2>2. PICK T : regs' = [a \in DOMAIN regs |-> IF a \in T THEN requests' ELSE regs[a]]
    BY DEF ReadBlock
  <2>3. QED
    BY <1>1, <2>1, <2>2
<1>5. ModbusTypeOK'
  <2>1. mpc' \in ModbusPC
    BY <1>3 DEF ModbusPC
  <2>2. QED
    BY <1>1, <1>3, <1>4, <2>1 DEF ModbusInv, ModbusTypeOK
<1>6. RegsRead'
  <2>1. CASE mpc' = "block" /\ start' \in 1..Len(Addrs(rtype))
    <3>1. SUFFICES ASSUME AllKnown, NEW r \in OfType(rtype), r.addr < Addrs(rtype)[start']
                   PROVE  Fresh(r)'
      <4>1. Addrs(rtype)' = Addrs(rtype) /\ OfType(rtype)' = OfType(rtype)
        BY <1>1, <1>2
      <4>2. QED
        BY <1>2, <2>1, <4>1 DEF RegsRead
    <3>2. PICK i \in 1..Len(Addrs(rtype)) : Addrs(rtype)[i] = r.addr
      BY <1>3, <3>1 DEF AddrsSound
    <3>3. i <= LastIndex
      <4>1. Addrs(rtype)[i] \in Nat /\ Addrs(rtype)[start'] \in Nat
            /\ (start' < i => Addrs(rtype)[start'] < Addrs(rtype)[i])
        BY <1>3, <2>1, <3>1 DEF AddrsSound
      <4>2. ~(start' < i) /\ i # start'
        BY <3>1, <3>2, <4>1
      <4>3. QED
        BY <1>3, <4>2
    <3>4. r.addr <= Addrs(rtype)[LastIndex]
      <4>1. i = LastIndex \/ i < LastIndex
        BY <1>3, <3>3
      <4>2. Addrs(rtype)[i] \in Nat /\ Addrs(rtype)[LastIndex] \in Nat
            /\ (i < LastIndex => Addrs(rtype)[i] < Addrs(rtype)[LastIndex])
        BY <1>3, <3>1 DEF AddrsSound
      <4>3. QED
        BY <3>2, <4>1, <4>2
    <3>5. QED
      BY <3>1, <3>4, ReadFresh
  <2>2. CASE mpc' = "send" /\ LastIndex = Len(Addrs(rtype))
    <3>1. SUFFICES ASSUME AllKnown, NEW r \in OfType(rtype)
                   PROVE  Fresh(r)'
      <4>1. OfType(rtype)' = OfType(rtype)
        BY <1>1, <1>2
      <4>2. QED
        BY <1>2, <2>2, <4>1 DEF RegsRead
    <3>2. PICK i \in 1..Len(Addrs(rtype)) : Addrs(rtype)[i] = r.addr
      BY <1>3, <3>1 DEF AddrsSound
    <3>3. i = LastIndex \/ i < LastIndex
      BY <1>3, <2>2
    <3>4. Addrs(rtype)[i] \in Nat /\ Addrs(rtype)[LastIndex] \in Nat
          /\ (i < LastIndex => Addrs(rtype)[i] < Addrs(rtype)[LastIndex])
      BY <1>3, <3>1 DEF AddrsSound
    <3>5. r.addr <= Addrs(rtype)[LastIndex]
      BY <3>2, <3>3, <3>4
    <3>6. QED
      BY <3>1, <3>5, ReadFresh
  <2>3. QED
    BY <1>3, <2>1, <2>2
<1>7. ValuesWhole'
  BY <1>1, <1>2 DEF ModbusInv, ValuesWhole
<1>8. QED
  BY <1>2, <1>3, <1>5, <1>6, <1>7 DEF ModbusInv

\* What is sent is decoded from fresh registers.
LEMMA SendGroupStep ==
  ASSUME ModbusInv, NEW eq, SendGroup(eq)
  PROVE  ModbusInv'
<1>1. /\ mpc = "send" /\ mpc' = "send:wait" /\ groups' = groups \ {eq}
      /\ sent' = [i \in 1..Len(recs) |-> IF recs[i].eq = eq /\ recs[i].type = rtype
                                           THEN DecodeValue(recs[i]) ELSE sent[i]]
      /\ UNCHANGED <<recs, device, types, rtype, start, requests, regs, conError>>
  BY DEF SendGroup, GoM, configVars
<1>2. /\ RecsSound(recs)' = RecsSound(recs) /\ AllKnown' = AllKnown
      /\ \A u : Addrs(u)' = Addrs(u) /\ OfType(u)' = OfType(u)
      /\ \A r : Shadowed(r)' = Shadowed(r)
  BY <1>1, RecsKept
<1>3. /\ regs \in [0..(AddrSpace - 1) -> Nat] /\ AddrSpace \in Nat \ {0}
      /\ recs \in Seq(Row) /\ \A i \in 1..Len(recs) : recs[i] \in Row /\ recs[i] \in ToSet(recs)
  BY BlockAssumption DEF ModbusInv, ModbusTypeOK, RecsSound, ToSet
<1>4. \A i \in 1..Len(recs) : DecodeValue(recs[i]) \in Seq(Nat)
  <2>1. TAKE i \in 1..Len(recs)
  <2>2. recs[i].addr \in 0..(AddrSpace - 1) /\ recs[i].addr + 1 \in Nat
    BY <1>3 DEF Row
  <2>3. (recs[i].addr + 1) % AddrSpace \in 0..(AddrSpace - 1)
    BY <1>3, <2>2, ModFacts
  <2>4. regs[recs[i].addr] \in Nat /\ regs[(recs[i].addr + 1) % AddrSpace] \in Nat
    BY <1>3, <2>2, <2>3
  <2>5. QED
    BY <2>4 DEF DecodeValue
<1>5. ModbusTypeOK'
  <2>1. sent' \in [1..Len(recs) -> Seq(Nat)]
    BY <1>1, <1>4 DEF ModbusInv, ModbusTypeOK
  <2>2. "send:wait" \in ModbusPC
    BY DEF ModbusPC
  <2>3. QED
    BY <1>1, <2>1, <2>2 DEF ModbusInv, ModbusTypeOK
<1>6. BlockPlace'
  BY <1>1 DEF BlockPlace
<1>7. \A r : Fresh(r)' = Fresh(r)
  BY <1>1, <1>2 DEF Fresh
<1>8. RegsRead'
  <2>1. OfType(rtype)' = OfType(rtype)
    BY <1>1, <1>2
  <2>2. QED
    BY <1>1, <1>2, <1>7, <2>1 DEF ModbusInv, RegsRead
<1>9. ValuesWhole'
  <2>1. SUFFICES ASSUME NEW i \in 1..Len(recs), AllKnown, sent'[i] # <<>>
                 PROVE  /\ sent'[i][1] # 0
                        /\ ~Shadowed(recs[i]) =>
                             /\ Len(sent'[i]) = (IF recs[i].wide THEN 2 ELSE 1)
                             /\ sent'[i][Len(sent'[i])] = sent'[i][1]
    BY <1>1, <1>2 DEF ValuesWhole
  <2>2. CASE recs[i].eq = eq /\ recs[i].type = rtype
    <3> DEFINE r == recs[i]
    <3>1. sent'[i] = DecodeValue(r)
      BY <1>1, <2>2
    <3>2. r \in Row /\ r \in OfType(rtype)
      BY <1>3, <2>2 DEF OfType
    <3>3. Fresh(r)
      BY <1>1, <2>1, <3>2 DEF ModbusInv, RegsRead
    <3> HIDE DEF r
    <3>4. r.wide \in BOOLEAN /\ r.addr \in Nat
      BY <1>3, <3>2 DEF Row
    <3>5. CASE r.wide
      <4>1. sent'[i] = <<regs[r.addr], regs[(r.addr + 1) % AddrSpace]>>
        BY <3>1, <3>3, <3>5 DEF DecodeValue, Fresh
      <4>2. ASSUME ~Shadowed(r)
            PROVE  regs[(r.addr + 1) % AddrSpace] = regs[r.addr]
        <5>1. r.addr + 1 < AddrSpace /\ regs[r.addr + 1] = regs[r.addr]
          BY <3>3, <3>5, <4>2 DEF Fresh
        <5>2. (r.addr + 1) % AddrSpace = r.addr + 1
          <6> DEFINE x == r.addr + 1
          <6>1. x \in Nat /\ x < AddrSpace
            BY <3>4, <5>1
          <6> HIDE DEF x
          <6>2. x % AddrSpace = x
            BY <1>3, <6>1, ModFacts
          <6>3. QED
            BY <6>2 DEF x
        <5>3. QED
          BY <5>1, <5>2
      <4>3. regs[r.addr] # 0
        BY <3>3 DEF Fresh
      <4>4. QED
        BY <3>5, <4>1, <4>2, <4>3 DEF r
    <3>6. CASE ~r.wide
      <4>1. sent'[i] = <<regs[r.addr]>>
        BY <3>1, <3>6 DEF DecodeValue
      <4>2. regs[r.addr] # 0
        BY <3>3 DEF Fresh
      <4>3. QED
        BY <3>6, <4>1, <4>2 DEF r
    <3>7. QED
      BY <3>5, <3>6
  <2>3. CASE ~(recs[i].eq = eq /\ recs[i].type = rtype)
    <3>1. sent'[i] = sent[i]
      BY <1>1, <2>3
    <3>2. QED
      BY <2>1, <3>1 DEF ModbusInv, ValuesWhole
  <2>4. QED
    BY <2>2, <2>3
<1>10. QED
  BY <1>2, <1>5, <1>6, <1>8, <1>9 DEF ModbusInv

LEMMA ModbusStepInv ==
  ASSUME ModbusInv, ModbusStep
  PROVE  ModbusInv'
<1>1. ASSUME NEW t \in {r.type : r \in ToSet(recs)}, NextType(t)
      PROVE  ModbusInv'
  BY <1>1, NextTypeStep
<1>2. ASSUME NEW r \in ToSet(recs), SendGroup(r.eq)
      PROVE  ModbusInv'
  BY <1>2, SendGroupStep
<1>3. QED
  BY <1>1, <1>2, ElsewhereSteps, SkipBlockStep, ReadBlockStep DEF ModbusStep

\* The bound on a request follows.
LEMMA InvBlocksFit == ModbusInv => BlocksFit
<1>1. SUFFICES ASSUME ModbusInv, mpc = "block", AllKnown
               PROVE  BlockCount \in 1..(SingleReadCount + 1)
  BY DEF BlocksFit
<1>2. AddrsSound(rtype) /\ start \in 1..Len(Addrs(rtype))
  BY <1>1, AddrsAreSound DEF ModbusInv, BlockPlace
<1>3. QED
  BY <1>1, <1>2, BlockBounds

(***************************************************************************)
(* snmp-reader, http-reader and opcua-reader                               *)
(***************************************************************************)

\* What Loaded keeps is a sequence of the sensors it is given.
LEMMA LoadedFacts ==
  ASSUME NEW D, NEW sensors \in Seq(D), NEW usable
  PROVE  /\ Loaded(sensors, usable) \in Seq(D)
         /\ ToSet(Loaded(sensors, usable)) \subseteq ToSet(sensors)
<1> DEFINE n == Len(sensors)
           E == ToSet(sensors)
           Next1(s, i) == IF sensors[i] \in usable THEN Append(s, sensors[i]) ELSE s
           IsTable(f) == f = [i \in 0..n |->
             IF i = 0 THEN <<>>
             ELSE IF sensors[i] \in usable THEN Append(f[i - 1], sensors[i]) ELSE f[i - 1]]
           kept == CHOOSE f : IsTable(f)
           step == [p \in (1..n) \X Seq(E) |-> Next1(p[2], p[1])]
<1>1. n \in Nat /\ \A i \in 1..n : sensors[i] \in E /\ sensors[i] \in D
  BY DEF ToSet
<1>2. E \subseteq D
  BY DEF ToSet
<1> HIDE DEF E
<1>3. \A i \in 1..n, s \in Seq(E) : Next1(s, i) \in Seq(E)
  BY <1>1
<1>4. step \in [(1..n) \X Seq(E) -> Seq(E)]
  <2>1. \A p \in (1..n) \X Seq(E) : Next1(p[2], p[1]) \in Seq(E)
    <3>1. TAKE p \in (1..n) \X Seq(E)
    <3>2. p[1] \in 1..n /\ p[2] \in Seq(E)
      OBVIOUS
    <3> HIDE DEF Next1
    <3>3. QED
      BY <1>3, <3>2
  <2> HIDE DEF Next1
  <2>2. QED
    BY <2>1
<1>5. \E f : IsTable(f)
  <2>1. \A i \in 1..n, s \in Seq(E) : step[<<i, s>>] = Next1(s, i)
    <3> HIDE DEF Next1
    <3>1. QED
      OBVIOUS
  <2> HIDE DEF step
  <2>2. <<>> \in Seq(E)
    OBVIOUS
  <2>3. PICK f \in [0..n -> Seq(E)] :
          f[0] = <<>> /\ \A i \in 1..n : f[i] = step[<<i, f[i - 1]>>]
    <3> DEFINE Se == Seq(E)
               e == <<>>
    <3> HIDE DEF Se, e, n
    <3>1. e \in Se /\ step \in [(1..n) \X Se -> Se] /\ n \in Nat
      BY <1>1, <1>4, <2>2 DEF Se, e
    <3>2. \E f : Iterated(f, n, Se, e, step)
      BY <3>1, Iterates
    <3>3. QED
      BY <3>2 DEF Iterated, Se, e
  <2>4. \A i \in 1..n : f[i] = Next1(f[i - 1], i)
    <3>1. TAKE i \in 1..n
    <3>2. i - 1 \in 0..n
      BY <1>1
    <3>3. f[i - 1] \in Seq(E)
      BY <2>3, <3>2
    <3> HIDE DEF Next1
    <3>4. QED
      BY <2>1, <2>3, <3>3
  <2> DEFINE b(i) == IF i = 0 THEN <<>>
                     ELSE IF sensors[i] \in usable THEN Append(f[i - 1], sensors[i])
                                                   ELSE f[i - 1]
  <2>5. \A i \in 0..n : f[i] = b(i)
    <3>1. TAKE i \in 0..n
    <3>2. i = 0 \/ i \in 1..n
      BY <1>1
    <3>3. QED
      BY <1>1, <2>3, <2>4, <3>2
  <2>6. f = [i \in 0..n |-> f[i]]
    BY <2>3
  <2>7. IsTable(f)
    <3> HIDE DEF b
    <3>1. f = [i \in 0..n |-> b(i)]
      BY <2>5, <2>6
    <3>2. QED
      BY <3>1 DEF b
  <2>8. QED
    BY <2>7
<1>6. IsTable(kept)
  <2> HIDE DEF IsTable
  <2>1. QED
    BY <1>5
<1>7. Loaded(sensors, usable) = kept[n]
  BY DEF Loaded
<1>8. /\ kept[0] = <<>>
      /\ \A m \in Nat : m + 1 <= n => kept[m + 1] = Next1(kept[m], m + 1)
  <2>1. \A i \in 0..n : kept[i] =
           IF i = 0 THEN <<>>
           ELSE IF sensors[i] \in usable THEN Append(kept[i - 1], sensors[i]) ELSE kept[i - 1]
    <3> HIDE DEF kept
    <3>1. QED
      BY <1>6
  <2> HIDE DEF kept, IsTable
  <2>2. 0 \in 0..n /\ \A m \in Nat : m + 1 <= n =>
          m + 1 \in 0..n /\ m + 1 # 0 /\ (m + 1) - 1 = m
    BY <1>1
  <2>3. QED
    BY <2>1, <2>2
<1> HIDE DEF kept, IsTable, step
<1> DEFINE S == {m \in Nat : m <= n => kept[m] \in Seq(E)}
<1>9. 0 \in S
  <2>1. <<>> \in Seq(E)
    OBVIOUS
  <2>2. QED
    BY <1>8, <2>1
<1>10. ASSUME NEW m \in Nat, m \in S
       PROVE  m + 1 \in S
  <2>1. SUFFICES ASSUME m + 1 <= n PROVE kept[m + 1] \in Seq(E)
    OBVIOUS
  <2>2. kept[m] \in Seq(E) /\ m + 1 \in 1..n
    BY <1>1, <1>10, <2>1
  <2> HIDE DEF Next1
  <2>3. QED
    BY <1>3, <1>8, <2>1, <2>2
<1>11. Nat \subseteq S
  <2> HIDE DEF S
  <2>1. QED
    BY <1>9, <1>10, SetInduction
<1>12. kept[n] \in Seq(E)
  <2>1. n \in S
    <3> HIDE DEF S
    <3>1. QED
      BY <1>1, <1>11
  <2>2. QED
    BY <1>1, <2>1
<1>13. \A s \in Seq(E) : s \in Seq(D) /\ ToSet(s) \subseteq E
  BY <1>2 DEF ToSet
<1>14. QED
  BY <1>7, <1>12, <1>13 DEF E

\* A poller's position is that of a sensor whenever it polls one or waits for the answer
\* to its batch, and it only waits for its ticker with sensors to poll.
PollInv ==
  /\ PollTypeOK
  /\ fleet \in [Pollers -> Seq(PolledSensor)]
  /\ loaded \in [Pollers -> Seq(PolledSensor)]
  /\ at \in [Pollers -> Nat]
  /\ \A r \in Pollers : /\ ppc[r] \in {"poll", "wait"} => at[r] <= Len(loaded[r])
                        /\ ppc[r] = "idle" => loaded[r] # <<>>

\* Before it has started a poller polls nothing.
LEMMA PollInitSafe ==
  ASSUME NEW sensors \in [Pollers -> Seq(PolledSensor)], PollInit(sensors)
  PROVE  PollInv
<1>1. /\ fleet = sensors /\ loaded = [r \in Pollers |-> <<>>]
      /\ ppc = [r \in Pollers |-> IF sensors[r] = <<>> THEN "off" ELSE "start"]
      /\ at = [r \in Pollers |-> 1]
  BY DEF PollInit
<1>2. \A s : ToSet(<<>>) \subseteq s
  BY DEF ToSet
<1>3. PollTypeOK
  BY <1>1, <1>2 DEF PollTypeOK
<1>4. QED
  BY <1>1, <1>3 DEF PollInv

\* A step of one poller that loads nothing.
LEMMA PollMoves ==
  ASSUME PollInv, NEW r \in Pollers, UNCHANGED <<fleet, loaded>>,
         NEW pc \in {"start", "idle", "poll", "wait", "exited", "off"}, NEW i \in Nat,
         i \in 1..(Len(loaded[r]) + 1),
         pc \in {"poll", "wait"} => i <= Len(loaded[r]),
         pc = "idle" => loaded[r] # <<>>,
         ppc' = [ppc EXCEPT ![r] = pc], at' = [at EXCEPT ![r] = i]
  PROVE  PollInv'
<1>1. /\ ppc' \in [Pollers -> {"start", "idle", "poll", "wait", "exited", "off"}]
      /\ at' \in [Pollers -> Nat]
      /\ ppc'[r] = pc /\ at'[r] = i
      /\ \A q \in Pollers \ {r} : ppc'[q] = ppc[q] /\ at'[q] = at[q]
  BY DEF PollInv, PollTypeOK
<1>2. PollTypeOK'
  BY <1>1 DEF PollInv, PollTypeOK
<1>3. \A q \in Pollers : /\ ppc'[q] \in {"poll", "wait"} => at'[q] <= Len(loaded[q])
                         /\ ppc'[q] = "idle" => loaded[q] # <<>>
  BY <1>1 DEF PollInv
<1>4. QED
  BY <1>1, <1>2, <1>3 DEF PollInv

\* Loading begins with the first sensor, when there is one.
LEMMA StartsStep ==
  ASSUME PollInv, NEW r \in Pollers, NEW usable, Starts(r, usable)
  PROVE  PollInv'
<1> DEFINE l == Loaded(fleet[r], usable)
<1>1. l \in Seq(PolledSensor) /\ ToSet(l) \subseteq ToSet(fleet[r]) /\ Len(l) \in Nat
  <2>1. fleet[r] \in Seq(PolledSensor)
    BY DEF PollInv
  <2>2. l \in Seq(PolledSensor) /\ ToSet(l) \subseteq ToSet(fleet[r])
    BY <2>1, LoadedFacts
  <2>3. QED
    BY <2>2
<1>2. /\ loaded' = [loaded EXCEPT ![r] = l] /\ fleet' = fleet
      /\ ppc' = [ppc EXCEPT ![r] = IF loaded'[r] = <<>> THEN "exited" ELSE "poll"]
      /\ at' = [at EXCEPT ![r] = 1]
  BY DEF Starts, GoP
<1> HIDE DEF l
<1>3. /\ loaded' \in [Pollers -> Seq(PolledSensor)] /\ loaded'[r] = l
      /\ ppc' \in [Pollers -> {"start", "idle", "poll", "wait", "exited", "off"}]
      /\ ppc'[r] = (IF l = <<>> THEN "exited" ELSE "poll")
      /\ at' \in [Pollers -> Nat] /\ at'[r] = 1
      /\ \A q \in Pollers \ {r} :
           loaded'[q] = loaded[q] /\ ppc'[q] = ppc[q] /\ at'[q] = at[q]
  BY <1>1, <1>2 DEF PollInv, PollTypeOK
<1>4. l = <<>> \/ 1 <= Len(l)
  BY <1>1
<1>5. \A q \in Pollers : /\ at'[q] \in 1..(Len(loaded'[q]) + 1)
                         /\ ToSet(loaded'[q]) \subseteq ToSet(fleet[q])
  <2>1. TAKE q \in Pollers
  <2>2. CASE q = r
    BY <1>1, <1>3, <2>2
  <2>3. CASE q # r
    BY <1>3, <2>3 DEF PollInv, PollTypeOK
  <2>4. QED
    BY <2>2, <2>3
<1>6. \A q \in Pollers : /\ ppc'[q] \in {"poll", "wait"} => at'[q] <= Len(loaded'[q])
                         /\ ppc'[q] = "idle" => loaded'[q] # <<>>
  BY <1>3, <1>4 DEF PollInv
<1>7. PollTypeOK'
  BY <1>2, <1>3, <1>5 DEF PollTypeOK
<1>8. QED
  BY <1>2, <1>3, <1>6, <1>7 DEF PollInv

\* The next sensor, or the ticker.
LEMMA AdvanceStep ==
  ASSUME PollInv, NEW r \in Pollers, ppc[r] \in {"poll", "wait"}, Advance(r)
  PROVE  PollInv'
<1> DEFINE pc == IF at[r] < Len(loaded[r]) THEN "poll" ELSE "idle"
           i == at[r] + 1
<1>1. /\ at[r] \in Nat /\ at[r] >= 1 /\ at[r] <= Len(loaded[r]) /\ Len(loaded[r]) \in Nat
      /\ loaded[r] # <<>>
  BY DEF PollInv, PollTypeOK
<1>2. /\ at' = [at EXCEPT ![r] = i] /\ ppc' = [ppc EXCEPT ![r] = pc]
      /\ UNCHANGED <<fleet, loaded>>
  BY DEF Advance
<1>3. /\ i \in Nat /\ i \in 1..(Len(loaded[r]) + 1)
      /\ pc \in {"start", "idle", "poll", "wait", "exited", "off"}
      /\ pc \in {"poll", "wait"} => i <= Len(loaded[r])
  BY <1>1
<1> HIDE DEF pc, i
<1>4. QED
  BY <1>1, <1>2, <1>3, PollMoves

LEMMA GoesTo ==
  ASSUME PollInv, NEW r \in Pollers, NEW from, NEW to \in {"start", "wait", "exited"},
         GoP(r, from, to), UNCHANGED <<fleet, loaded, at>>, to = "wait" => from = "poll"
  PROVE  PollInv'
<1>1. /\ ppc[r] = from /\ ppc' = [ppc EXCEPT ![r] = to] /\ at' = [at EXCEPT ![r] = at[r]]
      /\ at[r] \in Nat /\ at[r] \in 1..(Len(loaded[r]) + 1)
      /\ to = "wait" => at[r] <= Len(loaded[r])
  BY DEF GoP, PollInv, PollTypeOK
<1>2. QED
  BY <1>1, PollMoves

LEMMA PollStepInv ==
  ASSUME PollInv, OpcuaConnectFails \/ \E r \in Pollers : PollStep(r)
  PROVE  PollInv'
<1>0. {"snmp", "http", "opcua"} = Pollers
  BY DEF Pollers
<1>1. ASSUME NEW r \in Pollers, NoAnswer(r) \/ Reported(r)
      PROVE  PollInv'
  BY <1>1, AdvanceStep DEF NoAnswer, Reported
<1>2. ASSUME NEW r \in Pollers, Report(r)
      PROVE  PollInv'
  BY <1>2, GoesTo DEF Report
<1>3. ASSUME NEW r \in Pollers, RunAgain(r)
      PROVE  PollInv'
  BY <1>3, GoesTo DEF RunAgain
<1>4. ASSUME NEW r \in Pollers, Tick(r)
      PROVE  PollInv'
  <2>1. /\ ppc[r] = "idle" /\ ppc' = [ppc EXCEPT ![r] = "poll"] /\ at' = [at EXCEPT ![r] = 1]
        /\ UNCHANGED <<fleet, loaded>>
    BY <1>4 DEF Tick, GoP
  <2>2. 1 \in 1..(Len(loaded[r]) + 1) /\ 1 <= Len(loaded[r])
    BY <2>1 DEF PollInv
  <2>3. QED
    BY <2>1, <2>2, PollMoves
<1>5. CASE StartSnmp \/ StartHttp \/ StartOpcua
  BY <1>0, <1>5, StartsStep DEF StartSnmp, StartHttp, StartOpcua
<1>6. CASE OpcuaConnectFails
  BY <1>0, <1>6, GoesTo DEF OpcuaConnectFails
<1>7. CASE PollSnmp \/ PollHttp
  BY <1>0, <1>1, <1>2, <1>7, GoesTo DEF PollSnmp, PollHttp
<1>8. CASE PollOpcua
  BY <1>0, <1>1, <1>2, <1>8, GoesTo DEF PollOpcua
<1>9. QED
  BY <1>1, <1>3, <1>4, <1>5, <1>6, <1>7, <1>8 DEF PollStep

(***************************************************************************)
(* The types of core-switch and con-checker                                *)
(***************************************************************************)

\* A handler that is about to look an alert up, or to store it, has the text of one.
AlertTexts ==
  \A s \in Senders, i \in 1..Slots :
    handler[s][i].pc \in {"alert", "store"} => handler[s][i].text \in Texts

\* The rest of core-switch's state.
RestTypes ==
  /\ influx \in {"up", "down", "hung"} /\ slow \in BOOLEAN
  /\ recent \subseteq Alerts /\ forwards \subseteq Alerts
  /\ heard \in [Senders -> {0, 1, None}]

CoreTypesInv == CoreInv /\ RestTypes /\ AlertTexts

\* What leaves it alone, a request that arrives, a handler's next statement and its last.
LEMMA RestUntouched ==
  ASSUME RestTypes, UNCHANGED <<influx, slow, recent, forwards, heard>>
  PROVE  RestTypes'
  BY DEF RestTypes

LEMMA ArrivesTexts ==
  ASSUME CoreTypesInv, NEW s \in Senders, NEW m \in Request, Arrives(s, m),
         m.pc \in {"alert", "store"} => m.text \in Texts
  PROVE  RestTypes' /\ AlertTexts'
<1>1. PICK i \in 1..Slots : handler' = [handler EXCEPT ![s][i] = m]
  BY DEF Arrives
<1>2. RestTypes'
  BY RestUntouched DEF Arrives, CoreTypesInv
<1>3. handler \in [Senders -> [1..Slots -> Request]]
  BY DEF CoreTypesInv, CoreInv, LockTypes
<1>4. AlertTexts'
  BY <1>1, <1>3 DEF CoreTypesInv, AlertTexts
<1>5. QED
  BY <1>2, <1>4

LEMMA BecomesTexts ==
  ASSUME CoreTypesInv, NEW h \in Handlers, NEW pc \in {"write", "forward", "store"},
         Becomes(h, pc), pc = "store" => PC(h) = "alert"
  PROVE  AlertTexts'
<1> DEFINE s == h[1]
           i == h[2]
           r == [handler[s][i] EXCEPT !.pc = pc]
<1>1. s \in Senders /\ i \in 1..Slots /\ handler \in [Senders -> [1..Slots -> Request]]
  BY HandlerParts DEF CoreTypesInv, CoreInv, LockTypes
<1>2. handler[s][i] \in Request
  BY <1>1
<1>3. r.pc = pc /\ r.text = handler[s][i].text
  BY <1>2 DEF Request
<1>4. handler' = [handler EXCEPT ![s] = [handler[s] EXCEPT ![i] = r]]
  BY DEF Becomes
<1>5. pc = "store" => handler[s][i].text \in Texts
  BY <1>1 DEF CoreTypesInv, AlertTexts, PC
<1> HIDE DEF s, i, r
<1>6. QED
  BY <1>1, <1>3, <1>4, <1>5 DEF CoreTypesInv, AlertTexts

LEMMA FinishTexts ==
  ASSUME CoreTypesInv, NEW h \in Handlers, Finish(h)
  PROVE  AlertTexts'
<1> DEFINE s == h[1]
           i == h[2]
<1>1. s \in Senders /\ i \in 1..Slots /\ handler \in [Senders -> [1..Slots -> Request]]
  BY HandlerParts DEF CoreTypesInv, CoreInv, LockTypes
<1>2. handler' = [handler EXCEPT ![s] = [handler[s] EXCEPT ![i] = Free]]
  BY DEF Finish
<1>3. Free.pc = "free"
  BY DEF Free
<1> HIDE DEF s, i
<1>4. QED
  BY <1>1, <1>2, <1>3 DEF CoreTypesInv, AlertTexts

LEMMA AlertOfFacts ==
  ASSUME CoreTypesInv, NEW h \in Handlers, PC(h) \in {"alert", "store"}
  PROVE  AlertOf(h) \in Alerts
  BY HandlerParts DEF CoreTypesInv, AlertTexts, PC, AlertOf, Alerts

\* core-switch's own steps, and what its environment does to it.
LEMMA CoreStepTypes ==
  ASSUME CoreTypesInv, CoreStep
  PROVE  RestTypes' /\ AlertTexts'
<1>1. ASSUME NEW h \in Handlers, HandlerStep(h)
      PROVE  RestTypes' /\ AlertTexts'
  <2>1. CASE QueueWrite(h)
    BY <2>1, RestUntouched, BecomesTexts DEF QueueWrite, CoreTypesInv
  <2>2. CASE BatchWrite(h)
    BY <2>2, RestUntouched, BecomesTexts DEF BatchWrite, CoreTypesInv
  <2>3. CASE ForwardLive(h)
    BY <2>3, RestUntouched, FinishTexts DEF ForwardLive, CoreTypesInv
  <2>4. CASE AlertCheck(h)
    <3>1. RestTypes'
      BY <2>4, RestUntouched DEF AlertCheck, CoreTypesInv
    <3>2. PC(h) = "alert" /\ (Finish(h) \/ Becomes(h, "store"))
      BY <2>4 DEF AlertCheck
    <3>3. QED
      BY <3>1, <3>2, FinishTexts, BecomesTexts
  <2>5. CASE AlertStore(h)
    <3>1. AlertOf(h) \in Alerts
      BY <2>5, AlertOfFacts DEF AlertStore
    <3>2. RestTypes'
      BY <2>5, <3>1 DEF AlertStore, CoreTypesInv, RestTypes
    <3>3. QED
      BY <2>5, <3>2, FinishTexts DEF AlertStore
  <2>6. QED
    BY <1>1, <2>1, <2>2, <2>3, <2>4, <2>5 DEF HandlerStep
<1>2. ASSUME UNCHANGED handler PROVE AlertTexts'
  BY <1>2 DEF CoreTypesInv, AlertTexts
<1>3. ASSUME NEW a \in Alerts, ForwardArrives(a) \/ Expire(a)
      PROVE  RestTypes' /\ AlertTexts'
  <2>1. UNCHANGED handler
    BY <1>3 DEF ForwardArrives, Expire
  <2>2. CASE Expire(a)
    BY <1>2, <2>1, <2>2 DEF Expire, CoreTypesInv, RestTypes
  <2>3. CASE ForwardArrives(a)
    <3>1. a[1] \in Senders /\ a[2] \in Texts
      BY DEF Alerts
    <3>2. Mode[a[2]] \in {0, 1, None}
      BY <3>1, ModeAssumption
    <3>3. QED
      BY <1>2, <2>1, <2>3, <3>1, <3>2 DEF ForwardArrives, CoreTypesInv, RestTypes
  <2>4. QED
    BY <1>2, <1>3, <2>1, <2>2, <2>3
<1>4. ASSUME NEW s \in Senders, GiveUp(s)
      PROVE  RestTypes' /\ AlertTexts'
  BY <1>2, <1>4, RestUntouched DEF GiveUp, CoreTypesInv
<1>5. QED
  BY <1>1, <1>3, <1>4 DEF CoreStep

LEMMA NothingMovesTypes ==
  ASSUME CoreTypesInv, UNCHANGED coreVars
  PROVE  RestTypes' /\ AlertTexts'
  BY RestUntouched DEF coreVars, CoreTypesInv, AlertTexts

LEMMA BatchTexts ==
  ASSUME CoreTypesInv, NEW s \in Senders, NEW outputs, SendBatch(s, outputs)
  PROVE  RestTypes' /\ AlertTexts'
<1>1. BatchData(outputs) \in Request /\ BatchData(outputs).pc \notin {"alert", "store"}
  BY DEF BatchData, Request
<1>2. QED
  BY <1>1, ArrivesTexts, NothingMovesTypes DEF SendBatch, Lost

LEMMA AlertStepTexts ==
  ASSUME CoreTypesInv, NEW s \in Senders, NEW text \in Texts, SendAlert(s, text) \/ Lost(s)
  PROVE  RestTypes' /\ AlertTexts'
<1> DEFINE m == [pc |-> "alert", text |-> text, live |-> FALSE]
<1>1. m \in Request /\ m.text \in Texts
  BY DEF Request
<1>2. CASE SendAlert(s, text)
  BY <1>1, <1>2, ArrivesTexts DEF SendAlert
<1>3. CASE Lost(s)
  BY <1>3, NothingMovesTypes DEF Lost
<1>4. QED
  BY <1>2, <1>3

\* What the readers send are batches, and alerts whose texts are known.
LEMMA ReaderTypes ==
  ASSUME CoreTypesInv, ModbusStep \/ MqttStep \/ ConStep \/ OpcuaConnectFails
                       \/ \E r \in Pollers : PollStep(r)
  PROVE  RestTypes' /\ AlertTexts'
<1> DEFINE G == RestTypes' /\ AlertTexts'
<1>1. ASSUME NEW arrives \in BOOLEAN, SendConnAlert(arrives) PROVE G
  <2>1. Modbus \in Senders /\ TextAt[mpc] \in Texts
    BY <1>1, SendersAssumption DEF SendConnAlert, TextAt
  <2>2. SendAlert(Modbus, TextAt[mpc]) \/ Lost(Modbus)
    BY <1>1 DEF SendConnAlert
  <2>3. QED
    BY <2>1, <2>2, AlertStepTexts
<1>2. ASSUME NEW eq, SendGroup(eq) PROVE G
  BY <1>2, BatchTexts, SendersAssumption DEF SendGroup
<1>3. CASE ModbusStep
  <2>1. ASSUME NEW t, NextType(t) PROVE G
    BY <2>1, NothingMovesTypes DEF NextType
  <2>2. CASE Connect \/ ConnectFails \/ AlertAnswered \/ CycleComplete \/ SkipBlock
             \/ ReadBlock \/ ReadFails \/ GroupAnswered
    BY <2>2, NothingMovesTypes DEF Connect, ConnectFails, AlertAnswered, CycleComplete,
       SkipBlock, ReadBlock, ReadFails, GroupAnswered
  <2>3. QED
    BY <1>1, <1>2, <1>3, <2>1, <2>2 DEF ModbusStep
<1>4. ASSUME NEW r \in Pollers, Report(r) PROVE G
  BY <1>4, BatchTexts, SendersAssumption DEF Report
<1>5. ASSUME NEW r, NoAnswer(r) \/ Reported(r) \/ RunAgain(r) \/ Tick(r) PROVE G
  BY <1>5, NothingMovesTypes DEF NoAnswer, Reported, RunAgain, Tick
<1>6. CASE OpcuaConnectFails \/ \E r \in Pollers : PollStep(r)
  <2>1. CASE StartSnmp \/ StartHttp \/ StartOpcua \/ OpcuaConnectFails
    BY <2>1, NothingMovesTypes DEF StartSnmp, StartHttp, StartOpcua, OpcuaConnectFails, Starts
  <2>2. CASE PollSnmp \/ PollHttp \/ PollOpcua
    BY <1>4, <1>5, <2>2, NothingMovesTypes DEF PollSnmp, PollHttp, PollOpcua, Pollers
  <2>3. QED
    BY <1>5, <1>6, <2>1, <2>2 DEF PollStep
<1>7. CASE MqttStep
  <2>1. ASSUME NEW s, SendSensor(s) PROVE G
    BY <2>1, BatchTexts, SendersAssumption DEF SendSensor
  <2>2. ASSUME NEW s, NoValue(s) PROVE G
    BY <2>2, NothingMovesTypes DEF NoValue
  <2>3. ASSUME NEW t, Publish(t) PROVE G
    BY <2>3, NothingMovesTypes DEF Publish
  <2>4. ASSUME NEW ok, Subscribe(ok) PROVE G
    BY <2>4, NothingMovesTypes DEF Subscribe
  <2>5. CASE \/ MqttConnects \/ SubscribeFails \/ ConnectionLost \/ SensorSent
             \/ HandlerReturns
    BY <2>5, NothingMovesTypes DEF MqttConnects, SubscribeFails, ConnectionLost, SensorSent,
       HandlerReturns
  <2>6. QED
    BY <1>7, <2>1, <2>2, <2>3, <2>4, <2>5 DEF MqttStep
<1>8. CASE ConStep
  <2>1. ASSUME NEW c, NEW arrives, Check(c, arrives) PROVE G
    <3> DEFINE text == IF c \in down THEN "cannot connect" ELSE "restored"
    <3>1. Con \in Senders /\ text \in Texts
      BY SendersAssumption
    <3>2. SendAlert(Con, text) \/ Lost(Con) \/ UNCHANGED coreVars
      BY <2>1 DEF Check
    <3> HIDE DEF text
    <3>3. QED
      BY <3>1, <3>2, AlertStepTexts, NothingMovesTypes
  <2>2. CASE ConAnswered \/ NextRound
    BY <2>2, NothingMovesTypes DEF ConAnswered, NextRound
  <2>3. QED
    BY <1>8, <2>1, <2>2 DEF ConStep
<1>9. QED
  BY <1>3, <1>6, <1>7, <1>8

LEMMA FaultsTypes ==
  ASSUME CoreTypesInv, Faults
  PROVE  RestTypes' /\ AlertTexts'
<1>1. CASE MapRace
  <2>1. RestTypes'
    BY <1>1 DEF MapRace, Restart, CoreTypesInv, RestTypes
  <2>2. AlertTexts'
    BY <1>1 DEF MapRace, Restart, AlertTexts, Free
  <2>3. QED
    BY <2>1, <2>2
<1>2. ASSUME UNCHANGED handler PROVE AlertTexts'
  BY <1>2 DEF CoreTypesInv, AlertTexts
<1>3. ASSUME NEW a, ForwardLost(a) PROVE RestTypes' /\ AlertTexts'
  BY <1>2, <1>3 DEF ForwardLost, CoreTypesInv, RestTypes
<1>4. ASSUME NEW x \in {"up", "down", "hung"}, InfluxBecomes(x)
      PROVE  RestTypes' /\ AlertTexts'
  BY <1>2, <1>4 DEF InfluxBecomes, CoreTypesInv, RestTypes
<1>5. ASSUME NEW x, DeviceBecomes(x) PROVE RestTypes' /\ AlertTexts'
  BY <1>5, NothingMovesTypes DEF DeviceBecomes
<1>6. ASSUME NEW c, PeerChanges(c) PROVE RestTypes' /\ AlertTexts'
  BY <1>6, NothingMovesTypes DEF PeerChanges
<1>7. QED
  BY <1>1, <1>3, <1>4, <1>5, <1>6 DEF Faults

LEMMA CoreInitTypes ==
  ASSUME NEW isSlow \in BOOLEAN, CoreInit(isSlow)
  PROVE  CoreTypesInv
<1>1. /\ handler = [s \in Senders |-> [i \in 1..Slots |-> Free]]
      /\ waiting = [s \in Senders |-> 0] /\ lock = <<>> /\ Len(lock) = 0
      /\ influx = "up" /\ slow = isSlow /\ recent = {} /\ forwards = {}
      /\ heard = [s \in Senders |-> None]
  BY DEF CoreInit
<1>2. LockTypes
  BY <1>1, SlotsAssumption DEF LockTypes, Free, Request
<1>3. \A h \in Handlers : PC(h) = "free"
  BY <1>1, HandlerParts DEF PC, Free
<1>4. {lock[i] : i \in 1..Len(lock)} = {} /\ {h \in Handlers : PC(h) = "write"} = {}
  BY <1>1, <1>3
<1>5. LockSound
  BY <1>1, <1>4 DEF LockSound
<1>6. RestTypes /\ AlertTexts
  BY <1>1 DEF RestTypes, AlertTexts, Free
<1>7. QED
  BY <1>2, <1>5, <1>6 DEF CoreTypesInv, CoreInv

LEMMA CoreNextTypes == CoreTypesInv /\ [Next]_vars => CoreTypesInv'
<1> SUFFICES ASSUME CoreTypesInv, [Next]_vars PROVE CoreTypesInv'
  OBVIOUS
<1>1. CoreInv
  BY DEF CoreTypesInv
<1>2. CASE Next
  <2>1. CoreInv'
    BY <1>1, <1>2, ModbusStepSafe, PollStepSafe, MqttStepSafe, ConStepSafe, CoreStepSafe,
       FaultsSafe DEF Next, ModbusNext, PollNext, MqttNext, ConNext, CoreNext
  <2>2. RestTypes' /\ AlertTexts'
    BY <1>2, ReaderTypes, CoreStepTypes, FaultsTypes
       DEF Next, ModbusNext, PollNext, MqttNext, ConNext, CoreNext
  <2>3. QED
    BY <2>1, <2>2 DEF CoreTypesInv
<1>3. CASE UNCHANGED vars
  <2>1. UNCHANGED coreVars
    BY <1>3 DEF vars
  <2>2. QED
    BY <1>1, <2>1, NothingMoves, NothingMovesTypes DEF CoreTypesInv
<1>4. QED
  BY <1>2, <1>3

\* con-checker.
LEMMA ConNextTypes == ConTypeOK /\ [Next]_vars => ConTypeOK'
<1> SUFFICES ASSUME ConTypeOK, [Next]_vars PROVE ConTypeOK'
  OBVIOUS
<1>1. CASE ConStep
  BY <1>1 DEF ConStep, Check, ConAnswered, NextRound, ConTypeOK
<1>2. ASSUME NEW c \in cons, PeerChanges(c) PROVE ConTypeOK'
  BY <1>2 DEF PeerChanges, ConTypeOK
<1>3. ASSUME UNCHANGED conVars PROVE ConTypeOK'
  BY <1>3 DEF conVars, ConTypeOK
<1>4. QED
  BY <1>1, <1>2, <1>3 DEF Next, vars, ModbusNext, PollNext, MqttNext, ConNext, CoreNext, Faults

(***************************************************************************)
(* The theorems about all of them                                          *)
(***************************************************************************)

\* modbus-reader begins with nothing read and nothing sent.
LEMMA ModbusInitSafe ==
  ASSUME NEW readings \in Seq(Reading), NEW dev \in {"up", "down", "mute", None},
         ModbusInit(readings, dev)
  PROVE  ModbusInv
<1>1. /\ recs = Sorted(readings) /\ device = dev
      /\ mpc = (IF dev = None THEN "off" ELSE "idle")
      /\ types = {} /\ rtype = None /\ start = 1 /\ requests = 0
      /\ regs = [a \in 0..(AddrSpace - 1) |-> 0] /\ groups = {}
      /\ sent = [i \in 1..Len(recs) |-> <<>>] /\ conError = FALSE
  BY DEF ModbusInit
<1>2. RecsSound(recs)
  BY <1>1, SortedFacts
<1>3. Len(recs) \in Nat
  BY <1>2 DEF RecsSound
<1>4. ModbusTypeOK
  <2>1. 1 \in 1..(Len(recs) + 1) /\ <<>> \in Seq(Nat) /\ 0 \in Nat
    BY <1>3
  <2>2. sent \in [1..Len(recs) -> Seq(Nat)] /\ regs \in [0..(AddrSpace - 1) -> Nat]
    BY <1>1, <2>1
  <2>3. QED
    BY <1>1, <2>1, <2>2 DEF ModbusTypeOK, ModbusPC
<1>5. BlockPlace /\ RegsRead /\ ValuesWhole
  BY <1>1 DEF BlockPlace, RegsRead, ValuesWhole
<1>6. QED
  BY <1>2, <1>4, <1>5 DEF ModbusInv

\* Nothing but its own steps and its device touches modbus-reader.
LEMMA ModbusNextInv == ModbusInv /\ [Next]_vars => ModbusInv'
<1> SUFFICES ASSUME ModbusInv, [Next]_vars PROVE ModbusInv'
  OBVIOUS
<1>1. CASE ModbusStep
  BY <1>1, ModbusStepInv
<1>2. CASE \E x \in {"up", "down", "mute"} : DeviceBecomes(x)
  BY <1>2, ElsewhereSteps
<1>3. CASE UNCHANGED modbusVars
  <2>1. UNCHANGED <<recs, device, mpc, types, rtype, start, requests, regs, groups, sent, conError>>
    BY <1>3 DEF modbusVars, configVars, cycleVars
  <2>2. /\ device \in {"up", "down", "mute", None} /\ mpc \in ModbusPC
        /\ types \subseteq {r.type : r \in ToSet(recs)} /\ requests \in Nat
        /\ groups \subseteq {r.eq : r \in ToSet(recs)} /\ conError \in BOOLEAN
    BY DEF ModbusInv, ModbusTypeOK
  <2>3. QED
    BY <2>1, <2>2, Elsewhere
<1>4. QED
  BY <1>1, <1>2, <1>3 DEF Next, vars, ModbusNext, PollNext, MqttNext, ConNext, CoreNext, Faults

LEMMA PollNextInv == PollInv /\ [Next]_vars => PollInv'
<1> SUFFICES ASSUME PollInv, [Next]_vars PROVE PollInv'
  OBVIOUS
<1>1. CASE OpcuaConnectFails \/ \E r \in Pollers : PollStep(r)
  BY <1>1, PollStepInv
<1>2. CASE UNCHANGED pollVars
  BY <1>2 DEF pollVars, PollInv, PollTypeOK
<1>3. QED
  BY <1>1, <1>2 DEF Next, vars, ModbusNext, PollNext, MqttNext, ConNext, CoreNext, Faults

LEMMA ModbusSpec == Spec => []ModbusInv
<1>1. ASSUME Init PROVE ModbusInv
  <2>1. PICK f \in Fleets : ModbusInit(f.modbus, f.device)
    BY <1>1 DEF Init
  <2>2. f.modbus \in Seq(Reading) /\ f.device \in {"up", "down", "mute", None}
    BY FleetsAssumption
  <2>3. QED
    BY <2>1, <2>2, ModbusInitSafe
<1>2. QED
  BY <1>1, ModbusNextInv, PTL DEF Spec

\* The variables of every reader and of core-switch keep their types: a start index stays
\* within the readings, a poller's position within its sensors, and an alert has a text,
\* for every fleet, every number of handlers and every register space.
THEOREM TypeCorrect == Spec => []TypeOK
<1>1. Init => CoreTypesInv /\ PollInv /\ MqttInv /\ ConTypeOK
  <2> SUFFICES ASSUME Init PROVE CoreTypesInv /\ PollInv /\ MqttInv /\ ConTypeOK
    OBVIOUS
  <2>1. PICK f \in Fleets : /\ CoreInit("influx" \in f.faults)
                            /\ PollInit(f.polled) /\ MqttInit(f.mqtt)
                            /\ ConInit(f.sqlite, f.csv, f.down)
    BY DEF Init
  <2>2. ("influx" \in f.faults) \in BOOLEAN
    OBVIOUS
  <2>3. CoreTypesInv
    BY <2>1, <2>2, CoreInitTypes
  <2>4. PollInv
    BY <2>1, PollInitSafe, FleetsAssumption
  <2>5. MqttInv
    BY <2>1, MqttInitSafe, FleetsAssumption
  <2>6. ConTypeOK
    BY <2>1 DEF ConInit, ConTypeOK
  <2>7. QED
    BY <2>3, <2>4, <2>5, <2>6
<1>2. ModbusInv /\ CoreTypesInv /\ PollInv /\ MqttInv /\ ConTypeOK => TypeOK
  <2>1. CoreTypesInv => CoreTypeOK
    BY DEF CoreTypesInv, CoreInv, LockTypes, RestTypes, CoreTypeOK, Request
  <2>2. QED
    BY <2>1 DEF TypeOK, ModbusInv, PollInv, MqttInv
<1>3. QED
  BY <1>1, <1>2, ModbusSpec, CoreNextTypes, PollNextInv, MqttNextInv, ConNextTypes, PTL
     DEF Spec

\* No value of modbus-reader is torn or replaced by "0": fetchData has read a register in
\* this cycle before it decodes it, and both words of a 32-bit value in one request, for
\* every list of readings whose types are known and every single_read_count.
THEOREM ValuesAreWhole == Spec => []ValuesWhole
<1>1. ModbusInv => ValuesWhole
  BY DEF ModbusInv
<1>2. QED
  BY <1>1, ModbusSpec, PTL

\* No request asks for more than single_read_count registers and one.
THEOREM RequestsFit == Spec => []BlocksFit
BY ModbusSpec, InvBlocksFit, PTL
=============================================================================
