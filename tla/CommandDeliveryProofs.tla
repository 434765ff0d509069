------------------------- MODULE CommandDeliveryProofs -------------------------
(* Proofs about CommandDelivery, for every number of commands and connections, *)
(* every capacity of the channels and every set of events.                     *)
EXTENDS CommandDelivery, TLAPS

\* A handler that is about to send knows a client, the goroutine that has run a
\* command has a socket, and a poll that acknowledges has something to acknowledge.
PlaceInv ==
  /\ \A m \in Commands : hpc[m] \in {"try", "close"} => target[m] \in Conns
  /\ wcmd # None => alive # None
  /\ ppc = "ack" => pcmd \in Commands

\* Whatever acknowledgement is on its way is of a command the agent has run.
AckInv ==
  /\ \A m \in Commands : status[m] = "executed" => m \in ran
  /\ wcmd # None => wcmd \in ran
  /\ ppc = "ack" => pcmd \in ran
  /\ \A c \in Conns : \A i \in 1..Len(up[c]) : up[c][i] = Beat \/ up[c][i] \in ran

\* A command that no handler has inserted has no status yet.
FreshInv == \A m \in Commands : hpc[m] = "idle" => status[m] = "none"

\* No action leaves the types, given that a send has a client and an
\* acknowledgement a socket.
LEMMA TypeStep ==
  ASSUME TypeOK, PlaceInv, Next
  PROVE  TypeOK'
<1> USE NoneAssumption, EventsAssumption, BoundsAssumption
    DEF TypeOK, PlaceInv, Status, Open, HandlerPC, PollPC,
        handlerVars, pumpVars, wireVars, agentVars, boundVars
<1>1. ASSUME NEW m \in Commands, Insert(m) PROVE TypeOK'
  BY <1>1 DEF Insert, GoH
<1>2. ASSUME NEW m \in Commands, FindClient(m) PROVE TypeOK'
  BY <1>2 DEF FindClient, GoH
<1>3. ASSUME NEW m \in Commands, TrySend(m) PROVE TypeOK'
  BY <1>3 DEF TrySend, GoH
<1>4. ASSUME NEW m \in Commands, DropSlowClient(m) PROVE TypeOK'
  BY <1>4 DEF DropSlowClient, GoH
<1>5. ASSUME NEW m \in Commands, CloseSlowClient(m) PROVE TypeOK'
  BY <1>5 DEF CloseSlowClient, GoH
<1>6. ASSUME NEW m \in Commands, MarkSent(m) PROVE TypeOK'
  BY <1>6 DEF MarkSent, GoH
<1>7. ASSUME NEW m \in Commands, Age(m) PROVE TypeOK'
  BY <1>7 DEF Age
<1>8. ASSUME NEW c \in Conns, Dial(c) PROVE TypeOK'
  BY <1>8 DEF Dial
<1>9. ASSUME NEW c \in Conns, Register(c) PROVE TypeOK'
  BY <1>9 DEF Register, Replaced
<1>10. ASSUME NEW c \in Conns, WriteMessage(c) PROVE TypeOK'
  BY <1>10, SMTT(30) DEF WriteMessage
<1>11. ASSUME NEW c \in Conns, WritePumpEnds(c) PROVE TypeOK'
  BY <1>11 DEF WritePumpEnds, CutLink
<1>12. ASSUME NEW c \in Conns, ReadAck(c) PROVE TypeOK'
  BY <1>12, SMTT(30) DEF ReadAck
<1>13. ASSUME NEW c \in Conns, ReadBeat(c) PROVE TypeOK'
  BY <1>13 DEF ReadBeat
<1>14. ASSUME NEW c \in Conns, SendBeatAck(c) PROVE TypeOK'
  BY <1>14 DEF SendBeatAck
<1>15. ASSUME NEW c \in Conns, ReadPumpEnds(c) PROVE TypeOK'
  BY <1>15 DEF ReadPumpEnds
<1>16. ASSUME NEW c \in Conns, Cut(c) PROVE TypeOK'
  BY <1>16 DEF Cut, CutLink, Event
<1>17. CASE SendHeartbeat
  BY <1>17 DEF SendHeartbeat
<1>18. CASE RunReceived
  BY <1>18 DEF RunReceived
<1>19. CASE AckReceived
  BY <1>19 DEF AckReceived
<1>20. CASE NoticeCut
  BY <1>20 DEF NoticeCut
<1>21. CASE BeginCycle \/ Select
  BY <1>21 DEF BeginCycle, Select, GoP, Pollable
<1>22. CASE MarkPolled
  BY <1>22 DEF MarkPolled, GoP
<1>23. CASE ExpireOld
  BY <1>23 DEF ExpireOld, GoP
<1>24. CASE ReceivePolled
  BY <1>24 DEF ReceivePolled, GoP
<1>25. CASE RunPolled
  BY <1>25 DEF RunPolled, GoP
<1>26. CASE AckPolled
  BY <1>26 DEF AckPolled, GoP
<1>27. CASE EndCycle
  BY <1>27 DEF EndCycle, GoP
<1>28. CASE LoseReply
  BY <1>28 DEF LoseReply, GoP, Event
<1>29. CASE LoseAck
  BY <1>29 DEF LoseAck, GoP, Event
<1>30. CASE AgentCrash
  BY <1>30 DEF AgentCrash, Event
<1>31. CASE CloudRestart
  BY <1>31 DEF CloudRestart, Event
<1>32. QED
  BY <1>1, <1>2, <1>3, <1>4, <1>5, <1>6, <1>7, <1>8, <1>9, <1>10, <1>11, <1>12, <1>13, <1>14,
     <1>15, <1>16, <1>17, <1>18, <1>19, <1>20, <1>21, <1>22, <1>23, <1>24, <1>25, <1>26, <1>27, <1>28,
     <1>29, <1>30, <1>31
     DEF Next, HandlerStep, ConnStep, PollStep

\* The target is chosen with the decision to send; the socket outlives the command
\* run on it.
LEMMA PlaceStep ==
  ASSUME TypeOK, PlaceInv, Next
  PROVE  PlaceInv'
<1> USE NoneAssumption DEF TypeOK, PlaceInv,
        handlerVars, pumpVars, wireVars, agentVars, boundVars
<1>1. ASSUME UNCHANGED <<hpc, target, wcmd, alive, ppc, pcmd>> PROVE PlaceInv'
  BY <1>1
<1>2. ASSUME NEW m \in Commands, Insert(m) PROVE PlaceInv'
  BY <1>2 DEF Insert, GoH
<1>3. ASSUME NEW m \in Commands, FindClient(m) PROVE PlaceInv'
  BY <1>3 DEF FindClient, GoH
<1>4. ASSUME NEW m \in Commands, TrySend(m) PROVE PlaceInv'
  BY <1>4 DEF TrySend, GoH
<1>5. ASSUME NEW m \in Commands, DropSlowClient(m) PROVE PlaceInv'
  BY <1>5 DEF DropSlowClient, GoH
<1>6. ASSUME NEW m \in Commands, CloseSlowClient(m) PROVE PlaceInv'
  BY <1>6 DEF CloseSlowClient, GoH
<1>7. ASSUME NEW m \in Commands, MarkSent(m) PROVE PlaceInv'
  BY <1>7 DEF MarkSent, GoH
<1>8. ASSUME NEW c \in Conns, Dial(c) PROVE PlaceInv'
  BY <1>8 DEF Dial
<1>9. CASE RunReceived
  BY <1>9 DEF RunReceived
<1>10. CASE AckReceived
  BY <1>10 DEF AckReceived
<1>11. CASE NoticeCut
  BY <1>11 DEF NoticeCut
<1>12. CASE BeginCycle \/ Select
  BY <1>12 DEF BeginCycle, Select, GoP, Pollable
<1>13. CASE MarkPolled
  BY <1>13 DEF MarkPolled, GoP
<1>14. CASE ExpireOld
  BY <1>14 DEF ExpireOld, GoP
<1>15. CASE ReceivePolled
  BY <1>15 DEF ReceivePolled, GoP
<1>16. CASE RunPolled
  BY <1>16 DEF RunPolled, GoP
<1>17. CASE AckPolled
  BY <1>17 DEF AckPolled, GoP
<1>18. CASE EndCycle
  BY <1>18 DEF EndCycle, GoP
<1>19. CASE LoseReply
  BY <1>19 DEF LoseReply, GoP, Event
<1>20. CASE LoseAck
  BY <1>20 DEF LoseAck, GoP, Event
<1>21. CASE AgentCrash
  BY <1>21 DEF AgentCrash, Event
<1>22. CASE CloudRestart
  BY <1>22 DEF CloudRestart, Event
<1>23. ASSUME NEW m \in Commands, Age(m)
      PROVE  PlaceInv'
  BY <1>1, <1>23 DEF Age
<1>24. ASSUME NEW c \in Conns,
         \/ Register(c) \/ WriteMessage(c) \/ WritePumpEnds(c) \/ ReadAck(c)
         \/ ReadBeat(c) \/ SendBeatAck(c) \/ ReadPumpEnds(c) \/ Cut(c)
      PROVE  PlaceInv'
  BY <1>1, <1>24 DEF Register, WriteMessage, WritePumpEnds, CutLink, ReadAck,
     ReadBeat, SendBeatAck, ReadPumpEnds, Cut, Event
<1>25. CASE SendHeartbeat
  BY <1>1, <1>25 DEF SendHeartbeat
<1>26. QED
  BY <1>2, <1>3, <1>4, <1>5, <1>6, <1>7, <1>8, <1>9, <1>10, <1>11, <1>12, <1>13, <1>14, <1>15,
     <1>16, <1>17, <1>18, <1>19, <1>20, <1>21, <1>22, <1>23, <1>24, <1>25
     DEF Next, HandlerStep, ConnStep, PollStep

\* An acknowledgement follows its run, and only an acknowledgement makes a command
\* executed.
LEMMA AckStep ==
  ASSUME TypeOK, PlaceInv, AckInv, Next
  PROVE  AckInv'
<1> USE DEF TypeOK, PlaceInv, AckInv, Open,
        handlerVars, pumpVars, wireVars, agentVars, boundVars
<1>1. ASSUME UNCHANGED <<status, up, wcmd, ppc, pcmd, ran>> PROVE AckInv'
  BY <1>1
<1>2. ASSUME NEW m \in Commands, Insert(m) PROVE AckInv'
  BY <1>2 DEF Insert, GoH
<1>3. ASSUME NEW m \in Commands, MarkSent(m) PROVE AckInv'
  BY <1>3 DEF MarkSent, GoH
<1>4. ASSUME NEW c \in Conns, ReadAck(c) PROVE AckInv'
  BY <1>4, SMTT(30) DEF ReadAck
<1>5. ASSUME NEW c \in Conns, ReadBeat(c) PROVE AckInv'
  BY <1>5 DEF ReadBeat
<1>6. CASE SendHeartbeat
  BY <1>6 DEF SendHeartbeat
<1>7. CASE RunReceived
  BY <1>7 DEF RunReceived
<1>8. CASE AckReceived
  BY <1>8 DEF AckReceived
<1>9. CASE BeginCycle \/ Select
  BY <1>9 DEF BeginCycle, Select, GoP, Pollable
<1>10. CASE MarkPolled
  BY <1>10 DEF MarkPolled, GoP
<1>11. CASE ExpireOld
  BY <1>11 DEF ExpireOld, GoP
<1>12. CASE ReceivePolled
  BY <1>12 DEF ReceivePolled, GoP
<1>13. CASE RunPolled
  BY <1>13 DEF RunPolled, GoP
<1>14. CASE AckPolled
  BY <1>14 DEF AckPolled, GoP
<1>15. CASE EndCycle
  BY <1>15 DEF EndCycle, GoP
<1>16. CASE LoseReply
  BY <1>16 DEF LoseReply, GoP, Event
<1>17. CASE LoseAck
  BY <1>17 DEF LoseAck, GoP, Event
<1>18. CASE AgentCrash
  BY <1>18 DEF AgentCrash, Event
<1>19. CASE CloudRestart
  BY <1>19 DEF CloudRestart, Event
<1>20. ASSUME NEW m \in Commands,
         \/ FindClient(m) \/ TrySend(m) \/ DropSlowClient(m) \/ CloseSlowClient(m)
         \/ Age(m)
      PROVE  AckInv'
  BY <1>1, <1>20 DEF FindClient, GoH, TrySend, DropSlowClient, CloseSlowClient, Age
<1>21. ASSUME NEW c \in Conns,
         \/ Dial(c) \/ Register(c) \/ WriteMessage(c) \/ WritePumpEnds(c)
         \/ SendBeatAck(c) \/ ReadPumpEnds(c) \/ Cut(c)
      PROVE  AckInv'
  BY <1>1, <1>21 DEF Dial, Register, WriteMessage, WritePumpEnds, CutLink,
     SendBeatAck, ReadPumpEnds, Cut, Event
<1>22. CASE NoticeCut
  BY <1>1, <1>22 DEF NoticeCut
<1>23. QED
  BY <1>2, <1>3, <1>4, <1>5, <1>6, <1>7, <1>8, <1>9, <1>10, <1>11, <1>12, <1>13, <1>14, <1>15,
     <1>16, <1>17, <1>18, <1>19, <1>20, <1>21, <1>22
     DEF Next, HandlerStep, ConnStep, PollStep

\* Every write of a status other than the insert is for a command that has one.
LEMMA FreshStep ==
  ASSUME TypeOK, FreshInv, Next
  PROVE  FreshInv'
<1> USE DEF TypeOK, FreshInv, Open,
        handlerVars, pumpVars, wireVars, agentVars, boundVars
<1>1. ASSUME UNCHANGED <<status, hpc>> PROVE FreshInv'
  BY <1>1
<1>2. ASSUME NEW m \in Commands, Insert(m) PROVE FreshInv'
  BY <1>2 DEF Insert, GoH
<1>3. ASSUME NEW m \in Commands, FindClient(m) PROVE FreshInv'
  BY <1>3 DEF FindClient, GoH
<1>4. ASSUME NEW m \in Commands, TrySend(m) PROVE FreshInv'
  BY <1>4 DEF TrySend, GoH
<1>5. ASSUME NEW m \in Commands, DropSlowClient(m) PROVE FreshInv'
  BY <1>5 DEF DropSlowClient, GoH
<1>6. ASSUME NEW m \in Commands, CloseSlowClient(m) PROVE FreshInv'
  BY <1>6 DEF CloseSlowClient, GoH
<1>7. ASSUME NEW m \in Commands, MarkSent(m) PROVE FreshInv'
  BY <1>7 DEF MarkSent, GoH
<1>8. ASSUME NEW c \in Conns, ReadAck(c) PROVE FreshInv'
  BY <1>8 DEF ReadAck
<1>9. CASE MarkPolled
  BY <1>9 DEF MarkPolled, GoP
<1>10. CASE ExpireOld
  BY <1>10 DEF ExpireOld, GoP
<1>11. CASE AckPolled
  BY <1>11 DEF AckPolled, GoP
<1>12. CASE CloudRestart
  BY <1>12 DEF CloudRestart, Event
<1>13. ASSUME NEW m \in Commands, Age(m)
      PROVE  FreshInv'
  BY <1>1, <1>13 DEF Age
<1>14. ASSUME NEW c \in Conns,
         \/ Dial(c) \/ Register(c) \/ WriteMessage(c) \/ WritePumpEnds(c)
         \/ ReadBeat(c) \/ SendBeatAck(c) \/ ReadPumpEnds(c) \/ Cut(c)
      PROVE  FreshInv'
  BY <1>1, <1>14 DEF Dial, Register, WriteMessage, WritePumpEnds, CutLink, ReadBeat,
     SendBeatAck, ReadPumpEnds, Cut, Event
<1>15. CASE
         \/ SendHeartbeat \/ RunReceived \/ AckReceived \/ NoticeCut
         \/ BeginCycle \/ Select \/ ReceivePolled \/ RunPolled \/ EndCycle
         \/ LoseReply \/ LoseAck \/ AgentCrash
  BY <1>1, <1>15 DEF SendHeartbeat, RunReceived, AckReceived, NoticeCut, BeginCycle, Select, GoP,
     ReceivePolled, RunPolled, EndCycle, LoseReply, Event, LoseAck, AgentCrash
<1>16. QED
  BY <1>2, <1>3, <1>4, <1>5, <1>6, <1>7, <1>8, <1>9, <1>10, <1>11, <1>12, <1>13, <1>14, <1>15
     DEF Next, HandlerStep, ConnStep, PollStep

\* The invariant holds initially, is kept by every step, and so always holds.
LEMMA InitInv == Init => TypeOK /\ PlaceInv /\ AckInv /\ FreshInv
BY BoundsAssumption DEF Init, TypeOK, PlaceInv, AckInv, FreshInv, Status, HandlerPC, PollPC

LEMMA NextInv ==
  TypeOK /\ PlaceInv /\ AckInv /\ FreshInv /\ [Next]_vars
    => (TypeOK /\ PlaceInv /\ AckInv /\ FreshInv)'
<1> SUFFICES ASSUME TypeOK, PlaceInv, AckInv, FreshInv, [Next]_vars
             PROVE  (TypeOK /\ PlaceInv /\ AckInv /\ FreshInv)'
  OBVIOUS
<1>1. CASE Next
  BY <1>1, TypeStep, PlaceStep, AckStep, FreshStep
<1>2. CASE UNCHANGED vars
  BY <1>2 DEF vars, handlerVars, pumpVars, wireVars, agentVars, boundVars,
              TypeOK, PlaceInv, AckInv, FreshInv
<1>3. QED
  BY <1>1, <1>2

LEMMA Invariant == Spec => [](TypeOK /\ PlaceInv /\ AckInv /\ FreshInv)
<1>1. Init => TypeOK /\ PlaceInv /\ AckInv /\ FreshInv
  BY InitInv
<1>2. TypeOK /\ PlaceInv /\ AckInv /\ FreshInv /\ [Next]_vars
        => (TypeOK /\ PlaceInv /\ AckInv /\ FreshInv)'
  BY NextInv
<1>3. QED
  BY <1>1, <1>2, PTL DEF Spec

\* Every reachable state is well-typed: no channel holds more than its capacity,
\* no handler sends to a client that is not there.
THEOREM TypeCorrect == Spec => []TypeOK
<1>1. TypeOK /\ PlaceInv /\ AckInv /\ FreshInv => TypeOK
  OBVIOUS
<1>2. QED
  BY <1>1, Invariant, PTL

\* A command shown as executed was run by the agent, whatever is lost, cut,
\* crashed or restarted, on any number of connections.
THEOREM AckIsTruthful == Spec => []AckTruthful
<1>1. TypeOK /\ PlaceInv /\ AckInv /\ FreshInv => AckTruthful
  BY DEF AckInv, AckTruthful
<1>2. QED
  BY <1>1, Invariant, PTL

\* Only the UPDATE of sendCommandHandler, which looks at nothing but the id,
\* takes a recorded outcome back.
LEMMA OutcomeStep ==
  ASSUME TypeOK, PlaceInv, FreshInv, Next, NEW m \in Commands,
         status[m] \in {"executed", "timeout"}, status'[m] # status[m]
  PROVE  hpc[m] = "mark"
<1> USE DEF TypeOK, Open,
        handlerVars, pumpVars, wireVars, agentVars, boundVars
<1>1. CASE \E k \in Commands : Insert(k)
  BY <1>1 DEF Insert, GoH, FreshInv
<1>2. CASE \E k \in Commands : MarkSent(k)
  BY <1>2 DEF MarkSent, GoH
<1>3. CASE \E c \in Conns : ReadAck(c)
  <2>1. PICK c \in Conns : ReadAck(c)
    BY <1>3
  <2>2. status' = [status EXCEPT ![Head(up[c])] = IF @ \in Open THEN "executed" ELSE @]
    BY <2>1 DEF ReadAck
  <2>3. QED
    BY <2>2
<1>4. CASE MarkPolled
  BY <1>4 DEF MarkPolled
<1>5. CASE ExpireOld
  BY <1>5 DEF ExpireOld
<1>6. CASE AckPolled
  BY <1>6 DEF AckPolled
<1>7. CASE UNCHANGED status
  BY <1>7
<1>8. ASSUME NEW k \in Commands,
             HandlerStep(k) \/ Age(k), ~MarkSent(k)
      PROVE  UNCHANGED status
  BY <1>8 DEF HandlerStep, FindClient, TrySend, DropSlowClient, CloseSlowClient, Age
<1>9. ASSUME NEW c \in Conns,
             Dial(c) \/ ConnStep(c) \/ Cut(c), ~ReadAck(c)
      PROVE  UNCHANGED status
  BY <1>9 DEF Dial, ConnStep, Cut, Register, WriteMessage, WritePumpEnds, ReadBeat,
              SendBeatAck, ReadPumpEnds
<1>10. ASSUME SendHeartbeat \/ RunReceived \/ AckReceived \/ NoticeCut
       PROVE  UNCHANGED status
  BY <1>10 DEF SendHeartbeat, RunReceived, AckReceived, NoticeCut
<1>11. ASSUME PollStep, ~MarkPolled, ~ExpireOld, ~AckPolled
       PROVE  UNCHANGED status
  BY <1>11 DEF PollStep, BeginCycle, Select, ReceivePolled, RunPolled, EndCycle
<1>12. ASSUME LoseReply \/ LoseAck \/ AgentCrash \/ CloudRestart
       PROVE  UNCHANGED status
  BY <1>12 DEF LoseReply, LoseAck, AgentCrash, CloudRestart
<1>13. QED
  BY <1>1, <1>2, <1>3, <1>4, <1>5, <1>6, <1>7, <1>8, <1>9, <1>10, <1>11, <1>12 DEF Next

\* An outcome, once recorded, is never changed by a second acknowledgement or a
\* timeout, for any number of commands and through every failure.
THEOREM OutcomesStick == Spec => OutcomeSticks
<1>1. TypeOK /\ PlaceInv /\ AckInv /\ FreshInv /\ [Next]_vars
        => [\A m \in Commands :
              status[m] \in {"executed", "timeout"} /\ status'[m] # status[m]
                => hpc[m] = "mark"]_status
  BY OutcomeStep DEF vars
<1>2. QED
  BY <1>1, Invariant, PTL DEF Spec, OutcomeSticks
=============================================================================
