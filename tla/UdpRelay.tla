------------------------------- MODULE UdpRelay -------------------------------
(***************************************************************************)
(* The UDP relay (udp.go): Run reads packets into a queue, a goroutine     *)
(* parses each and sends it on to every backend in datagrams of whole      *)
(* lines no longer than that backend's MTU.  A packet is the sequence of   *)
(* the lengths of its lines, newline included.                             *)
(***************************************************************************)
EXTENDS Naturals, SequencesExt

CONSTANTS
  Packets,     \* packets sent to the relay
  Lines,       \* per packet: the lengths of its lines
  Unparsable,  \* packets that are not line protocol
  UdpBackends, \* the outputs, in configuration order
  MTU,         \* per backend
  QueueSize    \* capacity of the channel between the two goroutines

ASSUME PacketsAssumption == Packets # {} /\ Unparsable \subseteq Packets
ASSUME LinesAssumption == \A p \in Packets : Lines[p] \in Seq(Nat \ {0})
\* Each output is a udpBackend of its own.
ASSUME MTUAssumption ==
  /\ MTU \in [DOMAIN MTU -> Nat \ {0}]
  /\ UdpBackends \in Seq(DOMAIN MTU) /\ IsInjective(UdpBackends)
ASSUME QueueAssumption == QueueSize \in Nat \ {0}

VARIABLES
  upc,       \* where Run stands
  listening, \* the socket is open
  inbox,     \* packets the kernel may still deliver
  queue,     \* the channel of packets
  current,   \* the packet being posted: [packet, backend, line], the next line
  idle,      \* the posting goroutine holds no packet
  datagrams, \* history: what was sent, [to, packet, first, last]
  read,      \* history: packets in the order Run read them
  posted     \* history: packets whose post returned

queueVars == <<queue, current, idle>>
udpVars   == <<upc, listening, inbox, queueVars, datagrams, read, posted>>

UdpTypeOK ==
  /\ upc \in {"made", "reading", "draining", "returned"}
  /\ listening \in BOOLEAN /\ idle \in BOOLEAN
  /\ inbox \subseteq Packets
  /\ Len(queue) <= QueueSize
  /\ current.packet \in Packets /\ current.backend \in 1..Len(UdpBackends) + 1
  /\ posted \subseteq Packets

\* NewUDP opens the socket, before Run.
UdpInit ==
  /\ upc = "made" /\ listening = TRUE
  /\ queue = <<>> /\ idle = TRUE
  /\ current = [packet |-> CHOOSE p \in Packets : TRUE, backend |-> 1, line |-> 1]
  /\ datagrams = <<>> /\ read = <<>> /\ posted = {}

GoU(from, to) == upc = from /\ upc' = to

UdpRun ==
  /\ GoU("made", "reading")
  /\ UNCHANGED <<listening, inbox, queueVars, datagrams, read, posted>>

\* A packet is read and sent on the channel in one step, once there is room for it.
QueueHasRoomInclusive == Len(queue) <= QueueSize \* (mutant of QueueHasRoom)
QueueHasRoom == Len(queue) < QueueSize

ReadPacket(p) ==
  /\ upc = "reading" /\ listening /\ p \in inbox
  /\ QueueHasRoom
  /\ inbox' = inbox \ {p}
  /\ queue' = Append(queue, p)
  /\ read' = Append(read, p)
  /\ UNCHANGED <<upc, listening, current, idle, datagrams, posted>>

\* The kernel drops what the relay is too slow to read.
PacketLost(p) ==
  /\ p \in inbox /\ inbox' = inbox \ {p}
  /\ UNCHANGED <<upc, listening, queueVars, datagrams, read, posted>>

\* ReadFromUDP fails, because Stop closed the socket or by itself: Run closes
\* the queue and waits for what it holds.
ReadPacketFails ==
  /\ GoU("reading", "draining")
  /\ UNCHANGED <<listening, inbox, queueVars, datagrams, read, posted>>

(***************************************************************************)
(* UDP.post and udpBackend.post                                            *)
(***************************************************************************)

TakePacket ==
  /\ idle /\ queue # <<>>
  /\ current' = [packet |-> Head(queue), backend |-> 1, line |-> 1]
  /\ queue' = Tail(queue)
  /\ idle' = FALSE
  /\ UNCHANGED <<upc, listening, inbox, datagrams, read, posted>>

\* The bytes of lines i to j of a packet.
Length(p, i, j) ==
  LET Upto[k \in i - 1..j] == IF k = i - 1 THEN 0 ELSE Upto[k - 1] + Lines[p][k]
  IN Upto[j]

\* The last line of the longest run from line i that fits the MTU, i - 1 if
\* line i alone does not.
LastFittingLoose(p, i, mtu) == \* (mutant of LastFitting)
  Max({i - 1} \cup {j \in i..Len(Lines[p]) : Length(p, i, j) <= mtu + 1})
LastFitting(p, i, mtu) ==
  Max({i - 1} \cup {j \in i..Len(Lines[p]) : Length(p, i, j) <= mtu})

NextBackend == current' = [current EXCEPT !.backend = @ + 1, !.line = 1]

\* One WriteToUDP, which may fail; a first line that does not fit is an error,
\* and the rest of the packet is lost to this backend.  A packet without points
\* is sent as an empty datagram.
SendDatagram ==
  /\ ~idle /\ current.packet \notin Unparsable
  /\ current.backend <= Len(UdpBackends)
  /\ LET b    == UdpBackends[current.backend]
         p    == current.packet
         last == LastFitting(p, current.line, MTU[b])
         Write == datagrams' = Append(datagrams, [to |-> b, packet |-> p,
                                                  first |-> current.line, last |-> last])
     IN \/ last >= current.line /\ last < Len(Lines[p])
           /\ Write /\ current' = [current EXCEPT !.line = last + 1]
        \/ last = Len(Lines[p]) /\ Write /\ NextBackend
        \/ NextBackend /\ UNCHANGED datagrams
  /\ UNCHANGED <<upc, listening, inbox, queue, idle, read, posted>>

PacketDone ==
  /\ ~idle
  /\ current.packet \in Unparsable \/ current.backend > Len(UdpBackends)
  /\ idle' = TRUE
  /\ posted' = posted \cup {current.packet}
  /\ UNCHANGED <<upc, listening, inbox, queue, current, datagrams, read>>

\* The count of the WaitGroup: one per packet queued and not yet posted.
PendingQueuedOnly == Len(queue) \* (mutant of Pending)
Pending == Len(queue) + IF idle THEN 0 ELSE 1

UdpReturns ==
  /\ Pending = 0
  /\ GoU("draining", "returned")
  /\ UNCHANGED <<listening, inbox, queueVars, datagrams, read, posted>>

PosterStep == TakePacket \/ SendDatagram \/ PacketDone

UdpStep ==
  \/ UdpRun \/ ReadPacketFails \/ UdpReturns \/ PosterStep
  \/ \E p \in Packets : ReadPacket(p) \/ PacketLost(p)

(***************************************************************************)
(* Properties                                                              *)
(***************************************************************************)

ReadBefore(p, q) ==
  \E i, j \in 1..Len(read) : i < j /\ read[i] = p /\ read[j] = q

\* Datagram d is the first of its packet to its backend, after those before it.
Starts(d, before) ==
  /\ d.first = 1
  /\ \A i \in before : datagrams[i].to = d.to => ReadBefore(datagrams[i].packet, d.packet)

\* Datagram d goes on where the previous one to its backend ended.
Continues(d, before) ==
  \E i \in before :
    /\ datagrams[i].to = d.to /\ datagrams[i].packet = d.packet
    /\ d.first = datagrams[i].last + 1
    /\ \A k \in before : datagrams[k].to = d.to => k <= i

\* A backend receives whole lines, never more than its MTU in a datagram, and
\* the datagrams that come of the same packet follow one another without a gap
\* or a repetition, packets in the order they were read.
DatagramsSound ==
  \A j \in 1..Len(datagrams) :
    LET d == datagrams[j]
    IN /\ Length(d.packet, d.first, d.last) <= MTU[d.to]
       /\ Starts(d, 1..(j - 1)) \/ Continues(d, 1..(j - 1))

==============================================================================
