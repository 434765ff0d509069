----------------------------- MODULE ModbusReader -----------------------------
(***************************************************************************)
(* modbus-reader (main.go, modbus.go): the register readings of all its    *)
(* sensors are sorted by register type and address once, at start; a timer *)
(* cycle then connects, reads each type in blocks of at most               *)
(* SingleReadCount registers, plus one for a 32-bit value at the end, and  *)
(* posts a batch per sensor and type.  Any error ends the cycle.           *)
(*                                                                         *)
(* A reading is a record: eq, the sensor; type, its register_type; addr;   *)
(* wide, whether its data_type takes two registers.  A register's value is *)
(* the number of the request that read it in this cycle.                   *)
(***************************************************************************)
EXTENDS CoreSwitch, Integers, SequencesExt

CONSTANTS
  AddrSpace,       \* 2^16 in the code: addresses and counts wrap around it
  SingleReadCount, \* reader config: single_read_count
  ReadLimit        \* registers one request may ask for (125 in the protocol)

ASSUME BlockAssumption ==
  /\ AddrSpace \in Nat
  /\ SingleReadCount \in 1..(AddrSpace - 1)
  /\ ReadLimit \in 1..(AddrSpace - 2)

Reading == [eq : STRING, type : STRING, addr : 0..(AddrSpace - 1), wide : BOOLEAN]

VARIABLES
  recs,     \* the readings, in the order Init sorted them into
  device,   \* its server: "up", "down" (no connection), "mute" (reads fail); None: no reader
  mpc,      \* where fetchData stands
  types,    \* register types this cycle has still to read
  rtype,    \* the type it is reading
  start,    \* startIndx in the addresses of the type being read
  requests, \* requests of this cycle that were answered
  regs,     \* the registers read: request number by address, 0 when not read
  groups,   \* sensors whose batch of this type is still to be sent
  sent,     \* per reading: the registers of the value last sent, <<>> before
  conError  \* the flag conError

configVars == <<recs, device>>
cycleVars  == <<types, rtype, start, requests, regs, groups>>
modbusVars == <<configVars, mpc, cycleVars, sent, conError>>

Modbus == "modbus"
Known  == {"Holding", "Input"}

\* mpc ends in ":wait" while fetchData waits for an answer of core-switch.
ModbusPC == {"idle", "restored", "restored:wait", "next", "block", "complain connect",
             "complain read", "complain:wait", "send", "send:wait", "off"}

ModbusTypeOK ==
  /\ device \in {"up", "down", "mute", None}
  /\ mpc \in ModbusPC
  /\ types \subseteq {r.type : r \in ToSet(recs)}
  /\ rtype \in {r.type : r \in ToSet(recs)} \cup {None}
  /\ start \in 1..(Len(recs) + 1)
  /\ requests \in Nat
  /\ regs \in [0..(AddrSpace - 1) -> Nat]
  /\ groups \subseteq {r.eq : r \in ToSet(recs)}
  /\ sent \in [1..Len(recs) -> Seq(Nat)]
  /\ conError \in BOOLEAN

(***************************************************************************)
(* main, parseSensors and Init                                             *)
(***************************************************************************)

\* parseSensors knows two spellings of each type in lower case; any other stays.
NormalType(t) ==
  CASE t = "holding" -> "Holding" [] t = "input" -> "Input" [] OTHER -> t

\* RegType[0]: 'H', 'I', or the small letter other types begin with.
Letter(t) ==
  CASE t \in {"Holding", "HOLDING"} -> 72 [] t \in {"Input", "INPUT"} -> 73 [] OTHER -> 99

Less(a, b) ==
  IF a.type = b.type THEN a.addr < b.addr ELSE Letter(a.type) < Letter(b.type)

Parsed(r) == [r EXCEPT !.type = NormalType(@)]

\* sort.Slice on a dozen elements or fewer is an insertion sort: an element moves
\* left past those it is less than, and stops at the first it is not.
Insert(sorted, r) ==
  LET stops == {k \in 1..Len(sorted) : ~Less(r, sorted[k])}
  IN  InsertAt(sorted, Max({0} \cup stops) + 1, r)

Sorted(readings) ==
  LET sorted[i \in 0..Len(readings)] ==
        IF i = 0 THEN <<>> ELSE Insert(sorted[i - 1], Parsed(readings[i]))
  IN  sorted[Len(readings)]

OfType(t) == {r \in ToSet(recs) : r.type = t}

\* mapRegTypeAddr: neighbours that are equal become one.
WithAddr(kept, t, r) ==
  IF r.type # t \/ (kept # <<>> /\ Last(kept) = r.addr) THEN kept ELSE Append(kept, r.addr)

Addrs(t) ==
  LET kept[i \in 0..Len(recs)] ==
        IF i = 0 THEN <<>> ELSE WithAddr(kept[i - 1], t, recs[i])
  IN  kept[Len(recs)]

ModbusInit(readings, dev) ==
  /\ recs = Sorted(readings)
  /\ device = dev
  /\ mpc = IF dev = None THEN "off" ELSE "idle"
  /\ types = {} /\ rtype = None /\ start = 1 /\ requests = 0
  /\ regs = [a \in 0..(AddrSpace - 1) |-> 0]
  /\ groups = {}
  /\ sent = [i \in 1..Len(recs) |-> <<>>]
  /\ conError = FALSE

(***************************************************************************)
(* fetchData                                                               *)
(***************************************************************************)

GoM(from, to) == mpc = from /\ mpc' = to

BeginCycle ==
  /\ types' = {r.type : r \in ToSet(recs)}
  /\ requests' = 0
  /\ UNCHANGED <<rtype, start, regs, groups>>

\* The timer fires and the connection opens.
Connect ==
  /\ device # "down"
  /\ GoM("idle", IF conError THEN "restored" ELSE "next")
  /\ BeginCycle
  /\ UNCHANGED <<coreVars, configVars, sent, conError>>

ConnectFails ==
  /\ device = "down"
  /\ GoM("idle", "complain connect")
  /\ UNCHANGED <<coreVars, configVars, cycleVars, sent, conError>>

\* Which alert fetchData sends at a place, and where it goes on from there.
TextAt == [p \in {"complain connect", "complain read", "restored"} |->
             IF p = "restored" THEN "restored"
             ELSE IF p = "complain read" THEN "read error" ELSE "cannot connect"]
After(p) == IF p = "restored" THEN "restored:wait" ELSE "complain:wait"

\* (mutant of SendConnAlert)
SendConnAlertOnce(arrives) ==
  /\ mpc \in DOMAIN TextAt
  /\ mpc' = After(mpc)
  /\ IF arrives /\ (mpc # "restored" => ~conError)
       THEN SendAlert(Modbus, TextAt[mpc]) ELSE Lost(Modbus)
  /\ conError' = (mpc # "restored")
  /\ UNCHANGED <<configVars, cycleVars, sent>>

\* sendConnAlert, and the alert that the connection is back.
SendConnAlert(arrives) ==
  /\ mpc \in DOMAIN TextAt
  /\ mpc' = After(mpc)
  /\ IF arrives THEN SendAlert(Modbus, TextAt[mpc]) ELSE Lost(Modbus)
  /\ conError' = (mpc # "restored")
  /\ UNCHANGED <<configVars, cycleVars, sent>>

AlertAnswered ==
  /\ waiting[Modbus] = 0
  /\ \/ GoM("restored:wait", "next")
     \/ GoM("complain:wait", "idle")
  /\ UNCHANGED <<coreVars, configVars, cycleVars, sent, conError>>

\* The loop over the register types, in the order of a Go map: any.
NextType(t) ==
  /\ t \in types
  /\ GoM("next", "block")
  /\ types' = types \ {t} /\ rtype' = t
  /\ start' = 1
  /\ regs' = [a \in DOMAIN regs |-> 0]
  /\ UNCHANGED <<coreVars, configVars, requests, groups, sent, conError>>

CycleComplete ==
  /\ types = {}
  /\ GoM("next", "idle")
  /\ UNCHANGED <<coreVars, configVars, cycleVars, sent, conError>>

Limit == (Addrs(rtype)[start] + SingleReadCount) % AddrSpace

\* (mutant of InBlock)
InBlockInclusive(i) == \A j \in start..i : Addrs(rtype)[j] <= Limit

\* The loop over the addresses gets past index i without leaving the block.
InBlock(i) == \A j \in start..i : Addrs(rtype)[j] < Limit

\* The last index of the block that begins at start.
LastIndex == Max({start} \cup {i \in start..Len(Addrs(rtype)) : InBlock(i)})

\* adjustCountForDataTypes: up to the second register of each 32-bit value that
\* begins in the block.
AdjustCount(first, count) ==
  LET end    == (first + count - 1) % AddrSpace
      inside == {r \in OfType(rtype) : r.addr >= first /\ r.addr <= end /\ r.wide}
  IN  Max({count} \cup {(r.addr + 2 - first) % AddrSpace : r \in inside})

\* (mutant of BlockCount)
BlockCountNarrow ==
  LET a == Addrs(rtype) IN (a[LastIndex] - a[start] + 1) % AddrSpace

\* The registers the next request asks for.
BlockCount ==
  LET a == Addrs(rtype)
  IN  AdjustCount(a[start], (a[LastIndex] - a[start] + 1) % AddrSpace)

\* (mutant of AfterBlock)
AfterBlockFixedStep ==
  /\ start' = start + SingleReadCount
  /\ IF start' <= Len(Addrs(rtype))
       THEN UNCHANGED <<mpc, groups>>
       ELSE mpc' = "send" /\ groups' = {r.eq : r \in OfType(rtype)}

AfterBlock ==
  /\ start' = LastIndex + 1
  /\ IF start' <= Len(Addrs(rtype))
       THEN UNCHANGED <<mpc, groups>>
       ELSE mpc' = "send" /\ groups' = {r.eq : r \in OfType(rtype)}

\* A register type the reader does not know is skipped, and its values sent all the
\* same.
SkipBlock ==
  /\ mpc = "block" /\ rtype \notin Known
  /\ AfterBlock
  /\ UNCHANGED <<coreVars, configVars, types, rtype, requests, regs, sent, conError>>

\* What the client library refuses to ask for.
BadRequest(first, count) == count \notin 1..ReadLimit \/ first + count > AddrSpace

ReadBlock ==
  LET first == Addrs(rtype)[start]
  IN  /\ mpc = "block" /\ rtype \in Known
      /\ device = "up" /\ ~BadRequest(first, BlockCount)
      /\ requests' = requests + 1
      /\ regs' = [a \in DOMAIN regs |->
                    IF a \in first..(first + BlockCount - 1) THEN requests' ELSE regs[a]]
      /\ AfterBlock
      /\ UNCHANGED <<coreVars, configVars, types, rtype, sent, conError>>

ReadFails ==
  /\ mpc = "block" /\ rtype \in Known
  /\ device # "up" \/ BadRequest(Addrs(rtype)[start], BlockCount)
  /\ mpc' = "complain read"
  /\ UNCHANGED <<coreVars, configVars, cycleVars, sent, conError>>

\* The registers a value is decoded from; <<0>> is the "0" sent without any.
DecodeValue(r) ==
  IF r.wide /\ regs[r.addr] # 0
    THEN <<regs[r.addr], regs[(r.addr + 1) % AddrSpace]>>
    ELSE <<regs[r.addr]>>

SendGroup(eq) ==
  /\ eq \in groups
  /\ GoM("send", "send:wait")
  /\ groups' = groups \ {eq}
  /\ sent' = [i \in 1..Len(recs) |-> IF recs[i].eq = eq /\ recs[i].type = rtype
                                       THEN DecodeValue(recs[i]) ELSE sent[i]]
  /\ SendBatch(Modbus, {"influxdb"})
  /\ UNCHANGED <<configVars, types, rtype, start, requests, regs, conError>>

GroupAnswered ==
  /\ waiting[Modbus] = 0
  /\ GoM("send:wait", IF groups = {} THEN "next" ELSE "send")
  /\ UNCHANGED <<coreVars, configVars, cycleVars, sent, conError>>

\* The plant: connections and registers come and go.
DeviceBecomes(x) ==
  /\ device # x /\ mpc # "off"
  /\ device' = x
  /\ UNCHANGED <<coreVars, recs, mpc, cycleVars, sent, conError>>

ModbusStep ==
  \/ Connect \/ ConnectFails
  \/ \E arrives \in BOOLEAN : SendConnAlert(arrives)
  \/ AlertAnswered
  \/ \E t \in {r.type : r \in ToSet(recs)} : NextType(t)
  \/ CycleComplete \/ SkipBlock \/ ReadBlock \/ ReadFails
  \/ \E r \in ToSet(recs) : SendGroup(r.eq)
  \/ GroupAnswered

\* The timer fires again and again, and complaints do not all get lost.
ModbusFairness ==
  /\ WF_modbusVars(ModbusStep)
  /\ SF_modbusVars(mpc # "restored" /\ SendConnAlert(TRUE))
  /\ HandlersRun(Modbus) /\ ComplaintsGetThrough(Modbus)

(***************************************************************************)
(* Properties                                                              *)
(***************************************************************************)

AllKnown == \A r \in ToSet(recs) : r.type \in Known

\* Another reading begins at the second register of this one.
Shadowed(r) ==
  r.wide /\ \E q \in ToSet(recs) : q.type = r.type /\ q.addr = r.addr + 1

\* A value sent for a holding or input register was decoded from registers that were
\* read in this cycle, and both words of a 32-bit value came from the same request:
\* blocks are cut so that no value is torn or replaced by "0".  Only a reading that
\* begins inside another one may tear it; and one whose register type the reader does
\* not know, by breaking the sort the blocks rely on.
ValuesWhole ==
  \A i \in 1..Len(recs) :
    AllKnown /\ sent[i] # <<>> =>
      /\ sent[i][1] # 0
      /\ ~Shadowed(recs[i]) =>
           Len(sent[i]) = (IF recs[i].wide THEN 2 ELSE 1) /\ sent[i][Len(sent[i])] = sent[i][1]

\* A request never asks for more than single_read_count registers and one, whatever
\* gaps, repetitions and 32-bit values the addresses hold, again if the types are known.
BlocksFit ==
  mpc = "block" /\ AllKnown =>
    BlockCount \in 1..(SingleReadCount + 1)
=============================================================================
