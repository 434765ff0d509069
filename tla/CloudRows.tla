------------------------------- MODULE CloudRows -------------------------------
(***************************************************************************)
(* The rows the portal edits for one Qube: readers and their containers    *)
(* (readers.go), sensors (sensors.go) and telemetry mappings               *)
(* (telemetry_settings.go), under requests that run at once over one       *)
(* connection pool and the constraints of 001_init.sql.                    *)
(*                                                                         *)
(* PostgreSQL is modelled at READ COMMITTED: a statement sees what is      *)
(* committed and waits for the row, foreign key and unique key locks of    *)
(* other transactions; a transaction's writes show when it commits; a      *)
(* cycle of waits fails the statement of one of its members.  A statement  *)
(* outside a transaction commits at once and holds a connection only while *)
(* it runs or waits.  Requests whose checks of the organisation, the       *)
(* protocol and the template fail change nothing and are left out, as are  *)
(* the columns that decide nothing here.                                   *)
(***************************************************************************)
EXTENDS Integers, FiniteSets, Functions, TLC

CONSTANTS
  NRequests,   \* bound on requests
  MaxSmall,    \* bound on the updates and the mappings created among them
  PoolSize,    \* connections of the pgxpool
  MultiTarget, \* the protocols with one shared reader per Qube
  Rows,        \* the readers a request may ask for: protocol, name and endpoint
  GivenReader, \* the one that may be there from the start
  Changes,     \* what updateReader may set: records of some columns of a reader
  None

ASSUME ConstantsAssumption ==
  /\ NRequests \in Nat /\ MaxSmall \in Nat /\ PoolSize \in Nat \ {0}
  /\ \A row \in Rows \cup {GivenReader} : DOMAIN row = {"protocol", "name", "host", "active"}
  /\ None \notin 0..NRequests

VARIABLES
  readers, containers, sensors, mappings, \* the committed rows
  pc,      \* per request: its next statement, or how it was answered
  op,      \* per request: what it asks for
  rd,      \* per request: the handler's readerID
  conn,    \* the requests that hold a connection
  locked,  \* per request: the rows its transaction has deleted
  before   \* history: the sensors there were when the request arrived

rowVars == <<readers, containers, sensors, mappings>>
vars == <<rowVars, pc, op, rd, conn, locked, before>>

\* A row is named after the request that inserts it.  Reader 0, its sensors -1
\* and 0 and the mapping 0 of the latter may be there from the start.
Requests == 1..NRequests
Inserted(table, id, row) ==
  [x \in DOMAIN table \cup {id} |-> IF x = id THEN row ELSE table[x]]
NoLocks == [sensors |-> {}, containers |-> {}, readers |-> {}]
Operations(q) ==
  [kind : {"createReader", "smartCreate"}, row : Rows]
    \cup [kind : {"createSensor", "deleteReader"}, reader : 0..q - 1]
    \cup [kind : {"updateReader"}, reader : 0..q - 1, change : Changes]
    \cup [kind : {"deleteSensor", "createMapping"}, sensor : -1..q - 1]
    \cup [kind : {"updateMapping"}, mapping : 0..q - 1, sensor : -1..q - 1]
    \cup [kind : {"deleteMapping"}, mapping : 0..q - 1]
SmallKinds == {"updateReader", "createMapping", "updateMapping"}

Init ==
  /\ \E given \in SUBSET {0} :
       /\ readers = [r \in given |-> GivenReader]
       /\ containers = given
       /\ sensors = [s \in IF given = {} THEN {} ELSE {-1, 0} |-> 0]
       /\ mappings = [m \in given |-> 0]
  /\ pc = [q \in Requests |-> "idle"] /\ op = [q \in Requests |-> [kind |-> "none"]]
  /\ rd = [q \in Requests |-> None] /\ conn = {}
  /\ locked = [q \in Requests |-> NoLocks] /\ before = [q \in Requests |-> {}]

(***************************************************************************)
(* The pool, the locks and the ways a request moves on                     *)
(***************************************************************************)

Free == PoolSize - Cardinality(conn)
Kind(q) == op[q].kind
GoTo(q, to) == pc' = [pc EXCEPT ![q] = to]
KeepRow(q) == UNCHANGED <<rowVars, op, before>>

\* The reader a transaction has inserted and not yet committed.
Inserting(q) == pc[q] \in {"image", "commitReader"}
Key(row) == <<row.protocol, row.name>>
Doomed == UNION {locked[q].readers : q \in Requests}

KeyHolders(key) ==
  {p \in Requests : \/ Inserting(p) /\ Key(op[p].row) = key
                    \/ \E r \in locked[p].readers : Key(readers[r]) = key}
SensorHolders(s) == {p \in Requests : s \in locked[p].sensors}
ReaderHolders(r) == {p \in Requests : r \in locked[p].readers}
ContainerHolders(r) == {p \in Requests : r \in locked[p].containers}
MappingHolders(m) == IF m \in DOMAIN mappings THEN SensorHolders(mappings[m]) ELSE {}
SensorsOf(r) == {s \in DOMAIN sensors : sensors[s] = r}
CascadeHolders(r) == (UNION {SensorHolders(s) : s \in SensorsOf(r)}) \cup ContainerHolders(r)

\* The requests whose locks the statement of q waits for.
Blockers(q) ==
  IF q \notin conn THEN {} ELSE
  (CASE pc[q] = "insertReader"  -> KeyHolders(Key(op[q].row))
     [] pc[q] = "insertSensor"  -> ReaderHolders(rd[q])
     [] pc[q] = "insertMapping" ->
          SensorHolders(IF Kind(q) = "createMapping" THEN op[q].sensor ELSE q)
     [] pc[q] = "deleteSensor"  -> SensorHolders(op[q].sensor)
     [] pc[q] = "dropContainer" -> ContainerHolders(rd[q])
     [] pc[q] = "dropReader"    -> ReaderHolders(rd[q])
     [] pc[q] = "cascade"       -> CascadeHolders(rd[q])
     [] pc[q] = "updateReader"  -> ReaderHolders(op[q].reader)
          \cup (IF op[q].reader \in DOMAIN readers
                THEN KeyHolders(Key(op[q].change @@ readers[op[q].reader])) ELSE {})
     [] pc[q] = "updateMapping" -> MappingHolders(op[q].mapping) \cup SensorHolders(op[q].sensor)
     [] pc[q] = "deleteMapping" -> MappingHolders(op[q].mapping)
     [] OTHER -> {}) \ {q}

Runs(q, stmt) == pc[q] = stmt /\ q \in conn /\ Blockers(q) = {}

\* The end of a statement outside a transaction, of a COMMIT or of a ROLLBACK.
EndsAt(q, to) ==
  /\ GoTo(q, to) /\ conn' = conn \ {q} /\ locked' = [locked EXCEPT ![q] = NoLocks]
  /\ UNCHANGED <<op, before>>

\* A statement of a transaction that goes on.
GoesOn(q, from, to) == Runs(q, from) /\ GoTo(q, to) /\ UNCHANGED <<conn, rd>> /\ KeepRow(q)

(***************************************************************************)
(* Arrival, the checks and the search for a reader                         *)
(***************************************************************************)

Statements == {"insertReader", "insertSensor", "insertMapping", "deleteSensor", "dropReader",
               "updateReader", "updateMapping", "deleteMapping"}

\* The first statement of a handler finds the rows the request names, or not.
Present(o) ==
  /\ "reader" \in DOMAIN o => o.reader \in DOMAIN readers
  /\ "sensor" \in DOMAIN o => o.sensor \in DOMAIN sensors
  /\ "mapping" \in DOMAIN o => o.mapping \in DOMAIN mappings

After(kind) ==
  CASE kind = "createReader"  -> "insertReader"
    [] kind = "smartCreate"   -> "find"
    [] kind = "createSensor"  -> "insertSensor"
    [] kind = "createMapping" -> "insertMapping"
    [] kind = "deleteReader"  -> "dropReader"
    [] OTHER                  -> kind

ReaderOf(o) ==
  IF "reader" \in DOMAIN o THEN o.reader
  ELSE IF o.kind = "deleteSensor" THEN sensors[o.sensor] ELSE None

Bounded(o) ==
  \/ o.kind \notin SmallKinds
  \/ Cardinality({p \in Requests : Kind(p) \in SmallKinds}) < MaxSmall

Accept(q, o) ==
  /\ Present(o) /\ Bounded(o)
  /\ op' = [op EXCEPT ![q] = o] /\ GoTo(q, After(o.kind))
  /\ rd' = [rd EXCEPT ![q] = ReaderOf(o)] /\ before' = [before EXCEPT ![q] = DOMAIN sensors]

NotFound(q, o) == ~Present(o) /\ GoTo(q, "notFound") /\ UNCHANGED <<op, rd, before>>

\* A request arrives, by number, and is checked.
Arrive(q) ==
  /\ pc[q] = "idle" /\ \A p \in Requests : p < q => pc[p] # "idle"
  /\ Free > 0 /\ UNCHANGED <<rowVars, conn, locked>>
  /\ \E o \in Operations(q) : Accept(q, o) \/ NotFound(q, o)

\* findOrCreateReader: the shared reader of a multi-target protocol (of several,
\* the oldest: any of them here), or one whose configuration has the endpoint.
Matching(row) ==
  {r \in DOMAIN readers :
     /\ readers[r].active /\ readers[r].protocol = row.protocol
     /\ row.protocol \notin MultiTarget => row.host # None /\ readers[r].host = row.host}

FindReader(q) ==
  /\ pc[q] = "find" /\ Free > 0
  /\ \/ Matching(op[q].row) = {} /\ GoTo(q, "insertReader") /\ UNCHANGED rd
     \/ \E r \in Matching(op[q].row) : GoTo(q, "insertSensor") /\ rd' = [rd EXCEPT ![q] = r]
  /\ UNCHANGED <<conn, locked>> /\ KeepRow(q)

Acquire(q) ==
  /\ pc[q] \in Statements /\ q \notin conn /\ Free > 0
  /\ conn' = conn \cup {q} /\ UNCHANGED <<pc, rd, locked>> /\ KeepRow(q)

(***************************************************************************)
(* createReader and createAutoReader                                       *)
(***************************************************************************)

\* (mutant of InsertReaderFails) the transaction is not rolled back.
InsertReaderLeaks(q) ==
  /\ Runs(q, "insertReader") /\ \E r \in DOMAIN readers : Key(readers[r]) = Key(op[q].row)
  /\ GoTo(q, "failed") /\ UNCHANGED <<rowVars, rd, conn, locked, op, before>>

\* The unique key (qube, protocol, name) is taken: 500, and the deferred
\* Rollback gives the connection back.
InsertReaderFails(q) ==
  /\ Runs(q, "insertReader") /\ \E r \in DOMAIN readers : Key(readers[r]) = Key(op[q].row)
  /\ EndsAt(q, "failed") /\ UNCHANGED <<rowVars, rd>>

InsertReader(q) ==
  /\ GoesOn(q, "insertReader", "image") /\ UNCHANGED locked
  /\ \A r \in DOMAIN readers : Key(readers[r]) # Key(op[q].row)

\* resolveReaderImage reads the registry settings through the pool, that is
\* over a second connection, while the transaction keeps its own.
ResolveImage(q) == Free > 0 /\ GoesOn(q, "image", "commitReader") /\ UNCHANGED locked

CommitReader(q) ==
  /\ Runs(q, "commitReader")
  /\ readers' = Inserted(readers, q, op[q].row) /\ containers' = containers \cup {q}
  /\ rd' = [rd EXCEPT ![q] = q]
  /\ EndsAt(q, IF Kind(q) = "smartCreate" THEN "insertSensor" ELSE "ok")
  /\ UNCHANGED <<sensors, mappings>>

(***************************************************************************)
(* Sensors and mappings inserted                                           *)
(***************************************************************************)

\* The foreign key fails when the reader has gone since it was looked up.
InsertSensor(q) ==
  /\ Runs(q, "insertSensor") /\ UNCHANGED <<readers, containers, mappings, rd>>
  /\ \/ rd[q] \in DOMAIN readers /\ sensors' = Inserted(sensors, q, rd[q]) /\ EndsAt(q, "insertMapping")
     \/ rd[q] \notin DOMAIN readers /\ UNCHANGED sensors /\ EndsAt(q, "failed")

\* createTelemetrySetting's INSERT, and autoCreateTelemetryMapping's after a
\* sensor's, whose failure is only logged.
InsertMapping(q) ==
  LET explicit == Kind(q) = "createMapping"
      s == IF explicit THEN op[q].sensor ELSE q
  IN /\ Runs(q, "insertMapping") /\ UNCHANGED <<readers, containers, sensors, rd>>
     /\ \/ s \in DOMAIN sensors /\ mappings' = Inserted(mappings, q, s) /\ EndsAt(q, "ok")
        \/ /\ s \notin DOMAIN sensors /\ UNCHANGED mappings
           /\ EndsAt(q, IF explicit THEN "failed" ELSE "ok")

(***************************************************************************)
(* deleteSensor and deleteReader                                           *)
(***************************************************************************)

Lock(q, table, ids) == locked' = [locked EXCEPT ![q][table] = @ \cup ids]

\* The foreign key empties the sensor's mappings within this statement: the
\* DELETE FROM telemetry_settings WHERE sensor_id that follows matches none.
DeleteSensor(q) ==
  /\ GoesOn(q, "deleteSensor", "count")
  /\ Lock(q, "sensors", {op[q].sensor} \cap DOMAIN sensors)

\* (mutant of Remaining) as if the count were taken before the DELETE.
RemainingLessOne(q) ==
  IF Cardinality(SensorsOf(rd[q]) \ locked[q].sensors) <= 1 THEN {}
  ELSE SensorsOf(rd[q]) \ locked[q].sensors

Remaining(q) == SensorsOf(rd[q]) \ locked[q].sensors

Count(q) ==
  /\ GoesOn(q, "count", IF Remaining(q) = {} THEN "dropContainer" ELSE "commitDelete")
  /\ UNCHANGED locked

\* (mutant of DropContainer) the DELETE runs over the pool: it commits at once.
DropContainerAtOnce(q) ==
  /\ Runs(q, "dropContainer") /\ GoTo(q, "dropReader")
  /\ containers' = containers \ {rd[q]}
  /\ UNCHANGED <<readers, sensors, mappings, op, before, conn, rd, locked>>

DropContainer(q) ==
  /\ GoesOn(q, "dropContainer", "dropReader")
  /\ Lock(q, "containers", {rd[q]} \cap containers)

DropReader(q) ==
  /\ GoesOn(q, "dropReader", "cascade")
  /\ Lock(q, "readers", {rd[q]} \cap DOMAIN readers)

\* The rows deleted by ids, the rows their foreign keys delete with them, and
\* the mappings of the sensors, which stay without one.
Deletes(ids) ==
  /\ readers' = Restrict(readers, DOMAIN readers \ ids.readers)
  /\ containers' = containers \ (ids.containers \cup ids.readers)
  /\ sensors' = Restrict(sensors, DOMAIN sensors \ ids.sensors)
  /\ mappings' = [m \in DOMAIN mappings |->
                    IF mappings[m] \in ids.sensors THEN None ELSE mappings[m]]

\* ON DELETE CASCADE.  deleteReader's statement is outside a transaction and
\* commits here.
Cascade(q) ==
  LET cascaded == UNION {SensorsOf(r) : r \in locked[q].readers}
      all == [locked[q] EXCEPT !.sensors = @ \cup cascaded]
  IN IF Kind(q) = "deleteReader"
     THEN /\ Runs(q, "cascade") /\ Deletes(all) /\ EndsAt(q, "ok") /\ UNCHANGED rd
     ELSE /\ GoesOn(q, "cascade", "commitDelete") /\ Lock(q, "sensors", cascaded)

CommitDelete(q) ==
  /\ Runs(q, "commitDelete") /\ Deletes(locked[q]) /\ EndsAt(q, "ok") /\ UNCHANGED rd

(***************************************************************************)
(* Updates, and the end of a request                                       *)
(***************************************************************************)

UpdateReader(q) ==
  LET r == op[q].reader
      row == op[q].change @@ readers[r]
      taken == \E p \in DOMAIN readers \ {r} : Key(readers[p]) = Key(row)
  IN /\ Runs(q, "updateReader") /\ UNCHANGED <<containers, sensors, mappings, rd>>
     /\ \/ r \notin DOMAIN readers /\ UNCHANGED readers /\ EndsAt(q, "ok")
        \/ r \in DOMAIN readers /\ taken /\ UNCHANGED readers /\ EndsAt(q, "failed")
        \/ /\ r \in DOMAIN readers /\ ~taken /\ EndsAt(q, "ok")
           /\ readers' = [readers EXCEPT ![r] = row]

UpdateMapping(q) ==
  LET m == op[q].mapping s == op[q].sensor
  IN /\ Runs(q, "updateMapping") /\ UNCHANGED <<readers, containers, sensors, rd>>
     /\ \/ m \notin DOMAIN mappings /\ UNCHANGED mappings /\ EndsAt(q, "ok")
        \/ m \in DOMAIN mappings /\ s \notin DOMAIN sensors /\ UNCHANGED mappings
           /\ EndsAt(q, "failed")
        \/ m \in DOMAIN mappings /\ s \in DOMAIN sensors /\ EndsAt(q, "ok")
           /\ mappings' = [mappings EXCEPT ![m] = s]

DeleteMapping(q) ==
  /\ Runs(q, "deleteMapping") /\ UNCHANGED <<readers, containers, sensors, rd>>
  /\ mappings' = Restrict(mappings, DOMAIN mappings \ {op[q].mapping})
  /\ EndsAt(q, "ok")

\* PostgreSQL fails a statement in a cycle of waits.  The transaction is
\* aborted: what is left of the handler ends in "commit failed".
DeadlockVictim(q) ==
  /\ \E cycle \in SUBSET Requests :
       /\ q \in cycle
       /\ \A p \in cycle : Blockers(p) \cap cycle # {} /\ \E w \in cycle : p \in Blockers(w)
  /\ EndsAt(q, "failed") /\ UNCHANGED <<rowVars, rd>>

Step(q) ==
  \/ FindReader(q) \/ Acquire(q)
  \/ InsertReaderFails(q) \/ InsertReader(q) \/ ResolveImage(q) \/ CommitReader(q)
  \/ InsertSensor(q) \/ InsertMapping(q)
  \/ DeleteSensor(q) \/ Count(q) \/ DropContainer(q) \/ DropReader(q) \/ Cascade(q)
  \/ CommitDelete(q)
  \/ UpdateReader(q) \/ UpdateMapping(q) \/ DeleteMapping(q)
  \/ DeadlockVictim(q)

Next == \E q \in Requests : Arrive(q) \/ Step(q)

Spec == Init /\ [][Next]_vars

\* A handler that can go on goes on, net/http and PostgreSQL see to it.  A
\* request has finitely many steps, so no other request can starve it.
FairSpec == Spec /\ WF_vars(\E q \in Requests : Step(q))

(***************************************************************************)
(* Properties                                                              *)
(***************************************************************************)

\* Whatever is committed hangs together: each reader has its container and each
\* container its reader, sensors belong to readers, mappings name sensors or
\* nothing, and no two readers of a protocol share a name.
RowsSound ==
  /\ containers = DOMAIN readers
  /\ \A s \in DOMAIN sensors : sensors[s] \in DOMAIN readers
  /\ \A m \in DOMAIN mappings : mappings[m] \in DOMAIN sensors \cup {None}
  /\ \A r, t \in DOMAIN readers : Key(readers[r]) = Key(readers[t]) => r = t
  /\ Cardinality(conn) <= PoolSize

\* A sensor that was there when a request arrived is deleted by it only if the
\* request names the sensor or its reader: the clean-up of an empty reader in
\* deleteSensorHandler takes with it, at worst, sensors created meanwhile.
SensorKept ==
  [][\A s \in DOMAIN sensors \ DOMAIN sensors' :
       \E q \in Requests :
         /\ pc'[q] # pc[q]
         /\ \/ Kind(q) = "deleteSensor" /\ (op[q].sensor = s \/ s \notin before[q])
            \/ Kind(q) = "deleteReader" /\ op[q].reader = sensors[s]]_vars

\* The pool is exhausted by transactions that each wait for the second
\* connection resolveReaderImage takes, and by statements that wait for them.
Starved ==
  /\ Free = 0 /\ \E q \in conn : pc[q] = "image"
  /\ \A q \in conn : pc[q] = "image" \/ Blockers(q) # {}

\* That is the only way for requests to hang: whatever fails, waits for a lock or
\* meets a deadlock, every request that has arrived is answered, and gives its
\* locks and its connection back for the others to be answered too.
Answered ==
  []<>(Starved \/ \A q \in Requests : pc[q] \in {"idle", "ok", "notFound", "failed"})
==============================================================================
