---------------------------- MODULE CloudRowsProofs ----------------------------
(* Proofs about CloudRows, for every number of requests, every size of the pool *)
(* and whatever readers and changes requests ask for.                           *)
EXTENDS CloudRows, FiniteSetTheorems, TLAPS

\* The ids of rows, the locks of a transaction and the places of a request.
Ids   == -1..NRequests
Locks == [sensors : SUBSET Ids, containers : SUBSET Ids, readers : SUBSET Ids]
Early == {"idle", "find", "insertReader", "image", "commitReader"}
Deleting == {"count", "dropContainer", "dropReader", "cascade", "commitDelete"}
PC == Early \cup Deleting
        \cup {"insertSensor", "insertMapping", "deleteSensor", "updateReader",
              "updateMapping", "deleteMapping", "ok", "failed", "notFound"}

\* The types the steps rely on.
Types ==
  /\ pc \in [Requests -> PC]
  /\ DOMAIN op = Requests
  /\ rd \in [Requests -> Ids \cup {None}]
  /\ conn \subseteq Requests
  /\ locked \in [Requests -> Locks]
  /\ DOMAIN readers \subseteq Ids /\ DOMAIN sensors \subseteq Ids /\ containers \subseteq Ids

\* A request that has not inserted its reader yet: nothing names that reader.
FreshInv ==
  \A r \in Requests :
    pc[r] \in Early => r \notin DOMAIN readers /\ \A q \in Requests : rd[q] # r

\* An insertion under way has its key for itself.
KeyOf(r)  == Key(readers[r])
NewKey(q) == Key(op[q].row)
KeyInv ==
  \A p \in Requests : Inserting(p) =>
    /\ \A r \in DOMAIN readers : KeyOf(r) # NewKey(p)
    /\ \A q \in Requests \ {p} : Inserting(q) => NewKey(q) # NewKey(p)

\* No two readers of a template have one name.
KeysUnique == \A r, t \in DOMAIN readers : KeyOf(r) = KeyOf(t) => r = t

\* What the transaction of q holds, by where it stands: from dropReader on it has the
\* container of its reader if there is one, and the two go together.
Held(q) ==
  /\ locked[q].readers \subseteq {rd[q]} /\ locked[q].containers \subseteq {rd[q]}
  /\ pc[q] \notin {"cascade", "commitDelete"} => locked[q].readers = {}
  /\ pc[q] \notin {"dropReader", "cascade", "commitDelete"} => locked[q].containers = {}
  /\ pc[q] \in Deleting \cup {"deleteSensor"} /\ Kind(q) = "deleteReader" =>
       pc[q] \in {"dropReader", "cascade"} /\ locked[q].containers = {}
  /\ pc[q] = "dropReader" /\ Kind(q) # "deleteReader" =>
       locked[q].containers = {rd[q]} \cap containers
  /\ pc[q] \in {"cascade", "commitDelete"} /\ Kind(q) # "deleteReader" =>
       locked[q].containers = locked[q].readers
  /\ pc[q] = "commitDelete" => \A r \in locked[q].readers : SensorsOf(r) \subseteq locked[q].sensors

\* No two transactions hold the same container.
Exclusive ==
  \A p, q \in Requests : p # q => locked[p].containers \cap locked[q].containers = {}

\* A sensor has its reader.
SensorsSound == \A s \in DOMAIN sensors : sensors[s] \in DOMAIN readers

\* Where GoTo leaves the requests.
LEMMA Moved ==
  ASSUME Types, NEW q \in Requests, NEW to \in PC, GoTo(q, to)
  PROVE  pc' \in [Requests -> PC] /\ pc'[q] = to /\ \A p \in Requests \ {q} : pc'[p] = pc[p]
  BY DEF Types, GoTo

\* What a request that is accepted starts with.
LEMMA Accepted ==
  ASSUME Types, SensorsSound, NEW q \in Requests, NEW o \in Operations(q), Accept(q, o)
  PROVE  /\ pc' \in [Requests -> PC] /\ \A p \in Requests \ {q} : pc'[p] = pc[p]
         /\ pc'[q] \notin {"image", "commitReader"}
         /\ pc'[q] \in Deleting => pc'[q] = "dropReader" /\ o.kind = "deleteReader"
         /\ pc'[q] = "deleteSensor" => o.kind # "deleteReader"
         /\ rd' \in [Requests -> Ids \cup {None}] /\ rd'[q] \in DOMAIN readers \cup {None}
         /\ \A p \in Requests \ {q} : rd'[p] = rd[p] /\ op'[p] = op[p]
         /\ op'[q] = o /\ DOMAIN op' = Requests
<1>1. /\ o.kind \in {"createReader", "smartCreate", "createSensor", "deleteReader", "updateReader",
                     "deleteSensor", "createMapping", "updateMapping", "deleteMapping"}
      /\ o.kind = "deleteSensor" => "sensor" \in DOMAIN o
  BY DEF Operations
<1>2. After(o.kind) \in PC \ {"image", "commitReader"}
      /\ (After(o.kind) \in Deleting => After(o.kind) = "dropReader" /\ o.kind = "deleteReader")
      /\ (After(o.kind) = "deleteSensor" => o.kind # "deleteReader")
  BY <1>1 DEF After, PC, Early, Deleting
<1>3. ReaderOf(o) \in DOMAIN readers \cup {None}
  BY <1>1 DEF Accept, Present, ReaderOf, SensorsSound
<1>4. GoTo(q, After(o.kind)) /\ rd' = [rd EXCEPT ![q] = ReaderOf(o)] /\ op' = [op EXCEPT ![q] = o]
  BY DEF Accept
<1>5. /\ rd' \in [Requests -> Ids \cup {None}] /\ rd'[q] \in DOMAIN readers \cup {None}
      /\ \A p \in Requests \ {q} : rd'[p] = rd[p] /\ op'[p] = op[p]
      /\ op'[q] = o /\ DOMAIN op' = Requests
  BY <1>3, <1>4 DEF Types
<1>6. QED
  BY <1>2, <1>4, <1>5, Moved

\* Requests, the given rows and None do not collide.
LEMMA RequestFacts == Requests \subseteq Ids /\ {-1, 0} \subseteq Ids /\ None \notin Requests
  BY ConstantsAssumption DEF Requests, Ids

\* Every step keeps the types.
LEMMA TypesStep ==
  ASSUME Types, SensorsSound, NEW q \in Requests, Arrive(q) \/ Step(q)
  PROVE  Types'
<1> USE RequestFacts DEF Types, KeepRow, rowVars, EndsAt, GoesOn, GoTo, Runs, Kind
<1>1. CASE Arrive(q)
  <2>1. CASE \E o \in Operations(q) : NotFound(q, o)
    BY <1>1, <2>1 DEF Arrive, NotFound, PC
  <2>2. ASSUME NEW o \in Operations(q), Accept(q, o) PROVE Types'
    BY <1>1, <2>2, Accepted DEF Arrive
  <2>3. QED
    BY <1>1, <2>1, <2>2 DEF Arrive
<1>2. CASE FindReader(q)
  BY <1>2 DEF FindReader, PC, Early, Matching
<1>3. CASE Acquire(q)
  BY <1>3 DEF Acquire
<1>4. ASSUME EndsAt(q, "ok") \/ EndsAt(q, "failed") \/ EndsAt(q, "insertMapping")
             \/ EndsAt(q, "insertSensor")
      PROVE  /\ pc' \in [Requests -> PC] /\ DOMAIN op' = Requests /\ conn' \subseteq Requests
             /\ locked' \in [Requests -> Locks]
  BY <1>4, SMTT(30) DEF PC, NoLocks, Locks
<1>5. CASE InsertReaderFails(q) \/ DeadlockVictim(q)
  BY <1>4, <1>5 DEF InsertReaderFails, DeadlockVictim
<1>6. CASE InsertReader(q) \/ ResolveImage(q)
  BY <1>6 DEF InsertReader, ResolveImage, PC, Early
<1>7. CASE CommitReader(q)
  BY <1>4, <1>7 DEF CommitReader, Inserted
<1>8. CASE InsertSensor(q)
  BY <1>4, <1>8 DEF InsertSensor, Inserted
<1>9. CASE InsertMapping(q)
  BY <1>4, <1>9 DEF InsertMapping
<1>10. ASSUME NEW table \in {"sensors", "containers", "readers"}, NEW ids \in SUBSET Ids,
              Lock(q, table, ids)
       PROVE  locked' \in [Requests -> Locks]
  BY <1>10 DEF Lock, Locks
<1>11. CASE DeleteSensor(q)
  <2>1. locked' \in [Requests -> Locks]
    BY <1>10, <1>11 DEF DeleteSensor
  <2>2. QED
    BY <1>11, <2>1 DEF DeleteSensor, PC, Deleting
<1>12. CASE Count(q)
  BY <1>12 DEF Count, PC, Deleting
<1>13. CASE DropContainer(q)
  <2>1. locked' \in [Requests -> Locks]
    BY <1>10, <1>13 DEF DropContainer
  <2>2. QED
    BY <1>13, <2>1 DEF DropContainer, PC, Deleting
<1>14. CASE DropReader(q)
  <2>1. locked' \in [Requests -> Locks]
    BY <1>10, <1>14 DEF DropReader
  <2>2. QED
    BY <1>14, <2>1 DEF DropReader, PC, Deleting
<1>15. ASSUME NEW ids, Deletes(ids)
       PROVE  DOMAIN readers' \subseteq Ids /\ DOMAIN sensors' \subseteq Ids /\ containers' \subseteq Ids
  BY <1>15 DEF Deletes, Restrict
<1>16. CASE Cascade(q)
  <2>1. CASE Kind(q) = "deleteReader"
    BY <1>4, <1>15, <1>16, <2>1 DEF Cascade
  <2>2. CASE Kind(q) # "deleteReader"
    <3>1. UNION {SensorsOf(r) : r \in locked[q].readers} \subseteq Ids
      BY DEF SensorsOf
    <3>2. locked' \in [Requests -> Locks]
      BY <1>10, <1>16, <2>2, <3>1 DEF Cascade
    <3>3. QED
      BY <1>16, <2>2, <3>2 DEF Cascade, PC, Deleting
  <2>3. QED
    BY <2>1, <2>2
<1>17. CASE CommitDelete(q)
  BY <1>4, <1>15, <1>17 DEF CommitDelete
<1>18. CASE UpdateReader(q)
  BY <1>4, <1>18 DEF UpdateReader
<1>19. CASE UpdateMapping(q) \/ DeleteMapping(q)
  BY <1>4, <1>19 DEF UpdateMapping, DeleteMapping
<1>20. QED
  BY <1>1, <1>2, <1>3, <1>5, <1>6, <1>7, <1>8, <1>9, <1>11, <1>12, <1>13, <1>14, <1>16,
     <1>17, <1>18, <1>19 DEF Step

\* What a step does to the pc of the requests, to their readers and to the readers.
LEMMA ReaderMoves ==
  ASSUME Types, SensorsSound, NEW q \in Requests, Arrive(q) \/ Step(q)
  PROVE  /\ \A p \in Requests \ {q} : pc'[p] = pc[p] /\ rd'[p] = rd[p] /\ op'[p] = op[p]
         /\ pc[q] # "idle" => op'[q] = op[q]
         /\ rd'[q] # rd[q] => rd'[q] \in DOMAIN readers \cup {None} \/ CommitReader(q)
         /\ pc'[q] \in Early => pc[q] \in Early
         /\ pc'[q] \in {"image", "commitReader"} => InsertReader(q) \/ pc[q] = "image"
<1> USE DEF Types, KeepRow, EndsAt, GoesOn, GoTo, Runs, Early, PC, Deleting
<1>1. CASE Arrive(q)
  <2>1. ASSUME NEW o \in Operations(q), Accept(q, o)
        PROVE  /\ \A p \in Requests \ {q} : pc'[p] = pc[p] /\ rd'[p] = rd[p] /\ op'[p] = op[p]
               /\ rd'[q] \in DOMAIN readers \cup {None} /\ pc'[q] \notin {"image", "commitReader"}
    BY <2>1, Accepted
  <2>2. ASSUME NEW o \in Operations(q), NotFound(q, o)
        PROVE  /\ \A p \in Requests \ {q} : pc'[p] = pc[p] /\ rd'[p] = rd[p] /\ op'[p] = op[p]
               /\ rd'[q] = rd[q] /\ pc'[q] \notin {"image", "commitReader"}
    BY <2>2 DEF NotFound
  <2>3. PICK o \in Operations(q) : Accept(q, o) \/ NotFound(q, o)
    BY <1>1 DEF Arrive
  <2>4. pc[q] = "idle"
    BY <1>1 DEF Arrive
  <2>5. QED
    BY <2>1, <2>2, <2>3, <2>4
<1>2. CASE FindReader(q) \/ Acquire(q)
  BY <1>2 DEF FindReader, Acquire, Statements, Matching
<1>3. CASE InsertReaderFails(q) \/ InsertReader(q) \/ ResolveImage(q) \/ CommitReader(q)
  BY <1>3 DEF InsertReaderFails, InsertReader, ResolveImage, CommitReader
<1>4. CASE InsertSensor(q) \/ InsertMapping(q)
  BY <1>4 DEF InsertSensor, InsertMapping
<1>5. CASE DeleteSensor(q) \/ Count(q) \/ DropContainer(q) \/ DropReader(q)
  BY <1>5 DEF DeleteSensor, Count, DropContainer, DropReader
<1>6. CASE Cascade(q) \/ CommitDelete(q)
  BY <1>6 DEF Cascade, CommitDelete
<1>7. CASE UpdateReader(q) \/ UpdateMapping(q) \/ DeleteMapping(q) \/ DeadlockVictim(q)
  BY <1>7 DEF UpdateReader, UpdateMapping, DeleteMapping, DeadlockVictim
<1>8. QED
  BY <1>1, <1>2, <1>3, <1>4, <1>5, <1>6, <1>7 DEF Step

\* What a step does to the readers and their containers: it inserts one, takes some
\* away, changes the columns of one, or leaves them alone.
LEMMA ReaderChanges ==
  ASSUME NEW q \in Requests, Arrive(q) \/ Step(q)
  PROVE  \/ CommitReader(q) \/ CommitDelete(q) \/ UpdateReader(q)
         \/ Cascade(q) /\ Kind(q) = "deleteReader"
         \/ UNCHANGED <<readers, containers>>
<1> USE DEF KeepRow, rowVars, GoesOn
<1>1. CASE Arrive(q)
  BY <1>1 DEF Arrive
<1>2. CASE FindReader(q) \/ Acquire(q)
  BY <1>2 DEF FindReader, Acquire
<1>3. CASE InsertReaderFails(q) \/ InsertReader(q) \/ ResolveImage(q)
  BY <1>3 DEF InsertReaderFails, InsertReader, ResolveImage
<1>4. CASE InsertSensor(q) \/ InsertMapping(q)
  BY <1>4 DEF InsertSensor, InsertMapping
<1>5. CASE DeleteSensor(q) \/ Count(q) \/ DropContainer(q) \/ DropReader(q)
  BY <1>5 DEF DeleteSensor, Count, DropContainer, DropReader
<1>6. CASE Cascade(q)
  BY <1>6 DEF Cascade
<1>7. CASE UpdateMapping(q) \/ DeleteMapping(q) \/ DeadlockVictim(q)
  BY <1>7 DEF UpdateMapping, DeleteMapping, DeadlockVictim
<1>8. QED
  BY <1>1, <1>2, <1>3, <1>4, <1>5, <1>6, <1>7 DEF Step

\* What a deletion leaves of each table.
LEMMA DeletedReaders ==
  ASSUME NEW ids, Deletes(ids)
  PROVE  /\ DOMAIN readers' = DOMAIN readers \ ids.readers
         /\ \A r \in DOMAIN readers' : readers'[r] = readers[r]
         /\ containers' = containers \ (ids.containers \cup ids.readers)
         /\ DOMAIN sensors' = DOMAIN sensors \ ids.sensors
         /\ \A s \in DOMAIN sensors' : sensors'[s] = sensors[s]
  BY DEF Deletes, Restrict

\* What Cascade deletes for deleteReader.
CascadeIds(q) ==
  [locked[q] EXCEPT !.sensors = @ \cup UNION {SensorsOf(r) : r \in locked[q].readers}]

\* A reader is named by others only after its insertion has committed.
LEMMA FreshStep ==
  ASSUME Types, SensorsSound, FreshInv, NEW q \in Requests, Arrive(q) \/ Step(q)
  PROVE  FreshInv'
<1>1. ASSUME NEW r \in DOMAIN readers', r \notin DOMAIN readers
      PROVE  r = q /\ CommitReader(q)
  <2>1. CASE CommitReader(q)
    BY <1>1, <2>1 DEF CommitReader, Inserted
  <2>2. CASE UpdateReader(q)
    BY <1>1, <2>2 DEF UpdateReader
  <2>3. CASE CommitDelete(q) \/ (Cascade(q) /\ Kind(q) = "deleteReader")
    BY <1>1, <2>3, DeletedReaders DEF CommitDelete, Cascade
  <2>4. QED
    BY <1>1, <2>1, <2>2, <2>3, ReaderChanges
<1>2. CommitReader(q) => rd'[q] = q /\ pc'[q] \notin Early
  BY DEF CommitReader, EndsAt, GoTo, Types, Early
<1>3. ASSUME NEW r \in Requests, pc'[r] \in Early
      PROVE  r \notin DOMAIN readers' /\ \A p \in Requests : rd'[p] # r
  <2>1. pc[r] \in Early
    BY <1>3, ReaderMoves
  <2>2. r \notin DOMAIN readers /\ \A p \in Requests : rd[p] # r
    BY <2>1 DEF FreshInv
  <2>3. r \notin DOMAIN readers'
    BY <1>1, <1>2, <1>3, <2>2
  <2>4. \A p \in Requests : rd'[p] # r
    BY <1>2, <1>3, <2>2, ReaderMoves, RequestFacts
  <2>5. QED
    BY <2>3, <2>4
<1>4. QED
  BY <1>3 DEF FreshInv

\* A name is taken at InsertReader, which waits for every other insertion of that name.
LEMMA KeyStep ==
  ASSUME Types, SensorsSound, KeyInv, KeysUnique, NEW q \in Requests, Arrive(q) \/ Step(q)
  PROVE  KeyInv' /\ KeysUnique'
<1>1. \A p \in Requests \ {q} : /\ Inserting(p)' <=> Inserting(p)
                               /\ NewKey(p)' = NewKey(p)
  BY ReaderMoves DEF Inserting, NewKey, Key
<1>2. pc[q] # "idle" => NewKey(q)' = NewKey(q)
  BY ReaderMoves DEF NewKey, Key
<1>3. CASE InsertReader(q)
  <2>1. /\ \A r \in DOMAIN readers : Key(readers[r]) # Key(op[q].row)
        /\ UNCHANGED readers /\ pc[q] = "insertReader" /\ q \in conn /\ Blockers(q) = {}
    BY <1>3 DEF InsertReader, GoesOn, KeepRow, rowVars, Runs
  <2>2. KeyHolders(Key(op[q].row)) \subseteq {q}
    BY <2>1 DEF Blockers
  <2>3. \A p \in Requests \ {q} : Inserting(p) => NewKey(p) # NewKey(q)
    BY <2>2 DEF KeyHolders, NewKey
  <2>4. \A r \in DOMAIN readers : KeyOf(r) # NewKey(q)
    BY <2>1 DEF KeyOf, NewKey
  <2>5. \A r \in DOMAIN readers : KeyOf(r)' = KeyOf(r)
    BY <2>1 DEF KeyOf, Key
  <2>6. KeysUnique'
    BY <2>1, <2>5 DEF KeysUnique
  <2>7. KeyInv'
    BY <1>1, <1>2, <2>1, <2>3, <2>4, <2>5 DEF KeyInv
  <2>8. QED
    BY <2>6, <2>7
<1>4. CASE CommitReader(q)
  <2>1. Inserting(q) /\ ~Inserting(q)'
    BY <1>4 DEF CommitReader, Runs, EndsAt, GoTo, Inserting, Types
  <2>2. /\ DOMAIN readers' = DOMAIN readers \cup {q} /\ readers'[q] = op[q].row
        /\ \A r \in DOMAIN readers \ {q} : readers'[r] = readers[r]
    BY <1>4 DEF CommitReader, Inserted
  <2>3. KeyOf(q)' = NewKey(q) /\ \A r \in DOMAIN readers \ {q} : KeyOf(r)' = KeyOf(r)
    BY <2>2 DEF KeyOf, NewKey, Key
  <2>4. KeysUnique'
    BY <2>1, <2>2, <2>3 DEF KeyInv, KeysUnique
  <2>5. KeyInv'
    BY <1>1, <2>1, <2>2, <2>3 DEF KeyInv
  <2>6. QED
    BY <2>4, <2>5
<1>5. CASE UpdateReader(q)
  <2>1. ~Inserting(q) /\ ~Inserting(q)'
    BY <1>5 DEF UpdateReader, Runs, EndsAt, GoTo, Inserting, Types
  <2>2. CASE UNCHANGED readers
    <3>1. \A r \in DOMAIN readers : KeyOf(r)' = KeyOf(r)
      BY <2>2 DEF KeyOf, Key
    <3>2. QED
      BY <1>1, <2>1, <2>2, <3>1 DEF KeyInv, KeysUnique
  <2>3. CASE readers' # readers
    <3>0. PICK r \in DOMAIN readers : r = op[q].reader
      BY <1>5, <2>3 DEF UpdateReader
    <3>1. PICK row :
            /\ row = op[q].change @@ readers[r]
            /\ readers' = [readers EXCEPT ![r] = row]
            /\ \A p \in DOMAIN readers \ {r} : Key(readers[p]) # Key(row)
      BY <1>5, <2>3, <3>0 DEF UpdateReader
    <3>2. KeyHolders(Key(row)) \subseteq {q}
      BY <1>5, <3>0, <3>1 DEF UpdateReader, Runs, Blockers
    <3>3. \A p \in Requests \ {q} : Inserting(p) => NewKey(p) # Key(row)
      BY <3>2 DEF KeyHolders, NewKey
    <3>4. \A p \in DOMAIN readers \ {r} : KeyOf(p) # Key(row)
      BY <3>1 DEF KeyOf
    <3>5. /\ DOMAIN readers' = DOMAIN readers /\ KeyOf(r)' = Key(row)
          /\ \A p \in DOMAIN readers \ {r} : KeyOf(p)' = KeyOf(p)
      BY <3>1 DEF KeyOf, Key
    <3>6. KeysUnique'
      BY <3>1, <3>4, <3>5 DEF KeysUnique
    <3>7. KeyInv'
      BY <1>1, <2>1, <3>3, <3>5 DEF KeyInv
    <3>8. QED
      BY <3>6, <3>7
  <2>4. QED
    BY <2>2, <2>3
<1>6. CASE ~InsertReader(q) /\ ~CommitReader(q) /\ ~UpdateReader(q)
  <2>1. /\ DOMAIN readers' \subseteq DOMAIN readers
        /\ \A r \in DOMAIN readers' : readers'[r] = readers[r]
    BY <1>6, ReaderChanges, DeletedReaders DEF CommitDelete, Cascade
  <2>2. \A r \in DOMAIN readers' : KeyOf(r)' = KeyOf(r)
    BY <2>1 DEF KeyOf, Key
  <2>3. Inserting(q)' => Inserting(q) /\ NewKey(q)' = NewKey(q)
    BY <1>2, <1>6, ReaderMoves DEF Inserting
  <2>4. QED
    BY <1>1, <2>1, <2>2, <2>3 DEF KeyInv, KeysUnique
<1>7. QED
  BY <1>3, <1>4, <1>5, <1>6

\* A step takes no lock of another request, and gives none back; only DropContainer
\* takes the lock of a container.
LEMMA LockMoves ==
  ASSUME Types, NEW q \in Requests, Arrive(q) \/ Step(q)
  PROVE  /\ \A p \in Requests \ {q} : locked'[p] = locked[p]
         /\ locked'[q].containers \subseteq locked[q].containers \/ DropContainer(q)
<1> USE DEF Types, EndsAt, GoesOn, Locks, NoLocks
<1>1. CASE Arrive(q)
  BY <1>1 DEF Arrive
<1>2. CASE FindReader(q) \/ Acquire(q)
  BY <1>2 DEF FindReader, Acquire
<1>3. CASE InsertReaderFails(q) \/ InsertReader(q) \/ ResolveImage(q) \/ CommitReader(q)
  BY <1>3 DEF InsertReaderFails, InsertReader, ResolveImage, CommitReader
<1>4. CASE InsertSensor(q) \/ InsertMapping(q)
  BY <1>4 DEF InsertSensor, InsertMapping
<1>5. CASE DeleteSensor(q)
  BY <1>5 DEF DeleteSensor, Lock
<1>6. CASE Count(q)
  BY <1>6 DEF Count
<1>7. CASE DropContainer(q)
  BY <1>7 DEF DropContainer, Lock
<1>8. CASE DropReader(q)
  BY <1>8 DEF DropReader, Lock
<1>9. CASE Cascade(q)
  <2>1. CASE Kind(q) = "deleteReader"
    BY <1>9, <2>1 DEF Cascade
  <2>2. CASE Kind(q) # "deleteReader"
    BY <1>9, <2>2 DEF Cascade, Lock
  <2>3. QED
    BY <2>1, <2>2
<1>10. CASE CommitDelete(q) \/ UpdateReader(q) \/ UpdateMapping(q) \/ DeleteMapping(q)
             \/ DeadlockVictim(q)
  BY <1>10 DEF CommitDelete, UpdateReader, UpdateMapping, DeleteMapping, DeadlockVictim
<1>11. QED
  BY <1>1, <1>2, <1>3, <1>4, <1>5, <1>6, <1>7, <1>8, <1>9, <1>10 DEF Step

\* Only InsertSensor adds a sensor, and none changes its reader.
LEMMA SensorChanges ==
  ASSUME NEW q \in Requests, Arrive(q) \/ Step(q)
  PROVE  \/ InsertSensor(q)
         \/ /\ DOMAIN sensors' \subseteq DOMAIN sensors
            /\ \A s \in DOMAIN sensors' : sensors'[s] = sensors[s]
<1> USE DEF KeepRow, rowVars, GoesOn
<1>1. CASE Arrive(q)
  BY <1>1 DEF Arrive
<1>2. CASE FindReader(q) \/ Acquire(q)
  BY <1>2 DEF FindReader, Acquire
<1>3. CASE InsertReaderFails(q) \/ InsertReader(q) \/ ResolveImage(q) \/ CommitReader(q)
  BY <1>3 DEF InsertReaderFails, InsertReader, ResolveImage, CommitReader
<1>4. CASE InsertMapping(q)
  BY <1>4 DEF InsertMapping
<1>5. CASE DeleteSensor(q) \/ Count(q) \/ DropContainer(q) \/ DropReader(q)
  BY <1>5 DEF DeleteSensor, Count, DropContainer, DropReader
<1>6. CASE Cascade(q) \/ CommitDelete(q)
  BY <1>6, DeletedReaders DEF Cascade, CommitDelete
<1>7. CASE UpdateReader(q) \/ UpdateMapping(q) \/ DeleteMapping(q) \/ DeadlockVictim(q)
  BY <1>7 DEF UpdateReader, UpdateMapping, DeleteMapping, DeadlockVictim
<1>8. QED
  BY <1>1, <1>2, <1>3, <1>4, <1>5, <1>6, <1>7 DEF Step

\* A cascade waits for whoever holds the reader's container or one of its sensors.
LEMMA CascadeWaits == ASSUME NEW r PROVE ContainerHolders(r) \subseteq CascadeHolders(r)
  BY DEF CascadeHolders

\* A deletion takes no container another transaction holds.
LEMMA OthersHold ==
  ASSUME Types, FreshInv, Exclusive, containers = DOMAIN readers, \A p \in Requests : Held(p),
         NEW q \in Requests, Arrive(q) \/ Step(q),
         NEW p \in Requests \ {q}, pc[p] = "dropReader", Kind(p) # "deleteReader"
  PROVE  {rd[p]} \cap containers' = {rd[p]} \cap containers
<1>1. locked[p].containers = {rd[p]} \cap containers
  BY DEF Held
<1>2. CASE CommitReader(q)
  <2>1. containers' = containers \cup {q} /\ pc[q] = "commitReader"
    BY <1>2 DEF CommitReader, Runs
  <2>2. rd[p] # q
    BY <2>1 DEF FreshInv, Early
  <2>3. QED
    BY <2>1, <2>2
<1>3. CASE CommitDelete(q)
  <2>1. /\ containers' = containers \ (locked[q].containers \cup locked[q].readers)
        /\ pc[q] = "commitDelete"
    BY <1>3, DeletedReaders DEF CommitDelete, Runs
  <2>2. locked[q].containers = locked[q].readers
    BY <2>1 DEF Held, Deleting
  <2>3. locked[p].containers \cap locked[q].containers = {}
    BY DEF Exclusive
  <2>4. QED
    BY <1>1, <2>1, <2>2, <2>3
<1>4. CASE Cascade(q) /\ Kind(q) = "deleteReader"
  <2>1. /\ Deletes(CascadeIds(q)) /\ pc[q] = "cascade" /\ q \in conn /\ Blockers(q) = {}
    BY <1>4 DEF Cascade, Runs, CascadeIds
  <2>2. CascadeIds(q).readers = locked[q].readers /\ CascadeIds(q).containers = locked[q].containers
    BY DEF CascadeIds, Types, Locks
  <2>3. containers' = containers \ (locked[q].containers \cup locked[q].readers)
    BY <2>1, <2>2, DeletedReaders
  <2>4. locked[q].readers \subseteq {rd[q]} /\ locked[q].containers \subseteq {rd[q]}
    BY DEF Held
  <2>5. p \notin ContainerHolders(rd[q])
    <3>1. p \notin CascadeHolders(rd[q])
      BY <2>1 DEF Blockers
    <3>2. QED
      BY <3>1, CascadeWaits
  <2>6. rd[q] \notin locked[p].containers
    BY <2>5 DEF ContainerHolders
  <2>7. QED
    BY <1>1, <2>3, <2>4, <2>6
<1>5. CASE UpdateReader(q)
  BY <1>5 DEF UpdateReader
<1>6. QED
  BY <1>2, <1>3, <1>4, <1>5, ReaderChanges

\* A sensor inserted is of no reader that is about to be deleted with its sensors.
LEMMA OthersCascade ==
  ASSUME Types, NEW q \in Requests, Arrive(q) \/ Step(q), NEW p \in Requests \ {q},
         NEW r \in locked[p].readers, SensorsOf(r) \subseteq locked[p].sensors
  PROVE  SensorsOf(r)' \subseteq locked[p].sensors
<1>1. CASE InsertSensor(q)
  <2>1. pc[q] = "insertSensor" /\ q \in conn /\ Blockers(q) = {}
    BY <1>1 DEF InsertSensor, Runs
  <2>2. p \notin ReaderHolders(rd[q])
    BY <2>1 DEF Blockers
  <2>3. r # rd[q]
    BY <2>2 DEF ReaderHolders
  <2>4. QED
    BY <1>1, <2>3 DEF InsertSensor, Inserted, SensorsOf
<1>2. CASE ~InsertSensor(q)
  BY <1>2, SensorChanges DEF SensorsOf
<1>3. QED
  BY <1>1, <1>2

\* Locks follow the place of the transaction that takes them.
LEMMA HeldStep ==
  ASSUME Types, SensorsSound, FreshInv, Exclusive, containers = DOMAIN readers,
         \A p \in Requests : Held(p), NEW q \in Requests, Arrive(q) \/ Step(q)
  PROVE  (\A p \in Requests : Held(p)') /\ Exclusive'
<1>1. ASSUME NEW p \in Requests \ {q} PROVE Held(p)'
  <2>1. pc'[p] = pc[p] /\ rd'[p] = rd[p] /\ Kind(p)' = Kind(p) /\ locked'[p] = locked[p]
    BY ReaderMoves, LockMoves DEF Kind
  <2>2. Held(p)
    OBVIOUS
  <2>3. pc[p] = "dropReader" /\ Kind(p) # "deleteReader" =>
          {rd[p]} \cap containers' = {rd[p]} \cap containers
    BY OthersHold
  <2>4. pc[p] = "commitDelete" =>
          \A r \in locked[p].readers : SensorsOf(r)' \subseteq locked[p].sensors
    BY <2>2, OthersCascade DEF Held
  <2>5. QED
    BY <2>1, <2>2, <2>3, <2>4 DEF Held
<1>2. Held(q)'
  <2> USE DEF Held, Types, PC, Early, Deleting, KeepRow, EndsAt, GoesOn, GoTo, Runs, rowVars, Kind
  <2>1. ASSUME UNCHANGED rd, NEW to \in PC \ (Deleting \cup {"deleteSensor"}), EndsAt(q, to)
        PROVE  Held(q)'
    BY <2>1 DEF NoLocks
  <2>2. CASE Arrive(q)
    <3>1. locked'[q] = locked[q] /\ pc[q] = "idle"
      BY <2>2 DEF Arrive
    <3>2. ASSUME NEW o \in Operations(q), Accept(q, o) PROVE Held(q)'
      BY <3>1, <3>2, Accepted
    <3>3. ASSUME NEW o \in Operations(q), NotFound(q, o) PROVE Held(q)'
      BY <3>1, <3>3 DEF NotFound
    <3>4. QED
      BY <2>2, <3>2, <3>3 DEF Arrive
  <2>3. CASE InsertReaderFails(q) \/ DeadlockVictim(q) \/ InsertSensor(q) \/ InsertMapping(q)
             \/ CommitDelete(q) \/ UpdateReader(q) \/ UpdateMapping(q) \/ DeleteMapping(q)
    BY <2>1, <2>3 DEF InsertReaderFails, DeadlockVictim, InsertSensor, InsertMapping,
       CommitDelete, UpdateReader, UpdateMapping, DeleteMapping
  <2>4. CASE CommitReader(q)
    <3>1. EndsAt(q, "ok") \/ EndsAt(q, "insertSensor")
      BY <2>4 DEF CommitReader
    <3>2. QED
      BY <3>1 DEF NoLocks
  <2>5. CASE FindReader(q) \/ Acquire(q) \/ InsertReader(q) \/ ResolveImage(q)
    <3>1. UNCHANGED <<locked, containers, sensors, op>> /\ (rd'[q] = rd[q] \/ pc[q] = "find")
      BY <2>5 DEF FindReader, Acquire, InsertReader, ResolveImage
    <3>2. pc'[q] = pc[q] \/ pc'[q] \notin Deleting \cup {"deleteSensor"}
      BY <2>5 DEF FindReader, Acquire, InsertReader, ResolveImage
    <3>3. pc[q] = "find" => locked[q].containers = {} /\ locked[q].readers = {}
      OBVIOUS
    <3>4. pc'[q] # pc[q] => locked[q].containers = {} /\ locked[q].readers = {}
      BY <2>5 DEF FindReader, Acquire, InsertReader, ResolveImage
    <3>5. pc[q] # "find" => rd'[q] = rd[q]
      BY <3>1
    <3>6. QED
      BY <3>1, <3>2, <3>3, <3>4, <3>5 DEF SensorsOf
  <2>6. CASE DeleteSensor(q) \/ Count(q)
    <3>1. /\ UNCHANGED <<rd, op, containers>> /\ pc[q] \in {"deleteSensor", "count"}
          /\ pc'[q] \in {"count", "dropContainer", "commitDelete"}
      BY <2>6 DEF DeleteSensor, Count
    <3>2. locked'[q].containers = locked[q].containers /\ locked'[q].readers = locked[q].readers
      BY <2>6 DEF DeleteSensor, Count, Lock, Locks
    <3>3. QED
      BY <3>1, <3>2
  <2>7. CASE DropContainer(q)
    <3>1. /\ UNCHANGED <<rd, op, containers>> /\ pc[q] = "dropContainer" /\ pc'[q] = "dropReader"
      BY <2>7 DEF DropContainer
    <3>2. /\ locked'[q].containers = locked[q].containers \cup ({rd[q]} \cap containers)
          /\ locked'[q].readers = locked[q].readers
      BY <2>7 DEF DropContainer, Lock, Locks
    <3>3. QED
      BY <3>1, <3>2
  <2>8. CASE DropReader(q)
    <3>1. UNCHANGED <<rd, op, containers>> /\ pc[q] = "dropReader" /\ pc'[q] = "cascade"
      BY <2>8 DEF DropReader
    <3>2. /\ locked'[q].readers = locked[q].readers \cup ({rd[q]} \cap containers)
          /\ locked'[q].containers = locked[q].containers
      BY <2>8 DEF DropReader, Lock, Locks
    <3>3. QED
      BY <3>1, <3>2
  <2>9. CASE Cascade(q)
    <3>1. CASE Kind(q) = "deleteReader"
      BY <2>1, <2>9, <3>1 DEF Cascade
    <3>2. CASE Kind(q) # "deleteReader"
      <4> DEFINE cascaded == UNION {SensorsOf(r) : r \in locked[q].readers}
      <4>1. /\ UNCHANGED <<rd, op, containers, sensors>> /\ pc[q] = "cascade"
            /\ pc'[q] = "commitDelete" /\ Lock(q, "sensors", cascaded)
        BY <2>9, <3>2 DEF Cascade
      <4>2. \A r \in locked[q].readers : SensorsOf(r) \subseteq cascaded /\ SensorsOf(r)' = SensorsOf(r)
        BY <4>1 DEF SensorsOf
      <4> HIDE DEF cascaded
      <4>3. /\ locked'[q].sensors = locked[q].sensors \cup cascaded
            /\ locked'[q].readers = locked[q].readers
            /\ locked'[q].containers = locked[q].containers
        BY <4>1 DEF Lock, Locks
      <4>4. QED
        BY <3>2, <4>1, <4>2, <4>3
    <3>3. QED
      BY <3>1, <3>2
  <2>10. QED
    BY <2>2, <2>3, <2>4, <2>5, <2>6, <2>7, <2>8, <2>9 DEF Step
<1>3. Exclusive'
  <2>1. CASE DropContainer(q)
    <3>1. locked'[q].containers = locked[q].containers \cup ({rd[q]} \cap containers)
      BY <2>1 DEF DropContainer, Lock, Types, Locks
    <3>2. ContainerHolders(rd[q]) \subseteq {q}
      BY <2>1 DEF DropContainer, GoesOn, Runs, Blockers
    <3>3. \A p \in Requests \ {q} : rd[q] \notin locked[p].containers
      BY <3>2 DEF ContainerHolders
    <3>4. QED
      BY <3>1, <3>3, LockMoves DEF Exclusive
  <2>2. CASE ~DropContainer(q)
    BY <2>2, LockMoves DEF Exclusive
  <2>3. QED
    BY <2>1, <2>2
<1>4. QED
  BY <1>1, <1>2, <1>3

\* Sensors and mappings: what they refer to goes with them or stays.
LEMMA RowsStep ==
  ASSUME Types, SensorsSound, containers = DOMAIN readers, \A p \in Requests : Held(p),
         \A m \in DOMAIN mappings : mappings[m] \in DOMAIN sensors \cup {None},
         NEW q \in Requests, Arrive(q) \/ Step(q)
  PROVE  /\ (SensorsSound /\ containers = DOMAIN readers)'
         /\ \A m \in DOMAIN mappings' : mappings'[m] \in DOMAIN sensors' \cup {None}
<1> USE DEF SensorsSound
<1>1. ASSUME NEW ids, Deletes(ids), ids.containers \subseteq ids.readers,
             \A r \in ids.readers : SensorsOf(r) \subseteq ids.sensors
      PROVE  /\ (SensorsSound /\ containers = DOMAIN readers)'
             /\ \A m \in DOMAIN mappings' : mappings'[m] \in DOMAIN sensors' \cup {None}
  <2>1. containers' = DOMAIN readers'
    BY <1>1, DeletedReaders
  <2>2. ASSUME NEW s \in DOMAIN sensors' PROVE sensors'[s] \in DOMAIN readers'
    <3>1. s \in DOMAIN sensors /\ s \notin ids.sensors /\ sensors'[s] = sensors[s]
      BY <1>1, <2>2, DeletedReaders
    <3>2. sensors[s] \in DOMAIN readers /\ s \in SensorsOf(sensors[s])
      BY <3>1 DEF SensorsOf
    <3>3. sensors[s] \notin ids.readers
      BY <1>1, <3>1, <3>2
    <3>4. QED
      BY <1>1, <3>1, <3>2, <3>3, DeletedReaders
  <2>3. \A m \in DOMAIN mappings' : mappings'[m] \in DOMAIN sensors' \cup {None}
    BY <1>1, DeletedReaders DEF Deletes
  <2>4. QED
    BY <2>1, <2>2, <2>3
<1>2. CASE CommitReader(q)
  BY <1>2 DEF CommitReader, Inserted
<1>3. CASE InsertSensor(q)
  BY <1>3 DEF InsertSensor, Inserted
<1>4. CASE InsertMapping(q)
  BY <1>4 DEF InsertMapping, Inserted
<1>5. CASE Cascade(q) /\ Kind(q) = "deleteReader"
  <2>1. Deletes(CascadeIds(q)) /\ pc[q] = "cascade"
    BY <1>5 DEF Cascade, Runs, CascadeIds
  <2>2. locked[q].containers = {}
    BY <1>5, <2>1 DEF Held, Deleting
  <2>3. /\ CascadeIds(q).containers = {} /\ CascadeIds(q).readers = locked[q].readers
        /\ \A r \in locked[q].readers : SensorsOf(r) \subseteq CascadeIds(q).sensors
    BY <2>2 DEF CascadeIds, Types, Locks
  <2>4. QED
    BY <1>1, <2>1, <2>3
<1>6. CASE CommitDelete(q)
  <2>1. Deletes(locked[q]) /\ pc[q] = "commitDelete"
    BY <1>6 DEF CommitDelete, Runs
  <2>2. /\ locked[q].containers = locked[q].readers
        /\ \A r \in locked[q].readers : SensorsOf(r) \subseteq locked[q].sensors
    BY <2>1 DEF Held, Deleting
  <2>3. QED
    BY <1>1, <2>1, <2>2
<1>7. CASE UpdateReader(q)
  BY <1>7 DEF UpdateReader
<1>8. CASE UpdateMapping(q)
  BY <1>8 DEF UpdateMapping
<1>9. CASE DeleteMapping(q)
  BY <1>9 DEF DeleteMapping, Restrict
<1>10. CASE UNCHANGED rowVars
  BY <1>10 DEF rowVars
<1>11. CASE FindReader(q) \/ Acquire(q) \/ InsertReaderFails(q) \/ InsertReader(q)
             \/ ResolveImage(q) \/ DeadlockVictim(q) \/ Arrive(q)
  BY <1>10, <1>11 DEF FindReader, Acquire, InsertReaderFails, InsertReader, ResolveImage,
     DeadlockVictim, Arrive, GoesOn, KeepRow
<1>12. CASE DeleteSensor(q) \/ Count(q) \/ DropContainer(q) \/ DropReader(q)
             \/ (Cascade(q) /\ Kind(q) # "deleteReader")
  BY <1>10, <1>12 DEF DeleteSensor, Count, DropContainer, DropReader, Cascade, GoesOn, KeepRow
<1>13. QED
  BY <1>2, <1>3, <1>4, <1>5, <1>6, <1>7, <1>8, <1>9, <1>11, <1>12 DEF Step

\* The pool is not overdrawn.
PoolInv == IsFiniteSet(conn) /\ Cardinality(conn) <= PoolSize

\* A connection is acquired only while one is free.
LEMMA PoolStep ==
  ASSUME PoolInv, NEW q \in Requests, Arrive(q) \/ Step(q)
  PROVE  PoolInv'
<1>0. Cardinality(conn) \in Nat /\ PoolSize \in Nat
  BY FS_CardinalityType, ConstantsAssumption DEF PoolInv
<1>1. CASE Acquire(q)
  <2>1. conn' = conn \cup {q} /\ q \notin conn /\ PoolSize - Cardinality(conn) > 0
    BY <1>1 DEF Acquire, Free
  <2>2. IsFiniteSet(conn') /\ Cardinality(conn') = Cardinality(conn) + 1
    BY <2>1, FS_AddElement DEF PoolInv
  <2>3. QED
    BY <1>0, <2>1, <2>2 DEF PoolInv
<1>2. CASE conn' = conn \/ conn' = conn \ {q}
  <2>1. IsFiniteSet(conn \ {q}) /\ Cardinality(conn \ {q}) <= Cardinality(conn)
    BY <1>0, FS_RemoveElement DEF PoolInv
  <2>2. Cardinality(conn \ {q}) \in Nat /\ Cardinality(conn) <= PoolSize
    BY <2>1, FS_CardinalityType DEF PoolInv
  <2>3. CASE conn' = conn
    BY <2>3 DEF PoolInv
  <2>4. CASE conn' = conn \ {q}
    BY <1>0, <2>1, <2>2, <2>4 DEF PoolInv
  <2>5. QED
    BY <1>2, <2>3, <2>4
<1>3. CASE Arrive(q) \/ FindReader(q) \/ InsertReaderFails(q) \/ InsertReader(q)
           \/ ResolveImage(q) \/ CommitReader(q) \/ InsertSensor(q) \/ InsertMapping(q)
  BY <1>2, <1>3 DEF Arrive, FindReader, InsertReaderFails, InsertReader, ResolveImage,
     CommitReader, InsertSensor, InsertMapping, EndsAt, GoesOn
<1>4. CASE DeleteSensor(q) \/ Count(q) \/ DropContainer(q) \/ DropReader(q) \/ CommitDelete(q)
           \/ UpdateReader(q) \/ UpdateMapping(q) \/ DeleteMapping(q) \/ DeadlockVictim(q)
  BY <1>2, <1>4 DEF DeleteSensor, Count, DropContainer, DropReader, CommitDelete,
     UpdateReader, UpdateMapping, DeleteMapping, DeadlockVictim, EndsAt, GoesOn
<1>5. CASE Cascade(q)
  BY <1>2, <1>5 DEF Cascade, EndsAt, GoesOn
<1>6. QED
  BY <1>1, <1>3, <1>4, <1>5 DEF Step

\* The inductive invariant.
IInv ==
  /\ Types /\ FreshInv /\ KeyInv /\ KeysUnique /\ Exclusive /\ PoolInv
  /\ \A p \in Requests : Held(p)
  /\ SensorsSound /\ containers = DOMAIN readers
  /\ \A m \in DOMAIN mappings : mappings[m] \in DOMAIN sensors \cup {None}

\* The invariant holds at first, whether there is a reader to start with or not.
LEMMA InitInv == Init => IInv
<1> SUFFICES ASSUME Init PROVE IInv
  OBVIOUS
<1>1. PICK given \in SUBSET {0} :
        /\ readers = [r \in given |-> GivenReader] /\ containers = given
        /\ sensors = [s \in IF given = {} THEN {} ELSE {-1, 0} |-> 0]
        /\ mappings = [m \in given |-> 0]
  BY DEF Init
<1>2. /\ pc = [q \in Requests |-> "idle"] /\ op = [q \in Requests |-> [kind |-> "none"]]
      /\ rd = [q \in Requests |-> None] /\ conn = {} /\ locked = [q \in Requests |-> NoLocks]
  BY DEF Init
<1>3. NoLocks \in Locks
  BY DEF NoLocks, Locks
<1>4. Types
  BY <1>1, <1>2, <1>3, RequestFacts DEF Types, PC, Early
<1>5. 0 \notin Requests
  BY DEF Requests
<1>6. FreshInv
  BY <1>1, <1>2, <1>5, RequestFacts DEF FreshInv
<1>7. KeyInv
  BY <1>2 DEF KeyInv, Inserting
<1>8. KeysUnique
  BY <1>1 DEF KeysUnique
<1>9. Exclusive /\ \A p \in Requests : Held(p)
  BY <1>2 DEF Exclusive, Held, NoLocks, Deleting
<1>10. PoolInv
  BY <1>2, FS_EmptySet, ConstantsAssumption DEF PoolInv
<1>11. /\ SensorsSound /\ containers = DOMAIN readers
       /\ \A m \in DOMAIN mappings : mappings[m] \in DOMAIN sensors \cup {None}
  BY <1>1 DEF SensorsSound
<1>12. QED
  BY <1>4, <1>6, <1>7, <1>8, <1>9, <1>10, <1>11 DEF IInv

\* Every step keeps the invariant.
LEMMA NextInv == IInv /\ [Next]_vars => IInv'
<1> SUFFICES ASSUME IInv, [Next]_vars PROVE IInv'
  OBVIOUS
<1>1. CASE Next
  <2>1. PICK q \in Requests : Arrive(q) \/ Step(q)
    BY <1>1 DEF Next
  <2> USE DEF IInv
  <2>2. Types' /\ FreshInv' /\ KeyInv' /\ KeysUnique'
    BY <2>1, TypesStep, FreshStep, KeyStep
  <2>3. Exclusive' /\ \A p \in Requests : Held(p)'
    BY <2>1, HeldStep
  <2>4. /\ (SensorsSound /\ containers = DOMAIN readers)'
        /\ \A m \in DOMAIN mappings' : mappings'[m] \in DOMAIN sensors' \cup {None}
    BY <2>1, RowsStep
  <2>5. PoolInv'
    BY <2>1, PoolStep
  <2>6. QED
    BY <2>2, <2>3, <2>4, <2>5
<1>2. CASE UNCHANGED vars
  BY <1>2 DEF vars, rowVars, IInv, Types, FreshInv, KeyInv, KeysUnique, KeyOf, NewKey, Key,
     Inserting, Exclusive, PoolInv, Held, Kind, SensorsOf, SensorsSound
<1>3. QED
  BY <1>1, <1>2

\* The invariant holds throughout.
LEMMA Invariant == Spec => []IInv
<1>1. QED
  BY InitInv, NextInv, PTL DEF Spec

\* Readers and containers, sensors and readers, mappings and sensors hang together in
\* what is committed, names are unique and the pool is not overdrawn, however many
\* requests to readers.go, sensors.go and telemetry_settings.go run at once and
\* whatever deadlocks and foreign keys make fail.
THEOREM RowsAreSound == Spec => []RowsSound
<1>1. IInv => RowsSound
  BY DEF IInv, RowsSound, KeysUnique, KeyOf, PoolInv, SensorsSound
<1>2. QED
  BY <1>1, Invariant, PTL

\* What a deletion may take with it: the sensor its request names and those that
\* were not there when the request arrived.
Fair(q, s) == s = op[q].sensor \/ s \notin before[q]
Named(q) ==
  /\ pc[q] \notin Deleting => locked[q].sensors = {}
  /\ pc[q] \in Deleting \cup {"deleteSensor"} /\ Kind(q) = "deleteReader" =>
       rd[q] = op[q].reader /\ locked[q].sensors = {}
  /\ pc[q] \in Deleting \cup {"deleteSensor"} /\ Kind(q) # "deleteReader" =>
       Kind(q) = "deleteSensor" /\ \A s \in locked[q].sensors : Fair(q, s)
  /\ pc[q] \in {"dropContainer", "dropReader", "cascade"} /\ Kind(q) # "deleteReader" =>
       \A s \in SensorsOf(rd[q]) : Fair(q, s)

\* The sensor of a request that has not inserted it yet is in nobody's past.
SensorFresh ==
  /\ before \in [Requests -> SUBSET Ids]
  /\ \A p \in Requests : pc[p] \in Early \cup {"insertSensor"} =>
       p \notin DOMAIN sensors /\ \A q \in Requests : p \notin before[q]

\* before is set when a request arrives and stays; nobody goes back to insert again.
LEMMA BeforeMoves ==
  ASSUME Types, SensorFresh, NEW q \in Requests, Arrive(q) \/ Step(q)
  PROVE  /\ before' \in [Requests -> SUBSET Ids]
         /\ \A p \in Requests \ {q} : before'[p] = before[p]
         /\ before'[q] # before[q] => pc[q] = "idle" /\ before'[q] = DOMAIN sensors
         /\ pc'[q] \in Early \cup {"insertSensor"} => pc[q] \in Early \cup {"insertSensor"}
         /\ InsertSensor(q) => pc'[q] \notin Early \cup {"insertSensor"}
<1> USE DEF SensorFresh, Types, KeepRow, EndsAt, GoesOn, GoTo, Runs, Early, PC, Deleting
<1>1. CASE Arrive(q)
  BY <1>1 DEF Arrive, Accept, NotFound, InsertSensor
<1>2. CASE FindReader(q) \/ Acquire(q)
  BY <1>2 DEF FindReader, Acquire, Statements, Matching, InsertSensor
<1>3. CASE InsertReaderFails(q) \/ InsertReader(q) \/ ResolveImage(q) \/ CommitReader(q)
  BY <1>3 DEF InsertReaderFails, InsertReader, ResolveImage, CommitReader, InsertSensor
<1>4. CASE InsertSensor(q) \/ InsertMapping(q)
  BY <1>4 DEF InsertSensor, InsertMapping
<1>5. CASE DeleteSensor(q) \/ Count(q) \/ DropContainer(q) \/ DropReader(q)
  BY <1>5 DEF DeleteSensor, Count, DropContainer, DropReader, InsertSensor
<1>6. CASE Cascade(q) \/ CommitDelete(q)
  BY <1>6 DEF Cascade, CommitDelete, InsertSensor
<1>7. CASE UpdateReader(q) \/ UpdateMapping(q) \/ DeleteMapping(q)
  BY <1>7 DEF UpdateReader, UpdateMapping, DeleteMapping, InsertSensor
<1>8. CASE DeadlockVictim(q)
  BY <1>8 DEF DeadlockVictim, InsertSensor
<1>9. QED
  BY <1>1, <1>2, <1>3, <1>4, <1>5, <1>6, <1>7, <1>8 DEF Step

\* A sensor that appears is the one its request inserts.
LEMMA SensorFreshStep ==
  ASSUME Types, SensorsSound, SensorFresh, NEW q \in Requests, Arrive(q) \/ Step(q)
  PROVE  SensorFresh'
<1>1. InsertSensor(q) => DOMAIN sensors' \subseteq DOMAIN sensors \cup {q}
  BY DEF InsertSensor, Inserted
<1>2. ASSUME NEW p \in Requests, pc'[p] \in Early \cup {"insertSensor"}
      PROVE  p \notin DOMAIN sensors' /\ \A t \in Requests : p \notin before'[t]
  <2>1. pc[p] \in Early \cup {"insertSensor"}
    BY <1>2, ReaderMoves, BeforeMoves
  <2>2. p \notin DOMAIN sensors /\ \A t \in Requests : p \notin before[t]
    BY <2>1 DEF SensorFresh
  <2>3. InsertSensor(q) => p # q
    BY <1>2, BeforeMoves
  <2>4. p \notin DOMAIN sensors'
    BY <1>1, <2>2, <2>3, SensorChanges
  <2>5. \A t \in Requests : p \notin before'[t]
    BY <2>2, BeforeMoves
  <2>6. QED
    BY <2>4, <2>5
<1>3. QED
  BY <1>2, BeforeMoves DEF SensorFresh

\* Only a deletion that commits deletes a sensor.
LEMMA SensorsStay ==
  ASSUME NEW q \in Requests, Arrive(q) \/ Step(q),
         ~CommitDelete(q), ~(Cascade(q) /\ Kind(q) = "deleteReader")
  PROVE  DOMAIN sensors \subseteq DOMAIN sensors'
<1> USE DEF KeepRow, rowVars, GoesOn
<1>1. CASE Arrive(q)
  BY <1>1 DEF Arrive
<1>2. CASE FindReader(q) \/ Acquire(q)
  BY <1>2 DEF FindReader, Acquire
<1>3. CASE InsertReaderFails(q) \/ InsertReader(q) \/ ResolveImage(q) \/ CommitReader(q)
  BY <1>3 DEF InsertReaderFails, InsertReader, ResolveImage, CommitReader
<1>4. CASE InsertSensor(q) \/ InsertMapping(q)
  BY <1>4 DEF InsertSensor, InsertMapping, Inserted
<1>5. CASE DeleteSensor(q) \/ Count(q) \/ DropContainer(q) \/ DropReader(q)
  BY <1>5 DEF DeleteSensor, Count, DropContainer, DropReader
<1>6. CASE Cascade(q) /\ Kind(q) # "deleteReader"
  BY <1>6 DEF Cascade
<1>7. CASE UpdateReader(q) \/ UpdateMapping(q) \/ DeleteMapping(q) \/ DeadlockVictim(q)
  BY <1>7 DEF UpdateReader, UpdateMapping, DeleteMapping, DeadlockVictim
<1>8. QED
  BY <1>1, <1>2, <1>3, <1>4, <1>5, <1>6, <1>7 DEF Step

\* The sensors of a reader that is about to be emptied only lose members or gain one
\* that nobody has seen before.
LEMMA OthersFair ==
  ASSUME Types, SensorsSound, SensorFresh, NEW q \in Requests, Arrive(q) \/ Step(q), NEW p \in Requests,
         UNCHANGED <<rd[p], before[p], op[p]>>, \A s \in SensorsOf(rd[p]) : Fair(p, s)
  PROVE  \A s \in SensorsOf(rd[p])' : Fair(p, s)'
<1>1. CASE InsertSensor(q)
  <2>1. q \notin before[p]
    BY <1>1 DEF InsertSensor, Runs, SensorFresh
  <2>2. SensorsOf(rd[p])' \subseteq SensorsOf(rd[p]) \cup {q}
    BY <1>1 DEF InsertSensor, Inserted, SensorsOf
  <2>3. QED
    BY <2>1, <2>2 DEF Fair
<1>2. CASE ~InsertSensor(q)
  <2>1. SensorsOf(rd[p])' \subseteq SensorsOf(rd[p])
    BY <1>2, SensorChanges DEF SensorsOf
  <2>2. QED
    BY <2>1 DEF Fair
<1>3. QED
  BY <1>1, <1>2

\* What a transaction has locked stays what it may take.
LEMMA NamedStep ==
  ASSUME IInv, SensorFresh, \A p \in Requests : Named(p), NEW q \in Requests, Arrive(q) \/ Step(q)
  PROVE  \A p \in Requests : Named(p)'
<1> USE DEF IInv
<1>1. ASSUME NEW p \in Requests \ {q} PROVE Named(p)'
  <2>1. /\ pc'[p] = pc[p] /\ rd'[p] = rd[p] /\ op'[p] = op[p] /\ locked'[p] = locked[p]
        /\ before'[p] = before[p]
    BY ReaderMoves, LockMoves, BeforeMoves
  <2>2. Named(p)
    OBVIOUS
  <2>3. (\A s \in SensorsOf(rd[p]) : Fair(p, s)) => \A s \in SensorsOf(rd[p])' : Fair(p, s)'
    BY <2>1, OthersFair
  <2>4. QED
    BY <2>1, <2>2, <2>3 DEF Named, Fair, Kind
<1>2. Named(q)'
  <2> USE DEF Named, Types, PC, Early, Deleting, KeepRow, EndsAt, GoesOn, GoTo, Runs, rowVars, Kind, Fair
  <2>1. ASSUME NEW to \in PC \ (Deleting \cup {"deleteSensor"}), EndsAt(q, to)
        PROVE  Named(q)'
    BY <2>1 DEF NoLocks
  <2>2. CASE Arrive(q)
    <3>1. locked'[q] = locked[q] /\ pc[q] = "idle"
      BY <2>2 DEF Arrive
    <3>2. locked'[q].sensors = {}
      BY <3>1
    <3>3. ASSUME NEW o \in Operations(q), Accept(q, o) PROVE Named(q)'
      <4>1. /\ pc'[q] \in Deleting => pc'[q] = "dropReader" /\ o.kind = "deleteReader"
            /\ pc'[q] = "deleteSensor" => o.kind # "deleteReader"
            /\ op'[q] = o
        BY <3>3, Accepted
      <4>2. rd'[q] = ReaderOf(o) /\ (pc'[q] = "deleteSensor" => o.kind = "deleteSensor")
        BY <3>3 DEF Accept, After, Operations
      <4>3. o.kind = "deleteReader" => ReaderOf(o) = o.reader
        BY DEF Operations, ReaderOf
      <4>4. QED
        BY <3>2, <4>1, <4>2, <4>3
    <3>4. ASSUME NEW o \in Operations(q), NotFound(q, o) PROVE Named(q)'
      BY <3>1, <3>2, <3>4 DEF NotFound
    <3>5. QED
      BY <2>2, <3>3, <3>4 DEF Arrive
  <2>3. CASE InsertReaderFails(q) \/ DeadlockVictim(q) \/ InsertSensor(q) \/ InsertMapping(q)
             \/ CommitReader(q) \/ CommitDelete(q) \/ UpdateReader(q) \/ UpdateMapping(q) \/ DeleteMapping(q)
    BY <2>1, <2>3 DEF InsertReaderFails, DeadlockVictim, InsertSensor, InsertMapping, CommitReader,
       CommitDelete, UpdateReader, UpdateMapping, DeleteMapping
  <2>4. CASE FindReader(q) \/ InsertReader(q) \/ ResolveImage(q)
    <3>1. UNCHANGED <<locked, sensors, op, before>> /\ pc[q] \notin Deleting
      BY <2>4 DEF FindReader, InsertReader, ResolveImage
    <3>2. pc'[q] \notin Deleting \cup {"deleteSensor"}
      BY <2>4 DEF FindReader, InsertReader, ResolveImage
    <3>3. QED
      BY <3>1, <3>2
  <2>5. CASE Acquire(q)
    BY <2>5 DEF Acquire, SensorsOf
  <2>6. CASE DeleteSensor(q)
    <3>1. /\ pc[q] = "deleteSensor" /\ pc'[q] = "count" /\ UNCHANGED <<rd, op, before, sensors>>
          /\ locked'[q].sensors \subseteq locked[q].sensors \cup {op[q].sensor}
      BY <2>6 DEF DeleteSensor, Lock, Locks
    <3>2. Kind(q) = "deleteSensor"
      BY <3>1 DEF Held
    <3>3. QED
      BY <3>1, <3>2
  <2>7. CASE Count(q)
    <3>1. /\ pc[q] = "count" /\ UNCHANGED <<rd, op, before, sensors, locked>>
          /\ pc'[q] = IF Remaining(q) = {} THEN "dropContainer" ELSE "commitDelete"
      BY <2>7 DEF Count
    <3>2. Kind(q) # "deleteReader"
      BY <3>1 DEF Held
    <3>3. pc'[q] = "dropContainer" => \A s \in SensorsOf(rd[q]) : Fair(q, s)
      BY <3>1, <3>2 DEF Remaining
    <3>4. SensorsOf(rd[q])' = SensorsOf(rd[q])
      BY <3>1 DEF SensorsOf
    <3>5. QED
      BY <3>1, <3>2, <3>3, <3>4
  <2>8. CASE DropContainer(q) \/ DropReader(q)
    <3>1. /\ pc[q] \in {"dropContainer", "dropReader"} /\ UNCHANGED <<rd, op, before, sensors>>
          /\ pc'[q] \in {"dropReader", "cascade"}
      BY <2>8 DEF DropContainer, DropReader
    <3>2. locked'[q].sensors = locked[q].sensors
      BY <2>8 DEF DropContainer, DropReader, Lock, Locks
    <3>3. SensorsOf(rd[q])' = SensorsOf(rd[q])
      BY <3>1 DEF SensorsOf
    <3>4. QED
      BY <3>1, <3>2, <3>3
  <2>9. CASE Cascade(q)
    <3>1. CASE Kind(q) = "deleteReader"
      BY <2>1, <2>9, <3>1 DEF Cascade
    <3>2. CASE Kind(q) # "deleteReader"
      <4> DEFINE cascaded == UNION {SensorsOf(r) : r \in locked[q].readers}
      <4>1. /\ UNCHANGED <<rd, op, before, sensors>> /\ pc[q] = "cascade"
            /\ pc'[q] = "commitDelete" /\ Lock(q, "sensors", cascaded)
        BY <2>9, <3>2 DEF Cascade
      <4>2. cascaded \subseteq SensorsOf(rd[q])
        BY DEF Held
      <4>3. \A s \in cascaded : Fair(q, s)
        BY <3>2, <4>1, <4>2
      <4> HIDE DEF cascaded
      <4>4. locked'[q].sensors = locked[q].sensors \cup cascaded
        BY <4>1 DEF Lock, Locks
      <4>5. QED
        BY <3>2, <4>1, <4>3, <4>4
    <3>3. QED
      BY <3>1, <3>2
  <2>10. QED
    BY <2>2, <2>3, <2>4, <2>5, <2>6, <2>7, <2>8, <2>9 DEF Step
<1>3. QED
  BY <1>1, <1>2

\* A step deletes only sensors its request may take.
LEMMA KeptStep ==
  ASSUME IInv, \A p \in Requests : Named(p), NEW q \in Requests, Arrive(q) \/ Step(q),
         NEW s \in DOMAIN sensors \ DOMAIN sensors'
  PROVE  /\ pc'[q] # pc[q]
         /\ \/ Kind(q) = "deleteSensor" /\ (op[q].sensor = s \/ s \notin before[q])
            \/ Kind(q) = "deleteReader" /\ op[q].reader = sensors[s]
<1> USE DEF IInv, Types
<1>1. CASE CommitDelete(q)
  <2>1. pc[q] = "commitDelete" /\ pc'[q] = "ok" /\ Deletes(locked[q])
    BY <1>1 DEF CommitDelete, Runs, EndsAt, GoTo
  <2>2. s \in locked[q].sensors
    BY <2>1, DeletedReaders, ZenonT(40)
  <2>3. Kind(q) # "deleteReader"
    BY <2>1 DEF Held, Deleting
  <2>4. QED
    BY <2>1, <2>2, <2>3 DEF Named, Deleting, Fair
<1>2. CASE Cascade(q) /\ Kind(q) = "deleteReader"
  <2>1. Deletes(CascadeIds(q)) /\ pc[q] = "cascade" /\ pc'[q] = "ok"
    BY <1>2 DEF Cascade, Runs, CascadeIds, EndsAt, GoTo
  <2>2. s \in CascadeIds(q).sensors
    BY <2>1, DeletedReaders, ZenonT(40)
  <2>3. rd[q] = op[q].reader /\ locked[q].sensors = {} /\ locked[q].readers \subseteq {rd[q]}
    BY <1>2, <2>1 DEF Named, Held, Deleting
  <2>4. s \in SensorsOf(rd[q])
    BY <2>2, <2>3 DEF CascadeIds, Locks
  <2>5. QED
    BY <1>2, <2>1, <2>3, <2>4 DEF SensorsOf
<1>3. CASE ~CommitDelete(q) /\ ~(Cascade(q) /\ Kind(q) = "deleteReader")
  BY <1>3, SensorsStay
<1>4. QED
  BY <1>1, <1>2, <1>3

KInv == IInv /\ SensorFresh /\ \A p \in Requests : Named(p)

\* The stronger invariant holds throughout.
LEMMA KeptInvariant == Spec => []KInv
<1>1. Init => KInv
  <2> SUFFICES ASSUME Init PROVE KInv
    OBVIOUS
  <2>1. /\ pc = [q \in Requests |-> "idle"] /\ locked = [q \in Requests |-> NoLocks]
        /\ before = [q \in Requests |-> {}] /\ DOMAIN sensors \subseteq {-1, 0}
    BY DEF Init
  <2>2. SensorFresh
    BY <2>1 DEF SensorFresh, Requests
  <2>3. \A p \in Requests : Named(p)
    BY <2>1 DEF Named, NoLocks, Deleting
  <2>4. QED
    BY <2>2, <2>3, InitInv DEF KInv
<1>2. KInv /\ [Next]_vars => KInv'
  <2> SUFFICES ASSUME KInv, [Next]_vars PROVE KInv'
    OBVIOUS
  <2>1. IInv'
    BY NextInv DEF KInv
  <2>2. CASE Next
    <3>1. PICK q \in Requests : Arrive(q) \/ Step(q)
      BY <2>2 DEF Next
    <3>2. SensorFresh'
      BY <3>1, SensorFreshStep DEF KInv, IInv
    <3>3. \A p \in Requests : Named(p)'
      BY <3>1, NamedStep DEF KInv
    <3>4. QED
      BY <2>1, <3>2, <3>3 DEF KInv
  <2>3. CASE UNCHANGED vars
    BY <2>1, <2>3 DEF vars, rowVars, KInv, SensorFresh, Named, Fair, Kind, SensorsOf
  <2>4. QED
    BY <2>2, <2>3
<1>3. QED
  BY <1>1, <1>2, PTL DEF Spec

\* Whatever overlaps, a deletion takes only the sensor its request names, those of the
\* reader it names, or, with the reader deleteSensorHandler finds empty, sensors that
\* came after the request.
THEOREM DeletionsAreNamed == Spec => SensorKept
<1>1. KInv /\ [Next]_vars =>
        [\A s \in DOMAIN sensors \ DOMAIN sensors' :
           \E q \in Requests :
             /\ pc'[q] # pc[q]
             /\ \/ Kind(q) = "deleteSensor" /\ (op[q].sensor = s \/ s \notin before[q])
                \/ Kind(q) = "deleteReader" /\ op[q].reader = sensors[s]]_vars
  BY KeptStep DEF KInv, Next
<1>2. QED
  BY <1>1, KeptInvariant, PTL DEF Spec, SensorKept
================================================================================
