---------------------------- MODULE TransferProofs ----------------------------
(* Proofs about Transfer, for any points, tables, maps and settings of the      *)
(* service, and any number of edits, failures and restarts; that everything is  *)
(* delivered, for settings that leave room for the failures.                    *)
EXTENDS Transfer, FiniteSetTheorems, TLAPS

\* The contents of telemetry_settings there have been, and the one of this run.
SeenInv == seen \in Seq(Maps) /\ seen # <<>> /\ edition \in 1..Len(seen)

\* What a run may have for a map: none, or what the separators leave of one.
Loadable == {<< >>} \cup UNION {Normalised(raw) : raw \in Maps}

\* The clock, the ticker and where the run stands.
PlaceInv ==
  /\ now \in 0..MaxTime /\ nextTick \in now + 1..now + Poll /\ pending \in BOOLEAN
  /\ tpc \in {"ping", "idle", "query", "post"}
  /\ end \in 0..now /\ table \in 1..Len(Tables) + 1
  /\ smap \in Loadable
  /\ readings \in Seq(Range(readings)) /\ sentTo \in 0..Len(readings)
  /\ fails \in 0..MaxFails

\* A run under way names its readings by the map it has loaded, which comes of what
\* telemetry_settings was when it began.
RunInv ==
  /\ tpc \in {"query", "post"} => smap \in Normalised(seen[edition])
  /\ tpc \in {"ping", "idle"} => readings = <<>>
  /\ \A i \in DOMAIN readings : readings[i].sensor = Lookup(smap, readings[i].series)

RowsInv ==
  \A r \in rows :
    /\ r.edition \in 1..Len(seen)
    /\ \E m \in Normalised(seen[r.edition]) : r.sensor = Lookup(m, r.series)

IInv == SeenInv /\ PlaceInv /\ RunInv /\ RowsInv /\ influx \subseteq Points /\ late \subseteq influx

\* What a query returns has finitely many means, one per series and bucket.
LEMMA MeansFinite ==
  ASSUME NEW tbl, influx \subseteq Points
  PROVE  IsFiniteSet(MeansOf(tbl))
<1> DEFINE ps == {p \in influx : p.table = tbl /\ InWindow(p.time)}
           Reading(s, b) ==
             [series |-> s, bucket |-> b, sensor |-> Lookup(smap, s),
              mean |-> {p \in ps : p.series = s /\ BucketOf(p.time) = b}]
           all == {Reading(p.series, BucketOf(p.time)) : p \in ps}
           f == [p \in ps |-> Reading(p.series, BucketOf(p.time))]
<1>1. IsFiniteSet(ps)
  BY FS_Subset, DataAssumption
<1>2. MeansOf(tbl) \subseteq all
  BY DEF MeansOf
<1> HIDE DEF ps, Reading
<1>3. f \in Surjection(ps, all)
  BY DEF Surjection
<1>4. IsFiniteSet(all)
  BY <1>1, <1>3, FS_Surjection
<1>5. QED
  BY <1>2, <1>4, FS_Subset

\* SetToSeq lists the members of a finite set.
LEMMA Listed ==
  ASSUME NEW S, IsFiniteSet(S)
  PROVE  SetToSeq(S) \in Seq(S)
<1>1. Cardinality(S) \in Nat /\ ExistsBijection(1..Cardinality(S), S)
  BY FS_CardinalityType
<1>2. \E f \in [1..Cardinality(S) -> S] : IsInjective(f)
  BY <1>1 DEF ExistsBijection, Bijection, Injection
<1>3. SetToSeq(S) \in [1..Cardinality(S) -> S]
  BY <1>2 DEF SetToSeq
<1>4. QED
  BY <1>1, <1>3

\* Each reading of a query is named by the map.
LEMMA Named ==
  ASSUME NEW tbl, NEW r \in MeansOf(tbl)
  PROVE  r.sensor = Lookup(smap, r.series)
  BY DEF MeansOf

\* Before the first query there is no reading.
LEMMA Nothing == << >> \in Seq(Range(<< >>)) /\ Len(<< >>) = 0 /\ DOMAIN << >> = {}
<1>1. \A S : << >> \in Seq(S)
  OBVIOUS
<1>2. QED
  BY <1>1

\* The invariant holds when the process starts.
LEMMA InitInv == Init => IInv
<1> SUFFICES ASSUME Init PROVE IInv
  OBVIOUS
<1>1. PICK m \in Maps : seen = <<m>>
  BY DEF Init
<1>2. SeenInv
  BY <1>1 DEF Init, SeenInv
<1>3. PlaceInv
  <2>1. Len(Tables) \in Nat
    BY DataAssumption
  <2>2. now \in 0..MaxTime /\ nextTick \in now + 1..now + Poll /\ fails \in 0..MaxFails
    BY NumbersAssumption DEF Init
  <2>3. pending \in BOOLEAN
    BY DEF Init
  <2>4. end \in 0..now /\ table \in 1..Len(Tables) + 1
    BY <2>1, <2>2 DEF Init
  <2>5. readings \in Seq(Range(readings)) /\ sentTo \in 0..Len(readings)
    BY Nothing DEF Init
  <2>6. tpc \in {"ping", "idle", "query", "post"} /\ smap \in Loadable
    BY DEF Init, NoMap, Loadable
  <2>7. QED
    BY <2>2, <2>3, <2>4, <2>5, <2>6 DEF PlaceInv
<1>4. RunInv /\ RowsInv /\ influx \subseteq Points /\ late \subseteq influx
  BY DEF Init, RunInv, RowsInv
<1>5. QED
  BY <1>2, <1>3, <1>4 DEF IInv

\* A run that returns leaves nothing behind.
LEMMA IdleInv ==
  ASSUME IInv, Idle \/ (tpc' = "ping" /\ readings' = <<>> /\ sentTo' = 0 /\ end' = 0 /\ table' = 1),
         UNCHANGED <<seen, rows>>
  PROVE  RunInv' /\ RowsInv' /\ end' \in 0..now /\ table' \in 1..Len(Tables) + 1
         /\ readings' \in Seq(Range(readings')) /\ sentTo' \in 0..Len(readings')
         /\ tpc' \in {"idle", "ping"}
<1>1. Len(Tables) \in Nat
  BY DataAssumption
<1>2. /\ tpc' \in {"idle", "ping"} /\ readings' = << >> /\ sentTo' = 0 /\ end' = 0 /\ table' = 1
      /\ RowsInv
  BY DEF Idle, IInv
<1>3. readings' \in Seq(Range(readings')) /\ sentTo' \in 0..Len(readings')
  BY <1>2, Nothing
<1>4. end' \in 0..now /\ table' \in 1..Len(Tables) + 1
  BY <1>1, <1>2 DEF IInv, PlaceInv
<1>5. RunInv'
  BY <1>2, Nothing DEF RunInv
<1>6. RowsInv'
  BY <1>2 DEF RowsInv
<1>7. QED
  BY <1>2, <1>3, <1>4, <1>5, <1>6

\* Every step keeps the invariant.
LEMMA NextInv == IInv /\ [Next]_vars => IInv'
<1> SUFFICES ASSUME IInv, [Next]_vars PROVE IInv'
  OBVIOUS
<1>0. Len(Tables) \in Nat
  BY DataAssumption
<1> USE DEF IInv, clockVars, runVars, envVars
<1>1. CASE Advance \/ Hang
  <2>1. UNCHANGED <<runVars, envVars, edition, rows>> /\ PassTick /\ fails' \in 0..MaxFails
    BY <1>1, NumbersAssumption DEF Advance, Hang, Failing, PlaceInv
  <2>2. now' \in 0..MaxTime /\ nextTick' \in now' + 1..now' + Poll /\ pending' \in BOOLEAN
        /\ end' \in 0..now'
    BY <2>1, NumbersAssumption DEF PassTick, PlaceInv
  <2>3. QED
    BY <2>1, <2>2 DEF SeenInv, PlaceInv, RunInv, RowsInv
<1>2. CASE EditMap
  <2>1. PICK m \in Maps : seen' = Append(seen, m)
    BY <1>2 DEF EditMap
  <2>2. /\ seen' \in Seq(Maps) /\ seen' # <<>> /\ Len(seen') = Len(seen) + 1
        /\ \A i \in 1..Len(seen) : seen'[i] = seen[i]
    BY <2>1 DEF SeenInv
  <2>3. QED
    BY <1>2, <2>2, SMTT(30) DEF EditMap, SeenInv, PlaceInv, RunInv, RowsInv
<1>3. CASE StartRun
  <2>1. /\ UNCHANGED <<now, envVars, rows>> /\ edition' = Len(seen)
        /\ nextTick' \in now + 1..now + Poll /\ pending' \in BOOLEAN
    <3>1. pending' = FALSE
      BY <1>3 DEF StartRun
    <3>2. nextTick' = now + Poll \/ nextTick' = nextTick
      BY <1>3 DEF StartRun
    <3>3. nextTick' \in now + 1..now + Poll
      BY <3>2, NumbersAssumption DEF PlaceInv
    <3>4. QED
      BY <1>3, <3>1, <3>3 DEF StartRun
  <2>2. SeenInv'
    BY <2>1 DEF SeenInv
  <2>3. CASE /\ smap' \in LoadSensorMap /\ tpc' = "query" /\ end' = now
             /\ UNCHANGED <<table, readings, sentTo, fails>>
    <3>1. smap' \in Normalised(seen[Len(seen)]) /\ seen[Len(seen)] \in Maps
      BY <2>3 DEF LoadSensorMap, Last, SeenInv
    <3>2. readings = <<>>
      BY <1>3 DEF StartRun, RunInv
    <3>3. QED
      BY <2>1, <2>2, <2>3, <3>1, <3>2 DEF PlaceInv, RunInv, RowsInv, Loadable
  <2>4. CASE Idle /\ (smap' = NoMap \/ smap' = smap) /\ fails' \in 0..MaxFails
    <3>1. smap' \in Loadable
      BY <2>4 DEF NoMap, PlaceInv, Loadable
    <3>2. QED
      BY <2>1, <2>2, <2>4, <3>1, IdleInv DEF PlaceInv
  <2>5. QED
    BY <1>3, <2>3, <2>4, NumbersAssumption, SMTT(30) DEF StartRun, Failing, PlaceInv
<1>4. CASE QueryTable
  <2> DEFINE found == SetToSeq(MeansOf(Tables[table]))
  <2>1. found \in Seq(MeansOf(Tables[table]))
    BY MeansFinite, Listed
  <2>2. \A i \in 1..Len(found) : found[i].sensor = Lookup(smap, found[i].series)
    BY <2>1, Named
  <2>3. /\ tpc = "query" /\ table <= Len(Tables) /\ table' = table + 1
        /\ UNCHANGED <<clockVars, tpc, end, smap, sentTo, envVars, edition, rows>>
        /\ readings' = readings \o found \/ readings' = readings
        /\ fails' \in 0..MaxFails
    BY <1>4, NumbersAssumption DEF QueryTable, Failing, PlaceInv
  <2> HIDE DEF found
  <2>4. CASE readings' = readings \o found
    <3>1. /\ Len(readings') = Len(readings) + Len(found)
          /\ readings' \in Seq(Range(readings) \cup MeansOf(Tables[table]))
          /\ \A i \in 1..Len(readings') :
               readings'[i] = IF i <= Len(readings) THEN readings[i] ELSE found[i - Len(readings)]
      BY <2>1, <2>4 DEF PlaceInv
    <3>2. ASSUME NEW i \in DOMAIN readings'
          PROVE  readings'[i].sensor = Lookup(smap, readings'[i].series)
      <4>1. CASE i <= Len(readings)
        BY <3>1, <4>1 DEF RunInv, PlaceInv
      <4>2. CASE i > Len(readings)
        <5>1. i \in 1..Len(readings')
          BY <2>4, <3>1
        <5>2. i - Len(readings) \in 1..Len(found) /\ readings'[i] = found[i - Len(readings)]
          BY <2>1, <3>1, <4>2, <5>1 DEF PlaceInv
        <5>3. QED
          BY <2>2, <5>2
      <4>3. QED
        BY <3>1, <4>1, <4>2 DEF PlaceInv
    <3>3. readings' \in Seq(Range(readings'))
      BY <3>1 DEF Range
    <3>4. sentTo' \in 0..Len(readings')
      BY <2>1, <2>3, <3>1 DEF PlaceInv
    <3>5. QED
      BY <1>0, <2>3, <3>2, <3>3, <3>4 DEF SeenInv, PlaceInv, RunInv, RowsInv
  <2>5. CASE readings' = readings
    BY <1>0, <2>3, <2>5 DEF SeenInv, PlaceInv, RunInv, RowsInv
  <2>6. QED
    BY <2>3, <2>4, <2>5
<1>5. CASE QueriesDone \/ RunDone \/ Restart
  <2>1. /\ UNCHANGED <<now, envVars, edition, rows>> /\ smap' \in Loadable
        /\ nextTick' \in now + 1..now + Poll /\ pending' \in BOOLEAN /\ fails' \in 0..MaxFails
    <3>1. pending' = FALSE \/ pending' = pending
      BY <1>5 DEF QueriesDone, RunDone, Restart
    <3>2. pending' \in BOOLEAN
      BY <3>1 DEF PlaceInv
    <3>3. nextTick' = now + Poll \/ nextTick' = nextTick
      BY <1>5 DEF QueriesDone, RunDone, Restart
    <3>4. nextTick' \in now + 1..now + Poll
      BY <3>3, NumbersAssumption DEF PlaceInv
    <3>5. fails' \in 0..MaxFails
      BY <1>5, NumbersAssumption DEF QueriesDone, RunDone, Restart, Failing, PlaceInv
    <3>6. UNCHANGED <<now, envVars, edition, rows>> /\ smap' \in Loadable
      BY <1>5 DEF QueriesDone, RunDone, Restart, PlaceInv, NoMap, Loadable
    <3>7. QED
      BY <3>2, <3>4, <3>5, <3>6
  <2>2. CASE Idle \/ (tpc' = "ping" /\ readings' = <<>> /\ sentTo' = 0 /\ end' = 0 /\ table' = 1)
    BY <2>1, <2>2, IdleInv DEF SeenInv, PlaceInv
  <2>3. CASE /\ tpc = "query" /\ tpc' = "post" /\ UNCHANGED <<smap, end, table, readings, sentTo>>
    BY <2>1, <2>3 DEF SeenInv, PlaceInv, RunInv, RowsInv
  <2>4. QED
    BY <1>5, <2>2, <2>3 DEF QueriesDone, RunDone, Restart
<1>6. CASE PostReadings
  <2>1. /\ tpc = "post" /\ UNCHANGED <<clockVars, tpc, end, table, smap, readings, envVars, edition>>
        /\ sentTo' = BatchEnd /\ sentTo < Len(readings) /\ fails' \in 0..MaxFails
    BY <1>6, NumbersAssumption DEF PostReadings, Failing, PlaceInv
  <2>2. sentTo' \in 0..Len(readings)
    BY <2>1, NumbersAssumption DEF BatchEnd, PlaceInv
  <2> DEFINE batch == {readings[i] : i \in DOMAIN readings \cap (sentTo + 1..BatchEnd)}
  <2>3. rows' = rows \/ Ingest(batch)
    BY <1>6 DEF PostReadings
  <2>4. smap \in Normalised(seen[edition]) /\ \A r \in batch : r.sensor = Lookup(smap, r.series)
    BY <2>1 DEF RunInv
  <2> HIDE DEF batch
  <2>5. \A r \in rows' \ rows : r.edition = edition /\ r.sensor = Lookup(smap, r.series)
    BY <2>3, <2>4 DEF Ingest
  <2>6. RowsInv'
    BY <2>1, <2>4, <2>5 DEF RowsInv, SeenInv
  <2>7. QED
    BY <2>1, <2>2, <2>6 DEF SeenInv, PlaceInv, RunInv
<1>7. ASSUME NEW p \in Points, Arrives(p) PROVE IInv'
  BY <1>7 DEF Arrives, SeenInv, PlaceInv, RunInv, RowsInv
<1>8. CASE UNCHANGED vars
  BY <1>8 DEF vars, SeenInv, PlaceInv, RunInv, RowsInv
<1>9. QED
  BY <1>1, <1>2, <1>3, <1>4, <1>5, <1>6, <1>7, <1>8 DEF Next

\* The invariant holds throughout.
LEMMA Invariant == Spec => []IInv
  BY InitInv, NextInv, PTL DEF Spec

(***************************************************************************)
(* Delivery                                                                *)
(***************************************************************************)

\* When the next run starts, unless something fails: at once, or with the ticker.
NextStart == IF pending \/ tpc = "ping" THEN now ELSE nextTick

\* The latest it may be for a bucket that is not stored, n failures from here: a
\* failure costs the service a Poll at most.
Deadline(b, n) == b * Bucket + 1 + Poll * (fails + n + 1)

\* The run under way will store the bucket: its window is past the bucket's end, and the
\* table is still to be queried, or the mean to be posted.
UnderWay(s, b) ==
  /\ tpc \in {"query", "post"} /\ end >= (b + 1) * Bucket
  /\ \/ /\ tpc = "query"
        /\ \E k \in table..Len(Tables) : \A p \in PointsOf(s, b) : p.table = Tables[k]
     \/ \E i \in sentTo + 1..Len(readings) :
          /\ readings[i].series = s /\ readings[i].bucket = b
          /\ readings[i].mean = PointsOf(s, b)

\* This run, or one that starts in time, will store the bucket.
Coming(s, b) ==
  \/ UnderWay(s, b) /\ now <= Deadline(b, 0) /\ NextStart <= Deadline(b, 1)
  \/ NextStart <= Deadline(b, 0)

\* What is due is stored, or will be by this run, or by one that starts in time.
DueInv ==
  \A s \in SeriesOf, b \in {BucketOf(p.time) : p \in Points} :
    Due(s, b) => Stored(s, b) \/ Coming(s, b)

\* A run starts from nothing, and has no reading of a series that is not mapped.
FreshInv ==
  /\ tpc # "post" => sentTo = 0
  /\ tpc \in {"ping", "idle"} => table = 1
  /\ \A i \in DOMAIN readings : readings[i].sensor # NoSensor

\* A bucket holds the times from its start to the next one.
LEMMA BucketFacts ==
  ASSUME NEW t \in Nat
  PROVE  /\ BucketOf(t) \in Nat
         /\ BucketOf(t) * Bucket <= t /\ t < (BucketOf(t) + 1) * Bucket
         /\ \A b \in Nat : BucketOf(t) > b <=> t >= (b + 1) * Bucket
  BY DEF BucketOf, Bucket

\* SetToSeq leaves no member out.
LEMMA ListedAll ==
  ASSUME NEW S, IsFiniteSet(S), NEW x \in S
  PROVE  \E i \in 1..Len(SetToSeq(S)) : SetToSeq(S)[i] = x
<1> DEFINE n == Cardinality(S)
           l == SetToSeq(S)
<1>1. n \in Nat /\ ExistsBijection(1..n, S)
  BY FS_CardinalityType
<1>2. \E f \in [1..n -> S] : IsInjective(f)
  BY <1>1 DEF ExistsBijection, Bijection, Injection
<1>3. l \in [1..n -> S] /\ IsInjective(l)
  BY <1>2 DEF SetToSeq
<1> HIDE DEF l
<1>4. l \in Injection(1..n, S)
  BY <1>3 DEF Injection
<1>5. IsFiniteSet(1..n) /\ Cardinality(1..n) = n
  BY <1>1, FS_Interval
<1>6. l \in Surjection(1..n, S)
  BY <1>4, <1>5, FS_Injection
<1>7. PICK i \in 1..n : l[i] = x
  BY <1>6 DEF Surjection
<1>8. Len(l) = n
  BY <1>1, <1>3
<1> QED
  BY <1>7, <1>8 DEF l

\* What the three keys find is in the map.
LEMMA LookupFinds ==
  ASSUME NEW m, NEW s, Lookup(m, s) # NoSensor
  PROVE  Lookup(m, s) \in Range(m)
  BY DEF Lookup, Range

\* The empty map names no sensor.
LEMMA LookupNothing == \A s : Lookup(<< >>, s) = NoSensor
  BY DEF Lookup

\* A failure moves the deadlines by a Poll.
LEMMA Deadlines ==
  ASSUME PlaceInv, NEW b \in Nat
  PROVE  /\ Deadline(b, 0) \in Nat /\ Deadline(b, 1) = Deadline(b, 0) + Poll
         /\ fails' = fails => Deadline(b, 0)' = Deadline(b, 0) /\ Deadline(b, 1)' = Deadline(b, 1)
         /\ fails' = fails + 1 =>
              Deadline(b, 0)' = Deadline(b, 1) /\ Deadline(b, 1)' = Deadline(b, 1) + Poll
<1>1. \A x \in Nat : /\ Poll * x \in Nat /\ Poll * (x + 1) = Poll * x + Poll
  BY NumbersAssumption
<1>2. fails \in Nat /\ Bucket \in Nat /\ b * Bucket \in Nat
  BY NumbersAssumption DEF PlaceInv, Bucket
<1>3. /\ Poll * (fails + 0 + 1) \in Nat
      /\ Poll * (fails + 1 + 1) = Poll * (fails + 0 + 1) + Poll
      /\ Poll * (fails + 1 + 1 + 1) = Poll * (fails + 1 + 1) + Poll
  <2>1. fails + 0 + 1 \in Nat /\ fails + 1 + 1 = (fails + 0 + 1) + 1 /\ fails + 1 + 1 \in Nat
    BY <1>2
  <2> QED
    BY <1>1, <2>1
<1>4. fails' = fails + 1 => fails' + 0 + 1 = fails + 1 + 1 /\ fails' + 1 + 1 = fails + 1 + 1 + 1
  BY <1>2
<1> QED
  BY <1>2, <1>3, <1>4, NumbersAssumption DEF Deadline

\* The failures there may be leave every deadline within the Lookback.
LEMMA InTime ==
  ASSUME PlaceInv, Poll * (MaxFails + 1) < Lookback, NEW b \in Nat
  PROVE  Deadline(b, 0) <= b * Bucket + Lookback
<1>1. fails \in Nat /\ MaxFails \in Nat /\ MaxFails - fails \in Nat /\ Poll \in Nat
  BY NumbersAssumption DEF PlaceInv
<1>2. Poll * (MaxFails + 1) = Poll * (fails + 1) + Poll * (MaxFails - fails)
  BY <1>1
<1>3. Poll * (MaxFails - fails) >= 0 /\ Poll * (fails + 1) \in Nat
  BY <1>1
<1>4. fails + 0 + 1 = fails + 1
  BY <1>1
<1> QED
  BY <1>1, <1>2, <1>3, <1>4, NumbersAssumption DEF Deadline, Bucket

\* Before the bucket is over, the next run starts in time whatever has failed.
LEMMA Early ==
  ASSUME now' \in Nat, NextStart' <= now' + Poll, NextStart' \in Nat, fails' \in Nat,
         NEW b \in Nat, now' < (b + 1) * Bucket
  PROVE  NextStart' <= Deadline(b, 0)'
<1>1. \A x \in Nat : Poll * x \in Nat /\ Poll * (x + 1) = Poll * x + Poll
  BY NumbersAssumption
<1>2. PICK f \in Nat : f = fails'
  OBVIOUS
<1>3. Poll * (f + 0 + 1) >= Poll /\ Poll * (f + 0 + 1) \in Nat
  <2>1. f + 0 + 1 = f + 1 /\ Poll * f \in Nat /\ Poll * (f + 1) = Poll * f + Poll
    BY <1>1
  <2> QED
    BY <2>1, NumbersAssumption
<1>4. PICK m \in Nat, n \in Nat : m = now' /\ n = NextStart'
  OBVIOUS
<1>5. m <= b * Bucket + 1 /\ n <= m + Poll /\ b * Bucket \in Nat
  BY <1>4 DEF Bucket
<1>6. n <= b * Bucket + 1 + Poll * (f + 0 + 1)
  <2>1. \A k \in Nat, l \in Nat : k >= Poll /\ m <= l + 1 => n <= l + 1 + k
    BY <1>5, NumbersAssumption
  <2> QED
    BY <1>3, <1>5, <2>1
<1>7. Deadline(b, 0)' = b * Bucket + 1 + Poll * (f + 0 + 1)
  BY <1>2 DEF Deadline
<1> QED
  BY <1>4, <1>6, <1>7

\* The next run starts within a Poll, before a step and after it.
LEMMA NextStartType ==
  PlaceInv => /\ now \in Nat /\ NextStart \in Nat /\ now <= NextStart /\ NextStart <= now + Poll
              /\ nextTick \in Nat /\ nextTick <= now + Poll
  BY NumbersAssumption DEF PlaceInv, NextStart

LEMMA NextStartTypeAfter ==
  PlaceInv' => /\ now' \in Nat /\ NextStart' \in Nat /\ now' <= NextStart'
               /\ NextStart' <= now' + Poll /\ fails' \in Nat
<1> SUFFICES ASSUME PlaceInv'
             PROVE  /\ now' \in Nat /\ NextStart' \in Nat /\ now' <= NextStart'
                    /\ NextStart' <= now' + Poll /\ fails' \in Nat
  OBVIOUS
<1>1. \A x \in 0..MaxTime : \A y \in x + 1..x + Poll : y \in Nat /\ x < y /\ y <= x + Poll
  BY NumbersAssumption
<1>2. \A x \in 0..MaxTime : x \in Nat /\ x <= x /\ x <= x + Poll
  BY NumbersAssumption
<1>3. now' \in 0..MaxTime /\ nextTick' \in now' + 1..now' + Poll /\ fails' \in 0..MaxFails
  BY DEF PlaceInv
<1>4. now' \in Nat /\ nextTick' \in Nat /\ now' < nextTick' /\ nextTick' <= now' + Poll
  BY <1>1, <1>2, <1>3
<1>5. fails' \in Nat
  BY <1>3, NumbersAssumption
<1>6. NextStart' = now' \/ NextStart' = nextTick'
  BY DEF NextStart
<1>7. CASE NextStart' = now'
  BY <1>2, <1>3, <1>5, <1>7
<1>8. CASE NextStart' = nextTick'
  BY <1>4, <1>5, <1>8
<1> QED
  BY <1>6, <1>7, <1>8

\* A query of the table, in time, finds the whole mean.
LEMMA MeanFound ==
  ASSUME IInv, NEW s, NEW b \in Nat, Due(s, b), end >= (b + 1) * Bucket,
         end <= b * Bucket + Lookback, smap \in Normalised(seen[edition]), NEW tbl,
         \A p \in PointsOf(s, b) : p.table = tbl
  PROVE  \E r \in MeansOf(tbl) :
           r.series = s /\ r.bucket = b /\ r.mean = PointsOf(s, b)
<1> DEFINE ps == {p \in influx : p.table = tbl /\ InWindow(p.time)}
           mean == {p \in ps : p.series = s /\ BucketOf(p.time) = b}
           r == [series |-> s, bucket |-> b, sensor |-> Lookup(smap, s), mean |-> mean]
<1>1. PICK p0 \in PointsOf(s, b) : TRUE
  BY DEF Due
<1>2. ASSUME NEW p \in PointsOf(s, b) PROVE p \in ps
  <2>1. p \in influx /\ p.time \in Nat /\ BucketOf(p.time) = b
    BY DataAssumption DEF Due, PointsOf
  <2>2. b * Bucket <= p.time /\ p.time < (b + 1) * Bucket
    BY <2>1, BucketFacts
  <2>3. end \in Nat /\ Lookback \in Nat
    BY NumbersAssumption DEF IInv, PlaceInv
  <2>4. InWindow(p.time)
    BY <2>1, <2>2, <2>3 DEF InWindow, Bucket
  <2> QED
    BY <2>1, <2>4
<1>3. mean = PointsOf(s, b)
  BY <1>2 DEF PointsOf, IInv
<1>4. Lookup(smap, s) # NoSensor
  <2>1. seen[edition] \in Range(seen)
    BY DEF IInv, SeenInv, Range
  <2> QED
    BY <2>1 DEF Due
<1>5. p0 \in ps /\ p0.series = s /\ BucketOf(p0.time) = b
  BY <1>1, <1>2 DEF PointsOf
<1> HIDE DEF ps
<1>6. r = [series |-> p0.series, bucket |-> BucketOf(p0.time), sensor |-> Lookup(smap, p0.series),
           mean |-> {p \in ps : p.series = p0.series /\ BucketOf(p.time) = BucketOf(p0.time)}]
  BY <1>5
<1>7. r \in MeansOf(tbl)
  BY <1>4, <1>5, <1>6 DEF MeansOf, ps
<1> QED
  BY <1>3, <1>7

\* A batch of a map with no invalid id is inserted.
LEMMA BatchStored ==
  ASSUME IInv, FreshInv, tpc = "post", NEW s, NEW b, Due(s, b), NEW i \in DOMAIN readings
  PROVE  readings[i].sensor \notin Invalid
<1>1. smap \in Normalised(seen[edition]) /\ seen[edition] \in Range(seen)
  BY DEF IInv, SeenInv, RunInv, Range
<1>2. readings[i].sensor = Lookup(smap, readings[i].series) /\ readings[i].sensor # NoSensor
  BY DEF IInv, RunInv, FreshInv
<1>3. readings[i].sensor \in Range(smap)
  BY <1>2, LookupFinds
<1>4. Range(smap) \subseteq Range(seen[edition])
  BY <1>1 DEF Normalised, Range
<1> QED
  BY <1>1, <1>3, <1>4 DEF Due

\* A run that returns, or never was, leaves nothing to the next.
LEMMA FreshKept ==
  ASSUME IInv, FreshInv, [Next]_vars
  PROVE  FreshInv'
<1> USE DEF FreshInv, clockVars, runVars, envVars
<1>1. CASE Idle \/ (tpc' = "ping" /\ readings' = <<>> /\ sentTo' = 0 /\ end' = 0 /\ table' = 1)
  <2>1. readings' = << >> /\ sentTo' = 0 /\ table' = 1
    BY <1>1 DEF Idle
  <2> QED
    BY <2>1, Nothing
<1>2. CASE UNCHANGED runVars \/ UNCHANGED <<table, readings, sentTo, tpc>>
  BY <1>2
<1>3. CASE StartRun /\ ~Idle
  <2>1. UNCHANGED <<table, readings, sentTo>> /\ tpc' = "query" /\ tpc \in {"ping", "idle"}
    BY <1>3 DEF StartRun
  <2> QED
    BY <2>1
<1>4. CASE QueryTable
  <2> DEFINE found == SetToSeq(MeansOf(Tables[table]))
  <2>1. found \in Seq(MeansOf(Tables[table]))
    BY MeansFinite, Listed DEF IInv
  <2>2. \A i \in 1..Len(found) : found[i].sensor # NoSensor
    <3>1. \A r \in MeansOf(Tables[table]) : r.sensor # NoSensor
      BY DEF MeansOf
    <3> QED
      BY <2>1, <3>1
  <2>3. /\ tpc = "query" /\ tpc' = tpc /\ sentTo' = sentTo
        /\ readings' = readings \o found \/ readings' = readings
    BY <1>4 DEF QueryTable
  <2> HIDE DEF found
  <2>4. ASSUME readings' = readings \o found, NEW i \in DOMAIN readings'
        PROVE  readings'[i].sensor # NoSensor
    <3>1. /\ Len(readings) \in Nat /\ Len(found) \in Nat
          /\ DOMAIN readings = 1..Len(readings) /\ DOMAIN readings' = 1..(Len(readings) + Len(found))
          /\ \A j \in 1..Len(readings) : readings'[j] = readings[j]
          /\ \A j \in 1..Len(found) : readings'[j + Len(readings)] = found[j]
      BY <2>1, <2>4 DEF IInv, PlaceInv
    <3>2. CASE i \in 1..Len(readings)
      BY <3>1, <3>2
    <3>3. CASE i \notin 1..Len(readings)
      <4>1. i - Len(readings) \in 1..Len(found) /\ (i - Len(readings)) + Len(readings) = i
        BY <3>1, <3>3
      <4> QED
        BY <2>2, <3>1, <4>1
    <3> QED
      BY <3>2, <3>3
  <2> QED
    BY <2>3, <2>4
<1>5. CASE QueriesDone /\ ~Idle
  BY <1>5 DEF QueriesDone
<1>6. CASE PostReadings
  BY <1>6 DEF PostReadings
<1> QED
  BY <1>1, <1>2, <1>3, <1>4, <1>5, <1>6
  DEF Next, Advance, Hang, EditMap, StartRun, QueriesDone, RunDone, Restart, Arrives, vars

\* What is due after a step was due before it, once the bucket is over.
LEMMA DueBefore ==
  ASSUME IInv, [Next]_vars, NEW s, NEW b \in Nat, Due(s, b)', now' >= (b + 1) * Bucket
  PROVE  Due(s, b)
<1>1. CASE UNCHANGED envVars
  BY <1>1 DEF Due, envVars
<1>2. CASE EditMap
  <2>1. PICK m : seen' = Append(seen, m) /\ m \in Maps
    BY <1>2 DEF EditMap
  <2>2. Range(seen) \subseteq Range(seen')
    <3>1. /\ Len(seen) \in Nat /\ DOMAIN seen = 1..Len(seen) /\ DOMAIN seen' = 1..(Len(seen) + 1)
          /\ \A i \in 1..Len(seen) : seen'[i] = seen[i]
      BY <2>1 DEF IInv, SeenInv
    <3> QED
      BY <3>1 DEF Range
  <2> QED
    BY <1>2, <2>2 DEF EditMap, Due
<1>3. ASSUME NEW p \in Points, Arrives(p) PROVE Due(s, b)
  <2>1. /\ influx' = influx \cup {p} /\ now' = now /\ seen' = seen /\ p \notin influx
        /\ late' = IF BucketOf(now) > BucketOf(p.time) THEN late \cup {p} ELSE late
    BY <1>3 DEF Arrives, clockVars
  <2>2. ASSUME p \in PointsOf(s, b) PROVE FALSE
    <3>1. BucketOf(p.time) = b /\ now \in Nat
      BY <2>2, NumbersAssumption DEF PointsOf, IInv, PlaceInv
    <3>2. BucketOf(now) > b
      BY <2>1, <3>1, BucketFacts
    <3>3. p \in late'
      BY <2>1, <3>1, <3>2
    <3> QED
      BY <2>2, <3>3 DEF Due
  <2>3. PointsOf(s, b) \subseteq influx \ late
    <3>1. late \subseteq late'
      BY <2>1
    <3> QED
      BY <2>1, <2>2, <3>1 DEF Due
  <2> QED
    BY <2>1, <2>3 DEF Due
<1> QED
  BY <1>1, <1>2, <1>3
  DEF Next, Advance, Hang, StartRun, QueryTable, QueriesDone, PostReadings, RunDone, Restart,
      vars, envVars

\* No row is ever removed.
LEMMA RowsGrow ==
  ASSUME [Next]_vars
  PROVE  rows \subseteq rows'
<1>1. CASE PostReadings
  <2>1. rows' = rows \/ \E batch : Ingest(batch)
    BY <1>1 DEF PostReadings
  <2> QED
    BY <2>1 DEF Ingest
<1> QED
  BY <1>1 DEF Next, Advance, Hang, EditMap, StartRun, QueryTable, QueriesDone, RunDone, Restart,
                Arrives, vars

\* Time passes, for a run that hangs at the cost of a failure.
LEMMA PassDue ==
  ASSUME IInv, IInv', NEW s, NEW b \in Nat, Coming(s, b), Advance \/ Hang
  PROVE  Coming(s, b)'
<1> USE DEF clockVars, runVars, envVars
<1>1. /\ now' = now + 1 /\ UNCHANGED <<runVars, envVars>>
      /\ pending' = (pending \/ (nextTick = now + 1 /\ tpc # "ping"))
      /\ nextTick' = IF nextTick = now + 1 THEN nextTick + Poll ELSE nextTick
      /\ fails' = fails \/ fails' = fails + 1
  BY DEF Advance, Hang, PassTick, Failing
<1>2. UnderWay(s, b)' = UnderWay(s, b)
  BY <1>1 DEF UnderWay
<1>3. /\ now \in Nat /\ nextTick \in Nat /\ NextStart \in Nat /\ now <= NextStart
      /\ nextTick >= now + 1 /\ Poll \in Nat \ {0}
  BY NextStartType, NumbersAssumption DEF IInv, PlaceInv
<1>4. /\ Deadline(b, 0) \in Nat /\ Deadline(b, 1) = Deadline(b, 0) + Poll
      /\ fails' = fails => Deadline(b, 0)' = Deadline(b, 0) /\ Deadline(b, 1)' = Deadline(b, 1)
      /\ fails' = fails + 1 =>
           Deadline(b, 0)' = Deadline(b, 1) /\ Deadline(b, 1)' = Deadline(b, 1) + Poll
  BY Deadlines DEF IInv
<1>5. CASE Hang
  <2>1. fails' = fails + 1 /\ tpc # "idle"
    BY <1>5 DEF Hang, Failing
  <2>2. NextStart' = NextStart \/ NextStart' = NextStart + 1
    <3>1. CASE pending \/ tpc = "ping"
      BY <1>1, <3>1 DEF NextStart
    <3>2. CASE ~pending /\ tpc # "ping" /\ nextTick = now + 1
      BY <1>1, <3>2 DEF NextStart
    <3>3. CASE ~pending /\ tpc # "ping" /\ nextTick # now + 1
      BY <1>1, <3>3 DEF NextStart
    <3> QED
      BY <3>1, <3>2, <3>3
  <2>3. NextStart' \in Nat
    BY NextStartTypeAfter DEF IInv
  <2> QED
    BY <1>1, <1>2, <1>3, <1>4, <2>1, <2>2, <2>3 DEF Coming
<1>6. CASE Advance
  <2>1. fails' = fails /\ tpc = "idle" /\ ~pending
    BY <1>6 DEF Advance
  <2>2. NextStart' = NextStart
    BY <1>1, <2>1, <1>3 DEF NextStart
  <2> QED
    BY <1>4, <2>1, <2>2 DEF Coming, UnderWay
<1> QED
  BY <1>5, <1>6

\* A run starts: it will store the bucket, unless it fails.
LEMMA StartDue ==
  ASSUME IInv, IInv', FreshInv, NEW s, NEW b \in Nat, Coming(s, b), Due(s, b), StartRun,
         now >= (b + 1) * Bucket
  PROVE  Coming(s, b)'
<1> USE DEF clockVars, runVars, envVars
<1>1. /\ tpc = "ping" \/ (tpc = "idle" /\ pending)
      /\ now' = now /\ pending' = FALSE
      /\ UNCHANGED <<envVars, rows>>
      /\ nextTick' = now + Poll \/ nextTick' = nextTick
  BY DEF StartRun
<1>2. /\ NextStart = now /\ now <= Deadline(b, 0)
  BY <1>1 DEF NextStart, Coming, UnderWay
<1>3. /\ now \in Nat /\ nextTick \in Nat /\ nextTick <= now + Poll /\ Poll \in Nat \ {0}
  BY NextStartType, NumbersAssumption DEF IInv
<1>4. /\ Deadline(b, 0) \in Nat /\ Deadline(b, 1) = Deadline(b, 0) + Poll
      /\ fails' = fails => Deadline(b, 0)' = Deadline(b, 0) /\ Deadline(b, 1)' = Deadline(b, 1)
      /\ fails' = fails + 1 =>
           Deadline(b, 0)' = Deadline(b, 1) /\ Deadline(b, 1)' = Deadline(b, 1) + Poll
  BY Deadlines DEF IInv
<1>5. CASE /\ smap' \in LoadSensorMap /\ tpc' = "query" /\ end' = now
           /\ UNCHANGED <<table, readings, sentTo, fails>>
  <2>1. NextStart' = nextTick' /\ nextTick' <= now + Poll
    BY <1>1, <1>3, <1>5 DEF NextStart
  <2>2. PICK p0 \in PointsOf(s, b) : p0.table \in Range(Tables)
    BY DEF Due
  <2>3. PICK k \in DOMAIN Tables : Tables[k] = p0.table
    BY <2>2 DEF Range
  <2>4. k \in table'..Len(Tables)
    <3>1. table' = 1 /\ DOMAIN Tables = 1..Len(Tables) /\ Len(Tables) \in Nat
      BY <1>1, <1>5, DataAssumption DEF FreshInv
    <3> QED
      BY <3>1
  <2>5. \A p \in PointsOf(s, b) : p.table = Tables[k]
    BY <2>2, <2>3, DataAssumption DEF PointsOf
  <2>6. UnderWay(s, b)'
    BY <1>5, <2>4, <2>5 DEF UnderWay
  <2>7. NextStart' <= Deadline(b, 1)' /\ now' <= Deadline(b, 0)'
    BY <1>1, <1>2, <1>3, <1>4, <1>5, <2>1
  <2> QED
    BY <2>6, <2>7 DEF Coming
<1>6. CASE smap' \in LoadSensorMap /\ smap' = NoMap
  <2>1. << >> \in Normalised(seen[Len(seen)])
    BY <1>6 DEF LoadSensorMap, NoMap, Last
  <2>2. seen[Len(seen)] \in Range(seen)
    BY DEF IInv, SeenInv, Range
  <2> QED
    BY <2>1, <2>2, LookupNothing DEF Due
<1>7. CASE Idle /\ Failing(1)
  <2>1. fails' = fails + 1 /\ tpc' = "idle"
    BY <1>7 DEF Idle, Failing
  <2>2. NextStart' = nextTick' /\ nextTick' <= now + Poll
    BY <1>1, <1>3, <2>1 DEF NextStart
  <2>3. nextTick' <= Deadline(b, 0) + Poll
    BY <1>1, <1>2, <1>3, <1>4
  <2> QED
    BY <1>4, <2>1, <2>2, <2>3 DEF Coming
<1> QED
  BY <1>5, <1>6, <1>7 DEF StartRun

\* A step of the run that takes no time: either it fails, or the run comes closer to
\* storing the bucket.
LEMMA RunDue ==
  ASSUME IInv, NEW s, NEW b \in Nat, Coming(s, b), UNCHANGED clockVars, tpc # "ping",
         \/ fails' = fails + 1
         \/ fails' = fails /\ (UnderWay(s, b) => UnderWay(s, b)') /\ tpc' # "ping"
  PROVE  Coming(s, b)'
<1>1. /\ now' = now /\ now \in Nat /\ NextStart \in Nat /\ now <= NextStart /\ Poll \in Nat
      /\ NextStart' = NextStart \/ NextStart' = now
  BY NextStartType, NumbersAssumption DEF IInv, NextStart, clockVars
<1>2. /\ Deadline(b, 0) \in Nat /\ Deadline(b, 1) = Deadline(b, 0) + Poll
      /\ fails' = fails => Deadline(b, 0)' = Deadline(b, 0) /\ Deadline(b, 1)' = Deadline(b, 1)
      /\ fails' = fails + 1 => Deadline(b, 0)' = Deadline(b, 1)
  BY Deadlines DEF IInv
<1>3. CASE fails' = fails + 1
  BY <1>1, <1>2, <1>3 DEF Coming
<1>4. CASE fails' = fails /\ (UnderWay(s, b) => UnderWay(s, b)') /\ tpc' # "ping"
  <2>1. NextStart' = NextStart
    BY <1>4 DEF NextStart, clockVars
  <2> QED
    BY <1>1, <1>2, <1>4, <2>1 DEF Coming
<1> QED
  BY <1>3, <1>4

\* A query that succeeds brings the mean of a table still to be queried.
LEMMA QueryDue ==
  ASSUME IInv, FreshInv, NEW s, NEW b \in Nat, Due(s, b), QueryTable, fails' = fails,
         UnderWay(s, b), end <= b * Bucket + Lookback, ~Failing(1)
  PROVE  UnderWay(s, b)'
<1> DEFINE found == SetToSeq(MeansOf(Tables[table]))
<1>1. /\ tpc = "query" /\ tpc' = tpc /\ end' = end /\ sentTo' = sentTo /\ table' = table + 1
      /\ table <= Len(Tables) /\ readings' = readings \o found
  BY DEF QueryTable
<1>2. IsFiniteSet(MeansOf(Tables[table])) /\ found \in Seq(MeansOf(Tables[table]))
  BY MeansFinite, Listed DEF IInv
<1> HIDE DEF found
<1>3. /\ Len(readings) \in Nat /\ Len(found) \in Nat /\ sentTo = 0
      /\ Len(readings') = Len(readings) + Len(found)
      /\ \A i \in 1..Len(readings) : readings'[i] = readings[i]
      /\ \A i \in 1..Len(found) : readings'[i + Len(readings)] = found[i]
  BY <1>1, <1>2, SMTT(30) DEF IInv, PlaceInv, FreshInv
<1>4. end >= (b + 1) * Bucket
  BY DEF UnderWay
<1>5. CASE \A p \in PointsOf(s, b) : p.table = Tables[table]
  <2>1. smap \in Normalised(seen[edition])
    BY <1>1 DEF IInv, RunInv
  <2>2. PICK r \in MeansOf(Tables[table]) :
          r.series = s /\ r.bucket = b /\ r.mean = PointsOf(s, b)
    BY <1>4, <1>5, <2>1, MeanFound
  <2>3. PICK i \in 1..Len(found) : found[i] = r
    BY <1>2, ListedAll DEF found
  <2>4. i + Len(readings) \in sentTo' + 1..Len(readings') /\ readings'[i + Len(readings)] = r
    BY <1>1, <1>3, <2>3
  <2> QED
    BY <1>1, <1>4, <2>2, <2>4 DEF UnderWay
<1>6. ASSUME NEW k \in table..Len(Tables), \A p \in PointsOf(s, b) : p.table = Tables[k], k # table
      PROVE  UnderWay(s, b)'
  <2>1. k \in table'..Len(Tables)
    BY <1>1, <1>6, DataAssumption DEF IInv, PlaceInv
  <2> QED
    BY <1>1, <1>4, <1>6, <2>1 DEF UnderWay
<1>7. ASSUME NEW i \in sentTo + 1..Len(readings), readings[i].series = s,
             readings[i].bucket = b, readings[i].mean = PointsOf(s, b)
      PROVE  UnderWay(s, b)'
  <2>1. i \in sentTo' + 1..Len(readings') /\ readings'[i] = readings[i]
    BY <1>1, <1>3
  <2> QED
    BY <1>1, <1>4, <1>7, <2>1 DEF UnderWay
<1> QED
  BY <1>1, <1>5, <1>6, <1>7 DEF UnderWay

\* A batch that succeeds stores the mean, or leaves it for a later one.
LEMMA PostDue ==
  ASSUME IInv, FreshInv, NEW s, NEW b \in Nat, Due(s, b), PostReadings, ~Failing(1),
         UnderWay(s, b)
  PROVE  Stored(s, b)' \/ UnderWay(s, b)'
<1> DEFINE batch == {readings[i] : i \in DOMAIN readings \cap (sentTo + 1..BatchEnd)}
<1>1. /\ tpc = "post" /\ tpc' = tpc /\ end' = end /\ readings' = readings /\ sentTo' = BatchEnd
      /\ Ingest(batch)
  BY DEF PostReadings, runVars
<1>2. PICK i \in sentTo + 1..Len(readings) :
        readings[i].series = s /\ readings[i].bucket = b /\ readings[i].mean = PointsOf(s, b)
  BY <1>1 DEF UnderWay
<1>3. /\ Len(readings) \in Nat /\ sentTo \in Nat /\ DOMAIN readings = 1..Len(readings)
      /\ BatchEnd \in Nat
  BY NumbersAssumption DEF IInv, PlaceInv, BatchEnd
<1>4. CASE i <= BatchEnd
  <2>1. i \in DOMAIN readings \cap (sentTo + 1..BatchEnd)
    BY <1>3, <1>4
  <2>2. \A r \in batch : r.sensor \notin Invalid
    BY <1>1, BatchStored
  <2>3. readings[i] \in batch
    BY <2>1
  <2> HIDE DEF batch
  <2>4. rows' = rows \cup {[series |-> r.series, bucket |-> r.bucket, mean |-> r.mean,
                            sensor |-> r.sensor, edition |-> edition] : r \in batch}
    BY <1>1, <2>2 DEF Ingest
  <2>5. [series |-> readings[i].series, bucket |-> readings[i].bucket, mean |-> readings[i].mean,
         sensor |-> readings[i].sensor, edition |-> edition] \in rows'
    BY <2>3, <2>4
  <2> QED
    BY <1>2, <2>5 DEF Stored
<1>5. CASE i > BatchEnd
  <2>1. i \in sentTo' + 1..Len(readings')
    BY <1>1, <1>3, <1>5
  <2> QED
    BY <1>1, <1>2, <2>1 DEF UnderWay
<1> QED
  BY <1>3, <1>4, <1>5

\* Every step keeps what is due stored or coming.
LEMMA DueKept ==
  ASSUME IInv, IInv', FreshInv, DueInv, [Next]_vars, Poll * (MaxFails + 1) < Lookback
  PROVE  DueInv'
<1> SUFFICES ASSUME NEW s \in SeriesOf, NEW b \in {BucketOf(p.time) : p \in Points},
                    Due(s, b)', ~Stored(s, b)'
             PROVE  Coming(s, b)'
  BY DEF DueInv
<1>1. b \in Nat
  BY DataAssumption, BucketFacts
<1>2. CASE now' < (b + 1) * Bucket
  BY <1>1, <1>2, NextStartTypeAfter, Early DEF IInv, Coming
<1>3. CASE now' >= (b + 1) * Bucket
  <2>1. Due(s, b)
    BY <1>1, <1>3, DueBefore
  <2>2. ~Stored(s, b)
    BY RowsGrow DEF Stored
  <2>3. Coming(s, b)
    BY <2>1, <2>2 DEF DueInv
  <2> USE DEF clockVars, runVars, envVars
  <2>4. CASE Advance \/ Hang
    BY <1>1, <2>3, <2>4, PassDue
  <2>5. CASE StartRun
    <3>1. now' = now
      BY <2>5 DEF StartRun
    <3> QED
      BY <1>1, <1>3, <2>1, <2>3, <2>5, <3>1, StartDue
  <2>6. CASE EditMap \/ (\E p \in Points : Arrives(p)) \/ UNCHANGED vars
    <3>1. UNCHANGED <<clockVars, runVars, fails>>
      BY <2>6 DEF EditMap, Arrives, vars
    <3>2. UnderWay(s, b)' = UnderWay(s, b)
      BY <3>1 DEF UnderWay
    <3> QED
      BY <2>3, <3>1, <3>2 DEF Coming, Deadline, NextStart
  <2>7. CASE QueryTable
    <3>1. UNCHANGED clockVars /\ tpc # "ping" /\ tpc' = tpc
      BY <2>7 DEF QueryTable
    <3>2. CASE Failing(1)
      BY <1>1, <2>3, <3>1, <3>2, RunDue DEF Failing
    <3>3. CASE ~Failing(1)
      <4>1. fails' = fails
        BY <2>7, <3>3 DEF QueryTable
      <4>2. CASE UnderWay(s, b) /\ ~(NextStart <= Deadline(b, 0))
        <5>1. now <= Deadline(b, 0) /\ Deadline(b, 0) <= b * Bucket + Lookback
          BY <1>1, <2>3, <4>2, InTime DEF Coming, IInv
        <5>2. end <= b * Bucket + Lookback
          <6>1. end \in Nat /\ now \in Nat /\ end <= now /\ Deadline(b, 0) \in Nat
                /\ b * Bucket \in Nat /\ Lookback \in Nat
            BY <1>1, Deadlines, NumbersAssumption DEF IInv, PlaceInv, Bucket
          <6> QED
            BY <5>1, <6>1
        <5>3. UnderWay(s, b)'
          BY <1>1, <2>1, <2>7, <3>3, <4>1, <4>2, <5>2, QueryDue
        <5> QED
          BY <1>1, <2>3, <3>1, <4>1, <5>3, RunDue
      <4>3. CASE ~UnderWay(s, b)
        BY <1>1, <2>3, <3>1, <4>1, <4>3, RunDue
      <4>4. CASE NextStart <= Deadline(b, 0)
        BY <3>1, <4>1, <4>4 DEF Coming, Deadline, NextStart
      <4> QED
        BY <4>2, <4>3, <4>4
    <3> QED
      BY <3>2, <3>3
  <2>8. CASE QueriesDone
    <3>1. /\ UNCHANGED clockVars /\ tpc = "query" /\ tpc' # "ping" /\ fails' = fails
          /\ table > Len(Tables)
      BY <2>8 DEF QueriesDone, Idle
    <3>2. ASSUME UnderWay(s, b) PROVE UnderWay(s, b)'
      <4>1. table \in Nat /\ Len(Tables) \in Nat
        <5>1. Len(Tables) \in Nat
          BY DataAssumption
        <5> QED
          BY <5>1 DEF IInv, PlaceInv
      <4>2. PICK i \in sentTo + 1..Len(readings) :
              readings[i].series = s /\ readings[i].bucket = b /\ readings[i].mean = PointsOf(s, b)
        BY <3>1, <3>2, <4>1 DEF UnderWay
      <4>3. readings # << >>
        BY <3>1, <4>2 DEF FreshInv
      <4>4. tpc' = "post" /\ UNCHANGED <<end, table, readings, sentTo>>
        BY <2>8, <4>3 DEF QueriesDone
      <4> QED
        BY <3>2, <4>2, <4>4 DEF UnderWay
    <3> QED
      BY <1>1, <2>3, <3>1, <3>2, RunDue
  <2>9. CASE PostReadings
    <3>1. UNCHANGED clockVars /\ tpc # "ping" /\ tpc' # "ping"
      BY <2>9 DEF PostReadings
    <3>2. CASE Failing(1)
      BY <1>1, <2>3, <3>1, <3>2, RunDue DEF Failing
    <3>3. CASE ~Failing(1)
      <4>1. fails' = fails
        BY <2>9, <3>3 DEF PostReadings
      <4>2. UnderWay(s, b) => UnderWay(s, b)'
        BY <1>1, <2>1, <2>9, <3>3, PostDue
      <4> QED
        BY <1>1, <2>3, <3>1, <4>1, <4>2, RunDue
    <3> QED
      BY <3>2, <3>3
  <2>10. CASE RunDone
    <3>1. /\ UNCHANGED clockVars /\ tpc = "post" /\ tpc' # "ping" /\ fails' = fails
          /\ sentTo = Len(readings)
      BY <2>10 DEF RunDone, Idle
    <3>2. ~UnderWay(s, b)
      BY <3>1 DEF UnderWay, IInv, PlaceInv
    <3> QED
      BY <1>1, <2>3, <3>1, <3>2, RunDue
  <2>11. CASE Restart
    <3>1. /\ now' = now /\ NextStart' = now /\ fails' = fails + 1
      BY <2>11 DEF Restart, Failing, NextStart
    <3>2. /\ now \in Nat /\ NextStart \in Nat /\ now <= NextStart /\ Poll \in Nat
          /\ Deadline(b, 0) \in Nat /\ Deadline(b, 1) = Deadline(b, 0) + Poll
          /\ Deadline(b, 0)' = Deadline(b, 1)
      BY <1>1, <3>1, NextStartType, Deadlines, NumbersAssumption DEF IInv
    <3>3. now <= Deadline(b, 1)
      BY <2>3, <3>2 DEF Coming
    <3> QED
      BY <3>1, <3>2, <3>3 DEF Coming
  <2> QED
    BY <2>4, <2>5, <2>6, <2>7, <2>8, <2>9, <2>10, <2>11 DEF Next
<1> QED
  <2>1. now' \in Nat /\ b * Bucket \in Nat
    BY <1>1, NextStartTypeAfter DEF IInv, Bucket
  <2>2. now' < (b + 1) * Bucket \/ now' >= (b + 1) * Bucket
    BY <1>1, <2>1 DEF Bucket
  <2> QED
    BY <1>2, <1>3, <2>2

\* At the start nothing is due.
LEMMA InitDue == Init => FreshInv /\ DueInv
  BY Nothing DEF Init, FreshInv, DueInv, Due

(***************************************************************************)
(* Theorems                                                                *)
(***************************************************************************)

\* Every reachable state is well-typed, for any settings: the ticker, the window and
\* the batches of Run stay in their bounds.
THEOREM TypeCorrect == Spec => []TypeOK
<1>1. IInv => TypeOK
  BY DEF IInv, SeenInv, PlaceInv, TypeOK, Range, Loadable
<1>2. QED
  BY <1>1, Invariant, PTL

\* For any edits, failures and restarts: what transfer.Run stores names the sensor that
\* telemetry_settings named when the run began, with "." for ":" in its keys.
THEOREM MapsAreFresh == Spec => []MapFresh
<1>1. IInv => MapFresh
  BY DEF IInv, RowsInv, MapFresh
<1>2. QED
  BY <1>1, Invariant, PTL

\* With Lookback more than Poll times the runs that MaxFails failures can cost, and the
\* one that succeeds: whatever fails, restarts, hangs or comes late in between, every
\* bucket whose points came in time is stored before its window closes.
THEOREM Delivers ==
  ASSUME Poll * (MaxFails + 1) < Lookback
  PROVE  Spec => []Delivered
<1>1. FreshInv /\ IInv /\ DueInv /\ [Next]_vars => (FreshInv /\ IInv /\ DueInv)'
  BY FreshKept, NextInv, DueKept
<1>2. IInv /\ DueInv => Delivered
  <2> SUFFICES ASSUME IInv, DueInv,
                      NEW s \in SeriesOf, NEW b \in {BucketOf(p.time) : p \in Points},
                      Due(s, b), now > b * Bucket + Lookback, ~Stored(s, b)
               PROVE  FALSE
    BY DEF Delivered
  <2>1. b \in Nat
    BY DataAssumption, BucketFacts
  <2>2. /\ Deadline(b, 0) <= b * Bucket + Lookback /\ Deadline(b, 0) \in Nat
        /\ now \in Nat /\ NextStart \in Nat /\ now <= NextStart
        /\ b * Bucket \in Nat /\ Lookback \in Nat
    BY <2>1, InTime, Deadlines, NextStartType, NumbersAssumption DEF IInv, Bucket
  <2>3. now <= Deadline(b, 0)
    BY <2>2, Deadlines DEF DueInv, Coming
  <2> QED
    BY <2>2, <2>3
<1> QED
  BY <1>1, <1>2, InitInv, InitDue, PTL DEF Spec
===============================================================================
