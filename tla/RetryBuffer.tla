----------------------------- MODULE RetryBuffer -----------------------------
(***************************************************************************)
(* The retry buffer influxdb-relay puts in front of each InfluxDB backend  *)
(* (retry.go): writes go straight to the backend until one fails; from     *)
(* then on they are queued, batched by (query, auth), and a goroutine      *)
(* posts batch after batch, repeating each until the backend answers with  *)
(* anything but a 5xx.                                                     *)
(*                                                                         *)
(* Each member of Writers calls retryBuffer.post once, so it also names    *)
(* its write; a batch is named by the first write in it.                   *)
(***************************************************************************)
EXTENDS Naturals, SequencesExt

CONSTANTS
  Writers,     \* goroutines of ServeHTTP, each posting one write
  Keys,        \* (query, auth) pairs
  Key,         \* the key of each write
  Size,        \* the length in bytes of each write
  MaxBuffered, \* bufferList.maxSize
  MaxBatch,    \* bufferList.maxBatch
  Replies,     \* what the backend may answer: "ok" (2xx), "rejected" (4xx)
  None,        \* no batch, no answer
  MaxFails     \* bound on attempts that end in an error or a 5xx

\* The batch of retry.go; its bufs are the writes in it.
Batch == [key : Keys, bufs : Seq(Writers), size : Nat, full : BOOLEAN]

ASSUME KeyAssumption == Key \in [Writers -> Keys]
ASSUME SizeAssumption == Size \in [Writers -> Nat]
ASSUME LimitsAssumption == MaxBuffered \in Nat /\ MaxBatch \in Nat /\ MaxFails \in Nat
ASSUME RepliesAssumption == Replies \subseteq {"ok", "rejected"}
ASSUME NamesAssumption ==
  "head" \notin Writers /\ None \notin Batch /\ None # "ok"

VARIABLES
  buffering, \* the flag retryBuffer.buffering
  list,      \* the queued batches, oldest first
  size,      \* bufferList.size
  wpc,       \* per writer: where its post stands
  handle,    \* per writer: what add's pointer points to, then its batch
  answer,    \* per writer: the answer post returned
  rpc,       \* where retryBuffer.run stands
  inflight,  \* the batch run has popped
  reply,     \* the answers of finished batches: batch.resp
  applied,   \* history: writes the backend has stored
  fails      \* failed attempts so far

listVars    == <<list, size>>
runVars     == <<rpc, inflight, reply>>
backendVars == <<applied, fails>>
writerVars  == <<wpc, handle, answer>>
vars == <<buffering, listVars, writerVars, runVars, backendVars>>

WriterPC == {"idle", "direct", "failed", "add", "unlocked", "wait",
             "answered", "refused", "panic"}
RunPC == {"pop", "asleep", "post", "release"}

TypeOK ==
  /\ buffering \in {0, 1}
  /\ list \in Seq(Batch) /\ size \in 0..MaxBuffered
  /\ wpc \in [Writers -> WriterPC]
  /\ handle \in [Writers -> Writers \cup {"head", None}]
  /\ answer \in [Writers -> {"ok", "rejected", None}]
  /\ rpc \in RunPC
  /\ inflight \in Batch \cup {None}
  /\ reply \in [Writers -> {"ok", "rejected", None}]
  /\ applied \subseteq Writers
  /\ fails \in 0..MaxFails

Init ==
  /\ buffering = 0 /\ list = <<>> /\ size = 0
  /\ wpc = [w \in Writers |-> "idle"]
  /\ handle = [w \in Writers |-> None] /\ answer = [w \in Writers |-> None]
  /\ rpc = "pop" /\ inflight = None
  /\ reply = [w \in Writers |-> None]
  /\ applied = {} /\ fails = 0

\* A panic in a goroutine ends the process.
Crashed == \E w \in Writers : wpc[w] = "panic"

GoW(w, from, to) == ~Crashed /\ wpc[w] = from /\ wpc' = [wpc EXCEPT ![w] = to]
GoR(from, to) == ~Crashed /\ rpc = from /\ rpc' = to

(***************************************************************************)
(* The backend                                                             *)
(***************************************************************************)

\* An attempt to post ws that the backend answers with r.
Accepted(ws, r) ==
  /\ r \in Replies
  /\ applied' = IF r = "ok" THEN applied \cup ws ELSE applied
  /\ UNCHANGED fails

\* An attempt that ends in a timeout or a 5xx.  The backend may have stored it
\* all the same; nothing may be concluded from that, so it counts as not stored.
Failed ==
  /\ fails < MaxFails
  /\ fails' = fails + 1
  /\ UNCHANGED applied

(***************************************************************************)
(* retryBuffer.post                                                        *)
(***************************************************************************)

LoadBuffering(w) ==
  /\ GoW(w, "idle", IF buffering = 0 THEN "direct" ELSE "add")
  /\ UNCHANGED <<buffering, listVars, handle, answer, runVars, backendVars>>

DirectSucceeds(w) ==
  /\ GoW(w, "direct", "answered")
  /\ \E r \in Replies : Accepted({w}, r) /\ answer' = [answer EXCEPT ![w] = r]
  /\ UNCHANGED <<buffering, listVars, handle, runVars>>

DirectFails(w) ==
  /\ GoW(w, "direct", "failed")
  /\ Failed
  /\ UNCHANGED <<buffering, listVars, handle, answer, runVars>>

StoreBuffering(w) ==
  /\ GoW(w, "failed", "add")
  /\ buffering' = 1
  /\ UNCHANGED <<listVars, handle, answer, runVars, backendVars>>

(***************************************************************************)
(* bufferList.add                                                          *)
(***************************************************************************)

\* Only what is queued already counts against the limit (mutant of HasRoom).
HasRoomForOneMore(w) == size <= MaxBuffered

HasRoom(w) == size + Size[w] <= MaxBuffered

Refuse(w) ==
  /\ GoW(w, "add", "refused")
  /\ ~HasRoom(w)
  /\ UNCHANGED <<buffering, listVars, handle, answer, runVars, backendVars>>

Fits(b, w) == b.key = Key[w] /\ ~b.full /\ b.size + Size[w] <= MaxBatch

\* Batches the search passes over are left open (mutant of Passed).
PassedLeftOpen(b, w) == b

\* The search marks the batches of w's key it passes over as full.
Passed(b, w) == [b EXCEPT !.full = @ \/ b.key = Key[w]]

NewBatch(w) == [key |-> Key[w], bufs |-> <<w>>, size |-> Size[w], full |-> FALSE]

Joined(b, w) == [b EXCEPT !.bufs = Append(@, w), !.size = @ + Size[w]]

\* The write is queued but run is not told (mutant of Signal).
NoSignal == rpc' = rpc

Signal == rpc' = IF rpc = "asleep" THEN "pop" ELSE rpc

\* The list with w in its batch at target, a new one if there is none.
WithWrite(w, target) ==
  [i \in 1..(IF target > Len(list) THEN target ELSE Len(list)) |->
     IF i < target THEN Passed(list[i], w)
     ELSE IF i > Len(list) THEN NewBatch(w)
     ELSE IF i = target THEN Joined(list[i], w) ELSE list[i]]

\* The first batch that takes w, or one past the tail.
IsTarget(w, target) ==
  /\ \A i \in 1..target - 1 : ~Fits(list[i], w)
  /\ target <= Len(list) => Fits(list[target], w)

\* The pointer cur is into the list: to its head, or to the batch before's next.
Add(w) ==
  /\ GoW(w, "add", "unlocked")
  /\ HasRoom(w)
  /\ size' = size + Size[w]
  /\ \E target \in 1..Len(list) + 1 :
       /\ IsTarget(w, target)
       /\ list' = WithWrite(w, target)
       /\ handle' = [handle EXCEPT ![w] =
                       IF target = 1 THEN "head" ELSE Head(list'[target].bufs)]
  /\ Signal
  /\ UNCHANGED <<buffering, answer, inflight, reply, backendVars>>

\* return *cur, after the lock was released: if cur points to the head field it
\* finds whatever the head is by then, and no batch at all makes post panic.
ReadHandle(w) ==
  /\ \/ /\ handle[w] # "head"
        /\ GoW(w, "unlocked", "wait")
        /\ UNCHANGED handle
     \/ /\ handle[w] = "head" /\ list # <<>>
        /\ GoW(w, "unlocked", "wait")
        /\ handle' = [handle EXCEPT ![w] = Head(Head(list).bufs)]
     \/ /\ handle[w] = "head" /\ list = <<>>
        /\ GoW(w, "unlocked", "panic")
        /\ UNCHANGED handle
  /\ UNCHANGED <<buffering, listVars, answer, runVars, backendVars>>

\* post returns without batch.wg.Wait (mutant of Wait).
DoNotWait(w) ==
  /\ GoW(w, "wait", "answered")
  /\ answer' = [answer EXCEPT ![w] = reply[handle[w]]]
  /\ handle' = [handle EXCEPT ![w] = None]
  /\ UNCHANGED <<buffering, listVars, runVars, backendVars>>

\* batch.wg.Wait, then batch.resp; run has released a batch once it is neither
\* queued nor in its hands.
Released(h) ==
  /\ \A i \in 1..Len(list) : Head(list[i].bufs) # h
  /\ inflight # None => Head(inflight.bufs) # h

Wait(w) ==
  /\ GoW(w, "wait", "answered")
  /\ Released(handle[w])
  /\ answer' = [answer EXCEPT ![w] = reply[handle[w]]]
  /\ handle' = [handle EXCEPT ![w] = None]
  /\ UNCHANGED <<buffering, listVars, runVars, backendVars>>

WriterStep(w) ==
  \/ DirectSucceeds(w) \/ DirectFails(w) \/ StoreBuffering(w)
  \/ Refuse(w) \/ Add(w) \/ ReadHandle(w) \/ Wait(w)

(***************************************************************************)
(* retryBuffer.run                                                         *)
(***************************************************************************)

Sleep ==
  /\ GoR("pop", "asleep")
  /\ size = 0
  /\ UNCHANGED <<buffering, listVars, writerVars, inflight, reply, backendVars>>

\* The popped bytes stay counted (mutant of Pop).
PopKeepsSize ==
  /\ GoR("pop", "post")
  /\ size > 0
  /\ inflight' = Head(list)
  /\ list' = Tail(list)
  /\ UNCHANGED <<size, buffering, writerVars, reply, backendVars>>

Pop ==
  /\ GoR("pop", "post")
  /\ size > 0
  /\ inflight' = Head(list)
  /\ list' = Tail(list)
  /\ size' = size - Head(list).size
  /\ UNCHANGED <<buffering, writerVars, reply, backendVars>>

RetrySucceeds ==
  /\ GoR("post", "release")
  /\ \E r \in Replies :
       /\ Accepted(ToSet(inflight.bufs), r)
       /\ reply' = [reply EXCEPT ![Head(inflight.bufs)] = r]
  /\ UNCHANGED <<buffering, listVars, writerVars, inflight>>

\* One attempt only: a 5xx ends the batch like an answer (mutant of RetryFails).
RetryGivesUp ==
  /\ GoR("post", "release")
  /\ Failed
  /\ reply' = [reply EXCEPT ![Head(inflight.bufs)] = "ok"]
  /\ UNCHANGED <<buffering, listVars, writerVars, inflight>>

RetryFails ==
  /\ GoR("post", "post")
  /\ Failed
  /\ UNCHANGED <<buffering, listVars, writerVars, inflight, reply>>

\* buffering back to 0, then batch.wg.Done.
Release ==
  /\ GoR("release", "pop")
  /\ buffering' = 0
  /\ inflight' = None
  /\ UNCHANGED <<listVars, writerVars, reply, backendVars>>

RunStep ==
  \/ Sleep \/ Pop \/ RetrySucceeds \/ RetryFails \/ Release

Next == (\E w \in Writers : LoadBuffering(w) \/ WriterStep(w)) \/ RunStep

Spec == Init /\ [][Next]_vars

\* As long as some goroutine in post or run can take a step, one does: the writes
\* and MaxFails being finite, the backend answers again at some point.
Fairness == WF_vars((\E w \in Writers : WriterStep(w)) \/ RunStep)

FairSpec == Spec /\ Fairness

(***************************************************************************)
(* Properties                                                              *)
(***************************************************************************)

\* The sum of a sequence of numbers.
Total(ns) ==
  LET sum[i \in 0..Len(ns)] == IF i = 0 THEN 0 ELSE sum[i - 1] + ns[i] IN sum[Len(ns)]

\* The queue's accounts are exact: each batch has writes of one key and the size
\* of their sum, none is over the limit unless a single write is, and the
\* buffer's size is the sum over the batches.
QueueSound ==
  /\ \A i \in 1..Len(list) :
       /\ \A j \in 1..Len(list[i].bufs) : Key[list[i].bufs[j]] = list[i].key
       /\ list[i].size = Total([j \in 1..Len(list[i].bufs) |-> Size[list[i].bufs[j]]])
       /\ list[i].size <= MaxBatch \/ Len(list[i].bufs) = 1
  /\ size = Total([i \in 1..Len(list) |-> list[i].size])

\* What run has not finished yet: the batch in its hands, then the queued ones.
Unfinished == (IF rpc = "post" THEN <<inflight>> ELSE <<>>) \o list

\* The writes of k in them, oldest first.
Pending(k) ==
  FlattenSeq([i \in 1..Len(Unfinished) |->
                IF Unfinished[i].key = k THEN Unfinished[i].bufs ELSE <<>>])

Queue == INSTANCE WriteQueue WITH
  queue  <- [k \in Keys |-> Pending(k)],
  taken  <- {w \in Writers : wpc[w] \in {"unlocked", "wait", "answered", "panic"}},
  stored <- applied

\* The buffer implements a queue per key: whatever the sizes of the writes, the
\* batches they share and the flags say, queued writes of one key are finished
\* in the order they were accepted, none is lost, finished twice or answered
\* before it is finished, and none is answered with success that is not stored.
KeyedQueue == Queue!Spec

\* ServeHTTP reuses a write's bytes once post has returned: by then no batch
\* holds them.
BytesNotReused ==
  \A w \in Writers : wpc[w] = "answered" =>
    /\ \A i \in 1..Len(list) : w \notin ToSet(list[i].bufs)
    /\ rpc = "post" => w \notin ToSet(inflight.bufs)

\* A write answered with success is in the backend.
AckedIsStored == \A w \in Writers : answer[w] = "ok" => w \in applied

\* Once the backend answers again every write is answered, unless the buffer refused it or the process is gone.
EveryWriteAnswered ==
  []<>(Crashed \/ \A w \in Writers : wpc[w] \in {"idle", "answered", "refused"})

\* A buffered write always has a batch to wait for.
HandleValid == ~Crashed
=============================================================================
