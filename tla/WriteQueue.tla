------------------------------ MODULE WriteQueue ------------------------------
(***************************************************************************)
(* What a backend behind influxdb-relay's retry buffer promises ServeHTTP, *)
(* whatever its batches, flags and goroutines do: a write goes through at  *)
(* once or joins the queue of its key; the backend finishes each queue in  *)
(* order, one or several writes at a time; and a write is answered when it *)
(* is finished, with success only if it is stored.                         *)
(***************************************************************************)
EXTENDS Naturals, SequencesExt

CONSTANTS Writers, Keys, Key, None

VARIABLES
  queue,  \* per key: the writes accepted and not finished, oldest first
  taken,  \* the writes that went through or were accepted
  stored, \* the writes the backend has
  answer  \* per write: what its caller was told

vars == <<queue, taken, stored, answer>>

Init ==
  /\ queue = [k \in Keys |-> <<>>] /\ taken = {} /\ stored = {}
  /\ answer = [w \in Writers |-> None]

Take(w) == w \notin taken /\ taken' = taken \cup {w}

\* Stored with success, or turned down.
Outcome(ws, r) == stored' = IF r = "ok" THEN stored \cup ws ELSE stored

GoThrough(w) ==
  /\ Take(w) /\ UNCHANGED queue
  /\ \E r \in {"ok", "rejected"} : Outcome({w}, r) /\ answer' = [answer EXCEPT ![w] = r]

Accept(w) ==
  /\ Take(w) /\ queue' = [queue EXCEPT ![Key[w]] = Append(@, w)]
  /\ UNCHANGED <<stored, answer>>

Finish(k) ==
  /\ \E n \in 1..Len(queue[k]), r \in {"ok", "rejected"} :
       /\ Outcome(ToSet(SubSeq(queue[k], 1, n)), r)
       /\ queue' = [queue EXCEPT ![k] = SubSeq(@, n + 1, Len(@))]
  /\ UNCHANGED <<taken, answer>>

Answer(w) ==
  /\ w \in taken /\ answer[w] = None /\ w \notin ToSet(queue[Key[w]])
  /\ \E r \in {"ok", "rejected"} :
       /\ r = "ok" => w \in stored
       /\ answer' = [answer EXCEPT ![w] = r]
  /\ UNCHANGED <<queue, taken, stored>>

Next ==
  \/ \E w \in Writers : GoThrough(w) \/ Accept(w) \/ Answer(w)
  \/ \E k \in Keys : Finish(k)

Spec == Init /\ [][Next]_vars
=============================================================================
