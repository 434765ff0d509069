------------------------------ MODULE HttpRelay ------------------------------
(***************************************************************************)
(* ServeHTTP of influxdb-relay (http.go): a write is parsed, rendered into *)
(* a buffer of the shared pool, and posted by one goroutine per backend;   *)
(* the handler answers from the first 2xx or 4xx that comes back, while    *)
(* the slower posts go on reading the buffer.  A buffered backend is seen  *)
(* through what RetryBuffer promises: its post is answered at once, or     *)
(* waits in the queue until it is, or finds the queue full.                *)
(***************************************************************************)
EXTENDS Naturals, Sequences, FiniteSets

CONSTANTS
  Requests,     \* requests made to the relay
  Kind,         \* what each of them is
  HttpBackends, \* the outputs of the relay
  Buffering,    \* those with a buffer-size-mb
  Buffers,      \* bytes.Buffers; a pool that is empty makes a new one
  None

\* The answer to what never reaches a backend.  A body that is not gzip is
\* refused without a return: the handler goes on to read it through a nil
\* reader, panics, and net/http drops the connection before the 400 is flushed.
Refusal ==
  [ping |-> "204", badPath |-> "404", options |-> "204", badMethod |-> "405",
   noDatabase |-> "400", badGzip |-> "dropped", unreadable |-> "500",
   unparsable |-> "400"]

ASSUME KindAssumption == Kind \in [Requests -> {"write"} \cup DOMAIN Refusal]
ASSUME BackendsAssumption == Buffering \subseteq HttpBackends /\ IsFiniteSet(HttpBackends)
ASSUME NoneAssumption ==
  None \notin Buffers /\ None \notin {"2xx", "4xx", "5xx", "204", "503", "error"}

VARIABLES
  hpc,         \* per request: where ServeHTTP stands
  answer,      \* per request: what the client was told
  errResponse, \* per request: whether a 5xx is held back
  post,        \* per request and backend: where its goroutine stands
  result,      \* per request and backend: what post returned
  responses,   \* per request: the channel of answers
  out,         \* per request: its outBuf
  closed,      \* requests whose responses are closed and buffer given back
  pool,        \* the buffers getBuf may hand out
  bytes,       \* per buffer: the request whose points it holds
  stored,      \* history: <<backend, request, the request whose points it got>>
  misled       \* history: <<backend, request>>, told the opposite of what became of it

handlerVars == <<hpc, answer, errResponse>>
postVars    == <<post, result, responses>>
bufferVars  == <<out, closed, pool, bytes>>
history     == <<stored, misled>>
httpVars    == <<handlerVars, postVars, bufferVars, history>>

HttpTypeOK ==
  /\ hpc \in [Requests -> {"absent", "arrived", "posting", "returned"}]
  /\ answer \in [Requests -> {None, "204", "400", "404", "405", "4xx", "500",
                              "503", "5xx", "dropped"}]
  /\ errResponse \in [Requests -> BOOLEAN]
  /\ post \in [Requests -> [HttpBackends -> {"none", "sending", "queued", "reply", "done"}]]
  /\ result \in [Requests -> [HttpBackends -> {None, "2xx", "4xx", "5xx", "error"}]]
  /\ \A r \in Requests : Len(responses[r]) <= Cardinality(HttpBackends)
  /\ out \in [Requests -> Buffers \cup {None}]
  /\ closed \subseteq Requests /\ pool \subseteq Buffers
  /\ bytes \in [Buffers -> Requests \cup {None}]

HttpInit ==
  /\ hpc = [r \in Requests |-> "absent"]
  /\ answer = [r \in Requests |-> None]
  /\ errResponse = [r \in Requests |-> FALSE]
  /\ post = [r \in Requests |-> [b \in HttpBackends |-> "none"]]
  /\ result = [r \in Requests |-> [b \in HttpBackends |-> None]]
  /\ responses = [r \in Requests |-> <<>>]
  /\ out = [r \in Requests |-> None] /\ closed = {}
  /\ pool = Buffers /\ bytes = [f \in Buffers |-> None]
  /\ stored = {} /\ misled = {}

GoH(r, from, to) == hpc[r] = from /\ hpc' = [hpc EXCEPT ![r] = to]
GoPost(r, b, from, to) == post[r][b] = from /\ post' = [post EXCEPT ![r][b] = to]
Answer(r, a) == answer' = [answer EXCEPT ![r] = a]

\* net/http accepts the request and starts the handler.
RequestArrives(r) ==
  /\ GoH(r, "absent", "arrived")
  /\ UNCHANGED <<answer, errResponse, postVars, bufferVars, history>>

Refuse(r) ==
  /\ Kind[r] # "write"
  /\ GoH(r, "arrived", "returned")
  /\ Answer(r, Refusal[Kind[r]])
  /\ UNCHANGED <<errResponse, postVars, bufferVars, history>>

\* The body is read, parsed and rendered into outBuf, and the goroutines start.
\* The buffer the body was read into is back in the pool by then.
StartPosts(r) ==
  /\ Kind[r] = "write"
  /\ GoH(r, "arrived", "posting")
  /\ \E f \in pool :
       /\ pool' = pool \ {f}
       /\ out' = [out EXCEPT ![r] = f]
       /\ bytes' = [bytes EXCEPT ![f] = r]
  /\ post' = [post EXCEPT ![r] = [b \in HttpBackends |-> "sending"]]
  /\ UNCHANGED <<answer, errResponse, result, responses, closed, history>>

(***************************************************************************)
(* The goroutine of a backend                                              *)
(***************************************************************************)

\* The backend takes the bytes the buffer holds now.
Store(r, b) == stored' = stored \cup {<<b, r, bytes[out[r]]>>}

\* simplePoster.post: whatever the backend answered, or an error (a timeout,
\* a lost connection), with or without the points stored.
SendsOnce(r, b) ==
  /\ b \notin Buffering
  /\ \E res \in {"2xx", "4xx", "5xx", "error"} :
       /\ result' = [result EXCEPT ![r][b] = res]
       /\ GoPost(r, b, "sending", IF res = "error" THEN "done" ELSE "reply")
       /\ \/ res \in {"2xx", "error"} /\ Store(r, b)
          \/ res # "2xx" /\ UNCHANGED stored
  /\ UNCHANGED <<handlerVars, responses, bufferVars, misled>>

\* retryBuffer.post puts the write in its queue, after a failed attempt or
\* because it is already buffering ...
SendsToQueue(r, b) ==
  /\ b \in Buffering
  /\ GoPost(r, b, "sending", "queued")
  /\ UNCHANGED <<handlerVars, result, responses, bufferVars, history>>

\* ... or finds it full.
QueueFull(r, b) ==
  /\ b \in Buffering
  /\ GoPost(r, b, "sending", "done")
  /\ result' = [result EXCEPT ![r][b] = "error"]
  /\ UNCHANGED <<handlerVars, responses, bufferVars, history>>

\* The write, straight or from the queue, is answered with something but a 5xx: its
\* own outcome, or - when its batch was popped before add read the pointer to it - that
\* of a batch behind it in the queue, of another write.
BufferedAnswer(r, b) ==
  /\ b \in Buffering
  /\ GoPost(r, b, "sending", "reply") \/ GoPost(r, b, "queued", "reply")
  /\ \E own, told \in {"2xx", "4xx"} :
       /\ own # told =>
            /\ post[r][b] = "queued"
            /\ \E q \in Requests \ {r} : post[q][b] \in {"queued", "reply", "done"}
       /\ result' = [result EXCEPT ![r][b] = told]
       /\ IF own = "2xx" THEN Store(r, b) ELSE UNCHANGED stored
       /\ misled' = IF own = told THEN misled ELSE misled \cup {<<b, r>>}
  /\ UNCHANGED <<handlerVars, responses, bufferVars>>

\* The channel holds an answer of every backend, so that a goroutine never
\* waits for a handler that has already returned.
HasRoomUnbuffered(r) == hpc[r] = "posting" /\ responses[r] = <<>> \* (mutant of HasRoom)
HasRoom(r) == Len(responses[r]) < Cardinality(HttpBackends)

Respond(r, b) ==
  /\ HasRoom(r)
  /\ GoPost(r, b, "reply", "done")
  /\ responses' = [responses EXCEPT ![r] = Append(@, result[r][b])]
  /\ UNCHANGED <<handlerVars, result, bufferVars, history>>

AllPostedButOne(r) == \E b \in HttpBackends : post[r][b] = "done" \* (mutant of AllPosted)
AllPosted(r) == \A b \in HttpBackends : post[r][b] = "done"

\* wg.Wait, close(responses), putBuf(outBuf).
CloseResponses(r) ==
  /\ out[r] # None /\ r \notin closed
  /\ AllPosted(r)
  /\ closed' = closed \cup {r}
  /\ pool' = pool \cup {out[r]}
  /\ UNCHANGED <<handlerVars, postVars, out, bytes, history>>

(***************************************************************************)
(* The handler's loop over the answers                                     *)
(***************************************************************************)

\* The answer that ends the loop, or None to hold a 5xx back and go on.
VerdictOfFirst(res) == CASE res = "2xx" -> "204" [] res = "4xx" -> "4xx"
                         [] OTHER -> "5xx" \* (mutant of Verdict)
Verdict(res) ==
  CASE res = "2xx" -> "204" [] res = "4xx" -> "4xx" [] OTHER -> None

Receive(r) ==
  /\ hpc[r] = "posting" /\ responses[r] # <<>>
  /\ responses' = [responses EXCEPT ![r] = Tail(@)]
  /\ LET a == Verdict(Head(responses[r])) IN
       IF a = None
         THEN /\ errResponse' = [errResponse EXCEPT ![r] = TRUE]
              /\ UNCHANGED <<hpc, answer>>
         ELSE /\ GoH(r, "posting", "returned") /\ Answer(r, a)
              /\ UNCHANGED errResponse
  /\ UNCHANGED <<post, result, bufferVars, history>>

NoneSucceeded(r) ==
  /\ r \in closed /\ responses[r] = <<>>
  /\ GoH(r, "posting", "returned")
  /\ Answer(r, IF errResponse[r] THEN "5xx" ELSE "503")
  /\ UNCHANGED <<errResponse, postVars, bufferVars, history>>

PostStep(r, b) ==
  \/ SendsOnce(r, b) \/ SendsToQueue(r, b) \/ QueueFull(r, b)
  \/ BufferedAnswer(r, b) \/ Respond(r, b)

HandlerStep(r) ==
  \/ Refuse(r) \/ StartPosts(r) \/ Receive(r) \/ NoneSucceeded(r) \/ CloseResponses(r)

(***************************************************************************)
(* Properties                                                              *)
(***************************************************************************)

\* What the client of a write is told is true of every backend together: a 204
\* only if one of them stored the points, a 4xx only if one refused them, and
\* a failure (a held 5xx, or 503) only when no backend is still working on the
\* write and none accepted it - or the client would send it a second time.  The one
\* exception is a queued write whose post was told a later batch's answer when its own
\* was the opposite.
AnswersTrue ==
  \A r \in Requests :
    (Kind[r] = "write" /\ answer[r] # None) =>
      /\ answer[r] = "204" =>
           \E b \in HttpBackends : <<b, r, r>> \in stored \/ <<b, r>> \in misled
      /\ answer[r] = "4xx" =>
           \E b \in HttpBackends :
             result[r][b] = "4xx" /\ (<<b, r, r>> \notin stored \/ <<b, r>> \in misled)
      /\ answer[r] \in {"5xx", "503"} =>
           /\ \A b \in HttpBackends : post[r][b] = "done" /\ result[r][b] \in {"5xx", "error"}
           /\ (answer[r] = "503") = (\A b \in HttpBackends : result[r][b] = "error")

\* No backend ever stores the points of another request under this one's query
\* and credentials, although the buffer is shared through the pool and the
\* handler returns while slow posts still read it.
BytesStable == \A s \in stored : s[2] = s[3]

==============================================================================
