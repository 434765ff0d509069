-------------------------- MODULE RelayServiceProofs --------------------------
(* Proofs about RelayService, for every number of requests, backends and     *)
(* buffers, every packet and every MTU.                                      *)
EXTENDS RelayService, FiniteSetTheorems, WellFoundedInduction, TLAPS

\* The types that HttpTypeOK leaves to its readers.
HttpTypes ==
  /\ hpc \in [Requests -> {"absent", "arrived", "posting", "returned"}]
  /\ answer \in [Requests -> {None, "204", "400", "404", "405", "4xx", "500",
                              "503", "5xx", "dropped"}]
  /\ errResponse \in [Requests -> BOOLEAN]
  /\ post \in [Requests -> [HttpBackends -> {"none", "sending", "queued", "reply", "done"}]]
  /\ result \in [Requests -> [HttpBackends -> {None, "2xx", "4xx", "5xx", "error"}]]
  /\ responses \in [Requests -> Seq({"2xx", "4xx", "5xx"})]
  /\ out \in [Requests -> Buffers \cup {None}]
  /\ closed \subseteq Requests /\ pool \subseteq Buffers
  /\ bytes \in [Buffers -> Requests \cup {None}]

Replied == {"2xx", "4xx", "5xx"}

\* A post that waits to respond has something to say, and there is room for it.
PostTypes ==
  \A r \in Requests :
    /\ Len(responses[r]) <= Cardinality(HttpBackends)
    /\ \A b \in HttpBackends : post[r][b] = "reply" => result[r][b] \in Replied

LEMMA BackendsCounted == Cardinality(HttpBackends) \in Nat
  BY BackendsAssumption, FS_CardinalityType

LEMMA RefusalType ==
  \A r \in Requests : Kind[r] # "write" =>
    Refusal[Kind[r]] \in {"204", "400", "404", "405", "500", "dropped"}
<1>1. DOMAIN Refusal = {"ping", "badPath", "options", "badMethod", "noDatabase", "badGzip",
                        "unreadable", "unparsable"}
  BY DEF Refusal
<1> QED
  BY <1>1, KindAssumption DEF Refusal

\* A step of a handler or a post keeps the types.
LEMMA HttpTypesKept ==
  ASSUME HttpTypes, PostTypes, NEW r \in Requests,
         \/ RequestArrives(r) \/ HandlerStep(r) \/ \E b \in HttpBackends : PostStep(r, b)
  PROVE  HttpTypes' /\ PostTypes'
<1> USE DEF HttpTypes, GoH, GoPost, Answer, handlerVars, postVars, bufferVars
<1>0. Cardinality(HttpBackends) \in Nat
  BY BackendsCounted
<1>1. CASE RequestArrives(r)
  BY <1>1 DEF RequestArrives, PostTypes
<1>2. CASE Refuse(r)
  <2>1. Refusal[Kind[r]] \in {"204", "400", "404", "405", "500", "dropped"}
    BY <1>2, RefusalType DEF Refuse
  <2> QED
    BY <1>2, <2>1 DEF Refuse, PostTypes
<1>3. CASE StartPosts(r)
  BY <1>3 DEF StartPosts, PostTypes
<1>4. CASE Receive(r)
  <2>1. responses[r] \in Seq(Replied) /\ responses[r] # <<>>
    BY <1>4 DEF Receive, Replied
  <2>2. /\ Tail(responses[r]) \in Seq(Replied)
        /\ Len(Tail(responses[r])) = Len(responses[r]) - 1
        /\ Len(responses[r]) \in Nat
    BY <2>1
  <2>3. responses' \in [Requests -> Seq(Replied)]
    BY <1>4, <2>2 DEF Receive, Replied
  <2>4. \A q \in Requests : Len(responses'[q]) <= Cardinality(HttpBackends)
    BY <1>4, <1>0, <2>2 DEF Receive, PostTypes
  <2>5. /\ hpc' \in [Requests -> {"absent", "arrived", "posting", "returned"}]
        /\ answer' \in [Requests -> {None, "204", "400", "404", "405", "4xx", "500",
                              "503", "5xx", "dropped"}]
        /\ errResponse' \in [Requests -> BOOLEAN]
    BY <1>4 DEF Receive, Verdict
  <2> QED
    BY <1>4, <2>3, <2>4, <2>5 DEF Receive, PostTypes, Replied
<1>5. CASE NoneSucceeded(r)
  BY <1>5 DEF NoneSucceeded, PostTypes
<1>6. CASE CloseResponses(r)
  BY <1>6 DEF CloseResponses, PostTypes
<1>7. ASSUME NEW b \in HttpBackends, PostStep(r, b) PROVE HttpTypes' /\ PostTypes'
  <2>1. CASE SendsOnce(r, b)
    BY <2>1 DEF SendsOnce, PostTypes, Replied
  <2>2. CASE SendsToQueue(r, b)
    BY <2>2 DEF SendsToQueue, PostTypes
  <2>3. CASE QueueFull(r, b)
    BY <2>3 DEF QueueFull, PostTypes
  <2>4. CASE BufferedAnswer(r, b)
    <3>1. /\ post' = [post EXCEPT ![r][b] = "reply"]
          /\ \E told \in {"2xx", "4xx"} : result' = [result EXCEPT ![r][b] = told]
          /\ UNCHANGED <<handlerVars, responses, bufferVars>>
      BY <2>4 DEF BufferedAnswer
    <3> QED
      BY <3>1 DEF PostTypes, Replied
  <2>5. CASE Respond(r, b)
    <3>1. result[r][b] \in Replied /\ responses[r] \in Seq(Replied)
      BY <2>5 DEF Respond, PostTypes, Replied
    <3>2. /\ Append(responses[r], result[r][b]) \in Seq(Replied)
          /\ Len(Append(responses[r], result[r][b])) = Len(responses[r]) + 1
      BY <3>1
    <3>3. responses' \in [Requests -> Seq(Replied)]
      BY <2>5, <3>2 DEF Respond, Replied
    <3>4. \A q \in Requests : Len(responses'[q]) <= Cardinality(HttpBackends)
      BY <2>5, <1>0, <3>2 DEF Respond, HasRoom, PostTypes
    <3> QED
      BY <2>5, <3>3, <3>4 DEF Respond, PostTypes, Replied
  <2> QED
    BY <1>7, <2>1, <2>2, <2>3, <2>4, <2>5 DEF PostStep
<1> QED
  BY <1>1, <1>2, <1>3, <1>4, <1>5, <1>6, <1>7 DEF HandlerStep

(***************************************************************************)
(* Buffers                                                                 *)
(***************************************************************************)

\* A request that has not come to its posts has no trace of them.
Fresh(r) ==
  /\ r \notin closed /\ out[r] = None /\ answer[r] = None /\ ~errResponse[r]
  /\ responses[r] = <<>>
  /\ \A b \in HttpBackends : post[r][b] = "none" /\ result[r][b] = None

Holds(r) == out[r] # None /\ r \notin closed

\* Whoever still reads a buffer holds it alone: it is not in the pool, and has the
\* points of its holder.
BufferInv ==
  \A r \in Requests :
    /\ hpc[r] \in {"absent", "arrived"} => Fresh(r)
    /\ Holds(r) => out[r] \notin pool /\ bytes[out[r]] = r
    /\ r \in closed => AllPosted(r)
    /\ \A b \in HttpBackends : post[r][b] \in {"sending", "queued", "reply"} => Holds(r)

LEMMA BufferInvKept ==
  ASSUME HttpTypes, BufferInv, BytesStable, NEW r \in Requests,
         \/ RequestArrives(r) \/ HandlerStep(r) \/ \E b \in HttpBackends : PostStep(r, b)
  PROVE  BufferInv' /\ BytesStable'
<1> USE NoneAssumption
    DEF HttpTypes, GoH, GoPost, Answer, handlerVars, postVars, bufferVars, history, BufferInv,
        BytesStable, Fresh, Holds, AllPosted
<1>1. CASE RequestArrives(r)
  BY <1>1 DEF RequestArrives
<1>2. CASE Refuse(r)
  BY <1>2 DEF Refuse
<1>3. CASE StartPosts(r)
  BY <1>3 DEF StartPosts
<1>4. CASE Receive(r)
  BY <1>4 DEF Receive
<1>5. CASE NoneSucceeded(r)
  BY <1>5 DEF NoneSucceeded
<1>6. CASE CloseResponses(r)
  BY <1>6 DEF CloseResponses
<1>7. ASSUME NEW b \in HttpBackends, PostStep(r, b) PROVE BufferInv' /\ BytesStable'
  <2>1. Holds(r) /\ bytes[out[r]] = r
    BY <1>7 DEF PostStep, SendsOnce, SendsToQueue, QueueFull, BufferedAnswer, Respond
  <2>2. UNCHANGED <<hpc, answer, errResponse, bufferVars>>
    BY <1>7 DEF PostStep, SendsOnce, SendsToQueue, QueueFull, BufferedAnswer, Respond
  <2>3. \E to \in {"queued", "reply", "done"} : post' = [post EXCEPT ![r][b] = to]
    BY <1>7 DEF PostStep, SendsOnce, SendsToQueue, QueueFull, BufferedAnswer, Respond
  <2>4. stored' = stored \/ Store(r, b)
    BY <1>7 DEF PostStep, SendsOnce, SendsToQueue, QueueFull, BufferedAnswer, Respond
  <2>5. BytesStable'
    BY <2>1, <2>4 DEF Store
  <2>6. \A q \in Requests \ {r} : responses'[q] = responses[q] /\ result'[q] = result[q]
    BY <1>7 DEF PostStep, SendsOnce, SendsToQueue, QueueFull, BufferedAnswer, Respond
  <2>7. BufferInv'
    BY <2>1, <2>2, <2>3, <2>6
  <2> QED
    BY <2>5, <2>7
<1> QED
  BY <1>1, <1>2, <1>3, <1>4, <1>5, <1>6, <1>7 DEF HandlerStep

(***************************************************************************)
(* Answers                                                                 *)
(***************************************************************************)

Stored(b, r) == <<b, r, r>> \in stored
Misled(b, r) == <<b, r>> \in misled

\* A result is known once the post has come back; a 2xx means stored and a 4xx not
\* stored, but for a post that was told another batch's answer.
Results(r) ==
  \A b \in HttpBackends :
    /\ post[r][b] \in {"none", "sending", "queued"} => result[r][b] = None /\ ~Stored(b, r)
    /\ post[r][b] = "done" => result[r][b] \in Replied \cup {"error"}
    /\ result[r][b] = "2xx" => Stored(b, r) \/ Misled(b, r)
    /\ result[r][b] = "4xx" => ~Stored(b, r) \/ Misled(b, r)

\* What is in the channel, or held back, was said by a backend.
Reported(r) ==
  /\ \A i \in 1..Len(responses[r]) :
       \E b \in HttpBackends : post[r][b] = "done" /\ result[r][b] = responses[r][i]
  /\ errResponse[r] => \E b \in HttpBackends : post[r][b] = "done" /\ result[r][b] = "5xx"

\* Until the handler has answered, whatever a backend said is in the channel or is a
\* 5xx it has read; an error is not reported.
Accounted(r) ==
  hpc[r] = "posting" =>
    \A b \in HttpBackends :
      post[r][b] = "done" =>
        \/ result[r][b] = "error"
        \/ \E i \in 1..Len(responses[r]) : responses[r][i] = result[r][b]
        \/ result[r][b] = "5xx" /\ errResponse[r]

Told(r) ==
  (Kind[r] = "write" /\ answer[r] # None) =>
    /\ answer[r] = "204" => \E b \in HttpBackends : Stored(b, r) \/ Misled(b, r)
    /\ answer[r] = "4xx" =>
         \E b \in HttpBackends : result[r][b] = "4xx" /\ (~Stored(b, r) \/ Misled(b, r))
    /\ answer[r] \in {"5xx", "503"} =>
         /\ \A b \in HttpBackends : post[r][b] = "done" /\ result[r][b] \in {"5xx", "error"}
         /\ (answer[r] = "503") = (\A b \in HttpBackends : result[r][b] = "error")

Own(r) == Results(r) /\ Reported(r) /\ Accounted(r) /\ Told(r)

\* What the others do leaves a request's part of the invariant as it was.
LEMMA OwnKept ==
  ASSUME NEW q, Own(q),
         \A b \in HttpBackends : (Stored(b, q)' <=> Stored(b, q)) /\ (Misled(b, q)' <=> Misled(b, q)),
         hpc'[q] = hpc[q], answer'[q] = answer[q], errResponse'[q] = errResponse[q],
         post'[q] = post[q], result'[q] = result[q], responses'[q] = responses[q]
  PROVE  Own(q)'
<1>1. Results(q)'
  BY DEF Own, Results
<1>2. Reported(q)'
  BY DEF Own, Reported
<1>3. Accounted(q)'
  BY DEF Own, Accounted
<1>4. Told(q)'
  BY DEF Own, Told
<1> QED
  BY <1>1, <1>2, <1>3, <1>4 DEF Own

\* A handler's answer is true when it gives it.
LEMMA HandlerOwn ==
  ASSUME HttpTypes, BufferInv, NEW r \in Requests, Own(r), HandlerStep(r)
  PROVE  Own(r)'
<1> USE NoneAssumption DEF history, Stored, Misled, HttpTypes, GoH, Answer, handlerVars, postVars, bufferVars
<1>1. CASE Refuse(r)
  <2>1. Kind[r] # "write" /\ UNCHANGED <<errResponse, postVars, bufferVars, history>>
    BY <1>1 DEF Refuse
  <2>2. hpc'[r] = "returned"
    BY <1>1 DEF Refuse
  <2> QED
    BY <2>1, <2>2 DEF Own, Results, Reported, Accounted, Told
<1>2. CASE StartPosts(r)
  <2>1. Fresh(r)
    BY <1>2 DEF StartPosts, BufferInv
  <2>2. /\ \A b \in HttpBackends : post'[r][b] = "sending"
        /\ UNCHANGED <<answer, errResponse, result, responses, history>>
    BY <1>2 DEF StartPosts
  <2> QED
    BY <2>1, <2>2 DEF Fresh, Own, Results, Reported, Accounted, Told
<1>3. CASE Receive(r)
  <2> DEFINE s == responses[r]
  <2>1. /\ s \in Seq(Replied) /\ s # <<>> /\ hpc[r] = "posting"
        /\ responses'[r] = Tail(s) /\ UNCHANGED <<post, result, history>>
    BY <1>3 DEF Receive, Replied
  <2>2. /\ Len(s) \in Nat \ {0} /\ Len(Tail(s)) = Len(s) - 1
        /\ \A i \in 1..Len(Tail(s)) : Tail(s)[i] = s[i + 1]
        /\ Head(s) = s[1] /\ s[1] \in Replied
    BY <2>1 DEF Replied
  <2>3. PICK b0 \in HttpBackends : post[r][b0] = "done" /\ result[r][b0] = s[1]
    BY <2>2 DEF Own, Reported
  <2>4. CASE s[1] = "5xx"
    <3>1. hpc'[r] = hpc[r] /\ answer'[r] = answer[r] /\ errResponse'[r]
      BY <1>3, <2>2, <2>4 DEF Receive, Verdict
    <3>2. Results(r)' /\ Told(r)'
      BY <2>1, <3>1 DEF Own, Results, Told
    <3>3. Reported(r)'
      BY <2>1, <2>2, <2>3, <2>4 DEF Own, Reported
    <3>4. ASSUME NEW b \in HttpBackends, post[r][b] = "done",
                 NEW i \in 1..Len(s), s[i] = result[r][b]
          PROVE  \/ \E k \in 1..Len(Tail(s)) : Tail(s)[k] = result[r][b]
                 \/ result[r][b] = "5xx"
      <4>1. CASE i = 1
        BY <3>4, <4>1, <2>4
      <4>2. CASE i # 1
        <5>1. i - 1 \in 1..Len(Tail(s)) /\ Tail(s)[i - 1] = s[i]
          BY <2>2, <4>2
        <5> QED
          BY <5>1, <3>4
      <4> QED
        BY <4>1, <4>2
    <3>5. Accounted(r)'
      <4>1. ASSUME NEW b \in HttpBackends, post[r][b] = "done"
            PROVE  \/ result[r][b] = "error"
                   \/ \E k \in 1..Len(Tail(s)) : Tail(s)[k] = result[r][b]
                   \/ result[r][b] = "5xx"
        <5>1. \/ result[r][b] = "error" \/ result[r][b] = "5xx"
              \/ \E i \in 1..Len(s) : s[i] = result[r][b]
          BY <2>1, <4>1 DEF Own, Accounted
        <5> QED
          BY <3>4, <4>1, <5>1
      <4> HIDE DEF s
      <4> QED
        BY <2>1, <3>1, <4>1 DEF Accounted
    <3> QED
      BY <3>2, <3>3, <3>5 DEF Own
  <2>5. CASE s[1] \in {"2xx", "4xx"}
    <3>1. /\ hpc'[r] = "returned" /\ UNCHANGED errResponse
          /\ answer'[r] = IF s[1] = "2xx" THEN "204" ELSE "4xx"
      BY <1>3, <2>2, <2>5 DEF Receive, Verdict
    <3>2. Results(r)' /\ Accounted(r)'
      BY <2>1, <3>1 DEF Own, Results, Accounted
    <3>3. Reported(r)'
      BY <2>1, <2>2, <3>1 DEF Own, Reported
    <3>4. Told(r)'
      BY <2>1, <2>3, <2>5, <3>1 DEF Own, Results, Told
    <3> QED
      BY <3>2, <3>3, <3>4 DEF Own
  <2> QED
    BY <2>2, <2>4, <2>5 DEF Replied
<1>4. CASE NoneSucceeded(r)
  <2>1. /\ \A b \in HttpBackends : post[r][b] = "done"
        /\ responses[r] = <<>> /\ hpc[r] = "posting" /\ hpc'[r] = "returned"
        /\ answer'[r] = IF errResponse[r] THEN "5xx" ELSE "503"
        /\ UNCHANGED <<errResponse, postVars, history>>
    BY <1>4 DEF NoneSucceeded, BufferInv, AllPosted
  <2>2. Results(r)' /\ Reported(r)' /\ Accounted(r)'
    BY <2>1 DEF Own, Results, Reported, Accounted
  <2>3. \A b \in HttpBackends :
          result[r][b] = "error" \/ (result[r][b] = "5xx" /\ errResponse[r])
    BY <2>1 DEF Own, Accounted
  <2>4. errResponse[r] => \E b \in HttpBackends : result[r][b] = "5xx"
    BY DEF Own, Reported
  <2>5. Told(r)'
    BY <2>1, <2>3, <2>4 DEF Told
  <2> QED
    BY <2>2, <2>5 DEF Own
<1>5. CASE CloseResponses(r)
  BY <1>5, OwnKept DEF CloseResponses
<1> QED
  BY <1>1, <1>2, <1>3, <1>4, <1>5 DEF HandlerStep

\* A post that comes back late leaves what the client was told true.
LEMMA PostOwn ==
  ASSUME HttpTypes, PostTypes, BufferInv, NEW r \in Requests, Own(r),
         NEW b \in HttpBackends, PostStep(r, b)
  PROVE  Own(r)'
<1>1. /\ bytes[out[r]] = r /\ post[r][b] # "done" /\ UNCHANGED <<hpc, answer, errResponse>>
      /\ stored' = stored \/ stored' = stored \cup {<<b, r, r>>}
      /\ misled' = misled \/ misled' = misled \cup {<<b, r>>}
  BY DEF PostStep, SendsOnce, SendsToQueue, QueueFull, BufferedAnswer, Respond, BufferInv,
         Store, HttpTypes, GoPost, handlerVars, postVars, bufferVars, history
<1>6. \A c \in HttpBackends :
        /\ c # b => (Stored(c, r)' <=> Stored(c, r)) /\ (Misled(c, r)' <=> Misled(c, r))
        /\ Stored(c, r) => Stored(c, r)'
        /\ Misled(c, r) => Misled(c, r)'
  BY <1>1 DEF Stored, Misled
<1>2. \A c \in HttpBackends \ {b} : post'[r][c] = post[r][c] /\ result'[r][c] = result[r][c]
  BY DEF PostStep, SendsOnce, SendsToQueue, QueueFull, BufferedAnswer, Respond, HttpTypes, GoPost,
       handlerVars, postVars, bufferVars
<1>5. \A c \in HttpBackends :
        post[r][c] = "done" => post'[r][c] = "done" /\ result'[r][c] = result[r][c]
  BY <1>1, <1>2
<1>3. CASE ~Respond(r, b)
  <2>1. /\ UNCHANGED responses /\ post[r][b] \in {"sending", "queued"}
        /\ post'[r][b] = "done" => result'[r][b] = "error"
        /\ post'[r][b] \in {"queued", "reply", "done"}
        /\ post'[r][b] = "queued" => result'[r][b] = result[r][b]
        /\ post'[r][b] = "queued" => UNCHANGED history
    BY <1>1, <1>3 DEF PostStep, SendsOnce, SendsToQueue, QueueFull, BufferedAnswer, Store,
           HttpTypes, GoPost, handlerVars, postVars, bufferVars
  <2>7. /\ result'[r][b] = "2xx" => result[r][b] = "2xx" \/ Stored(b, r)' \/ Misled(b, r)'
        /\ result'[r][b] = "4xx" => result[r][b] = "4xx" \/ stored' = stored \/ Misled(b, r)'
    BY <1>1, <1>3 DEF PostStep, SendsOnce, SendsToQueue, QueueFull, BufferedAnswer, Store,
           Stored, Misled, HttpTypes, GoPost, handlerVars, postVars, bufferVars, history
  <2>2. result[r][b] = None /\ ~Stored(b, r)
    BY <2>1 DEF Own, Results
  <2>3. Results(r)'
    <3>1. UNCHANGED history \/ stored' = stored => ~Stored(b, r)'
      BY <2>2 DEF Stored, history
    <3>2. QED
      BY NoneAssumption, <1>2, <1>6, <2>1, <2>2, <2>7, <3>1 DEF Own, Results
  <2>4. Reported(r)'
    BY <1>1, <1>5, <2>1 DEF Own, Reported
  <2>5. Accounted(r)'
    BY <1>1, <1>2, <2>1 DEF Own, Accounted
  <2>6. Told(r)'
    BY NoneAssumption, <1>1, <1>2, <1>6, <2>1, <2>2 DEF Own, Told
  <2> QED
    BY <2>3, <2>4, <2>5, <2>6 DEF Own
<1>4. CASE Respond(r, b)
  <2> DEFINE s == responses[r]
  <2>1. /\ post[r][b] = "reply" /\ post'[r][b] = "done" /\ UNCHANGED <<result, stored, misled>>
        /\ responses'[r] = Append(s, result[r][b])
    BY <1>4 DEF Respond, HttpTypes, GoPost, history,
           handlerVars, postVars, bufferVars
  <2>2. result[r][b] \in Replied /\ s \in Seq(Replied)
    BY <2>1 DEF PostTypes, Replied, HttpTypes
  <2>3. /\ Len(Append(s, result[r][b])) = Len(s) + 1 /\ Len(s) \in Nat
        /\ \A i \in 1..Len(s) : Append(s, result[r][b])[i] = s[i]
        /\ Append(s, result[r][b])[Len(s) + 1] = result[r][b]
    BY <2>2
  <2>4. Results(r)'
    BY <1>1, <1>2, <2>1, <2>2 DEF Own, Results, Stored, Misled
  <2>5. Reported(r)'
    <3>1. ASSUME NEW i \in 1..(Len(s) + 1)
          PROVE  \E c \in HttpBackends :
                   post'[r][c] = "done" /\ result[r][c] = Append(s, result[r][b])[i]
      <4>1. CASE i = Len(s) + 1
        BY <2>1, <2>3, <4>1
      <4>2. CASE i \in 1..Len(s)
        <5>1. PICK c \in HttpBackends : post[r][c] = "done" /\ result[r][c] = s[i]
          BY <4>2 DEF Own, Reported
        <5> QED
          BY <1>5, <2>3, <4>2, <5>1
      <4> QED
        BY <2>3, <4>1, <4>2
    <3> QED
      BY <1>1, <1>5, <2>1, <2>3, <3>1 DEF Own, Reported
  <2>6. Accounted(r)'
    <3>1. ASSUME NEW c \in HttpBackends, NEW i \in 1..Len(s), s[i] = result[r][c]
          PROVE  \E k \in 1..Len(responses'[r]) : responses'[r][k] = result[r][c]
      <4>1. i \in 1..Len(responses'[r]) /\ responses'[r][i] = s[i]
        BY <2>1, <2>3
      <4> QED
        BY <3>1, <4>1
    <3>2. \E k \in 1..Len(responses'[r]) : responses'[r][k] = result[r][b]
      BY <2>1, <2>3
    <3> QED
      BY <1>1, <1>2, <2>1, <3>1, <3>2 DEF Own, Accounted
  <2>7. Told(r)'
    BY <1>1, <1>2, <2>1 DEF Own, Told, Stored, Misled
  <2> QED
    BY <2>4, <2>5, <2>6, <2>7 DEF Own
<1> QED
  BY <1>3, <1>4

(***************************************************************************)
(* The UDP relay                                                           *)
(***************************************************************************)

UdpTypes ==
  /\ upc \in {"made", "reading", "draining", "returned"}
  /\ listening \in BOOLEAN /\ idle \in BOOLEAN
  /\ inbox \subseteq Packets
  /\ queue \in Seq(Packets) /\ Len(queue) <= QueueSize
  /\ current \in [packet : Packets, backend : 1..(Len(UdpBackends) + 1), line : {current.line}]
  /\ read \in Seq(Packets) /\ posted \subseteq Packets

\* A packet that was read is in the queue, in the poster's hands or posted, and Run
\* returns only when the former two are empty.
InHand == IF idle THEN {} ELSE {current.packet}
DrainInv ==
  /\ ToSet(read) \subseteq posted \cup ToSet(queue) \cup InHand
  /\ upc = "returned" => queue = <<>> /\ idle

\* The elements of a queue after an arrival and after a departure.
LEMMA QueueElements ==
  ASSUME NEW S, NEW s \in Seq(S), NEW x \in S
  PROVE  /\ Append(s, x) \in Seq(S) /\ Len(Append(s, x)) = Len(s) + 1
         /\ ToSet(Append(s, x)) = ToSet(s) \cup {x}
         /\ s # <<>> => /\ Head(s) \in S /\ Tail(s) \in Seq(S) /\ Len(Tail(s)) = Len(s) - 1
                        /\ ToSet(s) = {Head(s)} \cup ToSet(Tail(s))
<1>1. /\ Append(s, x) \in Seq(S) /\ Len(Append(s, x)) = Len(s) + 1
      /\ s # <<>> => Head(s) \in S /\ Tail(s) \in Seq(S) /\ Len(Tail(s)) = Len(s) - 1
  OBVIOUS
<1>2. ToSet(Append(s, x)) = ToSet(s) \cup {x}
  <2>1. /\ \A i \in 1..Len(s) : Append(s, x)[i] = s[i]
        /\ Append(s, x)[Len(s) + 1] = x /\ Len(s) \in Nat
        /\ DOMAIN Append(s, x) = 1..(Len(s) + 1) /\ DOMAIN s = 1..Len(s)
    OBVIOUS
  <2>2. \A i \in 1..(Len(s) + 1) : i \in 1..Len(s) \/ i = Len(s) + 1
    BY <2>1
  <2> QED
    BY <2>1, <2>2 DEF ToSet
<1>3. ASSUME s # <<>> PROVE ToSet(s) = {Head(s)} \cup ToSet(Tail(s))
  <2>1. /\ Head(s) = s[1] /\ Len(s) \in Nat \ {0}
        /\ \A i \in 1..(Len(s) - 1) : Tail(s)[i] = s[i + 1]
        /\ DOMAIN Tail(s) = 1..(Len(s) - 1) /\ DOMAIN s = 1..Len(s)
    BY <1>3
  <2>2. \A i \in 1..Len(s) : i = 1 \/ (i - 1 \in 1..(Len(s) - 1) /\ Tail(s)[i - 1] = s[i])
    BY <2>1
  <2>3. ASSUME NEW i \in DOMAIN s PROVE s[i] \in {Head(s)} \cup ToSet(Tail(s))
    <3>1. CASE i = 1
      BY <2>1, <3>1
    <3>2. CASE i # 1
      <4>1. i - 1 \in DOMAIN Tail(s) /\ Tail(s)[i - 1] = s[i]
        BY <2>1, <2>2, <3>2
      <4> QED
        BY <4>1 DEF ToSet
    <3> QED
      BY <3>1, <3>2
  <2>4. 1 \in DOMAIN s /\ \A i \in DOMAIN Tail(s) : i + 1 \in DOMAIN s
    BY <2>1
  <2>5. {Head(s)} \cup ToSet(Tail(s)) \subseteq ToSet(s)
    BY <2>1, <2>4 DEF ToSet
  <2> QED
    BY <2>3, <2>5 DEF ToSet
<1> QED
  BY <1>1, <1>2, <1>3

LEMMA UdpKept ==
  ASSUME UdpTypes, DrainInv, UdpStep
  PROVE  UdpTypes' /\ DrainInv'
<1> USE PacketsAssumption, MTUAssumption, QueueAssumption
    DEF UdpTypes, DrainInv, InHand, GoU, queueVars
<1>1. CASE UdpRun
  BY <1>1 DEF UdpRun
<1>2. CASE ReadPacketFails
  BY <1>2 DEF ReadPacketFails
<1>3. CASE UdpReturns
  <2>1. queue = <<>> /\ idle
    BY <1>3 DEF UdpReturns, Pending
  <2> QED
    BY <1>3, <2>1 DEF UdpReturns
<1>4. CASE TakePacket
  <2>1. /\ queue # <<>> /\ idle /\ idle' = FALSE /\ queue' = Tail(queue)
        /\ current' = [packet |-> Head(queue), backend |-> 1, line |-> 1]
        /\ UNCHANGED <<upc, listening, inbox, datagrams, read, posted>>
    BY <1>4 DEF TakePacket
  <2>2. /\ Head(queue) \in Packets /\ Tail(queue) \in Seq(Packets)
        /\ Len(Tail(queue)) = Len(queue) - 1
        /\ ToSet(queue) = {Head(queue)} \cup ToSet(Tail(queue))
    BY <2>1, QueueElements
  <2>3. Len(queue) \in Nat /\ Len(UdpBackends) \in Nat
    OBVIOUS
  <2>4. current' \in [packet : Packets, backend : 1..(Len(UdpBackends) + 1), line : {current'.line}]
    BY <2>1, <2>2, <2>3
  <2>5. Len(queue') <= QueueSize
    BY <2>1, <2>2, <2>3
  <2>6. ToSet(queue) \cup InHand = ToSet(queue') \cup InHand'
    BY <2>1, <2>2
  <2>7. UdpTypes'
    BY <2>1, <2>2, <2>4, <2>5
  <2>8. DrainInv'
    BY <2>1, <2>6, Zenon
  <2> QED
    BY <2>7, <2>8
<1>5. CASE SendDatagram
  <2>1. UNCHANGED <<upc, listening, inbox, queue, idle, read, posted>> /\ ~idle
    BY <1>5 DEF SendDatagram
  <2>2. \/ \E x : current' = [current EXCEPT !.line = x]
        \/ current' = [current EXCEPT !.backend = @ + 1, !.line = 1]
    BY <1>5 DEF SendDatagram, NextBackend
  <2>3. current.backend <= Len(UdpBackends) /\ Len(UdpBackends) \in Nat
    BY <1>5 DEF SendDatagram
  <2>4. /\ current' \in [packet : Packets, backend : 1..(Len(UdpBackends) + 1),
                          line : {current'.line}]
        /\ current'.packet = current.packet
    <3>1. current.packet \in Packets /\ current.backend \in 1..(Len(UdpBackends) + 1)
      OBVIOUS
    <3>2. CASE \E x : current' = [current EXCEPT !.line = x]
      BY <3>1, <3>2
    <3>3. CASE current' = [current EXCEPT !.backend = @ + 1, !.line = 1]
      <4>1. current.backend + 1 \in 1..(Len(UdpBackends) + 1)
        BY <2>3, <3>1
      <4> QED
        BY <3>1, <3>3, <4>1
    <3> QED
      BY <2>2, <3>2, <3>3
  <2> QED
    BY <2>1, <2>4
<1>6. CASE PacketDone
  BY <1>6 DEF PacketDone
<1>7. ASSUME NEW p \in Packets, ReadPacket(p) PROVE UdpTypes' /\ DrainInv'
  <2>1. /\ Append(queue, p) \in Seq(Packets) /\ Len(Append(queue, p)) = Len(queue) + 1
        /\ ToSet(Append(queue, p)) = ToSet(queue) \cup {p}
        /\ Append(read, p) \in Seq(Packets)
        /\ ToSet(Append(read, p)) = ToSet(read) \cup {p}
    BY QueueElements
  <2>2. Len(queue) \in Nat
    OBVIOUS
  <2> QED
    BY <1>7, <2>1, <2>2 DEF ReadPacket, QueueHasRoom
<1>8. ASSUME NEW p \in Packets, PacketLost(p) PROVE UdpTypes' /\ DrainInv'
  BY <1>8 DEF PacketLost
<1> QED
  BY <1>1, <1>2, <1>3, <1>4, <1>5, <1>6, <1>7, <1>8 DEF UdpStep, PosterStep

(***************************************************************************)
(* The datagrams                                                           *)
(***************************************************************************)

\* Induction over the naturals, about a set of them.
LEMMA SetInduction ==
  ASSUME NEW S, 0 \in S, \A n \in Nat : n \in S => n + 1 \in S
  PROVE  Nat \subseteq S
<1> DEFINE R == {p \in Nat \X Nat : p[1] < p[2]}
           T == {n \in Nat : n \notin S}
<1>1. IsWellFoundedOn(R, Nat)
  BY NatLessThanWellFounded DEF OpToRel
<1>2. SUFFICES ASSUME T # {} PROVE FALSE
  OBVIOUS
<1>3. PICK x \in T : \A y \in T : ~(<<y, x>> \in R)
  <2> HIDE DEF R, T
  <2>1. T \subseteq Nat
    BY DEF T
  <2>2. QED
    BY <1>1, <1>2, <2>1, WFMin, Zenon
<1>4. x \in Nat /\ x - 1 \in Nat /\ x - 1 + 1 = x
  OBVIOUS
<1>5. x - 1 \in T
  BY <1>4
<1>6. <<x - 1, x>> \in Nat \X Nat /\ x - 1 < x
  BY <1>4
<1>7. <<x - 1, x>> \in R
  BY <1>6
<1>8. QED
  BY <1>3, <1>5, <1>7

\* A set of numbers that is bounded and not empty has a greatest.
LEMMA MaxIs ==
  ASSUME NEW n \in Nat, NEW T, T \subseteq 0..n, T # {}
  PROVE  Max(T) \in T /\ \A y \in T : y <= Max(T)
<1> DEFINE S == {m \in Nat : (\E y \in T : n - m <= y) => \E x \in T : \A y \in T : y <= x}
<1>1. 0 \in S
  OBVIOUS
<1>2. ASSUME NEW m \in Nat, m \in S
      PROVE  m + 1 \in S
  <2>1. SUFFICES ASSUME NEW z \in T, n - (m + 1) <= z
                 PROVE  \E x \in T : \A y \in T : y <= x
    OBVIOUS
  <2>2. CASE \E y \in T : n - m <= y
    BY <1>2, <2>2
  <2>3. CASE ~\E y \in T : n - m <= y
    <3>1. \A y \in T : y <= z
      BY <2>1, <2>3
    <3>2. QED
      BY <3>1
  <2>4. QED
    BY <2>2, <2>3
<1>3. Nat \subseteq S
  <2> HIDE DEF S
  <2>1. QED
    BY <1>1, <1>2, SetInduction
<1>4. n \in S
  <2> HIDE DEF S
  <2>1. QED
    BY <1>3
<1>5. PICK x \in T : \A y \in T : y <= x
  <2>1. \E y \in T : n - n <= y
    <3>1. PICK y : y \in T
      OBVIOUS
    <3>2. n - n = 0 /\ 0 <= y
      BY <3>1
    <3>3. QED
      BY <3>1, <3>2
  <2>2. QED
    BY <1>4, <2>1
<1>6. x \in T /\ \A y \in T : x >= y
  BY <1>5
<1>7. Max(T) \in T /\ \A y \in T : Max(T) >= y
  BY <1>6 DEF Max
<1>8. QED
  BY <1>7

\* No line has no bytes.
LEMMA LengthEmpty ==
  ASSUME NEW p, NEW i \in Nat
  PROVE  Length(p, i, i - 1) = 0
<1> DEFINE D == (i - 1)..(i - 1)
           Upto(f) == f = [k \in D |-> IF k = i - 1 THEN 0 ELSE f[k - 1] + Lines[p][k]]
           f0 == [k \in D |-> 0]
<1>1. \A k \in D : k = i - 1
  OBVIOUS
<1>2. Upto(f0)
  <2>1. [k \in D |-> IF k = i - 1 THEN 0 ELSE f0[k - 1] + Lines[p][k]] = [k \in D |-> 0]
    BY <1>1
  <2> QED
    BY <2>1
<1>3. Upto(CHOOSE f : Upto(f))
  <2> HIDE DEF Upto, f0
  <2> QED
    BY <1>2
<1>4. i - 1 \in D
  OBVIOUS
<1>5. (CHOOSE f : Upto(f))[i - 1] = 0
  <2> DEFINE g == CHOOSE f : Upto(f)
  <2>1. g = [k \in D |-> IF k = i - 1 THEN 0 ELSE g[k - 1] + Lines[p][k]]
    BY <1>3
  <2> HIDE DEF g
  <2>2. g[i - 1] = 0
    BY <1>4, <2>1
  <2> QED
    BY <2>2 DEF g
<1> QED
  BY <1>5 DEF Length

\* The run of lines that is chosen fits, be it empty.
LEMMA LastFits ==
  ASSUME NEW p \in Packets, NEW i \in 1..(Len(Lines[p]) + 1), NEW mtu \in Nat
  PROVE  /\ LastFitting(p, i, mtu) \in (i - 1)..Len(Lines[p])
         /\ Length(p, i, LastFitting(p, i, mtu)) <= mtu
<1> DEFINE T == {i - 1} \cup {j \in i..Len(Lines[p]) : Length(p, i, j) <= mtu}
<1>1. Len(Lines[p]) \in Nat
  BY LinesAssumption
<1>2. T \subseteq 0..Len(Lines[p]) /\ T # {} /\ T \subseteq (i - 1)..Len(Lines[p])
  BY <1>1
<1>3. \A j \in T : Length(p, i, j) <= mtu
  <2>1. Length(p, i, i - 1) <= mtu
    BY <1>1, LengthEmpty
  <2> HIDE DEF Length
  <2> QED
    BY <2>1
<1>4. LastFitting(p, i, mtu) = Max(T)
  BY DEF LastFitting
<1> HIDE DEF T
<1>5. Max(T) \in T
  BY <1>1, <1>2, MaxIs
<1> QED
  BY <1>2, <1>3, <1>4, <1>5

\* A packet is read once, and the queue holds, in order, what was read and not yet taken.
Taken == Len(read) - Len(queue)
ReadsInv ==
  /\ IsInjective(read)
  /\ \A i \in 1..Len(read) : read[i] \notin inbox
  /\ Len(queue) <= Len(read)
  /\ \A i \in 1..Len(queue) : queue[i] = read[Taken + i]
  /\ ~idle => Taken >= 1 /\ current.packet = read[Taken]

\* What the poster would send next, if only one line of it.
Upcoming ==
  [to |-> UdpBackends[current.backend], packet |-> current.packet,
   first |-> current.line, last |-> current.line]

\* Datagrams are of packets taken from the queue; of the one in hand, its backends to
\* come have none, and the backend it is being sent to has its lines before the next one.
SentInv ==
  /\ datagrams \in Seq([to : DOMAIN MTU, packet : Packets, first : Nat, last : Nat])
  /\ current.line \in 1..(Len(Lines[current.packet]) + 1)
  /\ \A i \in 1..Len(datagrams) : \E k \in 1..Taken : read[k] = datagrams[i].packet
  /\ ~idle =>
       /\ \A i \in 1..Len(datagrams), n \in current.backend..Len(UdpBackends) :
            datagrams[i].packet = current.packet /\ datagrams[i].to = UdpBackends[n] =>
              n = current.backend /\ current.line > 1
       /\ current.line > 1 =>
            current.backend <= Len(UdpBackends) /\ Continues(Upcoming, 1..Len(datagrams))

PostInv == ReadsInv /\ SentInv /\ DatagramsSound

\* What concerns only the packets that are read keeps as more of them are.
LEMMA ReadBeforeKept ==
  ASSUME NEW p, NEW q, ReadBefore(p, q), Len(read) \in Nat, Len(read') \in Nat,
         Len(read) <= Len(read'), \A i \in 1..Len(read) : read'[i] = read[i]
  PROVE  ReadBefore(p, q)'
<1>1. PICK i \in 1..Len(read), j \in 1..Len(read) : i < j /\ read[i] = p /\ read[j] = q
  BY DEF ReadBefore
<1>2. i \in 1..Len(read') /\ j \in 1..Len(read') /\ read'[i] = p /\ read'[j] = q
  BY <1>1
<1> QED
  BY <1>1, <1>2 DEF ReadBefore

LEMMA SoundKept ==
  ASSUME DatagramsSound, UNCHANGED datagrams, Len(read) \in Nat, Len(read') \in Nat,
         Len(read) <= Len(read'), \A i \in 1..Len(read) : read'[i] = read[i]
  PROVE  DatagramsSound'
<1> SUFFICES ASSUME NEW j \in 1..Len(datagrams)
             PROVE  LET d == datagrams[j]
                    IN /\ Length(d.packet, d.first, d.last) <= MTU[d.to]
                       /\ \/ /\ d.first = 1
                             /\ \A i \in 1..(j - 1) : datagrams[i].to = d.to =>
                                  \E m, n \in 1..Len(read') :
                                    m < n /\ read'[m] = datagrams[i].packet /\ read'[n] = d.packet
                          \/ Continues(d, 1..(j - 1))
  BY DEF DatagramsSound, Starts, Continues, ReadBefore
<1>1. Starts(datagrams[j], 1..(j - 1)) \/ Continues(datagrams[j], 1..(j - 1))
  BY DEF DatagramsSound
<1>2. ASSUME NEW p, NEW q, ReadBefore(p, q)
      PROVE  \E m, n \in 1..Len(read') : m < n /\ read'[m] = p /\ read'[n] = q
  BY <1>2, ReadBeforeKept DEF ReadBefore
<1> QED
  BY <1>1, <1>2 DEF DatagramsSound, Starts

\* The relay reads another packet.
LEMMA ReadPacketPosts ==
  ASSUME UdpTypes, PostInv, NEW p \in Packets, ReadPacket(p)
  PROVE  PostInv'
<1>1. /\ p \in inbox /\ inbox' = inbox \ {p}
      /\ queue' = Append(queue, p) /\ read' = Append(read, p)
      /\ UNCHANGED <<upc, listening, current, idle, datagrams, posted>>
  BY DEF ReadPacket
<1>2. /\ queue \in Seq(Packets) /\ read \in Seq(Packets) /\ Len(queue) <= Len(read)
      /\ Len(queue) \in Nat /\ Len(read) \in Nat
  BY DEF UdpTypes, PostInv, ReadsInv
<1>3. /\ Len(queue') = Len(queue) + 1 /\ Len(read') = Len(read) + 1
      /\ \A i \in 1..Len(queue) : queue'[i] = queue[i]
      /\ \A i \in 1..Len(read) : read'[i] = read[i]
      /\ queue'[Len(queue) + 1] = p /\ read'[Len(read) + 1] = p
  BY <1>1, <1>2
<1>4. Taken' = Taken /\ Taken \in Nat /\ Taken + Len(queue) = Len(read)
  BY <1>2, <1>3 DEF Taken
<1>5. \A i \in 1..(Len(read) + 1) : i \in 1..Len(read) \/ i = Len(read) + 1
  BY <1>2
<1>6. \A i \in 1..Len(read) : read[i] # p
  BY <1>1 DEF PostInv, ReadsInv
<1>7. IsInjective(read')
  <2>1. DOMAIN read = 1..Len(read) /\ DOMAIN read' = 1..(Len(read) + 1)
    BY <1>1, <1>2
  <2>2. \A i, j \in 1..Len(read) : read[i] = read[j] => i = j
    BY <2>1 DEF PostInv, ReadsInv, IsInjective
  <2> QED
    BY <1>3, <1>5, <1>6, <2>1, <2>2 DEF IsInjective
<1>8. \A i \in 1..Len(read') : read'[i] \notin inbox'
  BY <1>1, <1>3, <1>5 DEF PostInv, ReadsInv
<1>9. ASSUME NEW i \in 1..Len(queue') PROVE queue'[i] = read'[Taken + i]
  <2>1. CASE i \in 1..Len(queue)
    <3>1. Taken + i \in 1..Len(read)
      BY <1>2, <1>4, <2>1
    <3> QED
      BY <1>3, <2>1, <3>1 DEF PostInv, ReadsInv
  <2>2. CASE i = Len(queue) + 1
    <3>1. Taken + i = Len(read) + 1
      BY <1>2, <1>4, <2>2
    <3> QED
      BY <1>3, <2>2, <3>1
  <2> QED
    BY <1>2, <1>3, <2>1, <2>2
<1>10. ~idle => Taken >= 1 /\ current.packet = read'[Taken]
  <2>1. Taken >= 1 => Taken \in 1..Len(read)
    BY <1>2, <1>4
  <2> QED
    BY <1>3, <2>1 DEF PostInv, ReadsInv
<1>11. ReadsInv'
  <2>1. Len(queue') <= Len(read')
    BY <1>2, <1>3
  <2>2. IsInjective(read)'
    BY <1>7 DEF IsInjective
  <2>3. /\ \A i \in 1..Len(queue') : queue'[i] = read'[Taken' + i]
        /\ ~idle' => Taken' >= 1 /\ current'.packet = read'[Taken']
    BY <1>1, <1>4, <1>9, <1>10
  <2> QED
    BY <1>8, <2>1, <2>2, <2>3 DEF ReadsInv
<1>12. SentInv'
  <2>1. ASSUME NEW i \in 1..Len(datagrams)
        PROVE  \E k \in 1..Taken : read'[k] = datagrams[i].packet
    <3>1. PICK k \in 1..Taken : read[k] = datagrams[i].packet
      BY DEF PostInv, SentInv
    <3>2. k \in 1..Len(read)
      BY <1>2, <1>4
    <3> QED
      BY <1>3, <3>1, <3>2
  <2> QED
    BY <1>1, <1>4, <2>1 DEF PostInv, SentInv, Upcoming, Continues
<1>13. DatagramsSound'
  BY <1>1, <1>2, <1>3, SoundKept DEF PostInv
<1> QED
  BY <1>11, <1>12, <1>13 DEF PostInv

\* The poster takes the next packet: nothing was sent of it yet.
LEMMA TakePacketPosts ==
  ASSUME UdpTypes, PostInv, TakePacket
  PROVE  PostInv'
<1>1. /\ idle /\ queue # <<>> /\ queue' = Tail(queue) /\ idle' = FALSE
      /\ current' = [packet |-> Head(queue), backend |-> 1, line |-> 1]
      /\ UNCHANGED <<upc, listening, inbox, datagrams, read, posted>>
  BY DEF TakePacket
<1>2. /\ queue \in Seq(Packets) /\ read \in Seq(Packets) /\ Len(queue) <= Len(read)
      /\ Len(queue) \in Nat \ {0} /\ Len(read) \in Nat
  BY <1>1 DEF UdpTypes, PostInv, ReadsInv
<1>3. /\ Len(queue') = Len(queue) - 1 /\ Head(queue) = queue[1] /\ queue[1] \in Packets
      /\ \A i \in 1..(Len(queue) - 1) : queue'[i] = queue[i + 1]
  BY <1>1, <1>2
<1>4. Taken \in Nat /\ Taken' = Taken + 1 /\ Taken + Len(queue) = Len(read)
  BY <1>1, <1>2, <1>3 DEF Taken
<1>5. current'.packet = read[Taken + 1] /\ Taken + 1 \in 1..Len(read)
  BY <1>1, <1>2, <1>3, <1>4 DEF PostInv, ReadsInv
<1>6. ASSUME NEW i \in 1..Len(queue') PROVE queue'[i] = read[Taken' + i]
  <2>1. i + 1 \in 1..Len(queue) /\ Taken' + i = Taken + (i + 1) /\ queue'[i] = queue[i + 1]
    BY <1>2, <1>3, <1>4
  <2> QED
    BY <2>1 DEF PostInv, ReadsInv
<1>7. ReadsInv'
  BY <1>1, <1>2, <1>3, <1>4, <1>5, <1>6 DEF PostInv, ReadsInv, IsInjective
<1>8. ASSUME NEW i \in 1..Len(datagrams)
      PROVE  /\ \E k \in 1..Taken' : read[k] = datagrams[i].packet
             /\ datagrams[i].packet # current'.packet
  <2>1. PICK k \in 1..Taken : read[k] = datagrams[i].packet
    BY DEF PostInv, SentInv
  <2>2. k \in 1..Taken' /\ k \in DOMAIN read /\ Taken + 1 \in DOMAIN read /\ k # Taken + 1
    BY <1>2, <1>4, <1>5
  <2>3. read[k] # read[Taken + 1]
    BY <2>2 DEF PostInv, ReadsInv, IsInjective
  <2> QED
    BY <1>5, <2>1, <2>2, <2>3
<1>9. SentInv'
  <2>1. current'.line = 1 /\ 1 \in 1..(Len(Lines[current'.packet]) + 1)
    <3>1. Len(Lines[queue[1]]) \in Nat
      BY <1>3, LinesAssumption
    <3> QED
      BY <1>1, <1>3, <3>1
  <2> QED
    BY <1>1, <1>8, <2>1, SMTT(30) DEF PostInv, SentInv
<1>10. DatagramsSound'
  BY <1>1, <1>2, SoundKept DEF PostInv
<1> QED
  BY <1>7, <1>9, <1>10 DEF PostInv

\* The other steps send nothing and take no packet.
LEMMA OthersPost ==
  ASSUME PostInv, UNCHANGED <<queue, datagrams, read, current>>, inbox' \subseteq inbox,
         idle' \in {idle, TRUE}, Len(read) \in Nat
  PROVE  PostInv'
<1>1. ReadsInv'
  BY DEF PostInv, ReadsInv, Taken, IsInjective
<1>2. SentInv'
  BY DEF PostInv, SentInv, Taken, Upcoming, Continues
<1>3. DatagramsSound'
  BY SoundKept DEF PostInv
<1> QED
  BY <1>1, <1>2, <1>3 DEF PostInv

\* A datagram more, of the packet in hand and to the backend it is being sent to.
LEMMA WritePosts ==
  ASSUME UdpTypes, PostInv, ~idle, current.backend <= Len(UdpBackends),
         NEW last \in (current.line - 1)..Len(Lines[current.packet]),
         NEW b, b = UdpBackends[current.backend],
         Length(current.packet, current.line, last) <= MTU[b],
         UNCHANGED <<upc, listening, inbox, queue, idle, read, posted>>,
         datagrams' = Append(datagrams, [to |-> b, packet |-> current.packet,
                                         first |-> current.line, last |-> last]),
         \/ last >= current.line /\ last < Len(Lines[current.packet])
              /\ current' = [current EXCEPT !.line = last + 1]
         \/ NextBackend
  PROVE  PostInv'
<1> DEFINE d == [to |-> b, packet |-> current.packet, first |-> current.line, last |-> last]
           n == Len(datagrams)
           Sent == [to : DOMAIN MTU, packet : Packets, first : Nat, last : Nat]
<1>1. /\ read \in Seq(Packets) /\ Len(read) \in Nat /\ Len(queue) \in Nat
      /\ current.packet \in Packets /\ current.backend \in 1..Len(UdpBackends)
      /\ Len(UdpBackends) \in Nat /\ UdpBackends \in Seq(DOMAIN MTU)
      /\ DOMAIN current = {"packet", "backend", "line"}
      /\ current = [packet |-> current.packet, backend |-> current.backend, line |-> current.line]
  BY MTUAssumption DEF UdpTypes
<1>2. Len(Lines[current.packet]) \in Nat /\ current.line \in 1..(Len(Lines[current.packet]) + 1)
  BY <1>1, LinesAssumption DEF PostInv, SentInv
<1>3. d \in Sent
  <2>1. b \in DOMAIN MTU
    BY <1>1
  <2> QED
    BY <1>1, <1>2, <2>1
<1>4. datagrams \in Seq(Sent) /\ n \in Nat
  BY DEF PostInv, SentInv
<1>5. /\ datagrams' \in Seq(Sent) /\ Len(datagrams') = n + 1 /\ datagrams'[n + 1] = d
      /\ \A i \in 1..n : datagrams'[i] = datagrams[i]
  <2> HIDE DEF Sent
  <2>1. datagrams' = Append(datagrams, d)
    OBVIOUS
  <2> HIDE DEF d
  <2> QED
    BY <1>3, <1>4, <2>1
<1>6. d.to = b /\ d.packet = current.packet /\ d.first = current.line /\ d.last = last
  OBVIOUS
<1> HIDE DEF d, n, Sent
<1>7. \A i \in 1..(n + 1) : i \in 1..n \/ i = n + 1
  BY <1>4
<1>8. /\ current'.packet = current.packet
      /\ \/ /\ current'.backend = current.backend /\ current'.line = last + 1
            /\ last >= current.line /\ last < Len(Lines[current.packet])
         \/ current'.backend = current.backend + 1 /\ current'.line = 1
  <2>1. CASE NextBackend
    BY <1>1, <2>1 DEF NextBackend
  <2>2. CASE last >= current.line /\ last < Len(Lines[current.packet])
               /\ current' = [current EXCEPT !.line = last + 1]
    BY <1>1, <2>2
  <2> QED
    BY <2>1, <2>2
<1>9. Taken' = Taken /\ Taken \in 1..Len(read) /\ read[Taken] = current.packet
  <2>1. Taken >= 1 /\ read[Taken] = current.packet /\ Len(queue) <= Len(read)
    BY DEF PostInv, ReadsInv
  <2>2. Taken = Len(read) - Len(queue) /\ Taken' = Len(read') - Len(queue')
    BY DEF Taken
  <2> QED
    BY <1>1, <2>1, <2>2
<1>10. ReadsInv'
  BY <1>8, <1>9 DEF PostInv, ReadsInv, IsInjective
<1>11. SentInv'
  <2>1. current'.line \in 1..(Len(Lines[current'.packet]) + 1)
    BY <1>2, <1>8
  <2>2. ASSUME NEW i \in 1..(n + 1) PROVE \E k \in 1..Taken : read[k] = datagrams'[i].packet
    <3>1. CASE i \in 1..n
      <4>1. \E k \in 1..Taken : read[k] = datagrams[i].packet
        BY <3>1 DEF PostInv, SentInv, n
      <4> QED
        BY <1>5, <3>1, <4>1
    <3>2. CASE i = n + 1
      <4>1. Taken \in 1..Taken
        BY <1>1, <1>9
      <4> QED
        BY <1>5, <1>6, <1>9, <3>2, <4>1
    <3> QED
      BY <1>7, <3>1, <3>2
  <2>3. ASSUME NEW i \in 1..(n + 1), NEW m \in current'.backend..Len(UdpBackends),
               datagrams'[i].packet = current'.packet, datagrams'[i].to = UdpBackends[m]
        PROVE  m = current'.backend /\ current'.line > 1
    <3>1. m \in current.backend..Len(UdpBackends) /\ m \in 1..Len(UdpBackends)
      BY <1>1, <1>8
    <3>2. m = current.backend
      <4>1. CASE i \in 1..n
        BY <1>5, <1>8, <2>3, <3>1, <4>1 DEF PostInv, SentInv, n
      <4>2. CASE i = n + 1
        <5>1. UdpBackends[m] = UdpBackends[current.backend]
          BY <1>5, <1>6, <2>3, <4>2
        <5> QED
          BY <1>1, <3>1, <5>1, MTUAssumption DEF IsInjective
      <4> QED
        BY <1>7, <4>1, <4>2
    <3>3. current'.backend = current.backend /\ current'.line > 1
      BY <1>1, <1>2, <1>8, <3>2, SMTT(30)
    <3> QED
      BY <3>2, <3>3
  <2>4. ASSUME current'.line > 1
        PROVE  /\ current'.backend <= Len(UdpBackends)
               /\ \E i \in 1..(n + 1) :
                    /\ datagrams'[i].to = UdpBackends[current'.backend]
                    /\ datagrams'[i].packet = current'.packet
                    /\ current'.line = datagrams'[i].last + 1
                    /\ \A k \in 1..(n + 1) :
                         datagrams'[k].to = UdpBackends[current'.backend] => k <= i
    <3>1. current'.backend = current.backend /\ current'.line = last + 1
      BY <1>8, <2>4
    <3>2. n + 1 \in 1..(n + 1) /\ \A k \in 1..(n + 1) : k <= n + 1
      BY <1>4
    <3> QED
      BY <1>1, <1>5, <1>6, <1>8, <3>1, <3>2
  <2> QED
    BY <1>5, <1>9, <2>1, <2>2, <2>3, <2>4 DEF SentInv, Upcoming, Continues, Sent
<1>12. ASSUME NEW j \in 1..(n + 1)
       PROVE  LET e == datagrams'[j]
              IN /\ Length(e.packet, e.first, e.last) <= MTU[e.to]
                 /\ \/ /\ e.first = 1
                       /\ \A i \in 1..(j - 1) : datagrams'[i].to = e.to =>
                            ReadBefore(datagrams'[i].packet, e.packet)
                    \/ \E i \in 1..(j - 1) :
                         /\ datagrams'[i].to = e.to /\ datagrams'[i].packet = e.packet
                         /\ e.first = datagrams'[i].last + 1
                         /\ \A k \in 1..(j - 1) : datagrams'[k].to = e.to => k <= i
  <2>1. CASE j \in 1..n
    <3>1. \A i \in 1..(j - 1) : i \in 1..n
      BY <1>4, <2>1
    <3>2. Length(datagrams[j].packet, datagrams[j].first, datagrams[j].last)
            <= MTU[datagrams[j].to]
      BY <2>1 DEF PostInv, DatagramsSound, n
    <3>3. Starts(datagrams[j], 1..(j - 1)) \/ Continues(datagrams[j], 1..(j - 1))
      BY <2>1 DEF PostInv, DatagramsSound, n
    <3> QED
      BY <1>5, <2>1, <3>1, <3>2, <3>3 DEF Starts, Continues
  <2>2. CASE j = n + 1
    <3>1. j - 1 = n /\ datagrams'[j] = d
      BY <1>4, <1>5, <2>2
    <3>2. CASE current.line = 1
      <4>1. ASSUME NEW i \in 1..n, datagrams[i].to = b
            PROVE  ReadBefore(datagrams[i].packet, current.packet)
        <5>1. datagrams[i].packet # current.packet
          <6>1. current.backend \in current.backend..Len(UdpBackends)
            BY <1>1
          <6> QED
            BY <3>2, <4>1, <6>1, SMTT(30) DEF PostInv, SentInv, n
        <5>2. PICK k \in 1..Taken : read[k] = datagrams[i].packet
          BY DEF PostInv, SentInv, n
        <5>3. k # Taken
          BY <1>9, <5>1, <5>2
        <5>4. k < Taken /\ k \in 1..Len(read)
          BY <1>1, <1>9, <5>3
        <5> QED
          BY <1>9, <5>2, <5>4 DEF ReadBefore
      <4> QED
        BY <1>5, <1>6, <3>1, <3>2, <4>1
    <3>3. CASE current.line > 1
      <4>1. Continues(Upcoming, 1..n)
        BY <3>3 DEF PostInv, SentInv, n
      <4>2. PICK i \in 1..n :
              /\ datagrams[i].to = b /\ datagrams[i].packet = current.packet
              /\ current.line = datagrams[i].last + 1
              /\ \A k \in 1..n : datagrams[k].to = b => k <= i
        BY <4>1 DEF Continues, Upcoming
      <4> QED
        BY <1>5, <1>6, <3>1, <4>2
    <3>4. current.line = 1 \/ current.line > 1
      BY <1>2
    <3> QED
      BY <3>2, <3>3, <3>4
  <2> QED
    BY <1>7, <2>1, <2>2
<1>13. DatagramsSound'
  <2>1. SUFFICES ASSUME NEW j \in 1..(n + 1)
                 PROVE  LET e == datagrams'[j]
                        IN /\ Length(e.packet, e.first, e.last) <= MTU[e.to]
                           /\ \/ /\ e.first = 1
                                 /\ \A i \in 1..(j - 1) : datagrams'[i].to = e.to =>
                                      \E k, m \in 1..Len(read') :
                                        /\ k < m /\ read'[k] = datagrams'[i].packet
                                        /\ read'[m] = e.packet
                              \/ \E i \in 1..(j - 1) :
                                   /\ datagrams'[i].to = e.to
                                   /\ datagrams'[i].packet = e.packet
                                   /\ e.first = datagrams'[i].last + 1
                                   /\ \A k \in 1..(j - 1) : datagrams'[k].to = e.to => k <= i
    BY <1>5 DEF DatagramsSound, Starts, Continues, ReadBefore
  <2> DEFINE e == datagrams'[j]
  <2>2. Length(e.packet, e.first, e.last) <= MTU[e.to]
    BY <1>12
  <2>3. ASSUME e.first = 1, \A i \in 1..(j - 1) : datagrams'[i].to = e.to =>
                              ReadBefore(datagrams'[i].packet, e.packet)
        PROVE  \A i \in 1..(j - 1) : datagrams'[i].to = e.to =>
                 \E k, m \in 1..Len(read') :
                   k < m /\ read'[k] = datagrams'[i].packet /\ read'[m] = e.packet
    <3>1. TAKE i \in 1..(j - 1)
    <3>2. HAVE datagrams'[i].to = e.to
    <3>3. ReadBefore(datagrams'[i].packet, e.packet)
      BY <2>3, <3>2
    <3> QED
      BY <3>3 DEF ReadBefore
  <2>4. \/ e.first = 1 /\ \A i \in 1..(j - 1) : datagrams'[i].to = e.to =>
                              ReadBefore(datagrams'[i].packet, e.packet)
        \/ \E i \in 1..(j - 1) :
             /\ datagrams'[i].to = e.to
             /\ datagrams'[i].packet = e.packet
             /\ e.first = datagrams'[i].last + 1
             /\ \A k \in 1..(j - 1) : datagrams'[k].to = e.to => k <= i
    BY <1>12
  <2> QED
    BY <2>2, <2>3, <2>4
<1> QED
  BY <1>10, <1>11, <1>13 DEF PostInv

\* A write that fails, or a line that does not fit: the rest is lost to this backend.
LEMMA SkipPosts ==
  ASSUME UdpTypes, PostInv, ~idle, NextBackend,
         UNCHANGED <<upc, listening, inbox, queue, idle, read, posted, datagrams>>
  PROVE  PostInv'
<1>1. /\ current.packet \in Packets /\ current.backend \in Nat
      /\ current = [packet |-> current.packet, backend |-> current.backend, line |-> current.line]
  BY DEF UdpTypes
<1>2. /\ current'.packet = current.packet /\ current'.line = 1
      /\ current'.backend = current.backend + 1
  BY <1>1 DEF NextBackend
<1>3. ReadsInv'
  BY <1>2 DEF PostInv, ReadsInv, Taken, IsInjective
<1>4. SentInv'
  <2>1. Taken' = Taken
    BY DEF Taken
  <2>2. 1 \in 1..(Len(Lines[current.packet]) + 1)
    BY <1>1, LinesAssumption
  <2>3. ASSUME NEW i \in 1..Len(datagrams), NEW n \in (current.backend + 1)..Len(UdpBackends),
               datagrams[i].packet = current.packet, datagrams[i].to = UdpBackends[n]
        PROVE  FALSE
    <3>1. n \in current.backend..Len(UdpBackends) /\ n # current.backend
      BY <1>1, MTUAssumption
    <3> QED
      BY <2>3, <3>1 DEF PostInv, SentInv
  <2> QED
    BY <1>2, <2>1, <2>2, <2>3 DEF PostInv, SentInv
<1>5. DatagramsSound'
  BY SoundKept DEF PostInv, UdpTypes
<1> QED
  BY <1>3, <1>4, <1>5 DEF PostInv

LEMMA PostKept ==
  ASSUME UdpTypes, PostInv, UdpStep
  PROVE  PostInv'
<1> USE DEF GoU, queueVars
<1>1. CASE UdpRun \/ ReadPacketFails \/ UdpReturns \/ PacketDone
  <2>1. UNCHANGED <<queue, datagrams, read, current, inbox>> /\ idle' \in {idle, TRUE}
    BY <1>1 DEF UdpRun, ReadPacketFails, UdpReturns, PacketDone
  <2>2. Len(read) \in Nat /\ inbox' \subseteq inbox
    BY <2>1 DEF UdpTypes
  <2> QED
    BY <2>1, <2>2, OthersPost
<1>2. CASE TakePacket
  BY <1>2, TakePacketPosts
<1>3. CASE SendDatagram
  <2> DEFINE b    == UdpBackends[current.backend]
             last == LastFitting(current.packet, current.line, MTU[b])
  <2>1. current.packet \in Packets /\ current.line \in 1..(Len(Lines[current.packet]) + 1)
    BY DEF UdpTypes, PostInv, SentInv
  <2>2. MTU[b] \in Nat
    <3>1. current.backend \in 1..Len(UdpBackends)
      BY <1>3, MTUAssumption DEF SendDatagram, UdpTypes
    <3> QED
      BY <3>1, MTUAssumption
  <2>3. /\ last \in (current.line - 1)..Len(Lines[current.packet])
        /\ Length(current.packet, current.line, last) <= MTU[b]
    BY <2>1, <2>2, LastFits
  <2>4. /\ ~idle /\ current.backend <= Len(UdpBackends)
        /\ UNCHANGED <<upc, listening, inbox, queue, idle, read, posted>>
        /\ \/ NextBackend /\ UNCHANGED datagrams
           \/ /\ datagrams' = Append(datagrams, [to |-> b, packet |-> current.packet,
                                                 first |-> current.line, last |-> last])
              /\ \/ last >= current.line /\ last < Len(Lines[current.packet])
                      /\ current' = [current EXCEPT !.line = last + 1]
                 \/ NextBackend
    BY <1>3 DEF SendDatagram
  <2>5. CASE NextBackend /\ UNCHANGED datagrams
    BY <2>4, <2>5, SkipPosts
  <2>6. CASE ~(NextBackend /\ UNCHANGED datagrams)
    <3> HIDE DEF last, b
    <3>1. b = UdpBackends[current.backend]
      BY DEF b
    <3> QED
      BY <2>3, <2>4, <2>6, <3>1, WritePosts
  <2> QED
    BY <2>5, <2>6
<1>4. ASSUME NEW p \in Packets, ReadPacket(p) PROVE PostInv'
  BY <1>4, ReadPacketPosts
<1>5. ASSUME NEW p \in Packets, PacketLost(p) PROVE PostInv'
  BY <1>5, OthersPost DEF PacketLost, UdpTypes
<1> QED
  BY <1>1, <1>2, <1>3, <1>4, <1>5 DEF UdpStep, PosterStep

(***************************************************************************)
(* The process                                                             *)
(***************************************************************************)

ServiceTypes ==
  /\ relays \subseteq {"http", "udp"}
  /\ proc \in {"making", "running", "exited", "fatal", "panic"}
  /\ hrun \in {"made", "failed", "serving", "returned"}
  /\ closing \in BOOLEAN
  /\ sig \in {"never", "waiting", "stopping", "stopped"}
  /\ toStop \subseteq relays
  /\ incoming \subseteq Requests

HttpInv == HttpTypes /\ PostTypes /\ BufferInv /\ BytesStable /\ \A r \in Requests : Own(r)
UdpInv  == UdpTypes /\ DrainInv /\ PostInv /\ ("udp" \notin relays => read = <<>>)
IInv == HttpInv /\ UdpInv /\ ServiceTypes /\ Drained

LEMMA InitIInv == Init => IInv
<1> SUFFICES ASSUME Init PROVE IInv
  OBVIOUS
<1>1. PICK t \in Traffic :
        /\ relays = t.relays /\ incoming = t.requests /\ inbox = t.packets
        /\ sig = IF t.interrupt THEN "waiting" ELSE "never"
  BY DEF Init
<1>2. ServiceTypes /\ inbox \subseteq Packets
  BY <1>1, TrafficAssumption DEF Init, ServiceTypes
<1>3. HttpInit /\ UdpInit /\ proc = "making"
  BY DEF Init
<1>4. HttpTypes /\ BufferInv /\ BytesStable
  BY <1>3, NoneAssumption
  DEF HttpInit, HttpTypes, BufferInv, BytesStable, Fresh, Holds
<1>5. PostTypes
  BY <1>3, BackendsAssumption, FS_CardinalityType DEF HttpInit, PostTypes
<1>6. ASSUME NEW r \in Requests PROVE Own(r)
  BY <1>3, NoneAssumption
  DEF HttpInit, Own, Results, Reported, Accounted, Told, Stored
<1>7. UdpTypes
  <2>1. Len(UdpBackends) \in Nat
    BY MTUAssumption
  <2>2. (CHOOSE p \in Packets : TRUE) \in Packets
    BY PacketsAssumption
  <2>3. current \in [packet : Packets, backend : 1..(Len(UdpBackends) + 1), line : {current.line}]
    BY <1>3, <2>1, <2>2 DEF UdpInit
  <2>4. queue \in Seq(Packets) /\ Len(queue) <= QueueSize /\ read \in Seq(Packets)
    BY <1>3, QueueAssumption DEF UdpInit
  <2> QED
    BY <1>2, <1>3, <2>3, <2>4 DEF UdpInit, UdpTypes
<1>8. DrainInv /\ read = <<>> /\ Drained
  BY <1>3 DEF UdpInit, DrainInv, InHand, Drained, ToSet
<1>9. PostInv
  <2>1. /\ queue = <<>> /\ read = <<>> /\ datagrams = <<>> /\ idle /\ current.line = 1
        /\ current.packet \in Packets
    BY <1>3, PacketsAssumption DEF UdpInit
  <2>2. Len(Lines[current.packet]) \in Nat
    BY <2>1, LinesAssumption
  <2> QED
    BY <2>1, <2>2 DEF PostInv, ReadsInv, SentInv, DatagramsSound, IsInjective, Taken
<1> QED
  BY <1>2, <1>4, <1>5, <1>6, <1>7, <1>8, <1>9 DEF IInv, HttpInv, UdpInv

\* A step of one request keeps the HTTP relay's part, for all of them.
LEMMA HttpInvKept ==
  ASSUME HttpInv, NEW r \in Requests,
         \/ RequestArrives(r) \/ HandlerStep(r) \/ \E b \in HttpBackends : PostStep(r, b)
  PROVE  HttpInv'
<1>1. HttpTypes' /\ PostTypes' /\ BufferInv' /\ BytesStable'
  BY HttpTypesKept, BufferInvKept DEF HttpInv
<1>2. ASSUME NEW q \in Requests, q # r PROVE Own(q)'
  <2>1. /\ \A b \in HttpBackends : /\ Stored(b, q)' <=> Stored(b, q)
                                   /\ Misled(b, q)' <=> Misled(b, q)
        /\ hpc'[q] = hpc[q] /\ answer'[q] = answer[q] /\ errResponse'[q] = errResponse[q]
        /\ post'[q] = post[q] /\ result'[q] = result[q] /\ responses'[q] = responses[q]
    <3> USE <1>2 DEF HttpInv, HttpTypes, GoH, GoPost, Answer, handlerVars, postVars,
        bufferVars, history, Stored, Misled
    <3>1. CASE RequestArrives(r)
      BY <3>1 DEF RequestArrives
    <3>2. CASE HandlerStep(r)
      BY <3>2 DEF HandlerStep, Refuse, StartPosts, Receive, NoneSucceeded, CloseResponses
    <3>3. CASE \E b \in HttpBackends : PostStep(r, b)
      BY <3>3, ZenonT(60) DEF PostStep, SendsOnce, SendsToQueue, QueueFull, BufferedAnswer, Respond, Store
    <3> QED
      BY <3>1, <3>2, <3>3
  <2> QED
    BY <2>1, OwnKept DEF HttpInv
<1>3. Own(r)'
  <2>1. CASE RequestArrives(r)
    <3>1. Fresh(r)
      BY <2>1 DEF RequestArrives, GoH, HttpInv, BufferInv
    <3>2. UNCHANGED <<answer, errResponse, postVars, history>>
      BY <2>1 DEF RequestArrives
    <3>3. hpc'[r] = "arrived"
      BY <2>1 DEF RequestArrives, GoH, HttpInv, HttpTypes
    <3> QED
      BY NoneAssumption, <3>1, <3>2, <3>3
      DEF Fresh, HttpInv, Own, Results, Reported, Accounted, Told, Stored, Misled, postVars,
          history
  <2>2. CASE HandlerStep(r)
    BY <2>2, HandlerOwn DEF HttpInv
  <2>3. CASE \E b \in HttpBackends : PostStep(r, b)
    BY <2>3, PostOwn DEF HttpInv
  <2> QED
    BY <2>1, <2>2, <2>3
<1> QED
  BY <1>1, <1>2, <1>3 DEF HttpInv

LEMMA HttpInvUnchanged == HttpInv /\ UNCHANGED httpVars => HttpInv'
<1> SUFFICES ASSUME HttpInv, UNCHANGED httpVars PROVE HttpInv'
  OBVIOUS
<1> USE DEF httpVars, handlerVars, postVars, bufferVars, history, HttpInv
<1>1. HttpTypes' /\ PostTypes'
  BY DEF HttpTypes, PostTypes
<1>2. BufferInv' /\ BytesStable'
  BY DEF BufferInv, BytesStable, Fresh, Holds, AllPosted
<1>3. ASSUME NEW r \in Requests PROVE Own(r)'
  BY OwnKept DEF Stored, Misled
<1> QED
  BY <1>1, <1>2, <1>3

LEMMA UdpInvUnchanged ==
  ASSUME UdpInv, UNCHANGED <<upc, inbox, queueVars, datagrams, read, posted, relays>>,
         listening' \in BOOLEAN
  PROVE  UdpInv'
<1>1. PostInv'
  BY OthersPost DEF UdpInv, UdpTypes, queueVars
<1> QED
  BY <1>1 DEF UdpInv, UdpTypes, DrainInv, InHand, queueVars

LEMMA NextIInv == IInv /\ [Next]_vars => IInv'
<1> SUFFICES ASSUME IInv, [Next]_vars PROVE IInv'
  OBVIOUS
<1>1. ASSUME UNCHANGED <<httpVars, udpVars, relays>>, ServiceTypes', Drained' PROVE IInv'
  BY <1>1, HttpInvUnchanged, UdpInvUnchanged DEF IInv, UdpInv, UdpTypes, udpVars
<1>2. CASE New
  BY <1>1, <1>2 DEF New, IInv, ServiceTypes, Drained, udpVars
<1>3. CASE Serve \/ ServeFails
  BY <1>1, <1>3 DEF Serve, ServeFails, Running, IInv, ServiceTypes, Drained, udpVars
<1>4. CASE HttpReturns
  BY <1>1, <1>4 DEF HttpReturns, Running, IInv, ServiceTypes, Drained, udpVars
<1>5. CASE Interrupt
  BY <1>1, <1>5 DEF Interrupt, Running, IInv, ServiceTypes, Drained, udpVars
<1>6. ASSUME NEW k \in {"http", "udp"}, StopRelay(k) PROVE IInv'
  <2>1. ServiceTypes'
    BY <1>6 DEF StopRelay, LeftAfter, IInv, ServiceTypes
  <2>2. /\ UNCHANGED <<httpVars, upc, inbox, queueVars, datagrams, read, posted, relays>>
        /\ listening' \in BOOLEAN /\ proc' # "exited"
    BY <1>6 DEF StopRelay, Running, IInv, UdpInv, UdpTypes
  <2>3. UdpInv' /\ Drained'
    BY <2>2, UdpInvUnchanged DEF IInv, Drained
  <2> QED
    BY <2>1, <2>2, <2>3, HttpInvUnchanged DEF IInv
<1>7. CASE Exit
  <2>1. ToSet(read) \subseteq posted
    <3>1. CASE "udp" \in relays
      BY <1>7, <3>1 DEF Exit, IInv, UdpInv, DrainInv, InHand, ToSet
    <3>2. CASE "udp" \notin relays
      BY <3>2 DEF IInv, UdpInv, ToSet
    <3> QED
      BY <3>1, <3>2
  <2> QED
    BY <1>1, <1>7, <2>1 DEF Exit, IInv, ServiceTypes, Drained, udpVars
<1>8. CASE UdpRuns
  <2>1. UdpStep /\ "udp" \in relays /\ proc = "running" /\ UNCHANGED <<httpVars, serviceVars>>
    BY <1>8 DEF UdpRuns, Running
  <2>2. UdpInv'
    BY <2>1, UdpKept, PostKept DEF IInv, UdpInv, serviceVars
  <2> QED
    BY <2>1, <2>2, HttpInvUnchanged DEF IInv, ServiceTypes, Drained, serviceVars
<1>9. ASSUME NEW r \in Requests,
             Request(r) \/ HandlerRuns(r) \/ \E b \in HttpBackends : PostRuns(r, b)
      PROVE  IInv'
  <2>1. /\ RequestArrives(r) \/ HandlerStep(r) \/ \E b \in HttpBackends : PostStep(r, b)
        /\ UNCHANGED <<udpVars, relays, proc>>
        /\ ServiceTypes'
    BY <1>9 DEF Request, HandlerRuns, PostRuns, IInv, ServiceTypes, serviceVars
  <2>2. HttpInv'
    BY <2>1, HttpInvKept DEF IInv
  <2>3. UdpInv' /\ Drained'
    BY <2>1, UdpInvUnchanged DEF IInv, UdpInv, UdpTypes, Drained, udpVars
  <2> QED
    BY <2>1, <2>2, <2>3 DEF IInv
<1>11. ASSUME NEW r \in Requests, NEW b \in HttpBackends, NoHandle(r, b) PROVE IInv'
  BY <1>1, <1>11 DEF NoHandle, Running, IInv, ServiceTypes, Drained, udpVars
<1>10. CASE UNCHANGED vars
  BY <1>1, <1>10 DEF vars, serviceVars, udpVars, IInv, ServiceTypes, Drained
<1> QED
  BY <1>2, <1>3, <1>4, <1>5, <1>6, <1>7, <1>8, <1>9, <1>10, <1>11 DEF Next, Stopping

LEMMA IInvAlways == Spec => []IInv
  BY InitIInv, NextIInv, PTL DEF Spec

(***************************************************************************)
(* Theorems                                                                *)
(***************************************************************************)

\* Every variable keeps its type; in particular neither the channel of responses nor
\* the queue of packets ever holds more than it can.
THEOREM TypeCorrect == Spec => []TypeOK
<1>1. IInv => TypeOK
  BY DEF IInv, HttpInv, UdpInv, HttpTypes, PostTypes, UdpTypes, ServiceTypes,
         TypeOK, HttpTypeOK, UdpTypeOK
<1> QED
  BY <1>1, IInvAlways, PTL

\* Whatever the backends answer and in whatever order, what the client of a write is
\* told is true of all of them together - but for a queued write that was told the
\* answer to a later batch.
THEOREM AnswersAreTrue == Spec => []AnswersTrue
<1>1. IInv => AnswersTrue
  BY DEF IInv, HttpInv, Own, Told, Stored, Misled, AnswersTrue
<1> QED
  BY <1>1, IInvAlways, PTL

\* However requests overlap and slow posts outlive their handlers, no backend gets the
\* bytes of another request.
THEOREM BytesAreStable == Spec => []BytesStable
<1>1. IInv => BytesStable
  BY DEF IInv, HttpInv
<1> QED
  BY <1>1, IInvAlways, PTL

\* Whenever the interrupt comes, what the UDP relay has read is posted before the
\* process ends by itself.
THEOREM StopDrains == Spec => []Drained
<1>1. IInv => Drained
  BY DEF IInv
<1> QED
  BY <1>1, IInvAlways, PTL
\* Every datagram to a backend is of whole lines and fits its MTU, and those of one
\* packet follow one another, packets in the order they were read - whatever the sizes
\* of lines and MTUs, and whichever sends fail.
THEOREM DatagramsAreSound == Spec => []DatagramsSound
<1>1. IInv => DatagramsSound
  BY DEF IInv, UdpInv, PostInv
<1> QED
  BY <1>1, IInvAlways, PTL
=============================================================================
