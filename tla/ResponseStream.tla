--------------------------- MODULE ResponseStream ---------------------------
(***************************************************************************)
(* The response path of the gateway chunk by chunk (handle_response.go and *)
(* the loop of Process).  Envoy streams a response body to the gateway in  *)
(* chunks, the last of which says EndOfStream.  A streamed response is     *)
(* parsed chunk by chunk; any other is kept in requestBuffers until it is  *)
(* complete.  The maps requestBuffers and processingTimes are shared by    *)
(* all requests and keyed by the request, the variable completed belongs   *)
(* to the loop of one request.                                             *)
(*                                                                         *)
(* What a chunk holds is abstracted to the token total of the last event   *)
(* without choices (0: no such event, or one that was split between two    *)
(* chunks) and to whether it parses.  The charges of HandleResponseBody    *)
(* are one step here; Gateway models how they interleave.                  *)
(*                                                                         *)
(* The shutdown of the gateway goes on around them: on a signal main calls *)
(* GracefullyShutdown, which has one goroutine stop each of the three      *)
(* servers, that of gRPC once every Process has returned and those of HTTP *)
(* once no request of theirs is under way, and waits for all of them.  The *)
(* context that could cut the wait short is not done before the end: main  *)
(* cancels it only when GracefullyShutdown has returned.                   *)
(***************************************************************************)
EXTENDS Integers

CONSTANTS
  Requests,   \* requests being served, each by a Process of its own
  Usages,     \* the token totals a chunk may report, 0 for none
  MaxChunks   \* bound: chunks of one response

ASSUME StreamAssumption == Usages \subseteq Nat /\ MaxChunks \in Nat

HttpServers == {"http", "metrics"}
Servers == HttpServers \cup {"grpc"}

VARIABLES
  main,            \* where main is: "serving", "draining" or "exited"
  servers,         \* servers[x]: server x is "up", "stopping", "failed" to stop
                   \*   with an error that is not in errChan yet, or "down"
  errors,          \* the number of errors in errChan
  busy,            \* the HTTP servers with a request under way
  open,            \* the requests whose Process has not returned
  phase,           \* phase[i]: the message Process waits for
  stream,          \* stream[i]: whether the request asked for a stream
  completed,       \* completed[i]: the variable of Process
  chunks,          \* chunks[i]: chunks received, for the bound
  requestBuffers,  \* the requests that have an entry in requestBuffers
  processingTimes, \* the requests that have an entry in processingTimes
  counted,         \* counted[i]: calls of RecordRequest
  recorded,        \* recorded[i]: the token total given to RecordTokenUsage
  seen,            \* history: seen[i]: the totals of the reports parsed
  charged,         \* history: charged[i]: what both charges went through for
  passed           \* history: passed[i]: the chunks passed on to the client

maps == <<requestBuffers, processingTimes>>
metrics == <<counted, recorded>>
history == <<seen, charged, passed>>
shutdown == <<main, servers, errors, busy>>
requests == <<phase, stream, completed, chunks, maps, metrics, history>>
vars == <<shutdown, open, requests>>

NotRecorded == -1

Init ==
  /\ main = "serving"
  /\ servers = [x \in Servers |-> "up"]
  /\ errors = 0
  /\ busy = {}
  /\ open = {}
  /\ phase = [i \in Requests |-> "new"]
  /\ stream = [i \in Requests |-> FALSE]
  /\ completed = [i \in Requests |-> FALSE]
  /\ chunks = [i \in Requests |-> 0]
  /\ requestBuffers = {}
  /\ processingTimes = {}
  /\ counted = [i \in Requests |-> 0]
  /\ recorded = [i \in Requests |-> NotRecorded]
  /\ seen = [i \in Requests |-> 0]
  /\ charged = [i \in Requests |-> 0]
  /\ passed = [i \in Requests |-> 0]

-----------------------------------------------------------------------------
\* RecordRequest
Count(i) == counted' = [counted EXCEPT ![i] = @ + 1]

\* Envoy opens a stream for a request, which a server that stops does not take.
Process(i) ==
  /\ servers["grpc"] = "up"
  /\ phase[i] = "new"
  /\ phase' = [phase EXCEPT ![i] = "request"]
  /\ open' = open \cup {i}
  /\ UNCHANGED <<shutdown, stream, completed, chunks, maps, metrics, history>>

\* The request is refused, or it is accepted and its body says whether the
\* response is a stream.
HandleRequestBody(i) ==
  /\ phase[i] = "request"
  /\ \/ /\ phase' = [phase EXCEPT ![i] = "answered"]
        /\ UNCHANGED stream
     \/ /\ phase' = [phase EXCEPT ![i] = "headers"]
        /\ \E b \in BOOLEAN : stream' = [stream EXCEPT ![i] = b]
  /\ UNCHANGED <<completed, chunks, maps, metrics, history>>

\* Status 200 is followed by the body; 500 is counted and answered at once; any
\* other status is answered at the first chunk.
HandleResponseHeaders(i) ==
  /\ phase[i] = "headers"
  /\ \/ phase' = [phase EXCEPT ![i] = "body"] /\ UNCHANGED counted
     \/ phase' = [phase EXCEPT ![i] = "failed"] /\ UNCHANGED counted
     \/ phase' = [phase EXCEPT ![i] = "answered"] /\ Count(i)
  /\ UNCHANGED <<stream, completed, chunks, maps, recorded, history>>

ResponseErrorProcessing(i) ==
  /\ phase[i] = "failed"
  /\ phase' = [phase EXCEPT ![i] = "answered"]
  /\ Count(i)
  /\ UNCHANGED <<stream, completed, chunks, maps, recorded, history>>

\* Mutation: the tokens are recorded also if an earlier chunk had completed the
\* response.
TakeChunkRecordAtEnd(i, eos, complete, tokens) ==
  /\ phase[i] = "body"
  /\ chunks[i] < MaxChunks
  /\ chunks' = [chunks EXCEPT ![i] = @ + 1]
  /\ completed' = [completed EXCEPT ![i] = complete]
  /\ IF complete /\ eos
       THEN /\ recorded' = [recorded EXCEPT ![i] = tokens]
            /\ processingTimes' = processingTimes \ {i}
       ELSE /\ processingTimes' = processingTimes \cup {i}
            /\ UNCHANGED recorded
  /\ Count(i)
  /\ UNCHANGED stream

\* Process takes a chunk: HandleResponseBody finds or makes the entry of the
\* request in processingTimes, and its deferred function records the tokens and
\* drops the entry if this chunk is the last one and completed the response.
\* Afterwards Process counts the request.
TakeChunk(i, eos, complete, tokens) ==
  /\ phase[i] = "body"
  /\ chunks[i] < MaxChunks
  /\ chunks' = [chunks EXCEPT ![i] = @ + 1]
  /\ completed' = [completed EXCEPT ![i] = complete]
  /\ IF ~completed[i] /\ complete /\ eos
       THEN /\ recorded' = [recorded EXCEPT ![i] = tokens]
            /\ processingTimes' = processingTimes \ {i}
       ELSE /\ processingTimes' = processingTimes \cup {i}
            /\ UNCHANGED recorded
  /\ Count(i)
  /\ UNCHANGED stream

\* An error is answered, which ends the stream.
AnswerError(i) ==
  /\ phase' = [phase EXCEPT ![i] = "answered"]
  /\ UNCHANGED passed

\* The chunk is passed on to the client.
PassOn(i, eos) ==
  /\ phase' = [phase EXCEPT ![i] = IF eos THEN "done" ELSE "body"]
  /\ passed' = [passed EXCEPT ![i] = @ + 1]

\* Mutation: the chunk is passed on also when a charge failed.
ChargeAndGoOn(i, eos, usage) ==
  /\ seen' = [seen EXCEPT ![i] = @ + usage]
  /\ \E n \in {0, usage} : charged' = [charged EXCEPT ![i] = @ + n]
  /\ PassOn(i, eos)

\* The usage found in a chunk or body is charged to the token rules and to the
\* quota; if either fails the answer is an error.
Charge(i, eos, usage) ==
  /\ seen' = [seen EXCEPT ![i] = @ + usage]
  /\ \/ /\ charged' = [charged EXCEPT ![i] = @ + usage]
        /\ PassOn(i, eos)
     \/ /\ usage # 0
        /\ AnswerError(i)
        /\ UNCHANGED charged

\* A chunk of a streamed response.
HandleStreamChunk(i, eos, usage) ==
  /\ stream[i]
  /\ TakeChunk(i, eos, completed[i] \/ usage # 0, usage)
  /\ Charge(i, eos, usage)
  /\ UNCHANGED requestBuffers

\* A chunk of a streamed response that does not parse.
HandleBadChunk(i, eos) ==
  /\ stream[i]
  /\ TakeChunk(i, eos, TRUE, 0)
  /\ AnswerError(i)
  /\ UNCHANGED <<requestBuffers, seen, charged>>

\* A chunk of another response that is not the last one is only kept.
HandleBodyChunk(i) ==
  /\ ~stream[i]
  /\ TakeChunk(i, FALSE, completed[i], 0)
  /\ requestBuffers' = requestBuffers \cup {i}
  /\ PassOn(i, FALSE)
  /\ UNCHANGED <<seen, charged>>

\* Mutation: the buffer is dropped only when the body has parsed.
HandleBadBodyKept(i) ==
  /\ ~stream[i]
  /\ TakeChunk(i, TRUE, TRUE, 0)
  /\ AnswerError(i)
  /\ UNCHANGED <<requestBuffers, seen, charged>>

\* The whole body does not parse or names no model: it is dropped, and the
\* answer is an error.
HandleBadBody(i) ==
  /\ ~stream[i]
  /\ TakeChunk(i, TRUE, TRUE, 0)
  /\ requestBuffers' = requestBuffers \ {i}
  /\ AnswerError(i)
  /\ UNCHANGED <<seen, charged>>

\* The whole body is there: it is dropped from the buffers and charged.
HandleBody(i, usage) ==
  /\ ~stream[i]
  /\ TakeChunk(i, TRUE, completed[i] \/ usage # 0, usage)
  /\ requestBuffers' = requestBuffers \ {i}
  /\ Charge(i, TRUE, usage)

\* The client or Envoy gives up: Recv fails and Process returns, leaving the
\* maps as they are.
Abort(i) ==
  /\ phase[i] \in {"request", "headers", "body", "failed"}
  /\ phase' = [phase EXCEPT ![i] = "aborted"]
  /\ open' = open \ {i}
  /\ UNCHANGED <<shutdown, stream, completed, chunks, maps, metrics, history>>

\* The request is over: Envoy closes the stream and Process returns.
EndOfFile(i) ==
  /\ phase[i] \in {"answered", "done"} /\ i \in open
  /\ open' = open \ {i}
  /\ UNCHANGED <<shutdown, requests>>

HandleResponseBody(i) ==
  \/ \E eos \in BOOLEAN, usage \in Usages : HandleStreamChunk(i, eos, usage)
  \/ \E eos \in BOOLEAN : HandleBadChunk(i, eos)
  \/ HandleBodyChunk(i) \/ HandleBadBody(i)
  \/ \E usage \in Usages : HandleBody(i, usage)

\* A message of Envoy is handled.
Handle(i) ==
  /\ \/ HandleRequestBody(i) \/ HandleResponseHeaders(i)
     \/ ResponseErrorProcessing(i) \/ HandleResponseBody(i)
  /\ UNCHANGED <<shutdown, open>>

-----------------------------------------------------------------------------
\* A client of /v1/models or /metrics sends a request, which a server that stops
\* does not take.
HttpRequest(x) ==
  /\ servers[x] = "up"
  /\ busy' = busy \cup {x}
  /\ UNCHANGED <<main, servers, errors, open, requests>>

\* The last request that the server has under way ends, which no timeout of the
\* server sees to.
HttpDone(x) ==
  /\ x \in busy
  /\ busy' = busy \ {x}
  /\ UNCHANGED <<main, servers, errors, open, requests>>

\* main gets SIGINT or SIGTERM and calls GracefullyShutdown.
Signal ==
  /\ main = "serving"
  /\ main' = "draining"
  /\ UNCHANGED <<servers, errors, busy, open, requests>>

\* A goroutine calls GracefulStop or Shutdown: from now on its server takes no
\* stream and no request.
CloseServer(x) ==
  /\ main = "draining" /\ servers[x] = "up"
  /\ servers' = [servers EXCEPT ![x] = "stopping"]
  /\ UNCHANGED <<main, errors, busy, open, requests>>

\* Mutation: the gRPC server is stopped without waiting for its streams.
StopServerAtOnce(x) ==
  /\ servers[x] = "stopping"
  /\ x \notin busy
  /\ \E s \in IF x = "grpc" THEN {"down"} ELSE {"down", "failed"} :
       servers' = [servers EXCEPT ![x] = s]
  /\ UNCHANGED <<main, errors, busy, open, requests>>

\* The call returns: GracefulStop when no stream is open, Shutdown when no HTTP
\* request is under way, perhaps with the error of closing the listener.
StopServer(x) ==
  /\ servers[x] = "stopping"
  /\ x \notin busy
  /\ x = "grpc" => open = {}
  /\ \E s \in IF x = "grpc" THEN {"down"} ELSE {"down", "failed"} :
       servers' = [servers EXCEPT ![x] = s]
  /\ UNCHANGED <<main, errors, busy, open, requests>>

\* Mutation: errChan has room for one error.
ErrChanOne == 1

\* The capacity of errChan, which is read only when all goroutines are done.
ErrChan == 3

ReportError(x) ==
  /\ servers[x] = "failed"
  /\ errors < ErrChan
  /\ errors' = errors + 1
  /\ servers' = [servers EXCEPT ![x] = "down"]
  /\ UNCHANGED <<main, busy, open, requests>>

\* All goroutines are done: GracefullyShutdown and main return.
Exit ==
  /\ main = "draining"
  /\ \A x \in Servers : servers[x] = "down"
  /\ main' = "exited"
  /\ UNCHANGED <<servers, errors, busy, open, requests>>

GracefullyShutdown ==
  Exit \/ \E x \in Servers : CloseServer(x) \/ StopServer(x) \/ ReportError(x)

Next ==
  \/ \E i \in Requests : Process(i) \/ Handle(i) \/ Abort(i) \/ EndOfFile(i)
  \/ \E x \in HttpServers : HttpRequest(x) \/ HttpDone(x)
  \/ Signal \/ GracefullyShutdown

Spec == Init /\ [][Next]_vars

\* The goroutines of the shutdown run on.  Nothing is assumed of Envoy, the
\* models behind it or any client: a stream or an HTTP request may stay open.
FairSpec == Spec /\ WF_vars(GracefullyShutdown)

-----------------------------------------------------------------------------
Ended == {"answered", "done", "aborted"}

\* The types of the variables.
TypeOK ==
  /\ main \in {"serving", "draining", "exited"}
  /\ servers \in [Servers -> {"up", "stopping", "failed", "down"}]
  /\ errors \in 0 .. ErrChan
  /\ busy \subseteq HttpServers
  /\ open \subseteq Requests
  /\ phase \in [Requests -> {"new", "request", "headers", "body", "failed"} \cup Ended]
  /\ stream \in [Requests -> BOOLEAN]
  /\ completed \in [Requests -> BOOLEAN]
  /\ chunks \in [Requests -> 0..MaxChunks]
  /\ requestBuffers \subseteq Requests
  /\ processingTimes \subseteq Requests
  /\ counted \in [Requests -> Nat]
  /\ recorded \in [Requests -> Nat \cup {NotRecorded}]
  /\ seen \in [Requests -> Nat]
  /\ charged \in [Requests -> Nat]
  /\ passed \in [Requests -> Nat]

\* No chunk is passed on after usage that could not be charged: what was
\* charged is all the usage seen, except for a response answered with an error.
PassedIsCharged ==
  \A i \in Requests :
    charged[i] # seen[i] => phase[i] = "answered" /\ passed[i] < chunks[i]

\* requestBuffers holds the bodies still being received, and those of clients
\* that went away: every response that ends by itself, also with an error,
\* releases its buffer.
BuffersReleased ==
  \A i \in requestBuffers : ~stream[i] /\ phase[i] \in {"body", "aborted"}

\* RecordTokenUsage is never given a part of the usage of a response: it is
\* called only if no chunk before the last one completed the response.
RecordedIsSeen ==
  \A i \in Requests :
    recorded[i] # NotRecorded => recorded[i] = seen[i]

\* main exits only when nothing is left half-way: the response of every request
\* that was taken has ended with its usage charged, unless it was answered with an
\* error or its client went away, only the latter leaves a buffer, and no HTTP
\* request is cut off.
ExitIsClean ==
  main = "exited" =>
    /\ \A i \in Requests : phase[i] \in Ended \cup {"new"}
    /\ \A i \in Requests : phase[i] = "done" => charged[i] = seen[i]
    /\ \A i \in requestBuffers : phase[i] = "aborted"
    /\ busy = {}

\* Only a stream or an HTTP request that stays open for good holds the shutdown up,
\* which has no timeout: if there is always a later time without open streams, and
\* one without HTTP requests under way, main exits, whatever servers fail to stop.
ShutdownCompletes ==
  []<>(open = {}) /\ []<>(busy = {}) => (main = "draining" ~> main = "exited")
=============================================================================
