------------------------ MODULE ResponseStreamProofs ------------------------
(***************************************************************************)
(* Proofs about ResponseStream for any number of requests, chunks and any  *)
(* token totals: nothing is passed on after usage that was not charged,    *)
(* buffers are released, what is recorded is what was seen, and main exits *)
(* only when no response and no HTTP request is half-way.                  *)
(***************************************************************************)
EXTENDS ResponseStream, TLAPS

\* The inductive invariant.  Chunks passed on are chunks received; usage was seen
\* only if the response is completed; tokens are recorded only as a response ends.
Passed == \A i \in Requests : passed[i] <= chunks[i]

SeenIsCompleted == \A i \in Requests : ~completed[i] => seen[i] = 0

RecordedAtEnd ==
  \A i \in Requests : recorded[i] # NotRecorded =>
    recorded[i] = seen[i] /\ phase[i] \in {"answered", "done"}

\* The Process of a request that has begun and not ended has not returned; the
\* gRPC server is down only when every Process has returned, an HTTP server when no
\* request of its own is under way, and main has exited only when all are down.
OpenUntilEnded == \A i \in Requests : phase[i] \notin Ended \cup {"new"} => i \in open

StoppedInOrder ==
  /\ servers["grpc"] # "failed"
  /\ servers["grpc"] = "down" => open = {}
  /\ \A x \in HttpServers : servers[x] \in {"failed", "down"} => x \notin busy
  /\ main = "exited" => \A x \in Servers : servers[x] = "down"

StreamInv ==
  /\ TypeOK
  /\ PassedIsCharged /\ Passed
  /\ BuffersReleased
  /\ SeenIsCompleted /\ RecordedAtEnd
  /\ OpenUntilEnded /\ StoppedInOrder

\* The initial state satisfies the invariant.
LEMMA InitInv == Init => StreamInv
  <1> SUFFICES ASSUME Init PROVE StreamInv
    OBVIOUS
  <1> USE StreamAssumption DEF Init
  <1>1. TypeOK
    BY DEF TypeOK, NotRecorded, ErrChan
  <1>2. PassedIsCharged /\ Passed /\ BuffersReleased /\ SeenIsCompleted /\ RecordedAtEnd
    BY DEF PassedIsCharged, Passed, BuffersReleased, SeenIsCompleted, RecordedAtEnd
  <1>3. OpenUntilEnded /\ StoppedInOrder
    BY DEF OpenUntilEnded, StoppedInOrder, Servers, HttpServers
  <1> QED
    BY <1>1, <1>2, <1>3 DEF StreamInv

-----------------------------------------------------------------------------
\* What taking a chunk does to the variables of the request.
LEMMA TakeChunkFacts ==
  ASSUME TypeOK, NEW i \in Requests, NEW eos \in BOOLEAN, NEW complete \in BOOLEAN,
         NEW tokens \in Nat, TakeChunk(i, eos, complete, tokens)
  PROVE  /\ phase[i] = "body"
         /\ chunks' \in [Requests -> 0 .. MaxChunks]
         /\ chunks' = [chunks EXCEPT ![i] = chunks[i] + 1]
         /\ completed' \in [Requests -> BOOLEAN]
         /\ completed' = [completed EXCEPT ![i] = complete]
         /\ processingTimes' \subseteq Requests
         /\ recorded' \in [Requests -> Nat \cup {NotRecorded}]
         /\ \/ UNCHANGED recorded
            \/ ~completed[i] /\ eos /\ recorded' = [recorded EXCEPT ![i] = tokens]
         /\ counted' \in [Requests -> Nat]
         /\ stream' = stream
  BY StreamAssumption DEF TypeOK, TakeChunk, Count

\* How a chunk may end: passed on or answered with an error.
LEMMA PassOnFacts ==
  ASSUME TypeOK, NEW i \in Requests, NEW eos \in BOOLEAN, PassOn(i, eos)
  PROVE  /\ phase' = [phase EXCEPT ![i] = IF eos THEN "done" ELSE "body"]
         /\ phase' \in [Requests -> {"new", "request", "headers", "body", "failed"} \cup Ended]
         /\ passed' = [passed EXCEPT ![i] = passed[i] + 1]
         /\ passed' \in [Requests -> Nat]
  BY DEF TypeOK, PassOn, Ended

\* An error that is answered ends the response and passes nothing on.
LEMMA AnswerErrorFacts ==
  ASSUME TypeOK, NEW i \in Requests, AnswerError(i)
  PROVE  /\ phase' = [phase EXCEPT ![i] = "answered"]
         /\ phase' \in [Requests -> {"new", "request", "headers", "body", "failed"} \cup Ended]
         /\ passed' = passed
  BY DEF TypeOK, AnswerError, Ended

\* Usage is charged in full or not at all.
LEMMA ChargeFacts ==
  ASSUME TypeOK, NEW i \in Requests, NEW eos \in BOOLEAN, NEW usage \in Nat,
         Charge(i, eos, usage)
  PROVE  /\ seen' = [seen EXCEPT ![i] = seen[i] + usage]
         /\ seen' \in [Requests -> Nat] /\ charged' \in [Requests -> Nat]
         /\ \/ PassOn(i, eos) /\ charged' = [charged EXCEPT ![i] = charged[i] + usage]
            \/ AnswerError(i) /\ charged' = charged
  BY DEF TypeOK, Charge

\* What the five ways to handle a chunk have in common: usage that is charged and
\* passed on or answered with an error, and a buffer that holds the body of a
\* response that is not a stream as long as it is not complete.
Chunk(i, eos, complete, usage) ==
  /\ TakeChunk(i, eos, complete, usage)
  /\ completed[i] \/ usage # 0 => complete
  /\ seen' = [seen EXCEPT ![i] = seen[i] + usage]
  /\ seen' \in [Requests -> Nat] /\ charged' \in [Requests -> Nat]
  /\ \/ PassOn(i, eos) /\ charged' = [charged EXCEPT ![i] = charged[i] + usage]
     \/ AnswerError(i) /\ charged' = charged
  /\ \/ stream[i] /\ requestBuffers' = requestBuffers
     \/ ~stream[i] /\ ~eos /\ PassOn(i, eos) /\ requestBuffers' = requestBuffers \cup {i}
     \/ ~stream[i] /\ eos /\ requestBuffers' = requestBuffers \ {i}

\* HandleResponseBody handles a chunk in one of these ways.
LEMMA BodyFacts ==
  ASSUME TypeOK, NEW i \in Requests, HandleResponseBody(i)
  PROVE  \E eos, complete \in BOOLEAN, usage \in Nat : Chunk(i, eos, complete, usage)
  <1>0. completed[i] \in BOOLEAN /\ \A usage \in Usages : usage \in Nat
    BY StreamAssumption DEF TypeOK
  <1>1. ASSUME NEW eos \in BOOLEAN, NEW usage \in Usages, HandleStreamChunk(i, eos, usage)
        PROVE  Chunk(i, eos, completed[i] \/ usage # 0, usage)
    BY <1>0, <1>1, ChargeFacts DEF HandleStreamChunk, Chunk
  <1>2. ASSUME NEW usage \in Usages, HandleBody(i, usage)
        PROVE  Chunk(i, TRUE, completed[i] \/ usage # 0, usage)
    BY <1>0, <1>2, ChargeFacts DEF HandleBody, Chunk
  <1>3. ASSUME UNCHANGED <<seen, charged>>
        PROVE  /\ seen' = [seen EXCEPT ![i] = seen[i] + 0] /\ seen' \in [Requests -> Nat]
               /\ charged' = [charged EXCEPT ![i] = charged[i] + 0]
               /\ charged' \in [Requests -> Nat]
    BY <1>3 DEF TypeOK
  <1>4. ASSUME NEW eos \in BOOLEAN, HandleBadChunk(i, eos) PROVE Chunk(i, eos, TRUE, 0)
    BY <1>3, <1>4 DEF HandleBadChunk, Chunk
  <1>5. ASSUME HandleBodyChunk(i) PROVE Chunk(i, FALSE, completed[i], 0)
    BY <1>3, <1>5 DEF HandleBodyChunk, Chunk
  <1>6. ASSUME HandleBadBody(i) PROVE Chunk(i, TRUE, TRUE, 0)
    BY <1>3, <1>6 DEF HandleBadBody, Chunk
  <1> QED
    BY <1>0, <1>1, <1>2, <1>4, <1>5, <1>6 DEF HandleResponseBody

-----------------------------------------------------------------------------
\* A chunk keeps the invariant.
LEMMA BodyStep ==
  ASSUME StreamInv, NEW i \in Requests, HandleResponseBody(i),
         UNCHANGED <<shutdown, open>>
  PROVE  StreamInv'
  <1>0. TypeOK
    BY DEF StreamInv
  <1>1. PICK eos \in BOOLEAN, complete \in BOOLEAN, usage \in Nat :
          Chunk(i, eos, complete, usage)
    BY <1>0, BodyFacts
  <1>2. /\ phase[i] = "body"
        /\ chunks' \in [Requests -> 0 .. MaxChunks]
        /\ chunks' = [chunks EXCEPT ![i] = chunks[i] + 1]
        /\ completed' \in [Requests -> BOOLEAN]
        /\ completed' = [completed EXCEPT ![i] = complete]
        /\ processingTimes' \subseteq Requests
        /\ recorded' \in [Requests -> Nat \cup {NotRecorded}]
        /\ \/ UNCHANGED recorded
           \/ ~completed[i] /\ eos /\ recorded' = [recorded EXCEPT ![i] = usage]
        /\ counted' \in [Requests -> Nat]
        /\ stream' = stream
    BY <1>0, <1>1, TakeChunkFacts DEF Chunk
  <1>3. \/ /\ phase' = [phase EXCEPT ![i] = IF eos THEN "done" ELSE "body"]
           /\ passed' = [passed EXCEPT ![i] = passed[i] + 1]
           /\ charged' = [charged EXCEPT ![i] = charged[i] + usage]
        \/ /\ phase' = [phase EXCEPT ![i] = "answered"]
           /\ passed' = passed
           /\ charged' = charged
    BY <1>0, <1>1, PassOnFacts, AnswerErrorFacts DEF Chunk
  <1>4. /\ phase' \in [Requests -> {"new", "request", "headers", "body", "failed"} \cup Ended]
        /\ passed' \in [Requests -> Nat]
    BY <1>0, <1>3 DEF TypeOK, Ended
  <1>5. TypeOK'
    BY <1>0, <1>1, <1>2, <1>4 DEF TypeOK, Chunk, shutdown
  <1>6. \A j \in Requests \ {i} :
          /\ phase'[j] = phase[j] /\ chunks'[j] = chunks[j] /\ seen'[j] = seen[j]
          /\ charged'[j] = charged[j] /\ passed'[j] = passed[j]
          /\ recorded'[j] = recorded[j] /\ completed'[j] = completed[j]
    BY <1>0, <1>1, <1>2, <1>3 DEF TypeOK, Chunk
  <1>7. /\ chunks'[i] = chunks[i] + 1 /\ chunks[i] \in Nat /\ passed[i] \in Nat
        /\ seen'[i] = seen[i] + usage /\ seen[i] \in Nat /\ completed'[i] = complete
        /\ \/ /\ phase'[i] = (IF eos THEN "done" ELSE "body")
              /\ passed'[i] = passed[i] + 1 /\ charged'[i] = charged[i] + usage
           \/ /\ phase'[i] = "answered"
              /\ passed'[i] = passed[i] /\ charged'[i] = charged[i]
        /\ \/ recorded'[i] = recorded[i]
           \/ ~completed[i] /\ eos /\ recorded'[i] = usage
    BY <1>0, <1>1, <1>2, <1>3 DEF TypeOK, Chunk
  <1>8. PassedIsCharged' /\ Passed'
    <2>1. charged[i] = seen[i] /\ passed[i] <= chunks[i]
      BY <1>2 DEF StreamInv, PassedIsCharged, Passed
    <2>2. /\ charged'[i] # seen'[i] => phase'[i] = "answered" /\ passed'[i] < chunks'[i]
          /\ passed'[i] <= chunks'[i]
      BY <1>7, <2>1
    <2> QED
      BY <1>6, <2>2 DEF StreamInv, PassedIsCharged, Passed
  <1>9. BuffersReleased'
    <2>1. /\ \A j \in requestBuffers : ~stream[j] /\ phase[j] \in {"body", "aborted"}
          /\ requestBuffers \subseteq Requests
      BY <1>0 DEF StreamInv, BuffersReleased, TypeOK
    <2>2. CASE stream[i]
      BY <1>1, <1>2, <1>6, <2>1, <2>2 DEF BuffersReleased, Chunk
    <2>3. CASE ~stream[i] /\ ~eos /\ PassOn(i, eos)
      <3>1. phase'[i] = "body"
        BY <1>0, <2>3, PassOnFacts DEF TypeOK
      <3> QED
        BY <1>1, <1>2, <1>6, <2>1, <2>3, <3>1 DEF BuffersReleased, Chunk
    <2>4. CASE ~stream[i] /\ eos
      BY <1>1, <1>2, <1>6, <2>1, <2>4 DEF BuffersReleased, Chunk
    <2> QED
      BY <1>1, <2>2, <2>3, <2>4 DEF Chunk
  <1>10. SeenIsCompleted'
    <2>1. ~complete => ~completed[i] /\ usage = 0
      BY <1>1 DEF Chunk
    <2>2. ~completed'[i] => seen'[i] = 0
      BY <1>7, <2>1 DEF StreamInv, SeenIsCompleted
    <2> QED
      BY <1>6, <2>2 DEF StreamInv, SeenIsCompleted
  <1>11. RecordedAtEnd'
    <2>1. recorded[i] = NotRecorded
      BY <1>2 DEF StreamInv, RecordedAtEnd
    <2>2. recorded'[i] # NotRecorded =>
            recorded'[i] = seen'[i] /\ phase'[i] \in {"answered", "done"}
      BY <1>7, <2>1 DEF StreamInv, SeenIsCompleted
    <2> QED
      BY <1>6, <2>2 DEF StreamInv, RecordedAtEnd
  <1>12. OpenUntilEnded' /\ StoppedInOrder'
    BY <1>2, <1>6 DEF StreamInv, OpenUntilEnded, StoppedInOrder, shutdown, Ended
  <1> QED
    BY <1>5, <1>8, <1>9, <1>10, <1>11, <1>12 DEF StreamInv

\* A step of request i that only changes its phase, to one that is not "body" nor
\* one of a request that has not begun, keeps the invariant, as long as it leaves
\* a buffer only if it aborts the request.
LEMMA PhaseStep ==
  ASSUME StreamInv, NEW i \in Requests,
         NEW q \in {"request", "headers", "body", "failed", "answered", "aborted"},
         phase[i] \in {"new", "request", "headers", "body", "failed"},
         phase' = [phase EXCEPT ![i] = q],
         phase[i] = "body" => q = "aborted",
         \A j \in Requests \ {i} : stream'[j] = stream[j],
         stream' \in [Requests -> BOOLEAN],
         phase[i] \in {"body", "aborted"} => stream'[i] = stream[i],
         counted' \in [Requests -> Nat],
         UNCHANGED <<shutdown, completed, chunks, maps, recorded, history>>,
         \/ open' = open \cup {i} /\ servers["grpc"] = "up"
         \/ open' = open \ {i} /\ q = "aborted"
         \/ open' = open /\ phase[i] # "new"
  PROVE  StreamInv'
  <1> USE DEF maps, history, shutdown
  <1>0. TypeOK
    BY DEF StreamInv
  <1>1. TypeOK'
    BY <1>0 DEF TypeOK, Ended
  <1>2. phase'[i] = q /\ \A j \in Requests \ {i} : phase'[j] = phase[j]
    BY <1>0 DEF TypeOK
  <1>3. PassedIsCharged' /\ Passed'
    BY <1>2 DEF StreamInv, PassedIsCharged, Passed
  <1>4. BuffersReleased'
    <2> SUFFICES ASSUME NEW j \in requestBuffers
                 PROVE  ~stream'[j] /\ phase'[j] \in {"body", "aborted"}
      BY DEF BuffersReleased
    <2>1. j \in Requests /\ ~stream[j] /\ phase[j] \in {"body", "aborted"}
      BY <1>0 DEF StreamInv, BuffersReleased, TypeOK
    <2> QED
      BY <1>2, <2>1
  <1>5. SeenIsCompleted' /\ RecordedAtEnd'
    BY <1>2 DEF StreamInv, SeenIsCompleted, RecordedAtEnd
  <1>6. OpenUntilEnded'
    BY <1>2 DEF StreamInv, OpenUntilEnded, Ended
  <1>7. StoppedInOrder'
    BY DEF StreamInv, StoppedInOrder
  <1> QED
    BY <1>1, <1>3, <1>4, <1>5, <1>6, <1>7 DEF StreamInv

\* A step of the shutdown, or of Envoy closing a stream, keeps the invariant as long
\* as it stops servers in order.
LEMMA ShutdownStep ==
  ASSUME StreamInv, UNCHANGED requests, TypeOK', OpenUntilEnded', StoppedInOrder'
  PROVE  StreamInv'
  BY DEF StreamInv, requests, maps, metrics, history, PassedIsCharged, Passed,
         BuffersReleased, SeenIsCompleted, RecordedAtEnd

\* Every step keeps the invariant.
LEMMA StreamInvStep == StreamInv /\ [Next]_vars => StreamInv'
  <1> SUFFICES ASSUME StreamInv, [Next]_vars PROVE StreamInv'
    OBVIOUS
  <1>0. TypeOK
    BY DEF StreamInv
  <1> USE DEF maps, history, metrics
  <1>1. ASSUME NEW i \in Requests, Process(i) PROVE StreamInv'
    BY <1>0, <1>1, PhaseStep DEF Process, TypeOK
  <1>2. ASSUME NEW i \in Requests, Abort(i) PROVE StreamInv'
    BY <1>0, <1>2, PhaseStep DEF Abort, TypeOK
  <1>3. ASSUME NEW i \in Requests, HandleRequestBody(i), UNCHANGED <<shutdown, open>>
        PROVE  StreamInv'
    BY <1>0, <1>3, PhaseStep DEF HandleRequestBody, TypeOK
  <1>4. ASSUME NEW i \in Requests, HandleResponseHeaders(i), UNCHANGED <<shutdown, open>>
        PROVE  StreamInv'
    <2>1. phase[i] = "headers" /\ counted' \in [Requests -> Nat] /\ stream' = stream
      BY <1>0, <1>4 DEF HandleResponseHeaders, Count, TypeOK
    <2>2. PICK q \in {"body", "failed", "answered"} : phase' = [phase EXCEPT ![i] = q]
      BY <1>4 DEF HandleResponseHeaders
    <2>3. UNCHANGED <<completed, chunks, maps, recorded, history>> /\ stream \in [Requests -> BOOLEAN]
      BY <1>0, <1>4 DEF HandleResponseHeaders, TypeOK
    <2> QED
      BY <1>4, <2>1, <2>2, <2>3, PhaseStep
  <1>5. ASSUME NEW i \in Requests, ResponseErrorProcessing(i), UNCHANGED <<shutdown, open>>
        PROVE  StreamInv'
    <2>1. /\ phase[i] = "failed" /\ counted' \in [Requests -> Nat] /\ stream' = stream
          /\ phase' = [phase EXCEPT ![i] = "answered"]
          /\ stream \in [Requests -> BOOLEAN]
          /\ UNCHANGED <<completed, chunks, maps, recorded, history>>
      BY <1>0, <1>5 DEF ResponseErrorProcessing, Count, TypeOK
    <2> QED
      BY <1>5, <2>1, PhaseStep
  <1>6. ASSUME NEW i \in Requests, EndOfFile(i) PROVE StreamInv'
    <2>1. TypeOK' /\ OpenUntilEnded' /\ StoppedInOrder'
      BY <1>0, <1>6 DEF EndOfFile, requests, shutdown, TypeOK, StreamInv, OpenUntilEnded,
                        StoppedInOrder, Ended
    <2> QED
      BY <1>6, <2>1, ShutdownStep DEF EndOfFile
  <1>7. CASE Signal \/ Exit \/ \E x \in Servers : CloseServer(x)
    <2>1. TypeOK' /\ OpenUntilEnded' /\ StoppedInOrder'
      BY <1>0, <1>7 DEF Signal, CloseServer, Exit, requests, TypeOK, StreamInv,
                        OpenUntilEnded, StoppedInOrder, Servers, HttpServers
    <2> QED
      BY <1>7, <2>1, ShutdownStep DEF Signal, CloseServer, Exit
  <1>8. ASSUME NEW x \in Servers, StopServer(x) PROVE StreamInv'
    <2>1. TypeOK' /\ OpenUntilEnded' /\ StoppedInOrder'
      BY <1>0, <1>8 DEF StopServer, requests, TypeOK, StreamInv, OpenUntilEnded,
                        StoppedInOrder, Servers, HttpServers
    <2> QED
      BY <1>8, <2>1, ShutdownStep DEF StopServer
  <1>9. ASSUME NEW x \in Servers, ReportError(x) PROVE StreamInv'
    <2>1. TypeOK' /\ OpenUntilEnded' /\ StoppedInOrder'
      BY <1>0, <1>9 DEF ReportError, requests, TypeOK, StreamInv, OpenUntilEnded,
                        StoppedInOrder, Servers, HttpServers, ErrChan
    <2> QED
      BY <1>9, <2>1, ShutdownStep DEF ReportError
  <1>10. ASSUME NEW x \in HttpServers, HttpRequest(x) \/ HttpDone(x) PROVE StreamInv'
    <2>1. TypeOK' /\ OpenUntilEnded' /\ StoppedInOrder'
      BY <1>0, <1>10 DEF HttpRequest, HttpDone, requests, TypeOK, StreamInv,
                         OpenUntilEnded, StoppedInOrder, Servers, HttpServers
    <2> QED
      BY <1>10, <2>1, ShutdownStep DEF HttpRequest, HttpDone
  <1>11. CASE UNCHANGED vars
    <2>1. TypeOK' /\ OpenUntilEnded' /\ StoppedInOrder'
      BY <1>0, <1>11 DEF vars, shutdown, requests, TypeOK, StreamInv, OpenUntilEnded,
                         StoppedInOrder
    <2> QED
      BY <1>11, <2>1, ShutdownStep DEF vars
  <1> QED
    BY <1>1, <1>2, <1>3, <1>4, <1>5, <1>6, <1>7, <1>8, <1>9, <1>10, <1>11, BodyStep
       DEF Next, Handle, GracefullyShutdown

\* Every reachable state satisfies the invariant.
LEMMA StreamInvariance == Spec => []StreamInv
  BY InitInv, StreamInvStep, PTL DEF Spec

-----------------------------------------------------------------------------
\* The variables of the response path and the shutdown keep their types.
THEOREM TypeCorrect == Spec => []TypeOK
<1>1. StreamInv => TypeOK
  BY DEF StreamInv
<1> QED
  BY <1>1, StreamInvariance, PTL

\* HandleResponseBody passes nothing on after usage that it could not charge.
THEOREM NothingPassedUncharged == Spec => []PassedIsCharged
<1>1. StreamInv => PassedIsCharged
  BY DEF StreamInv
<1> QED
  BY <1>1, StreamInvariance, PTL

\* Every response that ends by itself releases its entry in requestBuffers.
THEOREM BuffersAreReleased == Spec => []BuffersReleased
<1>1. StreamInv => BuffersReleased
  BY DEF StreamInv
<1> QED
  BY <1>1, StreamInvariance, PTL

\* RecordTokenUsage is given all the usage of a response or is not called.
THEOREM RecordedInFull == Spec => []RecordedIsSeen
<1>1. StreamInv => RecordedIsSeen
  BY DEF StreamInv, RecordedAtEnd, RecordedIsSeen
<1> QED
  BY <1>1, StreamInvariance, PTL

\* GracefullyShutdown lets main exit only when no response and no HTTP request is
\* half-way.
THEOREM CleanExit == Spec => []ExitIsClean
<1>1. StreamInv => ExitIsClean
  <2> SUFFICES ASSUME StreamInv, main = "exited" PROVE ExitIsClean
    BY DEF ExitIsClean
  <2>1. \A i \in Requests : phase[i] \in Ended \cup {"new"}
    BY DEF StreamInv, StoppedInOrder, OpenUntilEnded, Servers
  <2>2. \A i \in Requests : phase[i] = "done" => charged[i] = seen[i]
    BY DEF StreamInv, PassedIsCharged
  <2>3. \A i \in requestBuffers : phase[i] = "aborted"
    BY <2>1 DEF StreamInv, BuffersReleased, TypeOK, Ended
  <2>4. busy = {}
    BY DEF StreamInv, StoppedInOrder, TypeOK, Servers
  <2> QED
    BY <2>1, <2>2, <2>3, <2>4 DEF ExitIsClean
<1> QED
  BY <1>1, StreamInvariance, PTL
=============================================================================
