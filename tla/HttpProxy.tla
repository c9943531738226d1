----------------------------- MODULE HttpProxy ------------------------------
(***************************************************************************)
(* HTTP over the tunnel (packages/tunnel-client/src/index.ts): requests    *)
(* the relay forwards to the daemon, whole or in chunks, and the answers   *)
(* sent back as one frame or as start, chunks and end, each chunk waiting  *)
(* for its acknowledgement when the relay supports them.                   *)
(*                                                                         *)
(* The relay gives every request an id of its own.  A body is a number of  *)
(* chunks: one chunk fits a frame, more are sent one by one.  A snapshot   *)
(* is read from the daemon while it is sent, so it may end short.  `seen`  *)
(* is what the relay has been told about a response.                       *)
(***************************************************************************)
EXTENDS Integers, FiniteSets

CONSTANTS HttpIds,      \* ids of the relay's HTTP requests
          BodyChunks,   \* numbers of chunks a response body may have
          UploadChunks, \* chunks of a chunked request body
          MaxReopens    \* bound: control connections after the first

ASSUME HttpBounds ==
    /\ BodyChunks \subseteq Nat \ {0} /\ UploadChunks \in Nat \ {0}
    /\ MaxReopens \in Nat

VARIABLES
    httpControl,  \* open, number, and whether the relay supports chunk acks
    drafts,       \* ChunkedHttpRequestAssembler: id -> chunks received so far
    upload,       \* chunks of the request body the relay has sent
    requests,     \* per id: mode, phase, canceled, timedOut, chunks
    pendingHttp,  \* keys of pendingHttpRequests
    pendingAck,   \* pendingHttpResponseChunkAcks: id -> sequence
    seen          \* per id: what the relay received

httpVars == <<httpControl, drafts, upload, requests, pendingHttp, pendingAck, seen>>

NoDraft == [open |-> FALSE, chunks |-> {}, body |-> 0]
NoAck == -1
Abandoned == UploadChunks + 3
Idle == [mode |-> "none", phase |-> "none", control |-> 0, canceled |-> FALSE,
         timedOut |-> FALSE, total |-> 0, sent |-> 0]
Unseen == [status |-> "none", total |-> 0, chunks |-> 0, ended |-> FALSE]

\* Sequence numbers an acknowledgement may carry, among them one past the last chunk.
AckNumbers == UNION {0..n : n \in BodyChunks}

HttpProxyInit ==
    /\ httpControl \in [number : {1}, open : {TRUE}, acks : BOOLEAN]
    /\ drafts = [i \in HttpIds |-> NoDraft]
    /\ upload = [i \in HttpIds |-> 0]
    /\ requests = [i \in HttpIds |-> Idle]
    /\ pendingHttp = {}
    /\ pendingAck = [i \in HttpIds |-> NoAck]
    /\ seen = [i \in HttpIds |-> Unseen]

\* control.send: a frame for the connection the request came on; frames sent
\* on a closed socket are dropped.
Reaches(i) == httpControl.open /\ requests[i].control = httpControl.number
Tell(i, s) == IF Reaches(i) THEN [seen EXCEPT ![i] = s] ELSE seen

ResponseStart(total) == [Unseen EXCEPT !.status = "streaming", !.total = total]
ResponseChunk(s) == [s EXCEPT !.chunks = @ + 1]
ResponseEnd(s) == [s EXCEPT !.ended = TRUE]
ResponseWhole(status) == [Unseen EXCEPT !.status = status, !.ended = TRUE]

-----------------------------------------------------------------------------
(* Requests.                                                               *)

\* proxyHttp up to its fetch: a private or foreign path is answered 404 before
\* anything is registered.
ProxyHttp(i, private) ==
    IF private
    THEN /\ requests' = [requests EXCEPT ![i] = [Idle EXCEPT !.mode = "http", !.phase = "done",
                                                   !.control = httpControl.number]]
         /\ seen' = [seen EXCEPT ![i] = ResponseWhole("404")]
         /\ UNCHANGED pendingHttp
    ELSE /\ requests' = [requests EXCEPT ![i] = [Idle EXCEPT !.mode = "http", !.phase = "fetching",
                                                   !.control = httpControl.number]]
         /\ pendingHttp' = pendingHttp \cup {i}
         /\ UNCHANGED seen

HttpRequest(i) ==
    /\ httpControl.open /\ requests[i].phase = "none" /\ upload[i] = 0
    /\ \E private \in BOOLEAN : ProxyHttp(i, private)
    /\ UNCHANGED <<httpControl, drafts, upload, pendingAck>>

\* The relay's side of a chunked request: start, then its chunks in order,
\* each possibly repeated.
RelayUploads(i) ==
    /\ httpControl.open /\ requests[i].phase = "none" /\ upload[i] <= UploadChunks
    /\ upload' = [upload EXCEPT ![i] = @ + 1]

\* ChunkedHttpRequestAssembler.start.
AssemblerStart(i) ==
    /\ upload[i] = 0
    /\ RelayUploads(i)
    /\ drafts' = [drafts EXCEPT ![i] = [NoDraft EXCEPT !.open = TRUE]]
    /\ UNCHANGED <<httpControl, requests, pendingHttp, pendingAck, seen>>

\* AddChunk without the test for a sequence number that was seen before.
AddChunkTwice(d, k) == [d EXCEPT !.chunks = @ \cup {k}, !.body = @ + 1]

\* ChunkedHttpRequestAssembler.chunk: a repeated sequence number is ignored, a
\* body that grows past its announced size drops the draft.
AddChunk(d, k) ==
    IF ~d.open \/ k \in d.chunks THEN d
    ELSE IF d.body + 1 > UploadChunks THEN NoDraft
    ELSE [d EXCEPT !.chunks = @ \cup {k}, !.body = @ + 1]

AssemblerChunk(i) ==
    /\ upload[i] > 0
    /\ RelayUploads(i)
    /\ drafts' = [drafts EXCEPT ![i] = AddChunk(@, upload[i] - 1)]
    /\ UNCHANGED <<httpControl, requests, pendingHttp, pendingAck, seen>>

\* A chunk frame the relay sent before arrives once more.
AssemblerChunkRepeats(i) ==
    /\ httpControl.open /\ upload[i] > 1 /\ requests[i].phase = "none"
    /\ \E k \in 0..(upload[i] - 2) : drafts' = [drafts EXCEPT ![i] = AddChunk(@, k)]
    /\ UNCHANGED <<httpControl, upload, requests, pendingHttp, pendingAck, seen>>

\* ChunkedHttpRequestAssembler.end: the chunks 0..n-1, all of them and no more.
Assembles(d) ==
    /\ d.open /\ d.body = UploadChunks
    /\ d.chunks = 0..(UploadChunks - 1)

\* http.request.end: the draft is gone; a whole request is proxied.
AssemblerEnd(i) ==
    /\ httpControl.open /\ upload[i] = UploadChunks + 1 /\ requests[i].phase = "none"
    /\ drafts' = [drafts EXCEPT ![i] = NoDraft]
    /\ upload' = [upload EXCEPT ![i] = UploadChunks + 2]
    /\ IF Assembles(drafts[i]) THEN ProxyHttp(i, FALSE)
       ELSE UNCHANGED <<requests, pendingHttp, seen>>
    /\ UNCHANGED <<httpControl, pendingAck>>

\* snapshot.request: refused when the relay cannot acknowledge chunks.
SnapshotRequest(i) ==
    /\ httpControl.open /\ requests[i].phase = "none" /\ upload[i] = 0
    /\ IF httpControl.acks
       THEN /\ requests' = [requests EXCEPT ![i] = [Idle EXCEPT !.mode = "snapshot",
                                !.phase = "fetching", !.control = httpControl.number]]
            /\ pendingHttp' = pendingHttp \cup {i}
            /\ UNCHANGED seen
       ELSE /\ requests' = [requests EXCEPT ![i] = [Idle EXCEPT !.mode = "snapshot",
                                !.phase = "done", !.control = httpControl.number]]
            /\ seen' = [seen EXCEPT ![i] = ResponseWhole("503")]
            /\ UNCHANGED pendingHttp
    /\ UNCHANGED <<httpControl, drafts, upload, pendingAck>>

-----------------------------------------------------------------------------
(* Responses.                                                              *)

Done(i) == [requests EXCEPT ![i].phase = "done"]

\* The timer of proxyHttp; a snapshot has none.
HttpTimeout(i) ==
    /\ requests[i].phase = "fetching" /\ requests[i].mode = "http" /\ ~requests[i].timedOut
    /\ requests' = [requests EXCEPT ![i].timedOut = TRUE]
    /\ UNCHANGED <<httpControl, drafts, upload, pendingHttp, pendingAck, seen>>

\* fetch throws, by itself or aborted: 502, or nothing when it was canceled.
FetchFails(i) ==
    /\ requests[i].phase = "fetching"
    /\ requests' = Done(i)
    /\ pendingHttp' = pendingHttp \ {i}
    /\ seen' = IF requests[i].canceled THEN seen ELSE Tell(i, ResponseWhole("502"))
    /\ UNCHANGED <<httpControl, drafts, upload, pendingAck>>

\* The daemon answered.  A body that fits is one frame.
RespondsWhole(i) ==
    /\ requests[i].phase = "fetching"
    /\ ~requests[i].canceled /\ ~requests[i].timedOut
    /\ requests' = Done(i)
    /\ pendingHttp' = pendingHttp \ {i}
    /\ seen' = Tell(i, ResponseWhole("200"))
    /\ UNCHANGED <<httpControl, drafts, upload, pendingAck>>

\* A longer body, or a snapshot with a content length, is started; its first
\* chunk waits for the acknowledgement.  Without acknowledgements nothing is
\* awaited, so the whole response goes out in this step.
RespondsInChunks(i, n) ==
    LET started == ResponseStart(n)
        waits == httpControl.acks
    IN  /\ requests[i].phase = "fetching"
        /\ n > 1 \/ requests[i].mode = "snapshot"
        /\ ~requests[i].canceled /\ ~requests[i].timedOut
        /\ requests' = [requests EXCEPT ![i].total = n,
                                        ![i].sent = IF waits THEN 1 ELSE n,
                                        ![i].phase = IF waits THEN "sending" ELSE "done"]
        /\ pendingAck' = IF waits THEN [pendingAck EXCEPT ![i] = 0] ELSE pendingAck
        /\ pendingHttp' = IF waits THEN pendingHttp ELSE pendingHttp \ {i}
        /\ seen' = Tell(i, IF waits THEN ResponseChunk(started)
                           ELSE [started EXCEPT !.chunks = n, !.ended = TRUE])
        /\ UNCHANGED <<httpControl, drafts, upload>>

\* AfterReject that ends a response the relay has cancelled.
EndsCancelled(i, canceled) ==
    IF requests[i].mode = "snapshot" THEN Tell(i, ResponseEnd(seen[i])) ELSE seen

\* What the sender does when its wait for an acknowledgement is rejected.  A
\* snapshot that was not canceled is ended short, for the relay to refuse; any
\* other response is left without an end.
AfterReject(i, canceled) ==
    IF requests[i].mode = "snapshot" /\ ~canceled
    THEN Tell(i, ResponseEnd(seen[i])) ELSE seen

\* rejectPendingHttpResponseChunkAck of a request that may just be canceled.
RejectChunk(i, canceled) ==
    /\ pendingAck' = [pendingAck EXCEPT ![i] = NoAck]
    /\ requests' = [requests EXCEPT ![i].phase = "done", ![i].canceled = canceled]
    /\ pendingHttp' = pendingHttp \ {i}
    /\ seen' = AfterReject(i, canceled)

\* After an acknowledgement: the next chunk, or the end of the response.
NextChunk(i) ==
    LET k == requests[i].sent
    IN  \/ /\ k < requests[i].total
           /\ requests' = [requests EXCEPT ![i].sent = k + 1]
           /\ pendingAck' = [pendingAck EXCEPT ![i] = k]
           /\ seen' = Tell(i, ResponseChunk(seen[i]))
           /\ UNCHANGED pendingHttp
        \/ /\ k = requests[i].total
           /\ requests' = Done(i)
           /\ pendingAck' = [pendingAck EXCEPT ![i] = NoAck]
           /\ pendingHttp' = pendingHttp \ {i}
           /\ seen' = Tell(i, ResponseEnd(seen[i]))

\* http.response.chunk.ack: the expected sequence number resolves the wait,
\* any other rejects it.
ChunkAck(i, sequence) ==
    /\ httpControl.open
    /\ pendingAck[i] # NoAck
    /\ \/ sequence = pendingAck[i] /\ NextChunk(i)
       \/ sequence # pendingAck[i] /\ RejectChunk(i, FALSE)
    /\ UNCHANGED <<httpControl, drafts, upload>>

\* ChunkAckTimeout that only guards the first chunk.
TimeoutOfFirstChunk(i) ==
    /\ pendingAck[i] = 0
    /\ RejectChunk(i, FALSE)
    /\ UNCHANGED <<httpControl, drafts, upload>>

\* The timer of sendHttpResponseChunk.
ChunkAckTimeout(i) ==
    /\ pendingAck[i] # NoAck
    /\ RejectChunk(i, FALSE)
    /\ UNCHANGED <<httpControl, drafts, upload>>

\* The daemon's snapshot body fails or ends before its content length: the
\* catch sends the end after the chunks that were acknowledged.
SnapshotBreaks(i) ==
    /\ requests[i].mode = "snapshot" /\ requests[i].phase = "sending"
    /\ requests[i].sent < requests[i].total
    /\ requests' = [requests EXCEPT ![i].total = requests[i].sent]
    /\ UNCHANGED <<httpControl, drafts, upload, pendingHttp, pendingAck, seen>>

\* http.cancel: the draft is dropped, a wait for an acknowledgement is
\* rejected, the request is marked and its fetch aborted.
HttpCancel(i) ==
    /\ httpControl.open
    /\ requests[i].phase \in {"none", "fetching", "sending"}
    /\ drafts' = [drafts EXCEPT ![i] = NoDraft]
    /\ upload' = [upload EXCEPT ![i] = IF @ > 0 THEN Abandoned ELSE @]
    /\ IF pendingAck[i] # NoAck THEN RejectChunk(i, TRUE)
       ELSE /\ requests' = IF i \in pendingHttp THEN [requests EXCEPT ![i].canceled = TRUE]
                           ELSE requests
            /\ UNCHANGED <<pendingHttp, pendingAck, seen>>
    /\ UNCHANGED httpControl

\* HttpControlCloses without abortPendingHttpResponseChunkAcks.
CloseKeepsAcks ==
    /\ httpControl.open
    /\ httpControl' = [httpControl EXCEPT !.open = FALSE, !.acks = FALSE]
    /\ requests' = [i \in HttpIds |-> IF i \in pendingHttp
                                      THEN [requests[i] EXCEPT !.canceled = TRUE]
                                      ELSE requests[i]]
    /\ pendingHttp' = {}
    /\ upload' = [i \in HttpIds |-> IF upload[i] > 0 THEN Abandoned ELSE 0]
    /\ UNCHANGED <<drafts, pendingAck, seen>>

\* The close handler of the control socket: abortPendingHttpRequests marks and
\* forgets every request, then every wait for an acknowledgement is rejected.
\* The assembler keeps its drafts; the relay does not resume an upload.
HttpControlCloses ==
    /\ httpControl.open
    /\ httpControl' = [httpControl EXCEPT !.open = FALSE, !.acks = FALSE]
    /\ requests' = [i \in HttpIds |->
                       IF i \notin pendingHttp THEN requests[i]
                       ELSE [requests[i] EXCEPT !.canceled = TRUE,
                                !.phase = IF pendingAck[i] # NoAck THEN "done" ELSE @]]
    /\ pendingHttp' = {}
    /\ pendingAck' = [i \in HttpIds |-> NoAck]
    /\ upload' = [i \in HttpIds |-> IF upload[i] > 0 THEN Abandoned ELSE 0]
    /\ UNCHANGED <<drafts, seen>>

\* A new control connection; control.ready says what the relay supports.
HttpControlReopens ==
    /\ ~httpControl.open /\ httpControl.number <= MaxReopens
    /\ \E acks \in BOOLEAN :
           httpControl' = [number |-> httpControl.number + 1, open |-> TRUE, acks |-> acks]
    /\ UNCHANGED <<drafts, upload, requests, pendingHttp, pendingAck, seen>>

HttpProxyNext ==
    \/ \E i \in HttpIds : HttpRequest(i)
    \/ \E i \in HttpIds : AssemblerStart(i)
    \/ \E i \in HttpIds : AssemblerChunk(i)
    \/ \E i \in HttpIds : AssemblerChunkRepeats(i)
    \/ \E i \in HttpIds : AssemblerEnd(i)
    \/ \E i \in HttpIds : SnapshotRequest(i)
    \/ \E i \in HttpIds : HttpTimeout(i)
    \/ \E i \in HttpIds : FetchFails(i)
    \/ \E i \in HttpIds : RespondsWhole(i)
    \/ \E i \in HttpIds, n \in BodyChunks : RespondsInChunks(i, n)
    \/ \E i \in HttpIds, k \in AckNumbers : ChunkAck(i, k)
    \/ \E i \in HttpIds : ChunkAckTimeout(i)
    \/ \E i \in HttpIds : SnapshotBreaks(i)
    \/ \E i \in HttpIds : HttpCancel(i)
    \/ HttpControlCloses
    \/ HttpControlReopens

\* Timers fire and an aborted fetch is settled.
HttpProxyFairness ==
    \A i \in HttpIds :
        /\ WF_httpVars(HttpTimeout(i))
        /\ WF_httpVars((requests[i].canceled \/ requests[i].timedOut) /\ FetchFails(i))
        /\ WF_httpVars(ChunkAckTimeout(i))

HttpProxySpec == HttpProxyInit /\ [][HttpProxyNext]_httpVars /\ HttpProxyFairness

-----------------------------------------------------------------------------

\* Once the relay has cancelled a request, or the control connection it came on
\* is gone, the relay is not sent another frame of its response: neither a
\* late 502, nor a chunk, nor the end that would make a cut body look final.
CanceledStaysSilent ==
    [][\A i \in HttpIds : requests'[i].canceled => seen'[i] = seen[i]]_httpVars

\* A wait for a chunk acknowledgement belongs to a response that is being sent
\* on the open control connection: acknowledgements of a later connection never
\* meet the wait of an earlier one.
AckWaitIsCurrent ==
    \A i \in HttpIds :
        pendingAck[i] # NoAck =>
            /\ requests[i].phase = "sending" /\ i \in pendingHttp
            /\ Reaches(i)
            /\ pendingAck[i] + 1 = requests[i].sent

\* A request uploaded in chunks is proxied when its last chunk and its end
\* arrived, even if the relay repeated some of its chunks.
RepeatedChunkIsHarmless ==
    \A i \in HttpIds : upload[i] = UploadChunks + 2 => requests[i].phase # "none"

\* No response is left half sent for ever: a relay that stops acknowledging, or
\* a daemon that never answers, ends the request by a timer.  (A snapshot that
\* has not started has no timer: only a cancel or the connection ends it.)
EveryHttpRequestEnds ==
    \A i \in HttpIds :
        (requests[i].phase = "sending" \/ (requests[i].phase = "fetching" /\ requests[i].mode = "http"))
            ~> requests[i].phase = "done"

\* A proxied request keeps its acknowledgements and its chunks apart from those of
\* any other connection, is silent once cancelled, and ends.
HttpIsSound ==
    /\ [](AckWaitIsCurrent /\ RepeatedChunkIsHarmless)
    /\ CanceledStaysSilent /\ EveryHttpRequestEnds
=============================================================================
