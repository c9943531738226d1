--------------------------- MODULE DocumentStream ---------------------------
(***************************************************************************)
(* One document stream of the tunnel: StreamMux                            *)
(* (packages/tunnel-client/src/stream-mux.ts) between the loopback socket  *)
(* to the daemon and the control connection, and the DocumentStreamCodec   *)
(* (packages/tunnel-protocol/src/index.ts) that both ends of the tunnel    *)
(* use.  Streams share nothing but the control connection, so one is       *)
(* enough.  A message is a sequence of bytes, each byte the number of its  *)
(* message, so that a wrong reassembly shows.                              *)
(*                                                                         *)
(* The relay's end is external: it runs the same codec, forgets a stream   *)
(* with the control connection it was opened on, and answers a frame of a  *)
(* stream it does not know with ws.close.                                  *)
(***************************************************************************)
EXTENDS Naturals, Sequences, SequencesExt, FiniteSets, FiniteSetsExt

CONSTANTS ChunkBytes, WindowBytes, MessageByteLimit,
          OutSizes,   \* lengths of the loopback's messages
          InSizes,    \* and of the browser's
          MaxSent     \* bound: messages of both ends

ASSUME StreamBounds ==
    /\ ChunkBytes \in Nat \ {0} /\ WindowBytes \in Nat /\ MessageByteLimit \in Nat
    /\ OutSizes \subseteq Nat /\ InSizes \subseteq Nat /\ MaxSent \in Nat

VARIABLES
    control,    \* the control connection is open
    mux,        \* the MuxStream record of the stream, and whether streams holds it
    loopback,   \* readyState of the loopback socket
    toRelay,    \* frames on the control connection
    toDaemon,
    remote,     \* the relay's end: it knows the stream, and its codec
    outSent, outGot,   \* history: loopback -> browser
    inSent, inGot,     \* history: browser -> loopback
    ackLost     \* history: the control connection went down under the stream

streamVars == <<control, mux, loopback, toRelay, toDaemon, remote,
                outSent, outGot, inSent, inGot, ackLost>>

----------------------------------------------------------------------------
(* DocumentStreamCodec                                                     *)

ByteCount(messages) == Cardinality(UNION {{i} \X DOMAIN messages[i] : i \in DOMAIN messages})
Bytes(frames) == ByteCount([i \in DOMAIN frames |-> frames[i].bytes])

NewCodec == [txSeq |-> 0, unacked |-> 0, unackedBySeq |-> {}, outbound |-> <<>>,
             inbound |-> <<>>]

\* The chunks of a message: an empty one is a single empty final frame.
ChunkCount(bytes) == IF bytes = <<>> THEN 1
                     ELSE (Len(bytes) + ChunkBytes - 1) \div ChunkBytes

ChunksWithoutEmpty(codec, bytes) ==   \* mutant: an empty message has no frame
    [codec EXCEPT !.outbound = @ \o
        [i \in 1..((Len(bytes) + ChunkBytes - 1) \div ChunkBytes) |->
            [type |-> "ws.data", seq |-> codec.txSeq + i - 1,
             bytes |-> SubSeq(bytes, (i - 1) * ChunkBytes + 1,
                              Min({i * ChunkBytes, Len(bytes)})),
             fin |-> i * ChunkBytes >= Len(bytes)]]]

Enqueue(codec, bytes) ==
    LET n == ChunkCount(bytes)
        frame(i) == [type |-> "ws.data", seq |-> codec.txSeq + i - 1,
                     bytes |-> SubSeq(bytes, (i - 1) * ChunkBytes + 1,
                                      Min({i * ChunkBytes, Len(bytes)})),
                     fin |-> i = n]
    IN  [codec EXCEPT !.txSeq = @ + n,
                      !.outbound = @ \o [i \in 1..n |-> frame(i)]]

\* How many frames pullSendable takes: each fits in the window, and one goes
\* out whatever its size when nothing is outstanding.
Sendable(codec) ==
    LET before(i) == codec.unacked + Bytes(SubSeq(codec.outbound, 1, i - 1))
        fits(i) == before(i) = 0 \/ before(i) + Len(codec.outbound[i].bytes) <= WindowBytes
    IN  Max({n \in 0..Len(codec.outbound) : \A i \in 1..n : fits(i)})

PullSendable(codec) ==
    LET n == Sendable(codec)
        frames == SubSeq(codec.outbound, 1, n)
        counted == {i \in 1..n : frames[i].bytes # <<>>}
    IN  [frames |-> frames,
         codec |-> [codec EXCEPT
            !.outbound = SubSeq(@, n + 1, Len(@)),
            !.unacked = @ + Bytes(frames),
            !.unackedBySeq = @ \cup {<<frames[i].seq, Len(frames[i].bytes)>> : i \in counted}]]

IngestFails(codec, frame) == Len(codec.inbound) + Len(frame.bytes) > MessageByteLimit

\* ingest of a frame within the limit: the message when the frame was its last.
Ingest(codec, frame) ==
    LET whole == codec.inbound \o frame.bytes
    IN  [codec |-> [codec EXCEPT !.inbound = IF frame.fin THEN <<>> ELSE whole],
         message |-> whole]

OnAckFrames(codec, seq) ==   \* mutant: an ack gives back one byte instead of the frame's
    LET held == {e \in codec.unackedBySeq : e[1] = seq}
    IN  [codec EXCEPT !.unackedBySeq = @ \ held,
                      !.unacked = IF @ > Cardinality(held) THEN @ - Cardinality(held) ELSE 0]

OnAck(codec, seq) ==
    LET held == {e \in codec.unackedBySeq : e[1] = seq}
    IN  IF held = {} THEN codec
        ELSE LET e == CHOOSE x \in held : TRUE
             IN  [codec EXCEPT !.unackedBySeq = @ \ {e},
                               !.unacked = IF @ > e[2] THEN @ - e[2] ELSE 0]

----------------------------------------------------------------------------
(* StreamMux                                                               *)

Close == [type |-> "ws.close"]
Ack(frame) == [type |-> "ws.data.ack", seq |-> frame.seq]

StreamInit ==
    /\ control = TRUE
    /\ mux = [live |-> FALSE, codec |-> NewCodec, loopbackOpen |-> FALSE,
              paused |-> FALSE, pendingInbound |-> <<>>]
    /\ loopback = "none"
    /\ toRelay = <<>>
    /\ toDaemon = <<[type |-> "ws.open"]>>
    /\ remote = [known |-> TRUE, codec |-> NewCodec]
    /\ outSent = <<>> /\ outGot = <<>> /\ inSent = <<>> /\ inGot = <<>>
    /\ ackLost = FALSE

\* sendControlJson: without an open control connection the frames are dropped.
SendFrames(frames) == toRelay' = IF control THEN toRelay \o frames ELSE toRelay

FlushNeverResumes(m) ==   \* mutant: a loopback that was paused stays paused
    LET pulled == PullSendable(m.codec)
    IN  /\ SendFrames(pulled.frames)
        /\ mux' = [m EXCEPT !.codec = pulled.codec,
                            !.paused = @ \/ pulled.codec.outbound # <<>>]

\* flushOutbound: send what the window allows, pause the loopback while more
\* is waiting.
FlushOutbound(m) ==
    LET pulled == PullSendable(m.codec)
    IN  /\ SendFrames(pulled.frames)
        /\ mux' = [m EXCEPT !.codec = pulled.codec,
                            !.paused = pulled.codec.outbound # <<>>]

\* Closing a socket that is still connecting is left out by the code.
CloseLoopback == loopback' = IF loopback = "open" THEN "closing" ELSE loopback

TearDown(m) ==
    /\ mux' = [m EXCEPT !.live = FALSE]
    /\ SendFrames(<<Close>>)
    /\ CloseLoopback

HandleOpen ==
    /\ mux' = [mux EXCEPT !.live = TRUE]
    /\ loopback' = IF mux.live THEN loopback ELSE "connecting"
    /\ UNCHANGED <<toRelay, inGot>>

\* A message written to the loopback; a socket that is closing swallows it.
WriteLoopback(messages) ==
    inGot' = IF loopback = "open" THEN inGot \o messages ELSE inGot

HandleData(frame) ==
    LET r == Ingest(mux.codec, frame)
        m == [mux EXCEPT !.codec = r.codec]
        overflow == ByteCount(mux.pendingInbound) + Len(r.message) > WindowBytes
    IN  \/ ~mux.live /\ UNCHANGED <<mux, toRelay, loopback, inGot>>
        \/ /\ mux.live /\ IngestFails(mux.codec, frame)
           /\ TearDown([mux EXCEPT !.codec.inbound = <<>>])
           /\ UNCHANGED inGot
        \/ /\ mux.live /\ ~IngestFails(mux.codec, frame) /\ ~frame.fin
           /\ mux' = m
           /\ SendFrames(<<Ack(frame)>>)
           /\ UNCHANGED <<loopback, inGot>>
        \/ /\ mux.live /\ ~IngestFails(mux.codec, frame) /\ frame.fin /\ mux.loopbackOpen
           /\ mux' = m
           /\ WriteLoopback(<<r.message>>)
           /\ SendFrames(<<Ack(frame)>>)
           /\ UNCHANGED loopback
        \/ /\ mux.live /\ ~IngestFails(mux.codec, frame) /\ frame.fin /\ ~mux.loopbackOpen
           /\ \/ overflow /\ TearDown(m)
              \/ /\ ~overflow
                 /\ mux' = [m EXCEPT !.pendingInbound = Append(@, r.message)]
                 /\ SendFrames(<<Ack(frame)>>)
                 /\ UNCHANGED loopback
           /\ UNCHANGED inGot

HandleDataAck(frame) ==
    /\ IF mux.live
       THEN FlushOutbound([mux EXCEPT !.codec = OnAck(@, frame.seq)])
       ELSE UNCHANGED <<mux, toRelay>>
    /\ UNCHANGED <<loopback, inGot>>

HandleClose ==
    /\ mux' = [mux EXCEPT !.live = FALSE]
    /\ IF mux.live THEN CloseLoopback ELSE UNCHANGED loopback
    /\ UNCHANGED <<toRelay, inGot>>

\* The control connection hands the next frame to the mux.
ControlFrame ==
    /\ control /\ toDaemon # <<>>
    /\ LET frame == Head(toDaemon)
       IN  CASE frame.type = "ws.open" -> HandleOpen
             [] frame.type = "ws.data" -> HandleData(frame)
             [] frame.type = "ws.data.ack" -> HandleDataAck(frame)
             [] frame.type = "ws.close" -> HandleClose
    /\ toDaemon' = Tail(toDaemon)
    /\ UNCHANGED <<control, remote, outSent, outGot, inSent, ackLost>>

OpenKeepsLastOnly ==   \* mutant: only the newest buffered message is written
    /\ loopback = "connecting"
    /\ loopback' = "open"
    /\ inGot' = IF mux.pendingInbound = <<>> THEN inGot
                ELSE Append(inGot, Last(mux.pendingInbound))
    /\ mux' = [mux EXCEPT !.loopbackOpen = TRUE, !.pendingInbound = <<>>]
    /\ UNCHANGED <<control, toRelay, toDaemon, remote, outSent, outGot, inSent, ackLost>>

\* loopback 'open': what arrived before is written now.  The listener holds
\* the stream record, so it runs for a stream that is closed already, too.
LoopbackOpens ==
    /\ loopback = "connecting"
    /\ loopback' = "open"
    /\ inGot' = inGot \o mux.pendingInbound
    /\ mux' = [mux EXCEPT !.loopbackOpen = TRUE, !.pendingInbound = <<>>]
    /\ UNCHANGED <<control, toRelay, toDaemon, remote, outSent, outGot, inSent, ackLost>>

\* loopback 'message': a paused socket hands none over.
LoopbackMessage ==
    /\ loopback = "open" /\ ~mux.paused
    /\ Len(outSent) + Len(inSent) < MaxSent
    /\ \E n \in OutSizes :
         LET message == [i \in 1..n |-> Len(outSent) + 1]
         IN  /\ outSent' = Append(outSent, message)
             /\ FlushOutbound([mux EXCEPT !.codec = Enqueue(@, message)])
    /\ UNCHANGED <<control, loopback, toDaemon, remote, outGot, inSent, inGot, ackLost>>

\* The daemon starts to close the socket: from here on it swallows messages.
LoopbackClosing ==
    /\ loopback = "open"
    /\ loopback' = "closing"
    /\ UNCHANGED <<control, mux, toRelay, toDaemon, remote, outSent, outGot,
                   inSent, inGot, ackLost>>

\* loopback 'close', by the daemon, by the mux or because it never opened.
LoopbackCloses ==
    /\ loopback \in {"connecting", "closing"}
    /\ loopback' = "closed"
    /\ mux' = [mux EXCEPT !.live = FALSE]
    /\ IF mux.live THEN SendFrames(<<Close>>) ELSE UNCHANGED toRelay
    /\ UNCHANGED <<control, toDaemon, remote, outSent, outGot, inSent, inGot, ackLost>>

\* disposeAll, from stop() of the tunnel client.
DisposeAll ==
    /\ control
    /\ control' = FALSE /\ ackLost' = TRUE
    /\ toRelay' = <<>> /\ toDaemon' = <<>>
    /\ mux' = [mux EXCEPT !.live = FALSE]
    /\ IF mux.live THEN CloseLoopback ELSE UNCHANGED loopback
    /\ remote' = [remote EXCEPT !.known = FALSE]
    /\ UNCHANGED <<outSent, outGot, inSent, inGot>>

----------------------------------------------------------------------------
(* The control connection and the relay's end                              *)

\* The close listener of the control socket does not touch the mux.
ControlLost ==
    /\ control
    /\ control' = FALSE /\ ackLost' = TRUE
    /\ toRelay' = <<>> /\ toDaemon' = <<>>
    /\ remote' = [remote EXCEPT !.known = FALSE]
    /\ UNCHANGED <<mux, loopback, outSent, outGot, inSent, inGot>>

ControlReconnects ==
    /\ ~control /\ mux.live
    /\ control' = TRUE
    /\ UNCHANGED <<mux, loopback, toRelay, toDaemon, remote, outSent, outGot,
                   inSent, inGot, ackLost>>

RemoteFlush(codec) ==
    LET pulled == PullSendable(codec)
    IN  /\ toDaemon' = toDaemon \o pulled.frames
        /\ remote' = [remote EXCEPT !.codec = pulled.codec]

\* The relay's receiving side reads a frame of the control connection.
RemoteFrame ==
    /\ control /\ toRelay # <<>>
    /\ toRelay' = Tail(toRelay)
    /\ LET frame == Head(toRelay)
           r == Ingest(remote.codec, frame)
       IN  CASE frame.type = "ws.close" ->
                  /\ remote' = [remote EXCEPT !.known = FALSE]
                  /\ UNCHANGED <<toDaemon, outGot>>
             [] frame.type # "ws.close" /\ ~remote.known ->
                  /\ toDaemon' = Append(toDaemon, Close)
                  /\ UNCHANGED <<remote, outGot>>
             [] frame.type = "ws.data" /\ remote.known ->
                  \/ /\ IngestFails(remote.codec, frame)
                     /\ remote' = [remote EXCEPT !.known = FALSE]
                     /\ toDaemon' = Append(toDaemon, Close)
                     /\ UNCHANGED outGot
                  \/ /\ ~IngestFails(remote.codec, frame)
                     /\ remote' = [remote EXCEPT !.codec = r.codec]
                     /\ toDaemon' = Append(toDaemon, Ack(frame))
                     /\ outGot' = IF frame.fin THEN Append(outGot, r.message) ELSE outGot
             [] frame.type = "ws.data.ack" /\ remote.known ->
                  /\ RemoteFlush(OnAck(remote.codec, frame.seq))
                  /\ UNCHANGED outGot
    /\ UNCHANGED <<control, mux, loopback, outSent, inSent, inGot, ackLost>>

\* The browser writes a message, or leaves.
RemoteSends ==
    /\ control /\ remote.known /\ Len(outSent) + Len(inSent) < MaxSent
    /\ \E n \in InSizes :
         LET message == [i \in 1..n |-> Len(inSent) + 1]
         IN  /\ inSent' = Append(inSent, message)
             /\ RemoteFlush(Enqueue(remote.codec, message))
    /\ UNCHANGED <<control, mux, loopback, toRelay, outSent, outGot, inGot, ackLost>>

RemoteCloses ==
    /\ control /\ remote.known
    /\ remote' = [remote EXCEPT !.known = FALSE]
    /\ toDaemon' = Append(toDaemon, Close)
    /\ UNCHANGED <<control, mux, loopback, toRelay, outSent, outGot, inSent, inGot, ackLost>>

StreamNext ==
    \/ ControlFrame \/ LoopbackOpens \/ LoopbackMessage \/ LoopbackClosing \/ LoopbackCloses
    \/ DisposeAll
    \/ ControlLost \/ ControlReconnects
    \/ RemoteFrame \/ RemoteSends \/ RemoteCloses

\* Frames are read, and a loopback that is asked to opens or closes.
StreamFairness ==
    /\ WF_streamVars(ControlFrame) /\ WF_streamVars(RemoteFrame)
    /\ WF_streamVars(loopback = "connecting" /\ (LoopbackOpens \/ LoopbackCloses))
    /\ WF_streamVars(loopback = "closing" /\ LoopbackCloses)

StreamSpec == StreamInit /\ [][StreamNext]_streamVars /\ StreamFairness
----------------------------------------------------------------------------
(* Properties                                                              *)

\* Either direction of a stream is a pipe.  The one to the browser is up while
\* the relay knows the stream, the one to the daemon while the mux holds it, on
\* the control connection it was opened on, with a loopback that takes writes.
ToBrowser == INSTANCE MessagePipe
                WITH sent <- outSent, received <- outGot, up <- remote.known

ToLoopback == INSTANCE MessagePipe
                WITH sent <- inSent, received <- inGot,
                     up <- /\ ~ackLost
                           /\ \/ loopback = "none"
                              \/ mux.live /\ loopback # "closing"

\* Whole messages of the document reach the browser in the order the loopback
\* socket gave them out, split into chunks and held back by the send window.
ReachesBrowser == ToBrowser!PipeSpec

\* The same for the browser's messages: the ones that arrive before the
\* loopback socket is open are written first, and none is skipped.
ReachesLoopback == ToLoopback!PipeSpec

\* The bytes of entries of unackedBySeq.
EntryBytes(entries) == Cardinality(UNION {{e} \X (1..e[2]) : e \in entries})

\* Credit is neither lost nor made up: on one control connection the bytes the
\* codec holds against the window are those of the frames the relay has still
\* to read and of the acks on their way back, and never exceed the window, or
\* the one chunk that goes out whatever its size.
CreditIsConserved ==
    LET data == {i \in DOMAIN toRelay : toRelay[i].type = "ws.data"}
        acked == {f.seq : f \in {g \in Range(toDaemon) : g.type = "ws.data.ack"}}
        returning == {e \in mux.codec.unackedBySeq : e[1] \in acked}
    IN  mux.live /\ remote.known =>
          /\ mux.codec.unacked = Bytes([i \in data |-> toRelay[i]]) + EntryBytes(returning)
          /\ mux.codec.unacked <= Max({WindowBytes, ChunkBytes})

\* A loopback socket that was paused for want of credit is resumed, unless the
\* stream ends or its control connection goes down.
PauseEnds == mux.paused /\ mux.live ~> ~mux.paused \/ ~mux.live \/ ackLost

\* The stream implements the abstract pipe in both directions, and backpressure
\* never stops it for good.
StreamIsAPipe == ReachesBrowser /\ ReachesLoopback /\ PauseEnds
============================================================================
