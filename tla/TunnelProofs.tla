---------------------------- MODULE TunnelProofs ----------------------------
(***************************************************************************)
(* The tunnel's control connection: the relay's cache is never taken for   *)
(* current when it is not, and a disconnect sticks, for every number of    *)
(* control sockets, of vault changes and of heartbeat misses.  The relay's *)
(* calls over it: what the relay is told about a call is true of the       *)
(* daemon, and a cancel frame reaches the call it names, for every number  *)
(* of calls, of control connections and of request ids.  The requests it   *)
(* proxies: acknowledgements, repeated chunks and cancels, for every       *)
(* number of requests and every length of a body.                          *)
(***************************************************************************)
EXTENDS TunnelControl, RelayRpc, HttpProxy, FiniteSetTheorems, SequenceTheorems, TLAPS

----------------------------------------------------------------------------
(* The inductive invariant of the control connection. *)

SockState == {"none", "connecting", "open", "closing", "closed"}

ClientType ==
    [stopped : BOOLEAN, hasStarted : BOOLEAN, control : Conn \cup {NoConn},
     reconnectTimer : Conn \cup {NoConn}, epoch : Nat, subscribed : BOOLEAN]

RelayType == [registered : Conn \cup {NoConn}, epoch : Nat, cache : 0..NoCache]

\* The types of what the invariant speaks of.
ControlTypeOK ==
    /\ client \in ClientType
    /\ sock \in [Conn -> SockState]
    /\ fate \in [Conn -> {"none", "lost", "replaced"}]
    /\ up \in [Conn -> Seq(TunnelFrame)]
    /\ version \in 0..MaxMutations
    /\ relay \in RelayType

\* Sockets are opened in the order of their numbers, and the ones the client,
\* the relay and the network speak of have been opened.
SocketsOK ==
    /\ \E n \in 0..MaxConn : {c \in Conn : sock[c] # "none"} = 1..n
    /\ client.control # NoConn => sock[client.control] # "none"
    /\ \A c \in Conn : fate[c] # "none" => sock[c] # "none"
    /\ \A c \in Conn : sock[c] \in {"none", "connecting"} => up[c] = <<>>
    /\ relay.registered # NoConn => sock[relay.registered] \notin {"none", "connecting"}

\* A client that runs, or has a socket, holds the subscription; one that never
\* started has sent nothing.
ClientOK ==
    /\ ~client.stopped => client.hasStarted /\ client.subscribed
    /\ client.control # NoConn => client.subscribed
    /\ ~client.hasStarted => relay.registered = NoConn /\ \A c \in Conn : sock[c] = "none"
    /\ relay.registered = NoConn => relay.cache = NoCache

\* A hello is the first frame of its socket, and read before it registers.
HelloOK ==
    \A c \in Conn : \A i \in DOMAIN up[c] :
        up[c][i].type = "hello" => i = 1 /\ relay.registered # c

\* No epoch is ahead of the client's.
EpochsOK ==
    /\ \A c \in Conn : \A i \in DOMAIN up[c] : up[c][i].type # "data" => up[c][i].epoch <= client.epoch
    /\ relay.registered # NoConn => relay.epoch <= client.epoch

\* What is cached, or on its way into the cache, is current, or the client's
\* epoch is ahead of the one the relay will cache it under.
StaleIsFenced ==
    client.subscribed =>
      /\ relay.cache \in {NoCache, version} \/ relay.epoch < client.epoch
      /\ \A c \in Conn : \A i \in DOMAIN up[c] :
           up[c][i].type = "data" /\ up[c][i].version # version =>
             /\ relay.registered = c => relay.epoch < client.epoch
             /\ \A j \in 1..(i - 1) : up[c][j].type # "data" => up[c][j].epoch < client.epoch

\* The relay knows the epoch of the client, or will once it has read the frames
\* of the control socket, or does not listen to that socket any more.
EpochIsAnnounced ==
    LET c == client.control
    IN  c # NoConn /\ sock[c] = "open" =>
          \/ \E i \in DOMAIN up[c] : /\ up[c][i].type # "data" /\ up[c][i].epoch = client.epoch
                                     /\ \A j \in DOMAIN up[c] : j > i => up[c][j].type = "data"
          \/ /\ relay.registered = c /\ relay.epoch = client.epoch
             /\ \A j \in DOMAIN up[c] : up[c][j].type = "data"
          \/ relay.registered # c /\ \A i \in DOMAIN up[c] : up[c][i].type # "hello"

ControlInv ==
    /\ ControlTypeOK /\ SocketsOK /\ ClientOK /\ HelloOK /\ EpochsOK
    /\ StaleIsFenced /\ EpochIsAnnounced
----------------------------------------------------------------------------
(* Frames, sockets and the client's fields. *)

\* A socket that has a number is not NoConn.
LEMMA ConnFacts == NoConn \notin Conn /\ NoCache \notin 0..MaxMutations /\ NoCache \in 0..NoCache
                   /\ 0..MaxMutations \subseteq 0..NoCache /\ NoCache \in Nat
BY ControlBounds DEF NoConn, Conn, NoCache

\* A frame goes to the end of its socket's.
LEMMA SendFacts ==
    ASSUME ControlTypeOK, NEW c \in Conn, NEW frame \in TunnelFrame, Send(c, frame)
    PROVE  /\ up' \in [Conn -> Seq(TunnelFrame)]
           /\ \A d \in Conn \ {c} : up'[d] = up[d]
           /\ Len(up[c]) \in Nat /\ DOMAIN up[c] = 1..Len(up[c]) /\ DOMAIN up'[c] = 1..(Len(up[c]) + 1)
           /\ \A i \in DOMAIN up[c] : i \in DOMAIN up'[c] /\ up'[c][i] = up[c][i]
           /\ up'[c][Len(up[c]) + 1] = frame /\ Len(up[c]) + 1 \in DOMAIN up'[c]
           /\ \A i \in DOMAIN up'[c] : i \in DOMAIN up[c] \/ i = Len(up[c]) + 1
           /\ up[c] = <<>> => DOMAIN up[c] = {} /\ DOMAIN up'[c] = {1}
<1>1. up \in [Conn -> Seq(TunnelFrame)] /\ up[c] \in Seq(TunnelFrame)
  BY DEF ControlTypeOK
<1>2. Append(up[c], frame) \in Seq(TunnelFrame)
  BY <1>1
<1>3. /\ up' \in [Conn -> Seq(TunnelFrame)] /\ up'[c] = Append(up[c], frame)
      /\ \A d \in Conn \ {c} : up'[d] = up[d]
  BY <1>1, <1>2 DEF Send
<1>4. /\ Len(up[c]) \in Nat /\ DOMAIN up[c] = 1..Len(up[c]) /\ DOMAIN up'[c] = 1..(Len(up[c]) + 1)
      /\ \A i \in DOMAIN up[c] : up'[c][i] = up[c][i]
      /\ up'[c][Len(up[c]) + 1] = frame
  BY <1>1, <1>3
<1>5. /\ \A i \in DOMAIN up[c] : i \in DOMAIN up'[c]
      /\ Len(up[c]) + 1 \in DOMAIN up'[c]
      /\ \A i \in DOMAIN up'[c] : i \in DOMAIN up[c] \/ i = Len(up[c]) + 1
  BY <1>4
<1>6. up[c] = <<>> => DOMAIN up[c] = {} /\ DOMAIN up'[c] = {1}
  BY <1>1, <1>4, EmptySeq
<1> QED
  BY <1>3, <1>4, <1>5, <1>6

\* The relay takes the first frame of a socket.
LEMMA ReadFacts ==
    ASSUME ControlTypeOK, NEW c \in Conn, up[c] # <<>>, up' = [up EXCEPT ![c] = Tail(@)]
    PROVE  /\ up' \in [Conn -> Seq(TunnelFrame)]
           /\ \A d \in Conn \ {c} : up'[d] = up[d]
           /\ Head(up[c]) = up[c][1] /\ up[c][1] \in TunnelFrame /\ 1 \in DOMAIN up[c]
           /\ \A i \in DOMAIN up'[c] : i \in Nat /\ i >= 1 /\ i + 1 \in DOMAIN up[c] /\ up'[c][i] = up[c][i + 1]
           /\ \A i \in DOMAIN up[c] : i \in Nat /\ (i = 1 \/ (i - 1 \in DOMAIN up'[c] /\ up'[c][i - 1] = up[c][i]))
<1>1. up \in [Conn -> Seq(TunnelFrame)] /\ up[c] \in Seq(TunnelFrame)
  BY DEF ControlTypeOK
<1>2. /\ Tail(up[c]) \in Seq(TunnelFrame) /\ Len(Tail(up[c])) = Len(up[c]) - 1
      /\ \A i \in 1..Len(Tail(up[c])) : Tail(up[c])[i] = up[c][i + 1]
  BY <1>1, HeadTailProperties
<1>3. /\ up' \in [Conn -> Seq(TunnelFrame)] /\ up'[c] = Tail(up[c])
      /\ \A d \in Conn \ {c} : up'[d] = up[d]
  BY <1>1, <1>2
<1>4. /\ Len(up[c]) \in Nat /\ DOMAIN up[c] = 1..Len(up[c]) /\ Len(up[c]) > 0
      /\ Head(up[c]) = up[c][1] /\ up[c][1] \in TunnelFrame
  BY <1>1
<1>5. DOMAIN up'[c] = 1..(Len(up[c]) - 1)
  BY <1>1, <1>2, <1>3, LenProperties
<1>6. /\ 1 \in DOMAIN up[c]
      /\ \A i \in DOMAIN up'[c] : i \in Nat /\ i >= 1 /\ i + 1 \in DOMAIN up[c] /\ up'[c][i] = up[c][i + 1]
      /\ \A i \in DOMAIN up[c] : i \in Nat /\ (i = 1 \/ (i - 1 \in DOMAIN up'[c] /\ up'[c][i - 1] = up[c][i]))
  BY <1>2, <1>3, <1>4, <1>5
<1> QED
  BY <1>3, <1>4, <1>6

\* connectControl takes a socket that has not been opened.
LEMMA ConnectFacts ==
    ASSUME ControlTypeOK, SocketsOK, NEW cl, ConnectControl(cl)
    PROVE  \E c \in Conn : /\ sock[c] = "none"
                           /\ client' = [cl EXCEPT !.control = c]
                           /\ sock' = [sock EXCEPT ![c] = "connecting"]
                           /\ \E n \in 0..MaxConn : {d \in Conn : sock'[d] # "none"} = 1..n
<1>1. PICK n \in 0..MaxConn : {d \in Conn : sock[d] # "none"} = 1..n
  BY DEF SocketsOK
<1>2. Cardinality(1..n) = n
  BY <1>1, ControlBounds, FS_Interval
<1>3. Opened = n
  BY <1>1, <1>2 DEF Opened
<1> DEFINE c == n + 1
<1>4. /\ c \in Conn /\ client' = [cl EXCEPT !.control = c] /\ sock' = [sock EXCEPT ![c] = "connecting"]
  BY <1>3 DEF ConnectControl
<1>5. sock[c] = "none"
  <2>1. c \notin 1..n
    BY <1>1
  <2> QED
    BY <1>1, <1>4, <2>1
<1>6. c \in 0..MaxConn /\ 1..c = 1..n \cup {c} /\ 1..c \subseteq Conn
  BY <1>1, <1>4, ControlBounds DEF Conn
<1>7. \A d \in Conn : sock'[d] # "none" <=> sock[d] # "none" \/ d = c
  BY <1>4 DEF ControlTypeOK
<1>8. {d \in Conn : sock'[d] # "none"} = 1..c
  BY <1>1, <1>6, <1>7
<1> QED
  BY <1>4, <1>5, <1>6, <1>8

\* Steps that send and read nothing keep the facts about epochs.
LEMMA QuietStep ==
    ASSUME ControlInv, UNCHANGED <<up, version, relay>>, client'.epoch = client.epoch,
           client'.subscribed => client.subscribed
    PROVE  HelloOK' /\ EpochsOK' /\ StaleIsFenced'
<1>1. HelloOK /\ EpochsOK /\ StaleIsFenced
  BY DEF ControlInv
<1> QED
  BY <1>1 DEF HelloOK, EpochsOK, StaleIsFenced
\* The frames of a socket: their epochs are numbers.
LEMMA FrameEpoch ==
    ASSUME ControlTypeOK
    PROVE  \A c \in Conn : \A i \in DOMAIN up[c] :
             /\ up[c][i] \in TunnelFrame /\ i \in Nat
             /\ up[c][i].type # "data" => up[c][i].epoch \in Nat
<1> SUFFICES ASSUME NEW c \in Conn, NEW i \in DOMAIN up[c]
             PROVE  up[c][i] \in TunnelFrame /\ i \in Nat /\ (up[c][i].type # "data" => up[c][i].epoch \in Nat)
  OBVIOUS
<1>1. up[c] \in Seq(TunnelFrame)
  BY DEF ControlTypeOK
<1>2. up[c][i] \in TunnelFrame /\ i \in Nat
  BY <1>1
<1> QED
  BY <1>2 DEF TunnelFrame

\* Every position before a frame of a socket holds a frame.
LEMMA EarlierFrame ==
    ASSUME ControlTypeOK
    PROVE  \A c \in Conn : \A i \in DOMAIN up[c] : \A j \in 1..(i - 1) : j \in DOMAIN up[c]
<1> SUFFICES ASSUME NEW c \in Conn, NEW i \in DOMAIN up[c], NEW j \in 1..(i - 1)
             PROVE  j \in DOMAIN up[c]
  OBVIOUS
<1>1. up[c] \in Seq(TunnelFrame)
  BY DEF ControlTypeOK
<1>2. DOMAIN up[c] = 1..Len(up[c]) /\ Len(up[c]) \in Nat
  BY <1>1
<1> QED
  BY <1>2

\* What every step below starts from.
LEMMA ControlFacts ==
    ASSUME ControlInv
    PROVE  /\ ControlTypeOK /\ SocketsOK /\ ClientOK /\ HelloOK /\ EpochsOK /\ StaleIsFenced /\ EpochIsAnnounced
           /\ NoConn \notin Conn
           /\ client.control \in Conn \cup {NoConn} /\ relay.registered \in Conn \cup {NoConn}
           /\ client.epoch \in Nat /\ relay.epoch \in Nat
           /\ sock \in [Conn -> SockState] /\ fate \in [Conn -> {"none", "lost", "replaced"}]
BY ConnFacts DEF ControlInv, ControlTypeOK, ClientType, RelayType

\* The heartbeat may close the control socket, and nothing else.
LEMMA HeartbeatStep ==
    ASSUME ControlInv, HeartbeatTick \/ HeartbeatDeadline \/ ControlPong
    PROVE  ControlInv'
<1>0. /\ ControlTypeOK /\ SocketsOK /\ ClientOK /\ HelloOK /\ EpochsOK /\ StaleIsFenced /\ EpochIsAnnounced
      /\ NoConn \notin Conn
      /\ client.control \in Conn \cup {NoConn} /\ relay.registered \in Conn \cup {NoConn}
      /\ client.epoch \in Nat /\ relay.epoch \in Nat
      /\ sock \in [Conn -> SockState] /\ fate \in [Conn -> {"none", "lost", "replaced"}]
  BY ControlFacts
<1>1a. UNCHANGED <<client, fate, up, version, relay>>
  BY DEF HeartbeatTick, HeartbeatDeadline, ControlPong
<1>1b. sock' = sock \/ (sock' = [sock EXCEPT ![client.control] = "closing"])
  BY DEF HeartbeatTick, HeartbeatDeadline, ControlPong
<1>e. /\ UNCHANGED <<client, fate, up, version, relay>>
      /\ sock' \in [Conn -> SockState]
      /\ \A d \in Conn : sock'[d] = sock[d] \/ (d = client.control /\ sock'[d] = "closing" /\ sock[d] # "none")
      /\ {d \in Conn : sock'[d] # "none"} = {d \in Conn : sock[d] # "none"}
  <2>2. CASE sock' = sock
    BY <1>0, <1>1a, <2>2
  <2>3. CASE sock' = [sock EXCEPT ![client.control] = "closing"] /\ client.control = NoConn
    <3>1. sock' = sock
      BY <1>0, <2>3
    <3> QED
      BY <1>0, <1>1a, <3>1
  <2>4. CASE sock' = [sock EXCEPT ![client.control] = "closing"] /\ client.control # NoConn
    <3>1. client.control \in Conn /\ sock[client.control] # "none"
      BY <1>0, <2>4 DEF SocketsOK
    <3> QED
      BY <1>0, <1>1a, <2>4, <3>1 DEF SockState
  <2> QED
    BY <1>1b, <2>2, <2>3, <2>4
<1>1. ControlTypeOK'
  BY <1>0, <1>e DEF ControlTypeOK
<1>2. SocketsOK'
  BY <1>0, <1>e DEF SocketsOK
<1>3. ClientOK'
  BY <1>0, <1>e DEF ClientOK
<1>4. HelloOK' /\ EpochsOK' /\ StaleIsFenced'
  BY <1>0, <1>e, QuietStep
<1>5. EpochIsAnnounced'
  BY <1>0, <1>e DEF EpochIsAnnounced
<1> QED
  BY <1>1, <1>2, <1>3, <1>4, <1>5 DEF ControlInv

\* Connections that are lost or hang change no frame.
LEMMA NetworkStep ==
    ASSUME ControlInv, NEW c \in Conn, ConnectionLost(c) \/ ConnectionHangs(c)
    PROVE  ControlInv'
<1>0. /\ ControlTypeOK /\ SocketsOK /\ ClientOK /\ HelloOK /\ EpochsOK /\ StaleIsFenced /\ EpochIsAnnounced
      /\ NoConn \notin Conn
      /\ client.control \in Conn \cup {NoConn} /\ relay.registered \in Conn \cup {NoConn}
      /\ client.epoch \in Nat /\ relay.epoch \in Nat
      /\ sock \in [Conn -> SockState] /\ fate \in [Conn -> {"none", "lost", "replaced"}]
  BY ControlFacts
<1>e. /\ UNCHANGED <<client, sock, up, version, relay>>
      /\ fate' \in [Conn -> {"none", "lost", "replaced"}]
      /\ \A d \in Conn : fate'[d] = fate[d] \/ sock[d] # "none"
  BY <1>0 DEF ConnectionLost, ConnectionHangs
<1>1. ControlTypeOK'
  BY <1>0, <1>e DEF ControlTypeOK
<1>2. SocketsOK'
  BY <1>0, <1>e DEF SocketsOK
<1>3. ClientOK'
  BY <1>0, <1>e DEF ClientOK
<1>4. HelloOK' /\ EpochsOK' /\ StaleIsFenced'
  BY <1>0, <1>e, QuietStep
<1>5. EpochIsAnnounced'
  BY <1>0, <1>e DEF EpochIsAnnounced
<1> QED
  BY <1>1, <1>2, <1>3, <1>4, <1>5 DEF ControlInv

\* A disconnect closes the control socket and releases the subscription.
LEMMA DisconnectStep ==
    ASSUME ControlInv, RelayDisconnect
    PROVE  ControlInv'
<1>0. /\ ControlTypeOK /\ SocketsOK /\ ClientOK /\ HelloOK /\ EpochsOK /\ StaleIsFenced /\ EpochIsAnnounced
      /\ NoConn \notin Conn
      /\ client.control \in Conn \cup {NoConn} /\ relay.registered \in Conn \cup {NoConn}
      /\ client.epoch \in Nat /\ relay.epoch \in Nat
      /\ sock \in [Conn -> SockState] /\ fate \in [Conn -> {"none", "lost", "replaced"}]
  BY ControlFacts
<1>e. /\ UNCHANGED <<fate, up, version, relay>>
      /\ client' \in ClientType
      /\ client'.stopped /\ ~client'.subscribed /\ client'.control = NoConn
      /\ client'.epoch = client.epoch /\ client'.hasStarted = client.hasStarted
      /\ sock' \in [Conn -> SockState]
      /\ \A d \in Conn : sock'[d] = sock[d] \/ (sock'[d] = "closing" /\ sock[d] # "none")
      /\ {d \in Conn : sock'[d] # "none"} = {d \in Conn : sock[d] # "none"}
  <2>1. /\ UNCHANGED <<fate, up, version, relay>>
        /\ client' = [client EXCEPT !.subscribed = FALSE, !.stopped = TRUE, !.control = NoConn,
                                    !.reconnectTimer = NoConn]
    BY DEF RelayDisconnect, Stop
  <2>2. /\ client' \in ClientType
        /\ client'.stopped /\ ~client'.subscribed /\ client'.control = NoConn
        /\ client'.epoch = client.epoch /\ client'.hasStarted = client.hasStarted
    BY <1>0, <2>1 DEF ControlTypeOK, ClientType
  <2>3. [client EXCEPT !.subscribed = FALSE].control = client.control
    BY <1>0 DEF ControlTypeOK, ClientType
  <2>4. sock' = IF client.control = NoConn THEN sock ELSE [sock EXCEPT ![client.control] = "closing"]
    BY <2>3 DEF RelayDisconnect, Stop
  <2>5. client.control # NoConn => client.control \in Conn /\ sock[client.control] # "none"
    BY <1>0 DEF SocketsOK
  <2> QED
    BY <1>0, <2>1, <2>2, <2>4, <2>5 DEF SockState
<1>1. ControlTypeOK'
  BY <1>0, <1>e DEF ControlTypeOK
<1>2. SocketsOK'
  BY <1>0, <1>e DEF SocketsOK
<1>3. ClientOK'
  BY <1>0, <1>e DEF ClientOK, SockState
<1>4. HelloOK' /\ EpochsOK' /\ StaleIsFenced'
  BY <1>0, <1>e, QuietStep
<1>5. EpochIsAnnounced'
  BY <1>0, <1>e DEF EpochIsAnnounced
<1> QED
  BY <1>1, <1>2, <1>3, <1>4, <1>5 DEF ControlInv

\* A socket closes: its frames are gone, and the client retries or stops.
LEMMA ClosesStep ==
    ASSUME ControlInv, NEW c \in Conn, SocketCloses(c)
    PROVE  ControlInv'
<1>0. /\ ControlTypeOK /\ SocketsOK /\ ClientOK /\ HelloOK /\ EpochsOK /\ StaleIsFenced /\ EpochIsAnnounced
      /\ NoConn \notin Conn
      /\ client.control \in Conn \cup {NoConn} /\ relay.registered \in Conn \cup {NoConn}
      /\ client.epoch \in Nat /\ relay.epoch \in Nat
      /\ sock \in [Conn -> SockState] /\ fate \in [Conn -> {"none", "lost", "replaced"}]
  BY ControlFacts
<1>e. /\ UNCHANGED <<version, relay>>
      /\ sock' \in [Conn -> SockState] /\ fate' \in [Conn -> {"none", "lost", "replaced"}]
      /\ up' \in [Conn -> Seq(TunnelFrame)]
      /\ sock[c] # "none" /\ sock'[c] = "closed" /\ fate'[c] = "none" /\ up'[c] = <<>> /\ DOMAIN up'[c] = {}
      /\ \A d \in Conn \ {c} : sock'[d] = sock[d] /\ fate'[d] = fate[d] /\ up'[d] = up[d]
      /\ {d \in Conn : sock'[d] # "none"} = {d \in Conn : sock[d] # "none"}
  <2>1. up \in [Conn -> Seq(TunnelFrame)] /\ <<>> \in Seq(TunnelFrame) /\ DOMAIN <<>> = {}
    BY <1>0, EmptySeq DEF ControlTypeOK
  <2>2. /\ sock' = [sock EXCEPT ![c] = "closed"] /\ fate' = [fate EXCEPT ![c] = "none"]
        /\ up' = [up EXCEPT ![c] = <<>>] /\ UNCHANGED <<version, relay>>
        /\ sock[c] = "closing" \/ fate[c] # "none"
    BY DEF SocketCloses
  <2>3. sock[c] # "none"
    BY <1>0, <2>2 DEF SocketsOK
  <2> QED
    BY <1>0, <2>1, <2>2, <2>3 DEF SockState
<1>c. /\ client' \in ClientType /\ client'.epoch = client.epoch /\ client'.subscribed = client.subscribed
      /\ client'.hasStarted = client.hasStarted /\ (client.stopped => client'.stopped)
      /\ client'.control \in {client.control, NoConn} /\ (client.control = c => client'.control = NoConn)
  <2> DEFINE cl == IF client.control = c THEN [client EXCEPT !.control = NoConn] ELSE client
  <2>1. /\ cl \in ClientType /\ cl.epoch = client.epoch /\ cl.subscribed = client.subscribed
        /\ cl.hasStarted = client.hasStarted /\ cl.stopped = client.stopped
        /\ cl.control \in {client.control, NoConn} /\ (client.control = c => cl.control = NoConn)
    BY <1>0 DEF ControlTypeOK, ClientType
  <2>2. RetryOrStop(c, cl)
    BY DEF SocketCloses
  <2> HIDE DEF cl
  <2>3. client' = cl \/ client' = [cl EXCEPT !.stopped = TRUE] \/ client' = [cl EXCEPT !.reconnectTimer = c]
    BY <2>2 DEF RetryOrStop
  <2>4. CASE client' = cl
    BY <2>1, <2>4
  <2>5. CASE client' = [cl EXCEPT !.stopped = TRUE]
    BY <2>1, <2>5 DEF ClientType
  <2>6. CASE client' = [cl EXCEPT !.reconnectTimer = c]
    BY <2>1, <2>6 DEF ClientType
  <2> QED
    BY <2>3, <2>4, <2>5, <2>6
<1>1. ControlTypeOK'
  BY <1>0, <1>e, <1>c DEF ControlTypeOK
<1>2. SocketsOK'
  BY <1>0, <1>e, <1>c, ZenonT(40) DEF SocketsOK
<1>3. ClientOK'
  BY <1>0, <1>e, <1>c DEF ClientOK, ControlTypeOK, ClientType
<1>4. HelloOK' /\ EpochsOK' /\ StaleIsFenced'
  <2>1. HelloOK'
    BY <1>0, <1>e DEF HelloOK
  <2>2. EpochsOK'
    BY <1>0, <1>e, <1>c DEF EpochsOK
  <2>3. StaleIsFenced'
    BY <1>0, <1>e, <1>c, ZenonT(40) DEF StaleIsFenced
  <2> QED
    BY <2>1, <2>2, <2>3
<1>5. EpochIsAnnounced'
  <2>1. CASE client'.control = NoConn
    BY <2>1 DEF EpochIsAnnounced
  <2>2. CASE client'.control # NoConn
    <3>1. client'.control = client.control /\ client.control \in Conn \ {c}
      BY <1>0, <1>c, <2>2
    <3>2. UNCHANGED relay /\ sock'[client.control] = sock[client.control] /\ up'[client.control] = up[client.control]
      BY <1>e, <3>1
    <3> QED
      BY <1>0, <1>c, <2>2, <3>1, <3>2 DEF EpochIsAnnounced
  <2> QED
    BY <2>1, <2>2
<1> QED
  BY <1>1, <1>2, <1>3, <1>4, <1>5 DEF ControlInv

\* A control socket opens and says hello with the client's epoch.
LEMMA OpensStep ==
    ASSUME ControlInv, NEW c \in Conn, SocketOpens(c)
    PROVE  ControlInv'
<1>0. /\ ControlTypeOK /\ SocketsOK /\ ClientOK /\ HelloOK /\ EpochsOK /\ StaleIsFenced /\ EpochIsAnnounced
      /\ NoConn \notin Conn
      /\ client.control \in Conn \cup {NoConn} /\ relay.registered \in Conn \cup {NoConn}
      /\ client.epoch \in Nat /\ relay.epoch \in Nat
      /\ sock \in [Conn -> SockState] /\ fate \in [Conn -> {"none", "lost", "replaced"}]
  BY ControlFacts
<1> DEFINE hello == [type |-> "hello", epoch |-> client.epoch]
<1>a. hello \in TunnelFrame /\ hello.type = "hello" /\ hello.epoch = client.epoch
  BY <1>0 DEF TunnelFrame
<1>b. /\ sock[c] = "connecting" /\ sock' = [sock EXCEPT ![c] = "open"] /\ Send(c, hello)
      /\ UNCHANGED <<client, fate, version, relay>>
  BY DEF SocketOpens
<1>c. up[c] = <<>> /\ relay.registered # c
  BY <1>0, <1>b DEF SocketsOK
<1> HIDE DEF hello
<1>d. /\ up' \in [Conn -> Seq(TunnelFrame)] /\ \A d \in Conn \ {c} : up'[d] = up[d]
      /\ DOMAIN up'[c] = {1} /\ up'[c][1] = hello
  <2>1. Len(up[c]) = 0
    BY <1>c
  <2> QED
    BY <1>0, <1>a, <1>b, <1>c, <2>1, SendFacts
<1>e. /\ UNCHANGED <<client, fate, version, relay>>
      /\ sock' \in [Conn -> SockState] /\ sock[c] = "connecting" /\ sock'[c] = "open"
      /\ \A d \in Conn \ {c} : sock'[d] = sock[d]
      /\ {d \in Conn : sock'[d] # "none"} = {d \in Conn : sock[d] # "none"}
  BY <1>0, <1>b DEF SockState
<1>1. ControlTypeOK'
  BY <1>0, <1>a, <1>c, <1>d, <1>e DEF ControlTypeOK
<1>2. SocketsOK'
  BY <1>0, <1>a, <1>c, <1>d, <1>e, ZenonT(40) DEF SocketsOK
<1>3. ClientOK'
  BY <1>0, <1>a, <1>c, <1>d, <1>e DEF ClientOK
<1>4. HelloOK' /\ EpochsOK' /\ StaleIsFenced'
  <2>1. HelloOK'
    BY <1>0, <1>c, <1>d, <1>e DEF HelloOK
  <2>2. EpochsOK'
    <3>1. hello.epoch <= client.epoch
      BY <1>0, <1>a
    <3>2. ASSUME NEW d \in Conn, NEW i \in DOMAIN up'[d], up'[d][i].type # "data"
          PROVE  up'[d][i].epoch <= client.epoch
      <4>1. CASE d = c
        BY <1>d, <3>1, <4>1
      <4>2. CASE d # c
        <5>1. up'[d] = up[d]
          BY <1>d, <4>2
        <5> QED
          BY <1>0, <3>2, <5>1 DEF EpochsOK
      <4> QED
        BY <4>1, <4>2
    <3>3. client' = client /\ relay' = relay
      BY <1>e
    <3> QED
      BY <1>0, <3>2, <3>3 DEF EpochsOK
  <2>3. StaleIsFenced'
    <3>1. client' = client /\ relay' = relay /\ version' = version
      BY <1>e
    <3>2. ASSUME client.subscribed, NEW d \in Conn, NEW i \in DOMAIN up'[d], up'[d][i].type = "data",
                 up'[d][i].version # version
          PROVE  /\ relay.registered = d => relay.epoch < client.epoch
                 /\ \A j \in 1..(i - 1) : up'[d][j].type # "data" => up'[d][j].epoch < client.epoch
      <4>1. d # c
        BY <1>a, <1>d, <3>2
      <4>2. up'[d] = up[d]
        BY <1>d, <4>1
      <4> QED
        BY <1>0, <3>2, <4>2 DEF StaleIsFenced
    <3>3. client.subscribed => relay.cache \in {NoCache, version} \/ relay.epoch < client.epoch
      BY <1>0 DEF StaleIsFenced
    <3> QED
      BY <3>1, <3>2, <3>3 DEF StaleIsFenced
  <2> QED
    BY <2>1, <2>2, <2>3
<1>5. EpochIsAnnounced'
  <2>1. CASE client.control = c
    BY <1>a, <1>d, <1>e, <2>1 DEF EpochIsAnnounced
  <2>2. CASE client.control # c
    <3>1. client.control # NoConn => /\ sock'[client.control] = sock[client.control]
                                     /\ up'[client.control] = up[client.control]
      BY <1>0, <1>d, <1>e, <2>2
    <3>2. client' = client /\ relay' = relay
      BY <1>e
    <3> QED
      BY <1>0, <3>1, <3>2 DEF EpochIsAnnounced
  <2> QED
    BY <2>1, <2>2
<1> QED
  BY <1>1, <1>2, <1>3, <1>4, <1>5 DEF ControlInv

\* A retry timer opens a new control socket, unless the client is stopped.
LEMMA RetryStep ==
    ASSUME ControlInv, NEW t \in Conn, RetryFires(t)
    PROVE  ControlInv'
<1>0. /\ ControlTypeOK /\ SocketsOK /\ ClientOK /\ HelloOK /\ EpochsOK /\ StaleIsFenced /\ EpochIsAnnounced
      /\ NoConn \notin Conn
      /\ client.control \in Conn \cup {NoConn} /\ relay.registered \in Conn \cup {NoConn}
      /\ client.epoch \in Nat /\ relay.epoch \in Nat
      /\ sock \in [Conn -> SockState] /\ fate \in [Conn -> {"none", "lost", "replaced"}]
  BY ControlFacts
<1>a. UNCHANGED <<fate, up, version, relay>>
  BY DEF RetryFires
<1> DEFINE cl == [client EXCEPT !.reconnectTimer = NoConn]
<1>b. /\ cl \in ClientType /\ cl.epoch = client.epoch /\ cl.subscribed = client.subscribed
      /\ cl.hasStarted = client.hasStarted /\ cl.stopped = client.stopped /\ cl.control = client.control
  BY <1>0 DEF ControlTypeOK, ClientType
<1>c. \/ client' = cl /\ sock' = sock
      \/ ~client.stopped /\ ConnectControl(cl)
  BY DEF RetryFires
<1> HIDE DEF cl
<1>d. CASE client' = cl /\ sock' = sock
  <2>1. ControlTypeOK' /\ SocketsOK' /\ ClientOK' /\ EpochIsAnnounced'
    <3>1. ControlTypeOK'
      BY <1>0, <1>a, <1>b, <1>d DEF ControlTypeOK
    <3>2. SocketsOK'
      BY <1>0, <1>a, <1>b, <1>d DEF SocketsOK
    <3>3. ClientOK'
      BY <1>0, <1>a, <1>b, <1>d DEF ClientOK
    <3>4. EpochIsAnnounced'
      BY <1>0, <1>a, <1>b, <1>d DEF EpochIsAnnounced
    <3> QED
      BY <3>1, <3>2, <3>3, <3>4
  <2>2. HelloOK' /\ EpochsOK' /\ StaleIsFenced'
    BY <1>a, <1>b, <1>d, QuietStep
  <2> QED
    BY <2>1, <2>2 DEF ControlInv
<1>e. CASE ~client.stopped /\ ConnectControl(cl)
  <2>0. PICK c \in Conn : /\ sock[c] = "none" /\ client' = [cl EXCEPT !.control = c]
                          /\ sock' = [sock EXCEPT ![c] = "connecting"]
                          /\ \E n \in 0..MaxConn : {d \in Conn : sock'[d] # "none"} = 1..n
    BY <1>0, <1>e, ConnectFacts
  <2>c. /\ client' \in ClientType /\ client'.epoch = client.epoch /\ client'.subscribed = client.subscribed
        /\ client'.hasStarted = client.hasStarted /\ client'.stopped = client.stopped /\ client'.control = c
    BY <1>b, <2>0 DEF ClientType
  <2>s. /\ sock' \in [Conn -> SockState] /\ sock'[c] = "connecting" /\ \A d \in Conn \ {c} : sock'[d] = sock[d]
    BY <1>0, <2>0 DEF SockState
  <2>1. ControlTypeOK'
    BY <1>0, <1>a, <2>c, <2>s DEF ControlTypeOK
  <2>2. SocketsOK'
    <3>1. \A d \in Conn : sock[d] # "none" => sock'[d] # "none" /\ d # c
      BY <2>0, <2>s
    <3>2. \A d \in Conn : fate'[d] # "none" => sock'[d] # "none"
      BY <1>0, <1>a, <3>1 DEF SocketsOK
    <3>3. \A d \in Conn : sock'[d] \in {"none", "connecting"} => up'[d] = <<>>
      BY <1>0, <1>a, <2>0, <2>s DEF SocketsOK
    <3>4. relay'.registered # NoConn => sock'[relay'.registered] \notin {"none", "connecting"}
      <4> SUFFICES ASSUME relay.registered # NoConn
                   PROVE  sock'[relay.registered] \notin {"none", "connecting"}
        BY <1>a
      <4>1. relay.registered \in Conn /\ sock[relay.registered] \notin {"none", "connecting"}
        BY <1>0 DEF SocketsOK
      <4> QED
        BY <2>s, <3>1, <4>1
    <3> QED
      BY <2>0, <2>c, <2>s, <3>2, <3>3, <3>4 DEF SocketsOK
  <2>3. ClientOK'
    BY <1>0, <1>a, <1>e, <2>c, <2>s DEF ClientOK
  <2>4. HelloOK' /\ EpochsOK' /\ StaleIsFenced'
    BY <1>a, <2>c, QuietStep
  <2>5. EpochIsAnnounced'
    BY <2>c, <2>s DEF EpochIsAnnounced
  <2> QED
    BY <2>1, <2>2, <2>3, <2>4, <2>5 DEF ControlInv
<1> QED
  BY <1>c, <1>d, <1>e

\* start() moves the epoch past everything the relay has heard of.
LEMMA ConnectStep ==
    ASSUME ControlInv, RelayConnect
    PROVE  ControlInv'
<1>0. /\ ControlTypeOK /\ SocketsOK /\ ClientOK /\ HelloOK /\ EpochsOK /\ StaleIsFenced /\ EpochIsAnnounced
      /\ NoConn \notin Conn
      /\ client.control \in Conn \cup {NoConn} /\ relay.registered \in Conn \cup {NoConn}
      /\ client.epoch \in Nat /\ relay.epoch \in Nat
      /\ sock \in [Conn -> SockState] /\ fate \in [Conn -> {"none", "lost", "replaced"}]
  BY ControlFacts
<1>a. UNCHANGED <<fate, up, version, relay>>
  BY DEF RelayConnect
<1> DEFINE cs == [client EXCEPT !.subscribed = TRUE]
           cl == [cs EXCEPT !.stopped = FALSE, !.hasStarted = TRUE, !.epoch = IF cs.hasStarted THEN @ + 1 ELSE @]
<1>b. /\ cs \in ClientType /\ cs.stopped = client.stopped /\ cs.hasStarted = client.hasStarted
      /\ cs.epoch = client.epoch /\ cs.subscribed = TRUE /\ cs.control = client.control
  BY <1>0 DEF ControlTypeOK, ClientType
<1>c. \/ ~client.stopped /\ client' = cs /\ sock' = sock
      \/ client.stopped /\ ConnectControl(cl)
  BY <1>b DEF RelayConnect, Start
<1> HIDE DEF cs
<1>f. /\ cl \in ClientType /\ ~cl.stopped /\ cl.hasStarted /\ cl.subscribed
      /\ cl.epoch = IF client.hasStarted THEN client.epoch + 1 ELSE client.epoch
  <2> DEFINE e == IF client.hasStarted THEN client.epoch + 1 ELSE client.epoch
  <2>1. e \in Nat
    BY <1>0
  <2>2. cl = [cs EXCEPT !.stopped = FALSE, !.hasStarted = TRUE, !.epoch = e]
    BY <1>b DEF ClientType
  <2> HIDE DEF e, cl
  <2>3. cl \in ClientType /\ ~cl.stopped /\ cl.hasStarted /\ cl.subscribed /\ cl.epoch = e
    BY <1>b, <2>1, <2>2 DEF ClientType
  <2> QED
    BY <2>3 DEF e
<1> HIDE DEF cl
<1>d. CASE ~client.stopped /\ client' = cs /\ sock' = sock
  <2>1. ControlTypeOK'
    BY <1>0, <1>a, <1>b, <1>d DEF ControlTypeOK
  <2>2. client.subscribed
    BY <1>0, <1>d DEF ClientOK
  <2>3. SocketsOK' /\ ClientOK' /\ EpochIsAnnounced'
    BY <1>0, <1>a, <1>b, <1>d, <2>2 DEF SocketsOK, ClientOK, EpochIsAnnounced
  <2>4. HelloOK' /\ EpochsOK' /\ StaleIsFenced'
    BY <1>a, <1>b, <1>d, <2>2, QuietStep
  <2> QED
    BY <2>1, <2>3, <2>4 DEF ControlInv
<1>e. CASE client.stopped /\ ConnectControl(cl)
  <2>0. PICK c \in Conn : /\ sock[c] = "none" /\ client' = [cl EXCEPT !.control = c]
                          /\ sock' = [sock EXCEPT ![c] = "connecting"]
                          /\ \E n \in 0..MaxConn : {d \in Conn : sock'[d] # "none"} = 1..n
    BY <1>0, <1>e, ConnectFacts
  <2>c. /\ client' \in ClientType /\ ~client'.stopped /\ client'.hasStarted /\ client'.subscribed
        /\ client'.epoch = cl.epoch /\ client'.control = c
    BY <1>f, <2>0 DEF ClientType
  <2>s. /\ sock' \in [Conn -> SockState] /\ sock'[c] = "connecting" /\ \A d \in Conn \ {c} : sock'[d] = sock[d]
    BY <1>0, <2>0 DEF SockState
  <2>1. ControlTypeOK'
    BY <1>0, <1>a, <2>c, <2>s DEF ControlTypeOK
  <2>2. SocketsOK'
    <3>1. \A d \in Conn : sock[d] # "none" => sock'[d] # "none" /\ d # c
      BY <2>0, <2>s
    <3>2. \A d \in Conn : fate'[d] # "none" => sock'[d] # "none"
      BY <1>0, <1>a, <3>1 DEF SocketsOK
    <3>3. \A d \in Conn : sock'[d] \in {"none", "connecting"} => up'[d] = <<>>
      BY <1>0, <1>a, <2>0, <2>s DEF SocketsOK
    <3>4. relay'.registered # NoConn => sock'[relay'.registered] \notin {"none", "connecting"}
      <4> SUFFICES ASSUME relay.registered # NoConn
                   PROVE  sock'[relay.registered] \notin {"none", "connecting"}
        BY <1>a
      <4>1. relay.registered \in Conn /\ sock[relay.registered] \notin {"none", "connecting"}
        BY <1>0 DEF SocketsOK
      <4> QED
        BY <2>s, <3>1, <4>1
    <3> QED
      BY <2>0, <2>c, <2>s, <3>2, <3>3, <3>4 DEF SocketsOK
  <2>3. ClientOK'
    BY <1>0, <1>a, <2>c, <2>s DEF ClientOK
  <2>4. HelloOK'
    BY <1>0, <1>a DEF HelloOK
  <2>5. ASSUME client.hasStarted PROVE EpochsOK' /\ StaleIsFenced'
    <3>1. client'.epoch = client.epoch + 1 /\ client.epoch \in Nat /\ relay.epoch \in Nat
      BY <1>0, <1>f, <2>c, <2>5
    <3>2. \A d \in Conn : \A i \in DOMAIN up[d] : up[d][i].type # "data" => up[d][i].epoch \in Nat
      BY <1>0, FrameEpoch
    <3>3. EpochsOK'
      BY <1>0, <1>a, <3>1, <3>2 DEF EpochsOK
    <3>4. relay.registered # NoConn => relay.epoch < client'.epoch
      BY <1>0, <3>1 DEF EpochsOK
    <3>5. relay.cache # NoCache => relay.epoch < client'.epoch
      BY <1>0, <3>4 DEF ClientOK
    <3>6. \A d \in Conn : \A i \in DOMAIN up[d] : up[d][i].type # "data" => up[d][i].epoch < client'.epoch
      BY <1>0, <3>1, <3>2 DEF EpochsOK
    <3>7. \A d \in Conn : \A i \in DOMAIN up[d] : \A j \in 1..(i - 1) : j \in DOMAIN up[d]
      BY <1>0, EarlierFrame
    <3>8. StaleIsFenced'
      BY <1>0, <1>a, <3>4, <3>5, <3>6, <3>7 DEF StaleIsFenced
    <3> QED
      BY <3>3, <3>8
  <2>6. ASSUME ~client.hasStarted PROVE EpochsOK' /\ StaleIsFenced'
    <3>1. \A d \in Conn : up[d] = <<>>
      BY <1>0, <2>6 DEF ClientOK, SocketsOK
    <3>2. \A d \in Conn : DOMAIN up[d] = {}
      BY <3>1
    <3>3. relay.registered = NoConn /\ relay.cache = NoCache
      BY <1>0, <2>6 DEF ClientOK
    <3> QED
      BY <1>a, <3>2, <3>3 DEF EpochsOK, StaleIsFenced
  <2>7. EpochIsAnnounced'
    BY <2>c, <2>s DEF EpochIsAnnounced
  <2> QED
    BY <2>1, <2>2, <2>3, <2>4, <2>5, <2>6, <2>7 DEF ControlInv
<1> QED
  BY <1>c, <1>d, <1>e

\* A change of the vault moves the epoch of a client that is subscribed.
LEMMA VaultChangesStep ==
    ASSUME ControlInv, VaultChanges
    PROVE  ControlInv'
<1>0. /\ ControlTypeOK /\ SocketsOK /\ ClientOK /\ HelloOK /\ EpochsOK /\ StaleIsFenced /\ EpochIsAnnounced
      /\ NoConn \notin Conn
      /\ client.control \in Conn \cup {NoConn} /\ relay.registered \in Conn \cup {NoConn}
      /\ client.epoch \in Nat /\ relay.epoch \in Nat
      /\ sock \in [Conn -> SockState] /\ fate \in [Conn -> {"none", "lost", "replaced"}]
  BY ControlFacts
<1>a. UNCHANGED <<sock, fate, relay>> /\ version \in 0..MaxMutations /\ version' \in 0..MaxMutations
  BY <1>0, ControlBounds DEF VaultChanges, ControlTypeOK
<1>b. CASE ~client.subscribed
  <2>1. UNCHANGED <<client, up>>
    BY <1>b DEF VaultChanges
  <2> QED
    BY <1>0, <1>a, <1>b, <2>1, SMTT(30)
       DEF ControlInv, ControlTypeOK, SocketsOK, ClientOK, HelloOK, EpochsOK, StaleIsFenced, EpochIsAnnounced
<1>c. CASE client.subscribed
  <2> DEFINE event == [type |-> "event", epoch |-> client.epoch + 1]
             c == client.control
  <2>1. /\ event \in TunnelFrame /\ event.type = "event" /\ event.epoch = client.epoch + 1
    BY <1>0 DEF TunnelFrame
  <2>2. /\ client' = [client EXCEPT !.epoch = @ + 1]
        /\ \/ c # NoConn /\ sock[c] = "open" /\ Send(c, event)
           \/ ~(c # NoConn /\ sock[c] = "open") /\ up' = up
    BY <1>c DEF VaultChanges, SendRelayEvent
  <2> HIDE DEF event
  <2>3. /\ client' \in ClientType /\ client'.epoch = client.epoch + 1 /\ client'.control = client.control
        /\ client'.stopped = client.stopped /\ client'.hasStarted = client.hasStarted
        /\ client'.subscribed = client.subscribed
    <3>1. client \in ClientType /\ client.epoch + 1 \in Nat
      BY <1>0 DEF ControlTypeOK
    <3>2. client' = [client EXCEPT !.epoch = client.epoch + 1]
      BY <2>2
    <3> QED
      BY <3>1, <3>2 DEF ClientType
  <2>4. /\ up' \in [Conn -> Seq(TunnelFrame)]
        /\ \A d \in Conn : \A i \in DOMAIN up'[d] :
             \/ i \in DOMAIN up[d] /\ up'[d][i] = up[d][i]
             \/ up'[d][i] = event /\ \A j \in 1..(i - 1) : j \in DOMAIN up[d]
        /\ \A d \in Conn : \A i \in DOMAIN up[d] : i \in DOMAIN up'[d] /\ up'[d][i] = up[d][i]
        /\ \A d \in Conn : up'[d] = up[d] \/ sock[d] = "open"
        /\ c # NoConn /\ sock[c] = "open" => \E i \in DOMAIN up'[c] : up'[c][i] = event /\ \A j \in DOMAIN up'[c] : ~(j > i)
    <3>1. CASE c # NoConn /\ sock[c] = "open" /\ Send(c, event)
      <4>1. c \in Conn
        BY <1>0, <3>1
      <4>2. /\ up' \in [Conn -> Seq(TunnelFrame)]
            /\ \A d \in Conn \ {c} : up'[d] = up[d]
            /\ Len(up[c]) \in Nat /\ DOMAIN up[c] = 1..Len(up[c]) /\ DOMAIN up'[c] = 1..(Len(up[c]) + 1)
            /\ \A i \in DOMAIN up[c] : i \in DOMAIN up'[c] /\ up'[c][i] = up[c][i]
            /\ up'[c][Len(up[c]) + 1] = event /\ Len(up[c]) + 1 \in DOMAIN up'[c]
            /\ \A i \in DOMAIN up'[c] : i \in DOMAIN up[c] \/ i = Len(up[c]) + 1
        BY <1>0, <2>1, <3>1, <4>1, SendFacts
      <4>3. \A i \in DOMAIN up'[c] : \/ i \in DOMAIN up[c] /\ up'[c][i] = up[c][i]
                                     \/ up'[c][i] = event /\ \A j \in 1..(i - 1) : j \in DOMAIN up[c]
        BY <4>2
      <4>4. \E i \in DOMAIN up'[c] : up'[c][i] = event /\ \A j \in DOMAIN up'[c] : ~(j > i)
        <5>1. \A j \in DOMAIN up'[c] : ~(j > Len(up[c]) + 1)
          BY <4>2
        <5> QED
          BY <4>2, <5>1
      <4>5. \A d \in Conn : d = c \/ up'[d] = up[d]
        BY <4>2
      <4> HIDE DEF c
      <4>6. \A d \in Conn : \A i \in DOMAIN up'[d] :
              \/ i \in DOMAIN up[d] /\ up'[d][i] = up[d][i]
              \/ up'[d][i] = event /\ \A j \in 1..(i - 1) : j \in DOMAIN up[d]
        <5> TAKE d \in Conn
        <5>1. CASE d = c
          BY <4>3, <5>1
        <5>2. CASE d # c
          BY <4>5, <5>2
        <5> QED
          BY <5>1, <5>2
      <4>7. \A d \in Conn : \A i \in DOMAIN up[d] : i \in DOMAIN up'[d] /\ up'[d][i] = up[d][i]
        <5> TAKE d \in Conn
        <5>1. CASE d = c
          BY <4>2, <5>1
        <5>2. CASE d # c
          BY <4>5, <5>2
        <5> QED
          BY <5>1, <5>2
      <4>8. \A d \in Conn : up'[d] = up[d] \/ sock[d] = "open"
        BY <3>1, <4>5
      <4>9. up' \in [Conn -> Seq(TunnelFrame)]
        BY <4>2
      <4> QED
        BY <4>4, <4>6, <4>7, <4>8, <4>9
    <3>2. CASE ~(c # NoConn /\ sock[c] = "open") /\ up' = up
      BY <1>0, <3>2 DEF ControlTypeOK
    <3> QED
      BY <2>2, <3>1, <3>2
  <2>5. ControlTypeOK'
    BY <1>0, <1>a, <2>3, <2>4 DEF ControlTypeOK
  <2>6. SocketsOK'
    BY <1>0, <1>a, <2>3, <2>4 DEF SocketsOK
  <2>7. ClientOK'
    BY <1>0, <1>a, <2>3 DEF ClientOK
  <2>8. HelloOK'
    BY <1>0, <1>a, <2>1, <2>4 DEF HelloOK
  <2>9. \A d \in Conn : \A i \in DOMAIN up[d] : up[d][i].type # "data" => up[d][i].epoch < client'.epoch
    <3>1. \A d \in Conn : \A i \in DOMAIN up[d] : up[d][i].type # "data" => up[d][i].epoch \in Nat
      BY <1>0, FrameEpoch
    <3> QED
      BY <1>0, <2>3, <3>1 DEF EpochsOK
  <2>10. relay.registered # NoConn => relay.epoch < client'.epoch
    BY <1>0, <2>3 DEF EpochsOK
  <2>11. EpochsOK'
    <3>1. event.epoch <= client'.epoch
      BY <1>0, <2>1, <2>3
    <3>2. \A d \in Conn : \A i \in DOMAIN up[d] : up[d][i].type # "data" => up[d][i].epoch <= client'.epoch
      BY <1>0, <2>3, <2>9, FrameEpoch
    <3>3. relay.registered # NoConn => relay.epoch <= client'.epoch
      BY <1>0, <2>3, <2>10
    <3> QED
      BY <1>a, <2>4, <3>1, <3>2, <3>3 DEF EpochsOK
  <2>12. StaleIsFenced'
    <3>1. relay.cache = NoCache \/ relay.epoch < client'.epoch
      BY <1>0, <2>10 DEF ClientOK
    <3>2. \A d \in Conn : \A i \in DOMAIN up[d] : \A j \in 1..(i - 1) : j \in DOMAIN up[d]
      BY <1>0, EarlierFrame
    <3>3. ASSUME NEW d \in Conn, NEW i \in DOMAIN up'[d], up'[d][i].type = "data"
          PROVE  /\ relay.registered = d => relay.epoch < client'.epoch
                 /\ \A j \in 1..(i - 1) : up'[d][j].type # "data" => up'[d][j].epoch < client'.epoch
      <4>1. i \in DOMAIN up[d] /\ up'[d][i] = up[d][i]
        BY <2>1, <2>4, <3>3
      <4>2. \A j \in 1..(i - 1) : j \in DOMAIN up[d] /\ up'[d][j] = up[d][j]
        BY <2>4, <3>2, <4>1
      <4>3. relay.registered = d => relay.epoch < client'.epoch
        BY <1>0, <2>10
      <4> QED
        BY <2>9, <4>2, <4>3
    <3> QED
      BY <1>a, <3>1, <3>3 DEF StaleIsFenced
  <2>13. EpochIsAnnounced'
    BY <1>a, <2>1, <2>3, <2>4 DEF EpochIsAnnounced
  <2> QED
    BY <2>5, <2>6, <2>7, <2>8, <2>11, <2>12, <2>13 DEF ControlInv
<1> QED
  BY <1>b, <1>c

\* The relay fetches what the vaults hold now.
LEMMA FetchStep ==
    ASSUME ControlInv, RelayFetches
    PROVE  ControlInv'
<1>0. /\ ControlTypeOK /\ SocketsOK /\ ClientOK /\ HelloOK /\ EpochsOK /\ StaleIsFenced /\ EpochIsAnnounced
      /\ NoConn \notin Conn
      /\ client.control \in Conn \cup {NoConn} /\ relay.registered \in Conn \cup {NoConn}
      /\ client.epoch \in Nat /\ relay.epoch \in Nat
      /\ sock \in [Conn -> SockState] /\ fate \in [Conn -> {"none", "lost", "replaced"}]
  BY ControlFacts
<1>c. PICK c \in Conn : /\ c = relay.registered /\ sock[c] = "open"
                        /\ Send(c, [type |-> "data", version |-> version])
  BY <1>0 DEF RelayFetches
<1> DEFINE data == [type |-> "data", version |-> version]
<1>a. data \in TunnelFrame /\ data.type = "data" /\ data.version = version
  BY <1>0 DEF TunnelFrame, ControlTypeOK
<1> HIDE DEF data
<1>d. /\ up' \in [Conn -> Seq(TunnelFrame)]
      /\ \A d \in Conn \ {c} : up'[d] = up[d]
      /\ \A i \in DOMAIN up[c] : i \in DOMAIN up'[c] /\ up'[c][i] = up[c][i]
      /\ \A i \in DOMAIN up'[c] : i \in DOMAIN up[c] \/ up'[c][i] = data
  BY <1>0, <1>a, <1>c, SendFacts DEF data
<1>e. UNCHANGED <<client, sock, fate, version, relay>>
  BY DEF RelayFetches
<1>f. \A d \in Conn : \A i \in DOMAIN up'[d] : up'[d][i] = data \/ (i \in DOMAIN up[d] /\ up'[d][i] = up[d][i])
  BY <1>d
<1>g. \A d \in Conn : \A i \in DOMAIN up[d] : i \in DOMAIN up'[d] /\ up'[d][i] = up[d][i]
  BY <1>d
<1>1. ControlTypeOK'
  BY <1>0, <1>a, <1>c, <1>d, <1>e, <1>f, <1>g DEF ControlTypeOK
<1>2. SocketsOK'
  BY <1>0, <1>c, <1>d, <1>e, ZenonT(40) DEF SocketsOK
<1>3. ClientOK'
  BY <1>0, <1>e DEF ClientOK
<1>4. HelloOK' /\ EpochsOK' /\ StaleIsFenced'
  <2>1. HelloOK'
    BY <1>0, <1>a, <1>e, <1>f DEF HelloOK
  <2>2. EpochsOK'
    BY <1>0, <1>a, <1>e, <1>f DEF EpochsOK
  <2>3. StaleIsFenced'
    <3>1. \A d \in Conn : \A i \in DOMAIN up[d] : \A j \in 1..(i - 1) : j \in DOMAIN up[d]
      BY <1>0, EarlierFrame
    <3> QED
      BY <1>0, <1>a, <1>e, <1>f, <1>g, <3>1 DEF StaleIsFenced
  <2> QED
    BY <2>1, <2>2, <2>3
<1>5. EpochIsAnnounced'
  <2>1. CASE client.control = NoConn
    BY <1>e, <2>1 DEF EpochIsAnnounced
  <2>2. CASE client.control \in Conn
    BY <1>0, <1>a, <1>e, <1>f, <1>g, <2>2 DEF EpochIsAnnounced
  <2> QED
    BY <1>0, <2>1, <2>2
<1> QED
  BY <1>1, <1>2, <1>3, <1>4, <1>5 DEF ControlInv

\* Another daemon takes the registration: the cache is dropped.
LEMMA RivalStep ==
    ASSUME ControlInv, RivalRegisters
    PROVE  ControlInv'
<1>0. /\ ControlTypeOK /\ SocketsOK /\ ClientOK /\ HelloOK /\ EpochsOK /\ StaleIsFenced /\ EpochIsAnnounced
      /\ NoConn \notin Conn
      /\ client.control \in Conn \cup {NoConn} /\ relay.registered \in Conn \cup {NoConn}
      /\ client.epoch \in Nat /\ relay.epoch \in Nat
      /\ sock \in [Conn -> SockState] /\ fate \in [Conn -> {"none", "lost", "replaced"}]
  BY ControlFacts
<1>a. NoCache \in 0..NoCache /\ MaxMutations + MaxConn + 1 \in Nat
  BY ControlBounds, ConnFacts
<1>c. PICK c \in Conn : /\ c = relay.registered /\ sock[c] = "open"
                        /\ fate' = [fate EXCEPT ![c] = "replaced"]
  BY <1>0 DEF RivalRegisters
<1>e. /\ UNCHANGED <<client, sock, up, version>>
      /\ relay' \in RelayType /\ relay'.registered = NoConn /\ relay'.cache = NoCache
      /\ fate' \in [Conn -> {"none", "lost", "replaced"}]
      /\ \A d \in Conn : fate'[d] = fate[d] \/ d = c
  <2>1. relay' = [relay EXCEPT !.registered = NoConn, !.cache = NoCache, !.epoch = MaxMutations + MaxConn + 1]
        /\ UNCHANGED <<client, sock, up, version>>
    BY DEF RivalRegisters
  <2>2. relay \in RelayType
    BY <1>0 DEF ControlTypeOK
  <2>3. relay' \in RelayType /\ relay'.registered = NoConn /\ relay'.cache = NoCache
    BY <1>a, <2>1, <2>2 DEF RelayType
  <2> QED
    BY <1>0, <1>c, <2>1, <2>3
<1>1. ControlTypeOK'
  BY <1>0, <1>c, <1>e DEF ControlTypeOK
<1>2. SocketsOK'
  BY <1>0, <1>c, <1>e DEF SocketsOK
<1>3. ClientOK'
  BY <1>0, <1>c, <1>e DEF ClientOK
<1>4. HelloOK' /\ EpochsOK' /\ StaleIsFenced'
  BY <1>0, <1>e DEF HelloOK, EpochsOK, StaleIsFenced
<1>5. EpochIsAnnounced'
  <2>1. client.control # NoConn => client.control \in Conn
    BY <1>0
  <2> QED
    BY <1>0, <1>c, <1>e, <2>1 DEF EpochIsAnnounced, HelloOK
<1> QED
  BY <1>1, <1>2, <1>3, <1>4, <1>5 DEF ControlInv

\* The relay reads a frame: a hello registers its socket with its epoch.
LEMMA ReadsFrameStep ==
    ASSUME ControlInv, NEW c \in Conn, RelayReadsFrame(c)
    PROVE  ControlInv'
<1>0. /\ ControlTypeOK /\ SocketsOK /\ ClientOK /\ HelloOK /\ EpochsOK /\ StaleIsFenced /\ EpochIsAnnounced
      /\ NoConn \notin Conn
      /\ client.control \in Conn \cup {NoConn} /\ relay.registered \in Conn \cup {NoConn}
      /\ client.epoch \in Nat /\ relay.epoch \in Nat
      /\ sock \in [Conn -> SockState] /\ fate \in [Conn -> {"none", "lost", "replaced"}]
  BY ControlFacts
<1> DEFINE frame == up[c][1]
<1>a. /\ up' \in [Conn -> Seq(TunnelFrame)]
      /\ \A d \in Conn \ {c} : up'[d] = up[d]
      /\ frame \in TunnelFrame /\ 1 \in DOMAIN up[c]
      /\ \A i \in DOMAIN up'[c] : i \in Nat /\ i >= 1 /\ i + 1 \in DOMAIN up[c] /\ up'[c][i] = up[c][i + 1]
      /\ \A i \in DOMAIN up[c] : i \in Nat /\ (i = 1 \/ (i - 1 \in DOMAIN up'[c] /\ up'[c][i - 1] = up[c][i]))
      /\ Head(up[c]) = frame
  BY <1>0, ReadFacts DEF RelayReadsFrame
<1>b. UNCHANGED <<client, sock, version>> /\ sock[c] \notin {"none", "connecting"} /\ relay \in RelayType
  BY <1>0 DEF RelayReadsFrame, SocketsOK, ControlTypeOK
<1>c. frame.type \in {"hello", "event", "data"}
  BY <1>a DEF TunnelFrame
<1>d. /\ frame.type # "data" => frame.epoch \in Nat /\ frame.epoch <= client.epoch
      /\ frame.type = "data" => frame.version \in 0..MaxMutations
  <2>1. frame.type # "data" => frame.epoch \in Nat
    BY <1>0, <1>a, FrameEpoch
  <2>2. frame.type = "data" => frame.version \in 0..MaxMutations
    BY <1>a DEF TunnelFrame
  <2> QED
    BY <1>0, <1>a, <2>1, <2>2 DEF EpochsOK
<1>e. /\ frame.type = "hello" =>
           /\ relay' = [registered |-> c, epoch |-> frame.epoch,
                        cache |-> IF frame.epoch = relay.epoch THEN relay.cache ELSE NoCache]
           /\ \/ fate' = fate
              \/ /\ relay.registered # NoConn
                 /\ fate' = [fate EXCEPT ![relay.registered] = "replaced"]
      /\ frame.type = "event" =>
           /\ fate' = fate
           /\ relay' = IF relay.registered = c THEN [relay EXCEPT !.epoch = frame.epoch, !.cache = NoCache] ELSE relay
      /\ frame.type = "data" =>
           /\ fate' = fate
           /\ relay' = IF relay.registered = c THEN [relay EXCEPT !.cache = frame.version] ELSE relay
  BY <1>a, <1>c DEF RelayReadsFrame
<1>f. \A d \in Conn : \A i \in DOMAIN up'[d] :
        /\ i \in Nat
        /\ \/ d # c /\ i \in DOMAIN up[d] /\ up'[d][i] = up[d][i]
           \/ d = c /\ i + 1 \in DOMAIN up[d] /\ up'[d][i] = up[d][i + 1]
  <2> TAKE d \in Conn
  <2>1. CASE d = c
    BY <1>a, <2>1
  <2>2. CASE d # c
    BY <1>0, <1>a, <2>2 DEF ControlTypeOK
  <2> QED
    BY <2>1, <2>2
<1> HIDE DEF frame
<1>g. /\ relay' \in RelayType /\ relay'.registered \in {c, relay.registered}
      /\ frame.type = "hello" => /\ relay'.registered = c /\ relay'.epoch = frame.epoch
                                 /\ relay'.cache = NoCache \/ (relay'.cache = relay.cache /\ relay'.epoch = relay.epoch)
      /\ frame.type # "hello" => relay'.registered = relay.registered
      /\ frame.type = "event" /\ relay.registered = c => relay'.epoch = frame.epoch /\ relay'.cache = NoCache
      /\ frame.type = "data" /\ relay.registered = c => relay'.epoch = relay.epoch /\ relay'.cache = frame.version
      /\ frame.type # "hello" /\ relay.registered # c => relay' = relay
  <2>1. CASE frame.type = "hello"
    BY <1>b, <1>d, <1>e, <2>1, ConnFacts DEF RelayType
  <2>2. CASE frame.type = "event"
    BY <1>b, <1>d, <1>e, <2>2, ConnFacts DEF RelayType
  <2>3. CASE frame.type = "data"
    BY <1>b, <1>d, <1>e, <2>3, ConnFacts DEF RelayType
  <2> QED
    BY <1>c, <2>1, <2>2, <2>3
<1>h. /\ fate' \in [Conn -> {"none", "lost", "replaced"}]
      /\ \A d \in Conn : fate'[d] = fate[d] \/ d = relay.registered
  BY <1>0, <1>c, <1>e
<1>i. relay'.registered # NoConn => relay'.epoch <= client.epoch
  BY <1>0, <1>c, <1>d, <1>g DEF EpochsOK
<1>1. ControlTypeOK'
  BY <1>0, <1>a, <1>b, <1>g, <1>h DEF ControlTypeOK
<1>2. SocketsOK'
  <2>1. \A d \in Conn : sock[d] \in {"none", "connecting"} => up'[d] = <<>>
    BY <1>0, <1>a, <1>b DEF SocketsOK
  <2> QED
    BY <1>0, <1>b, <1>g, <1>h, <2>1 DEF SocketsOK
<1>3. ClientOK'
  <2>1. client.hasStarted
    BY <1>0, <1>b DEF ClientOK
  <2>2. relay'.registered = NoConn => relay'.cache = NoCache
    BY <1>0, <1>c, <1>g DEF ClientOK
  <2> QED
    BY <1>0, <1>b, <2>1, <2>2 DEF ClientOK
<1>4. HelloOK' /\ EpochsOK' /\ StaleIsFenced'
  <2>1. HelloOK'
    <3> SUFFICES ASSUME NEW d \in Conn, NEW i \in DOMAIN up'[d], up'[d][i].type = "hello"
                 PROVE  i = 1 /\ relay'.registered # d
      BY DEF HelloOK
    <3>1. d # c /\ i \in DOMAIN up[d] /\ up'[d][i] = up[d][i]
      <4>1. ~(d = c /\ i + 1 \in DOMAIN up[d] /\ up'[d][i] = up[d][i + 1])
        <5> SUFFICES ASSUME d = c /\ i + 1 \in DOMAIN up[d] /\ up'[d][i] = up[d][i + 1] PROVE FALSE
          OBVIOUS
        <5>1. i + 1 = 1
          BY <1>0 DEF HelloOK
        <5> QED
          BY <1>a, <5>1
      <4> QED
        BY <1>f, <4>1
    <3> QED
      BY <1>0, <1>g, <3>1 DEF HelloOK
  <2>2. EpochsOK'
    <3>1. \A d \in Conn : \A i \in DOMAIN up'[d] : up'[d][i].type # "data" => up'[d][i].epoch <= client.epoch
      BY <1>0, <1>f DEF EpochsOK
    <3> QED
      BY <1>b, <1>i, <3>1 DEF EpochsOK
  <2>3. StaleIsFenced'
    <3> SUFFICES ASSUME client.subscribed
                 PROVE  /\ relay'.cache \in {NoCache, version} \/ relay'.epoch < client.epoch
                        /\ \A d \in Conn : \A i \in DOMAIN up'[d] :
                             up'[d][i].type = "data" /\ up'[d][i].version # version =>
                               /\ relay'.registered = d => relay'.epoch < client.epoch
                               /\ \A j \in 1..(i - 1) : up'[d][j].type # "data" => up'[d][j].epoch < client.epoch
      BY <1>b DEF StaleIsFenced
    <3>1. relay'.cache \in {NoCache, version} \/ relay'.epoch < client.epoch
      <4>1. CASE frame.type = "hello"
        BY <1>0, <1>g, <4>1 DEF StaleIsFenced
      <4>2. CASE frame.type = "event"
        BY <1>0, <1>g, <4>2 DEF StaleIsFenced
      <4>3. CASE frame.type = "data"
        <5>1. frame.version # version /\ relay.registered = c => relay.epoch < client.epoch
          BY <1>0, <1>a, <4>3 DEF StaleIsFenced, frame
        <5> QED
          BY <1>0, <1>g, <4>3, <5>1 DEF StaleIsFenced
      <4> QED
        BY <1>c, <4>1, <4>2, <4>3
    <3>2. ASSUME NEW d \in Conn, NEW i \in DOMAIN up'[d], up'[d][i].type = "data", up'[d][i].version # version
          PROVE  /\ relay'.registered = d => relay'.epoch < client.epoch
                 /\ \A j \in 1..(i - 1) : up'[d][j].type # "data" => up'[d][j].epoch < client.epoch
      <4>1. CASE d # c
        <5>1. up'[d] = up[d]
          BY <1>a, <4>1
        <5>2. relay'.registered = d => relay' = relay /\ relay.registered = d
          BY <1>c, <1>g, <4>1
        <5> QED
          BY <1>0, <3>2, <5>1, <5>2 DEF StaleIsFenced
      <4>2. CASE d = c
        <5>1. i \in Nat /\ i >= 1 /\ i + 1 \in DOMAIN up[c] /\ up'[c][i] = up[c][i + 1]
          BY <1>a, <4>2
        <5>2. /\ relay.registered = c => relay.epoch < client.epoch
              /\ \A j \in 1..i : up[c][j].type # "data" => up[c][j].epoch < client.epoch
          <6>1. up[c][i + 1].type = "data" /\ up[c][i + 1].version # version /\ (i + 1) - 1 = i
            BY <3>2, <4>2, <5>1
          <6> QED
            BY <1>0, <5>1, <6>1 DEF StaleIsFenced
        <5>3. frame.type # "data" => frame.epoch < client.epoch
          BY <5>1, <5>2 DEF frame
        <5>4. \A j \in 1..(i - 1) : j \in DOMAIN up'[c]
          <6>1. up'[c] \in Seq(TunnelFrame)
            BY <1>a
          <6>2. DOMAIN up'[c] = 1..Len(up'[c]) /\ Len(up'[c]) \in Nat
            BY <6>1
          <6> QED
            BY <4>2, <6>2
        <5>5. \A j \in 1..(i - 1) : up'[c][j] = up[c][j + 1] /\ j + 1 \in 1..i
          <6>1. ASSUME NEW j \in 1..(i - 1)
                PROVE  up'[c][j] = up[c][j + 1] /\ j + 1 \in 1..i
            <7>1. j \in DOMAIN up'[c]
              BY <5>4
            <7>2. up'[c][j] = up[c][j + 1]
              BY <1>a, <7>1
            <7>3. j + 1 \in 1..i
              BY <5>1
            <7> QED
              BY <7>2, <7>3
          <6> QED
            BY <6>1
        <5>6. relay'.registered = c => relay'.epoch < client.epoch
          BY <1>c, <1>g, <5>2, <5>3
        <5> QED
          BY <4>2, <5>2, <5>5, <5>6
      <4> QED
        BY <4>1, <4>2
    <3> QED
      BY <3>1, <3>2
  <2> QED
    BY <2>1, <2>2, <2>3
<1>5. EpochIsAnnounced'
  <2> SUFFICES ASSUME NEW d \in Conn, d = client.control, sock[d] = "open"
               PROVE  \/ \E i \in DOMAIN up'[d] : /\ up'[d][i].type # "data" /\ up'[d][i].epoch = client.epoch
                                                  /\ \A j \in DOMAIN up'[d] : j > i => up'[d][j].type = "data"
                      \/ /\ relay'.registered = d /\ relay'.epoch = client.epoch
                         /\ \A j \in DOMAIN up'[d] : up'[d][j].type = "data"
                      \/ relay'.registered # d /\ \A i \in DOMAIN up'[d] : up'[d][i].type # "hello"
    BY <1>0, <1>b DEF EpochIsAnnounced
  <2>0. \/ \E i \in DOMAIN up[d] : /\ up[d][i].type # "data" /\ up[d][i].epoch = client.epoch
                                   /\ \A j \in DOMAIN up[d] : j > i => up[d][j].type = "data"
        \/ /\ relay.registered = d /\ relay.epoch = client.epoch
           /\ \A j \in DOMAIN up[d] : up[d][j].type = "data"
        \/ relay.registered # d /\ \A i \in DOMAIN up[d] : up[d][i].type # "hello"
    BY <1>0 DEF EpochIsAnnounced
  <2>1. CASE d # c
    <3>1. up'[d] = up[d]
      BY <1>a, <2>1
    <3>2. CASE relay.registered = d
      <4>1. CASE frame.type = "hello"
        BY <1>0, <1>g, <2>1, <3>1, <3>2, <4>1 DEF HelloOK
      <4>2. CASE frame.type # "hello"
        BY <1>g, <2>0, <2>1, <3>1, <3>2, <4>2
      <4> QED
        BY <4>1, <4>2
    <3>3. CASE relay.registered # d
      BY <1>g, <2>0, <2>1, <3>1, <3>3
    <3> QED
      BY <3>2, <3>3
  <2>2. CASE d = c
    <3>1. \A i \in DOMAIN up[c] : i = 1 \/ (i - 1 \in DOMAIN up'[c] /\ up'[c][i - 1] = up[c][i])
      BY <1>a
    <3>2. \A i \in DOMAIN up'[c] : up'[c][i].type # "hello"
      <4> SUFFICES ASSUME NEW i \in DOMAIN up'[c], up'[c][i].type = "hello" PROVE FALSE
        OBVIOUS
      <4>1. i \in Nat /\ i >= 1 /\ i + 1 \in DOMAIN up[c] /\ up[c][i + 1].type = "hello"
        BY <1>a
      <4>2. i + 1 = 1
        BY <1>0, <4>1 DEF HelloOK
      <4> QED
        BY <4>1, <4>2
    <3>3. ASSUME NEW i \in DOMAIN up[c], up[c][i].type # "data", up[c][i].epoch = client.epoch,
                 \A j \in DOMAIN up[c] : j > i => up[c][j].type = "data"
          PROVE  \/ \E k \in DOMAIN up'[d] : /\ up'[d][k].type # "data" /\ up'[d][k].epoch = client.epoch
                                             /\ \A j \in DOMAIN up'[d] : j > k => up'[d][j].type = "data"
                 \/ /\ relay'.registered = d /\ relay'.epoch = client.epoch
                    /\ \A j \in DOMAIN up'[d] : up'[d][j].type = "data"
                 \/ relay'.registered # d /\ \A k \in DOMAIN up'[d] : up'[d][k].type # "hello"
      <4>1. i \in Nat
        BY <1>a
      <4>2. \A j \in DOMAIN up'[c] : j >= i => up'[c][j].type = "data"
        BY <1>a, <3>3, <4>1
      <4>3. CASE i = 1
        <5>1. frame.type # "data" /\ frame.epoch = client.epoch
          BY <3>3, <4>3 DEF frame
        <5>2. \A j \in DOMAIN up'[c] : up'[c][j].type = "data"
          BY <1>a, <4>2, <4>3
        <5> QED
          BY <1>c, <1>g, <2>2, <3>2, <5>1, <5>2
      <4>4. CASE i # 1
        <5>1. i - 1 \in DOMAIN up'[c] /\ up'[c][i - 1] = up[c][i]
          BY <3>1, <4>4
        <5>2. \A j \in DOMAIN up'[c] : j > i - 1 => up'[c][j].type = "data"
          BY <1>a, <4>1, <4>2
        <5> QED
          BY <2>2, <3>3, <5>1, <5>2
      <4> QED
        BY <4>3, <4>4
    <3>4. CASE relay.registered = d /\ relay.epoch = client.epoch /\ \A j \in DOMAIN up[d] : up[d][j].type = "data"
      <4>1. frame.type = "data"
        BY <1>a, <2>2, <3>4 DEF frame
      <4>2. \A j \in DOMAIN up'[c] : up'[c][j].type = "data"
        BY <1>a, <2>2, <3>4
      <4> QED
        BY <1>g, <2>2, <3>4, <4>1, <4>2
    <3>5. CASE relay.registered # d /\ \A i \in DOMAIN up[d] : up[d][i].type # "hello"
      <4>1. frame.type # "hello"
        BY <1>a, <2>2, <3>5 DEF frame
      <4> QED
        BY <1>g, <2>2, <3>2, <3>5, <4>1
    <3> QED
      BY <2>0, <2>2, <3>3, <3>4, <3>5
  <2> QED
    BY <2>1, <2>2
<1> QED
  BY <1>1, <1>2, <1>3, <1>4, <1>5 DEF ControlInv
----------------------------------------------------------------------------
(* The theorems. *)

\* A daemon that has not connected yet satisfies the invariant.
LEMMA ControlInitially == TunnelControlInit => ControlInv
<1> SUFFICES ASSUME TunnelControlInit PROVE ControlInv
  OBVIOUS
<1> USE DEF TunnelControlInit
<1>1. ControlTypeOK
  <2>1. MaxMutations + MaxConn + 1 \in Nat /\ 0 \in 0..MaxMutations /\ <<>> \in Seq(TunnelFrame)
    BY ControlBounds
  <2>2. client \in ClientType
    BY DEF ClientType
  <2>3. relay \in RelayType
    BY <2>1, ConnFacts DEF RelayType
  <2>4. sock \in [Conn -> SockState] /\ fate \in [Conn -> {"none", "lost", "replaced"}]
    BY DEF SockState
  <2>5. up \in [Conn -> Seq(TunnelFrame)]
    BY <2>1
  <2> QED
    BY <2>1, <2>2, <2>3, <2>4, <2>5 DEF ControlTypeOK
<1>2. SocketsOK
  <2>1. {c \in Conn : sock[c] # "none"} = 1..0 /\ 0 \in 0..MaxConn
    BY ControlBounds
  <2> QED
    BY <2>1 DEF SocketsOK
<1>3. \A c \in Conn : DOMAIN up[c] = {}
  BY EmptySeq
<1>4. ClientOK
  BY DEF ClientOK
<1>5. HelloOK /\ EpochsOK /\ StaleIsFenced /\ EpochIsAnnounced
  BY <1>3 DEF HelloOK, EpochsOK, StaleIsFenced, EpochIsAnnounced
<1> QED
  BY <1>1, <1>2, <1>4, <1>5 DEF ControlInv

\* Every step of the client, the network and the relay keeps it.
LEMMA ControlKeeps == ControlInv /\ [TunnelControlNext]_ctlVars => ControlInv'
<1> SUFFICES ASSUME ControlInv, [TunnelControlNext]_ctlVars PROVE ControlInv'
  OBVIOUS
<1>1. CASE RelayConnect
  BY <1>1, ConnectStep
<1>2. CASE RelayDisconnect
  BY <1>2, DisconnectStep
<1>3. CASE VaultChanges
  BY <1>3, VaultChangesStep
<1>4. CASE HeartbeatTick \/ HeartbeatDeadline \/ ControlPong
  BY <1>4, HeartbeatStep
<1>5. CASE RelayFetches
  BY <1>5, FetchStep
<1>6. CASE RivalRegisters
  BY <1>6, RivalStep
<1>7. ASSUME NEW c \in Conn, SocketOpens(c) PROVE ControlInv'
  BY <1>7, OpensStep
<1>8. ASSUME NEW c \in Conn, SocketCloses(c) PROVE ControlInv'
  BY <1>8, ClosesStep
<1>9. ASSUME NEW c \in Conn, RetryFires(c) PROVE ControlInv'
  BY <1>9, RetryStep
<1>10. ASSUME NEW c \in Conn, RelayReadsFrame(c) PROVE ControlInv'
  BY <1>10, ReadsFrameStep
<1>11. ASSUME NEW c \in Conn, ConnectionLost(c) \/ ConnectionHangs(c) PROVE ControlInv'
  BY <1>11, NetworkStep
<1>12. CASE UNCHANGED ctlVars
  <2>1. UNCHANGED <<client, sock, fate, up, version, relay>>
    BY <1>12 DEF ctlVars
  <2> QED
    BY <2>1 DEF ControlInv, ControlTypeOK, SocketsOK, ClientOK, HelloOK, EpochsOK, StaleIsFenced, EpochIsAnnounced
<1> QED
  BY <1>1, <1>2, <1>3, <1>4, <1>5, <1>6, <1>7, <1>8, <1>9, <1>10, <1>11, <1>12 DEF TunnelControlNext

\* A relay that has read every frame of the registered control socket knows the
\* client's epoch, and what is cached under that epoch is what the vaults hold.
LEMMA CurrentWhenRead == ControlInv => RelayCacheIsCurrent
<1> SUFFICES ASSUME ControlInv, NEW c \in Conn, c = relay.registered, client.control = c,
                    sock[c] = "open", up[c] = <<>>
             PROVE  relay.cache \in {NoCache, version}
  BY ControlFacts DEF RelayCacheIsCurrent
<1>1. DOMAIN up[c] = {}
  BY EmptySeq
<1>2. relay.epoch = client.epoch
  BY <1>1, ControlFacts DEF EpochIsAnnounced
<1>3. client.subscribed
  BY ControlFacts DEF ClientOK
<1> QED
  BY <1>2, <1>3, ControlFacts DEF StaleIsFenced

\* The relay never serves, as current, vault contents that have changed: for any
\* number of sockets, changes and missed heartbeats, when the relay has read what
\* the daemon sent on the registered control socket its cache is empty or holds
\* the vaults' contents (sendRelayEvent, start and the control.hello of
\* tunnel-client/src/index.ts).
THEOREM CacheIsCurrent == TunnelControlSpec => []RelayCacheIsCurrent
<1>1. TunnelControlInit => ControlInv
  BY ControlInitially
<1>2. ControlInv /\ [TunnelControlNext]_ctlVars => ControlInv'
  BY ControlKeeps
<1>3. ControlInv => RelayCacheIsCurrent
  BY CurrentWhenRead
<1> QED
  BY <1>1, <1>2, <1>3, PTL DEF TunnelControlSpec

\* What a disconnect leaves behind: a client that is stopped, and stays so until
\* the operator connects.
DisconnectedOK ==
    /\ wanted \in BOOLEAN
    /\ client.stopped \in BOOLEAN
    /\ ~wanted => client.stopped

\* The fields of the client that a close, a retry or an event writes are not
\* `stopped`, unless it becomes TRUE.
LEMMA StoppedStays ==
    ASSUME ControlInv, TunnelControlNext, ~RelayConnect, client.stopped
    PROVE  client'.stopped = TRUE /\ \A c \in Conn : sock'[c] = "connecting" => sock[c] = "connecting"
<1>0. client \in ClientType /\ sock \in [Conn -> SockState] /\ client.stopped = TRUE
  BY DEF ControlInv, ControlTypeOK, ClientType
<1>1. CASE RelayDisconnect
  <2>1. client' = [[client EXCEPT !.subscribed = FALSE] EXCEPT !.stopped = TRUE, !.control = NoConn,
                                                               !.reconnectTimer = NoConn]
        /\ (sock' = sock \/ sock' = [sock EXCEPT ![client.control] = "closing"])
    BY <1>0, <1>1 DEF RelayDisconnect, Stop, ClientType
  <2> QED
    BY <1>0, <2>1 DEF ClientType
<1>2. CASE VaultChanges
  <2>1. sock' = sock /\ (client' = client \/ client' = [client EXCEPT !.epoch = @ + 1])
    BY <1>2 DEF VaultChanges, SendRelayEvent
  <2> QED
    BY <1>0, <2>1 DEF ClientType
<1>3. CASE HeartbeatTick \/ HeartbeatDeadline \/ ControlPong
  BY <1>0, <1>3 DEF HeartbeatTick, HeartbeatDeadline, ControlPong
<1>4. CASE RelayFetches \/ RivalRegisters
  BY <1>0, <1>4 DEF RelayFetches, RivalRegisters
<1>5. ASSUME NEW c \in Conn, SocketOpens(c) \/ RelayReadsFrame(c) \/ ConnectionLost(c) \/ ConnectionHangs(c)
      PROVE  client'.stopped = TRUE /\ \A d \in Conn : sock'[d] = "connecting" => sock[d] = "connecting"
  <2>1. client' = client /\ (sock' = sock \/ sock' = [sock EXCEPT ![c] = "open"])
    BY <1>5 DEF SocketOpens, RelayReadsFrame, ConnectionLost, ConnectionHangs
  <2> QED
    BY <1>0, <2>1
<1>6. ASSUME NEW c \in Conn, SocketCloses(c)
      PROVE  client'.stopped = TRUE /\ \A d \in Conn : sock'[d] = "connecting" => sock[d] = "connecting"
  <2>1. sock' = [sock EXCEPT ![c] = "closed"]
        /\ client' = IF client.control = c THEN [client EXCEPT !.control = NoConn] ELSE client
    BY <1>0, <1>6 DEF SocketCloses, RetryOrStop
  <2> QED
    BY <1>0, <2>1 DEF ClientType
<1>7. ASSUME NEW c \in Conn, RetryFires(c)
      PROVE  client'.stopped = TRUE /\ \A d \in Conn : sock'[d] = "connecting" => sock[d] = "connecting"
  <2>1. sock' = sock /\ client' = [client EXCEPT !.reconnectTimer = NoConn]
    BY <1>0, <1>7 DEF RetryFires
  <2> QED
    BY <1>0, <2>1 DEF ClientType
<1> QED
  BY <1>1, <1>2, <1>3, <1>4, <1>5, <1>6, <1>7 DEF TunnelControlNext

\* Only RelayConnect sets `wanted`, and only RelayDisconnect clears it.
LEMMA DisconnectedKeeps ==
    ControlInv /\ DisconnectedOK /\ [TunnelControlNext]_ctlVars /\ ControlInv' => DisconnectedOK'
<1> SUFFICES ASSUME ControlInv, DisconnectedOK, [TunnelControlNext]_ctlVars, ControlInv'
             PROVE  DisconnectedOK'
  OBVIOUS
<1>1. client'.stopped \in BOOLEAN
  BY DEF ControlInv, ControlTypeOK, ClientType
<1>2. CASE RelayConnect
  BY <1>1, <1>2 DEF RelayConnect, DisconnectedOK
<1>3. CASE RelayDisconnect
  <2>1. client \in ClientType
    BY DEF ControlInv, ControlTypeOK
  <2>2. client' = [[client EXCEPT !.subscribed = FALSE] EXCEPT !.stopped = TRUE, !.control = NoConn,
                                                               !.reconnectTimer = NoConn]
        /\ wanted' = FALSE
    BY <1>3 DEF RelayDisconnect, Stop
  <2> QED
    BY <2>1, <2>2 DEF DisconnectedOK, ClientType
<1>4. CASE TunnelControlNext /\ ~RelayConnect /\ ~RelayDisconnect
  <2>1. UNCHANGED wanted
    BY <1>4 DEF TunnelControlNext, VaultChanges, HeartbeatTick, HeartbeatDeadline, ControlPong, RelayFetches,
                RivalRegisters, SocketOpens, SocketCloses, RetryFires, RelayReadsFrame, ConnectionLost, ConnectionHangs
  <2> QED
    BY <1>1, <1>4, <2>1, StoppedStays DEF DisconnectedOK
<1>5. CASE UNCHANGED ctlVars
  BY <1>5 DEF ctlVars, DisconnectedOK
<1> QED
  BY <1>2, <1>3, <1>4, <1>5

\* After the operator's disconnect no control socket is opened, whichever retry
\* timers and close events of earlier sockets are still to come (connectControl
\* and stop of tunnel-client/src/index.ts).
THEOREM DisconnectHolds == TunnelControlSpec => DisconnectSticks
<1>1. TunnelControlInit => ControlInv /\ DisconnectedOK
  <2>1. TunnelControlInit => wanted = FALSE /\ client.stopped = TRUE
    BY DEF TunnelControlInit
  <2>2. wanted = FALSE /\ client.stopped = TRUE => DisconnectedOK
    BY DEF DisconnectedOK
  <2> QED
    BY <2>1, <2>2, ControlInitially
<1>2. ControlInv /\ DisconnectedOK /\ [TunnelControlNext]_ctlVars => ControlInv' /\ DisconnectedOK'
  BY ControlKeeps, DisconnectedKeeps
<1>3. ControlInv /\ DisconnectedOK /\ [TunnelControlNext]_ctlVars =>
        [~wanted /\ ~wanted' => \A c \in Conn : sock'[c] = "connecting" => sock[c] = "connecting"]_ctlVars
  <2> SUFFICES ASSUME ControlInv, DisconnectedOK, TunnelControlNext, ~wanted, ~wanted',
                      NEW c \in Conn, sock'[c] = "connecting"
               PROVE  sock[c] = "connecting"
    OBVIOUS
  <2>1. ~RelayConnect
    BY DEF RelayConnect
  <2>2. client.stopped
    BY DEF DisconnectedOK
  <2> QED
    BY <2>1, <2>2, StoppedStays
<1> QED
  BY <1>1, <1>2, <1>3, PTL DEF TunnelControlSpec, DisconnectSticks

----------------------------------------------------------------------------
(* The inductive invariant of the calls. *)

Phase == {"none", "fetching", "connecting", "calling", "done"}

CallType ==
    [id : RpcIds \cup {"none"}, kind : RpcKinds \cup {"none"}, control : Nat, phase : Phase,
     deadline : BOOLEAN, cancelled : BOOLEAN, dispatched : BOOLEAN, posted : BOOLEAN]

\* The types of what the invariant speaks of.
RpcTypeOK ==
    /\ rpcControl \in [number : Nat, open : BOOLEAN]
    /\ calls \in [RpcCalls -> CallType]
    /\ pendingRpc \in [RpcIds -> RpcCalls \cup {NoRpcCall}]
    /\ DOMAIN answers = RpcCalls
    /\ daemonRan \subseteq RpcCalls

\* Calls are numbered in the order they are made, each by the control
\* connection that is there when it comes.
MadeOK ==
    /\ \E k \in 0..MaxCalls : Made = 1..k
    /\ \A n \in RpcCalls : calls[n].control <= rpcControl.number
    /\ \A n \in RpcCalls : calls[n].phase # "none" => calls[n].id \in RpcIds

\* Only a call that waits for its tool, or is over, has posted anything; a call
\* that waits for its tool is marked as dispatched, and only a call that is
\* over has an answer.
PhaseOK ==
    \A n \in RpcCalls :
      /\ n \in daemonRan => calls[n].posted
      /\ calls[n].posted => calls[n].phase \in {"calling", "done"}
      /\ calls[n].phase = "calling" => calls[n].dispatched
      /\ answers[n] # "none" => calls[n].phase = "done"

RpcInv == RpcTypeOK /\ MadeOK /\ PhaseOK /\ RetryIsSafe /\ RpcCancelReaches
----------------------------------------------------------------------------
(* Lemmas. *)

\* No call has the number that stands for none.
LEMMA RpcCallFacts == NoRpcCall \notin RpcCalls /\ RpcCalls \subseteq Nat
BY RpcBounds DEF NoRpcCall, RpcCalls

\* The next number is that of a call that was not made.
LEMMA NextCallIsFresh ==
    ASSUME RpcTypeOK, MadeOK, Cardinality(Made) + 1 \in RpcCalls
    PROVE  /\ calls[Cardinality(Made) + 1].phase = "none"
           /\ \E k \in 0..MaxCalls : Made \cup {Cardinality(Made) + 1} = 1..k
<1>1. PICK k \in 0..MaxCalls : Made = 1..k
  BY DEF MadeOK
<1>2. Cardinality(1..k) = k
  BY <1>1, RpcBounds, FS_Interval
<1>3. Cardinality(Made) = k
  BY <1>1, <1>2
<1>4. k + 1 \notin Made
  BY <1>1
<1>5. k + 1 \in 0..MaxCalls /\ 1..k \cup {k + 1} = 1..(k + 1)
  BY <1>1, <1>3, RpcBounds DEF RpcCalls
<1> QED
  BY <1>1, <1>3, <1>4, <1>5 DEF Made

\* A step that changes one call, and neither its id, its control connection nor
\* whether it was made, keeps the numbering.
LEMMA OneCallChanges ==
    ASSUME RpcTypeOK, MadeOK, NEW n \in RpcCalls, NEW r \in CallType,
           calls' = [calls EXCEPT ![n] = r], UNCHANGED rpcControl,
           r.id = calls[n].id, r.control = calls[n].control,
           r.phase = "none" <=> calls[n].phase = "none"
    PROVE  /\ calls' \in [RpcCalls -> CallType] /\ calls'[n] = r
           /\ \A m \in RpcCalls \ {n} : calls'[m] = calls[m]
           /\ MadeOK'
<1>1. /\ calls' \in [RpcCalls -> CallType] /\ calls'[n] = r
      /\ \A m \in RpcCalls \ {n} : calls'[m] = calls[m]
  BY DEF RpcTypeOK
<1>2. \A m \in RpcCalls : /\ calls'[m].id = calls[m].id /\ calls'[m].control = calls[m].control
                          /\ calls'[m].phase = "none" <=> calls[m].phase = "none"
  BY <1>1
<1>3. Made' = Made
  BY <1>2 DEF Made
<1> QED
  BY <1>1, <1>2, <1>3 DEF MadeOK
----------------------------------------------------------------------------
(* The steps. *)

\* Before the first request.
LEMMA RpcInitially == RelayRpcInit => RpcInv
<1> SUFFICES ASSUME RelayRpcInit PROVE RpcInv
  OBVIOUS
<1> DEFINE none == [NewCall("none", "none", "none") EXCEPT !.control = 0]
<1>1. /\ none \in CallType /\ none.phase = "none" /\ none.control = 0 /\ none.posted = FALSE
      /\ none.kind = "none"
  BY DEF NewCall, CallType, Phase
<1> HIDE DEF none
<1>2. /\ calls \in [RpcCalls -> CallType] /\ \A n \in RpcCalls : calls[n] = none
      /\ rpcControl = [number |-> 1, open |-> TRUE] /\ pendingRpc = [id \in RpcIds |-> NoRpcCall]
      /\ answers = [n \in RpcCalls |-> "none"] /\ daemonRan = {}
  BY <1>1 DEF RelayRpcInit, none
<1>3. RpcTypeOK
  BY <1>2 DEF RpcTypeOK
<1>4. Made = 1..0 /\ 0 \in 0..MaxCalls
  BY <1>1, <1>2, RpcBounds DEF Made
<1>5. MadeOK
  BY <1>1, <1>2, <1>4 DEF MadeOK
<1>6. PhaseOK /\ RetryIsSafe
  BY <1>1, <1>2 DEF PhaseOK, RetryIsSafe
<1>7. RpcCancelReaches
  BY <1>1, <1>2 DEF RpcCancelReaches, Unsettled
<1> QED
  BY <1>3, <1>5, <1>6, <1>7 DEF RpcInv

\* A request: it takes the next number, and the table's entry of its id only
\* when there is none.
LEMMA RequestStep ==
    ASSUME RpcInv, NEW id \in RpcIds, NEW kind \in RpcKinds, RpcRequest(id, kind)
    PROVE  RpcInv'
<1>0. RpcTypeOK /\ MadeOK /\ PhaseOK /\ RetryIsSafe /\ RpcCancelReaches
  BY DEF RpcInv
<1>1. PICK n \in RpcCalls : n = Cardinality(Made) + 1
  BY DEF RpcRequest
<1>2. calls[n].phase = "none" /\ \E k \in 0..MaxCalls : Made \cup {n} = 1..k
  BY <1>0, <1>1, NextCallIsFresh
<1>3. /\ answers[n] = "none" /\ n \notin daemonRan
  BY <1>0, <1>2 DEF PhaseOK
<1> DEFINE refused == Backpressure(id)
           phase == IF refused THEN "done" ELSE FirstWait(kind)
           r == NewCall(id, kind, phase)
<1>4. /\ phase \in {"fetching", "connecting", "done"}
      /\ phase # "done" => pendingRpc[id] = NoRpcCall
  BY <1>0 DEF FirstWait, ParsesToolCall, Backpressure
<1>5. /\ r \in CallType /\ r.id = id /\ r.kind = kind /\ r.control = rpcControl.number /\ r.phase = phase
      /\ r.posted = FALSE /\ r.dispatched = FALSE
  BY <1>0, <1>4 DEF NewCall, CallType, Phase, RpcTypeOK
<1>6. /\ UNCHANGED <<rpcControl, daemonRan>>
      /\ calls' = [calls EXCEPT ![n] = r]
      /\ pendingRpc' = IF phase = "done" THEN pendingRpc ELSE [pendingRpc EXCEPT ![id] = n]
      /\ \/ phase = "done" /\ \E code : answers' = [answers EXCEPT ![n] = code]
         \/ answers' = answers
  <2>1. /\ UNCHANGED <<rpcControl, daemonRan>>
        /\ calls' = [calls EXCEPT ![n] = r]
        /\ pendingRpc' = IF phase = "done" THEN pendingRpc ELSE [pendingRpc EXCEPT ![id] = n]
        /\ \/ refused /\ RpcAnswer(n, "backpressure")
           \/ ~refused /\ kind = "unknown" /\ RpcAnswer(n, "unknown-capability")
           \/ ~refused /\ kind = "bad" /\ RpcAnswer(n, "bad-message")
           \/ phase # "done" /\ UNCHANGED answers
    BY <1>1 DEF RpcRequest
  <2>2. kind \in {"unknown", "bad"} => phase = "done"
    BY DEF FirstWait, ParsesToolCall
  <2> QED
    BY <2>1, <2>2 DEF RpcAnswer
<1> HIDE DEF refused, phase, r
<1>7. /\ calls' \in [RpcCalls -> CallType] /\ calls'[n] = r
      /\ \A m \in RpcCalls \ {n} : calls'[m] = calls[m] /\ answers'[m] = answers[m]
      /\ DOMAIN answers' = RpcCalls
      /\ answers'[n] # "none" => phase = "done"
  BY <1>0, <1>3, <1>5, <1>6 DEF RpcTypeOK
<1>8. RpcTypeOK'
  BY <1>0, <1>6, <1>7 DEF RpcTypeOK
<1>9. MadeOK'
  <2>1. Made' = Made \cup {n}
    BY <1>4, <1>5, <1>7 DEF Made
  <2>2. \A m \in RpcCalls : calls'[m].control <= rpcControl.number
    BY <1>0, <1>5, <1>7 DEF MadeOK, RpcTypeOK
  <2>3. \A m \in RpcCalls : calls'[m].phase # "none" => calls'[m].id \in RpcIds
    BY <1>0, <1>5, <1>7 DEF MadeOK
  <2> QED
    BY <1>2, <1>6, <2>1, <2>2, <2>3 DEF MadeOK
<1>10. PhaseOK'
  BY <1>0, <1>3, <1>4, <1>5, <1>6, <1>7 DEF PhaseOK
<1>11. RetryIsSafe'
  BY <1>0, <1>3, <1>5, <1>6, <1>7 DEF RetryIsSafe
<1>12. RpcCancelReaches'
  <2> SUFFICES ASSUME NEW m \in RpcCalls, Unsettled(m)', rpcControl.open,
                      calls'[m].control = rpcControl.number
               PROVE  pendingRpc'[calls'[m].id] = m
    BY <1>6 DEF RpcCancelReaches
  <2>1. CASE m = n
    BY <1>0, <1>5, <1>6, <1>7, <2>1 DEF Unsettled, RpcTypeOK
  <2>2. CASE m # n
    <3>1. calls'[m] = calls[m] /\ Unsettled(m)
      BY <1>7, <2>2 DEF Unsettled
    <3>2. pendingRpc[calls[m].id] = m /\ calls[m].id \in RpcIds
      BY <1>0, <3>1 DEF RpcCancelReaches, MadeOK, Unsettled
    <3>3. phase # "done" => calls[m].id # id
      BY <1>4, <3>2, RpcCallFacts
    <3> QED
      BY <1>0, <1>6, <3>1, <3>2, <3>3 DEF RpcTypeOK
  <2> QED
    BY <2>1, <2>2
<1> QED
  BY <1>8, <1>9, <1>10, <1>11, <1>12 DEF RpcInv

\* A cancel frame and a deadline only mark the call.
LEMMA AbortStep ==
    ASSUME RpcInv, NEW n \in RpcCalls, NEW r \in CallType, calls' = [calls EXCEPT ![n] = r],
           r.id = calls[n].id, r.kind = calls[n].kind, r.control = calls[n].control,
           r.phase = calls[n].phase, r.dispatched = calls[n].dispatched, r.posted = calls[n].posted,
           UNCHANGED <<rpcControl, pendingRpc, answers, daemonRan>>
    PROVE  RpcInv'
<1>0. RpcTypeOK /\ MadeOK /\ PhaseOK /\ RetryIsSafe /\ RpcCancelReaches
  BY DEF RpcInv
<1>1. /\ calls' \in [RpcCalls -> CallType] /\ MadeOK'
      /\ \A m \in RpcCalls \ {n} : calls'[m] = calls[m]
      /\ calls'[n] = r
  BY <1>0, OneCallChanges
<1>2. \A m \in RpcCalls : /\ calls'[m].id = calls[m].id /\ calls'[m].kind = calls[m].kind
                          /\ calls'[m].control = calls[m].control /\ calls'[m].phase = calls[m].phase
                          /\ calls'[m].dispatched = calls[m].dispatched /\ calls'[m].posted = calls[m].posted
  BY <1>1
<1>3. RpcTypeOK'
  BY <1>0, <1>1 DEF RpcTypeOK
<1>4. PhaseOK'
  BY <1>0, <1>2 DEF PhaseOK
<1>5. RetryIsSafe'
  BY <1>0, <1>2 DEF RetryIsSafe
<1>6. RpcCancelReaches'
  BY <1>0, <1>2 DEF RpcCancelReaches, Unsettled
<1> QED
  BY <1>1, <1>3, <1>4, <1>5, <1>6 DEF RpcInv

\* A call that settles is over, and gives up the table's entry only when that
\* entry is its own.  The answer must be true: a mutation that was posted is
\* given none of the codes that invite a retry.
LEMMA SettleStep ==
    ASSUME RpcInv, NEW n \in RpcCalls, NEW code, Settle(n, code), Unsettled(n),
           calls[n].kind = "write" /\ code \in {"cancelled", "deadline-exceeded", "backpressure", "bad-message"}
             => ~calls[n].posted
    PROVE  RpcInv'
<1>0. RpcTypeOK /\ MadeOK /\ PhaseOK /\ RetryIsSafe /\ RpcCancelReaches
  BY DEF RpcInv
<1> DEFINE r == [calls[n] EXCEPT !.phase = "done"]
<1>1. /\ r \in CallType /\ r.id = calls[n].id /\ r.kind = calls[n].kind /\ r.control = calls[n].control
      /\ r.phase = "done" /\ r.dispatched = calls[n].dispatched /\ r.posted = calls[n].posted
      /\ calls[n].phase # "none" /\ calls[n].id \in RpcIds
  BY <1>0 DEF RpcTypeOK, CallType, Phase, Unsettled, MadeOK
<1>2. /\ calls' = [calls EXCEPT ![n] = r]
      /\ answers' = [answers EXCEPT ![n] = code]
      /\ UNCHANGED <<rpcControl, daemonRan>>
      /\ pendingRpc' = IF pendingRpc[calls[n].id] = n
                       THEN [pendingRpc EXCEPT ![calls[n].id] = NoRpcCall] ELSE pendingRpc
  BY DEF Settle, RpcAnswer, ForgetCall
<1> HIDE DEF r
<1>3. /\ calls' \in [RpcCalls -> CallType] /\ MadeOK' /\ calls'[n] = r
      /\ \A m \in RpcCalls \ {n} : calls'[m] = calls[m]
  BY <1>0, <1>1, <1>2, OneCallChanges
<1>4. /\ DOMAIN answers' = RpcCalls /\ answers'[n] = code
      /\ \A m \in RpcCalls \ {n} : answers'[m] = answers[m]
      /\ pendingRpc' \in [RpcIds -> RpcCalls \cup {NoRpcCall}]
      /\ \A id \in RpcIds : pendingRpc'[id] = pendingRpc[id] \/ pendingRpc[id] = n
  BY <1>0, <1>1, <1>2 DEF RpcTypeOK
<1>5. RpcTypeOK'
  BY <1>0, <1>2, <1>3, <1>4 DEF RpcTypeOK
<1>6. PhaseOK'
  BY <1>0, <1>1, <1>2, <1>3, <1>4 DEF PhaseOK
<1>7. RetryIsSafe'
  <2>1. calls[n].kind = "write" /\ code \in {"cancelled", "deadline-exceeded", "backpressure", "bad-message"}
          => n \notin daemonRan
    BY <1>0 DEF PhaseOK
  <2> QED
    BY <1>0, <1>1, <1>2, <1>3, <1>4, <2>1 DEF RetryIsSafe
<1>8. RpcCancelReaches'
  <2> SUFFICES ASSUME NEW m \in RpcCalls, Unsettled(m)', rpcControl.open,
                      calls'[m].control = rpcControl.number
               PROVE  pendingRpc'[calls'[m].id] = m
    BY <1>2 DEF RpcCancelReaches
  <2>1. m # n
    BY <1>1, <1>3 DEF Unsettled
  <2>2. calls'[m] = calls[m] /\ Unsettled(m)
    BY <1>3, <2>1 DEF Unsettled
  <2>3. pendingRpc[calls[m].id] = m /\ calls[m].id \in RpcIds
    BY <1>0, <2>2 DEF RpcCancelReaches, MadeOK, Unsettled
  <2> QED
    BY <1>4, <2>1, <2>2, <2>3
<1> QED
  BY <1>3, <1>5, <1>6, <1>7, <1>8 DEF RpcInv
\* The handler of a read or a write is connected: from here on its tool may be
\* posted, and the call says that it was dispatched.
LEMMA ConnectedStep ==
    ASSUME RpcInv, NEW n \in RpcCalls, ToolConnected(n)
    PROVE  RpcInv'
<1>0. RpcTypeOK /\ MadeOK /\ PhaseOK /\ RetryIsSafe /\ RpcCancelReaches
  BY DEF RpcInv
<1>1. PICK posted \in BOOLEAN : posted = ~Aborted(n)
  BY Zenon
<1> DEFINE r == [calls[n] EXCEPT !.phase = "calling", !.dispatched = TRUE, !.posted = posted]
<1>2. /\ r \in CallType /\ r.id = calls[n].id /\ r.kind = calls[n].kind /\ r.control = calls[n].control
      /\ r.phase = "calling" /\ r.dispatched = TRUE
  BY <1>0, <1>1, ZenonT(40) DEF RpcTypeOK, CallType, Phase
<1>3. /\ calls' = [calls EXCEPT ![n] = r] /\ calls[n].phase = "connecting"
      /\ UNCHANGED <<rpcControl, pendingRpc, answers, daemonRan>>
  <2>1. /\ calls' = [calls EXCEPT ![n].phase = "calling", ![n].dispatched = TRUE, ![n].posted = posted]
        /\ calls[n].phase = "connecting" /\ UNCHANGED <<rpcControl, pendingRpc, answers, daemonRan>>
    BY <1>1 DEF ToolConnected
  <2> QED
    BY <1>0, <2>1 DEF RpcTypeOK
<1> HIDE DEF r
<1>4. /\ calls' \in [RpcCalls -> CallType] /\ MadeOK' /\ calls'[n] = r
      /\ \A m \in RpcCalls \ {n} : calls'[m] = calls[m]
  BY <1>0, <1>2, <1>3, OneCallChanges
<1>5. answers[n] = "none" /\ n \notin daemonRan
  BY <1>0, <1>3 DEF PhaseOK
<1>6. RpcTypeOK'
  BY <1>0, <1>3, <1>4 DEF RpcTypeOK
<1>7. PhaseOK'
  BY <1>0, <1>2, <1>3, <1>4, <1>5 DEF PhaseOK
<1>8. RetryIsSafe'
  BY <1>0, <1>3, <1>4, <1>5 DEF RetryIsSafe
<1>9. RpcCancelReaches'
  BY <1>0, <1>2, <1>3, <1>4 DEF RpcCancelReaches, Unsettled
<1> QED
  BY <1>4, <1>6, <1>7, <1>8, <1>9 DEF RpcInv

\* Each way a call settles gives a true answer.
LEMMA SettlingStep ==
    ASSUME RpcInv, NEW n \in RpcCalls,
           VaultListSettles(n) \/ ToolConnectFails(n) \/ ToolReturns(n) \/ ToolCallFails(n)
    PROVE  RpcInv'
<1>0. PhaseOK /\ RpcTypeOK
  BY DEF RpcInv
<1> DEFINE Inviting == {"cancelled", "deadline-exceeded", "backpressure", "bad-message"}
<1>1. ASSUME NEW code, Settle(n, code), calls[n].phase \in {"fetching", "connecting"} PROVE RpcInv'
  <2>1. ~calls[n].posted
    BY <1>0, <1>1 DEF PhaseOK
  <2> QED
    BY <1>1, <2>1, SettleStep DEF Unsettled
<1>2. ASSUME VaultListSettles(n) PROVE RpcInv'
  BY <1>1, <1>2 DEF VaultListSettles
<1>3. ASSUME ToolConnectFails(n) PROVE RpcInv'
  BY <1>1, <1>3 DEF ToolConnectFails
<1>4. ASSUME ToolReturns(n) PROVE RpcInv'
  <2>1. PICK oversized, isError \in BOOLEAN : Settle(n, ToolResult(calls[n].kind, oversized, isError))
    BY <1>4 DEF ToolReturns
  <2>2. ToolResult(calls[n].kind, oversized, isError) \notin Inviting
    BY DEF ToolResult
  <2>3. Unsettled(n)
    BY <1>4 DEF ToolReturns, Unsettled
  <2> HIDE DEF Inviting
  <2> QED
    BY <2>1, <2>2, <2>3, SettleStep DEF Inviting
<1>5. ASSUME ToolCallFails(n) PROVE RpcInv'
  <2>1. calls[n].phase = "calling" /\ calls[n].dispatched /\ Settle(n, ToolCallError(n))
    BY <1>0, <1>5 DEF ToolCallFails, PhaseOK
  <2>2. calls[n].kind = "write" => ToolCallError(n) \in {"indeterminate", "internal"}
    BY <2>1 DEF ToolCallError, VaultListError, Aborted
  <2> QED
    BY <2>1, <2>2, SettleStep DEF Unsettled
<1> QED
  BY <1>2, <1>3, <1>4, <1>5

\* The daemon runs a tool that was posted.
LEMMA DaemonStep ==
    ASSUME RpcInv, NEW n \in RpcCalls, DaemonRunsTool(n)
    PROVE  RpcInv'
<1>0. RpcTypeOK /\ MadeOK /\ PhaseOK /\ RetryIsSafe /\ RpcCancelReaches
  BY DEF RpcInv
<1>1. /\ UNCHANGED <<rpcControl, calls, pendingRpc, answers>> /\ calls[n].posted
      /\ daemonRan' = daemonRan \cup {n}
  BY DEF DaemonRunsTool
<1>2. RpcTypeOK' /\ PhaseOK' /\ RetryIsSafe'
  BY <1>0, <1>1 DEF RpcTypeOK, PhaseOK, RetryIsSafe
<1>3. MadeOK' /\ RpcCancelReaches'
  BY <1>0, <1>1 DEF MadeOK, RpcCancelReaches, Made, Unsettled
<1> QED
  BY <1>2, <1>3 DEF RpcInv

\* The control connection closes: the table is emptied, its calls are aborted.
LEMMA RpcClosesStep ==
    ASSUME RpcInv, RpcControlCloses
    PROVE  RpcInv'
<1>0. RpcTypeOK /\ MadeOK /\ PhaseOK /\ RetryIsSafe /\ RpcCancelReaches
  BY DEF RpcInv
<1>1. /\ rpcControl' = [rpcControl EXCEPT !.open = FALSE]
      /\ pendingRpc' = [id \in RpcIds |-> NoRpcCall]
      /\ UNCHANGED <<answers, daemonRan>>
      /\ calls' = [n \in RpcCalls |-> IF \E id \in RpcIds : pendingRpc[id] = n
                                      THEN [calls[n] EXCEPT !.cancelled = TRUE] ELSE calls[n]]
  BY DEF RpcControlCloses
<1>2. rpcControl' \in [number : Nat, open : BOOLEAN] /\ ~rpcControl'.open /\ rpcControl'.number = rpcControl.number
  BY <1>0, <1>1 DEF RpcTypeOK
<1>3. \A n \in RpcCalls : calls'[n] = calls[n] \/ calls'[n] = [calls[n] EXCEPT !.cancelled = TRUE]
  BY <1>1
<1>4. \A n \in RpcCalls : /\ calls'[n] \in CallType
                          /\ calls'[n].id = calls[n].id /\ calls'[n].kind = calls[n].kind
                          /\ calls'[n].control = calls[n].control /\ calls'[n].phase = calls[n].phase
                          /\ calls'[n].dispatched = calls[n].dispatched /\ calls'[n].posted = calls[n].posted
  <2> TAKE n \in RpcCalls
  <2>1. calls[n] \in CallType
    BY <1>0 DEF RpcTypeOK
  <2>2. CASE calls'[n] = calls[n]
    BY <2>1, <2>2
  <2>3. CASE calls'[n] = [calls[n] EXCEPT !.cancelled = TRUE]
    BY <2>1, <2>3 DEF CallType
  <2> QED
    BY <1>3, <2>2, <2>3
<1>5. calls' \in [RpcCalls -> CallType]
  BY <1>1, <1>4
<1>6. RpcTypeOK'
  BY <1>0, <1>1, <1>2, <1>5 DEF RpcTypeOK
<1>7. Made' = Made
  BY <1>4 DEF Made
<1>8. MadeOK'
  BY <1>0, <1>2, <1>4, <1>7 DEF MadeOK
<1>9. PhaseOK' /\ RetryIsSafe'
  BY <1>0, <1>1, <1>4 DEF PhaseOK, RetryIsSafe
<1>10. RpcCancelReaches'
  BY <1>2 DEF RpcCancelReaches
<1> QED
  BY <1>6, <1>8, <1>9, <1>10 DEF RpcInv

\* A new control connection has a number no call has.
LEMMA ReopensStep ==
    ASSUME RpcInv, RpcControlReopens
    PROVE  RpcInv'
<1>0. RpcTypeOK /\ MadeOK /\ PhaseOK /\ RetryIsSafe /\ RpcCancelReaches
  BY DEF RpcInv
<1>1. /\ rpcControl' = [number |-> rpcControl.number + 1, open |-> TRUE]
      /\ UNCHANGED <<calls, pendingRpc, answers, daemonRan>>
  BY DEF RpcControlReopens
<1>2. \A n \in RpcCalls : calls[n].control \in Nat
  BY <1>0 DEF RpcTypeOK, CallType
<1>3. RpcTypeOK' /\ PhaseOK' /\ RetryIsSafe'
  BY <1>0, <1>1 DEF RpcTypeOK, PhaseOK, RetryIsSafe
<1>4. rpcControl.number \in Nat /\ rpcControl'.number = rpcControl.number + 1
  BY <1>0, <1>1 DEF RpcTypeOK
<1>5. MadeOK'
  <2>1. \A n \in RpcCalls : calls[n].control <= rpcControl'.number
    BY <1>0, <1>2, <1>4 DEF MadeOK
  <2> QED
    BY <1>0, <1>1, <2>1 DEF MadeOK, Made
<1>6. RpcCancelReaches'
  <2>1. \A n \in RpcCalls : calls'[n].control # rpcControl'.number
    BY <1>0, <1>1, <1>2, <1>4 DEF MadeOK
  <2> QED
    BY <2>1 DEF RpcCancelReaches
<1> QED
  BY <1>3, <1>5, <1>6 DEF RpcInv

\* Every step keeps the invariant.
LEMMA RpcKeeps == RpcInv /\ [RelayRpcNext]_rpcVars => RpcInv'
<1> SUFFICES ASSUME RpcInv, [RelayRpcNext]_rpcVars PROVE RpcInv'
  OBVIOUS
<1>0. RpcTypeOK
  BY DEF RpcInv
<1>1. ASSUME NEW id \in RpcIds, NEW kind \in RpcKinds, RpcRequest(id, kind) PROVE RpcInv'
  BY <1>1, RequestStep
<1>2. ASSUME NEW id \in RpcIds, RpcCancel(id) PROVE RpcInv'
  <2>1. PICK n \in RpcCalls : n = pendingRpc[id]
    BY <1>0, <1>2 DEF RpcCancel, RpcTypeOK
  <2> DEFINE r == [calls[n] EXCEPT !.cancelled = TRUE]
  <2>2. /\ r \in CallType /\ r.id = calls[n].id /\ r.kind = calls[n].kind /\ r.control = calls[n].control
        /\ r.phase = calls[n].phase /\ r.dispatched = calls[n].dispatched /\ r.posted = calls[n].posted
    BY <1>0, ZenonT(40) DEF RpcTypeOK, CallType
  <2>3. calls' = [calls EXCEPT ![n] = r] /\ UNCHANGED <<rpcControl, pendingRpc, answers, daemonRan>>
    BY <1>2, <2>1 DEF RpcCancel
  <2> HIDE DEF r
  <2> QED
    BY <2>2, <2>3, AbortStep
<1>3. ASSUME NEW n \in RpcCalls, DeadlineFires(n) PROVE RpcInv'
  <2> DEFINE r == [calls[n] EXCEPT !.deadline = TRUE]
  <2>2. /\ r \in CallType /\ r.id = calls[n].id /\ r.kind = calls[n].kind /\ r.control = calls[n].control
        /\ r.phase = calls[n].phase /\ r.dispatched = calls[n].dispatched /\ r.posted = calls[n].posted
    BY <1>0, ZenonT(40) DEF RpcTypeOK, CallType
  <2>3. calls' = [calls EXCEPT ![n] = r] /\ UNCHANGED <<rpcControl, pendingRpc, answers, daemonRan>>
    BY <1>3 DEF DeadlineFires
  <2> HIDE DEF r
  <2> QED
    BY <2>2, <2>3, AbortStep
<1>4. ASSUME NEW n \in RpcCalls,
             VaultListSettles(n) \/ ToolConnectFails(n) \/ ToolReturns(n) \/ ToolCallFails(n)
      PROVE  RpcInv'
  BY <1>4, SettlingStep
<1>5. ASSUME NEW n \in RpcCalls, ToolConnected(n) PROVE RpcInv'
  BY <1>5, ConnectedStep
<1>6. ASSUME NEW n \in RpcCalls, DaemonRunsTool(n) PROVE RpcInv'
  BY <1>6, DaemonStep
<1>7. CASE RpcControlCloses
  BY <1>7, RpcClosesStep
<1>8. CASE RpcControlReopens
  BY <1>8, ReopensStep
<1>9. CASE UNCHANGED rpcVars
  BY <1>9 DEF rpcVars, RpcInv, RpcTypeOK, MadeOK, PhaseOK, RetryIsSafe, RpcCancelReaches, Made, Unsettled
<1> QED
  BY <1>1, <1>2, <1>3, <1>4, <1>5, <1>6, <1>7, <1>8, <1>9 DEF RelayRpcNext

\* However requests, cancel frames, deadlines, lost control connections and late
\* results interleave: a relay that is told it may repeat a mutation is told the
\* truth, and a cancel frame reaches the call that runs under its id
\* (handleRelayFrame, handleMcpToolCallRpc and abortPendingRelayRpcRequests of
\* tunnel-client/src/index.ts).
THEOREM RelayCallsAreSafe == RelayRpcSpec => []CallsAreSafe
<1>1. RelayRpcInit => RpcInv
  BY RpcInitially
<1>2. RpcInv /\ [RelayRpcNext]_rpcVars => RpcInv'
  BY RpcKeeps
<1>3. RpcInv => CallsAreSafe
  BY DEF RpcInv, CallsAreSafe
<1> QED
  BY <1>1, <1>2, <1>3, PTL DEF RelayRpcSpec

-----------------------------------------------------------------------------
(* The inductive invariant of the proxied requests. *)

HttpRequestType ==
    [mode : {"none", "http", "snapshot"}, phase : {"none", "fetching", "sending", "done"}, control : Nat,
     canceled : BOOLEAN, timedOut : BOOLEAN, total : Nat, sent : Nat]

HttpDraft == [open : BOOLEAN, chunks : SUBSET Nat, body : Nat]

HttpSeen == [status : {"none", "streaming", "200", "404", "502", "503"}, total : Nat, chunks : Nat,
             ended : BOOLEAN]

HttpTypeOK ==
    /\ httpControl \in [number : Nat, open : BOOLEAN, acks : BOOLEAN]
    /\ drafts \in [HttpIds -> HttpDraft]
    /\ upload \in [HttpIds -> Nat]
    /\ requests \in [HttpIds -> HttpRequestType]
    /\ pendingHttp \in SUBSET HttpIds
    /\ pendingAck \in [HttpIds -> Int]
    /\ seen \in [HttpIds -> HttpSeen]

\* A wait is that of a response that is being sent and was not cancelled.
AckOK(i) ==
    pendingAck[i] # NoAck =>
        /\ requests[i].phase = "sending" /\ i \in pendingHttp /\ ~requests[i].canceled
        /\ pendingAck[i] + 1 = requests[i].sent

\* What is registered came on the open connection; what is fetched and was not cancelled is
\* registered.
PendingOK(i) ==
    /\ i \in pendingHttp => Reaches(i) /\ requests[i].phase \in {"fetching", "sending"}
    /\ requests[i].phase = "fetching" /\ ~requests[i].canceled => i \in pendingHttp

DraftHolds(d, n) == d.open /\ d.chunks = 0..(n - 2) /\ d.body = n - 1

\* While a request is uploaded its draft holds the chunks sent so far, each once.
UploadOK(i) ==
    /\ requests[i].phase = "none" /\ upload[i] \in 1..(UploadChunks + 1) =>
          DraftHolds(drafts[i], upload[i])
    /\ upload[i] = UploadChunks + 2 => requests[i].phase # "none"

HttpInv == HttpTypeOK /\ \A i \in HttpIds : AckOK(i) /\ PendingOK(i) /\ UploadOK(i)

\* What a step of one request leaves alone.
OthersKept(i) ==
    \A j \in HttpIds \ {i} :
        /\ drafts'[j] = drafts[j] /\ upload'[j] = upload[j] /\ requests'[j] = requests[j]
        /\ pendingAck'[j] = pendingAck[j] /\ (j \in pendingHttp' <=> j \in pendingHttp)

LEMMA OneRequest ==
    ASSUME NEW i \in HttpIds, HttpInv, HttpTypeOK', OthersKept(i), UNCHANGED httpControl,
           AckOK(i)', PendingOK(i)', UploadOK(i)'
    PROVE  HttpInv'
<1>1. ASSUME NEW j \in HttpIds PROVE AckOK(j)' /\ PendingOK(j)' /\ UploadOK(j)'
  <2>1. CASE j = i
    BY <2>1
  <2>2. CASE j # i
    <3>1. AckOK(j) /\ PendingOK(j) /\ UploadOK(j)
      BY DEF HttpInv
    <3>2. /\ drafts'[j] = drafts[j] /\ upload'[j] = upload[j] /\ requests'[j] = requests[j]
          /\ pendingAck'[j] = pendingAck[j] /\ (j \in pendingHttp' <=> j \in pendingHttp)
      BY <2>2 DEF OthersKept
    <3>3. AckOK(j)' /\ UploadOK(j)'
      BY <3>1, <3>2 DEF AckOK, UploadOK
    <3>4. PendingOK(j)'
      BY <3>1, <3>2 DEF PendingOK, Reaches
    <3> QED
      BY <3>3, <3>4
  <2> QED
    BY <2>1, <2>2
<1> QED
  BY <1>1 DEF HttpInv

SilentFor(i) == requests'[i].canceled => seen'[i] = seen[i]

LEMMA WholeSeen ==
    ASSUME NEW n \in Nat
    PROVE  /\ \A s \in {"404", "502", "503", "200"} : ResponseWhole(s) \in HttpSeen
           /\ ResponseStart(n) \in HttpSeen /\ ResponseChunk(ResponseStart(n)) \in HttpSeen
           /\ [ResponseStart(n) EXCEPT !.chunks = n, !.ended = TRUE] \in HttpSeen
           /\ \A s \in HttpSeen : ResponseChunk(s) \in HttpSeen /\ ResponseEnd(s) \in HttpSeen
<1>1. Unseen \in HttpSeen
  BY DEF Unseen, HttpSeen
<1>2. \A s \in HttpSeen : [s EXCEPT !.chunks = n, !.ended = TRUE] \in HttpSeen
  BY DEF HttpSeen
<1>3. \A s \in HttpSeen : ResponseChunk(s) \in HttpSeen /\ ResponseEnd(s) \in HttpSeen
  <2>1. ASSUME NEW s \in HttpSeen PROVE ResponseChunk(s) \in HttpSeen
    <3>1. s.chunks + 1 \in Nat
      BY DEF HttpSeen
    <3> QED
      BY <3>1 DEF ResponseChunk, HttpSeen
  <2>2. ASSUME NEW s \in HttpSeen PROVE ResponseEnd(s) \in HttpSeen
    BY DEF ResponseEnd, HttpSeen
  <2> QED
    BY <2>1, <2>2
<1>4. ResponseStart(n) \in HttpSeen /\ \A s \in {"404", "502", "503", "200"} : ResponseWhole(s) \in HttpSeen
  BY <1>1 DEF ResponseStart, ResponseWhole, HttpSeen
<1> QED
  BY <1>2, <1>3, <1>4

Fresh(m, p, c) == [Idle EXCEPT !.mode = m, !.phase = p, !.control = c]

LEMMA SeenGrows ==
    ASSUME NEW s \in HttpSeen
    PROVE  ResponseChunk(s) \in HttpSeen /\ ResponseEnd(s) \in HttpSeen
<1>1. 0 \in Nat
  OBVIOUS
<1> QED
  BY <1>1, WholeSeen

LEMMA FreshRequest ==
    ASSUME NEW m \in {"http", "snapshot"}, NEW p \in {"fetching", "done"}, NEW c \in Nat
    PROVE  /\ Fresh(m, p, c) \in HttpRequestType
           /\ Fresh(m, p, c).phase = p /\ Fresh(m, p, c).control = c /\ ~Fresh(m, p, c).canceled
  BY DEF Fresh, Idle, HttpRequestType

\* A request is registered, or answered at once.
LEMMA RequestBegins ==
    ASSUME NEW i \in HttpIds, HttpInv, httpControl.open, requests[i].phase = "none",
           NEW m \in {"http", "snapshot"}, NEW now \in BOOLEAN, NEW status \in {"404", "503"},
           requests' = [requests EXCEPT ![i] = Fresh(m, IF now THEN "done" ELSE "fetching",
                                                     httpControl.number)],
           pendingHttp' = IF now THEN pendingHttp ELSE pendingHttp \cup {i},
           seen' = IF now THEN [seen EXCEPT ![i] = ResponseWhole(status)] ELSE seen,
           UNCHANGED <<httpControl, pendingAck>>,
           drafts' \in [HttpIds -> HttpDraft], upload' \in [HttpIds -> Nat],
           \A j \in HttpIds \ {i} : drafts'[j] = drafts[j] /\ upload'[j] = upload[j]
    PROVE  HttpInv' /\ \A j \in HttpIds : SilentFor(j)
<1> DEFINE p == IF now THEN "done" ELSE "fetching"
           new == Fresh(m, p, httpControl.number)
<1>1. HttpTypeOK /\ AckOK(i) /\ PendingOK(i)
  BY DEF HttpInv
<1>2. httpControl.number \in Nat /\ p \in {"fetching", "done"} /\ (now <=> p = "done")
  BY <1>1 DEF HttpTypeOK
<1> HIDE DEF p
<1>3. new \in HttpRequestType /\ new.phase = p /\ new.control = httpControl.number /\ ~new.canceled
  BY <1>2, FreshRequest
<1> HIDE DEF new
<1>4. requests' = [requests EXCEPT ![i] = new]
  BY DEF new, p
<1>5. requests'[i] = new /\ \A j \in HttpIds \ {i} : requests'[j] = requests[j]
  BY <1>1, <1>4 DEF HttpTypeOK
<1>6. HttpTypeOK'
  <2>1. requests' \in [HttpIds -> HttpRequestType]
    BY <1>1, <1>3, <1>4 DEF HttpTypeOK
  <2>2. seen' \in [HttpIds -> HttpSeen] /\ pendingHttp' \in SUBSET HttpIds
    BY <1>1, WholeSeen DEF HttpTypeOK
  <2> QED
    BY <1>1, <2>1, <2>2 DEF HttpTypeOK
<1>7. OthersKept(i)
  BY <1>5 DEF OthersKept
<1>8. AckOK(i)'
  BY <1>1 DEF AckOK
<1>9. PendingOK(i)'
  <2>1. Reaches(i)'
    BY <1>3, <1>5 DEF Reaches
  <2>2. IF p = "fetching" THEN i \in pendingHttp' ELSE i \notin pendingHttp'
    BY <1>1, <1>2 DEF PendingOK
  <2> QED
    BY <1>3, <1>5, <2>1, <2>2 DEF PendingOK
<1>10. UploadOK(i)'
  BY <1>2, <1>3, <1>5 DEF UploadOK
<1>11. \A j \in HttpIds : SilentFor(j)
  BY <1>1, <1>3, <1>5 DEF SilentFor, HttpTypeOK
<1> QED
  BY <1>6, <1>7, <1>8, <1>9, <1>10, <1>11, OneRequest

\* A step of a request under way.
LEMMA RequestGoesOn ==
    ASSUME NEW i \in HttpIds, HttpInv, requests[i].phase # "none",
           NEW r \in HttpRequestType, NEW a \in Int, NEW s \in HttpSeen,
           requests' = [requests EXCEPT ![i] = r], pendingAck' = [pendingAck EXCEPT ![i] = a],
           seen' = [seen EXCEPT ![i] = s], pendingHttp' \in {pendingHttp, pendingHttp \ {i}},
           UNCHANGED httpControl,
           drafts' \in [HttpIds -> HttpDraft], upload' \in [HttpIds -> Nat],
           \A j \in HttpIds \ {i} : drafts'[j] = drafts[j] /\ upload'[j] = upload[j],
           r.control = requests[i].control, r.phase # "none",
           a # NoAck => r.phase = "sending" /\ i \in pendingHttp' /\ ~r.canceled /\ a + 1 = r.sent,
           r.phase = "fetching" /\ ~r.canceled => i \in pendingHttp',
           i \in pendingHttp' => r.phase \in {"fetching", "sending"},
           r.canceled => s = seen[i]
    PROVE  HttpInv' /\ \A j \in HttpIds : SilentFor(j)
<1>1. HttpTypeOK /\ PendingOK(i)
  BY DEF HttpInv
<1>2. /\ requests'[i] = r /\ pendingAck'[i] = a /\ seen'[i] = s
      /\ \A j \in HttpIds \ {i} : requests'[j] = requests[j] /\ pendingAck'[j] = pendingAck[j] /\ seen'[j] = seen[j]
  BY <1>1 DEF HttpTypeOK
<1>3. HttpTypeOK'
  BY <1>1 DEF HttpTypeOK
<1>4. OthersKept(i)
  BY <1>2 DEF OthersKept
<1>5. AckOK(i)'
  BY <1>2 DEF AckOK
<1>6. PendingOK(i)'
  <2>1. i \in pendingHttp' => Reaches(i)'
    BY <1>1, <1>2 DEF PendingOK, Reaches
  <2> QED
    BY <1>2, <2>1 DEF PendingOK
<1>7. UploadOK(i)'
  BY <1>2 DEF UploadOK
<1>8. \A j \in HttpIds : SilentFor(j)
  BY <1>2 DEF SilentFor
<1> QED
  BY <1>3, <1>4, <1>5, <1>6, <1>7, <1>8, OneRequest

LEMMA RequestBegun ==
    ASSUME NEW i \in HttpIds, HttpInv, HttpRequest(i)
    PROVE  HttpInv' /\ \A j \in HttpIds : SilentFor(j)
<1>1. PICK private \in BOOLEAN : ProxyHttp(i, private)
  BY DEF HttpRequest
<1>2. /\ httpControl.open /\ requests[i].phase = "none"
      /\ UNCHANGED <<httpControl, drafts, upload, pendingAck>>
      /\ drafts' \in [HttpIds -> HttpDraft] /\ upload' \in [HttpIds -> Nat]
      /\ \A j \in HttpIds \ {i} : drafts'[j] = drafts[j] /\ upload'[j] = upload[j]
  BY DEF HttpRequest, HttpInv, HttpTypeOK
<1>3. CASE private
  BY <1>1, <1>2, <1>3, RequestBegins DEF ProxyHttp, Fresh
<1>4. CASE ~private
  BY <1>1, <1>2, <1>4, RequestBegins DEF ProxyHttp, Fresh
<1> QED
  BY <1>3, <1>4

LEMMA SnapshotBegun ==
    ASSUME NEW i \in HttpIds, HttpInv, SnapshotRequest(i)
    PROVE  HttpInv' /\ \A j \in HttpIds : SilentFor(j)
<1>2. /\ httpControl.open /\ requests[i].phase = "none"
      /\ UNCHANGED <<httpControl, drafts, upload, pendingAck>>
      /\ drafts' \in [HttpIds -> HttpDraft] /\ upload' \in [HttpIds -> Nat]
      /\ \A j \in HttpIds \ {i} : drafts'[j] = drafts[j] /\ upload'[j] = upload[j]
  BY DEF SnapshotRequest, HttpInv, HttpTypeOK
<1>3. CASE httpControl.acks
  BY <1>2, <1>3, RequestBegins DEF SnapshotRequest, Fresh
<1>4. CASE ~httpControl.acks
  BY <1>2, <1>4, RequestBegins DEF SnapshotRequest, Fresh
<1> QED
  BY <1>3, <1>4

\* The chunks of an upload.
LEMMA UploadGoesOn ==
    ASSUME NEW i \in HttpIds, HttpInv, requests[i].phase = "none",
           NEW u \in Nat, NEW d \in HttpDraft,
           upload' = [upload EXCEPT ![i] = u], drafts' = [drafts EXCEPT ![i] = d],
           UNCHANGED <<httpControl, requests, pendingHttp, pendingAck, seen>>,
           u # UploadChunks + 2,
           u \in 1..(UploadChunks + 1) => DraftHolds(d, u)
    PROVE  HttpInv' /\ \A j \in HttpIds : SilentFor(j)
<1>1. HttpTypeOK /\ AckOK(i) /\ PendingOK(i)
  BY DEF HttpInv
<1>2. /\ drafts'[i] = d /\ upload'[i] = u
      /\ \A j \in HttpIds \ {i} : drafts'[j] = drafts[j] /\ upload'[j] = upload[j]
  BY <1>1 DEF HttpTypeOK
<1>3. HttpTypeOK'
  BY <1>1 DEF HttpTypeOK
<1>4. OthersKept(i)
  BY <1>2 DEF OthersKept
<1>5. AckOK(i)' /\ PendingOK(i)'
  BY <1>1 DEF AckOK, PendingOK, Reaches
<1>6. UploadOK(i)'
  BY <1>2 DEF UploadOK
<1> QED
  BY <1>3, <1>4, <1>5, <1>6, OneRequest DEF SilentFor

LEMMA UploadStarts ==
    ASSUME NEW i \in HttpIds, HttpInv, AssemblerStart(i)
    PROVE  HttpInv' /\ \A j \in HttpIds : SilentFor(j)
<1> DEFINE d == [NoDraft EXCEPT !.open = TRUE]
<1>1. NoDraft \in HttpDraft /\ NoDraft.chunks = {} /\ NoDraft.body = 0
  BY DEF NoDraft, HttpDraft
<1>2. d \in HttpDraft /\ d.open /\ d.chunks = {} /\ d.body = 0
  BY <1>1 DEF HttpDraft
<1>d. DraftHolds(d, 1)
  <2>1. 0..(1 - 2) = {} /\ 1 - 1 = 0
    OBVIOUS
  <2> QED
    BY <1>2, <2>1 DEF DraftHolds
<1>3. /\ requests[i].phase = "none" /\ upload' = [upload EXCEPT ![i] = 1] /\ drafts' = [drafts EXCEPT ![i] = d]
      /\ UNCHANGED <<httpControl, requests, pendingHttp, pendingAck, seen>>
  BY DEF AssemblerStart, RelayUploads, HttpInv, HttpTypeOK
<1>4. 1 # UploadChunks + 2
  BY HttpBounds
<1> HIDE DEF d
<1> QED
  BY <1>2, <1>d, <1>3, <1>4, UploadGoesOn

LEMMA UploadContinues ==
    ASSUME NEW i \in HttpIds, HttpInv, AssemblerChunk(i)
    PROVE  HttpInv' /\ \A j \in HttpIds : SilentFor(j)
<1> DEFINE u == upload[i]
           d == AddChunk(drafts[i], u - 1)
<1>1. HttpTypeOK /\ UploadOK(i) /\ UploadChunks \in Nat
  BY HttpBounds DEF HttpInv
<1>2. /\ requests[i].phase = "none" /\ u \in Nat /\ u > 0 /\ u <= UploadChunks
      /\ upload' = [upload EXCEPT ![i] = u + 1] /\ drafts' = [drafts EXCEPT ![i] = d]
      /\ UNCHANGED <<httpControl, requests, pendingHttp, pendingAck, seen>>
  BY <1>1 DEF AssemblerChunk, RelayUploads, HttpTypeOK
<1>3. DraftHolds(drafts[i], u)
  BY <1>1, <1>2 DEF UploadOK
<1>4. drafts[i] \in HttpDraft /\ drafts[i].open /\ drafts[i].chunks = 0..(u - 2) /\ drafts[i].body = u - 1
  BY <1>1, <1>3 DEF DraftHolds, HttpTypeOK
<1>5. u - 1 \notin drafts[i].chunks /\ ~(drafts[i].body + 1 > UploadChunks)
  BY <1>1, <1>2, <1>4
<1>6. d = [drafts[i] EXCEPT !.chunks = @ \cup {u - 1}, !.body = @ + 1]
  BY <1>4, <1>5, Zenon DEF AddChunk
<1>7. d.open /\ d.chunks = 0..(u - 2) \cup {u - 1} /\ d.body = u - 1 + 1
  BY <1>4, <1>6 DEF HttpDraft
<1>8. DraftHolds(d, u + 1)
  <2>1. 0..(u - 2) \cup {u - 1} = 0..((u + 1) - 2) /\ u - 1 + 1 = (u + 1) - 1
    BY <1>2
  <2> QED
    BY <1>7, <2>1 DEF DraftHolds
<1>9. d \in HttpDraft /\ u + 1 \in Nat /\ u + 1 # UploadChunks + 2
  <2>1. drafts[i].chunks \cup {u - 1} \in SUBSET Nat /\ drafts[i].body + 1 \in Nat
    BY <1>2, <1>4
  <2>2. d \in HttpDraft
    BY <1>4, <1>6, <2>1 DEF HttpDraft
  <2> QED
    BY <1>1, <1>2, <2>2
<1> HIDE DEF u, d
<1> QED
  BY <1>2, <1>8, <1>9, UploadGoesOn

LEMMA UploadRepeats ==
    ASSUME NEW i \in HttpIds, HttpInv, AssemblerChunkRepeats(i)
    PROVE  HttpInv' /\ \A j \in HttpIds : SilentFor(j)
<1> DEFINE u == upload[i]
<1>1. HttpTypeOK /\ UploadOK(i) /\ UploadChunks \in Nat
  BY HttpBounds DEF HttpInv
<1>2. /\ requests[i].phase = "none" /\ u \in Nat /\ u > 1
      /\ UNCHANGED <<httpControl, upload, requests, pendingHttp, pendingAck, seen>>
  BY <1>1 DEF AssemblerChunkRepeats, HttpTypeOK
<1>3. PICK k \in 0..(u - 2) : drafts' = [drafts EXCEPT ![i] = AddChunk(drafts[i], k)]
  BY DEF AssemblerChunkRepeats
<1> DEFINE d == AddChunk(drafts[i], k)
<1>4. drafts[i] \in HttpDraft /\ upload' = [upload EXCEPT ![i] = u]
  BY <1>1, <1>2 DEF HttpTypeOK
<1>5. d \in HttpDraft
  <2>1. k \in Nat /\ drafts[i].chunks \in SUBSET Nat /\ drafts[i].body \in Nat
    BY <1>2, <1>4 DEF HttpDraft
  <2>2. drafts[i].chunks \cup {k} \in SUBSET Nat /\ drafts[i].body + 1 \in Nat
    BY <2>1
  <2>3. [drafts[i] EXCEPT !.chunks = @ \cup {k}, !.body = @ + 1] \in HttpDraft /\ NoDraft \in HttpDraft
    BY <1>4, <2>2 DEF HttpDraft, NoDraft
  <2> QED
    BY <1>4, <2>3 DEF AddChunk
<1>6. u \in 1..(UploadChunks + 1) => DraftHolds(d, u)
  <2>1. SUFFICES ASSUME u \in 1..(UploadChunks + 1)
                 PROVE  DraftHolds(d, u)
    OBVIOUS
  <2>2. DraftHolds(drafts[i], u)
    BY <1>1, <1>2, <2>1 DEF UploadOK
  <2>3. k \in drafts[i].chunks
    BY <2>2 DEF DraftHolds
  <2> QED
    BY <2>2, <2>3 DEF AddChunk
<1>7. u # UploadChunks + 2
  BY <1>1, <1>2 DEF UploadOK
<1>8. drafts' = [drafts EXCEPT ![i] = d]
  BY <1>3
<1> HIDE DEF u, d
<1> QED
  BY <1>2, <1>4, <1>5, <1>6, <1>7, <1>8, UploadGoesOn

\* The end of an upload finds the whole draft.
LEMMA UploadEnds ==
    ASSUME NEW i \in HttpIds, HttpInv, AssemblerEnd(i)
    PROVE  HttpInv' /\ \A j \in HttpIds : SilentFor(j)
<1>1. HttpTypeOK /\ UploadOK(i) /\ UploadChunks \in Nat
  BY HttpBounds DEF HttpInv
<1>2. /\ httpControl.open /\ upload[i] = UploadChunks + 1 /\ requests[i].phase = "none"
      /\ drafts' = [drafts EXCEPT ![i] = NoDraft] /\ upload' = [upload EXCEPT ![i] = UploadChunks + 2]
      /\ UNCHANGED <<httpControl, pendingAck>>
  BY DEF AssemblerEnd
<1>3. DraftHolds(drafts[i], upload[i])
  BY <1>1, <1>2 DEF UploadOK
<1>4. Assembles(drafts[i])
  <2>1. upload[i] - 2 = UploadChunks - 1 /\ upload[i] - 1 = UploadChunks
    BY <1>1, <1>2
  <2> QED
    BY <1>3, <2>1 DEF Assembles, DraftHolds
<1>5. ProxyHttp(i, FALSE)
  BY <1>4 DEF AssemblerEnd
<1>6. /\ drafts' \in [HttpIds -> HttpDraft] /\ upload' \in [HttpIds -> Nat]
      /\ \A j \in HttpIds \ {i} : drafts'[j] = drafts[j] /\ upload'[j] = upload[j]
  <2>1. NoDraft \in HttpDraft /\ UploadChunks + 2 \in Nat
    BY <1>1 DEF NoDraft, HttpDraft
  <2> QED
    BY <1>1, <1>2, <2>1 DEF HttpTypeOK
<1> QED
  BY <1>2, <1>5, <1>6, RequestBegins DEF ProxyHttp, Fresh

\* The same step as far as the request and its uploads are concerned.
LEMMA UploadsKept ==
    ASSUME HttpInv, UNCHANGED <<drafts, upload>>
    PROVE  /\ drafts' \in [HttpIds -> HttpDraft] /\ upload' \in [HttpIds -> Nat]
           /\ \A i \in HttpIds : \A j \in HttpIds \ {i} : drafts'[j] = drafts[j] /\ upload'[j] = upload[j]
  BY DEF HttpInv, HttpTypeOK

LEMMA Told ==
    ASSUME HttpInv, NEW i \in HttpIds, NEW s \in HttpSeen
    PROVE  /\ \E t \in HttpSeen : Tell(i, s) = [seen EXCEPT ![i] = t]
           /\ seen = [seen EXCEPT ![i] = seen[i]] /\ seen[i] \in HttpSeen
           /\ pendingAck = [pendingAck EXCEPT ![i] = pendingAck[i]] /\ pendingAck[i] \in Int
           /\ requests[i] \in HttpRequestType /\ NoAck \in Int
<1>1. HttpTypeOK
  BY DEF HttpInv
<1>2. seen = [seen EXCEPT ![i] = seen[i]] /\ seen[i] \in HttpSeen
  BY <1>1 DEF HttpTypeOK
<1>3. \E t \in HttpSeen : Tell(i, s) = [seen EXCEPT ![i] = t]
  BY <1>2 DEF Tell
<1>4. pendingAck = [pendingAck EXCEPT ![i] = pendingAck[i]] /\ pendingAck[i] \in Int
      /\ requests[i] \in HttpRequestType
  BY <1>1 DEF HttpTypeOK
<1>5. NoAck \in Int
  BY DEF NoAck
<1> QED
  BY <1>2, <1>3, <1>4, <1>5

LEMMA TimeoutKeeps ==
    ASSUME NEW i \in HttpIds, HttpInv, HttpTimeout(i)
    PROVE  HttpInv' /\ \A j \in HttpIds : SilentFor(j)
<1> DEFINE q == requests[i]
           r == [q EXCEPT !.timedOut = TRUE]
<1>1. q \in HttpRequestType /\ pendingAck[i] \in Int /\ seen[i] \in HttpSeen
  BY DEF HttpInv, HttpTypeOK
<1>2. /\ r \in HttpRequestType /\ r.phase = "fetching" /\ q.phase = "fetching" /\ r.control = q.control
      /\ r.sent = q.sent /\ (r.canceled <=> q.canceled)
  BY <1>1 DEF HttpTimeout, HttpRequestType
<1>3. /\ requests' = [requests EXCEPT ![i] = r] /\ pendingAck' = [pendingAck EXCEPT ![i] = pendingAck[i]]
      /\ seen' = [seen EXCEPT ![i] = seen[i]] /\ pendingHttp' = pendingHttp
      /\ UNCHANGED <<httpControl, drafts, upload>>
  BY DEF HttpTimeout, HttpInv, HttpTypeOK
<1>4. AckOK(i) /\ PendingOK(i)
  BY DEF HttpInv
<1> HIDE DEF r
<1>5. pendingAck[i] = NoAck
  BY <1>2, <1>4 DEF AckOK
<1>6. /\ r.phase = "fetching" /\ ~r.canceled => i \in pendingHttp'
      /\ pendingHttp' \in {pendingHttp, pendingHttp \ {i}}
  BY <1>2, <1>3, <1>4 DEF PendingOK
<1> QED
  BY <1>1, <1>2, <1>3, <1>5, <1>6, UploadsKept, RequestGoesOn

\* A request that ends: its wait is over and it is forgotten.
LEMMA RequestEnds ==
    ASSUME NEW i \in HttpIds, HttpInv, requests[i].phase # "none",
           NEW c \in BOOLEAN, NEW t \in HttpSeen,
           requests' = [requests EXCEPT ![i] = [requests[i] EXCEPT !.phase = "done", !.canceled = c]],
           pendingAck' = [pendingAck EXCEPT ![i] = NoAck], seen' = [seen EXCEPT ![i] = t],
           pendingHttp' = pendingHttp \ {i}, UNCHANGED httpControl,
           drafts' \in [HttpIds -> HttpDraft], upload' \in [HttpIds -> Nat],
           \A j \in HttpIds \ {i} : drafts'[j] = drafts[j] /\ upload'[j] = upload[j],
           c => t = seen[i]
    PROVE  HttpInv' /\ \A j \in HttpIds : SilentFor(j)
<1> DEFINE q == requests[i]
           r == [q EXCEPT !.phase = "done", !.canceled = c]
<1>1. q \in HttpRequestType
  BY DEF HttpInv, HttpTypeOK
<1>2. r \in HttpRequestType /\ r.phase = "done" /\ r.control = q.control /\ (r.canceled <=> c)
  BY <1>1 DEF HttpRequestType
<1>3. requests' = [requests EXCEPT ![i] = r] /\ NoAck \in Int
  BY DEF NoAck
<1> HIDE DEF r
<1> QED
  BY <1>2, <1>3, RequestGoesOn

\* Done, with the mark of a cancel as it was.
LEMMA DoneIs ==
    ASSUME HttpInv, NEW i \in HttpIds
    PROVE  Done(i) = [requests EXCEPT ![i] = [requests[i] EXCEPT !.phase = "done", !.canceled = requests[i].canceled]]
<1>1. requests[i] \in HttpRequestType
  BY DEF HttpInv, HttpTypeOK
<1>2. \A q \in HttpRequestType : [q EXCEPT !.phase = "done"] = [q EXCEPT !.phase = "done", !.canceled = q.canceled]
  BY DEF HttpRequestType
<1>3. Done(i) = [requests EXCEPT ![i] = [requests[i] EXCEPT !.phase = "done"]]
  BY DEF Done
<1> QED
  BY <1>1, <1>2, <1>3

LEMMA FetchFailed ==
    ASSUME NEW i \in HttpIds, HttpInv, FetchFails(i)
    PROVE  HttpInv' /\ \A j \in HttpIds : SilentFor(j)
<1>1. /\ requests[i].phase = "fetching" /\ requests' = Done(i) /\ pendingHttp' = pendingHttp \ {i}
      /\ UNCHANGED <<httpControl, drafts, upload, pendingAck>>
  BY DEF FetchFails
<1>2. requests[i].canceled \in BOOLEAN /\ pendingAck[i] = NoAck /\ pendingAck' = [pendingAck EXCEPT ![i] = NoAck]
  <2>1. requests[i] \in HttpRequestType /\ AckOK(i)
    BY DEF HttpInv, HttpTypeOK
  <2>2. pendingAck[i] = NoAck
    BY <1>1, <2>1 DEF AckOK
  <2> QED
    BY <1>1, <2>1, <2>2 DEF HttpInv, HttpTypeOK, HttpRequestType
<1>3. PICK t \in HttpSeen : seen' = [seen EXCEPT ![i] = t] /\ (requests[i].canceled => t = seen[i])
  <2>1. CASE requests[i].canceled
    BY <2>1, Told, WholeSeen DEF FetchFails
  <2>2. CASE ~requests[i].canceled
    <3>1. ResponseWhole("502") \in HttpSeen
      BY WholeSeen
    <3>2. seen' = Tell(i, ResponseWhole("502"))
      BY <2>2 DEF FetchFails
    <3> QED
      BY <2>2, <3>1, <3>2, Told
  <2> QED
    BY <2>1, <2>2
<1> QED
  BY <1>1, <1>2, <1>3, DoneIs, UploadsKept, RequestEnds

LEMMA RespondedWhole ==
    ASSUME NEW i \in HttpIds, HttpInv, RespondsWhole(i)
    PROVE  HttpInv' /\ \A j \in HttpIds : SilentFor(j)
<1>1. /\ requests[i].phase = "fetching" /\ requests' = Done(i) /\ pendingHttp' = pendingHttp \ {i}
      /\ ~requests[i].canceled /\ UNCHANGED <<httpControl, drafts, upload, pendingAck>>
  BY DEF RespondsWhole
<1>2. requests[i].canceled \in BOOLEAN /\ pendingAck[i] = NoAck /\ pendingAck' = [pendingAck EXCEPT ![i] = NoAck]
  <2>1. requests[i] \in HttpRequestType /\ AckOK(i)
    BY DEF HttpInv, HttpTypeOK
  <2>2. pendingAck[i] = NoAck
    BY <1>1, <2>1 DEF AckOK
  <2> QED
    BY <1>1, <2>1, <2>2 DEF HttpInv, HttpTypeOK, HttpRequestType
<1>3. PICK t \in HttpSeen : seen' = [seen EXCEPT ![i] = t]
  <2>1. ResponseWhole("200") \in HttpSeen
    BY WholeSeen
  <2>2. seen' = Tell(i, ResponseWhole("200"))
    BY DEF RespondsWhole
  <2> QED
    BY <2>1, <2>2, Told
<1> QED
  BY <1>1, <1>2, <1>3, DoneIs, UploadsKept, RequestEnds

LEMMA RespondedInChunks ==
    ASSUME NEW i \in HttpIds, NEW n \in BodyChunks, HttpInv, RespondsInChunks(i, n)
    PROVE  HttpInv' /\ \A j \in HttpIds : SilentFor(j)
<1> DEFINE waits == httpControl.acks
           q == requests[i]
           sent == IF waits THEN 1 ELSE n
           p == IF waits THEN "sending" ELSE "done"
           a == IF waits THEN 0 ELSE NoAck
           r == [q EXCEPT !.total = n, !.sent = sent, !.phase = p]
<1>1. /\ q \in HttpRequestType /\ n \in Nat /\ AckOK(i) /\ PendingOK(i) /\ waits \in BOOLEAN
  BY HttpBounds DEF HttpInv, HttpTypeOK
<1>2. /\ q.phase = "fetching" /\ ~q.canceled /\ UNCHANGED <<httpControl, drafts, upload>>
      /\ requests' = [requests EXCEPT ![i].total = n, ![i].sent = sent, ![i].phase = p]
      /\ pendingAck' = IF waits THEN [pendingAck EXCEPT ![i] = 0] ELSE pendingAck
      /\ pendingHttp' = IF waits THEN pendingHttp ELSE pendingHttp \ {i}
  BY DEF RespondsInChunks
<1>3. sent \in Nat /\ p \in {"sending", "done"} /\ (p = "sending" <=> waits) /\ (waits => sent = 1)
  BY <1>1
<1>4. i \in pendingHttp /\ pendingAck[i] = NoAck
  BY <1>1, <1>2 DEF AckOK, PendingOK
<1>5. pendingAck' = [pendingAck EXCEPT ![i] = a] /\ a \in Int /\ (a # NoAck => waits /\ a = 0)
  <2>1. pendingAck = [pendingAck EXCEPT ![i] = pendingAck[i]]
    BY DEF HttpInv, HttpTypeOK
  <2>2. NoAck \in Int
    BY DEF NoAck
  <2>3. CASE waits
    BY <1>2, <2>3
  <2>4. CASE ~waits
    BY <1>2, <1>4, <2>1, <2>2, <2>4
  <2> QED
    BY <2>3, <2>4
<1>6. PICK t \in HttpSeen : seen' = [seen EXCEPT ![i] = t]
  <2> DEFINE s == IF waits THEN ResponseChunk(ResponseStart(n))
                  ELSE [ResponseStart(n) EXCEPT !.chunks = n, !.ended = TRUE]
  <2>1. seen' = Tell(i, s)
    BY DEF RespondsInChunks
  <2>2. s \in HttpSeen
    BY <1>1, WholeSeen
  <2> HIDE DEF s
  <2> QED
    BY <2>1, <2>2, Told
<1> HIDE DEF sent, p, a
<1>7. r \in HttpRequestType /\ r.phase = p /\ r.sent = sent /\ r.control = q.control /\ ~r.canceled
  BY <1>1, <1>2, <1>3 DEF HttpRequestType
<1>8. requests' = [requests EXCEPT ![i] = r]
  BY <1>2 DEF HttpInv, HttpTypeOK
<1> HIDE DEF r
<1>9. waits => pendingHttp' = pendingHttp
  BY <1>2
<1>10. a # NoAck => r.phase = "sending" /\ i \in pendingHttp' /\ ~r.canceled /\ a + 1 = r.sent
  BY <1>3, <1>4, <1>5, <1>7, <1>9
<1>11. /\ pendingHttp' \in {pendingHttp, pendingHttp \ {i}} /\ r.phase # "none" /\ r.phase # "fetching"
       /\ q.phase # "none"
  BY <1>1, <1>2, <1>3, <1>7
<1>12. i \in pendingHttp' => r.phase \in {"fetching", "sending"}
  BY <1>1, <1>2, <1>3, <1>7
<1>13. /\ UNCHANGED httpControl /\ drafts' \in [HttpIds -> HttpDraft] /\ upload' \in [HttpIds -> Nat]
       /\ \A j \in HttpIds \ {i} : drafts'[j] = drafts[j] /\ upload'[j] = upload[j]
  BY <1>2, UploadsKept
<1>14. pendingAck' = [pendingAck EXCEPT ![i] = a] /\ a \in Int /\ r.control = q.control /\ ~r.canceled
  BY <1>5, <1>7
<1> HIDE DEF waits
<1> QED
  BY <1>6, <1>7, <1>8, <1>10, <1>11, <1>12, <1>13, <1>14, RequestGoesOn

\* The wait for an acknowledgement is rejected.
LEMMA ChunkRejected ==
    ASSUME NEW i \in HttpIds, NEW c \in BOOLEAN, HttpInv, requests[i].phase # "none", RejectChunk(i, c),
           UNCHANGED httpControl,
           drafts' \in [HttpIds -> HttpDraft], upload' \in [HttpIds -> Nat],
           \A j \in HttpIds \ {i} : drafts'[j] = drafts[j] /\ upload'[j] = upload[j]
    PROVE  HttpInv' /\ \A j \in HttpIds : SilentFor(j)
<1>1. /\ pendingAck' = [pendingAck EXCEPT ![i] = NoAck] /\ pendingHttp' = pendingHttp \ {i}
      /\ requests' = [requests EXCEPT ![i].phase = "done", ![i].canceled = c]
      /\ seen' = AfterReject(i, c)
  BY DEF RejectChunk
<1>2. requests' = [requests EXCEPT ![i] = [requests[i] EXCEPT !.phase = "done", !.canceled = c]]
  BY <1>1 DEF HttpInv, HttpTypeOK
<1>3. PICK t \in HttpSeen : seen' = [seen EXCEPT ![i] = t] /\ (c => t = seen[i])
  <2>1. ResponseEnd(seen[i]) \in HttpSeen /\ seen[i] \in HttpSeen
    <3>1. seen[i] \in HttpSeen
      BY DEF HttpInv, HttpTypeOK
    <3> QED
      BY <3>1, SeenGrows
  <2>2. CASE requests[i].mode = "snapshot" /\ ~c
    <3>1. seen' = Tell(i, ResponseEnd(seen[i]))
      BY <1>1, <2>2 DEF AfterReject
    <3>2. PICK t \in HttpSeen : seen' = [seen EXCEPT ![i] = t]
      BY <2>1, <3>1, Told
    <3> QED
      BY <2>2, <3>2
  <2>3. CASE ~(requests[i].mode = "snapshot" /\ ~c)
    BY <1>1, <2>1, <2>3, Told DEF AfterReject
  <2> QED
    BY <2>2, <2>3
<1> QED
  BY <1>1, <1>2, <1>3, RequestEnds

LEMMA ChunkTimedOut ==
    ASSUME NEW i \in HttpIds, HttpInv, ChunkAckTimeout(i)
    PROVE  HttpInv' /\ \A j \in HttpIds : SilentFor(j)
<1>1. pendingAck[i] # NoAck /\ RejectChunk(i, FALSE) /\ UNCHANGED <<httpControl, drafts, upload>>
  BY DEF ChunkAckTimeout
<1>2. requests[i].phase # "none"
  BY <1>1 DEF HttpInv, AckOK
<1> QED
  BY <1>1, <1>2, UploadsKept, ChunkRejected

LEMMA ChunkAcked ==
    ASSUME NEW i \in HttpIds, NEW k, HttpInv, ChunkAck(i, k)
    PROVE  HttpInv' /\ \A j \in HttpIds : SilentFor(j)
<1> DEFINE q == requests[i]
<1>1. /\ pendingAck[i] # NoAck /\ UNCHANGED <<httpControl, drafts, upload>>
      /\ NextChunk(i) \/ RejectChunk(i, FALSE)
  BY DEF ChunkAck
<1>2. /\ q.phase = "sending" /\ i \in pendingHttp /\ ~q.canceled /\ pendingAck[i] + 1 = q.sent
      /\ q \in HttpRequestType /\ q.sent \in Nat /\ seen[i] \in HttpSeen
  BY <1>1 DEF HttpInv, HttpTypeOK, AckOK, HttpRequestType
<1>3. CASE RejectChunk(i, FALSE)
  BY <1>1, <1>2, <1>3, UploadsKept, ChunkRejected
<1>4. CASE /\ q.sent < q.total
           /\ requests' = [requests EXCEPT ![i].sent = q.sent + 1]
           /\ pendingAck' = [pendingAck EXCEPT ![i] = q.sent]
           /\ seen' = Tell(i, ResponseChunk(seen[i]))
           /\ UNCHANGED pendingHttp
  <2> DEFINE r == [q EXCEPT !.sent = q.sent + 1]
  <2>1. q.sent + 1 \in Nat
    BY <1>2
  <2>2. r \in HttpRequestType /\ r.phase = "sending" /\ r.control = q.control /\ ~r.canceled /\ r.sent = q.sent + 1
    BY <1>2, <2>1 DEF HttpRequestType
  <2>3. requests' = [requests EXCEPT ![i] = r]
    BY <1>4 DEF HttpInv, HttpTypeOK
  <2>4. PICK t \in HttpSeen : seen' = [seen EXCEPT ![i] = t]
    <3>1. ResponseChunk(seen[i]) \in HttpSeen
      BY <1>2, SeenGrows
    <3> QED
      BY <1>4, <3>1, Told
  <2> HIDE DEF r
  <2>5. q.sent \in Int /\ q.phase # "none" /\ r.phase # "none" /\ r.phase # "fetching"
    BY <1>2, <2>2
  <2>6. q.sent # NoAck => r.phase = "sending" /\ i \in pendingHttp' /\ ~r.canceled /\ q.sent + 1 = r.sent
    BY <1>2, <1>4, <2>2
  <2>7. /\ pendingHttp' \in {pendingHttp, pendingHttp \ {i}} /\ UNCHANGED <<httpControl, drafts, upload>>
        /\ pendingAck' = [pendingAck EXCEPT ![i] = q.sent]
    BY <1>1, <1>4
  <2> QED
    BY <2>2, <2>3, <2>4, <2>5, <2>6, <2>7, UploadsKept, RequestGoesOn
<1>5. CASE /\ q.sent = q.total
           /\ requests' = Done(i)
           /\ pendingAck' = [pendingAck EXCEPT ![i] = NoAck]
           /\ pendingHttp' = pendingHttp \ {i}
           /\ seen' = Tell(i, ResponseEnd(seen[i]))
  <2>1. PICK t \in HttpSeen : seen' = [seen EXCEPT ![i] = t]
    <3>1. ResponseEnd(seen[i]) \in HttpSeen
      BY <1>2, SeenGrows
    <3> QED
      BY <1>5, <3>1, Told
  <2>2. q.canceled \in BOOLEAN
    BY <1>2 DEF HttpRequestType
  <2> QED
    BY <1>1, <1>2, <1>5, <2>1, <2>2, DoneIs, UploadsKept, RequestEnds
<1> QED
  BY <1>1, <1>3, <1>4, <1>5 DEF NextChunk

LEMMA SnapshotBroken ==
    ASSUME NEW i \in HttpIds, HttpInv, SnapshotBreaks(i)
    PROVE  HttpInv' /\ \A j \in HttpIds : SilentFor(j)
<1> DEFINE q == requests[i]
           r == [q EXCEPT !.total = q.sent]
<1>1. q \in HttpRequestType /\ AckOK(i)
  BY DEF HttpInv, HttpTypeOK
<1>2. /\ r \in HttpRequestType /\ r.phase = "sending" /\ q.phase = "sending" /\ r.control = q.control
      /\ (r.canceled <=> q.canceled) /\ r.sent = q.sent
  BY <1>1 DEF SnapshotBreaks, HttpRequestType
<1>3. /\ requests' = [requests EXCEPT ![i] = r] /\ UNCHANGED <<httpControl, drafts, upload>>
      /\ pendingHttp' = pendingHttp
  BY DEF SnapshotBreaks, HttpInv, HttpTypeOK
<1>4. /\ pendingAck' = [pendingAck EXCEPT ![i] = pendingAck[i]] /\ seen' = [seen EXCEPT ![i] = seen[i]]
      /\ pendingAck[i] \in Int /\ seen[i] \in HttpSeen
  BY DEF SnapshotBreaks, HttpInv, HttpTypeOK
<1> HIDE DEF r
<1>5. pendingAck[i] # NoAck =>
          r.phase = "sending" /\ i \in pendingHttp' /\ ~r.canceled /\ pendingAck[i] + 1 = r.sent
  BY <1>1, <1>2, <1>3 DEF AckOK
<1> QED
  BY <1>2, <1>3, <1>4, <1>5, UploadsKept, RequestGoesOn

LEMMA RequestCanceled ==
    ASSUME NEW i \in HttpIds, HttpInv, HttpCancel(i)
    PROVE  HttpInv' /\ \A j \in HttpIds : SilentFor(j)
<1> DEFINE q == requests[i]
           u == IF upload[i] > 0 THEN Abandoned ELSE upload[i]
<1>1. HttpTypeOK /\ AckOK(i) /\ PendingOK(i) /\ UploadOK(i) /\ UploadChunks \in Nat /\ q \in HttpRequestType
  BY HttpBounds DEF HttpInv, HttpTypeOK
<1>2. /\ q.phase \in {"none", "fetching", "sending"} /\ UNCHANGED httpControl
      /\ drafts' = [drafts EXCEPT ![i] = NoDraft] /\ upload' = [upload EXCEPT ![i] = u]
  BY DEF HttpCancel
<1>3. u \in Nat /\ u \notin 1..(UploadChunks + 2) /\ NoDraft \in HttpDraft
  BY <1>1 DEF Abandoned, NoDraft, HttpDraft, HttpTypeOK
<1> HIDE DEF u
<1>4. /\ drafts' \in [HttpIds -> HttpDraft] /\ upload' \in [HttpIds -> Nat]
      /\ \A j \in HttpIds \ {i} : drafts'[j] = drafts[j] /\ upload'[j] = upload[j]
  BY <1>1, <1>2, <1>3 DEF HttpTypeOK
<1>5. CASE pendingAck[i] # NoAck
  <2>1. RejectChunk(i, TRUE) /\ q.phase # "none"
    BY <1>1, <1>5 DEF HttpCancel, AckOK
  <2> QED
    BY <1>2, <1>4, <2>1, ChunkRejected
<1>6. CASE pendingAck[i] = NoAck /\ q.phase # "none"
  <2> DEFINE r == IF i \in pendingHttp THEN [q EXCEPT !.canceled = TRUE] ELSE q
  <2>1. /\ r \in HttpRequestType /\ r.phase = q.phase /\ r.control = q.control
        /\ (r.canceled => i \in pendingHttp \/ q.canceled)
        /\ (r.phase = "fetching" /\ ~r.canceled => q.phase = "fetching" /\ ~q.canceled)
    <3>1. CASE i \in pendingHttp
      BY <1>1, <3>1 DEF HttpRequestType
    <3>2. CASE i \notin pendingHttp
      BY <1>1, <3>2
    <3> QED
      BY <3>1, <3>2
  <2>2. requests' = [requests EXCEPT ![i] = r] /\ UNCHANGED <<pendingHttp, pendingAck, seen>>
    BY <1>6 DEF HttpCancel, HttpInv, HttpTypeOK
  <2>3. pendingAck' = [pendingAck EXCEPT ![i] = NoAck] /\ NoAck \in Int
    BY <1>6, <2>2, Told DEF HttpInv, HttpTypeOK
  <2>4. seen' = [seen EXCEPT ![i] = seen[i]] /\ seen[i] \in HttpSeen
    BY <2>2 DEF HttpInv, HttpTypeOK
  <2> HIDE DEF r
  <2>5. r.phase = "fetching" /\ ~r.canceled => i \in pendingHttp'
    BY <1>1, <2>1, <2>2 DEF PendingOK
  <2>6. /\ r.phase # "none" /\ pendingHttp' \in {pendingHttp, pendingHttp \ {i}}
        /\ i \in pendingHttp' => r.phase \in {"fetching", "sending"}
    BY <1>1, <1>6, <2>1, <2>2 DEF PendingOK
  <2>7. r \in HttpRequestType /\ r.control = q.control
    BY <2>1
  <2>8. UNCHANGED httpControl /\ requests' = [requests EXCEPT ![i] = r] /\ requests[i].phase # "none"
    BY <1>2, <1>6, <2>2
  <2> QED
    BY <1>4, <2>3, <2>4, <2>5, <2>6, <2>7, <2>8, RequestGoesOn
<1>7. CASE pendingAck[i] = NoAck /\ q.phase = "none"
  <2>1. UNCHANGED <<pendingHttp, pendingAck, seen>>
    BY <1>7 DEF HttpCancel
  <2>2. i \notin pendingHttp
    BY <1>1, <1>7 DEF PendingOK
  <2>3. UNCHANGED requests
    BY <1>7, <2>2 DEF HttpCancel
  <2>4. u # UploadChunks + 2 /\ u \notin 1..(UploadChunks + 1)
    BY <1>1, <1>3
  <2> QED
    BY <1>2, <1>3, <1>7, <2>1, <2>3, <2>4, UploadGoesOn
<1> QED
  BY <1>5, <1>6, <1>7

\* The control connection closes: nothing is registered any more, no wait is left and every
\* upload is abandoned.
LEMMA ControlClosed ==
    ASSUME HttpInv, HttpControlCloses
    PROVE  HttpInv' /\ \A j \in HttpIds : SilentFor(j)
<1>1. HttpTypeOK /\ UploadChunks \in Nat
  BY HttpBounds DEF HttpInv
<1>2. ASSUME NEW i \in HttpIds
      PROVE  /\ requests'[i] \in HttpRequestType
             /\ requests'[i].phase = "none" <=> requests[i].phase = "none"
             /\ requests'[i].phase = "fetching" => requests'[i].canceled
  <2> DEFINE q == requests[i]
             p == IF pendingAck[i] # NoAck THEN "done" ELSE q.phase
  <2>1. q \in HttpRequestType /\ AckOK(i) /\ PendingOK(i)
    BY DEF HttpInv, HttpTypeOK
  <2>2. CASE i \notin pendingHttp
    <3>1. requests'[i] = q
      BY <2>2 DEF HttpControlCloses
    <3> QED
      BY <2>1, <2>2, <3>1 DEF PendingOK
  <2>3. CASE i \in pendingHttp
    <3>1. requests'[i] = [q EXCEPT !.canceled = TRUE, !.phase = p]
      BY <2>3 DEF HttpControlCloses
    <3>2. p \in {"fetching", "sending", "done"} /\ q.phase # "none"
      BY <2>1, <2>3 DEF PendingOK
    <3> HIDE DEF p
    <3>3. requests'[i] \in HttpRequestType /\ requests'[i].phase = p /\ requests'[i].canceled
      BY <2>1, <3>1, <3>2 DEF HttpRequestType
    <3> QED
      BY <3>2, <3>3
  <2> QED
    BY <2>2, <2>3
<1>3. HttpTypeOK'
  <2>1. requests' \in [HttpIds -> HttpRequestType]
    <3>1. requests' = [i \in HttpIds |-> requests'[i]]
      BY DEF HttpControlCloses
    <3> QED
      BY <1>2, <3>1
  <2>2. httpControl' \in [number : Nat, open : BOOLEAN, acks : BOOLEAN]
    BY <1>1 DEF HttpControlCloses, HttpTypeOK
  <2>3. upload' \in [HttpIds -> Nat] /\ pendingAck' \in [HttpIds -> Int] /\ pendingHttp' \in SUBSET HttpIds
    <3>1. Abandoned \in Nat /\ 0 \in Nat /\ NoAck \in Int
      BY <1>1 DEF NoAck, Abandoned
    <3>2. /\ upload' = [i \in HttpIds |-> IF upload[i] > 0 THEN Abandoned ELSE 0]
          /\ pendingAck' = [i \in HttpIds |-> NoAck] /\ pendingHttp' = {}
      BY DEF HttpControlCloses
    <3> QED
      BY <3>1, <3>2
  <2> QED
    BY <1>1, <2>1, <2>2, <2>3 DEF HttpControlCloses, HttpTypeOK
<1>4. ASSUME NEW i \in HttpIds
      PROVE  AckOK(i)' /\ PendingOK(i)' /\ UploadOK(i)'
  <2>1. pendingAck'[i] = NoAck /\ i \notin pendingHttp'
    BY DEF HttpControlCloses
  <2>2. upload'[i] \notin 1..(UploadChunks + 1) /\ upload'[i] # UploadChunks + 2
    <3>1. upload'[i] = Abandoned \/ upload'[i] = 0
      BY DEF HttpControlCloses
    <3> QED
      BY <1>1, <3>1 DEF Abandoned
  <2>3. AckOK(i)' /\ UploadOK(i)'
    BY <2>1, <2>2 DEF AckOK, UploadOK
  <2>4. PendingOK(i)'
    BY <1>2, <2>1 DEF PendingOK
  <2> QED
    BY <2>3, <2>4
<1>5. \A j \in HttpIds : SilentFor(j)
  BY DEF HttpControlCloses, SilentFor
<1> QED
  BY <1>3, <1>4, <1>5 DEF HttpInv

\* A new connection meets nothing of the one before.
LEMMA ControlReopened ==
    ASSUME HttpInv, HttpControlReopens
    PROVE  HttpInv' /\ \A j \in HttpIds : SilentFor(j)
<1>1. PICK acks \in BOOLEAN :
          httpControl' = [number |-> httpControl.number + 1, open |-> TRUE, acks |-> acks]
  BY DEF HttpControlReopens
<1>2. ~httpControl.open /\ UNCHANGED <<drafts, upload, requests, pendingHttp, pendingAck, seen>>
  BY DEF HttpControlReopens
<1>3. HttpTypeOK'
  <2>1. httpControl.number + 1 \in Nat
    BY DEF HttpInv, HttpTypeOK
  <2>2. httpControl' \in [number : Nat, open : BOOLEAN, acks : BOOLEAN]
    BY <1>1, <2>1
  <2> QED
    BY <1>2, <2>2 DEF HttpInv, HttpTypeOK
<1>4. ASSUME NEW i \in HttpIds
      PROVE  AckOK(i)' /\ PendingOK(i)' /\ UploadOK(i)'
  <2>1. AckOK(i) /\ PendingOK(i) /\ UploadOK(i)
    BY DEF HttpInv
  <2>2. i \notin pendingHttp
    BY <1>2, <2>1 DEF PendingOK, Reaches
  <2>3. PendingOK(i)'
    BY <1>2, <2>1, <2>2 DEF PendingOK
  <2> QED
    BY <1>2, <2>1, <2>3 DEF AckOK, UploadOK
<1> QED
  BY <1>2, <1>3, <1>4 DEF HttpInv, SilentFor

LEMMA HttpStarts == HttpProxyInit => HttpInv
<1> SUFFICES ASSUME HttpProxyInit PROVE HttpInv
  OBVIOUS
<1>1. NoDraft \in HttpDraft /\ Unseen \in HttpSeen /\ NoAck \in Int
  BY DEF NoDraft, HttpDraft, Unseen, HttpSeen, NoAck
<1>2. Idle \in HttpRequestType /\ Idle.phase = "none"
  BY DEF Idle, HttpRequestType
<1>3. HttpTypeOK
  <2>1. httpControl \in [number : Nat, open : BOOLEAN, acks : BOOLEAN]
    <3>1. httpControl \in [number : {1}, open : {TRUE}, acks : BOOLEAN] /\ 1 \in Nat
      BY DEF HttpProxyInit
    <3> QED
      BY <3>1
  <2> QED
    BY <1>1, <1>2, <2>1 DEF HttpProxyInit, HttpTypeOK
<1>4. ASSUME NEW i \in HttpIds PROVE AckOK(i) /\ PendingOK(i) /\ UploadOK(i)
  <2>1. requests[i] = Idle /\ pendingAck[i] = NoAck /\ i \notin pendingHttp /\ upload[i] = 0
    BY DEF HttpProxyInit
  <2>2. 0 \notin 1..(UploadChunks + 1) /\ 0 # UploadChunks + 2
    BY HttpBounds
  <2>3. AckOK(i) /\ UploadOK(i)
    BY <2>1, <2>2 DEF AckOK, UploadOK
  <2>4. PendingOK(i)
    BY <1>2, <2>1 DEF PendingOK
  <2> QED
    BY <2>3, <2>4
<1> QED
  BY <1>3, <1>4 DEF HttpInv

LEMMA HttpStutters ==
    ASSUME HttpInv, UNCHANGED httpVars
    PROVE  HttpInv' /\ \A j \in HttpIds : SilentFor(j)
<1>1. UNCHANGED <<httpControl, drafts, upload, requests, pendingHttp, pendingAck, seen>>
  BY DEF httpVars
<1>2. HttpTypeOK'
  BY <1>1 DEF HttpInv, HttpTypeOK
<1>3. ASSUME NEW i \in HttpIds PROVE AckOK(i)' /\ PendingOK(i)' /\ UploadOK(i)'
  <2>1. AckOK(i) /\ PendingOK(i) /\ UploadOK(i)
    BY DEF HttpInv
  <2> QED
    BY <1>1, <2>1 DEF AckOK, PendingOK, Reaches, UploadOK
<1> QED
  BY <1>1, <1>2, <1>3 DEF HttpInv, SilentFor

LEMMA HttpSteps ==
    ASSUME HttpInv, [HttpProxyNext]_httpVars
    PROVE  HttpInv' /\ \A j \in HttpIds : SilentFor(j)
<1>1. ASSUME NEW i \in HttpIds,
             \/ HttpRequest(i) \/ AssemblerStart(i) \/ AssemblerChunk(i) \/ AssemblerChunkRepeats(i)
             \/ AssemblerEnd(i) \/ SnapshotRequest(i)
      PROVE  HttpInv' /\ \A j \in HttpIds : SilentFor(j)
  BY <1>1, RequestBegun, UploadStarts, UploadContinues, UploadRepeats, UploadEnds, SnapshotBegun
<1>2. ASSUME NEW i \in HttpIds,
             \/ HttpTimeout(i) \/ FetchFails(i) \/ RespondsWhole(i) \/ ChunkAckTimeout(i)
             \/ SnapshotBreaks(i) \/ HttpCancel(i)
      PROVE  HttpInv' /\ \A j \in HttpIds : SilentFor(j)
  BY <1>2, TimeoutKeeps, FetchFailed, RespondedWhole, ChunkTimedOut, SnapshotBroken, RequestCanceled
<1>3. ASSUME NEW i \in HttpIds, NEW n \in BodyChunks, RespondsInChunks(i, n)
      PROVE  HttpInv' /\ \A j \in HttpIds : SilentFor(j)
  BY <1>3, RespondedInChunks
<1>4. ASSUME NEW i \in HttpIds, NEW k \in AckNumbers, ChunkAck(i, k)
      PROVE  HttpInv' /\ \A j \in HttpIds : SilentFor(j)
  BY <1>4, ChunkAcked
<1> QED
  BY <1>1, <1>2, <1>3, <1>4, ControlClosed, ControlReopened, HttpStutters DEF HttpProxyNext

\* What the relay can observe of a proxied request: an acknowledgement meets only a wait of its
\* own connection, a repeated chunk does not spoil an upload, and a cancelled request stays
\* silent (HttpIsSound without its liveness).
THEOREM HttpIsSafe ==
    HttpProxySpec => [](AckWaitIsCurrent /\ RepeatedChunkIsHarmless) /\ CanceledStaysSilent
<1>1. HttpInv => AckWaitIsCurrent /\ RepeatedChunkIsHarmless
  <2> SUFFICES ASSUME HttpInv, NEW i \in HttpIds
               PROVE  /\ pendingAck[i] # NoAck =>
                             /\ requests[i].phase = "sending" /\ i \in pendingHttp /\ Reaches(i)
                             /\ pendingAck[i] + 1 = requests[i].sent
                      /\ upload[i] = UploadChunks + 2 => requests[i].phase # "none"
    BY DEF AckWaitIsCurrent, RepeatedChunkIsHarmless
  <2>1. AckOK(i) /\ PendingOK(i) /\ UploadOK(i)
    BY DEF HttpInv
  <2> QED
    BY <2>1 DEF AckOK, PendingOK, UploadOK
<1>2. HttpInv /\ [HttpProxyNext]_httpVars => HttpInv'
  BY HttpSteps
<1>3. HttpInv /\ [HttpProxyNext]_httpVars =>
          [\A i \in HttpIds : requests'[i].canceled => seen'[i] = seen[i]]_httpVars
  BY HttpSteps DEF SilentFor
<1> QED
  BY <1>1, <1>2, <1>3, HttpStarts, PTL DEF HttpProxySpec, CanceledStaysSilent
=============================================================================
