--------------------------- MODULE TunnelControl ---------------------------
(***************************************************************************)
(* The control connection of the tunnel client                             *)
(* (packages/tunnel-client/src/index.ts, class TunnelClient) together with *)
(* the lifecycle controller the daemon drives it with                      *)
(* (apps/daemon/src/main.ts, createRelayLifecycleController).              *)
(*                                                                         *)
(* A control WebSocket is a number of 1..MaxConn: every connectControl     *)
(* takes the next one, and its listeners stay attached when this.control   *)
(* is already another socket.  A retry timer is named after the socket     *)
(* whose close scheduled it; `timers` holds every timer that will still    *)
(* fire and `reconnectTimer` the only one stop() can cancel.               *)
(*                                                                         *)
(* The relay is not part of the repository.  It is modelled from what the  *)
(* client says of it: the newest control.hello is the registration, an     *)
(* older one is closed with CONTROL_REPLACED, a cache of vault contents is *)
(* dropped by a vault event and kept over a reconnect exactly when the     *)
(* hello carries the mutation epoch the relay already knows.               *)
(***************************************************************************)
EXTENDS Naturals, Sequences, FiniteSets

CONSTANTS MaxConn,        \* bound: control sockets opened in a behaviour
          MaxMutations,   \* bound: vault changes
          Misses          \* CONTROL_HEARTBEAT_MISSES_BEFORE_RECONNECT

ASSUME ControlBounds ==
    /\ MaxConn \in Nat \ {0}
    /\ MaxMutations \in Nat
    /\ Misses \in Nat \ {0}

VARIABLES
    client,     \* the fields of TunnelClient that outlive a socket
    timers,     \* retry timers that will still fire
    sock,       \* readyState of each control socket
    fate,       \* why the socket is about to close, as its close event says
    mute,       \* sockets whose peer is gone without a close
    up,         \* frames sent on a socket that the relay has not read yet
    heartbeat,  \* interval, deadline and misses of the control heartbeat
    version,    \* version of the vaults' contents
    relay,      \* what the relay knows: registration, epoch, cache
    wanted,     \* history: the operator's last call was connect
    rival       \* history: another daemon took the registration over

ctlVars == <<client, timers, sock, fate, mute, up, heartbeat, version,
             relay, wanted, rival>>

Conn == 1..MaxConn
NoConn == 0
NoCache == MaxMutations + 1

Opened == Cardinality({c \in Conn : sock[c] # "none"})

TunnelFrame == [type : {"hello"}, epoch : Nat]
                  \cup [type : {"event"}, epoch : Nat]
                  \cup [type : {"data"}, version : 0..MaxMutations]

NoHeartbeat == [interval |-> NoConn, deadline |-> FALSE, misses |-> 0,
                unanswered |-> FALSE]

TunnelControlInit ==
    /\ client = [stopped |-> TRUE, hasStarted |-> FALSE, control |-> NoConn,
                 reconnectTimer |-> NoConn, epoch |-> 0, subscribed |-> FALSE]
    /\ timers = {}
    /\ sock = [c \in Conn |-> "none"]
    /\ fate = [c \in Conn |-> "none"]
    /\ mute = {}
    /\ up = [c \in Conn |-> <<>>]
    /\ heartbeat = NoHeartbeat
    /\ version = 0
    /\ relay = [registered |-> NoConn, epoch |-> MaxMutations + MaxConn + 1,
                cache |-> NoCache]
    /\ wanted = FALSE
    /\ rival = FALSE

\* connectControl of a client that is not stopped: a fresh socket becomes
\* this.control, whatever this.control was.
ConnectControl(cl) ==
    LET c == Opened + 1
    IN  /\ c \in Conn
        /\ client' = [cl EXCEPT !.control = c]
        /\ sock' = [sock EXCEPT ![c] = "connecting"]

\* start(): a client that is already started stays as it is; a later start
\* moves the mutation epoch, for nothing was observed while it was stopped.
Start(cl) ==
    \/ ~cl.stopped /\ client' = cl /\ UNCHANGED <<sock, rival>>
    \/ /\ cl.stopped
       /\ ConnectControl([cl EXCEPT !.stopped = FALSE, !.hasStarted = TRUE,
                                    !.epoch = IF cl.hasStarted THEN @ + 1 ELSE @])
       /\ rival' = FALSE

\* POST /api/relay/connect: client.start(), and the subscription to vault events.
RelayConnect ==
    /\ Start([client EXCEPT !.subscribed = TRUE])
    /\ wanted' = TRUE
    /\ UNCHANGED <<timers, fate, mute, up, heartbeat, version, relay>>

StopOnlyConnected(cl) ==   \* mutant: stop() returns early when no socket is open
    IF cl.control = NoConn
    THEN client' = cl /\ UNCHANGED <<timers, heartbeat, sock>>
    ELSE /\ client' = [cl EXCEPT !.stopped = TRUE, !.control = NoConn,
                                 !.reconnectTimer = NoConn]
         /\ timers' = timers \ {cl.reconnectTimer}
         /\ heartbeat' = NoHeartbeat
         /\ sock' = [sock EXCEPT ![cl.control] = "closing"]

\* stop(): only the timer in reconnectTimer is cancelled; the close of the
\* socket comes later, as an event of its own.
Stop(cl) ==
    /\ client' = [cl EXCEPT !.stopped = TRUE, !.control = NoConn,
                            !.reconnectTimer = NoConn]
    /\ timers' = timers \ {cl.reconnectTimer}
    /\ heartbeat' = NoHeartbeat
    /\ sock' = IF cl.control = NoConn THEN sock
               ELSE [sock EXCEPT ![cl.control] = "closing"]

\* POST /api/relay/disconnect: the subscription is released, then stop().
RelayDisconnect ==
    /\ wanted
    /\ wanted' = FALSE
    /\ Stop([client EXCEPT !.subscribed = FALSE])
    /\ UNCHANGED <<fate, mute, up, version, relay, rival>>

\* A frame handed to an open socket; the relay reads it later.
Send(c, frame) == up' = [up EXCEPT ![c] = Append(@, frame)]

\* The listener of 'open': control.hello, then a new heartbeat for this socket.
SocketOpens(c) ==
    /\ sock[c] = "connecting"
    /\ sock' = [sock EXCEPT ![c] = "open"]
    /\ Send(c, [type |-> "hello", epoch |-> client.epoch])
    /\ heartbeat' = [NoHeartbeat EXCEPT !.interval = c]
    /\ UNCHANGED <<client, timers, fate, mute, version, relay, wanted, rival>>

\* handleControlMessage, control.pong: in time, or after its deadline fired.
ControlPong ==
    /\ heartbeat.unanswered /\ heartbeat.interval \notin mute
    /\ sock[heartbeat.interval] = "open"
    /\ heartbeat' = [heartbeat EXCEPT !.deadline = FALSE, !.misses = 0,
                                      !.unanswered = FALSE]
    /\ UNCHANGED <<client, timers, sock, fate, mute, up, version, relay, wanted, rival>>

\* The end of the close listener: nothing when stopped, a stop when another
\* registration replaced this one, a retry otherwise.
NoRetryAfterTerminate(c, cl) ==   \* mutant: a socket the client terminated is not retried
    IF client.stopped \/ fate[c] = "none"
    THEN client' = cl /\ UNCHANGED timers
    ELSE /\ client' = [cl EXCEPT !.reconnectTimer = c]
         /\ timers' = timers \cup {c}

RetryOrStop(c, cl) ==
    \/ client.stopped /\ client' = cl /\ UNCHANGED timers
    \/ /\ ~client.stopped /\ fate[c] = "replaced"
       /\ client' = [cl EXCEPT !.stopped = TRUE]
       /\ UNCHANGED timers
    \/ /\ ~client.stopped /\ fate[c] # "replaced"
       /\ client' = [cl EXCEPT !.reconnectTimer = c]
       /\ timers' = timers \cup {c}

\* The listener of 'close'.  The fields are reset only for this.control; the
\* retry, or the stop, happens for any socket.
SocketCloses(c) ==
    /\ sock[c] = "closing" \/ fate[c] # "none"
    /\ sock[c] # "closed"
    /\ sock' = [sock EXCEPT ![c] = "closed"]
    /\ fate' = [fate EXCEPT ![c] = "none"]
    /\ up' = [up EXCEPT ![c] = <<>>]
    /\ heartbeat' = IF client.control = c THEN NoHeartbeat ELSE heartbeat
    /\ RetryOrStop(c, IF client.control = c THEN [client EXCEPT !.control = NoConn]
                      ELSE client)
    /\ UNCHANGED <<mute, version, relay, wanted, rival>>

\* A retry timer fires; connectControl returns at once when stopped.
RetryFires(t) ==
    /\ t \in timers
    /\ timers' = timers \ {t}
    /\ LET cl == [client EXCEPT !.reconnectTimer = NoConn]
       IN  IF client.stopped
           THEN client' = cl /\ UNCHANGED sock
           ELSE ConnectControl(cl)
    /\ UNCHANGED <<fate, mute, up, heartbeat, version, relay, wanted, rival>>

TickForgetsMisses ==   \* mutant: every ping starts the count of misses again
    /\ ~heartbeat.deadline
    /\ heartbeat.interval # NoConn /\ client.control = heartbeat.interval
    /\ ~client.stopped /\ sock[heartbeat.interval] = "open"
    /\ heartbeat' = [heartbeat EXCEPT !.deadline = TRUE, !.unanswered = TRUE, !.misses = 0]
    /\ UNCHANGED <<client, timers, sock, fate, mute, up, version, relay, wanted, rival>>

\* The heartbeat interval: CONTROL_HEARTBEAT_TIMEOUT_MS is shorter than the
\* interval, so the deadline of one ping has fired before the next is sent.
HeartbeatTick ==
    /\ ~heartbeat.deadline
    /\ LET c == heartbeat.interval
       IN  /\ c # NoConn
           /\ client.control = c /\ ~client.stopped /\ sock[c] = "open"
    /\ heartbeat' = [heartbeat EXCEPT !.deadline = TRUE, !.unanswered = TRUE]
    /\ UNCHANGED <<client, timers, sock, fate, mute, up, version, relay, wanted, rival>>

HeartbeatDeadline ==
    /\ heartbeat.deadline
    /\ LET c == heartbeat.interval
           missed == heartbeat.misses + 1
       IN  IF client.control # c \/ client.stopped
           THEN /\ heartbeat' = [heartbeat EXCEPT !.deadline = FALSE]
                /\ UNCHANGED sock
           ELSE /\ heartbeat' = [heartbeat EXCEPT !.deadline = FALSE, !.misses = missed]
                /\ sock' = IF missed < Misses THEN sock
                           ELSE [sock EXCEPT ![c] = "closing"]
    /\ UNCHANGED <<client, timers, fate, mute, up, version, relay, wanted, rival>>

EpochOnlyWhenSent ==   \* mutant: a dropped event does not move the epoch
    LET c == client.control
    IN  IF c # NoConn /\ sock[c] = "open"
        THEN /\ client' = [client EXCEPT !.epoch = @ + 1]
             /\ Send(c, [type |-> "event", epoch |-> client.epoch + 1])
        ELSE UNCHANGED <<client, up>>

\* sendRelayEvent of a vault change: the epoch moves first, then the event is
\* sent, or dropped when the control socket is not open.
SendRelayEvent ==
    LET c == client.control
    IN  /\ client' = [client EXCEPT !.epoch = @ + 1]
        /\ IF c # NoConn /\ sock[c] = "open"
           THEN Send(c, [type |-> "event", epoch |-> client.epoch + 1])
           ELSE UNCHANGED up

\* A vault changes: a tree or content event of the registry is a relay event,
\* for a daemon that holds the subscription.
VaultChanges ==
    /\ version < MaxMutations
    /\ version' = version + 1
    /\ IF client.subscribed THEN SendRelayEvent ELSE UNCHANGED <<client, up>>
    /\ UNCHANGED <<timers, sock, fate, mute, heartbeat, relay, wanted, rival>>

----------------------------------------------------------------------------
(* The relay and the network                                               *)

\* The relay reads the next frame of a socket.  A hello takes the registration
\* over; the frames of an unregistered socket are not used.
RelayReadsFrame(c) ==
    /\ up[c] # <<>> /\ c \notin mute
    /\ up' = [up EXCEPT ![c] = Tail(@)]
    /\ LET frame == Head(up[c])
           old == relay.registered
       IN  CASE frame.type = "hello" ->
                  /\ relay' = [registered |-> c, epoch |-> frame.epoch,
                               cache |-> IF frame.epoch = relay.epoch
                                         THEN relay.cache ELSE NoCache]
                  /\ fate' = IF old # NoConn /\ sock[old] # "closed"
                             THEN [fate EXCEPT ![old] = "replaced"] ELSE fate
             [] frame.type = "event" ->
                  /\ relay' = IF old = c
                              THEN [relay EXCEPT !.epoch = frame.epoch, !.cache = NoCache]
                              ELSE relay
                  /\ UNCHANGED fate
             [] frame.type = "data" ->
                  /\ relay' = IF old = c THEN [relay EXCEPT !.cache = frame.version]
                              ELSE relay
                  /\ UNCHANGED fate
    /\ UNCHANGED <<client, timers, sock, mute, heartbeat, version, wanted, rival>>

\* The relay fetches vault contents through the tunnel to fill its cache.
RelayFetches ==
    /\ LET c == relay.registered
       IN  /\ c # NoConn /\ sock[c] = "open" /\ c \notin mute
           /\ relay.cache = NoCache
           /\ \A i \in DOMAIN up[c] : up[c][i].type # "data"
           /\ Send(c, [type |-> "data", version |-> version])
    /\ UNCHANGED <<client, timers, sock, fate, mute, heartbeat, version,
                   relay, wanted, rival>>

\* Another daemon registers with the same token.
RivalRegisters ==
    /\ ~rival
    /\ LET c == relay.registered
       IN  /\ c # NoConn /\ sock[c] = "open" /\ c \notin mute
           /\ fate' = [fate EXCEPT ![c] = "replaced"]
    /\ relay' = [relay EXCEPT !.registered = NoConn, !.cache = NoCache,
                              !.epoch = MaxMutations + MaxConn + 1]
    /\ rival' = TRUE
    /\ UNCHANGED <<client, timers, sock, mute, up, heartbeat, version, wanted>>

ConnectionLost(c) ==
    /\ sock[c] \in {"connecting", "open"} /\ fate[c] = "none"
    /\ fate' = [fate EXCEPT ![c] = "lost"]
    /\ UNCHANGED <<client, timers, sock, mute, up, heartbeat, version, relay, wanted, rival>>

\* The peer disappears without a close: only the heartbeat can tell.
ConnectionHangs(c) ==
    /\ sock[c] = "open" /\ mute = {}      \* bound: one hang
    /\ mute' = {c}
    /\ UNCHANGED <<client, timers, sock, fate, up, heartbeat, version, relay, wanted, rival>>

TunnelControlNext ==
    \/ RelayConnect \/ RelayDisconnect \/ VaultChanges
    \/ HeartbeatTick \/ HeartbeatDeadline \/ ControlPong
    \/ RelayFetches \/ RivalRegisters
    \/ \E c \in Conn :
         \/ SocketOpens(c) \/ SocketCloses(c)
         \/ RetryFires(c)
         \/ RelayReadsFrame(c)
         \/ ConnectionLost(c) \/ ConnectionHangs(c)

\* Timers fire, sockets open and close, a relay that is there answers.
TunnelControlFairness ==
    /\ WF_ctlVars(HeartbeatTick) /\ WF_ctlVars(HeartbeatDeadline) /\ WF_ctlVars(ControlPong)
    /\ \A c \in Conn :
         /\ WF_ctlVars(SocketOpens(c)) /\ WF_ctlVars(SocketCloses(c))
         /\ WF_ctlVars(RetryFires(c))
         /\ WF_ctlVars(RelayReadsFrame(c))

TunnelControlSpec ==
    TunnelControlInit /\ [][TunnelControlNext]_ctlVars /\ TunnelControlFairness
----------------------------------------------------------------------------
(* Properties                                                              *)

\* Once the relay has read everything the daemon sent on the control socket,
\* the vault contents it has cached are the vault's: the mutation epoch of
\* sendRelayEvent and start() fences every change the relay was not told of,
\* whether the event was dropped, lost with its socket, or not subscribed to.
RelayCacheIsCurrent ==
    LET c == relay.registered
    IN  c # NoConn /\ client.control = c /\ sock[c] = "open" /\ up[c] = <<>>
          => relay.cache \in {NoCache, version}

\* After the operator's disconnect no socket is opened, whichever timers and
\* close events of earlier sockets are still to come.
DisconnectSticks ==
    [][~wanted /\ ~wanted' =>
         \A c \in Conn : sock'[c] = "connecting" => sock[c] = "connecting"]_ctlVars

\* A started client that has no control socket gets one: every close of
\* this.control leaves a retry behind (until the bound on sockets is reached).
LossIsRepaired ==
    ~client.stopped /\ client.control = NoConn ~>
      client.stopped \/ client.control # NoConn \/ Opened = MaxConn

\* A control socket whose peer vanished is given up by the heartbeat, unless a
\* second socket of the client is alive (its open listener took the interval)
\* or a retry is about to open one.
HangIsDetected ==
    \A c \in Conn :
      c \in mute /\ client.control = c /\ sock[c] = "open" /\ ~client.stopped ~>
        \/ client.stopped \/ client.control # c \/ sock[c] # "open"
        \/ timers # {}
        \/ \E d \in Conn \ {c} : sock[d] \in {"connecting", "open", "closing"}

\* The client always comes back: from a lost control socket, and from one whose
\* peer vanished without a close.
ConnectionRecovers == LossIsRepaired /\ HangIsDetected
============================================================================
