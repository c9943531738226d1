--------------------------- MODULE DaemonLifecycle --------------------------
(***************************************************************************)
(* From the first connection to the end of the process                     *)
(* (apps/daemon/src/main.ts: the serve callback, closeDaemon, the upgrade  *)
(* handler, bindDocumentWebSocketAfterAttach, the signal handlers of the   *)
(* command line; the shutdown route of app.ts).  HTTP requests, event      *)
(* streams and document sockets come in while the daemon starts and shuts  *)
(* down; the registry must be closed last.                                 *)
(***************************************************************************)
EXTENDS Naturals, FiniteSets

CONSTANTS AppRequests,   \* HTTP requests
          Streams,    \* event streams
          Sockets     \* document WebSockets

VARIABLES
    daemonPhase,              \* "listening" until the status file is written, then "started"
    shutdownRequested,  \* the control route was called
    daemonClosing,            \* closeDaemon: "no", "transports", "registry", "closed"
    listening,          \* whether the server takes connections
    aborted,            \* shutdownSignal
    relay,              \* whether the relay client runs
    http,               \* per request: "none", "active", "done"
    stream,             \* per event stream: "none", "active", "done"
    open,               \* sockets that are open
    doc,                \* per socket: its lifecycle
    lease,              \* sockets that hold a session lease
    tracked,            \* activeDocumentConnections
    signalled           \* signals received: SIGINT, SIGTERM

lifeVars == <<daemonPhase, shutdownRequested, daemonClosing, listening, aborted, relay, http, stream, open,
              doc, lease, tracked, signalled>>
transportVars == <<http, stream, open, doc, lease, tracked>>

LifecycleInit ==
    /\ daemonPhase = "listening"
    /\ shutdownRequested = FALSE
    /\ daemonClosing = "no"
    /\ listening = TRUE
    /\ aborted = FALSE
    /\ relay = FALSE
    /\ http = [r \in AppRequests |-> "none"]
    /\ stream = [s \in Streams |-> "none"]
    /\ open = {}
    /\ doc = [w \in Sockets |-> "none"]
    /\ lease = {}
    /\ tracked = {}
    /\ signalled = {}

-----------------------------------------------------------------------------
(* The daemon starts.                                                      *)

(* The serve callback resumes when the status file is written; a shutdown  *)
(* that was asked for meanwhile keeps the relay off.                       *)
StartedConnects ==
    /\ daemonPhase = "listening"
    /\ daemonPhase' = "started"
    /\ relay' = TRUE
    /\ UNCHANGED <<shutdownRequested, daemonClosing, listening, aborted, transportVars, signalled>>

Started ==
    /\ daemonPhase = "listening"
    /\ daemonPhase' = "started"
    /\ relay' = IF shutdownRequested THEN relay ELSE TRUE
    /\ UNCHANGED <<shutdownRequested, daemonClosing, listening, aborted, transportVars, signalled>>

-----------------------------------------------------------------------------
(* Traffic.  After a shutdown request HTTP answers 503 and upgrades are    *)
(* refused.                                                                *)

Accepting == listening /\ ~shutdownRequested

AppRequest(r) ==
    /\ Accepting
    /\ http[r] = "none"
    /\ http' = [http EXCEPT ![r] = "active"]
    /\ UNCHANGED <<daemonPhase, shutdownRequested, daemonClosing, listening, aborted, relay, stream, open, doc,
                   lease, tracked, signalled>>

HttpResponse(r) ==
    /\ http[r] = "active"
    /\ http' = [http EXCEPT ![r] = "done"]
    /\ UNCHANGED <<daemonPhase, shutdownRequested, daemonClosing, listening, aborted, relay, stream, open, doc,
                   lease, tracked, signalled>>

OpenStream(s) ==
    /\ Accepting
    /\ stream[s] = "none"
    /\ stream' = [stream EXCEPT ![s] = "active"]
    /\ UNCHANGED <<daemonPhase, shutdownRequested, daemonClosing, listening, aborted, relay, http, open, doc,
                   lease, tracked, signalled>>

(* A stream lasts until its client leaves or the shutdown signal aborts it.*)
StreamEnds(s) ==
    /\ stream[s] = "active"
    /\ stream' = [stream EXCEPT ![s] = "done"]
    /\ UNCHANGED <<daemonPhase, shutdownRequested, daemonClosing, listening, aborted, relay, http, open, doc,
                   lease, tracked, signalled>>

(* upgrade: the whole lifecycle is tracked before anything is awaited.     *)
UpgradeTracksLate(w) ==
    /\ Accepting
    /\ daemonClosing = "no"
    /\ doc[w] = "none"
    /\ doc' = [doc EXCEPT ![w] = "attaching"]
    /\ open' = open \cup {w}
    /\ UNCHANGED <<daemonPhase, shutdownRequested, daemonClosing, listening, aborted, relay, http, stream, lease,
                   tracked, signalled>>

Upgrade(w) ==
    /\ Accepting
    /\ daemonClosing = "no"
    /\ doc[w] = "none"
    /\ doc' = [doc EXCEPT ![w] = "attaching"]
    /\ open' = open \cup {w}
    /\ tracked' = tracked \cup {w}
    /\ UNCHANGED <<daemonPhase, shutdownRequested, daemonClosing, listening, aborted, relay, http, stream, lease,
                   signalled>>

SocketCloses(w) ==
    /\ w \in open
    /\ open' = open \ {w}
    /\ UNCHANGED <<daemonPhase, shutdownRequested, daemonClosing, listening, aborted, relay, http, stream, doc,
                   lease, tracked, signalled>>

(* attach resolves with a lease: a socket that closed meanwhile is never   *)
(* bound, and its lease is released at once.                               *)
BindsBlindly(w) ==
    /\ doc[w] = "attaching"
    /\ lease' = lease \cup {w}
    /\ doc' = [doc EXCEPT ![w] = IF w \in open THEN "bound" ELSE "deaf"]
    /\ UNCHANGED <<daemonPhase, shutdownRequested, daemonClosing, listening, aborted, relay, http, stream, open,
                   tracked, signalled>>

Attached(w) ==
    /\ doc[w] = "attaching"
    /\ IF w \in open
       THEN lease' = lease \cup {w} /\ doc' = [doc EXCEPT ![w] = "bound"] /\ UNCHANGED tracked
       ELSE doc' = [doc EXCEPT ![w] = "ended"] /\ tracked' = tracked \ {w} /\ UNCHANGED lease
    /\ UNCHANGED <<daemonPhase, shutdownRequested, daemonClosing, listening, aborted, relay, http, stream, open,
                   signalled>>

AttachFails(w) ==
    /\ doc[w] = "attaching"
    /\ doc' = [doc EXCEPT ![w] = "ended"]
    /\ open' = open \ {w}
    /\ tracked' = tracked \ {w}
    /\ UNCHANGED <<daemonPhase, shutdownRequested, daemonClosing, listening, aborted, relay, http, stream, lease,
                   signalled>>

(* The close event of the socket ends the binding and gives the lease back.*)
BindingEnds(w) ==
    /\ doc[w] = "bound"
    /\ w \notin open
    /\ doc' = [doc EXCEPT ![w] = "ended"]
    /\ lease' = lease \ {w}
    /\ tracked' = tracked \ {w}
    /\ UNCHANGED <<daemonPhase, shutdownRequested, daemonClosing, listening, aborted, relay, http, stream, open,
                   signalled>>

-----------------------------------------------------------------------------
(* The shutdown.                                                           *)

(* closeDaemon: stop listening, abort the streams, stop the relay.         *)
CloseDaemonQuietly ==
    /\ daemonClosing' = IF daemonClosing = "no" THEN "transports" ELSE daemonClosing
    /\ listening' = FALSE
    /\ aborted' = aborted
    /\ relay' = IF daemonClosing = "no" THEN FALSE ELSE relay

CloseDaemon ==
    /\ daemonClosing' = IF daemonClosing = "no" THEN "transports" ELSE daemonClosing
    /\ listening' = FALSE
    /\ aborted' = TRUE
    /\ relay' = IF daemonClosing = "no" THEN FALSE ELSE relay

(* The control route marks the shutdown now and begins it in a timer.      *)
RequestShutdown ==
    /\ Accepting
    /\ shutdownRequested' = TRUE
    /\ UNCHANGED <<daemonPhase, daemonClosing, listening, aborted, relay, transportVars, signalled>>

CompleteShutdownRequest ==
    /\ shutdownRequested
    /\ daemonClosing = "no"
    /\ CloseDaemon
    /\ UNCHANGED <<daemonPhase, shutdownRequested, transportVars, signalled>>

(* A signal closes a daemon that has started; one that comes earlier only  *)
(* sets the exit code.                                                     *)
Signal(s) ==
    /\ s \notin signalled
    /\ signalled' = signalled \cup {s}
    /\ IF daemonPhase = "started" /\ signalled = {}
       THEN CloseDaemon
       ELSE UNCHANGED <<daemonClosing, listening, aborted, relay>>
    /\ UNCHANGED <<daemonPhase, shutdownRequested, transportVars>>

(* closeServer: every request and stream has been answered.                *)
ServerClosed == \A r \in AppRequests : http[r] # "active"
StreamsClosed == \A s \in Streams : stream[s] # "active"
(* closeWebSocketServer closes every client, then waits for the lifecycles.*)
WebSocketsClosed == open = {} /\ tracked = {}

TransportsDrained ==
    /\ daemonClosing = "transports"
    /\ ServerClosed
    /\ StreamsClosed
    /\ WebSocketsClosed
    /\ daemonClosing' = "registry"
    /\ UNCHANGED <<daemonPhase, shutdownRequested, listening, aborted, relay, transportVars, signalled>>

RegistryCloses ==
    /\ daemonClosing = "registry"
    /\ daemonClosing' = "closed"
    /\ UNCHANGED <<daemonPhase, shutdownRequested, listening, aborted, relay, transportVars, signalled>>

LifecycleNext ==
    \/ Started \/ RequestShutdown \/ CompleteShutdownRequest \/ TransportsDrained \/ RegistryCloses
    \/ \E s \in {"SIGINT", "SIGTERM"} : Signal(s)
    \/ \E r \in AppRequests : AppRequest(r) \/ HttpResponse(r)
    \/ \E s \in Streams : OpenStream(s) \/ StreamEnds(s)
    \/ \E w \in Sockets : \/ Upgrade(w) \/ SocketCloses(w) \/ Attached(w)
                          \/ AttachFails(w) \/ BindingEnds(w)

(* Handlers answer, sessions open, timers fire.  A stream ends by itself   *)
(* only once it is aborted, a socket only once the server closes it (the   *)
(* close handshake has a timeout): clients are free to stay.               *)
LifecycleFairness ==
    /\ WF_lifeVars(Started) /\ WF_lifeVars(CompleteShutdownRequest)
    /\ WF_lifeVars(TransportsDrained) /\ WF_lifeVars(RegistryCloses)
    /\ \A r \in AppRequests : WF_lifeVars(HttpResponse(r))
    /\ \A s \in Streams : WF_lifeVars(aborted /\ StreamEnds(s))
    /\ \A w \in Sockets : /\ WF_lifeVars(Attached(w)) /\ WF_lifeVars(BindingEnds(w))
                          /\ WF_lifeVars(daemonClosing = "transports" /\ SocketCloses(w))

LifecycleSpec == LifecycleInit /\ [][LifecycleNext]_lifeVars /\ LifecycleFairness

-----------------------------------------------------------------------------
(* Properties.                                                             *)

(* Registry persistence is the last shutdown step: when the registry       *)
(* closes, no request still runs, no document connection is still opening  *)
(* its session, and no socket holds a session.                             *)
RegistryClosesLast ==
    daemonClosing \in {"registry", "closed"} =>
              /\ ServerClosed /\ StreamsClosed
              /\ lease = {}
              /\ \A w \in Sockets : doc[w] # "attaching"

(* A socket that closes, while its session is opening or later, always     *)
(* gives its lease back: no session stays open for a client that is gone   *)
(* (a binding that began after the close would miss the event).            *)
LeasesComeBack == \A w \in Sockets : (w \in lease /\ w \notin open) ~> w \notin lease

(* Clients that stay connected do not hold a shutdown up: every shutdown   *)
(* that began ends with the registry closed.                               *)
ShutdownCompletes == daemonClosing # "no" ~> daemonClosing = "closed"

(* A shutdown asked for while the daemon was still starting leaves no      *)
(* relay client behind, whichever of the two finishes first.               *)
RelayEndsWithDaemon == daemonClosing = "closed" => ~relay

(* A shutdown is orderly and ends, however it meets a start, requests,     *)
(* streams and sockets whose sessions are opening (closeDaemon, startDaemon). *)
ShutdownIsOrderly ==
    /\ [](RegistryClosesLast /\ RelayEndsWithDaemon)
    /\ LeasesComeBack /\ ShutdownCompletes
=============================================================================
