---------------------------- MODULE McpSessions -----------------------------
(***************************************************************************)
(* The MCP endpoint's sessions and its shutdown                            *)
(* (packages/local-mcp/src/server.ts: createLocalMcpEndpoint and           *)
(* handleMcpRequest).  Requests come over HTTP and last until their body   *)
(* is read or given up; the tool a request calls runs beside it.  A        *)
(* session ends by itself when nobody uses it, and close() lets what was   *)
(* admitted finish before it ends the sessions.                            *)
(***************************************************************************)
EXTENDS Naturals, FiniteSets

CONSTANTS Sessions,   \* session ids, one per initialize request
          McpRequests    \* the other requests: tool calls, acknowledgements, streams, deletes

ASSUME McpBounds == IsFiniteSet(McpRequests)

Posts == {"call", "ack", "delete"}    \* methods other than GET
McpKinds == Posts \cup {"stream"}        \* "stream" is the GET of a session

VARIABLES
    session,    \* per session: in the map or not, its requests, timers and transport
    init,       \* per session: its initialize request
    mcpRequest,    \* per other request: kind, session, stage
    operation,  \* per other request: the tool it calls
    accepting,  \* acceptingRequests, acceptingOperations
    mcpClosing     \* close(): "no", "requests", "operations", "closed"

mcpVars == <<session, init, mcpRequest, operation, accepting, mcpClosing>>

NoSession == [known |-> FALSE, open |-> FALSE, active |-> 0, initTimer |-> FALSE,
              idleTimer |-> FALSE, acknowledged |-> FALSE]

McpInit ==
    /\ session = [s \in Sessions |-> NoSession]
    /\ init = [s \in Sessions |-> "none"]
    /\ mcpRequest \in [McpRequests -> [kind : McpKinds, session : Sessions, stage : {"none"}]]
    /\ operation = [r \in McpRequests |-> "none"]
    /\ accepting = [requests |-> TRUE, operations |-> TRUE]
    /\ mcpClosing = "no"

-----------------------------------------------------------------------------
(* Requests of a session are counted from their lookup until their body is *)
(* consumed; the last one to finish starts the idle timer.                 *)

TrackUncounted(rec) == [rec EXCEPT !.idleTimer = FALSE]

TrackSessionRequest(rec) == [rec EXCEPT !.idleTimer = FALSE, !.active = @ + 1]

FinishOnlyCounts(rec) ==
    [rec EXCEPT !.active = IF @ > 0 THEN @ - 1 ELSE 0]

FinishSessionRequest(rec) ==
    LET left == IF rec.active > 0 THEN rec.active - 1 ELSE 0
    IN  [rec EXCEPT !.active = left, !.idleTimer = @ \/ (rec.known /\ left = 0)]

(* The transport of a session closes: its onclose takes the session out of *)
(* the map and stops its timers.                                           *)
OnClose(rec) == [rec EXCEPT !.known = FALSE, !.open = FALSE, !.initTimer = FALSE,
                            !.idleTimer = FALSE]

-----------------------------------------------------------------------------
(* initialize.  The body is parsed, the server is connected, and the       *)
(* session is in the map when its response is ready.                       *)

Initialize(s) ==
    /\ init[s] = "none"
    /\ init' = [init EXCEPT ![s] = IF accepting.requests THEN "admitted" ELSE "done"]
    /\ UNCHANGED <<session, mcpRequest, operation, accepting, mcpClosing>>

Initialized(s) ==
    /\ init[s] = "admitted"
    /\ init' = [init EXCEPT ![s] = "streaming"]
    /\ session' = [session EXCEPT ![s] = [NoSession EXCEPT !.known = TRUE, !.open = TRUE,
                                                           !.active = 1, !.initTimer = TRUE]]
    /\ UNCHANGED <<mcpRequest, operation, accepting, mcpClosing>>

(* An actor that is refused, or a server that does not connect.            *)
InitializeFails(s) ==
    /\ init[s] = "admitted"
    /\ init' = [init EXCEPT ![s] = "done"]
    /\ UNCHANGED <<session, mcpRequest, operation, accepting, mcpClosing>>

InitializeConsumed(s) ==
    /\ init[s] = "streaming"
    /\ init' = [init EXCEPT ![s] = "done"]
    /\ session' = [session EXCEPT ![s] = FinishSessionRequest(@)]
    /\ UNCHANGED <<mcpRequest, operation, accepting, mcpClosing>>

-----------------------------------------------------------------------------
(* Other requests.                                                         *)

Stage(r, to) == mcpRequest' = [mcpRequest EXCEPT ![r].stage = to]

(* handleRequest: refused after close(), 400 without a known session.      *)
HandleRequest(r) ==
    LET s == mcpRequest[r].session IN
    /\ mcpRequest[r].stage = "none"
    /\ init[s] # "none"
    /\ IF accepting.requests /\ session[s].known
       THEN Stage(r, "admitted") /\ session' = [session EXCEPT ![s] = TrackSessionRequest(@)]
       ELSE Stage(r, "done") /\ UNCHANGED session
    /\ UNCHANGED <<init, operation, accepting, mcpClosing>>

(* The transport answers.  A tool call is under way when its response      *)
(* stream exists; the tool itself starts later.  A transport that was      *)
(* closed meanwhile may or may not take the call.                          *)
DispatchCall(r) ==
    LET s == mcpRequest[r].session IN
    /\ mcpRequest[r].stage = "admitted"
    /\ mcpRequest[r].kind = "call"
    /\ \/ /\ Stage(r, "streaming")
          /\ operation' = [operation EXCEPT ![r] = "queued"]
          /\ UNCHANGED session
       \/ /\ ~session[s].open
          /\ Stage(r, "done")
          /\ session' = [session EXCEPT ![s] = FinishSessionRequest(@)]
          /\ UNCHANGED operation
    /\ UNCHANGED <<init, accepting, mcpClosing>>

(* The initialized notification: an answer that is ok stops the            *)
(* initialization timer; the answer has no body.                           *)
DispatchAck(r) ==
    LET s == mcpRequest[r].session IN
    /\ mcpRequest[r].stage = "admitted"
    /\ mcpRequest[r].kind = "ack"
    /\ Stage(r, "done")
    /\ session' = [session EXCEPT ![s] =
                      FinishSessionRequest(IF session[s].open
                                           THEN [@ EXCEPT !.initTimer = FALSE, !.acknowledged = TRUE]
                                           ELSE @)]
    /\ UNCHANGED <<init, operation, accepting, mcpClosing>>

DispatchDelete(r) ==
    LET s == mcpRequest[r].session IN
    /\ mcpRequest[r].stage = "admitted"
    /\ mcpRequest[r].kind = "delete"
    /\ Stage(r, "done")
    /\ session' = [session EXCEPT ![s] = FinishSessionRequest(OnClose(@))]
    /\ UNCHANGED <<init, operation, accepting, mcpClosing>>

DispatchStream(r) ==
    /\ mcpRequest[r].stage = "admitted"
    /\ mcpRequest[r].kind = "stream"
    /\ Stage(r, "streaming")
    /\ UNCHANGED <<session, init, operation, accepting, mcpClosing>>

(* A body ends: the answer of the tool is out, or the transport closed.    *)
BodyConsumed(r) ==
    LET s == mcpRequest[r].session IN
    /\ mcpRequest[r].stage = "streaming"
    /\ ~session[s].open \/ operation[r] \in {"settled", "over", "refused"}
    /\ Stage(r, "done")
    /\ session' = [session EXCEPT ![s] = FinishSessionRequest(@)]
    /\ UNCHANGED <<init, operation, accepting, mcpClosing>>

(* The client goes away; the tool is not told.                             *)
ClientCancels(r) ==
    LET s == mcpRequest[r].session IN
    /\ mcpRequest[r].stage = "streaming"
    /\ Stage(r, "cancelled")
    /\ session' = [session EXCEPT ![s] = FinishSessionRequest(@)]
    /\ UNCHANGED <<init, operation, accepting, mcpClosing>>

-----------------------------------------------------------------------------
(* Tools: trackOperation.                                                  *)

StartOperation(r) ==
    /\ operation[r] = "queued"
    /\ operation' = [operation EXCEPT ![r] = IF accepting.operations THEN "running" ELSE "refused"]
    /\ UNCHANGED <<session, init, mcpRequest, accepting, mcpClosing>>

(* The tool is done; the SDK writes its answer before the operation counts *)
(* as over.                                                                *)
OperationSettles(r) ==
    /\ operation[r] = "running"
    /\ operation' = [operation EXCEPT ![r] = "settled"]
    /\ UNCHANGED <<session, init, mcpRequest, accepting, mcpClosing>>

OperationOver(r) ==
    /\ operation[r] = "settled"
    /\ operation' = [operation EXCEPT ![r] = "over"]
    /\ UNCHANGED <<session, init, mcpRequest, accepting, mcpClosing>>

-----------------------------------------------------------------------------
(* Timers.                                                                 *)

(* The initialization timer asks for nothing but the session being there.  *)
InitializationTimerFires(s) ==
    /\ session[s].initTimer
    /\ session' = [session EXCEPT ![s] =
                      IF session[s].known
                      THEN [@ EXCEPT !.known = FALSE, !.open = FALSE, !.initTimer = FALSE]
                      ELSE [@ EXCEPT !.initTimer = FALSE]]
    /\ UNCHANGED <<init, mcpRequest, operation, accepting, mcpClosing>>

IdleTimerFires(s) ==
    /\ session[s].idleTimer
    /\ session' = [session EXCEPT ![s] =
                      IF session[s].known /\ session[s].active = 0
                      THEN [@ EXCEPT !.known = FALSE, !.open = FALSE, !.idleTimer = FALSE]
                      ELSE [@ EXCEPT !.idleTimer = FALSE]]
    /\ UNCHANGED <<init, mcpRequest, operation, accepting, mcpClosing>>

-----------------------------------------------------------------------------
(* close().                                                                *)

EveryActiveRequest ==
    {r \in McpRequests : mcpRequest[r].stage \in {"admitted", "streaming"}}

ActiveHttpRequests ==
    {r \in McpRequests : mcpRequest[r].kind \in Posts /\ mcpRequest[r].stage \in {"admitted", "streaming"}}
ActiveInitializes == {s \in Sessions : init[s] \in {"admitted", "streaming"}}
ActiveOperations == {r \in McpRequests : operation[r] \in {"running", "settled"}}

CloseBothGates ==
    /\ mcpClosing = "no"
    /\ mcpClosing' = "requests"
    /\ accepting' = [requests |-> FALSE, operations |-> FALSE]
    /\ UNCHANGED <<session, init, mcpRequest, operation>>

CloseEndpoint ==
    /\ mcpClosing = "no"
    /\ mcpClosing' = "requests"
    /\ accepting' = [accepting EXCEPT !.requests = FALSE]
    /\ UNCHANGED <<session, init, mcpRequest, operation>>

RequestsDrained ==
    /\ mcpClosing = "requests"
    /\ ActiveHttpRequests = {} /\ ActiveInitializes = {}
    /\ mcpClosing' = "operations"
    /\ accepting' = [accepting EXCEPT !.operations = FALSE]
    /\ UNCHANGED <<session, init, mcpRequest, operation>>

SessionsCloseAtOnce ==
    /\ mcpClosing = "operations"
    /\ mcpClosing' = "closed"
    /\ session' = [s \in Sessions |-> OnClose(session[s])]
    /\ UNCHANGED <<init, mcpRequest, operation, accepting>>

OperationsDrained ==
    /\ mcpClosing = "operations"
    /\ ActiveOperations = {}
    /\ mcpClosing' = "closed"
    /\ session' = [s \in Sessions |-> OnClose(session[s])]
    /\ UNCHANGED <<init, mcpRequest, operation, accepting>>

-----------------------------------------------------------------------------

McpNext ==
    \/ \E s \in Sessions :
           \/ Initialize(s) \/ Initialized(s) \/ InitializeFails(s) \/ InitializeConsumed(s)
           \/ InitializationTimerFires(s) \/ IdleTimerFires(s)
    \/ \E r \in McpRequests :
           \/ HandleRequest(r) \/ DispatchCall(r) \/ DispatchAck(r) \/ DispatchDelete(r)
           \/ DispatchStream(r) \/ BodyConsumed(r) \/ ClientCancels(r)
           \/ StartOperation(r) \/ OperationSettles(r) \/ OperationOver(r)
    \/ CloseEndpoint \/ RequestsDrained \/ OperationsDrained

(* Timers fire, promises settle, tools end and bodies that are complete    *)
(* are read; nothing says that a client comes, acknowledges or leaves.     *)
McpFairness ==
    /\ \A s \in Sessions :
           /\ WF_mcpVars(Initialized(s) \/ InitializeFails(s))
           /\ WF_mcpVars(InitializeConsumed(s))
           /\ WF_mcpVars(InitializationTimerFires(s)) /\ WF_mcpVars(IdleTimerFires(s))
    /\ \A r \in McpRequests :
           /\ WF_mcpVars(DispatchCall(r)) /\ WF_mcpVars(DispatchAck(r))
           /\ WF_mcpVars(DispatchDelete(r)) /\ WF_mcpVars(DispatchStream(r))
           /\ WF_mcpVars(BodyConsumed(r))
           /\ WF_mcpVars(StartOperation(r) \/ OperationSettles(r) \/ OperationOver(r))
    /\ WF_mcpVars(RequestsDrained) /\ WF_mcpVars(OperationsDrained)

McpSpec == McpInit /\ [][McpNext]_mcpVars /\ McpFairness

-----------------------------------------------------------------------------
(* What is checked.                                                        *)

(* A tool call that was admitted before close() is not turned away half    *)
(* way: the endpoint refuses a tool only when nobody waits for its answer, *)
(* because the client or the session is gone.                              *)
AdmittedIsServed ==
    \A r \in McpRequests :
        operation[r] = "refused" =>
            \/ mcpRequest[r].stage = "cancelled"
            \/ mcpRequest[r].stage = "done" /\ ~session[mcpRequest[r].session].open

(* When close() resolves no tool runs any more and no session is left, so  *)
(* the registry can be closed after it.                                    *)
ClosedIsQuiet ==
    mcpClosing = "closed" =>
           /\ \A r \in McpRequests : operation[r] # "running"
           /\ \A s \in Sessions : ~session[s].known /\ ~session[s].initTimer /\ ~session[s].idleTimer

(* A session in use stays: an acknowledged session with a request that its *)
(* client still follows ends only by a delete or by close().               *)
BusySessionIsKept ==
    \A r \in McpRequests :
        LET s == mcpRequest[r].session
        IN  /\ mcpRequest[r].stage \in {"admitted", "streaming"}
            /\ session[s].acknowledged
            /\ mcpClosing # "closed"
            /\ ~\E d \in McpRequests : mcpRequest[d].kind = "delete" /\ mcpRequest[d].session = s
                                       /\ mcpRequest[d].stage = "done"
            => session[s].known

(* A session nobody uses does not stay for ever.                           *)
AbandonedSessionsEnd ==
    \A s \in Sessions : []<>(~session[s].known \/ session[s].active > 0)

(* close() completes, whatever streams of sessions are open.               *)
CloseCompletes == mcpClosing = "requests" ~> mcpClosing = "closed"

(* The endpoint serves what it admitted, keeps the sessions in use, ends   *)
(* the others, and its close() resolves when all is quiet.                 *)
McpIsSound ==
    /\ [](AdmittedIsServed /\ ClosedIsQuiet /\ BusySessionIsKept)
    /\ AbandonedSessionsEnd /\ CloseCompletes
=============================================================================
