------------------------------ MODULE RelayRpc ------------------------------
(***************************************************************************)
(* Relay RPC in the tunnel client (packages/tunnel-client/src/index.ts):   *)
(* rpc.request frames that arrive on the control connection, the table of  *)
(* pending calls, the two AbortControllers of a call (deadline, relay) and *)
(* the answer each call is given.                                          *)
(*                                                                         *)
(* A call is a number of 1..MaxCalls.  Its kind is the outcome of parsing  *)
(* the request: "list" is vault.list, "read" and "write" are mcp.tool.call *)
(* of a tool inside and outside MCP_READ_ONLY_TOOLS, "bad" one whose       *)
(* payload parseMcpToolCallRpcRequest refuses, "unknown" any other         *)
(* capability.  The daemon's HTTP server is reached over fetch: once a     *)
(* tool call has been posted, the tool may run before or after the client  *)
(* gave up on it.                                                          *)
(***************************************************************************)
EXTENDS Naturals, FiniteSets

CONSTANTS RpcIds,       \* ids the relay gives to its requests
          MaxCalls,     \* bound: rpc.request frames in a behaviour
          MaxControls,  \* bound: control connections in a behaviour
          PendingLimit  \* RELAY_PENDING_REQUEST_LIMIT

ASSUME RpcBounds ==
    /\ MaxCalls \in Nat /\ MaxControls \in Nat \ {0}
    /\ PendingLimit \in Nat \ {0}

VARIABLES
    rpcControl,   \* the control connection: its number and whether it is open
    calls,        \* what each call's handler knows
    pendingRpc,   \* pendingRelayRpcRequests: id -> call, 0 for none
    answers,      \* the rpc.response frame each call was given
    daemonRan     \* calls whose tool the daemon has run

rpcVars == <<rpcControl, calls, pendingRpc, answers, daemonRan>>

RpcCalls == 1..MaxCalls
NoRpcCall == 0

RpcKinds == {"list", "read", "write", "bad", "unknown"}

Made == {n \in RpcCalls : calls[n].phase # "none"}
Unsettled(n) == calls[n].phase \in {"fetching", "connecting", "calling"}
Aborted(n) == calls[n].deadline \/ calls[n].cancelled

NewCall(id, kind, phase) ==
    [id |-> id, kind |-> kind, control |-> rpcControl.number, phase |-> phase,
     deadline |-> FALSE, cancelled |-> FALSE, dispatched |-> FALSE, posted |-> FALSE]

RelayRpcInit ==
    /\ rpcControl = [number |-> 1, open |-> TRUE]
    /\ calls = [n \in RpcCalls |-> [NewCall("none", "none", "none") EXCEPT !.control = 0]]
    /\ pendingRpc = [id \in RpcIds |-> NoRpcCall]
    /\ answers = [n \in RpcCalls |-> "none"]
    /\ daemonRan = {}

\* relayRpcError and the ok frames: what a call is answered with.
RpcAnswer(n, code) == answers' = [answers EXCEPT ![n] = code]

\* A request whose id is in flight, or that finds the table full, is refused
\* without touching the table.
Backpressure(id) ==
    \/ pendingRpc[id] # NoRpcCall
    \/ Cardinality({i \in RpcIds : pendingRpc[i] # NoRpcCall}) >= PendingLimit

\* parseMcpToolCallRpcRequest refuses a payload before anything is sent.
ParsesToolCall(kind) == kind \in {"read", "write"}

\* handleRelayRpcRequest: where the handler of each capability first waits.
FirstWait(kind) ==
    IF kind = "list" THEN "fetching"
    ELSE IF ParsesToolCall(kind) THEN "connecting" ELSE "done"

\* handleRelayFrame of an rpc.request.  A request that is answered without
\* waiting leaves the table as it found it.
RpcRequest(id, kind) ==
    LET n == Cardinality(Made) + 1
        refused == Backpressure(id)
        phase == IF refused THEN "done" ELSE FirstWait(kind)
    IN  /\ rpcControl.open
        /\ n \in RpcCalls
        /\ calls' = [calls EXCEPT ![n] = NewCall(id, kind, phase)]
        /\ pendingRpc' = IF phase = "done" THEN pendingRpc
                         ELSE [pendingRpc EXCEPT ![id] = n]
        /\ \/ refused /\ RpcAnswer(n, "backpressure")
           \/ ~refused /\ kind = "unknown" /\ RpcAnswer(n, "unknown-capability")
           \/ ~refused /\ kind = "bad" /\ RpcAnswer(n, "bad-message")
           \/ phase # "done" /\ UNCHANGED answers
        /\ UNCHANGED <<rpcControl, daemonRan>>

\* handleRelayFrame of a cancel frame: abort() of the controller in the table.
RpcCancel(id) ==
    /\ rpcControl.open
    /\ pendingRpc[id] # NoRpcCall
    /\ calls' = [calls EXCEPT ![pendingRpc[id]].cancelled = TRUE]
    /\ UNCHANGED <<rpcControl, pendingRpc, answers, daemonRan>>

\* DeadlineFires of a handler that clears its timer once it is connected.
DeadlineUntilConnected(n) ==
    /\ calls[n].phase \in {"fetching", "connecting"} /\ ~calls[n].deadline
    /\ calls' = [calls EXCEPT ![n].deadline = TRUE]
    /\ UNCHANGED <<rpcControl, pendingRpc, answers, daemonRan>>

\* The deadline timer of an unsettled call.
DeadlineFires(n) ==
    /\ Unsettled(n) /\ ~calls[n].deadline
    /\ calls' = [calls EXCEPT ![n].deadline = TRUE]
    /\ UNCHANGED <<rpcControl, pendingRpc, answers, daemonRan>>

\* ForgetCall without the comparison with this call's controller.
ForgetAnyCall(n) == pendingRpc' = [pendingRpc EXCEPT ![calls[n].id] = NoRpcCall]

\* The finally of handleRelayFrame: only this call's own entry is removed.
ForgetCall(n) ==
    pendingRpc' = IF pendingRpc[calls[n].id] = n
                  THEN [pendingRpc EXCEPT ![calls[n].id] = NoRpcCall]
                  ELSE pendingRpc

\* A handler returns a frame: it is sent and the entry is forgotten.
Settle(n, code) ==
    /\ calls' = [calls EXCEPT ![n].phase = "done"]
    /\ RpcAnswer(n, code)
    /\ ForgetCall(n)
    /\ UNCHANGED <<rpcControl, daemonRan>>

\* The catch of handleVaultListRpc.
VaultListError(n) ==
    IF calls[n].deadline THEN "deadline-exceeded"
    ELSE IF calls[n].cancelled THEN "cancelled" ELSE "internal"

\* VaultListError in the place of the catch of handleMcpToolCallRpc: a
\* dispatched mutation is not told apart.
ForgetsDispatch(n) == VaultListError(n)

\* The catch of handleMcpToolCallRpc.
ToolCallError(n) ==
    IF Aborted(n) /\ calls[n].dispatched /\ calls[n].kind = "write"
    THEN "indeterminate"
    ELSE VaultListError(n)

\* fetch of /api/vaults: it answers unless it was aborted, and it may fail.
VaultListSettles(n) ==
    /\ calls[n].phase = "fetching"
    /\ \/ ~Aborted(n) /\ Settle(n, "ok")
       \/ Settle(n, VaultListError(n))

\* client.connect succeeds, also when the call was aborted while the last
\* message of the handshake was under way; callTool then throws at once.
ToolConnected(n) ==
    /\ calls[n].phase = "connecting"
    /\ calls' = [calls EXCEPT ![n].phase = "calling", ![n].dispatched = TRUE,
                              ![n].posted = ~Aborted(n)]
    /\ UNCHANGED <<rpcControl, pendingRpc, answers, daemonRan>>

\* client.connect fails, by itself or because the call was aborted.
ToolConnectFails(n) ==
    /\ calls[n].phase = "connecting"
    /\ Settle(n, ToolCallError(n))

\* The daemon runs a tool that was posted to it, whatever became of the call.
DaemonRunsTool(n) ==
    /\ calls[n].posted /\ n \notin daemonRan
    /\ daemonRan' = daemonRan \cup {n}
    /\ UNCHANGED <<rpcControl, calls, pendingRpc, answers>>

\* A result of the tool, by size and isError: an oversized result of a
\* mutation is replaced by a note that it completed, or was rejected.
ToolResult(kind, oversized, isError) ==
    IF ~oversized THEN IF isError THEN "ok-is-error" ELSE "ok"
    ELSE IF kind = "write"
         THEN IF isError THEN "ok-error-omitted" ELSE "ok-result-omitted"
         ELSE "payload-too-large"

\* callTool returns: only for a tool that ran and a call that is not aborted.
ToolReturns(n) ==
    /\ calls[n].phase = "calling" /\ ~Aborted(n)
    /\ n \in daemonRan
    /\ \E oversized, isError \in BOOLEAN :
           Settle(n, ToolResult(calls[n].kind, oversized, isError))

\* callTool throws: the call was aborted, or the daemon could not be reached.
ToolCallFails(n) ==
    /\ calls[n].phase = "calling"
    /\ Settle(n, ToolCallError(n))

\* The close handler of the control socket: every pending call is aborted and
\* the table is emptied, abortPendingRelayRpcRequests.
RpcControlCloses ==
    /\ rpcControl.open
    /\ rpcControl' = [rpcControl EXCEPT !.open = FALSE]
    /\ calls' = [n \in RpcCalls |->
                    IF \E id \in RpcIds : pendingRpc[id] = n
                    THEN [calls[n] EXCEPT !.cancelled = TRUE] ELSE calls[n]]
    /\ pendingRpc' = [id \in RpcIds |-> NoRpcCall]
    /\ UNCHANGED <<answers, daemonRan>>

RpcControlReopens ==
    /\ ~rpcControl.open /\ rpcControl.number < MaxControls
    /\ rpcControl' = [number |-> rpcControl.number + 1, open |-> TRUE]
    /\ UNCHANGED <<calls, pendingRpc, answers, daemonRan>>

RelayRpcNext ==
    \/ \E id \in RpcIds, kind \in RpcKinds : RpcRequest(id, kind)
    \/ \E id \in RpcIds : RpcCancel(id)
    \/ \E n \in RpcCalls : DeadlineFires(n)
    \/ \E n \in RpcCalls : VaultListSettles(n)
    \/ \E n \in RpcCalls : ToolConnected(n)
    \/ \E n \in RpcCalls : ToolConnectFails(n)
    \/ \E n \in RpcCalls : DaemonRunsTool(n)
    \/ \E n \in RpcCalls : ToolReturns(n)
    \/ \E n \in RpcCalls : ToolCallFails(n)
    \/ RpcControlCloses
    \/ RpcControlReopens

\* The event loop fires every timer and settles every aborted fetch.  Nothing
\* is assumed of the daemon.
RpcSettles(n) ==
    Aborted(n) /\ (VaultListSettles(n) \/ ToolConnectFails(n) \/ ToolCallFails(n))

RelayRpcFairness ==
    \A n \in RpcCalls : WF_rpcVars(DeadlineFires(n)) /\ WF_rpcVars(RpcSettles(n))

RelayRpcSpec == RelayRpcInit /\ [][RelayRpcNext]_rpcVars /\ RelayRpcFairness

-----------------------------------------------------------------------------

\* A relay that is told cancelled, deadline-exceeded, backpressure or
\* bad-message may repeat the call: the daemon has not run that mutation and
\* never will (RELAY_ERROR_CODES.INDETERMINATE exists for the other case).
\* "internal" makes no such promise: a connection reset after the tool ran
\* is answered with it.
RetryIsSafe ==
    \A n \in RpcCalls :
        /\ calls[n].kind = "write"
        /\ answers[n] \in {"cancelled", "deadline-exceeded", "backpressure", "bad-message"}
        => ~calls[n].posted /\ n \notin daemonRan

\* A call that runs for the open control connection is the one a cancel frame
\* with its id reaches, however late an older call with that id settles.
RpcCancelReaches ==
    \A n \in RpcCalls :
        Unsettled(n) /\ rpcControl.open /\ calls[n].control = rpcControl.number
        => pendingRpc[calls[n].id] = n

\* What the relay may rely on while it repeats and cancels calls.
CallsAreSafe == RetryIsSafe /\ RpcCancelReaches

\* Every call is answered in the end, whatever the daemon does: the deadline
\* timer of handleVaultListRpc and handleMcpToolCallRpc ends it.
EveryRpcIsAnswered == \A n \in RpcCalls : Unsettled(n) ~> answers[n] # "none"
=============================================================================
