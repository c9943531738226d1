------------------------------- MODULE SaveAck -------------------------------
(***************************************************************************)
(* A document session composed with one client: the WebSocket binding      *)
(* (packages/doc-session/src/websocket.ts) and the browser's provider      *)
(* (apps/web/src/lib/yjs/local-document-provider.ts).                      *)
(*                                                                         *)
(* The client sends each edit with an ack id and shows "saved" once every  *)
(* ack has come back.  The binding applies the edit, awaits flush() and    *)
(* acknowledges; if flush() rejects it keeps the ack until the next        *)
(* content-persisted event.  A step of the session and the binding's       *)
(* reaction to it (the events it emits, the flush() calls it settles) are  *)
(* one action: both run before Node.js takes the next I/O completion.      *)
(***************************************************************************)
EXTENDS DocumentSession, Sequences

VARIABLES
    client,     \* the provider's view of each edit
    uplink,     \* acked updates on their way to the daemon, in order
    wire,       \* acks on their way to the client
    socket,     \* the connection is open
    deferred    \* deferredPersistedAcks

clientVars == <<client, uplink>>
saveVars == <<vars, client, uplink, wire, socket, deferred>>

SaveInit ==
    /\ Init
    /\ client = [e \in Edit |-> "none"]
    /\ uplink = <<>> /\ wire = {} /\ socket = TRUE /\ deferred = {}

------------------------------------------------------------------------------
(* The binding. *)

\* The flush() calls of edits that reach outcome r in this step.
Reaching(r) == {e \in Edit : flush[e] # r /\ flush'[e] = r}

\* Mutant: an edit is acknowledged once its flush() has settled either way.
ReactToFailures ==
    LET gone == "doc-deleted" \in emitted' \/ phase' = "failed"
    IN  /\ socket' = (socket /\ ~gone)
        /\ wire' = IF socket' THEN wire \cup Reaching("ok") \cup Reaching("failed")
                   ELSE wire
        /\ UNCHANGED deferred

\* Mutant: acks are sent only on content-persisted.
ReactToPersistedOnly ==
    LET gone == "doc-deleted" \in emitted' \/ phase' = "failed"
        persisted == "content-persisted" \in emitted'
        answered == deferred \cup Reaching("ok")
    IN  /\ socket' = (socket /\ ~gone)
        /\ wire' = IF socket' /\ persisted THEN wire \cup answered ELSE wire
        /\ deferred' = IF persisted \/ gone THEN {} ELSE deferred \cup Reaching("failed")

\* The binding's event handler and flush() continuations.  Events come first:
\* materialize emits them before its promise settles.  Nothing is sent on a
\* socket that is closing, and a failed open closes it.
React ==
    LET gone == "doc-deleted" \in emitted' \/ phase' = "failed"
        persisted == "content-persisted" \in emitted'
        answered == (IF persisted THEN deferred ELSE {}) \cup Reaching("ok")
    IN  /\ socket' = (socket /\ ~gone)
        /\ wire' = IF socket' THEN wire \cup answered ELSE wire
        /\ deferred' = (IF persisted \/ gone THEN {} ELSE deferred)
                         \cup (IF attached THEN Reaching("failed") ELSE {})

SessionStep ==
    /\ \/ OpenStep \/ LoopStep \/ CheckStep \/ StartCheck \/ OpStep
       \/ \E x \in Ext : ExternalWrite(x)
       \/ \E k \in Ops : StartOp(k)
       \/ FlushDirty \/ ResumeAfterCloseFailure
    /\ React
    /\ UNCHANGED clientVars

\* processSyncMessage, for an acked update; updates that come before the
\* session is open wait in pendingMessages.
ReceiveUpdate ==
    /\ socket /\ uplink # <<>> /\ phase = "open"
    /\ uplink' = Tail(uplink)
    /\ IF deleted
       THEN socket' = FALSE /\ UNCHANGED <<vars, wire, deferred>>
       ELSE ApplyEdit(Head(uplink)) /\ React
    /\ UNCHANGED client

\* The connection is lost or closed: cleanup() flushes the session.
Disconnect ==
    /\ Detach
    /\ socket' = FALSE /\ uplink' = <<>> /\ wire' = {} /\ deferred' = {}
    /\ UNCHANGED client

------------------------------------------------------------------------------
(* The provider. *)

\* trackLocalUpdate: sent at once if the socket is open.
TypeEdit(e) ==
    /\ client[e] = "none"
    /\ IF socket
       THEN /\ client' = [client EXCEPT ![e] = "waiting"]
            /\ uplink' = Append(uplink, e)
       ELSE client' = [client EXCEPT ![e] = "unsent"] /\ UNCHANGED uplink
    /\ UNCHANGED <<vars, wire, socket, deferred>>

\* acknowledgeSave.
AckArrives(e) ==
    /\ e \in wire
    /\ wire' = wire \ {e}
    /\ client' = [client EXCEPT ![e] = "saved"]
    /\ UNCHANGED <<vars, uplink, socket, deferred>>

\* The ack has not come within DOCUMENT_SAVE_ACK_TIMEOUT_MS.
AckTimesOut(e) ==
    /\ client[e] = "waiting"
    /\ client' = [client EXCEPT ![e] = "timedOut"]
    /\ UNCHANGED <<vars, uplink, wire, socket, deferred>>

\* publishSaveState.
SaveState ==
    LET pending == {e \in Edit : client[e] \in {"unsent", "waiting", "timedOut"}}
    IN  IF pending = {} THEN "saved"
        ELSE IF \E e \in pending : client[e] = "timedOut" THEN "failed"
        ELSE "saving"

SaveNext ==
    \/ SessionStep \/ ReceiveUpdate \/ Disconnect
    \/ \E e \in Edit : TypeEdit(e) \/ AckArrives(e) \/ AckTimesOut(e)

\* The session's fairness, and a network that delivers while it is connected.
SaveFairness ==
    /\ WF_saveVars(OpenStep /\ SessionStep) /\ WF_saveVars(LoopStep /\ SessionStep)
    /\ WF_saveVars(CheckStep /\ SessionStep) /\ WF_saveVars(OpStep /\ SessionStep)
    /\ WF_saveVars(StartCheck /\ SessionStep)
    /\ WF_saveVars(ReceiveUpdate) /\ \A e \in Edit : WF_saveVars(AckArrives(e))

SaveSpec == SaveInit /\ [][SaveNext]_saveVars /\ SaveFairness

------------------------------------------------------------------------------
(* Properties. *)

\* The client and the binding hold values of their types.
SaveTypeOK ==
    /\ TypeOK
    /\ client \in [Edit -> {"none", "unsent", "waiting", "timedOut", "saved"}]
    /\ uplink \in Seq(Edit) /\ wire \in SUBSET Edit /\ socket \in BOOLEAN
    /\ deferred \in SUBSET Edit

\* "Saved" is never shown for an edit it cannot vouch for: an acknowledged edit
\* has been in the file, or the file's own content or its removal replaced it.
AckedIsAccountedFor ==
    \A e \in Edit : e \in wire \/ client[e] = "saved" => e \in durable \cup discarded

\* While the file system works, the indicator returns to "saved" unless the
\* connection closes: every edit that was sent is acknowledged.
EveryEditIsAcked ==
    SaveState # "saved" ~>
      SaveState = "saved" \/ ~socket \/ used.write + used.snap > 0
==============================================================================
