----------------------------- MODULE MCServing ------------------------------
(* Small instances of the daemon's local services: the acknowledgment of    *)
(* saves, snapshot archives, the daemon's start and shutdown, the MCP       *)
(* endpoint and the change events of a vault.  They share no state, so a    *)
(* behaviour belongs to one of them, its scope, and the others stay in one  *)
(* initial state.  The readers of a tree and its watchers meet only in the  *)
(* entries, so each has a scope.                                            *)
EXTENDS SaveAck, Snapshots, DaemonLifecycle, McpSessions, VaultEvents

VARIABLE scope

SomeMcpRequests == [r \in McpRequests |-> [kind |-> "stream", stage |-> "none",
                                           session |-> CHOOSE s \in Sessions : TRUE]]

ServingInit ==
    /\ scope \in {"save", "snapshots", "lifecycle", "mcp", "reads", "watch"}
    /\ SaveInit /\ (scope # "save" => disk["from"] = {})
    /\ SnapshotsInit /\ (scope # "snapshots" => noteDisk = NoNote)
    /\ LifecycleInit
    /\ scope # "mcp" => mcpRequest = SomeMcpRequests
    /\ McpInit
    /\ EventsInit

ServingNext ==
    /\ UNCHANGED scope
    /\ \/ scope = "save" /\ SaveNext /\ UNCHANGED <<snapVars, lifeVars, mcpVars, eventVars>>
       \/ scope = "snapshots" /\ SnapshotsNext /\ UNCHANGED <<saveVars, lifeVars, mcpVars, eventVars>>
       \/ scope = "lifecycle" /\ LifecycleNext /\ UNCHANGED <<saveVars, snapVars, mcpVars, eventVars>>
       \/ scope = "mcp" /\ McpNext /\ UNCHANGED <<saveVars, snapVars, lifeVars, eventVars>>
       \/ /\ \/ scope = "reads" /\ UNCHANGED watchVars
             \/ scope = "watch" /\ UNCHANGED reader
          /\ EventsNext
          /\ UNCHANGED <<saveVars, snapVars, lifeVars, mcpVars>>

(* The fairness of the modules.  A step that is enabled in an initial state  *)
(* is owed only in the scope of its module.                                  *)
ServingFairness ==
    /\ WF_saveVars(scope = "save" /\ OpenStep /\ SessionStep)
    /\ WF_saveVars(LoopStep /\ SessionStep) /\ WF_saveVars(CheckStep /\ SessionStep)
    /\ WF_saveVars(OpStep /\ SessionStep) /\ WF_saveVars(StartCheck /\ SessionStep)
    /\ WF_saveVars(ReceiveUpdate) /\ \A e \in Edit : WF_saveVars(AckArrives(e))
    /\ SnapshotsFairness /\ McpFairness /\ EventsFairness
    /\ WF_lifeVars(scope = "lifecycle" /\ Started)
    /\ WF_lifeVars(CompleteShutdownRequest)
    /\ WF_lifeVars(TransportsDrained) /\ WF_lifeVars(RegistryCloses)
    /\ \A r \in AppRequests : WF_lifeVars(HttpResponse(r))
    /\ \A s \in Streams : WF_lifeVars(aborted /\ StreamEnds(s))
    /\ \A w \in Sockets : /\ WF_lifeVars(Attached(w)) /\ WF_lifeVars(BindingEnds(w))
                          /\ WF_lifeVars(daemonClosing = "transports" /\ SocketCloses(w))

ServingSpec ==
    /\ ServingInit
    /\ [][ServingNext]_<<scope, saveVars, snapVars, lifeVars, mcpVars, eventVars>>
    /\ ServingFairness
=============================================================================
