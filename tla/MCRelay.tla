------------------------------ MODULE MCRelay -------------------------------
(* Small instances of what the daemon keeps with the relay: the control      *)
(* connection, document streams, calls and HTTP requests.  They share no     *)
(* state, so a behaviour belongs to one of them, its scope, and the others   *)
(* stay in one initial state.                                                *)
EXTENDS TunnelControl, DocumentStream, RelayRpc, HttpProxy

VARIABLE scope

RelayInit ==
    /\ scope \in {"control", "stream", "rpc", "http"}
    /\ TunnelControlInit
    /\ StreamInit
    /\ RelayRpcInit
    /\ HttpProxyInit /\ (scope # "http" => httpControl.acks)

RelayNext ==
    /\ UNCHANGED scope
    /\ \/ scope = "control" /\ TunnelControlNext /\ UNCHANGED <<streamVars, rpcVars, httpVars>>
       \/ scope = "stream" /\ StreamNext /\ UNCHANGED <<ctlVars, rpcVars, httpVars>>
       \/ scope = "rpc" /\ RelayRpcNext /\ UNCHANGED <<ctlVars, streamVars, httpVars>>
       \/ scope = "http" /\ HttpProxyNext /\ UNCHANGED <<ctlVars, streamVars, rpcVars>>

(* The fairness of the modules.  A step that is enabled in an initial state  *)
(* is owed only in the scope of its module.                                  *)
RelayFairness ==
    /\ TunnelControlFairness
    /\ WF_streamVars(scope = "stream" /\ ControlFrame) /\ WF_streamVars(RemoteFrame)
    /\ WF_streamVars(loopback = "connecting" /\ (LoopbackOpens \/ LoopbackCloses))
    /\ WF_streamVars(loopback = "closing" /\ LoopbackCloses)
    /\ RelayRpcFairness /\ HttpProxyFairness

RelaySpec ==
    /\ RelayInit
    /\ [][RelayNext]_<<scope, ctlVars, streamVars, rpcVars, httpVars>>
    /\ RelayFairness
=============================================================================
