---------------------------- MODULE MessagePipe ----------------------------
(***************************************************************************)
(* What a multiplexed stream promises for one direction: whole messages,   *)
(* in order, none twice, none invented; and delivery of all of them for as *)
(* long as the pipe is up.  A pipe that goes down never comes up again.    *)
(***************************************************************************)
EXTENDS Naturals, Sequences

VARIABLES sent,      \* messages written, in order
          received,  \* messages delivered, in order
          up         \* the pipe is not cut

pipeVars == <<sent, received, up>>

PipeInit == sent = <<>> /\ received = <<>> /\ up = TRUE

\* What is written to a pipe that is down is never owed.
Write == /\ Len(sent') = Len(sent) + 1
         /\ SubSeq(sent', 1, Len(sent)) = sent
         /\ UNCHANGED <<received, up>>

\* Several messages may arrive at once, the last ones as the pipe goes down.
Arrive == /\ \E n \in Len(received) + 1 .. Len(sent) : received' = SubSeq(sent, 1, n)
          /\ UNCHANGED sent

Deliver == Arrive /\ (up' => up)

Cut == up /\ ~up' /\ UNCHANGED <<sent, received>>

PipeNext == Write \/ Deliver \/ Cut

PipeSafety == PipeInit /\ [][PipeNext]_pipeVars

PipeSpec == PipeSafety /\ WF_received(up /\ Arrive)
============================================================================
