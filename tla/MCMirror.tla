------------------------------- MODULE MCMirror -------------------------------
(***************************************************************************)
(* Instances of EscrowMirror for TLC, with the bounds of MCEscrow.          *)
(***************************************************************************)
EXTENDS EscrowMirror, MCEscrow

BoundedMirrorInit == MirrorInit /\ MCInit

(* governance frozen *)
BoundedMirrorNext ==
    \/ /\ now <= Horizon
       /\ \E sender \in Addr, e \in Ids : MirroredPartyCall(sender, e)
       /\ OfferedTerms
    \/ \E e \in Ids : MirroredExit(e)
    \/ \E recipient \in Addr : MirroredClaim(recipient)
    \/ Tick /\ UNCHANGED mirrorVars

BoundedMirrorSpec == BoundedMirrorInit /\ [][BoundedMirrorNext]_<<vars, mirrorVars>>

=============================================================================
