---------------------------- MODULE MCAvailability ----------------------------
(***************************************************************************)
(* Instances of Availability for TLC, with the bounds of MCEscrow and       *)
(* governance frozen; nobody claims, as a claim changes no escrow.          *)
(***************************************************************************)
EXTENDS Availability, MCEscrow

CONSTANT SettledShare   \* the share settlements are proposed on

AvailabilityInit == MCInit /\ WebInit

Chain ==
    /\ \/ now <= Horizon /\ (\E sender \in Addr, e \in Ids : PartyCall(sender, e))
          /\ OfferedTerms
          /\ \A e \in Ids : settlement'[e].proposer # NoAddr => settlement'[e].clientBps = SettledShare
       \/ \E e \in Ids : PermissionlessExit(e)
       \/ Tick
    /\ UNCHANGED webVars

AvailabilityNext == Chain \/ WebNext

AvailabilitySpec == AvailabilityInit /\ [][AvailabilityNext]_<<vars, webVars>>

(* The worker scans on and runs its jobs, and blocks are mined.                *)
LiveAvailabilitySpec ==
    /\ AvailabilitySpec
    /\ WF_<<vars, webVars>>(Tick /\ UNCHANGED webVars)
    /\ \A e \in Ids : WF_<<vars, webVars>>(Index(e)) /\ WF_<<vars, webVars>>(RunDeadlines(e))

During == [MISSED_DELIVERY |-> {"FUNDED"}, REVIEW_TIMEOUT |-> {"FUNDED"},
           CHALLENGE_ENDED |-> {"INITIAL_RULING"}, FINAL_NOTICE_ENDED |-> {"FINAL_RULING"},
           ARBITER_STALL |-> {"DISPUTED", "CHALLENGED"}]

(* An exit that opens is told of under its kind, unless it is taken first.     *)
OpenExitTold ==
    \A e \in Ids, k \in DOMAIN Exit :
        escrow[e].phase \in During[k] /\ ExitOpen(e, k) ~> told[e][k] # 0 \/ ~ExitOpen(e, k)

=============================================================================
