------------------------------ MODULE EscrowRoles ------------------------------
(***************************************************************************)
(* The administrative half of BloodyRoarEscrow.sol: the owner, the platform *)
(* arbiter and the fee recipient, each handed over in two steps, and the    *)
(* pause switch.  Propose and accept are separate transactions, so other    *)
(* handovers may complete between them; both check the candidate against    *)
(* the roles in force at that moment (_requireProspectiveRole).             *)
(***************************************************************************)

CONSTANTS
    Addr,       \* the addresses that send transactions or receive funds
    NoAddr      \* address(0)

ASSUME AddrAssumption == NoAddr \notin Addr

VARIABLES
    owner, pendingOwner,                  \* Ownable2Step
    arbiter, pendingArbiter,
    feeRecipient, pendingFeeRecipient,
    paused                                \* Pausable

roleVars == <<owner, pendingOwner, arbiter, pendingArbiter,
              feeRecipient, pendingFeeRecipient, paused>>

RolesTypeOK ==
    /\ owner \in Addr /\ arbiter \in Addr /\ feeRecipient \in Addr
    /\ pendingOwner \in Addr \cup {NoAddr}
    /\ pendingArbiter \in Addr \cup {NoAddr}
    /\ pendingFeeRecipient \in Addr \cup {NoAddr}
    /\ paused \in BOOLEAN

-----------------------------------------------------------------------------

(* constructor: three non-zero, pairwise distinct addresses *)
RolesInit ==
    /\ owner \in Addr
    /\ arbiter \in Addr \ {owner}
    /\ feeRecipient \in Addr \ {owner, arbiter}
    /\ pendingOwner = NoAddr
    /\ pendingArbiter = NoAddr
    /\ pendingFeeRecipient = NoAddr
    /\ paused = FALSE

(* _requireProspectiveRole *)
ProspectiveRole(candidate) == candidate \in Addr \ {owner, arbiter, feeRecipient}

TransferOwnership(sender, newOwner) ==
    /\ sender = owner
    /\ ProspectiveRole(newOwner)
    /\ pendingOwner' = newOwner
    /\ UNCHANGED <<owner, arbiter, pendingArbiter, feeRecipient, pendingFeeRecipient, paused>>

AcceptOwnership(sender) ==
    /\ ProspectiveRole(pendingOwner)
    /\ sender = pendingOwner
    /\ owner' = sender
    /\ pendingOwner' = NoAddr
    /\ UNCHANGED <<arbiter, pendingArbiter, feeRecipient, pendingFeeRecipient, paused>>

ProposeArbiter(sender, newArbiter) ==
    /\ sender = owner
    /\ ProspectiveRole(newArbiter)
    /\ pendingArbiter' = newArbiter
    /\ UNCHANGED <<owner, pendingOwner, arbiter, feeRecipient, pendingFeeRecipient, paused>>

(* Mutant: the candidate is not checked again at acceptance *)
AcceptArbiterUnchecked(sender) ==
    /\ sender = pendingArbiter
    /\ arbiter' = sender
    /\ pendingArbiter' = NoAddr
    /\ UNCHANGED <<owner, pendingOwner, feeRecipient, pendingFeeRecipient, paused>>

AcceptArbiter(sender) ==
    /\ sender = pendingArbiter
    /\ ProspectiveRole(sender)
    /\ arbiter' = sender
    /\ pendingArbiter' = NoAddr
    /\ UNCHANGED <<owner, pendingOwner, feeRecipient, pendingFeeRecipient, paused>>

ProposeFeeRecipient(sender, newRecipient) ==
    /\ sender = owner
    /\ ProspectiveRole(newRecipient)
    /\ pendingFeeRecipient' = newRecipient
    /\ UNCHANGED <<owner, pendingOwner, arbiter, pendingArbiter, feeRecipient, paused>>

AcceptFeeRecipient(sender) ==
    /\ sender = pendingFeeRecipient
    /\ ProspectiveRole(sender)
    /\ feeRecipient' = sender
    /\ pendingFeeRecipient' = NoAddr
    /\ UNCHANGED <<owner, pendingOwner, arbiter, pendingArbiter, paused>>

Pause(sender) ==
    /\ sender = owner
    /\ ~paused
    /\ paused' = TRUE
    /\ UNCHANGED <<owner, pendingOwner, arbiter, pendingArbiter, feeRecipient, pendingFeeRecipient>>

Unpause(sender) ==
    /\ sender = owner
    /\ paused
    /\ paused' = FALSE
    /\ UNCHANGED <<owner, pendingOwner, arbiter, pendingArbiter, feeRecipient, pendingFeeRecipient>>

RolesNext ==
    \E sender \in Addr :
        \/ \E candidate \in Addr : TransferOwnership(sender, candidate)
        \/ \E candidate \in Addr : ProposeArbiter(sender, candidate)
        \/ \E candidate \in Addr : ProposeFeeRecipient(sender, candidate)
        \/ AcceptOwnership(sender)
        \/ AcceptArbiter(sender)
        \/ AcceptFeeRecipient(sender)
        \/ Pause(sender)
        \/ Unpause(sender)

RolesSpec == RolesInit /\ [][RolesNext]_roleVars

-----------------------------------------------------------------------------

(* No address ever holds two of the three platform roles, whatever order the *)
(* pending handovers of the different roles are proposed and accepted in     *)
(* (_requireProspectiveRole is evaluated again at acceptance).               *)
RolesDistinct ==
    /\ owner # arbiter
    /\ owner # feeRecipient
    /\ arbiter # feeRecipient

=============================================================================
