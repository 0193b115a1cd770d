------------------------------- MODULE MCEscrow -------------------------------
(***************************************************************************)
(* Instances of the escrow contract for TLC.  The platform roles start at   *)
(* named addresses; the clients and developers, the deadlines offered, and  *)
(* the time up to which anyone chooses to act are bounded.                  *)
(***************************************************************************)
EXTENDS EscrowRefinement, EscrowAccounts, TLC

CONSTANTS
    Owner, Arbiter, FeeRecipient,   \* the roles at deployment
    Clients, Developers,            \* who deposits, and for whom
    MaxDeadline,                    \* latest delivery deadline offered
    Horizon,                        \* latest time of a discretionary call
    Handovers                       \* the addresses roles are handed to

ASSUME /\ {Owner, Arbiter, FeeRecipient} \cup Clients \cup Developers \cup Handovers
             \subseteq Addr
       /\ Horizon \in Nat /\ MaxDeadline \in Nat

MCInit ==
    /\ Init
    /\ owner = Owner /\ arbiter = Arbiter /\ feeRecipient = FeeRecipient

(* escrow ids are interchangeable *)
IdSymmetry == Permutations(Ids)

OfferedTerms ==
    \A e \in Ids : ~Exists(e) =>
        /\ escrow'[e].client \in Clients \cup {NoAddr}
        /\ escrow'[e].developer \in Developers \cup {NoAddr}
        /\ escrow'[e].deliveryDeadline <= MaxDeadline

(* Governance frozen: one bounty, all its windows *)
LifecycleNext ==
    \/ now <= Horizon /\ (\E sender \in Addr, e \in Ids : PartyCall(sender, e)) /\ OfferedTerms
    \/ \E e \in Ids : PermissionlessExit(e)
    \/ \E recipient \in Addr : Claim(recipient)
    \/ Tick

(* Roles handed over and deposits paused at every point of a bounty's life *)
HandoverNext ==
    \/ LifecycleNext
    \/ /\ Governance
       /\ {pendingOwner', pendingArbiter', pendingFeeRecipient'} \subseteq Handovers \cup {NoAddr}

HandoverSpec == MCInit /\ [][HandoverNext]_vars

(* Somebody calls an exit that stays open, somebody pushes a credit that      *)
(* stays claimable, and block timestamps advance.                             *)
Fairness ==
    /\ WF_vars(Tick)
    /\ \A e \in Ids : WF_vars(PermissionlessExit(e))
    /\ \A a \in Addr : WF_vars(Claim(a))

LiveHandoverSpec == HandoverSpec /\ Fairness

(* Several bounties whose parties overlap with each other and with the fee    *)
(* recipient, before and after the fee recipient is handed over               *)
AccountingNext ==
    \/ LifecycleNext
    \/ /\ \E sender \in Addr, candidate \in Handovers :
             ProposeFeeRecipient(sender, candidate) \/ AcceptFeeRecipient(sender)
       /\ UNCHANGED <<now, escrowVars>>

AccountingSpec == MCInit /\ [][AccountingNext]_vars

-----------------------------------------------------------------------------

(* Liveness: every deposit is eventually resolved, even if the client, the    *)
(* developer and the arbiter all fall silent at any point.                    *)
EventuallyResolved ==
    \A e \in Ids : InPhase(e, "FUNDED") ~> InPhase(e, "RESOLVED")

(* Liveness: every credit to a recipient whose token account accepts it is    *)
(* eventually paid, although others refuse theirs ("A recipient can never     *)
(* block a different recipient's allocation or claim", contract header).      *)
CreditsGetPaid ==
    \A a \in Addr \ Refusing : claimable[a] > 0 ~> claimable[a] = 0

=============================================================================
