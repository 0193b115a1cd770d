--------------------------- MODULE BloodyRoarEscrow ---------------------------
(***************************************************************************)
(* apps/contracts/contracts/BloodyRoarEscrow.sol: custody of the principal  *)
(* of every bounty, from deposit to claim.  One action per external         *)
(* function; a revert is a disabled action.  Time is block.timestamp; any   *)
(* number of transactions may share a timestamp.                            *)
(***************************************************************************)
EXTENDS EscrowRoles, Payout

CONSTANTS
    Ids,        \* escrow ids
    Hashes, NoHash,     \* bytes32 values, and bytes32(0)
    Amounts,    \* principals offered to deposit
    Bps,        \* client shares offered to settlements and rulings
    Refusing,   \* recipients whose USDC transfers revert (token blocklist)
    REVIEW_PERIOD, EVIDENCE_RESPONSE_PERIOD, CHALLENGE_PERIOD,
    FINAL_RULING_NOTICE_PERIOD, ARBITER_STALL_PERIOD,
    MaxTime     \* bound on the clock

ASSUME EscrowAssumption ==
    /\ NoHash \notin Hashes
    /\ Amounts \subseteq Nat \ {0}
    /\ Bps \subseteq Nat
    /\ Refusing \subseteq Addr
    /\ MaxTime \in Nat
    /\ {REVIEW_PERIOD, EVIDENCE_RESPONSE_PERIOD, CHALLENGE_PERIOD,
        FINAL_RULING_NOTICE_PERIOD, ARBITER_STALL_PERIOD} \subseteq Nat \ {0}
    /\ EVIDENCE_RESPONSE_PERIOD < ARBITER_STALL_PERIOD

VARIABLES
    now,            \* block.timestamp
    escrow,         \* _escrows
    settlement,     \* _settlements
    dispute,        \* _disputes
    claimable,      \* claimable
    totalUnresolvedPrincipal, totalClaimable,
    balance,        \* token.balanceOf(this), direct transfers to the contract aside
    paid,           \* USDC the token has moved from the contract to each address
    resolved        \* the EscrowResolved log of each escrow, with its timestamp

recordVars == <<settlement, dispute, resolved>>
moneyVars == <<claimable, totalUnresolvedPrincipal, totalClaimable, balance, paid>>
escrowVars == <<escrow, recordVars, moneyVars>>
vars == <<now, escrowVars, roleVars>>

Phase == {"NONE", "FUNDED", "DISPUTED", "INITIAL_RULING", "CHALLENGED",
          "FINAL_RULING", "RESOLVED"}
ResolutionKind == {"NONE", "RELEASE", "MISSED_DELIVERY_REFUND", "REVIEW_TIMEOUT",
                   "SETTLEMENT", "RULING", "ARBITER_TIMEOUT_SPLIT"}

NoEscrow == [client |-> NoAddr, developer |-> NoAddr, arbiter |-> NoAddr,
             feeRecipient |-> NoAddr, amount |-> 0, depositedAt |-> 0,
             deliveryDeadline |-> 0, termsHash |-> NoHash, deliveryHash |-> NoHash,
             phase |-> "NONE", resolutionKind |-> "NONE"]
NoSettlement == [proposer |-> NoAddr, clientBps |-> 0]
NoDispute == [raisedBy |-> NoAddr, raisedAt |-> 0, raiserEvidenceHash |-> NoHash,
              counterpartyEvidenceHash |-> NoHash,
              initialClientBps |-> 0, initialRulingAt |-> 0, initialDecisionHash |-> NoHash,
              challengedAt |-> 0,
              finalClientBps |-> 0, finalRulingAt |-> 0, finalDecisionHash |-> NoHash]
NotResolved == [clientAmount |-> 0, developerAmount |-> 0, platformFee |-> 0,
                decisionHash |-> NoHash, at |-> 0]

-----------------------------------------------------------------------------

EscrowInit ==
    /\ now = 1
    /\ escrow = [e \in Ids |-> NoEscrow]
    /\ settlement = [e \in Ids |-> NoSettlement]
    /\ dispute = [e \in Ids |-> NoDispute]
    /\ resolved = [e \in Ids |-> NotResolved]
    /\ claimable = [a \in Addr |-> 0]
    /\ totalUnresolvedPrincipal = 0
    /\ totalClaimable = 0
    /\ balance = 0
    /\ paid = [a \in Addr |-> 0]

Init == EscrowInit /\ RolesInit

-----------------------------------------------------------------------------
(* Modifiers and internal functions *)

Exists(e) == escrow[e].client # NoAddr
Parties(e) == {escrow[e].client, escrow[e].developer}
InPhase(e, p) == Exists(e) /\ escrow[e].phase = p

(* _assertSolvent *)
Solvent == balance >= totalUnresolvedPrincipal + totalClaimable

(* Mutants: the credits to one address overwrite each other; the fee goes to   *)
(* today's fee recipient                                                       *)
LastShareOf(a, x, s) ==
    IF a = x.feeRecipient THEN s.platformFee
    ELSE IF a = x.developer THEN s.developerAmount
    ELSE IF a = x.client THEN s.clientAmount ELSE 0

ShareWithCurrentRecipient(a, x, s) ==
    (IF a = x.client THEN s.clientAmount ELSE 0)
    + (IF a = x.developer THEN s.developerAmount ELSE 0)
    + (IF a = feeRecipient THEN s.platformFee ELSE 0)

(* what _resolve credits to address a for escrow record x divided as s; the  *)
(* parties and the fee recipient need not be three different addresses       *)
ShareOf(a, x, s) ==
    (IF a = x.client THEN s.clientAmount ELSE 0)
    + (IF a = x.developer THEN s.developerAmount ELSE 0)
    + (IF a = x.feeRecipient THEN s.platformFee ELSE 0)

(* _resolve; the subtraction is checked arithmetic *)
Resolve(e, clientBps, kind, decisionHash) ==
    LET x == escrow[e]
        s == Shares(x.amount, clientBps)
    IN  /\ x.phase # "RESOLVED"
        /\ totalUnresolvedPrincipal >= x.amount
        /\ escrow' = [escrow EXCEPT ![e] =
              [@ EXCEPT !.phase = "RESOLVED", !.resolutionKind = kind]]
        /\ totalUnresolvedPrincipal' = totalUnresolvedPrincipal - x.amount
        /\ totalClaimable' = totalClaimable + x.amount
        /\ claimable' = [a \in Addr |-> claimable[a] + ShareOf(a, x, s)]
        /\ settlement' = [settlement EXCEPT ![e] = NoSettlement]
        /\ resolved' = [resolved EXCEPT ![e] =
              [clientAmount |-> s.clientAmount, developerAmount |-> s.developerAmount,
               platformFee |-> s.platformFee, decisionHash |-> decisionHash, at |-> now]]
        /\ UNCHANGED <<now, dispute, balance, paid, roleVars>>
        /\ Solvent'

-----------------------------------------------------------------------------
(* Deposit and delivery *)

(* Mutant: an id in use is not refused *)
DepositOverExisting(sender, e, developer, amount, deliveryDeadline, termsHash) ==
    /\ ~paused
    /\ developer # sender
    /\ deliveryDeadline > now
    /\ escrow' = [escrow EXCEPT ![e] =
          [NoEscrow EXCEPT !.client = sender, !.developer = developer, !.amount = amount,
                           !.deliveryDeadline = deliveryDeadline, !.phase = "FUNDED"]]
    /\ balance' = balance + amount
    /\ totalUnresolvedPrincipal' = totalUnresolvedPrincipal + amount
    /\ UNCHANGED <<now, recordVars, claimable, totalClaimable, paid, roleVars>>

(* Mutant: the principal is not added to what the contract owes *)
DepositUncounted(sender, e, developer, amount, deliveryDeadline, termsHash) ==
    /\ ~paused
    /\ ~Exists(e)
    /\ developer # sender
    /\ deliveryDeadline > now
    /\ escrow' = [escrow EXCEPT ![e] =
          [NoEscrow EXCEPT !.client = sender, !.developer = developer, !.amount = amount,
                           !.deliveryDeadline = deliveryDeadline, !.phase = "FUNDED"]]
    /\ balance' = balance + amount
    /\ UNCHANGED <<now, recordVars, totalUnresolvedPrincipal, claimable, totalClaimable,
                   paid, roleVars>>

Deposit(sender, e, developer, amount, deliveryDeadline, termsHash) ==
    /\ ~paused
    /\ ~Exists(e)
    /\ developer # sender
    /\ deliveryDeadline > now
    /\ escrow' = [escrow EXCEPT ![e] =
          [client |-> sender, developer |-> developer, arbiter |-> arbiter,
           feeRecipient |-> feeRecipient, amount |-> amount, depositedAt |-> now,
           deliveryDeadline |-> deliveryDeadline, termsHash |-> termsHash,
           deliveryHash |-> NoHash, phase |-> "FUNDED", resolutionKind |-> "NONE"]]
    /\ balance' = balance + amount
    /\ totalUnresolvedPrincipal' = totalUnresolvedPrincipal + amount
    /\ UNCHANGED <<now, recordVars, claimable, totalClaimable, paid, roleVars>>
    /\ Solvent'

(* Mutant: the deadline itself is too late *)
SubmitWorkBeforeDeadline(sender, e, deliveryHash) ==
    /\ InPhase(e, "FUNDED")
    /\ sender = escrow[e].developer
    /\ now < escrow[e].deliveryDeadline
    /\ escrow' = [escrow EXCEPT ![e].deliveryHash = deliveryHash]
    /\ UNCHANGED <<now, recordVars, moneyVars, roleVars>>

(* a later submission replaces the hash of an earlier one *)
SubmitWork(sender, e, deliveryHash) ==
    /\ InPhase(e, "FUNDED")
    /\ sender = escrow[e].developer
    /\ now <= escrow[e].deliveryDeadline
    /\ escrow' = [escrow EXCEPT ![e].deliveryHash = deliveryHash]
    /\ UNCHANGED <<now, recordVars, moneyVars, roleVars>>

ReleaseFunds(sender, e) ==
    /\ InPhase(e, "FUNDED")
    /\ sender = escrow[e].client
    /\ escrow[e].deliveryHash # NoHash
    /\ Resolve(e, 0, "RELEASE", NoHash)

ClaimMissedDeliveryRefund(e) ==
    /\ InPhase(e, "FUNDED")
    /\ escrow[e].deliveryHash = NoHash
    /\ now > escrow[e].deliveryDeadline
    /\ Resolve(e, MAX_BPS, "MISSED_DELIVERY_REFUND", NoHash)

(* Mutant: an open settlement proposal holds the timeout up *)
ClaimReviewTimeoutUnlessSettling(e) ==
    /\ InPhase(e, "FUNDED")
    /\ settlement[e] = NoSettlement
    /\ escrow[e].deliveryHash # NoHash
    /\ now >= escrow[e].deliveryDeadline + REVIEW_PERIOD
    /\ Resolve(e, 0, "REVIEW_TIMEOUT", NoHash)

ClaimReviewTimeout(e) ==
    /\ InPhase(e, "FUNDED")
    /\ escrow[e].deliveryHash # NoHash
    /\ now >= escrow[e].deliveryDeadline + REVIEW_PERIOD
    /\ Resolve(e, 0, "REVIEW_TIMEOUT", NoHash)

-----------------------------------------------------------------------------
(* Settlement, available in every unresolved phase *)

(* Mutant: the share is not bounded *)
ProposeAnySettlement(sender, e, clientBps) ==
    /\ Exists(e) /\ sender \in Parties(e)
    /\ escrow[e].phase # "RESOLVED"
    /\ settlement[e].proposer = NoAddr
    /\ settlement' = [settlement EXCEPT ![e] = [proposer |-> sender, clientBps |-> clientBps]]
    /\ UNCHANGED <<now, escrow, dispute, resolved, moneyVars, roleVars>>

ProposeSettlement(sender, e, clientBps) ==
    /\ Exists(e) /\ sender \in Parties(e)
    /\ escrow[e].phase # "RESOLVED"
    /\ clientBps <= MAX_BPS
    /\ settlement[e].proposer = NoAddr
    /\ settlement' = [settlement EXCEPT ![e] = [proposer |-> sender, clientBps |-> clientBps]]
    /\ UNCHANGED <<now, escrow, dispute, resolved, moneyVars, roleVars>>

RevokeSettlement(sender, e) ==
    /\ Exists(e)
    /\ escrow[e].phase # "RESOLVED"
    /\ settlement[e].proposer # NoAddr
    /\ sender = settlement[e].proposer
    /\ settlement' = [settlement EXCEPT ![e] = NoSettlement]
    /\ UNCHANGED <<now, escrow, dispute, resolved, moneyVars, roleVars>>

AcceptSettlement(sender, e) ==
    /\ Exists(e)
    /\ escrow[e].phase # "RESOLVED"
    /\ settlement[e].proposer # NoAddr
    /\ sender \in Parties(e)
    /\ sender # settlement[e].proposer
    /\ Resolve(e, settlement[e].clientBps, "SETTLEMENT", NoHash)

-----------------------------------------------------------------------------
(* Dispute *)

RaiseDispute(sender, e, evidenceHash) ==
    /\ Exists(e) /\ sender \in Parties(e)
    /\ escrow[e].phase = "FUNDED"
    /\ escrow' = [escrow EXCEPT ![e].phase = "DISPUTED"]
    /\ dispute' = [dispute EXCEPT ![e] =
          [NoDispute EXCEPT !.raisedBy = sender, !.raisedAt = now,
                            !.raiserEvidenceHash = evidenceHash]]
    /\ UNCHANGED <<now, settlement, resolved, moneyVars, roleVars>>

Counterparty(e) ==
    IF dispute[e].raisedBy = escrow[e].client THEN escrow[e].developer ELSE escrow[e].client

SubmitCounterpartyEvidence(sender, e, evidenceHash) ==
    /\ InPhase(e, "DISPUTED")
    /\ sender = Counterparty(e)
    /\ dispute[e].counterpartyEvidenceHash = NoHash
    /\ now < dispute[e].raisedAt + EVIDENCE_RESPONSE_PERIOD
    /\ dispute' = [dispute EXCEPT ![e].counterpartyEvidenceHash = evidenceHash]
    /\ UNCHANGED <<now, escrow, settlement, resolved, moneyVars, roleVars>>

PostInitialRuling(sender, e, clientBps, decisionHash) ==
    /\ InPhase(e, "DISPUTED")
    /\ sender = escrow[e].arbiter
    /\ clientBps <= MAX_BPS
    /\ now >= dispute[e].raisedAt + EVIDENCE_RESPONSE_PERIOD
    /\ now < dispute[e].raisedAt + ARBITER_STALL_PERIOD
    /\ dispute' = [dispute EXCEPT ![e] =
          [@ EXCEPT !.initialClientBps = clientBps, !.initialRulingAt = now,
                    !.initialDecisionHash = decisionHash]]
    /\ escrow' = [escrow EXCEPT ![e].phase = "INITIAL_RULING"]
    /\ UNCHANGED <<now, settlement, resolved, moneyVars, roleVars>>

(* only a party the initial ruling took principal from may challenge it *)
LostPrincipal(sender, e) ==
    \/ sender = escrow[e].client /\ dispute[e].initialClientBps < MAX_BPS
    \/ sender = escrow[e].developer /\ dispute[e].initialClientBps > 0

ChallengeRuling(sender, e) ==
    /\ InPhase(e, "INITIAL_RULING")
    /\ now < dispute[e].initialRulingAt + CHALLENGE_PERIOD
    /\ LostPrincipal(sender, e)
    /\ dispute' = [dispute EXCEPT ![e].challengedAt = now]
    /\ escrow' = [escrow EXCEPT ![e].phase = "CHALLENGED"]
    /\ UNCHANGED <<now, settlement, resolved, moneyVars, roleVars>>

PostFinalRuling(sender, e, clientBps, decisionHash) ==
    /\ InPhase(e, "CHALLENGED")
    /\ sender = escrow[e].arbiter
    /\ clientBps <= MAX_BPS
    /\ now < dispute[e].challengedAt + ARBITER_STALL_PERIOD
    /\ dispute' = [dispute EXCEPT ![e] =
          [@ EXCEPT !.finalClientBps = clientBps, !.finalRulingAt = now,
                    !.finalDecisionHash = decisionHash]]
    /\ escrow' = [escrow EXCEPT ![e].phase = "FINAL_RULING"]
    /\ UNCHANGED <<now, settlement, resolved, moneyVars, roleVars>>

(* Mutant: the challenge window is not waited for *)
FinalizeInitialRulingAtOnce(e) ==
    /\ InPhase(e, "INITIAL_RULING")
    /\ Resolve(e, dispute[e].initialClientBps, "RULING", dispute[e].initialDecisionHash)

(* finalizeRuling: an unchallenged initial ruling, or a final one *)
FinalizeInitialRuling(e) ==
    /\ InPhase(e, "INITIAL_RULING")
    /\ now >= dispute[e].initialRulingAt + CHALLENGE_PERIOD
    /\ Resolve(e, dispute[e].initialClientBps, "RULING", dispute[e].initialDecisionHash)

FinalizeFinalRuling(e) ==
    /\ InPhase(e, "FINAL_RULING")
    /\ now >= dispute[e].finalRulingAt + FINAL_RULING_NOTICE_PERIOD
    /\ Resolve(e, dispute[e].finalClientBps, "RULING", dispute[e].finalDecisionHash)

(* finalizeArbiterTimeoutSplit: the arbiter let a deadline of the dispute or *)
(* of the challenge pass                                                     *)
StallDeadline(e) ==
    (IF escrow[e].phase = "DISPUTED" THEN dispute[e].raisedAt ELSE dispute[e].challengedAt)
    + ARBITER_STALL_PERIOD

(* Mutant: an arbiter silent after a challenge is forgotten *)
FinalizeUnruledSplit(e) ==
    /\ Exists(e)
    /\ escrow[e].phase = "DISPUTED"
    /\ now >= StallDeadline(e)
    /\ Resolve(e, MAX_BPS \div 2, "ARBITER_TIMEOUT_SPLIT", NoHash)

FinalizeArbiterTimeoutSplit(e) ==
    /\ Exists(e)
    /\ escrow[e].phase \in {"DISPUTED", "CHALLENGED"}
    /\ now >= StallDeadline(e)
    /\ Resolve(e, MAX_BPS \div 2, "ARBITER_TIMEOUT_SPLIT", NoHash)

-----------------------------------------------------------------------------
(* Claim: anyone may push a recipient's whole credit to the recipient *)

(* Mutant: credits are pushed only when every creditor's token account accepts *)
ClaimAllOrNothing(recipient) ==
    /\ \A a \in Addr : claimable[a] # 0 => a \notin Refusing
    /\ claimable[recipient] # 0
    /\ claimable' = [claimable EXCEPT ![recipient] = 0]
    /\ totalClaimable' = totalClaimable - claimable[recipient]
    /\ balance' = balance - claimable[recipient]
    /\ paid' = [paid EXCEPT ![recipient] = @ + claimable[recipient]]
    /\ UNCHANGED <<now, escrow, recordVars, totalUnresolvedPrincipal, roleVars>>

Claim(recipient) ==
    /\ recipient \notin Refusing
    /\ claimable[recipient] # 0
    /\ totalClaimable >= claimable[recipient]
    /\ claimable' = [claimable EXCEPT ![recipient] = 0]
    /\ totalClaimable' = totalClaimable - claimable[recipient]
    /\ balance' = balance - claimable[recipient]
    /\ paid' = [paid EXCEPT ![recipient] = @ + claimable[recipient]]
    /\ UNCHANGED <<now, escrow, recordVars, totalUnresolvedPrincipal, roleVars>>
    /\ Solvent'

Tick ==
    /\ now < MaxTime
    /\ now' = now + 1
    /\ UNCHANGED <<escrowVars, roleVars>>

-----------------------------------------------------------------------------

(* Calls that need a party or the arbiter to act *)
PartyCall(sender, e) ==
    \/ \E developer \in Addr, amount \in Amounts, deadline \in 1..MaxTime, h \in Hashes :
            Deposit(sender, e, developer, amount, deadline, h)
    \/ \E h \in Hashes : SubmitWork(sender, e, h)
    \/ ReleaseFunds(sender, e)
    \/ \E bps \in Bps : ProposeSettlement(sender, e, bps)
    \/ RevokeSettlement(sender, e)
    \/ AcceptSettlement(sender, e)
    \/ \E h \in Hashes : RaiseDispute(sender, e, h)
    \/ \E h \in Hashes : SubmitCounterpartyEvidence(sender, e, h)
    \/ \E bps \in Bps, h \in Hashes : PostInitialRuling(sender, e, bps, h)
    \/ ChallengeRuling(sender, e)
    \/ \E bps \in Bps, h \in Hashes : PostFinalRuling(sender, e, bps, h)

(* Calls open to any address, so no one can withhold them *)
PermissionlessExit(e) ==
    \/ ClaimMissedDeliveryRefund(e)
    \/ ClaimReviewTimeout(e)
    \/ FinalizeInitialRuling(e)
    \/ FinalizeFinalRuling(e)
    \/ FinalizeArbiterTimeoutSplit(e)

EscrowNext ==
    \/ \E sender \in Addr, e \in Ids : PartyCall(sender, e)
    \/ \E e \in Ids : PermissionlessExit(e)
    \/ \E recipient \in Addr : Claim(recipient)
    \/ Tick

(* a handover or the pause switch *)
Governance == RolesNext /\ UNCHANGED <<now, escrowVars>>

Next == EscrowNext \/ Governance

Spec == Init /\ [][Next]_vars

-----------------------------------------------------------------------------

EscrowType == [client : Addr \cup {NoAddr}, developer : Addr \cup {NoAddr},
               arbiter : Addr \cup {NoAddr}, feeRecipient : Addr \cup {NoAddr},
               amount : Nat, depositedAt : Nat, deliveryDeadline : Nat,
               termsHash : Hashes \cup {NoHash}, deliveryHash : Hashes \cup {NoHash},
               phase : Phase, resolutionKind : ResolutionKind]
SettlementType == [proposer : Addr \cup {NoAddr}, clientBps : 0..MAX_BPS]
DisputeType == [raisedBy : Addr \cup {NoAddr}, raisedAt : Nat,
                raiserEvidenceHash : Hashes \cup {NoHash},
                counterpartyEvidenceHash : Hashes \cup {NoHash},
                initialClientBps : 0..MAX_BPS, initialRulingAt : Nat,
                initialDecisionHash : Hashes \cup {NoHash}, challengedAt : Nat,
                finalClientBps : 0..MAX_BPS, finalRulingAt : Nat,
                finalDecisionHash : Hashes \cup {NoHash}]
ResolvedType == [clientAmount : Nat, developerAmount : Nat, platformFee : Nat,
                 decisionHash : Hashes \cup {NoHash}, at : Nat]

TypeOK ==
    /\ now \in Nat
    /\ escrow \in [Ids -> EscrowType]
    /\ settlement \in [Ids -> SettlementType]
    /\ dispute \in [Ids -> DisputeType]
    /\ resolved \in [Ids -> ResolvedType]
    /\ claimable \in [Addr -> Nat]
    /\ paid \in [Addr -> Nat]
    /\ totalUnresolvedPrincipal \in Nat
    /\ totalClaimable \in Nat
    /\ balance \in Nat
    /\ RolesTypeOK

-----------------------------------------------------------------------------
(* Safety *)

(* The contract's USDC is exactly what it owes: unresolved principals plus    *)
(* credits not yet claimed.  No order of deposits, resolutions and claims     *)
(* opens a gap, so _assertSolvent reverts no legitimate call (isSolvent).     *)
FullyBacked == balance = totalUnresolvedPrincipal + totalClaimable

(* What was allocated at resolution is the principal, no more and no less,    *)
(* whatever the client share and the rounding, and the platform fee is taken  *)
(* from the developer's gross share alone (_resolve).                         *)
PrincipalFullyAllocated ==
    \A e \in Ids : escrow[e].phase = "RESOLVED" =>
        LET r == resolved[e] IN
        /\ r.clientAmount + r.developerAmount + r.platformFee = escrow[e].amount
        /\ r.platformFee = MulBps(r.developerAmount + r.platformFee, PLATFORM_FEE_BPS)

(* How each kind of resolution may come about.  The record left by the        *)
(* dispute must show that every window the kind depends on had run its course *)
(* and that the decision paid out is the one in force: the initial ruling     *)
(* only if nobody challenged it in time, the final ruling only with its       *)
(* notice period over, the split only if the arbiter was silent.              *)
ByRelease(e) ==
    /\ escrow[e].deliveryHash # NoHash
    /\ dispute[e] = NoDispute
    /\ resolved[e].clientAmount = 0

ByMissedDelivery(e) ==
    /\ escrow[e].deliveryHash = NoHash
    /\ dispute[e] = NoDispute
    /\ resolved[e].at > escrow[e].deliveryDeadline
    /\ resolved[e].clientAmount = escrow[e].amount
    /\ resolved[e].platformFee = 0

ByReviewTimeout(e) ==
    /\ ByRelease(e)
    /\ resolved[e].at >= escrow[e].deliveryDeadline + REVIEW_PERIOD

ByUnchallengedRuling(e) ==
    LET d == dispute[e] IN
    /\ d.raisedAt >= escrow[e].depositedAt
    /\ d.initialRulingAt >= d.raisedAt + EVIDENCE_RESPONSE_PERIOD
    /\ d.initialRulingAt < d.raisedAt + ARBITER_STALL_PERIOD
    /\ d.challengedAt = 0
    /\ resolved[e].at >= d.initialRulingAt + CHALLENGE_PERIOD
    /\ resolved[e].decisionHash = d.initialDecisionHash
    /\ resolved[e].clientAmount = MulBps(escrow[e].amount, d.initialClientBps)

ByFinalRuling(e) ==
    LET d == dispute[e] IN
    /\ d.initialRulingAt >= d.raisedAt + EVIDENCE_RESPONSE_PERIOD
    /\ d.challengedAt >= d.initialRulingAt
    /\ d.challengedAt < d.initialRulingAt + CHALLENGE_PERIOD
    /\ d.finalRulingAt >= d.challengedAt
    /\ d.finalRulingAt < d.challengedAt + ARBITER_STALL_PERIOD
    /\ resolved[e].at >= d.finalRulingAt + FINAL_RULING_NOTICE_PERIOD
    /\ resolved[e].decisionHash = d.finalDecisionHash
    /\ resolved[e].clientAmount = MulBps(escrow[e].amount, d.finalClientBps)

ByTimeoutSplit(e) ==
    LET d == dispute[e] IN
    /\ d.finalRulingAt = 0
    /\ \/ /\ d.initialRulingAt = 0
          /\ resolved[e].at >= d.raisedAt + ARBITER_STALL_PERIOD
       \/ /\ d.initialRulingAt # 0
          /\ d.challengedAt < d.initialRulingAt + CHALLENGE_PERIOD
          /\ d.challengedAt >= d.initialRulingAt
          /\ resolved[e].at >= d.challengedAt + ARBITER_STALL_PERIOD
    /\ resolved[e].decisionHash = NoHash
    /\ resolved[e].clientAmount = MulBps(escrow[e].amount, MAX_BPS \div 2)

OutcomeMatchesProcess ==
    \A e \in Ids : escrow[e].phase = "RESOLVED" =>
        /\ escrow[e].resolutionKind # "NONE"
        /\ escrow[e].resolutionKind = "RELEASE" => ByRelease(e)
        /\ escrow[e].resolutionKind = "MISSED_DELIVERY_REFUND" => ByMissedDelivery(e)
        /\ escrow[e].resolutionKind = "REVIEW_TIMEOUT" => ByReviewTimeout(e)
        /\ escrow[e].resolutionKind = "RULING" => ByUnchallengedRuling(e) \/ ByFinalRuling(e)
        /\ escrow[e].resolutionKind = "ARBITER_TIMEOUT_SPLIT" => ByTimeoutSplit(e)

(* The deadlines of the two sides of each window meet without a gap and       *)
(* without an overlap: at every instant of an undelivered bounty, of a        *)
(* dispute whose evidence period is over and that awaits its ruling, of an    *)
(* initial ruling and of a challenge, exactly one of "the actor may still     *)
(* act" and "anyone may close the window" holds.  Before the evidence period  *)
(* ends nobody may rule or split; in a final ruling nobody but finalizes.     *)
MaySubmit(e) == \E s \in Addr, h \in Hashes : SubmitWork(s, e, h)
MayChallenge(e) == \E s \in Addr : ChallengeRuling(s, e)
MayRule(e) == \E s \in Addr, bps \in Bps, h \in Hashes :
                 PostInitialRuling(s, e, bps, h) \/ PostFinalRuling(s, e, bps, h)
EvidenceOver(e) == now >= dispute[e].raisedAt + EVIDENCE_RESPONSE_PERIOD

WindowsMeet ==
    \A e \in Ids :
        /\ InPhase(e, "FUNDED") /\ escrow[e].deliveryHash = NoHash =>
              (ENABLED ClaimMissedDeliveryRefund(e)) = ~(ENABLED MaySubmit(e))
        /\ InPhase(e, "DISPUTED") /\ EvidenceOver(e) =>
              (ENABLED FinalizeArbiterTimeoutSplit(e)) = ~(ENABLED MayRule(e))
        /\ InPhase(e, "INITIAL_RULING") =>
              (ENABLED FinalizeInitialRuling(e)) = ~(ENABLED MayChallenge(e))
        /\ InPhase(e, "CHALLENGED") =>
              (ENABLED FinalizeArbiterTimeoutSplit(e)) = ~(ENABLED MayRule(e))

(* No principal can be stranded: once a bounty is past the review period, or  *)
(* a dispute past the longest course it can take, some call that nobody can   *)
(* withhold resolves it, with deposits paused or not and whoever holds the    *)
(* platform roles by then ("Administrative pause affects deposits only").     *)
LongestDispute == 2 * ARBITER_STALL_PERIOD + CHALLENGE_PERIOD + FINAL_RULING_NOTICE_PERIOD

NoStranding ==
    \A e \in Ids :
        \/ InPhase(e, "FUNDED") /\ now >= escrow[e].deliveryDeadline + REVIEW_PERIOD
        \/ /\ Exists(e) /\ escrow[e].phase \notin {"FUNDED", "RESOLVED"}
           /\ now >= dispute[e].raisedAt + LongestDispute
        => ENABLED PermissionlessExit(e)

(* Action property: the terms fixed at deposit (the parties, the arbiter and  *)
(* fee recipient of that moment, the amount and the deadline) outlive every   *)
(* later role handover, and nothing about a resolved escrow changes again.    *)
Terms(x) == <<x.client, x.developer, x.arbiter, x.feeRecipient, x.amount,
              x.depositedAt, x.deliveryDeadline, x.termsHash>>

TermsFrozen ==
    [][\A e \in Ids :
         /\ Exists(e) => Terms(escrow'[e]) = Terms(escrow[e])
         /\ escrow[e].phase = "RESOLVED" =>
              UNCHANGED <<escrow[e], settlement[e], dispute[e], resolved[e]>>]_vars

=============================================================================
