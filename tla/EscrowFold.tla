------------------------------ MODULE EscrowFold ------------------------------
(***************************************************************************)
(* packages/shared/src/escrow/fold.ts: the pure function that rebuilds the  *)
(* state of one escrow from the contract's events, rejecting a sequence the *)
(* contract could not have emitted.  A fold state is Null before the        *)
(* deposit; unset hashes, times, shares and records are Null after it.      *)
(***************************************************************************)
EXTENDS Payout

CONSTANTS
    Null,           \* null
    Rejected,       \* the result of a fold that throws
    ZeroHash,       \* 0x00..00
    REVIEW_PERIOD, EVIDENCE_PERIOD, CHALLENGE_PERIOD, FINAL_NOTICE_PERIOD,
    ARBITER_STALL_PERIOD    \* derived from ESCROW_CONSTANTS

IsParty(state, address) == address \in {state.client, state.developer}

(* splitPayout (money.ts) agrees with _resolve formula for formula *)
SplitPayout(principal, feeBps, clientBps) ==
    LET client == MulBps(principal, clientBps)
        fee    == MulBps(principal - client, feeBps)
    IN  [developer |-> principal - client - fee, fee |-> fee, client |-> client]

-----------------------------------------------------------------------------
(* Mutant: rulings become final one second late *)
RulingFinalLate(state, now) ==
    \/ /\ state.phase = "INITIAL_RULING" /\ state.dispute.initialRulingAt # Null
       /\ now > state.dispute.initialRulingAt + CHALLENGE_PERIOD
    \/ /\ state.phase = "FINAL_RULING" /\ state.dispute.finalRulingAt # Null
       /\ now > state.dispute.finalRulingAt + FINAL_NOTICE_PERIOD

RulingFinal(state, now) ==
    \/ /\ state.phase = "INITIAL_RULING" /\ state.dispute.initialRulingAt # Null
       /\ now >= state.dispute.initialRulingAt + CHALLENGE_PERIOD
    \/ /\ state.phase = "FINAL_RULING" /\ state.dispute.finalRulingAt # Null
       /\ now >= state.dispute.finalRulingAt + FINAL_NOTICE_PERIOD

ArbiterStalled(state, now) ==
    \/ /\ state.phase = "DISPUTED"
       /\ now >= state.dispute.raisedAt + ARBITER_STALL_PERIOD
    \/ /\ state.phase = "CHALLENGED" /\ state.dispute.challengedAt # Null
       /\ now >= state.dispute.challengedAt + ARBITER_STALL_PERIOD

(* resolutionTerms: when each kind is possible, and on which terms *)

ResolutionPossible(state, kind, now) ==
    CASE kind = "RELEASE" ->
            state.phase = "FUNDED" /\ state.deliveryHash # Null
      [] kind = "MISSED_DELIVERY_REFUND" ->
            state.phase = "FUNDED" /\ state.deliveryHash = Null /\ now > state.deliveryDeadline
      [] kind = "REVIEW_TIMEOUT" ->
            /\ state.phase = "FUNDED" /\ state.deliveryHash # Null
            /\ now >= state.deliveryDeadline + REVIEW_PERIOD
      [] kind = "SETTLEMENT" ->
            state.settlement # Null
      [] kind = "RULING" ->
            state.dispute # Null /\ RulingFinal(state, now)
      [] kind = "ARBITER_TIMEOUT_SPLIT" ->
            state.dispute # Null /\ ArbiterStalled(state, now)
      [] OTHER -> FALSE

ResolutionTerms(state, kind) ==
    CASE kind \in {"RELEASE", "REVIEW_TIMEOUT"} ->
            [clientBps |-> 0, decisionHash |-> ZeroHash]
      [] kind = "MISSED_DELIVERY_REFUND" ->
            [clientBps |-> MAX_BPS, decisionHash |-> ZeroHash]
      [] kind = "SETTLEMENT" ->
            [clientBps |-> state.settlement.clientBps, decisionHash |-> ZeroHash]
      [] kind = "RULING" /\ state.phase = "INITIAL_RULING" ->
            [clientBps |-> state.dispute.initialClientBps,
             decisionHash |-> state.dispute.initialDecisionHash]
      [] kind = "RULING" /\ state.phase = "FINAL_RULING" ->
            [clientBps |-> state.dispute.finalClientBps,
             decisionHash |-> state.dispute.finalDecisionHash]
      [] kind = "ARBITER_TIMEOUT_SPLIT" ->
            [clientBps |-> MAX_BPS \div 2, decisionHash |-> ZeroHash]

PayoutMatches(state, event) ==
    LET terms == ResolutionTerms(state, event.resolution)
        split == SplitPayout(state.amount, PLATFORM_FEE_BPS, terms.clientBps)
    IN  /\ event.decisionHash = terms.decisionHash
        /\ event.clientAmount = split.client
        /\ event.developerAmount = split.developer
        /\ event.platformFee = split.fee

-----------------------------------------------------------------------------
(* The checks of foldEscrowEvent, deposited and escrowEvent *)

Acceptable(state, event, now) ==
    IF event.name = "Deposited" THEN state = Null /\ event.client # event.developer
    ELSE
    /\ state # Null
    /\ CASE event.name = "WorkSubmitted" ->
              /\ state.phase = "FUNDED"
              /\ event.developer = state.developer
              /\ now <= state.deliveryDeadline
              /\ event.deliveryHash # ZeroHash
         [] event.name = "SettlementProposed" ->
              /\ state.phase # "RESOLVED"
              /\ state.settlement = Null
              /\ IsParty(state, event.proposer)
         [] event.name = "SettlementRevoked" ->
              /\ state.phase # "RESOLVED"
              /\ state.settlement # Null
              /\ event.proposer = state.settlement.proposer
         [] event.name = "DisputeRaised" ->
              /\ state.phase = "FUNDED"
              /\ IsParty(state, event.raisedBy)
              /\ event.evidenceManifestHash # ZeroHash
         [] event.name = "CounterpartyEvidenceSubmitted" ->
              /\ state.phase = "DISPUTED" /\ state.dispute # Null
              /\ event.submittedBy = IF state.dispute.raisedBy = state.client
                                     THEN state.developer ELSE state.client
              /\ state.dispute.counterpartyEvidenceHash = Null
              /\ now < state.dispute.raisedAt + EVIDENCE_PERIOD
              /\ event.evidenceManifestHash # ZeroHash
         [] event.name = "InitialRulingPosted" ->
              /\ state.phase = "DISPUTED" /\ state.dispute # Null
              /\ event.arbiter = state.arbiter
              /\ event.decisionHash # ZeroHash
              /\ now >= state.dispute.raisedAt + EVIDENCE_PERIOD
              /\ now < state.dispute.raisedAt + ARBITER_STALL_PERIOD
              /\ event.challengeEndsAt = now + CHALLENGE_PERIOD
         [] event.name = "RulingChallenged" ->
              /\ state.phase = "INITIAL_RULING" /\ state.dispute # Null
              /\ state.dispute.initialRulingAt # Null
              /\ now < state.dispute.initialRulingAt + CHALLENGE_PERIOD
              /\ \/ event.challengedBy = state.client /\ state.dispute.initialClientBps < MAX_BPS
                 \/ event.challengedBy = state.developer /\ state.dispute.initialClientBps > 0
              /\ event.challengedAt = now
         [] event.name = "FinalRulingPosted" ->
              /\ state.phase = "CHALLENGED" /\ state.dispute # Null
              /\ state.dispute.challengedAt # Null
              /\ event.arbiter = state.arbiter
              /\ event.decisionHash # ZeroHash
              /\ now < state.dispute.challengedAt + ARBITER_STALL_PERIOD
              /\ event.noticeEndsAt = now + FINAL_NOTICE_PERIOD
         [] event.name = "EscrowResolved" ->
              /\ state.phase # "RESOLVED"
              /\ ResolutionPossible(state, event.resolution, now)
              /\ PayoutMatches(state, event)

-----------------------------------------------------------------------------
(* The state after an accepted event *)

(* Mutant: the raiser's evidence lands in the counterparty's place *)
NewDisputeSwapped(event, now) ==
    [raisedBy |-> event.raisedBy, raisedAt |-> now,
     raiserEvidenceHash |-> Null, counterpartyEvidenceHash |-> event.evidenceManifestHash,
     initialClientBps |-> Null, initialRulingAt |-> Null, initialDecisionHash |-> Null,
     challengedAt |-> Null,
     finalClientBps |-> Null, finalRulingAt |-> Null, finalDecisionHash |-> Null]

NewDispute(event, now) ==
    [raisedBy |-> event.raisedBy, raisedAt |-> now,
     raiserEvidenceHash |-> event.evidenceManifestHash, counterpartyEvidenceHash |-> Null,
     initialClientBps |-> Null, initialRulingAt |-> Null, initialDecisionHash |-> Null,
     challengedAt |-> Null,
     finalClientBps |-> Null, finalRulingAt |-> Null, finalDecisionHash |-> Null]

Folded(state, event, now) ==
    CASE event.name = "Deposited" ->
            [client |-> event.client, developer |-> event.developer, arbiter |-> event.arbiter,
             feeRecipient |-> event.feeRecipient, amount |-> event.amount, depositedAt |-> now,
             deliveryDeadline |-> event.deliveryDeadline, termsHash |-> event.termsHash,
             deliveryHash |-> Null, phase |-> "FUNDED", resolutionKind |-> "NONE",
             settlement |-> Null, dispute |-> Null]
      [] event.name = "WorkSubmitted" ->
            [state EXCEPT !.deliveryHash = event.deliveryHash]
      [] event.name = "SettlementProposed" ->
            [state EXCEPT !.settlement = [proposer |-> event.proposer,
                                          clientBps |-> event.clientBps]]
      [] event.name = "SettlementRevoked" ->
            [state EXCEPT !.settlement = Null]
      [] event.name = "DisputeRaised" ->
            [state EXCEPT !.phase = "DISPUTED", !.dispute = NewDispute(event, now)]
      [] event.name = "CounterpartyEvidenceSubmitted" ->
            [state EXCEPT !.dispute.counterpartyEvidenceHash = event.evidenceManifestHash]
      [] event.name = "InitialRulingPosted" ->
            [state EXCEPT !.phase = "INITIAL_RULING",
                          !.dispute = [@ EXCEPT !.initialClientBps = event.clientBps,
                                                !.initialRulingAt = now,
                                                !.initialDecisionHash = event.decisionHash]]
      [] event.name = "RulingChallenged" ->
            [state EXCEPT !.phase = "CHALLENGED", !.dispute.challengedAt = now]
      [] event.name = "FinalRulingPosted" ->
            [state EXCEPT !.phase = "FINAL_RULING",
                          !.dispute = [@ EXCEPT !.finalClientBps = event.clientBps,
                                                !.finalRulingAt = now,
                                                !.finalDecisionHash = event.decisionHash]]
      [] event.name = "EscrowResolved" ->
            [state EXCEPT !.phase = "RESOLVED", !.resolutionKind = event.resolution,
                          !.settlement = Null]

FoldEscrowEvent(state, event, now) ==
    IF Acceptable(state, event, now) THEN Folded(state, event, now) ELSE Rejected

=============================================================================
