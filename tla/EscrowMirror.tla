----------------------------- MODULE EscrowMirror -----------------------------
(***************************************************************************)
(* The contract and the worker's copy of it.  Every contract call is one    *)
(* step; its event is folded into the projection of the escrow and its      *)
(* credits into the claimable balances (effects/resolved.ts, claimed.ts).   *)
(* The fold reads nothing but the events in chain order, so folding at once *)
(* loses no behaviour; scanning, reorgs and replays are in Indexer.         *)
(***************************************************************************)
EXTENDS BloodyRoarEscrow

CONSTANTS Null, Rejected

(* what the fold stores of a dispute *)
DisputeRecord ==
    [raisedBy : Addr, raisedAt : Nat, raiserEvidenceHash : Hashes \cup {NoHash},
     counterpartyEvidenceHash : Hashes \cup {Null},
     initialClientBps : Nat \cup {Null}, initialRulingAt : Nat \cup {Null},
     initialDecisionHash : Hashes \cup {Null}, challengedAt : Nat \cup {Null},
     finalClientBps : Nat \cup {Null}, finalRulingAt : Nat \cup {Null},
     finalDecisionHash : Hashes \cup {Null}]

FoldState ==
    [client : Addr \cup {NoAddr}, developer : Addr \cup {NoAddr}, arbiter : Addr \cup {NoAddr},
     feeRecipient : Addr \cup {NoAddr}, amount : Nat, depositedAt : Nat, deliveryDeadline : Nat,
     termsHash : Hashes \cup {NoHash}, deliveryHash : Hashes \cup {Null},
     phase : Phase, resolutionKind : ResolutionKind,
     settlement : SettlementType \cup {Null}, dispute : DisputeRecord \cup {Null}]

ASSUME MirrorAssumption ==
    /\ Null # Rejected
    /\ Null \notin Nat \cup Hashes \cup SettlementType \cup DisputeRecord \cup FoldState
    /\ Rejected \notin FoldState

VARIABLES
    projection,     \* the folded state of each escrow
    balances        \* claimable_balances, by address

mirrorVars == <<projection, balances>>

Fold == INSTANCE EscrowFold WITH
          ZeroHash <- NoHash,
          EVIDENCE_PERIOD <- EVIDENCE_RESPONSE_PERIOD,
          FINAL_NOTICE_PERIOD <- FINAL_RULING_NOTICE_PERIOD

MirrorInit ==
    /\ Init
    /\ projection = [e \in Ids |-> Null]
    /\ balances = [a \in Addr |-> 0]

-----------------------------------------------------------------------------

(* projectLog: fold one event of escrow e *)
Project(e, event) ==
    projection' = [projection EXCEPT ![e] = Fold!FoldEscrowEvent(@, event, now)]

(* an event that resolves nothing *)
Emit(e, event) == Project(e, event) /\ UNCHANGED balances

(* Mutant: a payee of two parts keeps the last one written *)
EmitResolvedOverwriting(e) ==
    LET event == [name |-> "EscrowResolved", resolution |-> escrow'[e].resolutionKind,
                  clientAmount |-> resolved'[e].clientAmount,
                  developerAmount |-> resolved'[e].developerAmount,
                  platformFee |-> resolved'[e].platformFee,
                  decisionHash |-> resolved'[e].decisionHash]
    IN  /\ Project(e, event)
        /\ balances' = [a \in Addr |-> balances[a] +
              IF a = projection[e].feeRecipient THEN event.platformFee
              ELSE IF a = projection[e].developer THEN event.developerAmount
              ELSE IF a = projection[e].client THEN event.clientAmount ELSE 0]

(* _resolve's event; applyResolved credits each address once per event *)
EmitResolved(e) ==
    LET event == [name |-> "EscrowResolved", resolution |-> escrow'[e].resolutionKind,
                  clientAmount |-> resolved'[e].clientAmount,
                  developerAmount |-> resolved'[e].developerAmount,
                  platformFee |-> resolved'[e].platformFee,
                  decisionHash |-> resolved'[e].decisionHash]
    IN  /\ Project(e, event)
        /\ balances' = [a \in Addr |-> balances[a] + ShareOf(a, projection[e], event)]

(* applyClaimed: the row must hold exactly what the event paid *)
EmitClaimed(recipient) ==
    /\ balances' = [balances EXCEPT ![recipient] =
          IF @ = claimable[recipient] THEN 0 ELSE Rejected]
    /\ UNCHANGED projection

-----------------------------------------------------------------------------
(* The contract's calls, each with the event it emits *)

MirroredPartyCall(sender, e) ==
    \/ \E developer \in Addr, amount \in Amounts, deadline \in 1..MaxTime, h \in Hashes :
          /\ Deposit(sender, e, developer, amount, deadline, h)
          /\ Emit(e, [name |-> "Deposited", client |-> sender, developer |-> developer,
                      arbiter |-> arbiter, feeRecipient |-> feeRecipient, amount |-> amount,
                      deliveryDeadline |-> deadline, termsHash |-> h])
    \/ \E h \in Hashes :
          /\ SubmitWork(sender, e, h)
          /\ Emit(e, [name |-> "WorkSubmitted", developer |-> sender, deliveryHash |-> h])
    \/ ReleaseFunds(sender, e) /\ EmitResolved(e)
    \/ \E bps \in Bps :
          /\ ProposeSettlement(sender, e, bps)
          /\ Emit(e, [name |-> "SettlementProposed", proposer |-> sender, clientBps |-> bps])
    \/ /\ RevokeSettlement(sender, e)
       /\ Emit(e, [name |-> "SettlementRevoked", proposer |-> sender])
    \/ AcceptSettlement(sender, e) /\ EmitResolved(e)
    \/ \E h \in Hashes :
          /\ RaiseDispute(sender, e, h)
          /\ Emit(e, [name |-> "DisputeRaised", raisedBy |-> sender, evidenceManifestHash |-> h])
    \/ \E h \in Hashes :
          /\ SubmitCounterpartyEvidence(sender, e, h)
          /\ Emit(e, [name |-> "CounterpartyEvidenceSubmitted", submittedBy |-> sender,
                      evidenceManifestHash |-> h])
    \/ \E bps \in Bps, h \in Hashes :
          /\ PostInitialRuling(sender, e, bps, h)
          /\ Emit(e, [name |-> "InitialRulingPosted", arbiter |-> sender, clientBps |-> bps,
                      decisionHash |-> h, challengeEndsAt |-> now + CHALLENGE_PERIOD])
    \/ /\ ChallengeRuling(sender, e)
       /\ Emit(e, [name |-> "RulingChallenged", challengedBy |-> sender, challengedAt |-> now])
    \/ \E bps \in Bps, h \in Hashes :
          /\ PostFinalRuling(sender, e, bps, h)
          /\ Emit(e, [name |-> "FinalRulingPosted", arbiter |-> sender, clientBps |-> bps,
                      decisionHash |-> h, noticeEndsAt |-> now + FINAL_RULING_NOTICE_PERIOD])

MirroredExit(e) == PermissionlessExit(e) /\ EmitResolved(e)

MirroredClaim(recipient) == Claim(recipient) /\ EmitClaimed(recipient)

MirrorNext ==
    \/ \E sender \in Addr, e \in Ids : MirroredPartyCall(sender, e)
    \/ \E e \in Ids : MirroredExit(e)
    \/ \E recipient \in Addr : MirroredClaim(recipient)
    \/ (Tick \/ Governance) /\ UNCHANGED mirrorVars   \* no projection records these

MirrorSpec == MirrorInit /\ [][MirrorNext]_<<vars, mirrorVars>>

-----------------------------------------------------------------------------
(* The chain as the reconciler reads it (chainEscrow, disputeView) *)

HashView(h) == IF h = NoHash THEN Null ELSE h
TimeView(t) == IF t = 0 THEN Null ELSE t

DisputeView(d) ==
    IF d.raisedBy = NoAddr THEN Null
    ELSE [raisedBy |-> d.raisedBy, raisedAt |-> d.raisedAt,
          raiserEvidenceHash |-> d.raiserEvidenceHash,
          counterpartyEvidenceHash |-> HashView(d.counterpartyEvidenceHash),
          initialClientBps |-> IF d.initialRulingAt = 0 THEN Null ELSE d.initialClientBps,
          initialRulingAt |-> TimeView(d.initialRulingAt),
          initialDecisionHash |-> HashView(d.initialDecisionHash),
          challengedAt |-> TimeView(d.challengedAt),
          finalClientBps |-> IF d.finalRulingAt = 0 THEN Null ELSE d.finalClientBps,
          finalRulingAt |-> TimeView(d.finalRulingAt),
          finalDecisionHash |-> HashView(d.finalDecisionHash)]

(* of the records of the three getters *)
View(x, proposal, d) ==
    [client |-> x.client, developer |-> x.developer, arbiter |-> x.arbiter,
     feeRecipient |-> x.feeRecipient, amount |-> x.amount, depositedAt |-> x.depositedAt,
     deliveryDeadline |-> x.deliveryDeadline, termsHash |-> x.termsHash,
     deliveryHash |-> HashView(x.deliveryHash), phase |-> x.phase,
     resolutionKind |-> x.resolutionKind,
     settlement |-> IF proposal.proposer = NoAddr THEN Null ELSE proposal,
     dispute |-> DisputeView(d)]

ChainEscrow(e) == View(escrow[e], settlement[e], dispute[e])

(* The fold never rejects an event the contract emitted: every boundary it    *)
(* re-checks (windows, parties, challenge rights, payouts) is drawn exactly   *)
(* where the contract draws it.  A rejection would stop the indexer for good. *)
FoldAcceptsChain == \A e \in Ids : projection[e] # Rejected

(* After every event the reconciler would report no difference between the    *)
(* projection and the contract (compareProjectionWithChain).                  *)
ProjectionMatchesChain ==
    \A e \in Ids : projection[e] = IF Exists(e) THEN ChainEscrow(e) ELSE Null

(* The balances the worker keeps by adding resolutions and clearing claims    *)
(* are the contract's claimable, also for an address owed several parts of a  *)
(* principal, so applyClaimed always finds the row it requires                *)
(* (applyResolved, applyClaimed).                                             *)
BalancesMatchChain == balances = claimable

=============================================================================
