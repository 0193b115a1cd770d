----------------------------- MODULE Availability -----------------------------
(***************************************************************************)
(* What the web application offers about a funded escrow, and when the      *)
(* worker tells its parties that an exit has opened: both decide from the   *)
(* indexed projection and the time of the latest block, while the contract  *)
(* decides from its own state.  The conditions are written three times:     *)
(* in the contract, in the prepare mutations, and in availableActions with  *)
(* viewerCapabilities.                                                      *)
(*                                                                         *)
(* The index lags the chain by any number of events.  The clock of the     *)
(* deadline job is taken to be block.timestamp.                             *)
(***************************************************************************)
EXTENDS BloodyRoarEscrow

CONSTANT EvidenceNotice     \* how long before the end of the evidence window a notice is due

VARIABLES
    indexed,    \* escrow_projections with the latest ruling_records of each kind
    told        \* notifications by escrow and kind: the milestone told of, or 0

webVars == <<indexed, told>>

-----------------------------------------------------------------------------
(* The projection; null is the contract's zero value *)

Ruling(clientBps, postedAt, period) ==
    [clientBps |-> clientBps, postedAt |-> postedAt, noticeEndsAt |-> postedAt + period]

ProjectionOf(e) ==
    [phase |-> escrow[e].phase, client |-> escrow[e].client, developer |-> escrow[e].developer,
     arbiter |-> escrow[e].arbiter, deliveryHash |-> escrow[e].deliveryHash,
     deliveryDeadline |-> escrow[e].deliveryDeadline,
     reviewDeadline |-> escrow[e].deliveryDeadline + REVIEW_PERIOD,
     settlementProposer |-> settlement[e].proposer,
     disputeRaisedBy |-> dispute[e].raisedBy, disputeRaisedAt |-> dispute[e].raisedAt,
     counterpartyEvidenceHash |-> dispute[e].counterpartyEvidenceHash,
     challengedAt |-> dispute[e].challengedAt,
     initial |-> Ruling(dispute[e].initialClientBps, dispute[e].initialRulingAt, CHALLENGE_PERIOD),
     final |-> Ruling(dispute[e].finalClientBps, dispute[e].finalRulingAt, FINAL_RULING_NOTICE_PERIOD)]

Index(e) ==
    /\ indexed[e] # ProjectionOf(e)
    /\ indexed' = [indexed EXCEPT ![e] = ProjectionOf(e)]
    /\ UNCHANGED <<told, vars>>

UpToDate(e) == indexed[e] = ProjectionOf(e)

(* rulingRecord.findFirst of the kind of the phase *)
CurrentRuling(p) == IF p.phase = "INITIAL_RULING" THEN p.initial ELSE p.final

-----------------------------------------------------------------------------
(* The prepare mutations: what user s may be given to sign *)

Party(p, s) == s \in {p.client, p.developer}
Settling(p, s) == Party(p, s) /\ p.phase \notin {"RESOLVED", "NONE"}

(* Mutant: the deadline itself counts as missed *)
PrepareMissedDeliveryRefundAtDeadline(p) ==
    p.phase = "FUNDED" /\ p.deliveryHash = NoHash /\ now >= p.deliveryDeadline

PrepareMissedDeliveryRefund(p) ==
    p.phase = "FUNDED" /\ p.deliveryHash = NoHash /\ now > p.deliveryDeadline

PrepareReviewTimeout(p) ==
    p.phase = "FUNDED" /\ p.deliveryHash # NoHash /\ now >= p.reviewDeadline

EvidenceWindow(p, s) ==
    /\ p.phase = "DISPUTED" /\ Party(p, s)
    /\ p.disputeRaisedBy # s /\ p.counterpartyEvidenceHash = NoHash
    /\ now < p.disputeRaisedAt + EVIDENCE_RESPONSE_PERIOD

MayDraftRuling(p, kind) ==
    LET start == IF kind = "INITIAL" THEN p.disputeRaisedAt ELSE p.challengedAt
    IN  /\ p.phase = IF kind = "INITIAL" THEN "DISPUTED" ELSE "CHALLENGED"
        /\ now < start + ARBITER_STALL_PERIOD
        /\ kind = "INITIAL" => now >= start + EVIDENCE_RESPONSE_PERIOD

PrepareChallenge(p, s) ==
    /\ Party(p, s) /\ p.phase = "INITIAL_RULING"
    /\ ~(s = p.client /\ p.initial.clientBps >= MAX_BPS)
    /\ ~(s = p.developer /\ p.initial.clientBps <= 0)
    /\ now < p.initial.postedAt + CHALLENGE_PERIOD

PrepareFinalizeRuling(p) ==
    \/ p.phase = "INITIAL_RULING" /\ now >= p.initial.postedAt + CHALLENGE_PERIOD
    \/ p.phase = "FINAL_RULING" /\ now >= p.final.postedAt + FINAL_RULING_NOTICE_PERIOD

PrepareTimeoutSplit(p) ==
    \/ p.phase = "DISPUTED" /\ now >= p.disputeRaisedAt + ARBITER_STALL_PERIOD
    \/ p.phase = "CHALLENGED" /\ now >= p.challengedAt + ARBITER_STALL_PERIOD

Methods == {"submitWork", "releaseFunds", "claimMissedDeliveryRefund", "claimReviewTimeout",
            "proposeSettlement", "revokeSettlement", "acceptSettlement", "raiseDispute",
            "submitCounterpartyEvidence", "postInitialRuling", "challengeRuling",
            "postFinalRuling", "finalizeRuling", "finalizeArbiterTimeoutSplit"}

(* those anyone may call *)
Exits == {"claimMissedDeliveryRefund", "claimReviewTimeout", "finalizeRuling",
          "finalizeArbiterTimeoutSplit"}

(* rulings are drafted by an administrator for the arbiter's Safe *)
Prepared(m, p, s) ==
    CASE m = "submitWork" -> p.phase = "FUNDED" /\ s = p.developer /\ now <= p.deliveryDeadline
      [] m = "releaseFunds" -> p.phase = "FUNDED" /\ s = p.client /\ p.deliveryHash # NoHash
      [] m = "claimMissedDeliveryRefund" -> PrepareMissedDeliveryRefund(p)
      [] m = "claimReviewTimeout" -> PrepareReviewTimeout(p)
      [] m = "proposeSettlement" -> Settling(p, s) /\ p.settlementProposer = NoAddr
      [] m = "revokeSettlement" -> Settling(p, s) /\ p.settlementProposer = s
      [] m = "acceptSettlement" -> Settling(p, s) /\ p.settlementProposer \notin {NoAddr, s}
      [] m = "raiseDispute" -> p.phase = "FUNDED" /\ Party(p, s)
      [] m = "submitCounterpartyEvidence" -> EvidenceWindow(p, s)
      [] m = "postInitialRuling" -> s = p.arbiter /\ MayDraftRuling(p, "INITIAL")
      [] m = "challengeRuling" -> PrepareChallenge(p, s)
      [] m = "postFinalRuling" -> s = p.arbiter /\ MayDraftRuling(p, "FINAL")
      [] m = "finalizeRuling" -> PrepareFinalizeRuling(p)
      [] m = "finalizeArbiterTimeoutSplit" -> PrepareTimeoutSplit(p)

-----------------------------------------------------------------------------
(* availableActions and viewerCapabilities: what user s is shown *)

(* Mutant: every exit opens at its deadline *)
TimedInclusive(at, strict) == now >= at

(* a strict deadline opens a second later *)
Timed(at, strict) == now >= IF strict THEN at + 1 ELSE at

AvailableActions(p) ==
    LET stall == (IF p.phase = "DISPUTED" THEN p.disputeRaisedAt ELSE p.challengedAt) + ARBITER_STALL_PERIOD
        evidenceEnd == p.disputeRaisedAt + EVIDENCE_RESPONSE_PERIOD
        delivered == p.deliveryHash # NoHash
        ends == CurrentRuling(p).noticeEndsAt
    IN  IF p.phase \in {"NONE", "RESOLVED"} THEN {}
        ELSE {m \in Methods :
                \/ m \in {"revokeSettlement", "acceptSettlement"} /\ p.settlementProposer # NoAddr
                \/ m = "proposeSettlement" /\ p.settlementProposer = NoAddr
                \/ /\ p.phase = "FUNDED"
                   /\ \/ m = "submitWork" /\ now <= p.deliveryDeadline
                      \/ m = "releaseFunds" /\ delivered
                      \/ m = "claimReviewTimeout" /\ delivered /\ Timed(p.reviewDeadline, FALSE)
                      \/ m = "claimMissedDeliveryRefund" /\ ~delivered /\ Timed(p.deliveryDeadline, TRUE)
                      \/ m = "raiseDispute"
                \/ /\ p.phase = "DISPUTED"
                   /\ \/ /\ m = "submitCounterpartyEvidence"
                         /\ now < evidenceEnd /\ p.counterpartyEvidenceHash = NoHash
                      \/ m = "postInitialRuling" /\ now >= evidenceEnd /\ now < stall
                      \/ m = "finalizeArbiterTimeoutSplit" /\ Timed(stall, FALSE)
                \/ /\ p.phase = "CHALLENGED"
                   /\ \/ m = "postFinalRuling" /\ now < stall
                      \/ m = "finalizeArbiterTimeoutSplit" /\ Timed(stall, FALSE)
                \/ /\ p.phase \in {"INITIAL_RULING", "FINAL_RULING"}
                   /\ \/ m = "challengeRuling" /\ p.phase = "INITIAL_RULING" /\ now < ends
                      \/ m = "finalizeRuling" /\ Timed(ends, FALSE)}

ViewerCapabilities(p, s) ==
    {m \in AvailableActions(p) :
        CASE m = "submitWork" -> s = p.developer
          [] m = "releaseFunds" -> s = p.client
          [] m \in {"raiseDispute", "proposeSettlement"} -> Party(p, s)
          [] m = "revokeSettlement" -> Party(p, s) /\ s = p.settlementProposer
          [] m = "acceptSettlement" -> Party(p, s) /\ s # p.settlementProposer
          [] m = "submitCounterpartyEvidence" -> Party(p, s) /\ s # p.disputeRaisedBy
          [] m = "challengeRuling" -> \/ s = p.client /\ CurrentRuling(p).clientBps < MAX_BPS
                                      \/ s = p.developer /\ CurrentRuling(p).clientBps > 0
          [] m \in {"postInitialRuling", "postFinalRuling"} -> s = p.arbiter
          [] OTHER -> TRUE}

-----------------------------------------------------------------------------
(* The deadline job *)

Notice(kind, at) == [kind |-> kind, at |-> at]

(* Mutant: a final ruling is not watched *)
MilestonesUntilFinal(p) ==
    CASE p.phase = "FUNDED" ->
            {IF p.deliveryHash = NoHash THEN Notice("MISSED_DELIVERY", p.deliveryDeadline)
                                        ELSE Notice("REVIEW_TIMEOUT", p.reviewDeadline)}
      [] p.phase = "DISPUTED" -> {Notice("ARBITER_STALL", p.disputeRaisedAt + ARBITER_STALL_PERIOD)}
      [] p.phase = "INITIAL_RULING" -> {Notice("CHALLENGE_ENDED", p.initial.noticeEndsAt)}
      [] p.phase = "CHALLENGED" -> {Notice("ARBITER_STALL", p.challengedAt + ARBITER_STALL_PERIOD)}
      [] OTHER -> {}

(* the exits of dueDeadlineNotices, due or not *)
Milestones(p) ==
    CASE p.phase = "FUNDED" ->
            {IF p.deliveryHash = NoHash THEN Notice("MISSED_DELIVERY", p.deliveryDeadline)
                                        ELSE Notice("REVIEW_TIMEOUT", p.reviewDeadline)}
      [] p.phase = "DISPUTED" ->
            {Notice("EVIDENCE_ENDING", p.disputeRaisedAt + EVIDENCE_RESPONSE_PERIOD - EvidenceNotice),
             Notice("ARBITER_STALL", p.disputeRaisedAt + ARBITER_STALL_PERIOD)}
      [] p.phase = "INITIAL_RULING" -> {Notice("CHALLENGE_ENDED", p.initial.noticeEndsAt)}
      [] p.phase = "CHALLENGED" -> {Notice("ARBITER_STALL", p.challengedAt + ARBITER_STALL_PERIOD)}
      [] p.phase = "FINAL_RULING" -> {Notice("FINAL_NOTICE_ENDED", p.final.noticeEndsAt)}
      [] OTHER -> {}

DueNotices(p) == {n \in Milestones(p) : n.at <= now}

Kinds == {"MISSED_DELIVERY", "REVIEW_TIMEOUT", "EVIDENCE_ENDING", "CHALLENGE_ENDED",
          "FINAL_NOTICE_ENDED", "ARBITER_STALL"}

(* createNotificationIdempotent under the key of escrow, kind and recipient:   *)
(* both parties are told, once                                                *)
RunDeadlines(e) ==
    /\ \E n \in DueNotices(indexed[e]) : told[e][n.kind] = 0
    /\ told' = [told EXCEPT ![e] = [k \in Kinds |->
            IF @[k] = 0 /\ \E n \in DueNotices(indexed[e]) : n.kind = k
            THEN (CHOOSE n \in DueNotices(indexed[e]) : n.kind = k).at ELSE @[k]]]
    /\ UNCHANGED <<indexed, vars>>

-----------------------------------------------------------------------------

WebInit ==
    /\ indexed = [e \in Ids |-> ProjectionOf(e)]
    /\ told = [e \in Ids |-> [k \in Kinds |-> 0]]

WebNext == \E e \in Ids : Index(e) \/ RunDeadlines(e)

(* the contract's calls, the scanner's steps and the deadline job in any order *)
WebSpec ==
    Init /\ WebInit /\ [][(Next /\ UNCHANGED webVars) \/ WebNext]_<<vars, webVars>>

-----------------------------------------------------------------------------

(* the contract's answer to a call of method m, by anyone or by s *)
AcceptsExit(m, e) ==
    CASE m = "claimMissedDeliveryRefund" -> ENABLED ClaimMissedDeliveryRefund(e)
      [] m = "claimReviewTimeout" -> ENABLED ClaimReviewTimeout(e)
      [] m = "finalizeRuling" -> ENABLED (FinalizeInitialRuling(e) \/ FinalizeFinalRuling(e))
      [] m = "finalizeArbiterTimeoutSplit" -> ENABLED FinalizeArbiterTimeoutSplit(e)

Accepts(m, e, s) ==
    CASE m = "submitWork" -> ENABLED \E h \in Hashes : SubmitWork(s, e, h)
      [] m = "releaseFunds" -> ENABLED ReleaseFunds(s, e)
      [] m = "proposeSettlement" -> ENABLED \E bps \in Bps : ProposeSettlement(s, e, bps)
      [] m = "revokeSettlement" -> ENABLED RevokeSettlement(s, e)
      [] m = "acceptSettlement" -> ENABLED AcceptSettlement(s, e)
      [] m = "raiseDispute" -> ENABLED \E h \in Hashes : RaiseDispute(s, e, h)
      [] m = "submitCounterpartyEvidence" -> ENABLED \E h \in Hashes : SubmitCounterpartyEvidence(s, e, h)
      [] m = "postInitialRuling" -> ENABLED \E bps \in Bps, h \in Hashes : PostInitialRuling(s, e, bps, h)
      [] m = "challengeRuling" -> ENABLED ChallengeRuling(s, e)
      [] m = "postFinalRuling" -> ENABLED \E bps \in Bps, h \in Hashes : PostFinalRuling(s, e, bps, h)

(* From an up-to-date index the application prepares a call exactly for those  *)
(* whose call the contract would accept in the latest block: no window drawn a *)
(* second off, no party or phase forgotten, on either side.                    *)
PreparedExactlyAccepted ==
    \A e \in Ids : UpToDate(e) =>
        /\ \A m \in Exits : Prepared(m, indexed[e], NoAddr) <=> AcceptsExit(m, e)
        /\ \A m \in Methods \ Exits, s \in Addr : Prepared(m, indexed[e], s) <=> Accepts(m, e, s)

(* However old the index is, a user is shown an action exactly when preparing  *)
(* it succeeds: availableActions with viewerCapabilities and the prepare       *)
(* mutations agree.                                                            *)
ShownExactlyPrepared ==
    \A e \in Ids, s \in Addr :
        ViewerCapabilities(indexed[e], s) = {m \in Methods : Prepared(m, indexed[e], s)}

(* the exit a notice is about is open on the chain *)
Exit == [MISSED_DELIVERY |-> "claimMissedDeliveryRefund", REVIEW_TIMEOUT |-> "claimReviewTimeout",
         CHALLENGE_ENDED |-> "finalizeRuling", FINAL_NOTICE_ENDED |-> "finalizeRuling",
         ARBITER_STALL |-> "finalizeArbiterTimeoutSplit"]

ExitOpen(e, k) == AcceptsExit(Exit[k], e)

(* "Returns the notices whose exit has opened" (deadlines.ts:42): a notice due *)
(* from an up-to-date index is of an exit that the contract accepts now.       *)
NoticeMeansOpen ==
    \A e \in Ids : UpToDate(e) =>
        \A n \in DueNotices(indexed[e]) : n.kind \in DOMAIN Exit => ExitOpen(e, n.kind)

(* "DEADLINE_APPROACHING exactly once for each milestone" (E30 of              *)
(* LOCAL_FULL_FLOW_SPEC.md:242): no notice of an earlier milestone stands in   *)
(* for the one that is due.                                                    *)
EveryMilestoneTold ==
    \A e \in Ids : \A n \in DueNotices(indexed[e]) : told[e][n.kind] \in {0, n.at}

=============================================================================
