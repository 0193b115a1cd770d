---------------------------- MODULE MirrorProofs ----------------------------
(***************************************************************************)
(* The fold follows the contract, for every instance: it accepts each event *)
(* the contract emits, and its state is the one the contract's getters show.*)
(* First, each event is folded on the view of a record into the view of the *)
(* record the contract writes (Fold...); then, call by call, the contract's *)
(* guards are the fold's checks (...Mirrored); last, the invariant.         *)
(***************************************************************************)
EXTENDS EscrowMirror, Availability, EscrowProofs

-----------------------------------------------------------------------------
(* What the fold sees of the contract's records *)

(* the view of a record has the type of the fold's state, and its fields *)
LEMMA ViewFields ==
    ASSUME NEW x \in EscrowType, NEW p \in SettlementType, NEW d \in DisputeType
    PROVE  /\ View(x, p, d) \in FoldState /\ View(x, p, d) # Null /\ View(x, p, d) # Rejected
           /\ View(x, p, d).client = x.client /\ View(x, p, d).developer = x.developer
           /\ View(x, p, d).arbiter = x.arbiter /\ View(x, p, d).phase = x.phase
           /\ View(x, p, d).feeRecipient = x.feeRecipient /\ View(x, p, d).amount = x.amount
           /\ View(x, p, d).deliveryDeadline = x.deliveryDeadline
           /\ View(x, p, d).deliveryHash = Null <=> x.deliveryHash = NoHash
           /\ View(x, p, d).settlement = Null <=> p.proposer = NoAddr
           /\ p.proposer # NoAddr => View(x, p, d).settlement = p
           /\ View(x, p, d).dispute = DisputeView(d)
<1>1. DisputeView(d) \in DisputeRecord \cup {Null}
  BY BpsAssumption, SMT DEF DisputeView, DisputeType, DisputeRecord, HashView, TimeView
<1>2. View(x, p, d) \in FoldState
  BY <1>1, SMT DEF View, FoldState, EscrowType, HashView
<1>3. View(x, p, d).deliveryHash = Null <=> x.deliveryHash = NoHash
  BY MirrorAssumption, SMT DEF View, HashView, EscrowType
<1>4. View(x, p, d).settlement = Null <=> p.proposer = NoAddr
  BY MirrorAssumption, SMT DEF View
<1> QED
  BY <1>2, <1>3, <1>4, MirrorAssumption, SMT DEF View

(* the same for the view of a dispute *)
LEMMA DisputeFields ==
    ASSUME NEW d \in DisputeType, d.raisedBy # NoAddr
    PROVE  LET v == DisputeView(d) IN
           /\ v # Null /\ v.raisedBy = d.raisedBy /\ v.raisedAt = d.raisedAt
           /\ v.counterpartyEvidenceHash = Null <=> d.counterpartyEvidenceHash = NoHash
           /\ d.initialRulingAt # 0 => /\ v.initialRulingAt = d.initialRulingAt
                                       /\ v.initialRulingAt # Null
                                       /\ v.initialClientBps = d.initialClientBps
           /\ d.challengedAt # 0 => v.challengedAt = d.challengedAt /\ v.challengedAt # Null
           /\ d.finalRulingAt # 0 => /\ v.finalRulingAt = d.finalRulingAt
                                     /\ v.finalRulingAt # Null
                                     /\ v.finalClientBps = d.finalClientBps
           /\ d.initialDecisionHash # NoHash => v.initialDecisionHash = d.initialDecisionHash
           /\ d.finalDecisionHash # NoHash => v.finalDecisionHash = d.finalDecisionHash
<1>1. DisputeView(d) \in DisputeRecord
  BY BpsAssumption, SMT DEF DisputeView, DisputeType, DisputeRecord, HashView, TimeView
<1> QED
  BY <1>1, MirrorAssumption, SMT DEF DisputeView, DisputeType, HashView, TimeView

(* an update of the view is the view of an update *)
AtPhase(x, q) == [x EXCEPT !.phase = q]

(* a phase set on the view is one set on the record *)
LEMMA ViewPhase ==
    ASSUME NEW x \in EscrowType, NEW p, NEW d, NEW q
    PROVE  AtPhase(View(x, p, d), q) = View(AtPhase(x, q), p, d)
BY SMT DEF View, EscrowType, AtPhase

(* the same for the delivery hash *)
LEMMA ViewDelivery ==
    ASSUME NEW x \in EscrowType, NEW p, NEW d, NEW h \in Hashes
    PROVE  [View(x, p, d) EXCEPT !.deliveryHash = h] = View([x EXCEPT !.deliveryHash = h], p, d)
BY EscrowAssumption, SMT DEF View, HashView, EscrowType

(* the same for the dispute *)
LEMMA ViewDispute ==
    ASSUME NEW x, NEW p, NEW d, NEW e
    PROVE  [View(x, p, d) EXCEPT !.dispute = DisputeView(e)] = View(x, p, e)
BY SMT DEF View

(* the same for the settlement *)
LEMMA ViewSettlement ==
    ASSUME NEW x, NEW p, NEW d, NEW q
    PROVE  /\ q.proposer = NoAddr => [View(x, p, d) EXCEPT !.settlement = Null] = View(x, q, d)
           /\ q.proposer # NoAddr => [View(x, p, d) EXCEPT !.settlement = q] = View(x, q, d)
BY SMT DEF View

(* A dispute record with another initial or final ruling: as the literal record it *)
(* is (With...), and as the update the contract and the fold write (Put...).       *)
WithInitial(v, b, t, h) ==
    [raisedBy |-> v.raisedBy, raisedAt |-> v.raisedAt,
     raiserEvidenceHash |-> v.raiserEvidenceHash,
     counterpartyEvidenceHash |-> v.counterpartyEvidenceHash,
     initialClientBps |-> b, initialRulingAt |-> t, initialDecisionHash |-> h,
     challengedAt |-> v.challengedAt, finalClientBps |-> v.finalClientBps,
     finalRulingAt |-> v.finalRulingAt, finalDecisionHash |-> v.finalDecisionHash]

WithFinal(v, b, t, h) ==
    [raisedBy |-> v.raisedBy, raisedAt |-> v.raisedAt,
     raiserEvidenceHash |-> v.raiserEvidenceHash,
     counterpartyEvidenceHash |-> v.counterpartyEvidenceHash,
     initialClientBps |-> v.initialClientBps, initialRulingAt |-> v.initialRulingAt,
     initialDecisionHash |-> v.initialDecisionHash, challengedAt |-> v.challengedAt,
     finalClientBps |-> b, finalRulingAt |-> t, finalDecisionHash |-> h]

HasInitial(v) ==
    v = WithInitial(v, v.initialClientBps, v.initialRulingAt, v.initialDecisionHash)

PutInitial(v, b, t, h) ==
    [v EXCEPT !.initialClientBps = b, !.initialRulingAt = t, !.initialDecisionHash = h]

(* writing the first ruling field by field or at once is the same *)
LEMMA WithInitialRuling ==
    ASSUME NEW v, NEW b, NEW t, NEW h,
           HasInitial(v)
    PROVE  PutInitial(v, b, t, h) = WithInitial(v, b, t, h)
<1> DEFINE v1 == [v EXCEPT !.initialClientBps = b]
           v2 == [v1 EXCEPT !.initialRulingAt = t]
<1>1. v1 = WithInitial(v, b, v.initialRulingAt, v.initialDecisionHash)
  BY SMT DEF HasInitial, WithInitial
<1>2. v2 = WithInitial(v, b, t, v.initialDecisionHash)
  <2> HIDE DEF v1
  <2> QED
    BY <1>1, SMT DEF WithInitial
<1>3. [v2 EXCEPT !.initialDecisionHash = h] = WithInitial(v, b, t, h)
  <2> HIDE DEF v2
  <2> QED
    BY <1>2, SMT DEF WithInitial
<1>4. PutInitial(v, b, t, h) = [v2 EXCEPT !.initialDecisionHash = h]
  BY Zenon DEF PutInitial
<1> QED
  BY <1>3, <1>4, Zenon

HasFinal(v) ==
    v = WithFinal(v, v.finalClientBps, v.finalRulingAt, v.finalDecisionHash)

PutFinal(v, b, t, h) ==
    [v EXCEPT !.finalClientBps = b, !.finalRulingAt = t, !.finalDecisionHash = h]

(* the same for the final ruling *)
LEMMA WithFinalRuling ==
    ASSUME NEW v, NEW b, NEW t, NEW h,
           HasFinal(v)
    PROVE  PutFinal(v, b, t, h) = WithFinal(v, b, t, h)
<1> DEFINE v1 == [v EXCEPT !.finalClientBps = b]
           v2 == [v1 EXCEPT !.finalRulingAt = t]
<1>1. v1 = WithFinal(v, b, v.finalRulingAt, v.finalDecisionHash)
  BY SMT DEF HasFinal, WithFinal
<1>2. v2 = WithFinal(v, b, t, v.finalDecisionHash)
  <2> HIDE DEF v1
  <2> QED
    BY <1>1, SMT DEF WithFinal
<1>3. [v2 EXCEPT !.finalDecisionHash = h] = WithFinal(v, b, t, h)
  <2> HIDE DEF v2
  <2> QED
    BY <1>2, SMT DEF WithFinal
<1>4. PutFinal(v, b, t, h) = [v2 EXCEPT !.finalDecisionHash = h]
  BY Zenon DEF PutFinal
<1> QED
  BY <1>3, <1>4, Zenon

(* evidence added to the view of a dispute is evidence added to the dispute *)
LEMMA ViewEvidence ==
    ASSUME NEW d \in DisputeType, d.raisedBy # NoAddr, NEW h \in Hashes
    PROVE  [DisputeView(d) EXCEPT !.counterpartyEvidenceHash = h]
           = DisputeView([d EXCEPT !.counterpartyEvidenceHash = h])
BY EscrowAssumption, SMT DEF DisputeView, HashView, DisputeType

(* the same for a challenge *)
LEMMA ViewChallenge ==
    ASSUME NEW d \in DisputeType, d.raisedBy # NoAddr, NEW t \in Nat \ {0}
    PROVE  [DisputeView(d) EXCEPT !.challengedAt = t] = DisputeView([d EXCEPT !.challengedAt = t])
BY SMT DEF DisputeView, TimeView, DisputeType

(* the same for the first ruling *)
LEMMA ViewInitialRuling ==
    ASSUME NEW d \in DisputeType, d.raisedBy # NoAddr, NEW b, NEW t \in Nat \ {0}, NEW h \in Hashes
    PROVE  PutInitial(DisputeView(d), b, t, h) = DisputeView(PutInitial(d, b, t, h))
<1> DEFINE v == DisputeView(d)
<1>1. PutInitial(d, b, t, h) = WithInitial(d, b, t, h)
  <2>1. HasInitial(d)
    BY SMT DEF HasInitial, WithInitial, DisputeType
  <2> QED
    BY <2>1, WithInitialRuling, Zenon
<1>2. PutInitial(v, b, t, h) = WithInitial(v, b, t, h)
  <2>1. HasInitial(v)
    BY SMT DEF HasInitial, WithInitial, DisputeView
  <2> HIDE DEF v
  <2> QED
    BY <2>1, WithInitialRuling, Zenon
<1>3. DisputeView(WithInitial(d, b, t, h)) = WithInitial(v, b, t, h)
  BY EscrowAssumption, SMT DEF WithInitial, DisputeView, HashView, TimeView
<1> QED
  BY <1>1, <1>2, <1>3, Zenon

(* the same for the final ruling *)
LEMMA ViewFinalRuling ==
    ASSUME NEW d \in DisputeType, d.raisedBy # NoAddr, NEW b, NEW t \in Nat \ {0}, NEW h \in Hashes
    PROVE  PutFinal(DisputeView(d), b, t, h) = DisputeView(PutFinal(d, b, t, h))
<1> DEFINE v == DisputeView(d)
<1>1. PutFinal(d, b, t, h) = WithFinal(d, b, t, h)
  <2>1. HasFinal(d)
    BY SMT DEF HasFinal, WithFinal, DisputeType
  <2> QED
    BY <2>1, WithFinalRuling, Zenon
<1>2. PutFinal(v, b, t, h) = WithFinal(v, b, t, h)
  <2>1. HasFinal(v)
    BY SMT DEF HasFinal, WithFinal, DisputeView
  <2> HIDE DEF v
  <2> QED
    BY <2>1, WithFinalRuling, Zenon
<1>3. DisputeView(WithFinal(d, b, t, h)) = WithFinal(v, b, t, h)
  BY EscrowAssumption, SMT DEF WithFinal, DisputeView, HashView, TimeView
<1> QED
  BY <1>1, <1>2, <1>3, Zenon

-----------------------------------------------------------------------------
(* Event by event: the fold accepts what the contract emits, and its next state is *)
(* the view of the contract's next records                                          *)

(* folding Deposited gives the view of a new record *)
LEMMA FoldDeposited ==
    ASSUME NEW c, NEW dev, NEW arb, NEW fee, NEW amount, NEW t, NEW deadline, NEW h,
           c # dev, NEW p, NEW d, p.proposer = NoAddr, d.raisedBy = NoAddr
    PROVE  Fold!FoldEscrowEvent(Null,
              [name |-> "Deposited", client |-> c, developer |-> dev, arbiter |-> arb,
               feeRecipient |-> fee, amount |-> amount, deliveryDeadline |-> deadline,
               termsHash |-> h], t)
           = View([client |-> c, developer |-> dev, arbiter |-> arb, feeRecipient |-> fee,
                   amount |-> amount, depositedAt |-> t, deliveryDeadline |-> deadline,
                   termsHash |-> h, deliveryHash |-> NoHash, phase |-> "FUNDED",
                   resolutionKind |-> "NONE"], p, d)
BY SMT DEF Fold!FoldEscrowEvent, Fold!Acceptable, Fold!Folded, View, HashView, DisputeView

(* folding WorkSubmitted sets the delivery *)
LEMMA FoldWorkSubmitted ==
    ASSUME NEW x \in EscrowType, NEW p \in SettlementType, NEW d \in DisputeType,
           NEW t, NEW h \in Hashes, x.phase = "FUNDED", t <= x.deliveryDeadline
    PROVE  Fold!FoldEscrowEvent(View(x, p, d),
              [name |-> "WorkSubmitted", developer |-> x.developer, deliveryHash |-> h], t)
           = View([x EXCEPT !.deliveryHash = h], p, d)
<1> DEFINE s == View(x, p, d)
           event == [name |-> "WorkSubmitted", developer |-> x.developer, deliveryHash |-> h]
<1>1. [s EXCEPT !.deliveryHash = h] = View([x EXCEPT !.deliveryHash = h], p, d)
  BY ViewDelivery
<1>2. /\ s # Null /\ s.phase = x.phase /\ s.developer = x.developer
      /\ s.deliveryDeadline = x.deliveryDeadline
  BY ViewFields, Zenon
<1> HIDE DEF s
<1>3. Fold!Acceptable(s, event, t)
  BY <1>2, EscrowAssumption, SMT DEF Fold!Acceptable
<1>4. Fold!Folded(s, event, t) = [s EXCEPT !.deliveryHash = h]
  BY SMT DEF Fold!Folded
<1> QED
  BY <1>1, <1>3, <1>4, Zenon DEF Fold!FoldEscrowEvent, s

(* folding SettlementProposed sets the proposal *)
LEMMA FoldSettlementProposed ==
    ASSUME NEW x \in EscrowType, NEW p \in SettlementType, NEW d \in DisputeType,
           NEW t, NEW a \in {x.client, x.developer}, a # NoAddr, NEW b,
           [proposer |-> a, clientBps |-> b] \in SettlementType,
           x.phase # "RESOLVED", p.proposer = NoAddr
    PROVE  Fold!FoldEscrowEvent(View(x, p, d),
              [name |-> "SettlementProposed", proposer |-> a, clientBps |-> b], t)
           = View(x, [proposer |-> a, clientBps |-> b], d)
<1> DEFINE s == View(x, p, d)
           q == [proposer |-> a, clientBps |-> b]
           event == [name |-> "SettlementProposed", proposer |-> a, clientBps |-> b]
<1>1. [s EXCEPT !.settlement = q] = View(x, q, d)
  BY ViewSettlement
<1>2. /\ s # Null /\ s.phase = x.phase /\ s.developer = x.developer /\ s.client = x.client
      /\ s.settlement = Null
  BY ViewFields, Zenon
<1> HIDE DEF s
<1>3. Fold!Acceptable(s, event, t)
  BY <1>2, SMT DEF Fold!Acceptable, Fold!IsParty
<1>4. Fold!Folded(s, event, t) = [s EXCEPT !.settlement = q]
  BY SMT DEF Fold!Folded
<1> QED
  BY <1>1, <1>3, <1>4, Zenon DEF Fold!FoldEscrowEvent, s

(* folding SettlementRevoked clears it *)
LEMMA FoldSettlementRevoked ==
    ASSUME NEW x \in EscrowType, NEW p \in SettlementType, NEW d \in DisputeType,
           NEW t, x.phase # "RESOLVED", p.proposer # NoAddr
    PROVE  Fold!FoldEscrowEvent(View(x, p, d),
              [name |-> "SettlementRevoked", proposer |-> p.proposer], t)
           = View(x, NoSettlement, d)
<1> DEFINE s == View(x, p, d)
           event == [name |-> "SettlementRevoked", proposer |-> p.proposer]
<1>1. [s EXCEPT !.settlement = Null] = View(x, NoSettlement, d)
  BY ViewSettlement DEF NoSettlement
<1>3. s # Null /\ s.phase = x.phase /\ s.settlement # Null /\ s.settlement = p
  BY ViewFields, Zenon
<1> HIDE DEF s
<1>4. Fold!Acceptable(s, event, t)
  BY <1>3, SMT DEF Fold!Acceptable
<1>5. Fold!Folded(s, event, t) = [s EXCEPT !.settlement = Null]
  BY SMT DEF Fold!Folded
<1> QED
  BY <1>1, <1>4, <1>5, Zenon DEF Fold!FoldEscrowEvent, s

(* what the records of an escrow must show before each event *)
Marks(x, p, d) ==
    /\ x.client = NoAddr => p.proposer = NoAddr /\ d.raisedBy = NoAddr
    /\ x.phase \in {"DISPUTED", "INITIAL_RULING", "CHALLENGED", "FINAL_RULING"} =>
         d.raisedBy # NoAddr
    /\ x.phase = "INITIAL_RULING" => d.initialRulingAt # 0 /\ d.initialDecisionHash # NoHash
    /\ x.phase = "CHALLENGED" => d.challengedAt # 0
    /\ x.phase = "FINAL_RULING" => d.finalRulingAt # 0 /\ d.finalDecisionHash # NoHash

InDispute(x, q, e) == [x EXCEPT !.phase = q, !.dispute = e]

(* phase and dispute set on the view are set on the records *)
LEMMA ViewDisputeCall ==
    ASSUME NEW x \in EscrowType, NEW p, NEW d, NEW e, NEW q
    PROVE  InDispute(View(x, p, d), q, DisputeView(e)) = View(AtPhase(x, q), p, e)
<1>1. AtPhase(View(x, p, d), q) = View(AtPhase(x, q), p, d)
  BY ViewPhase, SMT
<1>2. [View(AtPhase(x, q), p, d) EXCEPT !.dispute = DisputeView(e)] = View(AtPhase(x, q), p, e)
  BY ViewDispute
<1>3. InDispute(View(x, p, d), q, DisputeView(e))
      = [AtPhase(View(x, p, d), q) EXCEPT !.dispute = DisputeView(e)]
  BY Zenon DEF InDispute, AtPhase
<1> QED
  BY <1>1, <1>2, <1>3, Zenon

RaisedRecord(a, t, h) ==
    [NoDispute EXCEPT !.raisedBy = a, !.raisedAt = t, !.raiserEvidenceHash = h]

(* folding DisputeRaised opens the dispute *)
LEMMA FoldDisputeRaised ==
    ASSUME NEW x \in EscrowType, NEW p \in SettlementType, NEW d \in DisputeType,
           NEW t \in Nat \ {0}, NEW a \in {x.client, x.developer}, a # NoAddr, NEW h \in Hashes,
           x.phase = "FUNDED"
    PROVE  Fold!FoldEscrowEvent(View(x, p, d),
              [name |-> "DisputeRaised", raisedBy |-> a, evidenceManifestHash |-> h], t)
           = View(AtPhase(x, "DISPUTED"), p, RaisedRecord(a, t, h))
<1> DEFINE s == View(x, p, d)
           e == RaisedRecord(a, t, h)
           event == [name |-> "DisputeRaised", raisedBy |-> a, evidenceManifestHash |-> h]
<1>1. Fold!NewDispute(event, t) = DisputeView(e)
  <2>1. e = [raisedBy |-> a, raisedAt |-> t, raiserEvidenceHash |-> h,
             counterpartyEvidenceHash |-> NoHash,
             initialClientBps |-> 0, initialRulingAt |-> 0, initialDecisionHash |-> NoHash,
             challengedAt |-> 0,
             finalClientBps |-> 0, finalRulingAt |-> 0, finalDecisionHash |-> NoHash]
    <3> DEFINE v1 == [NoDispute EXCEPT !.raisedBy = a]
               v2 == [v1 EXCEPT !.raisedAt = t]
    <3>1. v1 = [raisedBy |-> a, raisedAt |-> 0, raiserEvidenceHash |-> NoHash,
             counterpartyEvidenceHash |-> NoHash,
             initialClientBps |-> 0, initialRulingAt |-> 0, initialDecisionHash |-> NoHash,
             challengedAt |-> 0,
             finalClientBps |-> 0, finalRulingAt |-> 0, finalDecisionHash |-> NoHash]
      BY SMT DEF NoDispute
    <3>2. v2 = [raisedBy |-> a, raisedAt |-> t, raiserEvidenceHash |-> NoHash,
             counterpartyEvidenceHash |-> NoHash,
             initialClientBps |-> 0, initialRulingAt |-> 0, initialDecisionHash |-> NoHash,
             challengedAt |-> 0,
             finalClientBps |-> 0, finalRulingAt |-> 0, finalDecisionHash |-> NoHash]
      <4> HIDE DEF v1
      <4> QED
        BY <3>1, SMT
    <3>3. e = [v2 EXCEPT !.raiserEvidenceHash = h]
      BY Zenon DEF RaisedRecord
    <3> HIDE DEF e, v2
    <3> QED
      BY <3>2, <3>3, SMT
  <2> HIDE DEF e
  <2> QED
    BY <2>1, SMT DEF Fold!NewDispute, DisputeView, HashView, TimeView
<1>2. InDispute(s, "DISPUTED", DisputeView(e)) = View(AtPhase(x, "DISPUTED"), p, e)
  BY ViewDisputeCall, SMT
<1>3. /\ s # Null /\ s.phase = x.phase /\ s.developer = x.developer /\ s.client = x.client
  BY ViewFields, Zenon
<1> HIDE DEF s, e
<1>4. Fold!Acceptable(s, event, t)
  BY <1>3, EscrowAssumption, SMT DEF Fold!Acceptable, Fold!IsParty
<1>5. Fold!Folded(s, event, t)
      = InDispute(s, "DISPUTED", Fold!NewDispute(event, t))
  BY SMT DEF Fold!Folded, InDispute
<1> QED
  BY <1>1, <1>2, <1>4, <1>5, Zenon DEF Fold!FoldEscrowEvent, s, e

(* folding the counterparty's evidence adds it within its window *)
LEMMA FoldCounterpartyEvidence ==
    ASSUME NEW x \in EscrowType, NEW p \in SettlementType, NEW d \in DisputeType,
           NEW t \in Nat \ {0}, NEW a, NEW h \in Hashes,
           x.phase = "DISPUTED", Marks(x, p, d),
           a = IF d.raisedBy = x.client THEN x.developer ELSE x.client,
           d.counterpartyEvidenceHash = NoHash, t < d.raisedAt + EVIDENCE_RESPONSE_PERIOD
    PROVE  Fold!FoldEscrowEvent(View(x, p, d),
              [name |-> "CounterpartyEvidenceSubmitted", submittedBy |-> a,
               evidenceManifestHash |-> h], t)
           = View(x, p, [d EXCEPT !.counterpartyEvidenceHash = h])
<1> DEFINE s == View(x, p, d)
           e == [d EXCEPT !.counterpartyEvidenceHash = h]
           event == [name |-> "CounterpartyEvidenceSubmitted", submittedBy |-> a,
                     evidenceManifestHash |-> h]
<1>0. d.raisedBy # NoAddr
  BY DEF Marks
<1>1. [s EXCEPT !.dispute = DisputeView(e)] = View(x, p, e)
  BY ViewDispute
<1>2. [DisputeView(d) EXCEPT !.counterpartyEvidenceHash = h] = DisputeView(e)
  BY <1>0, ViewEvidence
<1>3. /\ s # Null /\ s.phase = x.phase /\ s.developer = x.developer /\ s.client = x.client
      /\ s.dispute = DisputeView(d)
  BY ViewFields, Zenon
<1>4. /\ s.dispute # Null /\ s.dispute.raisedBy = d.raisedBy /\ s.dispute.raisedAt = d.raisedAt
      /\ s.dispute.counterpartyEvidenceHash = Null
  BY <1>0, <1>3, DisputeFields, Zenon
<1> HIDE DEF s, e
<1>5. Fold!Acceptable(s, event, t)
  BY <1>3, <1>4, EscrowAssumption, SMT DEF Fold!Acceptable
<1>6. Fold!Folded(s, event, t)
      = [s EXCEPT !.dispute = [s.dispute EXCEPT !.counterpartyEvidenceHash = h]]
  BY SMT DEF Fold!Folded
<1> QED
  BY <1>1, <1>2, <1>3, <1>5, <1>6, Zenon DEF Fold!FoldEscrowEvent, s, e

(* folding the first ruling adds it within its window *)
LEMMA FoldInitialRuling ==
    ASSUME NEW x \in EscrowType, NEW p \in SettlementType, NEW d \in DisputeType,
           NEW t \in Nat \ {0}, NEW b, NEW h \in Hashes,
           x.phase = "DISPUTED", Marks(x, p, d),
           t >= d.raisedAt + EVIDENCE_RESPONSE_PERIOD, t < d.raisedAt + ARBITER_STALL_PERIOD
    PROVE  Fold!FoldEscrowEvent(View(x, p, d),
              [name |-> "InitialRulingPosted", arbiter |-> x.arbiter, clientBps |-> b,
               decisionHash |-> h, challengeEndsAt |-> t + CHALLENGE_PERIOD], t)
           = View(AtPhase(x, "INITIAL_RULING"), p, PutInitial(d, b, t, h))
<1> DEFINE s == View(x, p, d)
           e == PutInitial(d, b, t, h)
           event == [name |-> "InitialRulingPosted", arbiter |-> x.arbiter, clientBps |-> b,
                     decisionHash |-> h, challengeEndsAt |-> t + CHALLENGE_PERIOD]
<1>0. d.raisedBy # NoAddr
  BY DEF Marks
<1>1. InDispute(s, "INITIAL_RULING", DisputeView(e)) = View(AtPhase(x, "INITIAL_RULING"), p, e)
  BY ViewDisputeCall, SMT
<1>2. PutInitial(DisputeView(d), b, t, h) = DisputeView(e)
  BY <1>0, ViewInitialRuling
<1>3. /\ s # Null /\ s.phase = x.phase /\ s.arbiter = x.arbiter /\ s.dispute = DisputeView(d)
  BY ViewFields, Zenon
<1>4. s.dispute # Null /\ s.dispute.raisedAt = d.raisedAt
  BY <1>0, <1>3, DisputeFields, Zenon
<1> HIDE DEF s, e
<1>5. Fold!Acceptable(s, event, t)
  BY <1>3, <1>4, EscrowAssumption, SMT DEF Fold!Acceptable
<1>6. Fold!Folded(s, event, t)
      = InDispute(s, "INITIAL_RULING", PutInitial(s.dispute, b, t, h))
  BY SMT DEF Fold!Folded, PutInitial, InDispute
<1>7. Fold!FoldEscrowEvent(s, event, t) = View(AtPhase(x, "INITIAL_RULING"), p, e)
  BY <1>1, <1>2, <1>3, <1>5, <1>6, Zenon DEF Fold!FoldEscrowEvent
<1> QED
  BY <1>7, Zenon DEF s, e

(* folding a challenge adds it within its window *)
LEMMA FoldRulingChallenged ==
    ASSUME NEW x \in EscrowType, NEW p \in SettlementType, NEW d \in DisputeType,
           NEW t \in Nat \ {0}, NEW a,
           x.phase = "INITIAL_RULING", Marks(x, p, d),
           t < d.initialRulingAt + CHALLENGE_PERIOD,
           \/ a = x.client /\ d.initialClientBps < MAX_BPS
           \/ a = x.developer /\ d.initialClientBps > 0
    PROVE  Fold!FoldEscrowEvent(View(x, p, d),
              [name |-> "RulingChallenged", challengedBy |-> a, challengedAt |-> t], t)
           = View(AtPhase(x, "CHALLENGED"), p, [d EXCEPT !.challengedAt = t])
<1> DEFINE s == View(x, p, d)
           e == [d EXCEPT !.challengedAt = t]
           event == [name |-> "RulingChallenged", challengedBy |-> a, challengedAt |-> t]
<1>0. d.raisedBy # NoAddr /\ d.initialRulingAt # 0
  BY DEF Marks
<1>1. InDispute(s, "CHALLENGED", DisputeView(e)) = View(AtPhase(x, "CHALLENGED"), p, e)
  BY ViewDisputeCall, SMT
<1>2. [DisputeView(d) EXCEPT !.challengedAt = t] = DisputeView(e)
  BY <1>0, ViewChallenge
<1>3. /\ s # Null /\ s.phase = x.phase /\ s.developer = x.developer /\ s.client = x.client
      /\ s.dispute = DisputeView(d)
  BY ViewFields, Zenon
<1>4. /\ s.dispute # Null /\ s.dispute.initialRulingAt = d.initialRulingAt
      /\ s.dispute.initialRulingAt # Null /\ s.dispute.initialClientBps = d.initialClientBps
  BY <1>0, <1>3, DisputeFields, Zenon
<1> HIDE DEF s, e
<1>5. Fold!Acceptable(s, event, t)
  BY <1>3, <1>4, SMT DEF Fold!Acceptable
<1>6. Fold!Folded(s, event, t)
      = InDispute(s, "CHALLENGED", [s.dispute EXCEPT !.challengedAt = t])
  BY SMT DEF Fold!Folded, InDispute
<1> QED
  BY <1>1, <1>2, <1>3, <1>5, <1>6, Zenon DEF Fold!FoldEscrowEvent, s, e

(* folding the final ruling adds it within its window *)
LEMMA FoldFinalRuling ==
    ASSUME NEW x \in EscrowType, NEW p \in SettlementType, NEW d \in DisputeType,
           NEW t \in Nat \ {0}, NEW b, NEW h \in Hashes,
           x.phase = "CHALLENGED", Marks(x, p, d), t < d.challengedAt + ARBITER_STALL_PERIOD
    PROVE  Fold!FoldEscrowEvent(View(x, p, d),
              [name |-> "FinalRulingPosted", arbiter |-> x.arbiter, clientBps |-> b,
               decisionHash |-> h, noticeEndsAt |-> t + FINAL_RULING_NOTICE_PERIOD], t)
           = View(AtPhase(x, "FINAL_RULING"), p, PutFinal(d, b, t, h))
<1> DEFINE s == View(x, p, d)
           e == PutFinal(d, b, t, h)
           event == [name |-> "FinalRulingPosted", arbiter |-> x.arbiter, clientBps |-> b,
                     decisionHash |-> h, noticeEndsAt |-> t + FINAL_RULING_NOTICE_PERIOD]
<1>0. d.raisedBy # NoAddr /\ d.challengedAt # 0
  BY DEF Marks
<1>1. InDispute(s, "FINAL_RULING", DisputeView(e)) = View(AtPhase(x, "FINAL_RULING"), p, e)
  BY ViewDisputeCall, SMT
<1>2. PutFinal(DisputeView(d), b, t, h) = DisputeView(e)
  BY <1>0, ViewFinalRuling
<1>3. /\ s # Null /\ s.phase = x.phase /\ s.arbiter = x.arbiter /\ s.dispute = DisputeView(d)
  BY ViewFields, Zenon
<1>4. /\ s.dispute # Null /\ s.dispute.challengedAt = d.challengedAt
      /\ s.dispute.challengedAt # Null
  BY <1>0, <1>3, DisputeFields, Zenon
<1> HIDE DEF s, e
<1>5. Fold!Acceptable(s, event, t)
  BY <1>3, <1>4, EscrowAssumption, SMT DEF Fold!Acceptable
<1>6. Fold!Folded(s, event, t)
      = InDispute(s, "FINAL_RULING", PutFinal(s.dispute, b, t, h))
  BY SMT DEF Fold!Folded, PutFinal, InDispute
<1>7. Fold!FoldEscrowEvent(s, event, t) = View(AtPhase(x, "FINAL_RULING"), p, e)
  BY <1>1, <1>2, <1>3, <1>5, <1>6, Zenon DEF Fold!FoldEscrowEvent
<1> QED
  BY <1>7, Zenon DEF s, e

(* the fold's conditions and terms of a resolution are these *)
Due(x, p, d, t, k, b, h) ==
    /\ Fold!ResolutionPossible(View(x, p, d), k, t)
    /\ Fold!ResolutionTerms(View(x, p, d), k) = [clientBps |-> b, decisionHash |-> h]

AsResolved(x, k) == [x EXCEPT !.phase = "RESOLVED", !.resolutionKind = k]

(* resolving the view and clearing its settlement is resolving the record *)
LEMMA ViewResolved ==
    ASSUME NEW x \in EscrowType, NEW p, NEW d, NEW k
    PROVE  [AsResolved(View(x, p, d), k) EXCEPT !.settlement = Null]
           = View(AsResolved(x, k), NoSettlement, d)
<1> DEFINE y == AtPhase(x, "RESOLVED")
           z == [y EXCEPT !.resolutionKind = k]
<1>1. AtPhase(View(x, p, d), "RESOLVED") = View(y, p, d)
  BY ViewPhase, SMT
<1>2. y \in EscrowType
  BY SMT DEF AtPhase, EscrowType, Phase
<1>3. /\ AsResolved(x, k) = z
      /\ AsResolved(View(x, p, d), k)
           = [AtPhase(View(x, p, d), "RESOLVED") EXCEPT !.resolutionKind = k]
  BY Zenon DEF AsResolved, AtPhase
<1> HIDE DEF y
<1>4. [View(y, p, d) EXCEPT !.resolutionKind = k] = View(z, p, d)
  BY <1>2, SMT DEF View, EscrowType
<1> HIDE DEF z
<1>5. [View(z, p, d) EXCEPT !.settlement = Null] = View(z, NoSettlement, d)
  BY ViewSettlement DEF NoSettlement
<1>6. AsResolved(View(x, p, d), k) = View(z, p, d)
  BY <1>1, <1>3, <1>4, Zenon
<1> QED
  BY <1>3, <1>5, <1>6, Zenon

(* folding EscrowResolved accepts the terms that are due and resolves *)
LEMMA FoldResolved ==
    ASSUME NEW x \in EscrowType, NEW p \in SettlementType, NEW d \in DisputeType,
           NEW t, NEW k, NEW b, NEW h, x.phase # "RESOLVED", Due(x, p, d, t, k, b, h)
    PROVE  Fold!FoldEscrowEvent(View(x, p, d),
              [name |-> "EscrowResolved", resolution |-> k,
               clientAmount |-> Shares(x.amount, b).clientAmount,
               developerAmount |-> Shares(x.amount, b).developerAmount,
               platformFee |-> Shares(x.amount, b).platformFee, decisionHash |-> h], t)
           = View(AsResolved(x, k), NoSettlement, d)
<1> DEFINE s == View(x, p, d)
           m == Shares(x.amount, b)
           event == [name |-> "EscrowResolved", resolution |-> k, clientAmount |-> m.clientAmount,
                     developerAmount |-> m.developerAmount, platformFee |-> m.platformFee,
                     decisionHash |-> h]
<1>1. s # Null /\ s.phase = x.phase /\ s.amount = x.amount
  BY ViewFields, Zenon
<1>2. Fold!ResolutionPossible(s, k, t)
  BY DEF Due
<1>3. Fold!ResolutionTerms(s, k) = [clientBps |-> b, decisionHash |-> h]
  BY DEF Due
<1>4. LET split == Fold!SplitPayout(x.amount, PLATFORM_FEE_BPS, b) IN
      m.clientAmount = split.client /\ m.developerAmount = split.developer
      /\ m.platformFee = split.fee
  BY SMT DEF Shares, Fold!SplitPayout, MulBps, Fold!MulBps
<1> HIDE DEF s, m
<1>5. Fold!PayoutMatches(s, event)
  BY <1>1, <1>3, <1>4, SMT DEF Fold!PayoutMatches
<1>6. Fold!Acceptable(s, event, t)
  BY <1>1, <1>2, <1>5, SMT DEF Fold!Acceptable
<1>7. Fold!Folded(s, event, t) = [AsResolved(s, k) EXCEPT !.settlement = Null]
  BY SMT DEF Fold!Folded, AsResolved
<1>8. Fold!FoldEscrowEvent(s, event, t) = View(AsResolved(x, k), NoSettlement, d)
  <2>1. Fold!Folded(s, event, t) = View(AsResolved(x, k), NoSettlement, d)
    BY <1>7, ViewResolved DEF s
  <2> QED
    BY <1>6, <2>1, Zenon DEF Fold!FoldEscrowEvent
<1> QED
  BY <1>8, Zenon DEF s, m

-----------------------------------------------------------------------------
(* Call by call.  A call that resolves escrow e is due in the fold's eyes too, on *)
(* the contract's terms.                                                          *)

DueAt(e, k, b, h) == Due(escrow[e], settlement[e], dispute[e], now, k, b, h)

(* a call that resolves does so on the terms the fold computes again *)
LEMMA ResolvingCallsDue ==
    ASSUME TypeOK, NEW e \in Ids, NEW sender \in Addr, ResolvingCall(sender, e),
           Marks(escrow[e], settlement[e], dispute[e])
    PROVE  /\ Exists(e)
           /\ \E b \in 0..MAX_BPS, k \in ResolutionKind, h \in Hashes \cup {NoHash} :
                 Resolve(e, b, k, h) /\ DueAt(e, k, b, h)
<1> DEFINE x == escrow[e]
           p == settlement[e]
           d == dispute[e]
           s == View(x, p, d)
<1>1. 0 \in 0..MAX_BPS /\ MAX_BPS \in 0..MAX_BPS /\ MAX_BPS \div 2 \in 0..MAX_BPS
  BY BpsAssumption, SMT
<1>2. /\ x \in EscrowType /\ p \in SettlementType /\ d \in DisputeType /\ now \in Nat
      /\ p.clientBps \in 0..MAX_BPS
      /\ d.initialClientBps \in 0..MAX_BPS /\ d.finalClientBps \in 0..MAX_BPS
      /\ d.initialDecisionHash \in Hashes \cup {NoHash}
      /\ d.finalDecisionHash \in Hashes \cup {NoHash}
  BY SMT DEF TypeOK, SettlementType, DisputeType
<1>3. {"RELEASE", "MISSED_DELIVERY_REFUND", "REVIEW_TIMEOUT", "SETTLEMENT", "RULING",
       "ARBITER_TIMEOUT_SPLIT"} \subseteq ResolutionKind
  BY DEF ResolutionKind
<1>4. /\ s.phase = x.phase /\ s.deliveryDeadline = x.deliveryDeadline
      /\ s.deliveryHash = Null <=> x.deliveryHash = NoHash
      /\ p.proposer # NoAddr => s.settlement # Null /\ s.settlement = p
      /\ s.dispute = DisputeView(d)
  BY <1>2, ViewFields, Zenon
<1>5. d.raisedBy # NoAddr =>
         /\ s.dispute # Null /\ s.dispute.raisedAt = d.raisedAt
         /\ d.initialRulingAt # 0 => /\ s.dispute.initialRulingAt = d.initialRulingAt
                                     /\ s.dispute.initialRulingAt # Null
                                     /\ s.dispute.initialClientBps = d.initialClientBps
         /\ d.challengedAt # 0 => /\ s.dispute.challengedAt = d.challengedAt
                                  /\ s.dispute.challengedAt # Null
         /\ d.finalRulingAt # 0 => /\ s.dispute.finalRulingAt = d.finalRulingAt
                                   /\ s.dispute.finalRulingAt # Null
                                   /\ s.dispute.finalClientBps = d.finalClientBps
         /\ d.initialDecisionHash # NoHash =>
              s.dispute.initialDecisionHash = d.initialDecisionHash
         /\ d.finalDecisionHash # NoHash => s.dispute.finalDecisionHash = d.finalDecisionHash
  BY <1>2, <1>4, DisputeFields, Zenon
<1>6. Marks(x, p, d)
  OBVIOUS
<1> HIDE DEF s
<1>7. CASE ReleaseFunds(sender, e)
  <2>1. /\ x.phase = "FUNDED" /\ x.deliveryHash # NoHash
        /\ Resolve(e, 0, "RELEASE", NoHash) /\ Exists(e)
    BY <1>7, Zenon DEF ReleaseFunds, InPhase
  <2>2. Fold!ResolutionPossible(s, "RELEASE", now)
    BY <1>4, <2>1, SMT DEF Fold!ResolutionPossible
  <2>3. Fold!ResolutionTerms(s, "RELEASE") = [clientBps |-> 0, decisionHash |-> NoHash]
    BY <1>4, <2>1, SMT DEF Fold!ResolutionTerms
  <2>4. DueAt(e, "RELEASE", 0, NoHash)
    BY <2>2, <2>3, Zenon DEF DueAt, Due, s
  <2> QED
    BY <1>1, <1>2, <1>3, <2>1, <2>4, Zenon
<1>8. CASE AcceptSettlement(sender, e)
  <2>1. /\ p.proposer # NoAddr
        /\ Resolve(e, p.clientBps, "SETTLEMENT", NoHash) /\ Exists(e)
    BY <1>8, Zenon DEF AcceptSettlement
  <2>2. Fold!ResolutionPossible(s, "SETTLEMENT", now)
    BY <1>4, <2>1, SMT DEF Fold!ResolutionPossible
  <2>3. Fold!ResolutionTerms(s, "SETTLEMENT") = [clientBps |-> p.clientBps, decisionHash |-> NoHash]
    BY <1>4, <2>1, SMT DEF Fold!ResolutionTerms
  <2>4. DueAt(e, "SETTLEMENT", p.clientBps, NoHash)
    BY <2>2, <2>3, Zenon DEF DueAt, Due, s
  <2> QED
    BY <1>1, <1>2, <1>3, <2>1, <2>4, Zenon
<1>9. CASE ClaimMissedDeliveryRefund(e)
  <2>1. /\ x.phase = "FUNDED" /\ x.deliveryHash = NoHash /\ now > x.deliveryDeadline
        /\ Resolve(e, MAX_BPS, "MISSED_DELIVERY_REFUND", NoHash) /\ Exists(e)
    BY <1>9, Zenon DEF ClaimMissedDeliveryRefund, InPhase
  <2>2. Fold!ResolutionPossible(s, "MISSED_DELIVERY_REFUND", now)
    BY <1>4, <2>1, SMT DEF Fold!ResolutionPossible
  <2>3. Fold!ResolutionTerms(s, "MISSED_DELIVERY_REFUND")
        = [clientBps |-> MAX_BPS, decisionHash |-> NoHash]
    BY <1>4, <2>1, SMT DEF Fold!ResolutionTerms
  <2>4. DueAt(e, "MISSED_DELIVERY_REFUND", MAX_BPS, NoHash)
    BY <2>2, <2>3, Zenon DEF DueAt, Due, s
  <2> QED
    BY <1>1, <1>2, <1>3, <2>1, <2>4, Zenon
<1>10. CASE ClaimReviewTimeout(e)
  <2>1. /\ x.phase = "FUNDED"
        /\ x.deliveryHash # NoHash
        /\ now >= x.deliveryDeadline + REVIEW_PERIOD
        /\ Resolve(e, 0, "REVIEW_TIMEOUT", NoHash) /\ Exists(e)
    BY <1>10, Zenon DEF ClaimReviewTimeout, InPhase
  <2>2. Fold!ResolutionPossible(s, "REVIEW_TIMEOUT", now)
    BY <1>4, <2>1, SMT DEF Fold!ResolutionPossible
  <2>3. Fold!ResolutionTerms(s, "REVIEW_TIMEOUT") = [clientBps |-> 0, decisionHash |-> NoHash]
    BY <1>4, <2>1, SMT DEF Fold!ResolutionTerms
  <2>4. DueAt(e, "REVIEW_TIMEOUT", 0, NoHash)
    BY <2>2, <2>3, Zenon DEF DueAt, Due, s
  <2> QED
    BY <1>1, <1>2, <1>3, <2>1, <2>4, Zenon
<1>11. CASE FinalizeInitialRuling(e)
  <2>1. /\ x.phase = "INITIAL_RULING" /\ now >= d.initialRulingAt + CHALLENGE_PERIOD
        /\ Resolve(e, d.initialClientBps, "RULING", d.initialDecisionHash) /\ Exists(e)
    BY <1>11, Zenon DEF FinalizeInitialRuling, InPhase
  <2>5. d.raisedBy # NoAddr /\ d.initialRulingAt # 0 /\ d.initialDecisionHash # NoHash
    BY <1>6, <2>1, Zenon DEF Marks
  <2>6. /\ s.dispute # Null /\ s.dispute.initialRulingAt = d.initialRulingAt
        /\ s.dispute.initialRulingAt # Null /\ s.dispute.initialClientBps = d.initialClientBps
        /\ s.dispute.initialDecisionHash = d.initialDecisionHash
    BY <1>5, <2>5, Zenon
  <2>2. Fold!ResolutionPossible(s, "RULING", now)
    BY <1>4, <2>1, <2>6, SMT DEF Fold!ResolutionPossible, Fold!RulingFinal
  <2>3. Fold!ResolutionTerms(s, "RULING")
        = [clientBps |-> d.initialClientBps, decisionHash |-> d.initialDecisionHash]
    BY <1>4, <2>1, <2>6, SMT DEF Fold!ResolutionTerms
  <2>4. DueAt(e, "RULING", d.initialClientBps, d.initialDecisionHash)
    BY <2>2, <2>3, Zenon DEF DueAt, Due, s
  <2> QED
    BY <1>1, <1>2, <1>3, <2>1, <2>4, Zenon
<1>12. CASE FinalizeFinalRuling(e)
  <2>1. /\ x.phase = "FINAL_RULING" /\ now >= d.finalRulingAt + FINAL_RULING_NOTICE_PERIOD
        /\ Resolve(e, d.finalClientBps, "RULING", d.finalDecisionHash) /\ Exists(e)
    BY <1>12, Zenon DEF FinalizeFinalRuling, InPhase
  <2>5. d.raisedBy # NoAddr /\ d.finalRulingAt # 0 /\ d.finalDecisionHash # NoHash
    BY <1>6, <2>1, Zenon DEF Marks
  <2>6. /\ s.dispute # Null /\ s.dispute.finalRulingAt = d.finalRulingAt
        /\ s.dispute.finalRulingAt # Null /\ s.dispute.finalClientBps = d.finalClientBps
        /\ s.dispute.finalDecisionHash = d.finalDecisionHash
    BY <1>5, <2>5, Zenon
  <2>2. Fold!ResolutionPossible(s, "RULING", now)
    BY <1>4, <2>1, <2>6, SMT DEF Fold!ResolutionPossible, Fold!RulingFinal
  <2>3. Fold!ResolutionTerms(s, "RULING")
        = [clientBps |-> d.finalClientBps, decisionHash |-> d.finalDecisionHash]
    BY <1>4, <2>1, <2>6, SMT DEF Fold!ResolutionTerms
  <2>4. DueAt(e, "RULING", d.finalClientBps, d.finalDecisionHash)
    BY <2>2, <2>3, Zenon DEF DueAt, Due, s
  <2> QED
    BY <1>1, <1>2, <1>3, <2>1, <2>4, Zenon
<1>13. CASE FinalizeArbiterTimeoutSplit(e)
  <2>1. /\ x.phase \in {"DISPUTED", "CHALLENGED"} /\ now >= StallDeadline(e)
        /\ Resolve(e, MAX_BPS \div 2, "ARBITER_TIMEOUT_SPLIT", NoHash) /\ Exists(e)
    BY <1>13, Zenon DEF FinalizeArbiterTimeoutSplit
  <2>5. d.raisedBy # NoAddr /\ (x.phase = "CHALLENGED" => d.challengedAt # 0)
    BY <1>6, <2>1, Zenon DEF Marks
  <2>6. /\ s.dispute # Null /\ s.dispute.raisedAt = d.raisedAt
        /\ x.phase = "CHALLENGED" => /\ s.dispute.challengedAt = d.challengedAt
                                     /\ s.dispute.challengedAt # Null
    BY <1>5, <2>5, Zenon
  <2>2. Fold!ResolutionPossible(s, "ARBITER_TIMEOUT_SPLIT", now)
    BY <1>4, <2>1, <2>6, SMT DEF Fold!ResolutionPossible, Fold!ArbiterStalled, StallDeadline
  <2>3. Fold!ResolutionTerms(s, "ARBITER_TIMEOUT_SPLIT")
        = [clientBps |-> MAX_BPS \div 2, decisionHash |-> NoHash]
    BY <1>4, <2>1, <2>6, SMT DEF Fold!ResolutionTerms
  <2>4. DueAt(e, "ARBITER_TIMEOUT_SPLIT", MAX_BPS \div 2, NoHash)
    BY <2>2, <2>3, Zenon DEF DueAt, Due, s
  <2> QED
    BY <1>1, <1>2, <1>3, <2>1, <2>4, Zenon
<1> QED
  BY <1>7, <1>8, <1>9, <1>10, <1>11, <1>12, <1>13, Zenon DEF ResolvingCall, PermissionlessExit

-----------------------------------------------------------------------------
(* The invariant: the projection of each escrow is the view of its records, and the *)
(* records bear the marks the fold's checks rely on.                                *)

Mirrored ==
    /\ projection \in [Ids -> FoldState \cup {Null}]
    /\ ProjectionMatchesChain
    /\ \A e \in Ids : Marks(escrow[e], settlement[e], dispute[e])

MirrorInv == Inv /\ now # 0 /\ Mirrored /\ BalancesMatchChain

(* the records of every other escrow stay as they are *)
OnlyAt(e) == \A i \in Ids : i # e => UNCHANGED <<escrow[i], settlement[i], dispute[i]>>

(* an event that folds to the view of the new records keeps the mirror *)
LEMMA ProjectStep ==
    ASSUME Mirrored, TypeOK', NEW e \in Ids, NEW event, Project(e, event), OnlyAt(e), Exists(e)',
           Fold!FoldEscrowEvent(projection[e], event, now)
             = View(escrow'[e], settlement'[e], dispute'[e]),
           Marks(escrow'[e], settlement'[e], dispute'[e])
    PROVE  Mirrored'
<1> DEFINE v == View(escrow'[e], settlement'[e], dispute'[e])
<1>1. v \in FoldState
  <2>1. /\ escrow'[e] \in EscrowType /\ settlement'[e] \in SettlementType
        /\ dispute'[e] \in DisputeType
    BY DEF TypeOK
  <2> QED
    BY <2>1, ViewFields, Zenon
<1>2. projection' = [projection EXCEPT ![e] = v]
  BY Zenon DEF Project
<1> HIDE DEF v
<1>3. /\ projection' \in [Ids -> FoldState \cup {Null}] /\ projection'[e] = v
      /\ \A i \in Ids : i # e => projection'[i] = projection[i]
  BY <1>1, <1>2, SMT DEF Mirrored
<1>4. ProjectionMatchesChain'
  <2> SUFFICES ASSUME NEW i \in Ids
               PROVE  projection'[i] = IF Exists(i)' THEN ChainEscrow(i)' ELSE Null
    BY DEF ProjectionMatchesChain
  <2>1. CASE i = e
    BY <1>3, <2>1, Zenon DEF ChainEscrow, v
  <2>2. CASE i # e
    <3>1. /\ escrow'[i] = escrow[i] /\ settlement'[i] = settlement[i] /\ dispute'[i] = dispute[i]
          /\ projection'[i] = projection[i]
      BY <1>3, <2>2 DEF OnlyAt
    <3>2. projection[i] = IF Exists(i) THEN ChainEscrow(i) ELSE Null
      BY DEF Mirrored, ProjectionMatchesChain
    <3> QED
      BY <3>1, <3>2, Zenon DEF ChainEscrow, Exists
  <2> QED
    BY <2>1, <2>2
<1>5. \A i \in Ids : Marks(escrow'[i], settlement'[i], dispute'[i])
  <2> SUFFICES ASSUME NEW i \in Ids, i # e
               PROVE  Marks(escrow'[i], settlement'[i], dispute'[i])
    OBVIOUS
  <2> QED
    BY Zenon DEF OnlyAt, Mirrored
<1> QED
  BY <1>3, <1>4, <1>5 DEF Mirrored

(* the projection of a deposited escrow is the view of its records *)
LEMMA Projected ==
    ASSUME MirrorInv, NEW e \in Ids, Exists(e)
    PROVE  /\ projection[e] = View(escrow[e], settlement[e], dispute[e])
           /\ escrow[e] \in EscrowType /\ settlement[e] \in SettlementType
           /\ dispute[e] \in DisputeType /\ now \in Nat \ {0}
           /\ Marks(escrow[e], settlement[e], dispute[e])
<1>1. projection[e] = View(escrow[e], settlement[e], dispute[e])
  BY Zenon DEF MirrorInv, Mirrored, ProjectionMatchesChain, ChainEscrow
<1> QED
  BY <1>1 DEF MirrorInv, Mirrored, Inv, TypeOK

(* deposit is mirrored *)
LEMMA DepositMirrored ==
    ASSUME MirrorInv, TypeOK', NEW sender \in Addr, NEW e \in Ids, NEW developer \in Addr,
           NEW amount \in Amounts, NEW deadline \in Nat, NEW h \in Hashes,
           Deposit(sender, e, developer, amount, deadline, h),
           Emit(e, [name |-> "Deposited", client |-> sender, developer |-> developer,
                    arbiter |-> arbiter, feeRecipient |-> feeRecipient, amount |-> amount,
                    deliveryDeadline |-> deadline, termsHash |-> h])
    PROVE  Mirrored' /\ UNCHANGED <<claimable, balances>>
<1> DEFINE y == [client |-> sender, developer |-> developer, arbiter |-> arbiter,
                 feeRecipient |-> feeRecipient, amount |-> amount, depositedAt |-> now,
                 deliveryDeadline |-> deadline, termsHash |-> h,
                 deliveryHash |-> NoHash, phase |-> "FUNDED", resolutionKind |-> "NONE"]
           p == settlement[e]
           d == dispute[e]
<1>1. /\ ~Exists(e) /\ escrow' = [escrow EXCEPT ![e] = y] /\ developer # sender
      /\ settlement' = settlement /\ dispute' = dispute /\ claimable' = claimable
  BY Zenon DEF Deposit, recordVars
<1>2. escrow \in [Ids -> EscrowType] /\ projection[e] = Null /\ Marks(escrow[e], p, d)
  BY <1>1, Zenon DEF MirrorInv, Inv, TypeOK, Mirrored, ProjectionMatchesChain
<1>3. p.proposer = NoAddr /\ d.raisedBy = NoAddr
  BY <1>1, <1>2 DEF Marks, Exists
<1>4. y.client = sender /\ y.phase = "FUNDED" /\ sender # NoAddr
  BY AddrAssumption
<1>5. Fold!FoldEscrowEvent(Null,
         [name |-> "Deposited", client |-> sender, developer |-> developer, arbiter |-> arbiter,
          feeRecipient |-> feeRecipient, amount |-> amount, deliveryDeadline |-> deadline,
          termsHash |-> h], now) = View(y, p, d)
  BY <1>1, <1>3, FoldDeposited
<1> HIDE DEF y
<1>6. escrow'[e] = y /\ \A i \in Ids : i # e => escrow'[i] = escrow[i]
  BY <1>1, <1>2, SMT
<1>7. OnlyAt(e) /\ Exists(e)'
  BY <1>1, <1>4, <1>6, Zenon DEF OnlyAt, Exists
<1>8. Marks(y, p, d)
  BY <1>4, SMT DEF Marks
<1>9. Fold!FoldEscrowEvent(projection[e],
         [name |-> "Deposited", client |-> sender, developer |-> developer, arbiter |-> arbiter,
          feeRecipient |-> feeRecipient, amount |-> amount, deliveryDeadline |-> deadline,
          termsHash |-> h], now) = View(escrow'[e], settlement'[e], dispute'[e])
  BY <1>1, <1>2, <1>5, <1>6, Zenon
<1>10. Mirrored'
  BY <1>1, <1>6, <1>7, <1>8, <1>9, ProjectStep, Zenon DEF Emit, MirrorInv
<1> QED
  BY <1>1, <1>10 DEF Emit

(* submitWork is mirrored *)
LEMMA SubmitWorkMirrored ==
    ASSUME MirrorInv, TypeOK', NEW sender \in Addr, NEW e \in Ids, NEW h \in Hashes,
           SubmitWork(sender, e, h),
           Emit(e, [name |-> "WorkSubmitted", developer |-> sender, deliveryHash |-> h])
    PROVE  Mirrored' /\ UNCHANGED <<claimable, balances>>
<1> DEFINE x == escrow[e]
           y == [x EXCEPT !.deliveryHash = h]
           p == settlement[e]
           d == dispute[e]
<1>1. /\ Exists(e) /\ x.phase = "FUNDED" /\ sender = x.developer /\ now <= x.deliveryDeadline
      /\ settlement' = settlement /\ dispute' = dispute /\ claimable' = claimable
  BY Zenon DEF SubmitWork, InPhase, recordVars, moneyVars
<1>2. /\ projection[e] = View(x, p, d) /\ x \in EscrowType /\ p \in SettlementType
      /\ d \in DisputeType /\ Marks(x, p, d) /\ escrow \in [Ids -> EscrowType]
  BY <1>1, Projected, Zenon DEF MirrorInv, Inv, TypeOK
<1>3. Fold!FoldEscrowEvent(View(x, p, d),
         [name |-> "WorkSubmitted", developer |-> sender, deliveryHash |-> h], now)
      = View(y, p, d)
  BY <1>1, <1>2, FoldWorkSubmitted
<1>4. y.client = x.client /\ y.phase = "FUNDED"
  BY <1>1, <1>2, SMT DEF EscrowType
<1>5. escrow' = [escrow EXCEPT ![e] = y]
  BY Zenon DEF SubmitWork
<1> HIDE DEF y
<1>6. escrow'[e] = y /\ \A i \in Ids : i # e => escrow'[i] = escrow[i]
  BY <1>2, <1>5, SMT
<1>7. OnlyAt(e) /\ Exists(e)'
  BY <1>1, <1>4, <1>6, Zenon DEF OnlyAt, Exists
<1>8. Marks(y, p, d)
  BY <1>2, <1>4, SMT DEF Marks
<1>9. Fold!FoldEscrowEvent(projection[e],
         [name |-> "WorkSubmitted", developer |-> sender, deliveryHash |-> h], now)
      = View(escrow'[e], settlement'[e], dispute'[e])
  BY <1>1, <1>2, <1>3, <1>6, Zenon
<1>10. Mirrored'
  BY <1>1, <1>6, <1>7, <1>8, <1>9, ProjectStep, Zenon DEF Emit, MirrorInv
<1> QED
  BY <1>1, <1>10 DEF Emit

(* a call that changes only the proposal *)
LEMMA SettlementMirrored ==
    ASSUME MirrorInv, TypeOK', NEW e \in Ids, Exists(e), NEW q \in SettlementType, NEW event,
           settlement' = [settlement EXCEPT ![e] = q],
           escrow' = escrow, dispute' = dispute, Project(e, event),
           Fold!FoldEscrowEvent(View(escrow[e], settlement[e], dispute[e]), event, now)
             = View(escrow[e], q, dispute[e])
    PROVE  Mirrored'
<1> DEFINE x == escrow[e]
           d == dispute[e]
<1>1. projection[e] = View(x, settlement[e], d) /\ Marks(x, settlement[e], d)
  BY Projected, Zenon
<1>2. settlement'[e] = q /\ \A i \in Ids : i # e => settlement'[i] = settlement[i]
  BY SMT DEF MirrorInv, Inv, TypeOK
<1>3. OnlyAt(e) /\ Exists(e)'
  BY <1>2, Zenon DEF OnlyAt, Exists
<1>4. Marks(x, q, d)
  BY <1>1, SMT DEF Marks, Exists
<1>5. Fold!FoldEscrowEvent(projection[e], event, now)
        = View(escrow'[e], settlement'[e], dispute'[e])
  BY <1>1, <1>2, Zenon
<1> QED
  BY <1>2, <1>3, <1>4, <1>5, ProjectStep, Zenon DEF MirrorInv

(* proposeSettlement is mirrored *)
LEMMA ProposalMirrored ==
    ASSUME MirrorInv, TypeOK', NEW sender \in Addr, NEW e \in Ids, NEW bps \in Bps,
           ProposeSettlement(sender, e, bps),
           Emit(e, [name |-> "SettlementProposed", proposer |-> sender, clientBps |-> bps])
    PROVE  Mirrored' /\ UNCHANGED <<claimable, balances>>
<1> DEFINE x == escrow[e]
           p == settlement[e]
           d == dispute[e]
           q == [proposer |-> sender, clientBps |-> bps]
           event == [name |-> "SettlementProposed", proposer |-> sender, clientBps |-> bps]
<1>1. /\ Exists(e) /\ sender \in {x.client, x.developer} /\ x.phase # "RESOLVED"
      /\ bps <= MAX_BPS /\ p.proposer = NoAddr /\ sender # NoAddr
      /\ settlement' = [settlement EXCEPT ![e] = q]
      /\ escrow' = escrow /\ dispute' = dispute /\ claimable' = claimable
  BY AddrAssumption, Zenon DEF ProposeSettlement, Parties, moneyVars
<1>2. q \in SettlementType
  BY <1>1, EscrowAssumption, BpsAssumption, SMT DEF SettlementType
<1>3. x \in EscrowType /\ p \in SettlementType /\ d \in DisputeType
  BY <1>1, Projected, Zenon
<1>4. Fold!FoldEscrowEvent(View(x, p, d), event, now) = View(x, q, d)
  BY <1>1, <1>2, <1>3, FoldSettlementProposed
<1> HIDE DEF q
<1>5. Mirrored'
  BY <1>1, <1>2, <1>4, SettlementMirrored, Zenon DEF Emit
<1> QED
  BY <1>1, <1>5 DEF Emit

(* revokeSettlement is mirrored *)
LEMMA RevocationMirrored ==
    ASSUME MirrorInv, TypeOK', NEW sender \in Addr, NEW e \in Ids, RevokeSettlement(sender, e),
           Emit(e, [name |-> "SettlementRevoked", proposer |-> sender])
    PROVE  Mirrored' /\ UNCHANGED <<claimable, balances>>
<1> DEFINE x == escrow[e]
           p == settlement[e]
           d == dispute[e]
           event == [name |-> "SettlementRevoked", proposer |-> sender]
<1>1. /\ Exists(e) /\ x.phase # "RESOLVED" /\ p.proposer # NoAddr /\ sender = p.proposer
      /\ settlement' = [settlement EXCEPT ![e] = NoSettlement]
      /\ escrow' = escrow /\ dispute' = dispute /\ claimable' = claimable
  BY Zenon DEF RevokeSettlement, moneyVars
<1>2. x \in EscrowType /\ p \in SettlementType /\ d \in DisputeType
  BY <1>1, Projected, Zenon
<1>3. Fold!FoldEscrowEvent(View(x, p, d), event, now) = View(x, NoSettlement, d)
  BY <1>1, <1>2, FoldSettlementRevoked
<1>4. Mirrored'
  BY <1>1, <1>3, InitialRecords, SettlementMirrored, Zenon DEF Emit
<1> QED
  BY <1>1, <1>4 DEF Emit

(* a call of a dispute: a new phase and a new dispute record *)
LEMMA DisputeMirrored ==
    ASSUME MirrorInv, TypeOK', NEW e \in Ids, Exists(e), NEW q \in Phase, NEW f, NEW event,
           escrow' = [escrow EXCEPT ![e].phase = q],
           dispute' = [dispute EXCEPT ![e] = f],
           settlement' = settlement, Project(e, event),
           Fold!FoldEscrowEvent(View(escrow[e], settlement[e], dispute[e]), event, now)
             = View(AtPhase(escrow[e], q), settlement[e], f),
           f.raisedBy # NoAddr,
           q = "INITIAL_RULING" => f.initialRulingAt # 0 /\ f.initialDecisionHash # NoHash,
           q = "CHALLENGED" => f.challengedAt # 0,
           q = "FINAL_RULING" => f.finalRulingAt # 0 /\ f.finalDecisionHash # NoHash
    PROVE  Mirrored'
<1> DEFINE x == escrow[e]
           y == AtPhase(x, q)
           p == settlement[e]
<1>1. /\ projection[e] = View(x, p, dispute[e]) /\ x \in EscrowType
      /\ escrow \in [Ids -> EscrowType] /\ dispute \in [Ids -> DisputeType]
  BY Projected, Zenon DEF MirrorInv, Inv, TypeOK
<1>2. y.client = x.client /\ y.phase = q
  BY <1>1, SMT DEF EscrowType, AtPhase
<1>3. escrow' = [escrow EXCEPT ![e] = y]
  BY Zenon DEF AtPhase
<1> HIDE DEF y
<1>4. escrow'[e] = y /\ \A i \in Ids : i # e => escrow'[i] = escrow[i]
  BY <1>1, <1>3, SMT
<1>5. dispute'[e] = f /\ \A i \in Ids : i # e => dispute'[i] = dispute[i]
  BY <1>1, SMT
<1>6. OnlyAt(e) /\ Exists(e)'
  BY <1>2, <1>4, <1>5, Zenon DEF OnlyAt, Exists
<1>7. Marks(y, p, f)
  BY <1>2, Zenon DEF Marks, Exists
<1>8. Fold!FoldEscrowEvent(projection[e], event, now)
        = View(escrow'[e], settlement'[e], dispute'[e])
  BY <1>1, <1>4, <1>5, Zenon DEF y
<1> QED
  BY <1>4, <1>5, <1>6, <1>7, <1>8, ProjectStep, Zenon DEF MirrorInv

(* the fields of a ruling that the marks look at *)
LEMMA RulingFields ==
    ASSUME NEW d \in DisputeType, NEW b, NEW t, NEW h
    PROVE  /\ PutInitial(d, b, t, h).raisedBy = d.raisedBy
           /\ PutInitial(d, b, t, h).initialRulingAt = t
           /\ PutInitial(d, b, t, h).initialDecisionHash = h
           /\ PutFinal(d, b, t, h).raisedBy = d.raisedBy
           /\ PutFinal(d, b, t, h).finalRulingAt = t
           /\ PutFinal(d, b, t, h).finalDecisionHash = h
<1>1. HasInitial(d) /\ HasFinal(d)
  BY SMT DEF HasInitial, WithInitial, HasFinal, WithFinal, DisputeType
<1>2. PutInitial(d, b, t, h) = WithInitial(d, b, t, h)
  BY <1>1, WithInitialRuling, Zenon
<1>3. PutFinal(d, b, t, h) = WithFinal(d, b, t, h)
  BY <1>1, WithFinalRuling, Zenon
<1> QED
  BY <1>2, <1>3, SMT DEF WithInitial, WithFinal

(* raiseDispute is mirrored *)
LEMMA RaisedMirrored ==
    ASSUME MirrorInv, TypeOK', NEW sender \in Addr, NEW e \in Ids, NEW h \in Hashes,
           RaiseDispute(sender, e, h),
           Emit(e, [name |-> "DisputeRaised", raisedBy |-> sender, evidenceManifestHash |-> h])
    PROVE  Mirrored' /\ UNCHANGED <<claimable, balances>>
<1> DEFINE x == escrow[e]
           p == settlement[e]
           d == dispute[e]
           f == RaisedRecord(sender, now, h)
           event == [name |-> "DisputeRaised", raisedBy |-> sender, evidenceManifestHash |-> h]
<1>1. /\ Exists(e) /\ sender \in {x.client, x.developer} /\ x.phase = "FUNDED" /\ sender # NoAddr
      /\ escrow' = [escrow EXCEPT ![e].phase = "DISPUTED"]
      /\ dispute' = [dispute EXCEPT ![e] = f]
      /\ settlement' = settlement /\ claimable' = claimable
  BY AddrAssumption, Zenon DEF RaiseDispute, Parties, moneyVars, RaisedRecord
<1>2. x \in EscrowType /\ p \in SettlementType /\ d \in DisputeType /\ now \in Nat \ {0}
  BY <1>1, Projected, Zenon
<1>3. Fold!FoldEscrowEvent(View(x, p, d), event, now) = View(AtPhase(x, "DISPUTED"), p, f)
  BY <1>1, <1>2, FoldDisputeRaised
<1>4. f.raisedBy = sender
  BY SMT DEF RaisedRecord, NoDispute
<1> HIDE DEF f
<1>5. Mirrored'
  BY <1>1, <1>3, <1>4, DisputeMirrored, Zenon DEF Emit, Phase
<1> QED
  BY <1>1, <1>5 DEF Emit

(* submitCounterpartyEvidence is mirrored *)
LEMMA EvidenceMirrored ==
    ASSUME MirrorInv, TypeOK', NEW sender \in Addr, NEW e \in Ids, NEW h \in Hashes,
           SubmitCounterpartyEvidence(sender, e, h),
           Emit(e, [name |-> "CounterpartyEvidenceSubmitted", submittedBy |-> sender,
                    evidenceManifestHash |-> h])
    PROVE  Mirrored' /\ UNCHANGED <<claimable, balances>>
<1> DEFINE x == escrow[e]
           p == settlement[e]
           d == dispute[e]
           f == [d EXCEPT !.counterpartyEvidenceHash = h]
           event == [name |-> "CounterpartyEvidenceSubmitted", submittedBy |-> sender,
                     evidenceManifestHash |-> h]
<1>1. /\ Exists(e) /\ x.phase = "DISPUTED" /\ sender = Counterparty(e)
      /\ d.counterpartyEvidenceHash = NoHash /\ now < d.raisedAt + EVIDENCE_RESPONSE_PERIOD
      /\ dispute' = [dispute EXCEPT ![e] = f]
      /\ escrow' = escrow /\ settlement' = settlement /\ claimable' = claimable
  BY Zenon DEF SubmitCounterpartyEvidence, InPhase, moneyVars
<1>2. /\ x \in EscrowType /\ p \in SettlementType /\ d \in DisputeType /\ now \in Nat \ {0}
      /\ Marks(x, p, d) /\ escrow \in [Ids -> EscrowType]
  BY <1>1, Projected, Zenon DEF MirrorInv, Inv, TypeOK
<1>3. Fold!FoldEscrowEvent(View(x, p, d), event, now) = View(x, p, f)
  BY <1>1, <1>2, FoldCounterpartyEvidence DEF Counterparty
<1>4. f.raisedBy = d.raisedBy /\ d.raisedBy # NoAddr
  BY <1>1, <1>2, SMT DEF DisputeType, Marks
<1> HIDE DEF f
<1>5. escrow' = [escrow EXCEPT ![e].phase = "DISPUTED"] /\ AtPhase(x, "DISPUTED") = x
  BY <1>1, <1>2, SMT DEF AtPhase, EscrowType
<1>6. Mirrored'
  BY <1>1, <1>3, <1>4, <1>5, DisputeMirrored, Zenon DEF Emit, Phase
<1> QED
  BY <1>1, <1>6 DEF Emit

(* postInitialRuling is mirrored *)
LEMMA InitialRulingMirrored ==
    ASSUME MirrorInv, TypeOK', NEW sender \in Addr, NEW e \in Ids,
           NEW bps \in Bps, NEW h \in Hashes,
           PostInitialRuling(sender, e, bps, h),
           Emit(e, [name |-> "InitialRulingPosted", arbiter |-> sender, clientBps |-> bps,
                    decisionHash |-> h, challengeEndsAt |-> now + CHALLENGE_PERIOD])
    PROVE  Mirrored' /\ UNCHANGED <<claimable, balances>>
<1> DEFINE x == escrow[e]
           p == settlement[e]
           d == dispute[e]
           f == PutInitial(d, bps, now, h)
           event == [name |-> "InitialRulingPosted", arbiter |-> sender, clientBps |-> bps,
                     decisionHash |-> h, challengeEndsAt |-> now + CHALLENGE_PERIOD]
<1>1. /\ Exists(e) /\ x.phase = "DISPUTED" /\ sender = x.arbiter
      /\ now >= d.raisedAt + EVIDENCE_RESPONSE_PERIOD /\ now < d.raisedAt + ARBITER_STALL_PERIOD
      /\ dispute' = [dispute EXCEPT ![e] = f]
      /\ escrow' = [escrow EXCEPT ![e].phase = "INITIAL_RULING"]
      /\ settlement' = settlement /\ claimable' = claimable
  BY Zenon DEF PostInitialRuling, InPhase, moneyVars, PutInitial
<1>2. /\ x \in EscrowType /\ p \in SettlementType /\ d \in DisputeType /\ now \in Nat \ {0}
      /\ Marks(x, p, d)
  BY <1>1, Projected, Zenon
<1>3. Fold!FoldEscrowEvent(View(x, p, d), event, now) = View(AtPhase(x, "INITIAL_RULING"), p, f)
  BY <1>1, <1>2, FoldInitialRuling
<1>4. /\ f.raisedBy = d.raisedBy /\ d.raisedBy # NoAddr
      /\ f.initialRulingAt = now /\ f.initialDecisionHash = h
  <2>1. d.raisedBy # NoAddr
    BY <1>1, <1>2, Zenon DEF Marks
  <2> QED
    BY <1>2, <2>1, RulingFields, SMT
<1>5. now # 0 /\ h # NoHash
  BY <1>2, EscrowAssumption
<1> HIDE DEF f
<1>6. Mirrored'
  BY <1>1, <1>3, <1>4, <1>5, DisputeMirrored, Zenon DEF Emit, Phase
<1> QED
  BY <1>1, <1>6 DEF Emit

(* challengeRuling is mirrored *)
LEMMA ChallengeMirrored ==
    ASSUME MirrorInv, TypeOK', NEW sender \in Addr, NEW e \in Ids, ChallengeRuling(sender, e),
           Emit(e, [name |-> "RulingChallenged", challengedBy |-> sender, challengedAt |-> now])
    PROVE  Mirrored' /\ UNCHANGED <<claimable, balances>>
<1> DEFINE x == escrow[e]
           p == settlement[e]
           d == dispute[e]
           f == [d EXCEPT !.challengedAt = now]
           event == [name |-> "RulingChallenged", challengedBy |-> sender, challengedAt |-> now]
<1>1. /\ Exists(e) /\ x.phase = "INITIAL_RULING" /\ LostPrincipal(sender, e)
      /\ now < d.initialRulingAt + CHALLENGE_PERIOD
      /\ dispute' = [dispute EXCEPT ![e] = f]
      /\ escrow' = [escrow EXCEPT ![e].phase = "CHALLENGED"]
      /\ settlement' = settlement /\ claimable' = claimable
  BY Zenon DEF ChallengeRuling, InPhase, moneyVars
<1>2. /\ x \in EscrowType /\ p \in SettlementType /\ d \in DisputeType /\ now \in Nat \ {0}
      /\ Marks(x, p, d)
  BY <1>1, Projected, Zenon
<1>3. Fold!FoldEscrowEvent(View(x, p, d), event, now) = View(AtPhase(x, "CHALLENGED"), p, f)
  BY <1>1, <1>2, FoldRulingChallenged DEF LostPrincipal
<1>4. f.raisedBy = d.raisedBy /\ d.raisedBy # NoAddr /\ f.challengedAt = now /\ now # 0
  BY <1>1, <1>2, SMT DEF DisputeType, Marks
<1> HIDE DEF f
<1>5. Mirrored'
  BY <1>1, <1>3, <1>4, DisputeMirrored, Zenon DEF Emit, Phase
<1> QED
  BY <1>1, <1>5 DEF Emit

(* postFinalRuling is mirrored *)
LEMMA FinalRulingMirrored ==
    ASSUME MirrorInv, TypeOK', NEW sender \in Addr, NEW e \in Ids,
           NEW bps \in Bps, NEW h \in Hashes,
           PostFinalRuling(sender, e, bps, h),
           Emit(e, [name |-> "FinalRulingPosted", arbiter |-> sender, clientBps |-> bps,
                    decisionHash |-> h, noticeEndsAt |-> now + FINAL_RULING_NOTICE_PERIOD])
    PROVE  Mirrored' /\ UNCHANGED <<claimable, balances>>
<1> DEFINE x == escrow[e]
           p == settlement[e]
           d == dispute[e]
           f == PutFinal(d, bps, now, h)
           event == [name |-> "FinalRulingPosted", arbiter |-> sender, clientBps |-> bps,
                     decisionHash |-> h, noticeEndsAt |-> now + FINAL_RULING_NOTICE_PERIOD]
<1>1. /\ Exists(e) /\ x.phase = "CHALLENGED" /\ sender = x.arbiter
      /\ now < d.challengedAt + ARBITER_STALL_PERIOD
      /\ dispute' = [dispute EXCEPT ![e] = f]
      /\ escrow' = [escrow EXCEPT ![e].phase = "FINAL_RULING"]
      /\ settlement' = settlement /\ claimable' = claimable
  BY Zenon DEF PostFinalRuling, InPhase, moneyVars, PutFinal
<1>2. /\ x \in EscrowType /\ p \in SettlementType /\ d \in DisputeType /\ now \in Nat \ {0}
      /\ Marks(x, p, d)
  BY <1>1, Projected, Zenon
<1>3. Fold!FoldEscrowEvent(View(x, p, d), event, now) = View(AtPhase(x, "FINAL_RULING"), p, f)
  BY <1>1, <1>2, FoldFinalRuling
<1>4. /\ f.raisedBy = d.raisedBy /\ d.raisedBy # NoAddr
      /\ f.finalRulingAt = now /\ f.finalDecisionHash = h
  <2>1. d.raisedBy # NoAddr
    BY <1>1, <1>2, Zenon DEF Marks
  <2> QED
    BY <1>2, <2>1, RulingFields, SMT
<1>5. now # 0 /\ h # NoHash
  BY <1>2, EscrowAssumption
<1> HIDE DEF f
<1>6. Mirrored'
  BY <1>1, <1>3, <1>4, <1>5, DisputeMirrored, Zenon DEF Emit, Phase
<1> QED
  BY <1>1, <1>6 DEF Emit

(* every call that resolves is mirrored, with its credits *)
LEMMA ResolutionMirrored ==
    ASSUME MirrorInv, TypeOK', NEW sender \in Addr, NEW e \in Ids, ResolvingCall(sender, e),
           EmitResolved(e)
    PROVE  Mirrored' /\ BalancesMatchChain'
<1> DEFINE x == escrow[e]
           p == settlement[e]
           d == dispute[e]
<1>1. TypeOK /\ Exists(e) /\ Marks(x, p, d)
  BY ResolvingCallsDue DEF MirrorInv, Mirrored, Inv
<1>2. PICK b \in 0..MAX_BPS, k \in ResolutionKind, h \in Hashes \cup {NoHash} :
         Resolve(e, b, k, h) /\ DueAt(e, k, b, h)
  BY <1>1, ResolvingCallsDue
<1> DEFINE y == AsResolved(x, k)
           m == Shares(x.amount, b)
           event == [name |-> "EscrowResolved", resolution |-> k,
                     clientAmount |-> m.clientAmount, developerAmount |-> m.developerAmount,
                     platformFee |-> m.platformFee, decisionHash |-> h]
<1>3. /\ x.phase # "RESOLVED"
      /\ escrow' = [escrow EXCEPT ![e] = y]
      /\ settlement' = [settlement EXCEPT ![e] = NoSettlement]
      /\ dispute' = dispute
      /\ claimable' = [a \in Addr |-> claimable[a] + ShareOf(a, x, m)]
      /\ resolved' = [resolved EXCEPT ![e] =
            [clientAmount |-> m.clientAmount, developerAmount |-> m.developerAmount,
             platformFee |-> m.platformFee, decisionHash |-> h, at |-> now]]
  BY <1>2, Zenon DEF Resolve, AsResolved
<1>4. /\ projection[e] = View(x, p, d) /\ x \in EscrowType /\ p \in SettlementType
      /\ d \in DisputeType
  BY <1>1, Projected, Zenon
<1>5. Fold!FoldEscrowEvent(View(x, p, d), event, now) = View(y, NoSettlement, d)
  BY <1>2, <1>3, <1>4, FoldResolved DEF DueAt
<1>6. /\ escrow'[e].resolutionKind = k /\ escrow'[e].phase = "RESOLVED"
      /\ escrow'[e].client = x.client
      /\ \A i \in Ids : i # e => escrow'[i] = escrow[i]
  BY <1>1, <1>2, ResolveEscrow, SMT DEF Terms
<1>7. View(x, p, d).client = x.client /\ View(x, p, d).developer = x.developer
      /\ View(x, p, d).feeRecipient = x.feeRecipient
  BY <1>4, ViewFields, Zenon
<1> HIDE DEF m, y
<1>8. escrow'[e] = y
  BY <1>1, <1>3, SMT DEF TypeOK
<1>9. /\ settlement'[e] = NoSettlement
      /\ \A i \in Ids : i # e => settlement'[i] = settlement[i]
  BY <1>1, <1>3, SMT DEF TypeOK
<1>10. resolved'[e] = [clientAmount |-> m.clientAmount, developerAmount |-> m.developerAmount,
                       platformFee |-> m.platformFee, decisionHash |-> h, at |-> now]
  BY <1>1, <1>3, SMT DEF TypeOK
<1>11. [name |-> "EscrowResolved", resolution |-> escrow'[e].resolutionKind,
        clientAmount |-> resolved'[e].clientAmount,
        developerAmount |-> resolved'[e].developerAmount,
        platformFee |-> resolved'[e].platformFee,
        decisionHash |-> resolved'[e].decisionHash] = event
  BY <1>6, <1>10, SMT
<1>12. /\ Project(e, event)
       /\ balances' = [a \in Addr |-> balances[a] + ShareOf(a, projection[e], event)]
  BY <1>11, Zenon DEF EmitResolved
<1>13. Mirrored'
  <2>1. OnlyAt(e) /\ Exists(e)'
    BY <1>1, <1>3, <1>6, <1>9, Zenon DEF OnlyAt, Exists
  <2>2. Marks(escrow'[e], settlement'[e], dispute'[e])
    BY <1>1, <1>6, SMT DEF Marks, Exists
  <2>3. Fold!FoldEscrowEvent(projection[e], event, now)
          = View(escrow'[e], settlement'[e], dispute'[e])
    BY <1>3, <1>4, <1>5, <1>8, <1>9, Zenon
  <2> QED
    BY <1>12, <2>1, <2>2, <2>3, ProjectStep, Zenon DEF MirrorInv
<1>14. BalancesMatchChain'
  <2>1. balances = claimable
    BY DEF MirrorInv, BalancesMatchChain
  <2>2. \A a \in Addr : ShareOf(a, projection[e], event) = ShareOf(a, x, m)
    BY <1>4, <1>7, SMT DEF ShareOf
  <2> QED
    BY <1>3, <1>12, <2>1, <2>2, Zenon DEF BalancesMatchChain
<1> QED
  BY <1>13, <1>14

(* a step that touches no record keeps the mirror *)
LEMMA StaysMirrored ==
    ASSUME Mirrored, UNCHANGED <<projection, escrow, settlement, dispute>>
    PROVE  Mirrored'
BY Zenon DEF Mirrored, ProjectionMatchesChain, ChainEscrow, Exists

(* claim is mirrored in the balances *)
LEMMA ClaimMirrored ==
    ASSUME MirrorInv, NEW a \in Addr, Claim(a), EmitClaimed(a)
    PROVE  Mirrored' /\ BalancesMatchChain'
<1>1. /\ claimable' = [claimable EXCEPT ![a] = 0]
      /\ UNCHANGED <<projection, escrow, settlement, dispute>>
  BY DEF Claim, EmitClaimed, recordVars
<1>2. balances = claimable
  BY DEF MirrorInv, BalancesMatchChain
<1>3. balances' = [balances EXCEPT ![a] = 0]
  BY <1>2, SMT DEF EmitClaimed, MirrorInv, Inv, TypeOK
<1> QED
  BY <1>1, <1>2, <1>3, StaysMirrored DEF MirrorInv, BalancesMatchChain

(* every step keeps the invariant *)
LEMMA MirrorStep ==
    ASSUME MirrorInv, [MirrorNext]_<<vars, mirrorVars>>
    PROVE  MirrorInv'
<1>1. [Next]_vars
  <2>1. ASSUME NEW sender \in Addr, NEW e \in Ids, MirroredPartyCall(sender, e)
        PROVE  PartyCall(sender, e)
    BY <2>1, Zenon DEF MirroredPartyCall, PartyCall
  <2> QED
    BY <2>1, Zenon DEF MirrorNext, MirroredExit, MirroredClaim, Next, EscrowNext
<1>2. Inv' /\ TypeOK'
  BY <1>1, NextInv DEF MirrorInv, Inv
<1>3. now' # 0
  <2>1. ASSUME NEW sender \in Addr, NEW e \in Ids, ResolvingCall(sender, e) PROVE now' = now
    BY <2>1, ResolvingCalls, Zenon DEF MirrorInv, Inv, Resolve
  <2>2. ASSUME NEW sender \in Addr, NEW e \in Ids, DisputeCall(sender, e) PROVE now' = now
    BY <2>2, DisputeCallEffect, Zenon DEF MirrorInv, Inv
  <2>3. now' = now \/ now' = now + 1
    BY <1>1, <2>1, <2>2, StepCases, Zenon
       DEF MirrorInv, Inv, Deposit, SubmitWork, ProposeSettlement, RevokeSettlement, Claim, Tick
  <2> QED
    BY <2>3, SMT DEF MirrorInv, Inv, TypeOK
<1>4. ASSUME NEW sender \in Addr, NEW e \in Ids, MirroredPartyCall(sender, e)
      PROVE  Mirrored' /\ BalancesMatchChain'
  <2>1. CASE ReleaseFunds(sender, e) /\ EmitResolved(e)
    BY <1>2, <2>1, ResolutionMirrored DEF ResolvingCall
  <2>2. CASE AcceptSettlement(sender, e) /\ EmitResolved(e)
    BY <1>2, <2>2, ResolutionMirrored DEF ResolvingCall
  <2>3. CASE ~(ReleaseFunds(sender, e) /\ EmitResolved(e))
             /\ ~(AcceptSettlement(sender, e) /\ EmitResolved(e))
    <3>1. \A deadline \in 1..MaxTime : deadline \in Nat
      BY EscrowAssumption, SMT
    <3>2. Mirrored' /\ UNCHANGED <<claimable, balances>>
      BY <1>2, <1>4, <2>3, <3>1, DepositMirrored, SubmitWorkMirrored, ProposalMirrored,
         RevocationMirrored, RaisedMirrored, EvidenceMirrored, InitialRulingMirrored,
         ChallengeMirrored, FinalRulingMirrored, Zenon DEF MirroredPartyCall
    <3> QED
      BY <3>2 DEF MirrorInv, BalancesMatchChain
  <2> QED
    BY <2>1, <2>2, <2>3
<1>5. ASSUME NEW e \in Ids, MirroredExit(e)
      PROVE  Mirrored' /\ BalancesMatchChain'
  <2>1. PICK sender \in Addr : TRUE
    BY DEF MirrorInv, Inv, TypeOK, RolesTypeOK
  <2> QED
    BY <1>2, <1>5, <2>1, ResolutionMirrored DEF MirroredExit, ResolvingCall
<1>6. ASSUME NEW a \in Addr, MirroredClaim(a)
      PROVE  Mirrored' /\ BalancesMatchChain'
  BY <1>6, ClaimMirrored DEF MirroredClaim
<1>7. ASSUME \/ (Tick \/ Governance) /\ UNCHANGED mirrorVars
             \/ UNCHANGED <<vars, mirrorVars>>
      PROVE  Mirrored' /\ BalancesMatchChain'
  <2>1. UNCHANGED <<projection, balances, claimable, escrow, settlement, dispute>>
    BY <1>7, Zenon DEF Tick, Governance, mirrorVars, vars, escrowVars, recordVars, moneyVars
  <2> QED
    BY <2>1, StaysMirrored DEF MirrorInv, BalancesMatchChain
<1>8. Mirrored' /\ BalancesMatchChain'
  BY <1>4, <1>5, <1>6, <1>7, Zenon DEF MirrorNext
<1> QED
  BY <1>2, <1>3, <1>8 DEF MirrorInv

(* the invariant holds always *)
LEMMA AlwaysMirrorInv == MirrorSpec => []MirrorInv
<1>1. MirrorInit => MirrorInv
  <2> SUFFICES ASSUME MirrorInit PROVE MirrorInv
    OBVIOUS
  <2>1. Inv
    BY InitInv DEF MirrorInit
  <2>2. /\ now = 1 /\ escrow = [e \in Ids |-> NoEscrow] /\ dispute = [e \in Ids |-> NoDispute]
        /\ settlement = [e \in Ids |-> NoSettlement] /\ claimable = [a \in Addr |-> 0]
        /\ projection = [e \in Ids |-> Null] /\ balances = [a \in Addr |-> 0]
    BY Zenon DEF MirrorInit, Init, EscrowInit
  <2>3. ASSUME NEW e \in Ids
        PROVE  /\ escrow[e].client = NoAddr /\ escrow[e].phase = "NONE"
               /\ settlement[e].proposer = NoAddr /\ dispute[e].raisedBy = NoAddr
               /\ projection[e] = Null
    BY <2>2, SMT DEF NoEscrow, NoSettlement, NoDispute
  <2>4. ProjectionMatchesChain
    BY <2>3, Zenon DEF ProjectionMatchesChain, Exists
  <2>5. \A e \in Ids : Marks(escrow[e], settlement[e], dispute[e])
    BY <2>3, SMT DEF Marks
  <2>6. projection \in [Ids -> FoldState \cup {Null}] /\ now # 0 /\ balances = claimable
    BY <2>2, SMT
  <2> QED
    BY <2>1, <2>4, <2>5, <2>6 DEF MirrorInv, Mirrored, BalancesMatchChain
<1>2. MirrorInv /\ [MirrorNext]_<<vars, mirrorVars>> => MirrorInv'
  BY MirrorStep
<1> QED
  BY <1>1, <1>2, PTL DEF MirrorSpec

(* The fold of shared/escrow/fold.ts accepts every event the contract can emit, *)
(* for every number of escrows, amount, share and length of the windows: it     *)
(* never stops the indexer.                                                     *)
THEOREM FoldAlwaysAccepts == MirrorSpec => []FoldAcceptsChain
<1>1. MirrorInv => FoldAcceptsChain
  BY MirrorAssumption DEF MirrorInv, Mirrored, FoldAcceptsChain
<1> QED
  BY <1>1, AlwaysMirrorInv, PTL

(* After every event the folded state is what the contract's getters return, so *)
(* the reconciler never reports a difference the fold is to blame for.          *)
THEOREM ProjectionAlwaysMatches == MirrorSpec => []ProjectionMatchesChain
<1>1. MirrorInv => ProjectionMatchesChain
  BY DEF MirrorInv, Mirrored
<1> QED
  BY <1>1, AlwaysMirrorInv, PTL

(* The worker's balances are the contract's credits, whoever is owed several    *)
(* parts of a principal, so applyClaimed never fails.                           *)
THEOREM BalancesAlwaysMatch == MirrorSpec => []BalancesMatchChain
<1>1. MirrorInv => BalancesMatchChain
  BY DEF MirrorInv
<1> QED
  BY <1>1, AlwaysMirrorInv, PTL

-----------------------------------------------------------------------------
(* What the web application decides from the index.  A projection, however old, *)
(* is that of an escrow as it once was, and of such a one it is enough to know   *)
(* that its parties differ and that the end of a notice follows its ruling.      *)

PartiesDiffer == \A e \in Ids : Exists(e) => escrow[e].client # escrow[e].developer

RulingKnown(r, period) ==
    /\ r.postedAt \in Nat /\ r.clientBps \in 0..MAX_BPS
    /\ r.noticeEndsAt = r.postedAt + period

Known(p) ==
    /\ p.phase \in Phase
    /\ p.deliveryDeadline \in Nat /\ p.reviewDeadline \in Nat
    /\ p.disputeRaisedAt \in Nat /\ p.challengedAt \in Nat
    /\ RulingKnown(p.initial, CHALLENGE_PERIOD)
    /\ RulingKnown(p.final, FINAL_RULING_NOTICE_PERIOD)
    /\ p.phase # "NONE" => p.client # p.developer

(* client and developer are fixed at the deposit, which requires that they differ *)
LEMMA NextPartiesDiffer == Inv /\ PartiesDiffer /\ [Next]_vars => PartiesDiffer'
<1> SUFFICES ASSUME Inv, PartiesDiffer, [Next]_vars, NEW i \in Ids,
                    escrow'[i].client # NoAddr
             PROVE  escrow'[i].client # escrow'[i].developer
  BY DEF PartiesDiffer, Exists
<1>1. CASE Terms(escrow'[i]) = Terms(escrow[i])
  <2>1. escrow'[i].client = escrow[i].client /\ escrow'[i].developer = escrow[i].developer
    BY <1>1, SMT DEF Terms
  <2> QED
    BY <2>1 DEF PartiesDiffer, Exists
<1>2. ASSUME NEW sender \in Addr, NEW developer \in Addr, NEW amount \in Amounts,
             NEW deadline \in Nat, NEW h \in Hashes,
             Deposit(sender, i, developer, amount, deadline, h)
      PROVE  escrow'[i].client # escrow'[i].developer
  BY <1>2, SMT DEF Deposit, Inv, TypeOK
<1> QED
  BY <1>1, <1>2, TermsStep

(* what the scanner writes is known in this sense *)
LEMMA ProjectionKnown ==
    ASSUME Inv, PartiesDiffer, NEW e \in Ids
    PROVE  Known(ProjectionOf(e))
<1>1. escrow[e] \in EscrowType /\ dispute[e] \in DisputeType
  BY DEF Inv, TypeOK
<1>2. /\ escrow[e].phase \in Phase /\ escrow[e].deliveryDeadline \in Nat
      /\ dispute[e].raisedAt \in Nat /\ dispute[e].challengedAt \in Nat
      /\ dispute[e].initialRulingAt \in Nat /\ dispute[e].initialClientBps \in 0..MAX_BPS
      /\ dispute[e].finalRulingAt \in Nat /\ dispute[e].finalClientBps \in 0..MAX_BPS
  BY <1>1, SMT DEF EscrowType, DisputeType
<1>3. escrow[e].deliveryDeadline + REVIEW_PERIOD \in Nat
  BY <1>2, Periods, SMT
<1>4. escrow[e].phase # "NONE" => escrow[e].client # escrow[e].developer
  BY DEF Inv, PhaseMarksExistence, PartiesDiffer
<1> DEFINE p == ProjectionOf(e)
<1>5. /\ p.phase = escrow[e].phase /\ p.client = escrow[e].client
      /\ p.developer = escrow[e].developer
      /\ p.deliveryDeadline = escrow[e].deliveryDeadline
      /\ p.reviewDeadline = escrow[e].deliveryDeadline + REVIEW_PERIOD
      /\ p.disputeRaisedAt = dispute[e].raisedAt /\ p.challengedAt = dispute[e].challengedAt
      /\ p.initial = Ruling(dispute[e].initialClientBps, dispute[e].initialRulingAt, CHALLENGE_PERIOD)
      /\ p.final = Ruling(dispute[e].finalClientBps, dispute[e].finalRulingAt, FINAL_RULING_NOTICE_PERIOD)
  BY DEF ProjectionOf
<1>6. RulingKnown(p.initial, CHALLENGE_PERIOD) /\ RulingKnown(p.final, FINAL_RULING_NOTICE_PERIOD)
  BY <1>2, <1>5 DEF Ruling, RulingKnown
<1> HIDE DEF p
<1>7. Known(p)
  BY <1>2, <1>3, <1>4, <1>5, <1>6 DEF Known
<1> QED
  BY <1>7 DEF p

(* The index holds projections of escrows only. *)
IndexKnown ==
    /\ indexed = [e \in Ids |-> indexed[e]]
    /\ \A e \in Ids : Known(indexed[e])

WebInv == Inv /\ PartiesDiffer /\ IndexKnown

(* the scanner writes what is known, and no other step writes the index *)
LEMMA AlwaysWebInv == WebSpec => []WebInv
<1>1. Init /\ WebInit => WebInv
  <2> SUFFICES ASSUME Init, WebInit PROVE WebInv
    OBVIOUS
  <2>1. Inv
    BY InitInv
  <2>2. PartiesDiffer
    BY DEF Init, EscrowInit, NoEscrow, PartiesDiffer, Exists
  <2>3. \A e \in Ids : Known(ProjectionOf(e))
    BY <2>1, <2>2, ProjectionKnown
  <2>4. indexed = [e \in Ids |-> ProjectionOf(e)]
    BY DEF WebInit
  <2>5. IndexKnown
    BY <2>3, <2>4 DEF IndexKnown
  <2> QED
    BY <2>1, <2>2, <2>5 DEF WebInv
<1>2. ASSUME WebInv, Next /\ UNCHANGED webVars
      PROVE  WebInv'
  <2>1. Inv' /\ PartiesDiffer'
    BY <1>2, NextInv, NextPartiesDiffer DEF WebInv
  <2>2. indexed' = indexed
    BY <1>2 DEF webVars
  <2>3. IndexKnown'
    BY <1>2, <2>2 DEF WebInv, IndexKnown, Known, RulingKnown
  <2> QED
    BY <2>1, <2>3 DEF WebInv
<1>3. ASSUME WebInv, UNCHANGED vars PROVE Inv' /\ PartiesDiffer'
  BY <1>3, NextInv, NextPartiesDiffer DEF WebInv
<1>4. ASSUME WebInv, NEW e \in Ids, Index(e)
      PROVE  WebInv'
  <2>1. indexed' = [indexed EXCEPT ![e] = ProjectionOf(e)] /\ UNCHANGED vars
    BY <1>4 DEF Index
  <2>2. Known(ProjectionOf(e))
    BY <1>4, ProjectionKnown DEF WebInv
  <2>3. IndexKnown
    BY <1>4 DEF WebInv
  <2>4. \A i \in Ids : Known(indexed'[i])
    BY <2>1, <2>2, <2>3, Zenon DEF IndexKnown
  <2>5. indexed' = [i \in Ids |-> indexed'[i]]
    BY <2>1, <2>3 DEF IndexKnown
  <2>6. IndexKnown'
    BY <2>4, <2>5 DEF IndexKnown, Known, RulingKnown
  <2> QED
    BY <1>3, <1>4, <2>1, <2>6 DEF WebInv
<1>5. ASSUME WebInv, UNCHANGED <<indexed, vars>>
      PROVE  WebInv'
  <2>1. IndexKnown'
    BY <1>5 DEF WebInv, IndexKnown, Known, RulingKnown
  <2> QED
    BY <1>3, <1>5, <2>1 DEF WebInv
<1>6. WebInv /\ [(Next /\ UNCHANGED webVars) \/ WebNext]_<<vars, webVars>> => WebInv'
  BY <1>2, <1>4, <1>5, Zenon DEF WebNext, RunDeadlines, webVars
<1> QED
  BY <1>1, <1>6, PTL DEF WebSpec

(* The two sides of the web application agree on one method. *)
Agree(m, p, s) == m \in ViewerCapabilities(p, s) <=> Prepared(m, p, s)

(* the calls that do not depend on the time *)
LEMMA UntimedAgree ==
    ASSUME NEW p, Known(p), NEW s \in Addr
    PROVE  /\ Agree("releaseFunds", p, s) /\ Agree("raiseDispute", p, s)
           /\ Agree("proposeSettlement", p, s) /\ Agree("revokeSettlement", p, s)
           /\ Agree("acceptSettlement", p, s)
<1> USE DEF Agree, ViewerCapabilities, AvailableActions, Prepared, Methods, Party, Settling,
            Known, Phase
<1>0. p.phase \in Phase /\ s # NoAddr
  BY AddrAssumption
<1>1. Agree("releaseFunds", p, s)
  BY <1>0, SMT
<1>2. Agree("raiseDispute", p, s)
  BY <1>0, SMT
<1>3. Agree("proposeSettlement", p, s)
  BY <1>0, SMT
<1>4. Agree("revokeSettlement", p, s)
  BY <1>0, SMT
<1>5. Agree("acceptSettlement", p, s)
  BY <1>0, SMT
<1> QED
  BY <1>1, <1>2, <1>3, <1>4, <1>5

(* the exits open to anyone: a strict deadline opens one second after it *)
LEMMA ExitsAgree ==
    ASSUME NEW p, Known(p), NEW s \in Addr, now \in Nat
    PROVE  /\ Agree("claimMissedDeliveryRefund", p, s) /\ Agree("claimReviewTimeout", p, s)
           /\ Agree("finalizeRuling", p, s) /\ Agree("finalizeArbiterTimeoutSplit", p, s)
<1> USE Periods DEF Agree, ViewerCapabilities, AvailableActions, Prepared, Methods, Timed, Known,
            Phase, PrepareMissedDeliveryRefund, PrepareReviewTimeout, PrepareFinalizeRuling,
            PrepareTimeoutSplit, CurrentRuling, RulingKnown
<1>1. Agree("claimMissedDeliveryRefund", p, s)
  BY SMT
<1>2. Agree("claimReviewTimeout", p, s)
  BY SMT
<1>3. Agree("finalizeRuling", p, s)
  BY SMT
<1>4. Agree("finalizeArbiterTimeoutSplit", p, s)
  BY SMT
<1> QED
  BY <1>1, <1>2, <1>3, <1>4

(* the calls of a party or of the arbiter inside a window *)
LEMMA WindowsAgree ==
    ASSUME NEW p, Known(p), NEW s \in Addr, now \in Nat
    PROVE  /\ Agree("submitWork", p, s) /\ Agree("submitCounterpartyEvidence", p, s)
           /\ Agree("postInitialRuling", p, s) /\ Agree("challengeRuling", p, s)
           /\ Agree("postFinalRuling", p, s)
<1> USE Periods, BpsAssumption DEF Agree, ViewerCapabilities, AvailableActions, Prepared, Methods,
            Known, Phase, Party, EvidenceWindow, MayDraftRuling, PrepareChallenge, CurrentRuling,
            RulingKnown
<1>1. Agree("submitWork", p, s)
  BY SMT
<1>2. Agree("submitCounterpartyEvidence", p, s)
  BY SMT
<1>3. Agree("postInitialRuling", p, s)
  BY SMT
<1>4. Agree("challengeRuling", p, s)
  BY SMT
<1>5. Agree("postFinalRuling", p, s)
  BY SMT
<1> QED
  BY <1>1, <1>2, <1>3, <1>4, <1>5

(* However old the index is, a user is shown an action exactly when preparing it *)
(* succeeds: the two places of the web application that write down the           *)
(* contract's windows agree, for all lengths of the windows and at every second. *)
THEOREM ShownAlwaysPrepared == WebSpec => []ShownExactlyPrepared
<1>1. WebInv => ShownExactlyPrepared
  <2> SUFFICES ASSUME WebInv, NEW e \in Ids, NEW s \in Addr
               PROVE  ViewerCapabilities(indexed[e], s)
                        = {m \in Methods : Prepared(m, indexed[e], s)}
    BY DEF ShownExactlyPrepared
  <2>1. Known(indexed[e]) /\ now \in Nat
    BY DEF WebInv, IndexKnown, Inv, TypeOK
  <2>2. \A m \in Methods : Agree(m, indexed[e], s)
    BY <2>1, UntimedAgree, ExitsAgree, WindowsAgree DEF Methods
  <2>3. ViewerCapabilities(indexed[e], s) \subseteq Methods
    BY DEF ViewerCapabilities, AvailableActions
  <2> QED
    BY <2>2, <2>3 DEF Agree
<1> QED
  BY <1>1, AlwaysWebInv, PTL

-----------------------------------------------------------------------------
(* From an up-to-date index the web application prepares exactly the calls the   *)
(* contract accepts.  PreparedExactlyAccepted says so with ENABLED; here a call  *)
(* is its guard and its effect, and the effect can always be had.               *)

(* a call of method m on escrow e by s (by anyone, for an exit) *)
Called(m, e, s) ==
    CASE m = "submitWork" -> \E h \in Hashes : SubmitWork(s, e, h)
      [] m = "releaseFunds" -> ReleaseFunds(s, e)
      [] m = "claimMissedDeliveryRefund" -> ClaimMissedDeliveryRefund(e)
      [] m = "claimReviewTimeout" -> ClaimReviewTimeout(e)
      [] m = "proposeSettlement" -> \E bps \in Bps : ProposeSettlement(s, e, bps)
      [] m = "revokeSettlement" -> RevokeSettlement(s, e)
      [] m = "acceptSettlement" -> AcceptSettlement(s, e)
      [] m = "raiseDispute" -> \E h \in Hashes : RaiseDispute(s, e, h)
      [] m = "submitCounterpartyEvidence" -> \E h \in Hashes : SubmitCounterpartyEvidence(s, e, h)
      [] m = "postInitialRuling" -> \E bps \in Bps, h \in Hashes : PostInitialRuling(s, e, bps, h)
      [] m = "challengeRuling" -> ChallengeRuling(s, e)
      [] m = "postFinalRuling" -> \E bps \in Bps, h \in Hashes : PostFinalRuling(s, e, bps, h)
      [] m = "finalizeRuling" -> FinalizeInitialRuling(e) \/ FinalizeFinalRuling(e)
      [] m = "finalizeArbiterTimeoutSplit" -> FinalizeArbiterTimeoutSplit(e)

(* the shares the contract takes *)
ValidBps == {bps \in Bps : bps <= MAX_BPS}

SetsEscrow(e, x) ==
    /\ escrow' = [escrow EXCEPT ![e] = x]
    /\ UNCHANGED <<now, recordVars, moneyVars, roleVars>>

SetsSettlement(e, p) ==
    /\ settlement' = [settlement EXCEPT ![e] = p]
    /\ UNCHANGED <<now, escrow, dispute, resolved, moneyVars, roleVars>>

SetsDispute(e, phase, d) ==
    /\ dispute' = [dispute EXCEPT ![e] = d]
    /\ escrow' = [escrow EXCEPT ![e].phase = phase]
    /\ UNCHANGED <<now, settlement, resolved, moneyVars, roleVars>>

(* its assignments for some input, without any guard on the state *)
Performs(m, e, s) ==
    LET x == escrow[e]
        d == dispute[e]
    IN  CASE m = "submitWork" -> \E h \in Hashes : SetsEscrow(e, [x EXCEPT !.deliveryHash = h])
          [] m = "releaseFunds" -> ResolveAssigns(e, 0, "RELEASE", NoHash)
          [] m = "claimMissedDeliveryRefund" ->
                ResolveAssigns(e, MAX_BPS, "MISSED_DELIVERY_REFUND", NoHash)
          [] m = "claimReviewTimeout" -> ResolveAssigns(e, 0, "REVIEW_TIMEOUT", NoHash)
          [] m = "proposeSettlement" ->
                \E bps \in ValidBps : SetsSettlement(e, [proposer |-> s, clientBps |-> bps])
          [] m = "revokeSettlement" -> SetsSettlement(e, NoSettlement)
          [] m = "acceptSettlement" ->
                ResolveAssigns(e, settlement[e].clientBps, "SETTLEMENT", NoHash)
          [] m = "raiseDispute" ->
                \E h \in Hashes : SetsDispute(e, "DISPUTED",
                    [NoDispute EXCEPT !.raisedBy = s, !.raisedAt = now, !.raiserEvidenceHash = h])
          [] m = "submitCounterpartyEvidence" ->
                \E h \in Hashes : SetsDispute(e, x.phase, [d EXCEPT !.counterpartyEvidenceHash = h])
          [] m = "postInitialRuling" ->
                \E bps \in ValidBps, h \in Hashes : SetsDispute(e, "INITIAL_RULING",
                    [d EXCEPT !.initialClientBps = bps, !.initialRulingAt = now,
                              !.initialDecisionHash = h])
          [] m = "challengeRuling" -> SetsDispute(e, "CHALLENGED", [d EXCEPT !.challengedAt = now])
          [] m = "postFinalRuling" ->
                \E bps \in ValidBps, h \in Hashes : SetsDispute(e, "FINAL_RULING",
                    [d EXCEPT !.finalClientBps = bps, !.finalRulingAt = now,
                              !.finalDecisionHash = h])
          [] m = "finalizeRuling" ->
                IF x.phase = "INITIAL_RULING"
                THEN ResolveAssigns(e, d.initialClientBps, "RULING", d.initialDecisionHash)
                ELSE ResolveAssigns(e, d.finalClientBps, "RULING", d.finalDecisionHash)
          [] m = "finalizeArbiterTimeoutSplit" ->
                ResolveAssigns(e, MAX_BPS \div 2, "ARBITER_TIMEOUT_SPLIT", NoHash)

Unresolved(e) == Exists(e) /\ escrow[e].phase # "RESOLVED"

(* its guards on the state *)
Guard(m, e, s) ==
    LET x == escrow[e]
        d == dispute[e]
    IN  CASE m = "submitWork" ->
                InPhase(e, "FUNDED") /\ s = x.developer /\ now <= x.deliveryDeadline
          [] m = "releaseFunds" ->
                InPhase(e, "FUNDED") /\ s = x.client /\ x.deliveryHash # NoHash
          [] m = "claimMissedDeliveryRefund" -> RefundDue(e)
          [] m = "claimReviewTimeout" -> ReviewOver(e)
          [] m = "proposeSettlement" ->
                Unresolved(e) /\ s \in Parties(e) /\ settlement[e].proposer = NoAddr
          [] m = "revokeSettlement" ->
                /\ Unresolved(e) /\ settlement[e].proposer # NoAddr
                /\ s = settlement[e].proposer
          [] m = "acceptSettlement" ->
                /\ Unresolved(e) /\ settlement[e].proposer # NoAddr
                /\ s \in Parties(e) /\ s # settlement[e].proposer
          [] m = "raiseDispute" -> Exists(e) /\ s \in Parties(e) /\ x.phase = "FUNDED"
          [] m = "submitCounterpartyEvidence" ->
                /\ InPhase(e, "DISPUTED") /\ s = Counterparty(e)
                /\ d.counterpartyEvidenceHash = NoHash
                /\ now < d.raisedAt + EVIDENCE_RESPONSE_PERIOD
          [] m = "postInitialRuling" ->
                /\ InPhase(e, "DISPUTED") /\ s = x.arbiter
                /\ now >= d.raisedAt + EVIDENCE_RESPONSE_PERIOD
                /\ now < d.raisedAt + ARBITER_STALL_PERIOD
          [] m = "challengeRuling" ->
                /\ InPhase(e, "INITIAL_RULING") /\ LostPrincipal(s, e)
                /\ now < d.initialRulingAt + CHALLENGE_PERIOD
          [] m = "postFinalRuling" ->
                /\ InPhase(e, "CHALLENGED") /\ s = x.arbiter
                /\ now < d.challengedAt + ARBITER_STALL_PERIOD
          [] m = "finalizeRuling" -> InitialRulingDue(e) \/ FinalRulingDue(e)
          [] m = "finalizeArbiterTimeoutSplit" -> SplitDue(e)

(* An actor recorded for an escrow is a party to it. *)
PartiesAct ==
    \A e \in Ids :
        /\ settlement[e].proposer \in Parties(e) \cup {NoAddr}
        /\ ~Exists(e) => settlement[e].proposer = NoAddr
        /\ escrow[e].phase \in {"DISPUTED", "INITIAL_RULING", "CHALLENGED", "FINAL_RULING"} =>
              dispute[e].raisedBy \in Parties(e)

(* what a call decides on *)
ActInv == Inv /\ PartiesDiffer /\ PartiesAct

(* the calls that resolve are their guard and their effect *)
LEMMA ResolvingCallsExact ==
    ASSUME ActInv, NEW e \in Ids, NEW s \in Addr, escrow[e].phase # "RESOLVED" => ResolveFits(e),
           NEW m \in {"releaseFunds", "acceptSettlement"} \cup Exits
    PROVE  Called(m, e, s) <=> Guard(m, e, s) /\ Performs(m, e, s)
<1>1. ASSUME NEW bps, NEW kind, NEW h, escrow[e].phase # "RESOLVED"
      PROVE  Resolve(e, bps, kind, h) <=> ResolveAssigns(e, bps, kind, h)
  BY <1>1, ResolveIsAssigns DEF ActInv, Inv
<1>2. CASE m = "releaseFunds"
  <2>1. /\ Called(m, e, s) <=> ReleaseFunds(s, e)
        /\ Performs(m, e, s) <=> ResolveAssigns(e, 0, "RELEASE", NoHash)
        /\ Guard(m, e, s) <=> /\ InPhase(e, "FUNDED") /\ s = escrow[e].client
                              /\ escrow[e].deliveryHash # NoHash
    BY <1>2 DEF Called, Performs, Guard
  <2> QED
    BY <1>1, <2>1, Zenon DEF ReleaseFunds, InPhase
<1>3. CASE m = "acceptSettlement"
  <2>1. /\ Called(m, e, s) <=> AcceptSettlement(s, e)
        /\ Performs(m, e, s) <=> ResolveAssigns(e, settlement[e].clientBps, "SETTLEMENT", NoHash)
        /\ Guard(m, e, s) <=> /\ Unresolved(e) /\ settlement[e].proposer # NoAddr
                              /\ s \in Parties(e) /\ s # settlement[e].proposer
    BY <1>3 DEF Called, Performs, Guard
  <2> QED
    BY <1>1, <2>1, Zenon DEF AcceptSettlement, Unresolved
<1>4. CASE m = "claimMissedDeliveryRefund"
  <2>1. /\ Called(m, e, s) <=> ClaimMissedDeliveryRefund(e)
        /\ Performs(m, e, s) <=> ResolveAssigns(e, MAX_BPS, "MISSED_DELIVERY_REFUND", NoHash)
        /\ Guard(m, e, s) <=> RefundDue(e)
    BY <1>4 DEF Called, Performs, Guard
  <2> QED
    BY <1>1, <2>1, Zenon DEF ClaimMissedDeliveryRefund, RefundDue, InPhase
<1>5. CASE m = "claimReviewTimeout"
  <2>1. /\ Called(m, e, s) <=> ClaimReviewTimeout(e)
        /\ Performs(m, e, s) <=> ResolveAssigns(e, 0, "REVIEW_TIMEOUT", NoHash)
        /\ Guard(m, e, s) <=> ReviewOver(e)
    BY <1>5 DEF Called, Performs, Guard
  <2> QED
    BY <1>1, <2>1, Zenon DEF ClaimReviewTimeout, ReviewOver, InPhase
<1>6. CASE m = "finalizeRuling"
  <2>1. /\ Called(m, e, s) <=> FinalizeInitialRuling(e) \/ FinalizeFinalRuling(e)
        /\ Performs(m, e, s) <=>
             IF escrow[e].phase = "INITIAL_RULING"
             THEN ResolveAssigns(e, dispute[e].initialClientBps, "RULING",
                                 dispute[e].initialDecisionHash)
             ELSE ResolveAssigns(e, dispute[e].finalClientBps, "RULING",
                                 dispute[e].finalDecisionHash)
        /\ Guard(m, e, s) <=> InitialRulingDue(e) \/ FinalRulingDue(e)
    BY <1>6 DEF Called, Performs, Guard
  <2> QED
    BY <1>1, <2>1, Zenon DEF FinalizeInitialRuling, FinalizeFinalRuling, InitialRulingDue,
                             FinalRulingDue, InPhase
<1>7. CASE m = "finalizeArbiterTimeoutSplit"
  <2>1. /\ Called(m, e, s) <=> FinalizeArbiterTimeoutSplit(e)
        /\ Performs(m, e, s) <=> ResolveAssigns(e, MAX_BPS \div 2, "ARBITER_TIMEOUT_SPLIT", NoHash)
        /\ Guard(m, e, s) <=> SplitDue(e)
    BY <1>7 DEF Called, Performs, Guard
  <2> QED
    BY <1>1, <2>1, Zenon DEF FinalizeArbiterTimeoutSplit, SplitDue
<1> QED
  BY <1>2, <1>3, <1>4, <1>5, <1>6, <1>7 DEF Exits

(* the calls about a delivery or a settlement *)
LEMMA DealCallsExact ==
    ASSUME ActInv, NEW e \in Ids, NEW s \in Addr,
           NEW m \in {"submitWork", "proposeSettlement", "revokeSettlement"}
    PROVE  Called(m, e, s) <=> Guard(m, e, s) /\ Performs(m, e, s)
<1>1. CASE m = "submitWork"
  <2>1. /\ Called(m, e, s) <=> \E h \in Hashes : SubmitWork(s, e, h)
        /\ Performs(m, e, s) <=>
             \E h \in Hashes : SetsEscrow(e, [escrow[e] EXCEPT !.deliveryHash = h])
        /\ Guard(m, e, s) <=> /\ InPhase(e, "FUNDED") /\ s = escrow[e].developer
                              /\ now <= escrow[e].deliveryDeadline
    BY <1>1 DEF Called, Performs, Guard
  <2>2. \A h : [escrow EXCEPT ![e].deliveryHash = h]
                 = [escrow EXCEPT ![e] = [escrow[e] EXCEPT !.deliveryHash = h]]
    BY Zenon
  <2> QED
    BY <2>1, <2>2, Zenon DEF SubmitWork, SetsEscrow
<1>2. CASE m = "proposeSettlement"
  <2>1. /\ Called(m, e, s) <=> \E bps \in Bps : ProposeSettlement(s, e, bps)
        /\ Performs(m, e, s) <=>
             \E bps \in ValidBps : SetsSettlement(e, [proposer |-> s, clientBps |-> bps])
        /\ Guard(m, e, s) <=> /\ Unresolved(e) /\ s \in Parties(e)
                              /\ settlement[e].proposer = NoAddr
    BY <1>2 DEF Called, Performs, Guard
  <2> QED
    BY <2>1, Zenon DEF ProposeSettlement, SetsSettlement, Unresolved, ValidBps
<1>3. CASE m = "revokeSettlement"
  <2>1. /\ Called(m, e, s) <=> RevokeSettlement(s, e)
        /\ Performs(m, e, s) <=> SetsSettlement(e, NoSettlement)
        /\ Guard(m, e, s) <=> /\ Unresolved(e) /\ settlement[e].proposer # NoAddr
                              /\ s = settlement[e].proposer
    BY <1>3 DEF Called, Performs, Guard
  <2> QED
    BY <2>1, Zenon DEF RevokeSettlement, SetsSettlement, Unresolved
<1> QED
  BY <1>1, <1>2, <1>3

(* the calls of a dispute *)
LEMMA DisputeCallsExact ==
    ASSUME ActInv, NEW e \in Ids, NEW s \in Addr,
           NEW m \in {"raiseDispute", "submitCounterpartyEvidence", "postInitialRuling",
                      "challengeRuling", "postFinalRuling"}
    PROVE  Called(m, e, s) <=> Guard(m, e, s) /\ Performs(m, e, s)
<1>1. CASE m = "raiseDispute"
  <2>1. /\ Called(m, e, s) <=> \E h \in Hashes : RaiseDispute(s, e, h)
        /\ Performs(m, e, s) <=>
             \E h \in Hashes : SetsDispute(e, "DISPUTED",
                 [NoDispute EXCEPT !.raisedBy = s, !.raisedAt = now, !.raiserEvidenceHash = h])
        /\ Guard(m, e, s) <=> Exists(e) /\ s \in Parties(e) /\ escrow[e].phase = "FUNDED"
    BY <1>1 DEF Called, Performs, Guard
  <2> QED
    BY <2>1, Zenon DEF RaiseDispute, SetsDispute
<1>2. CASE m = "submitCounterpartyEvidence"
  <2>1. /\ Called(m, e, s) <=> \E h \in Hashes : SubmitCounterpartyEvidence(s, e, h)
        /\ Performs(m, e, s) <=>
             \E h \in Hashes : SetsDispute(e, escrow[e].phase,
                                           [dispute[e] EXCEPT !.counterpartyEvidenceHash = h])
        /\ Guard(m, e, s) <=> /\ InPhase(e, "DISPUTED") /\ s = Counterparty(e)
                              /\ dispute[e].counterpartyEvidenceHash = NoHash
                              /\ now < dispute[e].raisedAt + EVIDENCE_RESPONSE_PERIOD
    BY <1>2 DEF Called, Performs, Guard
  <2>2. [escrow EXCEPT ![e].phase = escrow[e].phase] = escrow
    BY SMT DEF ActInv, Inv, TypeOK, EscrowType
  <2>3. \A h : [dispute EXCEPT ![e].counterpartyEvidenceHash = h]
                 = [dispute EXCEPT ![e] = [dispute[e] EXCEPT !.counterpartyEvidenceHash = h]]
    BY Zenon
  <2> QED
    BY <2>1, <2>2, <2>3, Zenon DEF SubmitCounterpartyEvidence, SetsDispute
<1>3. CASE m = "postInitialRuling"
  <2>1. /\ Called(m, e, s) <=> \E bps \in Bps, h \in Hashes : PostInitialRuling(s, e, bps, h)
        /\ Performs(m, e, s) <=>
             \E bps \in ValidBps, h \in Hashes : SetsDispute(e, "INITIAL_RULING",
                 [dispute[e] EXCEPT !.initialClientBps = bps, !.initialRulingAt = now,
                                    !.initialDecisionHash = h])
        /\ Guard(m, e, s) <=> /\ InPhase(e, "DISPUTED") /\ s = escrow[e].arbiter
                              /\ now >= dispute[e].raisedAt + EVIDENCE_RESPONSE_PERIOD
                              /\ now < dispute[e].raisedAt + ARBITER_STALL_PERIOD
    BY <1>3 DEF Called, Performs, Guard
  <2> QED
    BY <2>1, Zenon DEF PostInitialRuling, SetsDispute, ValidBps
<1>4. CASE m = "challengeRuling"
  <2>1. /\ Called(m, e, s) <=> ChallengeRuling(s, e)
        /\ Performs(m, e, s) <=>
             SetsDispute(e, "CHALLENGED", [dispute[e] EXCEPT !.challengedAt = now])
        /\ Guard(m, e, s) <=> /\ InPhase(e, "INITIAL_RULING") /\ LostPrincipal(s, e)
                              /\ now < dispute[e].initialRulingAt + CHALLENGE_PERIOD
    BY <1>4 DEF Called, Performs, Guard
  <2>2. [dispute EXCEPT ![e].challengedAt = now]
          = [dispute EXCEPT ![e] = [dispute[e] EXCEPT !.challengedAt = now]]
    BY Zenon
  <2> QED
    BY <2>1, <2>2, Zenon DEF ChallengeRuling, SetsDispute
<1>5. CASE m = "postFinalRuling"
  <2>1. /\ Called(m, e, s) <=> \E bps \in Bps, h \in Hashes : PostFinalRuling(s, e, bps, h)
        /\ Performs(m, e, s) <=>
             \E bps \in ValidBps, h \in Hashes : SetsDispute(e, "FINAL_RULING",
                 [dispute[e] EXCEPT !.finalClientBps = bps, !.finalRulingAt = now,
                                    !.finalDecisionHash = h])
        /\ Guard(m, e, s) <=> /\ InPhase(e, "CHALLENGED") /\ s = escrow[e].arbiter
                              /\ now < dispute[e].challengedAt + ARBITER_STALL_PERIOD
    BY <1>5 DEF Called, Performs, Guard
  <2> QED
    BY <2>1, Zenon DEF PostFinalRuling, SetsDispute, ValidBps
<1> QED
  BY <1>1, <1>2, <1>3, <1>4, <1>5

(* what the web application checks on an up-to-date index is the guard *)
LEMMA PreparedIsGuard ==
    ASSUME ActInv, NEW e \in Ids, NEW s \in Addr, NEW m \in Methods
    PROVE  Prepared(m, ProjectionOf(e), s) <=> Guard(m, e, s)
<1>0. /\ now \in Nat /\ escrow[e].phase \in Phase /\ s # NoAddr
      /\ dispute[e].initialClientBps \in Nat
      /\ escrow[e].phase = "NONE" <=> ~Exists(e)
      /\ Exists(e) => escrow[e].client # escrow[e].developer
      /\ settlement[e].proposer \in Parties(e) \cup {NoAddr}
      /\ escrow[e].phase \in {"DISPUTED", "INITIAL_RULING", "CHALLENGED", "FINAL_RULING"} =>
              dispute[e].raisedBy \in Parties(e)
  BY AddrAssumption, SMT DEF ActInv, Inv, TypeOK, EscrowType, DisputeType, PhaseMarksExistence,
        PartiesDiffer, PartiesAct
<1>1. CASE m \in {"submitWork", "releaseFunds", "claimMissedDeliveryRefund", "claimReviewTimeout"}
  BY <1>0, <1>1, SMT DEF Prepared, ProjectionOf, Guard, InPhase, RefundDue, ReviewOver,
        PrepareMissedDeliveryRefund, PrepareReviewTimeout
<1>2. CASE m \in {"proposeSettlement", "revokeSettlement", "acceptSettlement", "raiseDispute"}
  BY <1>0, <1>2, SMT DEF Prepared, ProjectionOf, Guard, Unresolved, Parties, Party, Settling
<1>3. CASE m = "submitCounterpartyEvidence"
  BY <1>0, <1>3, SMT DEF Prepared, ProjectionOf, Guard, InPhase, Party, Parties, EvidenceWindow,
        Counterparty
<1>4. CASE m \in {"postInitialRuling", "postFinalRuling"}
  BY <1>0, <1>4, SMT DEF Prepared, ProjectionOf, Guard, InPhase, MayDraftRuling
<1>5. CASE m = "challengeRuling"
  BY <1>0, <1>5, BpsAssumption, SMT DEF Prepared, ProjectionOf, Guard, InPhase, Party,
        PrepareChallenge, LostPrincipal, Ruling
<1>6. CASE m = "finalizeRuling"
  BY <1>0, <1>6, SMT DEF Prepared, ProjectionOf, Guard, InPhase, PrepareFinalizeRuling,
        InitialRulingDue, FinalRulingDue, Ruling
<1>7. CASE m = "finalizeArbiterTimeoutSplit"
  BY <1>0, <1>7, SMT DEF Prepared, ProjectionOf, Guard, PrepareTimeoutSplit, SplitDue,
        StallDeadline
<1> QED
  BY <1>1, <1>2, <1>3, <1>4, <1>5, <1>6, <1>7 DEF Methods

(* proposers and disputers are parties when they act, and the parties stay *)
LEMMA NextPartiesAct == Inv /\ PartiesAct /\ [Next]_vars => PartiesAct'
<1> SUFFICES ASSUME Inv, PartiesAct, [Next]_vars PROVE PartiesAct'
  OBVIOUS
<1> DEFINE Acting(x, p, d) ==
             /\ p.proposer \in {x.client, x.developer, NoAddr}
             /\ x.client = NoAddr => p.proposer = NoAddr
             /\ x.phase \in {"DISPUTED", "INITIAL_RULING", "CHALLENGED", "FINAL_RULING"} =>
                  d.raisedBy \in {x.client, x.developer}
<1>0. /\ TypeOK /\ escrow \in [Ids -> EscrowType] /\ settlement \in [Ids -> SettlementType]
      /\ dispute \in [Ids -> DisputeType]
      /\ \A i \in Ids : Acting(escrow[i], settlement[i], dispute[i])
  BY Zenon DEF Inv, TypeOK, PartiesAct, Parties, Exists
<1>1. ASSUME NEW e \in Ids, Acting(escrow'[e], settlement'[e], dispute'[e]),
             \A i \in Ids : i # e => /\ escrow'[i] = escrow[i]
                                     /\ settlement'[i] = settlement[i]
                                     /\ dispute'[i] = dispute[i]
      PROVE  PartiesAct'
  <2>1. \A i \in Ids : Acting(escrow'[i], settlement'[i], dispute'[i])
    <3> HIDE DEF Acting
    <3> QED
      BY <1>0, <1>1, Zenon
  <2> QED
    BY <2>1, Zenon DEF PartiesAct, Parties, Exists
<1>2. ASSUME UNCHANGED <<escrow, settlement, dispute>>
      PROVE  PartiesAct'
  BY <1>2, Zenon DEF PartiesAct, Parties, Exists
<1>3. ASSUME NEW sender \in Addr, NEW e \in Ids, NEW developer \in Addr,
             NEW amount \in Amounts, NEW deadline \in Nat, NEW h \in Hashes,
             Deposit(sender, e, developer, amount, deadline, h)
      PROVE  PartiesAct'
  <2>1. settlement' = settlement /\ dispute' = dispute /\ escrow[e].client = NoAddr
    BY <1>3 DEF Deposit, recordVars, Exists
  <2>2. (\A i \in Ids : i # e => escrow'[i] = escrow[i]) /\ escrow'[e].phase = "FUNDED"
    BY <1>0, <1>3, SMT DEF Deposit
  <2>3. Acting(escrow'[e], settlement'[e], dispute'[e])
    BY <1>0, <2>1, <2>2, Zenon
  <2> QED
    BY <1>1, <2>1, <2>2, <2>3, Zenon
<1>4. ASSUME NEW sender \in Addr, NEW e \in Ids, NEW h \in Hashes, SubmitWork(sender, e, h)
      PROVE  PartiesAct'
  <2>1. settlement' = settlement /\ dispute' = dispute
    BY <1>4 DEF SubmitWork, recordVars
  <2>2. /\ \A i \in Ids : i # e => escrow'[i] = escrow[i]
        /\ escrow'[e].phase = escrow[e].phase /\ escrow'[e].client = escrow[e].client
        /\ escrow'[e].developer = escrow[e].developer
    BY <1>0, <1>4, SMT DEF SubmitWork, EscrowType
  <2>3. Acting(escrow'[e], settlement'[e], dispute'[e])
    BY <1>0, <2>1, <2>2, Zenon
  <2> QED
    BY <1>1, <2>1, <2>2, <2>3, Zenon
<1>5. ASSUME NEW sender \in Addr, NEW e \in Ids, ResolvingCall(sender, e)
      PROVE  PartiesAct'
  <2>1. PICK bps \in 0..MAX_BPS, kind \in ResolutionKind, h \in Hashes \cup {NoHash} :
               Resolve(e, bps, kind, h)
    BY <1>0, <1>5, ResolvingCalls
  <2>2. dispute' = dispute /\ settlement' = [settlement EXCEPT ![e] = NoSettlement]
    BY <2>1, Zenon DEF Resolve
  <2>3. (\A i \in Ids : i # e => escrow'[i] = escrow[i]) /\ escrow'[e].phase = "RESOLVED"
    BY <1>0, <2>1, ResolveEscrow
  <2>4. (\A i \in Ids : i # e => settlement'[i] = settlement[i])
        /\ settlement'[e].proposer = NoAddr
    BY <1>0, <2>2, SMT DEF NoSettlement
  <2>5. Acting(escrow'[e], settlement'[e], dispute'[e])
    BY <2>3, <2>4, SMT
  <2> QED
    BY <1>1, <2>2, <2>3, <2>4, <2>5, Zenon
<1>6. ASSUME NEW sender \in Addr, NEW e \in Ids, NEW bps \in Bps, ProposeSettlement(sender, e, bps)
      PROVE  PartiesAct'
  <2>1. /\ escrow' = escrow /\ dispute' = dispute
        /\ sender \in {escrow[e].client, escrow[e].developer} /\ escrow[e].client # NoAddr
    BY <1>6 DEF ProposeSettlement, Exists, Parties
  <2>2. (\A i \in Ids : i # e => settlement'[i] = settlement[i])
        /\ settlement'[e].proposer = sender
    BY <1>0, <1>6, SMT DEF ProposeSettlement
  <2>3. Acting(escrow'[e], settlement'[e], dispute'[e])
    BY <1>0, <2>1, <2>2, Zenon
  <2> QED
    BY <1>1, <2>1, <2>2, <2>3, Zenon
<1>7. ASSUME NEW sender \in Addr, NEW e \in Ids, RevokeSettlement(sender, e)
      PROVE  PartiesAct'
  <2>1. escrow' = escrow /\ dispute' = dispute
    BY <1>7 DEF RevokeSettlement
  <2>2. (\A i \in Ids : i # e => settlement'[i] = settlement[i])
        /\ settlement'[e].proposer = NoAddr
    BY <1>0, <1>7, SMT DEF RevokeSettlement, NoSettlement
  <2>3. Acting(escrow'[e], settlement'[e], dispute'[e])
    BY <1>0, <2>1, <2>2, Zenon
  <2> QED
    BY <1>1, <2>1, <2>2, <2>3, Zenon
<1>8. ASSUME NEW sender \in Addr, NEW e \in Ids, DisputeCall(sender, e)
      PROVE  PartiesAct'
  <2>1. settlement' = settlement
    BY <1>0, <1>8, DisputeCallEffect
  <2>2. PICK p \in Phase \ {"NONE", "RESOLVED"} : escrow' = [escrow EXCEPT ![e].phase = p]
    BY <1>0, <1>8, DisputeCallEffect
  <2>3. /\ \A i \in Ids : i # e => escrow'[i] = escrow[i]
        /\ escrow'[e].client = escrow[e].client /\ escrow'[e].developer = escrow[e].developer
    BY <1>0, <2>2, SMT DEF EscrowType
  <2>4. PICK d \in DisputeType : dispute' = [dispute EXCEPT ![e] = d]
    BY <1>0, <1>8, DisputeCallEffect
  <2>5. \A i \in Ids : i # e => dispute'[i] = dispute[i]
    BY <1>0, <2>4, SMT
  <2>6. dispute'[e].raisedBy \in {escrow[e].client, escrow[e].developer}
    <3>1. CASE \E h \in Hashes : RaiseDispute(sender, e, h)
      <4>1. dispute'[e].raisedBy = sender
        BY <1>0, <3>1, SMT DEF RaiseDispute, NoDispute
      <4> QED
        BY <3>1, <4>1 DEF RaiseDispute, Parties
    <3>2. CASE \/ \E h \in Hashes : SubmitCounterpartyEvidence(sender, e, h)
               \/ \E bps \in Bps, h \in Hashes : PostInitialRuling(sender, e, bps, h)
               \/ ChallengeRuling(sender, e)
               \/ \E bps \in Bps, h \in Hashes : PostFinalRuling(sender, e, bps, h)
      <4>1. InPhase(e, "DISPUTED") \/ InPhase(e, "INITIAL_RULING") \/ InPhase(e, "CHALLENGED")
        BY <3>2, Zenon DEF SubmitCounterpartyEvidence, PostInitialRuling, ChallengeRuling,
                    PostFinalRuling
      <4>2. ASSUME NEW h \in Hashes, SubmitCounterpartyEvidence(sender, e, h)
            PROVE  dispute'[e].raisedBy = dispute[e].raisedBy
        BY <1>0, <4>2, SMT DEF SubmitCounterpartyEvidence, DisputeType
      <4>3. ASSUME NEW bps \in Bps, NEW h \in Hashes, PostInitialRuling(sender, e, bps, h)
            PROVE  dispute'[e].raisedBy = dispute[e].raisedBy
        BY <1>0, <4>3, SMT DEF PostInitialRuling, DisputeType
      <4>4. ASSUME ChallengeRuling(sender, e)
            PROVE  dispute'[e].raisedBy = dispute[e].raisedBy
        BY <1>0, <4>4, SMT DEF ChallengeRuling, DisputeType
      <4>5. ASSUME NEW bps \in Bps, NEW h \in Hashes, PostFinalRuling(sender, e, bps, h)
            PROVE  dispute'[e].raisedBy = dispute[e].raisedBy
        BY <1>0, <4>5, SMT DEF PostFinalRuling, DisputeType
      <4>6. dispute'[e].raisedBy = dispute[e].raisedBy
        BY <3>2, <4>2, <4>3, <4>4, <4>5
      <4>7. dispute[e].raisedBy \in {escrow[e].client, escrow[e].developer}
        BY <1>0, <4>1 DEF InPhase
      <4> QED
        BY <4>6, <4>7
    <3> QED
      BY <1>8, <3>1, <3>2, Zenon DEF DisputeCall
  <2>7. Acting(escrow'[e], settlement'[e], dispute'[e])
    BY <1>0, <2>1, <2>3, <2>6, Zenon
  <2> QED
    BY <1>1, <2>1, <2>3, <2>5, <2>7, Zenon
<1>9. CASE \/ \E a \in Addr : Claim(a)
           \/ Tick
           \/ [RolesNext]_roleVars /\ UNCHANGED <<now, escrowVars>>
  <2>1. UNCHANGED <<escrow, settlement, dispute>>
    BY <1>9, Zenon DEF Claim, Tick, escrowVars, recordVars
  <2> QED
    BY <1>2, <2>1
<1> HIDE DEF Acting
<1> QED
  BY <1>0, <1>3, <1>4, <1>5, <1>6, <1>7, <1>8, <1>9, StepCases, Zenon

(* At its deposit an escrow gets parties and an arbiter who can act. *)
SeatsFilled ==
    \A e \in Ids : Exists(e) =>
        {escrow[e].client, escrow[e].developer, escrow[e].arbiter} \subseteq Addr

(* the seats are terms of the deposit *)
LEMMA NextSeatsFilled == Inv /\ SeatsFilled /\ [Next]_vars => SeatsFilled'
<1> SUFFICES ASSUME Inv, SeatsFilled, [Next]_vars, NEW i \in Ids,
                    escrow'[i].client # NoAddr
             PROVE  {escrow'[i].client, escrow'[i].developer, escrow'[i].arbiter} \subseteq Addr
  BY DEF SeatsFilled, Exists
<1>1. CASE Terms(escrow'[i]) = Terms(escrow[i])
  <2>1. /\ escrow'[i].client = escrow[i].client /\ escrow'[i].developer = escrow[i].developer
        /\ escrow'[i].arbiter = escrow[i].arbiter
    BY <1>1, SMT DEF Terms
  <2> QED
    BY <2>1 DEF SeatsFilled, Exists
<1>2. ASSUME NEW sender \in Addr, NEW developer \in Addr, NEW amount \in Amounts,
             NEW deadline \in Nat, NEW h \in Hashes,
             Deposit(sender, i, developer, amount, deadline, h)
      PROVE  {escrow'[i].client, escrow'[i].developer, escrow'[i].arbiter} \subseteq Addr
  BY <1>2, SMT DEF Deposit, Inv, TypeOK, RolesTypeOK
<1> QED
  BY <1>1, <1>2, TermsStep

(* the actors of an escrow are known and can act, always *)
LEMMA AlwaysActInv == Spec => [](ActInv /\ SeatsFilled)
<1>1. Init => ActInv /\ SeatsFilled
  <2> SUFFICES ASSUME Init PROVE ActInv /\ SeatsFilled
    OBVIOUS
  <2>1. \A e \in Ids : /\ escrow[e].client = NoAddr /\ escrow[e].phase = "NONE"
                       /\ settlement[e].proposer = NoAddr
    BY SMT DEF Init, EscrowInit, NoEscrow, NoSettlement
  <2> QED
    BY <2>1, InitInv DEF ActInv, SeatsFilled, PartiesDiffer, PartiesAct, Exists
<1>2. ActInv /\ SeatsFilled /\ [Next]_vars => ActInv' /\ SeatsFilled'
  BY NextInv, NextPartiesDiffer, NextPartiesAct, NextSeatsFilled DEF ActInv
<1> QED
  BY <1>1, <1>2, PTL DEF Spec

(* PreparedExactlyAccepted for a step: while the index is up to date, a step of   *)
(* the contract is a call of method m by s exactly when the web application       *)
(* prepares the call for s and the step does what m does with some input.  So no  *)
(* call the contract takes is withheld, and no prepared call reverts, be it on a  *)
(* window, on a party or a phase, or on the checked arithmetic of _resolve.       *)
PreparedExactlyCalled ==
    \A e \in Ids, s \in Addr, m \in Methods : UpToDate(e) =>
        (Called(m, e, s) <=> Prepared(m, indexed[e], s) /\ Performs(m, e, s))

THEOREM CallsAlwaysPrepared ==
    ASSUME IsFiniteSet(Ids), IsFiniteSet(Addr)
    PROVE  WebSpec => [][PreparedExactlyCalled]_<<vars, webVars>>
<1>1. BooksInv /\ ActInv => PreparedExactlyCalled
  <2> SUFFICES ASSUME BooksInv, ActInv, NEW e \in Ids, NEW s \in Addr, NEW m \in Methods,
                      UpToDate(e)
               PROVE  Called(m, e, s) <=> Prepared(m, indexed[e], s) /\ Performs(m, e, s)
    BY DEF PreparedExactlyCalled
  <2>1. Prepared(m, indexed[e], s) <=> Guard(m, e, s)
    BY PreparedIsGuard DEF UpToDate
  <2>2. escrow[e].phase # "RESOLVED" => ResolveFits(e)
    BY PrincipalInTotal
  <2>3. Called(m, e, s) <=> Guard(m, e, s) /\ Performs(m, e, s)
    BY <2>2, ResolvingCallsExact, DealCallsExact, DisputeCallsExact DEF Methods, Exits
  <2> QED
    BY <2>1, <2>3
<1>2. WebSpec => Spec
  <2>1. [(Next /\ UNCHANGED webVars) \/ WebNext]_<<vars, webVars>> => [Next]_vars
    BY Zenon DEF WebNext, Index, RunDeadlines
  <2> QED
    BY <2>1, PTL DEF WebSpec, Spec
<1> QED
  BY <1>1, <1>2, AlwaysActInv, InductiveBooks, PTL

(* WindowsMeet in the guards of the calls (a call is its guard and its effect:   *)
(* DealCallsExact, DisputeCallsExact, ResolvingCallsExact): at every instant of   *)
(* an undelivered bounty, of a dispute whose evidence period is over and that     *)
(* awaits its ruling, of an initial ruling and of a challenge, exactly one of     *)
(* "the actor may still act" and "anyone may close the window" holds.            *)
MayCall(m, e) == \E s \in Addr : Guard(m, e, s)

WindowsMeetInGuards ==
    \A e \in Ids :
        /\ InPhase(e, "FUNDED") /\ escrow[e].deliveryHash = NoHash =>
              (MayCall("claimMissedDeliveryRefund", e) <=> ~MayCall("submitWork", e))
        /\ InPhase(e, "DISPUTED") /\ EvidenceOver(e) =>
              (MayCall("finalizeArbiterTimeoutSplit", e) <=> ~MayCall("postInitialRuling", e))
        /\ InPhase(e, "INITIAL_RULING") =>
              (MayCall("finalizeRuling", e) <=> ~MayCall("challengeRuling", e))
        /\ InPhase(e, "CHALLENGED") =>
              (MayCall("finalizeArbiterTimeoutSplit", e) <=> ~MayCall("postFinalRuling", e))

THEOREM WindowsAlwaysMeet == Spec => []WindowsMeetInGuards
<1>1. ActInv /\ SeatsFilled => WindowsMeetInGuards
  <2> SUFFICES ASSUME ActInv, SeatsFilled, NEW e \in Ids, Exists(e)
               PROVE  /\ InPhase(e, "FUNDED") /\ escrow[e].deliveryHash = NoHash =>
                            (MayCall("claimMissedDeliveryRefund", e) <=> ~MayCall("submitWork", e))
                      /\ InPhase(e, "DISPUTED") /\ EvidenceOver(e) =>
                            (MayCall("finalizeArbiterTimeoutSplit", e)
                               <=> ~MayCall("postInitialRuling", e))
                      /\ InPhase(e, "INITIAL_RULING") =>
                            (MayCall("finalizeRuling", e) <=> ~MayCall("challengeRuling", e))
                      /\ InPhase(e, "CHALLENGED") =>
                            (MayCall("finalizeArbiterTimeoutSplit", e)
                               <=> ~MayCall("postFinalRuling", e))
    BY DEF WindowsMeetInGuards, InPhase
  <2>0. /\ now \in Nat /\ escrow[e].deliveryDeadline \in Nat /\ dispute[e].raisedAt \in Nat
        /\ dispute[e].initialRulingAt \in Nat /\ dispute[e].challengedAt \in Nat
        /\ dispute[e].initialClientBps \in Nat
        /\ {escrow[e].client, escrow[e].developer, escrow[e].arbiter} \subseteq Addr
    BY SMT DEF ActInv, Inv, TypeOK, EscrowType, DisputeType, SeatsFilled
  <2>1. ASSUME InPhase(e, "FUNDED"), escrow[e].deliveryHash = NoHash
        PROVE  MayCall("claimMissedDeliveryRefund", e) <=> ~MayCall("submitWork", e)
    <3>1. MayCall("claimMissedDeliveryRefund", e) <=> now > escrow[e].deliveryDeadline
      BY <2>0, <2>1, SMT DEF MayCall, Guard, RefundDue
    <3>2. MayCall("submitWork", e) <=> now <= escrow[e].deliveryDeadline
      BY <2>0, <2>1, SMT DEF MayCall, Guard
    <3> QED
      BY <2>0, <3>1, <3>2, SMT
  <2>2. ASSUME InPhase(e, "DISPUTED"), EvidenceOver(e)
        PROVE  MayCall("finalizeArbiterTimeoutSplit", e) <=> ~MayCall("postInitialRuling", e)
    <3>1. MayCall("finalizeArbiterTimeoutSplit", e)
             <=> now >= dispute[e].raisedAt + ARBITER_STALL_PERIOD
      BY <2>0, <2>2, SMT DEF MayCall, Guard, SplitDue, StallDeadline, InPhase
    <3>2. MayCall("postInitialRuling", e) <=> now < dispute[e].raisedAt + ARBITER_STALL_PERIOD
      BY <2>0, <2>2, SMT DEF MayCall, Guard, EvidenceOver
    <3> QED
      BY <2>0, <3>1, <3>2, Periods, SMT
  <2>3. ASSUME InPhase(e, "INITIAL_RULING")
        PROVE  MayCall("finalizeRuling", e) <=> ~MayCall("challengeRuling", e)
    <3>1. MayCall("finalizeRuling", e) <=> now >= dispute[e].initialRulingAt + CHALLENGE_PERIOD
      BY <2>0, <2>3, SMT DEF MayCall, Guard, InitialRulingDue, FinalRulingDue, InPhase
    <3>2. LostPrincipal(escrow[e].client, e) \/ LostPrincipal(escrow[e].developer, e)
      BY <2>0, BpsAssumption, SMT DEF LostPrincipal
    <3>3. MayCall("challengeRuling", e) <=> now < dispute[e].initialRulingAt + CHALLENGE_PERIOD
      BY <2>0, <2>3, <3>2, SMT DEF MayCall, Guard
    <3> QED
      BY <2>0, <3>1, <3>3, Periods, SMT
  <2>4. ASSUME InPhase(e, "CHALLENGED")
        PROVE  MayCall("finalizeArbiterTimeoutSplit", e) <=> ~MayCall("postFinalRuling", e)
    <3>1. MayCall("finalizeArbiterTimeoutSplit", e)
             <=> now >= dispute[e].challengedAt + ARBITER_STALL_PERIOD
      BY <2>0, <2>4, SMT DEF MayCall, Guard, SplitDue, StallDeadline, InPhase
    <3>2. MayCall("postFinalRuling", e) <=> now < dispute[e].challengedAt + ARBITER_STALL_PERIOD
      BY <2>0, <2>4, SMT DEF MayCall, Guard
    <3> QED
      BY <2>0, <3>1, <3>2, Periods, SMT
  <2> QED
    BY <2>1, <2>2, <2>3, <2>4
<1> QED
  BY <1>1, AlwaysActInv, PTL

=============================================================================
