----------------------------- MODULE EscrowProofs -----------------------------
(***************************************************************************)
(* Theorems about BloodyRoarEscrow for every set of escrows, addresses and  *)
(* amounts and every length of the windows; then those about its money: the *)
(* contract implements EscrowPromise for every instance, and its books add  *)
(* up for any finite numbers of escrows and addresses.                      *)
(***************************************************************************)
EXTENDS EscrowRefinement, EscrowAccounts, TLAPS, FiniteSetTheorems

-----------------------------------------------------------------------------
(* The division of a principal *)

(* multiplication by a natural keeps order *)
LEMMA TimesMonotone ==
    ASSUME NEW x \in Nat, NEW a \in Nat, NEW b \in Nat, a <= b
    PROVE  x * a <= x * b
<1>1. PICK c \in Nat : b = a + c
  BY SMT
<1>2. x * b = x * a + x * c /\ x * c \in Nat /\ x * a \in Nat
  BY <1>1, SMT
<1> QED
  BY <1>2, SMT

(* a quotient is no larger than the factor it was bounded by *)
LEMMA DivBounds ==
    ASSUME NEW p \in Nat, NEW x \in Nat, NEW m \in Nat \ {0}, p <= x * m
    PROVE  p \div m \in 0..x
<1> DEFINE q == p \div m
<1>1. q \in Nat /\ m * q <= p
  BY SMT
<1>2. CASE q > x
  <2>1. m * (x + 1) <= m * q
    BY <1>1, <1>2, TimesMonotone, SMT
  <2>2. m * (x + 1) = x * m + m
    BY SMT
  <2> QED
    BY <1>1, <2>1, <2>2, SMT
<1> QED
  BY <1>1, <1>2, SMT

(* A share of an amount is a whole number of units between nothing and all of *)
(* it (Math.mulDiv, bpsOf).                                                   *)
THEOREM MulBpsBounds ==
    ASSUME NEW x \in Nat, NEW bps \in 0..MAX_BPS
    PROVE  MulBps(x, bps) \in 0..x
<1>1. MAX_BPS \in Nat \ {0}
  BY BpsAssumption
<1>2. x * bps <= x * MAX_BPS /\ x * bps \in Nat
  BY <1>1, TimesMonotone, SMT
<1> QED
  BY <1>1, <1>2, DivBounds DEF MulBps

(* _resolve allocates the whole principal: the three parts are whole numbers  *)
(* of units, none negative, that add up to it, and the fee is the platform's  *)
(* percentage of the developer's gross part, so a full refund bears none.     *)
THEOREM SharesAllocatePrincipal ==
    ASSUME NEW amount \in Nat, NEW bps \in 0..MAX_BPS,
           NEW s, s = Shares(amount, bps)
    PROVE  /\ s.clientAmount \in Nat /\ s.developerAmount \in Nat /\ s.platformFee \in Nat
           /\ s.clientAmount + s.developerAmount + s.platformFee = amount
           /\ s.clientAmount = MulBps(amount, bps)
           /\ s.platformFee = MulBps(s.developerAmount + s.platformFee, PLATFORM_FEE_BPS)
<1> DEFINE c == MulBps(amount, bps)
           f == MulBps(amount - c, PLATFORM_FEE_BPS)
<1>1. c \in 0..amount
  BY MulBpsBounds
<1>2. amount - c \in Nat
  BY <1>1, SMT
<1>3. f \in 0..(amount - c)
  BY <1>2, MulBpsBounds, BpsAssumption
<1>4. s.clientAmount = c /\ s.platformFee = f /\ s.developerAmount = amount - c - f
  BY DEF Shares
<1>5. s.developerAmount + s.platformFee = amount - c
  BY <1>1, <1>2, <1>3, <1>4, SMT
<1> QED
  BY <1>1, <1>2, <1>3, <1>4, <1>5, SMT

(* no share of an amount, all of it, and a share of nothing *)
LEMMA MulBpsExtremes ==
    ASSUME NEW x \in Nat
    PROVE  /\ MulBps(x, 0) = 0
           /\ MulBps(x, MAX_BPS) = x
           /\ \A bps \in 0..MAX_BPS : MulBps(0, bps) = 0
<1>1. MAX_BPS \in Nat \ {0}
  BY BpsAssumption
<1>2. (x * MAX_BPS) \div MAX_BPS = x
  <2>1. x * MAX_BPS \in Nat
    BY <1>1, SMT
  <2> DEFINE q == (x * MAX_BPS) \div MAX_BPS
  <2>2. q \in 0..x
    BY <1>1, <2>1, DivBounds
  <2>3. MAX_BPS * x < MAX_BPS * (q + 1)
    BY <1>1, <2>1, SMT
  <2>4. CASE q < x
    <3>1. MAX_BPS * (q + 1) <= MAX_BPS * x
      BY <1>1, <2>2, <2>4, TimesMonotone, SMT
    <3>2. MAX_BPS * x \in Nat /\ MAX_BPS * (q + 1) \in Nat
      BY <1>1, <2>2, SMT
    <3> QED
      BY <2>3, <3>1, <3>2, SMT
  <2> QED
    BY <2>2, <2>4, SMT
<1>3. MulBps(x, MAX_BPS) = x
  BY <1>2 DEF MulBps
<1>4. ASSUME NEW bps \in 0..MAX_BPS PROVE MulBps(0, bps) = 0
  BY <1>1, MulBpsBounds, SMT
<1>5. x * 0 = 0 /\ 0 \div MAX_BPS = 0
  BY <1>1, DivBounds, SMT
<1> QED
  BY <1>3, <1>4, <1>5 DEF MulBps

(* a refund of everything leaves nothing to charge *)
THEOREM FullRefundIsFree ==
    ASSUME NEW amount \in Nat
    PROVE  /\ Shares(amount, MAX_BPS).clientAmount = amount
           /\ Shares(amount, MAX_BPS).platformFee = 0
<1>1. MulBps(amount, MAX_BPS) = amount /\ MulBps(0, PLATFORM_FEE_BPS) = 0
  BY BpsAssumption, MulBpsExtremes
<1>2. amount - amount = 0
  BY SMT
<1> QED
  BY <1>1, <1>2 DEF Shares

-----------------------------------------------------------------------------
(* Records: what an update leaves alone *)

(* a change of phase, of delivery or to RESOLVED keeps a record's type and its terms *)
LEMMA EscrowUpdate ==
    ASSUME NEW x \in EscrowType
    PROVE  /\ \A p \in Phase :
                LET y == [x EXCEPT !.phase = p] IN
                /\ y \in EscrowType /\ Terms(y) = Terms(x) /\ y.phase = p
                /\ y.deliveryHash = x.deliveryHash /\ y.resolutionKind = x.resolutionKind
           /\ \A h \in Hashes \cup {NoHash} :
                LET y == [x EXCEPT !.deliveryHash = h] IN
                /\ y \in EscrowType /\ Terms(y) = Terms(x) /\ y.phase = x.phase
                /\ y.deliveryHash = h /\ y.resolutionKind = x.resolutionKind
           /\ \A k \in ResolutionKind :
                LET y == [x EXCEPT !.phase = "RESOLVED", !.resolutionKind = k] IN
                /\ y \in EscrowType /\ Terms(y) = Terms(x) /\ y.phase = "RESOLVED"
                /\ y.deliveryHash = x.deliveryHash /\ y.resolutionKind = k
<1>1. ASSUME NEW y \in EscrowType, NEW p \in Phase
      PROVE  /\ [y EXCEPT !.phase = p] \in EscrowType
             /\ Terms([y EXCEPT !.phase = p]) = Terms(y)
             /\ [y EXCEPT !.phase = p].phase = p
             /\ [y EXCEPT !.phase = p].deliveryHash = y.deliveryHash
             /\ [y EXCEPT !.phase = p].resolutionKind = y.resolutionKind
  BY SMT DEF EscrowType, Terms
<1>2. ASSUME NEW h \in Hashes \cup {NoHash}
      PROVE  /\ [x EXCEPT !.deliveryHash = h] \in EscrowType
             /\ Terms([x EXCEPT !.deliveryHash = h]) = Terms(x)
             /\ [x EXCEPT !.deliveryHash = h].phase = x.phase
             /\ [x EXCEPT !.deliveryHash = h].deliveryHash = h
             /\ [x EXCEPT !.deliveryHash = h].resolutionKind = x.resolutionKind
  BY SMT DEF EscrowType, Terms
<1>3. ASSUME NEW k \in ResolutionKind,
             NEW y \in EscrowType, y.phase = "RESOLVED"
      PROVE  /\ [y EXCEPT !.resolutionKind = k] \in EscrowType
             /\ Terms([y EXCEPT !.resolutionKind = k]) = Terms(y)
             /\ [y EXCEPT !.resolutionKind = k].phase = "RESOLVED"
             /\ [y EXCEPT !.resolutionKind = k].deliveryHash = y.deliveryHash
             /\ [y EXCEPT !.resolutionKind = k].resolutionKind = k
  BY <1>3, SMT DEF EscrowType, Terms
<1>4. ASSUME NEW k \in ResolutionKind, NEW y,
             y = [x EXCEPT !.phase = "RESOLVED", !.resolutionKind = k]
      PROVE  /\ y \in EscrowType /\ Terms(y) = Terms(x) /\ y.phase = "RESOLVED"
             /\ y.deliveryHash = x.deliveryHash /\ y.resolutionKind = k
  <2> DEFINE z == [x EXCEPT !.phase = "RESOLVED"]
  <2>1. /\ z \in EscrowType /\ Terms(z) = Terms(x) /\ z.phase = "RESOLVED"
        /\ z.deliveryHash = x.deliveryHash
    BY <1>1, Zenon DEF Phase
  <2>2. y = [z EXCEPT !.resolutionKind = k]
    BY <1>4, Zenon
  <2> HIDE DEF z
  <2> QED
    BY <1>3, <2>1, <2>2, Zenon
<1> QED
  BY <1>1, <1>2, <1>4, Zenon

(* every change of a dispute record keeps its type *)
LEMMA DisputeUpdate ==
    ASSUME NEW d \in DisputeType
    PROVE  /\ \A h \in Hashes \cup {NoHash} :
                [d EXCEPT !.counterpartyEvidenceHash = h] \in DisputeType
           /\ \A t \in Nat : [d EXCEPT !.challengedAt = t] \in DisputeType
           /\ \A b \in 0..MAX_BPS, t \in Nat, h \in Hashes \cup {NoHash} :
                [d EXCEPT !.initialClientBps = b, !.initialRulingAt = t,
                          !.initialDecisionHash = h] \in DisputeType
           /\ \A b \in 0..MAX_BPS, t \in Nat, h \in Hashes \cup {NoHash} :
                [d EXCEPT !.finalClientBps = b, !.finalRulingAt = t,
                          !.finalDecisionHash = h] \in DisputeType
<1>1. \A h \in Hashes \cup {NoHash} :
         [d EXCEPT !.counterpartyEvidenceHash = h] \in DisputeType
  BY SMT DEF DisputeType
<1>2. \A t \in Nat : [d EXCEPT !.challengedAt = t] \in DisputeType
  BY SMT DEF DisputeType
<1>3. ASSUME NEW b \in 0..MAX_BPS, NEW t \in Nat, NEW h \in Hashes \cup {NoHash}
      PROVE  [d EXCEPT !.initialClientBps = b, !.initialRulingAt = t,
                       !.initialDecisionHash = h] \in DisputeType
  BY Zenon DEF DisputeType
<1>4. ASSUME NEW b \in 0..MAX_BPS, NEW t \in Nat, NEW h \in Hashes \cup {NoHash}
      PROVE  [d EXCEPT !.finalClientBps = b, !.finalRulingAt = t,
                       !.finalDecisionHash = h] \in DisputeType
  BY Zenon DEF DisputeType
<1> QED
  BY <1>1, <1>2, <1>3, <1>4, Zenon

(* the empty records are of their types *)
LEMMA InitialRecords ==
    /\ NoEscrow \in EscrowType /\ NoSettlement \in SettlementType
    /\ NoDispute \in DisputeType /\ NotResolved \in ResolvedType
<1>1. 0 \in 0..MAX_BPS
  BY BpsAssumption, SMT
<1> QED
  BY <1>1, SMT DEF NoEscrow, NoSettlement, NoDispute, NotResolved,
         EscrowType, SettlementType, DisputeType, ResolvedType, Phase, ResolutionKind

-----------------------------------------------------------------------------
(* Type correctness *)

(* What _resolve does to the escrow records *)
LEMMA ResolveEscrow ==
    ASSUME TypeOK, NEW e \in Ids, NEW bps, NEW kind \in ResolutionKind, NEW h,
           Resolve(e, bps, kind, h)
    PROVE  /\ escrow' \in [Ids -> EscrowType]
           /\ \A i \in Ids : i # e => escrow'[i] = escrow[i]
           /\ Terms(escrow'[e]) = Terms(escrow[e])
           /\ escrow'[e].phase = "RESOLVED" /\ escrow'[e].resolutionKind = kind
           /\ escrow'[e].deliveryHash = escrow[e].deliveryHash
<1> DEFINE y == [escrow[e] EXCEPT !.phase = "RESOLVED", !.resolutionKind = kind]
<1>1. escrow \in [Ids -> EscrowType] /\ escrow[e] \in EscrowType
  BY DEF TypeOK
<1>2. /\ y \in EscrowType /\ Terms(y) = Terms(escrow[e]) /\ y.phase = "RESOLVED"
      /\ y.deliveryHash = escrow[e].deliveryHash /\ y.resolutionKind = kind
  BY <1>1, EscrowUpdate, Zenon
<1>3. escrow' = [escrow EXCEPT ![e] = y]
  BY Zenon DEF Resolve
<1> HIDE DEF y
<1>4. escrow'[e] = y /\ \A i \in Ids : i # e => escrow'[i] = escrow[i]
  BY <1>1, <1>3, SMT
<1>5. escrow' \in [Ids -> EscrowType]
  BY <1>1, <1>2, <1>3, SMT
<1> QED
  BY <1>2, <1>4, <1>5, Zenon

(* A call of _resolve, with the arguments its callers pass, keeps the types.  *)
LEMMA ResolveType ==
    ASSUME TypeOK, NEW e \in Ids, NEW bps \in 0..MAX_BPS,
           NEW kind \in ResolutionKind, NEW h \in Hashes \cup {NoHash},
           Resolve(e, bps, kind, h)
    PROVE  TypeOK'
<1> DEFINE s == Shares(escrow[e].amount, bps)
<1>1. escrow[e] \in EscrowType /\ escrow[e].amount \in Nat
  BY DEF TypeOK, EscrowType
<1>2. s.clientAmount \in Nat /\ s.developerAmount \in Nat /\ s.platformFee \in Nat
  BY <1>1, SharesAllocatePrincipal
<1>3. escrow' \in [Ids -> EscrowType]
  BY ResolveEscrow
<1>4. settlement' \in [Ids -> SettlementType]
  BY InitialRecords DEF TypeOK, Resolve
<1>5. resolved' \in [Ids -> ResolvedType]
  <2>1. now \in Nat
    BY DEF TypeOK
  <2> HIDE DEF s
  <2>2. [clientAmount |-> s.clientAmount, developerAmount |-> s.developerAmount,
         platformFee |-> s.platformFee, decisionHash |-> h, at |-> now] \in ResolvedType
    BY <1>2, <2>1, SMT DEF ResolvedType
  <2> QED
    BY <2>2, SMT DEF TypeOK, Resolve, s
<1>6. claimable' \in [Addr -> Nat]
  <2> SUFFICES ASSUME NEW a \in Addr
               PROVE  claimable[a] + ShareOf(a, escrow[e], s) \in Nat
    BY DEF Resolve
  <2> HIDE DEF s
  <2> QED
    BY <1>2, SMT DEF TypeOK, ShareOf
<1>7. totalUnresolvedPrincipal' \in Nat /\ totalClaimable' \in Nat
  BY <1>1, SMT DEF TypeOK, Resolve
<1> QED
  BY <1>3, <1>4, <1>5, <1>6, <1>7 DEF TypeOK, Resolve, RolesTypeOK, roleVars

(* The calls that end in _resolve: with a share of at most the whole, and only *)
(* for an escrow that exists                                                   *)
ResolvingCall(sender, e) ==
    \/ ReleaseFunds(sender, e)
    \/ AcceptSettlement(sender, e)
    \/ PermissionlessExit(e)

(* every call that resolves goes through _resolve once *)
LEMMA ResolvingCalls ==
    ASSUME TypeOK, NEW e \in Ids, NEW sender \in Addr, ResolvingCall(sender, e)
    PROVE  /\ Exists(e)
           /\ \E bps \in 0..MAX_BPS, kind \in ResolutionKind, h \in Hashes \cup {NoHash} :
                 Resolve(e, bps, kind, h)
<1>1. 0 \in 0..MAX_BPS /\ MAX_BPS \in 0..MAX_BPS /\ MAX_BPS \div 2 \in 0..MAX_BPS
  BY BpsAssumption, SMT
<1>2. /\ settlement[e].clientBps \in 0..MAX_BPS
      /\ dispute[e].initialClientBps \in 0..MAX_BPS /\ dispute[e].finalClientBps \in 0..MAX_BPS
      /\ dispute[e].initialDecisionHash \in Hashes \cup {NoHash}
      /\ dispute[e].finalDecisionHash \in Hashes \cup {NoHash}
  BY SMT DEF TypeOK, SettlementType, DisputeType
<1>3. {"RELEASE", "MISSED_DELIVERY_REFUND", "REVIEW_TIMEOUT", "SETTLEMENT", "RULING",
       "ARBITER_TIMEOUT_SPLIT"} \subseteq ResolutionKind
  BY DEF ResolutionKind
<1>4. CASE ReleaseFunds(sender, e)
  BY <1>1, <1>3, <1>4, Zenon DEF ReleaseFunds, InPhase
<1>5. CASE AcceptSettlement(sender, e)
  BY <1>2, <1>3, <1>5, Zenon DEF AcceptSettlement
<1>6. CASE ClaimMissedDeliveryRefund(e)
  BY <1>1, <1>3, <1>6, Zenon DEF ClaimMissedDeliveryRefund, InPhase
<1>7. CASE ClaimReviewTimeout(e)
  BY <1>1, <1>3, <1>7, Zenon DEF ClaimReviewTimeout, InPhase
<1>8. CASE FinalizeInitialRuling(e)
  BY <1>2, <1>3, <1>8, Zenon DEF FinalizeInitialRuling, InPhase
<1>9. CASE FinalizeFinalRuling(e)
  BY <1>2, <1>3, <1>9, Zenon DEF FinalizeFinalRuling, InPhase
<1>10. CASE FinalizeArbiterTimeoutSplit(e)
  BY <1>1, <1>3, <1>10, Zenon DEF FinalizeArbiterTimeoutSplit
<1> QED
  BY <1>4, <1>5, <1>6, <1>7, <1>8, <1>9, <1>10, Zenon DEF ResolvingCall, PermissionlessExit

(* deposit keeps the types *)
LEMMA DepositType ==
    ASSUME TypeOK, NEW sender \in Addr, NEW e \in Ids, NEW developer \in Addr,
           NEW amount \in Amounts, NEW deadline \in Nat, NEW h \in Hashes,
           Deposit(sender, e, developer, amount, deadline, h)
    PROVE  TypeOK'
<1>1. amount \in Nat /\ now \in Nat
  BY EscrowAssumption DEF TypeOK
<1>2. [client |-> sender, developer |-> developer, arbiter |-> arbiter,
       feeRecipient |-> feeRecipient, amount |-> amount, depositedAt |-> now,
       deliveryDeadline |-> deadline, termsHash |-> h,
       deliveryHash |-> NoHash, phase |-> "FUNDED", resolutionKind |-> "NONE"] \in EscrowType
  BY <1>1, SMT DEF TypeOK, RolesTypeOK, EscrowType, Phase, ResolutionKind
<1>3. escrow' \in [Ids -> EscrowType]
  BY <1>2, SMT DEF TypeOK, Deposit
<1>4. balance' \in Nat /\ totalUnresolvedPrincipal' \in Nat
  BY <1>1, SMT DEF TypeOK, Deposit
<1> QED
  BY <1>3, <1>4, Zenon DEF TypeOK, Deposit, RolesTypeOK, roleVars, recordVars

(* submitWork keeps the types *)
LEMMA SubmitWorkType ==
    ASSUME TypeOK, NEW sender \in Addr, NEW e \in Ids, NEW h \in Hashes,
           SubmitWork(sender, e, h)
    PROVE  TypeOK'
<1> DEFINE y == [escrow[e] EXCEPT !.deliveryHash = h]
<1>1. escrow[e] \in EscrowType
  BY DEF TypeOK
<1>2. y \in EscrowType
  BY <1>1, EscrowUpdate, Zenon
<1>3. escrow' = [escrow EXCEPT ![e] = y]
  BY Zenon DEF SubmitWork
<1> HIDE DEF y
<1>4. escrow' \in [Ids -> EscrowType]
  BY <1>2, <1>3, SMT DEF TypeOK
<1> QED
  BY <1>4, Zenon DEF TypeOK, SubmitWork, RolesTypeOK, roleVars, recordVars, moneyVars

(* proposing and revoking a settlement keep the types *)
LEMMA SettlementCallType ==
    ASSUME TypeOK, NEW sender \in Addr, NEW e \in Ids,
           \/ \E bps \in Bps : ProposeSettlement(sender, e, bps)
           \/ RevokeSettlement(sender, e)
    PROVE  TypeOK'
<1>1. settlement' \in [Ids -> SettlementType]
  <2>1. CASE \E bps \in Bps : ProposeSettlement(sender, e, bps)
    <3>1. PICK bps \in Bps : ProposeSettlement(sender, e, bps)
      BY <2>1
    <3>2. bps \in 0..MAX_BPS
      BY <3>1, EscrowAssumption, BpsAssumption, SMT DEF ProposeSettlement
    <3>3. [proposer |-> sender, clientBps |-> bps] \in SettlementType
      BY <3>2, SMT DEF SettlementType
    <3> QED
      BY <3>1, <3>3, SMT DEF TypeOK, ProposeSettlement
  <2>2. CASE RevokeSettlement(sender, e)
    BY <2>2, InitialRecords, SMT DEF TypeOK, RevokeSettlement
  <2> QED
    BY <2>1, <2>2
<1> QED
  BY <1>1, Zenon DEF TypeOK, ProposeSettlement, RevokeSettlement,
     RolesTypeOK, roleVars, moneyVars

(* The calls of a dispute change its record and the phase, nothing else.       *)
DisputeCall(sender, e) ==
    \/ \E h \in Hashes : RaiseDispute(sender, e, h)
    \/ \E h \in Hashes : SubmitCounterpartyEvidence(sender, e, h)
    \/ \E bps \in Bps, h \in Hashes : PostInitialRuling(sender, e, bps, h)
    \/ ChallengeRuling(sender, e)
    \/ \E bps \in Bps, h \in Hashes : PostFinalRuling(sender, e, bps, h)

(* a dispute call changes the dispute and the phase of its escrow, nothing else *)
LEMMA DisputeCallEffect ==
    ASSUME TypeOK, NEW sender \in Addr, NEW e \in Ids, DisputeCall(sender, e)
    PROVE  /\ Exists(e) /\ escrow[e].phase \notin {"NONE", "RESOLVED"}
           /\ \E d \in DisputeType : dispute' = [dispute EXCEPT ![e] = d]
           /\ \E p \in Phase \ {"NONE", "RESOLVED"} : escrow' = [escrow EXCEPT ![e].phase = p]
           /\ UNCHANGED <<now, settlement, resolved, moneyVars, roleVars>>
<1>1. dispute[e] \in DisputeType /\ now \in Nat /\ escrow \in [Ids -> EscrowType]
  BY DEF TypeOK
<1>2. \A bps \in Bps : bps <= MAX_BPS => bps \in 0..MAX_BPS
  BY EscrowAssumption, BpsAssumption, SMT
<1>3. CASE \E h \in Hashes : RaiseDispute(sender, e, h)
  <2>1. PICK h \in Hashes : RaiseDispute(sender, e, h)
    BY <1>3
  <2>2. [NoDispute EXCEPT !.raisedBy = sender, !.raisedAt = now,
                          !.raiserEvidenceHash = h] \in DisputeType
    BY <1>1, InitialRecords, Zenon DEF DisputeType
  <2> QED
    BY <2>1, <2>2, Zenon DEF RaiseDispute, Phase
<1>4. CASE \E h \in Hashes : SubmitCounterpartyEvidence(sender, e, h)
  <2>1. PICK h \in Hashes : SubmitCounterpartyEvidence(sender, e, h)
    BY <1>4
  <2>2. escrow[e].phase = "DISPUTED" /\ escrow' = escrow
    BY <2>1 DEF SubmitCounterpartyEvidence, InPhase
  <2>3. escrow' = [escrow EXCEPT ![e].phase = "DISPUTED"]
    BY <1>1, <2>2, SMT DEF EscrowType
  <2> QED
    BY <1>1, <2>1, <2>3, DisputeUpdate, Zenon DEF SubmitCounterpartyEvidence, InPhase, Phase
<1>5. CASE \E bps \in Bps, h \in Hashes : PostInitialRuling(sender, e, bps, h)
  BY <1>1, <1>2, <1>5, DisputeUpdate, Zenon DEF PostInitialRuling, InPhase, Phase
<1>6. CASE ChallengeRuling(sender, e)
  BY <1>1, <1>6, DisputeUpdate, Zenon DEF ChallengeRuling, InPhase, Phase
<1>7. CASE \E bps \in Bps, h \in Hashes : PostFinalRuling(sender, e, bps, h)
  BY <1>1, <1>2, <1>7, DisputeUpdate, Zenon DEF PostFinalRuling, InPhase, Phase
<1> QED
  BY <1>3, <1>4, <1>5, <1>6, <1>7 DEF DisputeCall

(* dispute calls keep the types *)
LEMMA DisputeCallType ==
    ASSUME TypeOK, NEW sender \in Addr, NEW e \in Ids, DisputeCall(sender, e)
    PROVE  TypeOK'
<1>1. PICK d \in DisputeType : dispute' = [dispute EXCEPT ![e] = d]
  BY DisputeCallEffect
<1>2. PICK p \in Phase : escrow' = [escrow EXCEPT ![e].phase = p]
  BY DisputeCallEffect
<1>3. UNCHANGED <<now, settlement, resolved, moneyVars, roleVars>>
  BY DisputeCallEffect
<1>4. dispute' \in [Ids -> DisputeType]
  BY <1>1, SMT DEF TypeOK
<1>5. escrow' \in [Ids -> EscrowType]
  <2> DEFINE y == [escrow[e] EXCEPT !.phase = p]
  <2>1. y \in EscrowType
    BY EscrowUpdate, Zenon DEF TypeOK
  <2>2. escrow' = [escrow EXCEPT ![e] = y]
    BY <1>2, Zenon
  <2> HIDE DEF y
  <2> QED
    BY <2>1, <2>2, SMT DEF TypeOK
<1> QED
  BY <1>3, <1>4, <1>5, Zenon DEF TypeOK, RolesTypeOK, roleVars, moneyVars

(* claim keeps the types: what is owed is covered *)
LEMMA ClaimType ==
    ASSUME TypeOK, NEW a \in Addr, Claim(a), FullyBacked
    PROVE  TypeOK'
<1>1. claimable[a] \in Nat /\ totalClaimable >= claimable[a] /\ balance >= claimable[a]
  BY SMT DEF TypeOK, Claim, FullyBacked
<1>2. /\ claimable' \in [Addr -> Nat] /\ paid' \in [Addr -> Nat]
      /\ totalClaimable' \in Nat /\ balance' \in Nat
  BY <1>1, SMT DEF TypeOK, Claim
<1> QED
  BY <1>2, Zenon DEF TypeOK, Claim, RolesTypeOK, roleVars, recordVars

(* the handovers and the pause keep the types *)
LEMMA RolesType ==
    ASSUME RolesTypeOK, [RolesNext]_roleVars
    PROVE  RolesTypeOK'
BY Zenon DEF RolesTypeOK, RolesNext, roleVars, ProspectiveRole, TransferOwnership, AcceptOwnership,
   ProposeArbiter, AcceptArbiter, ProposeFeeRecipient, AcceptFeeRecipient, Pause, Unpause

(* One case for each way a step changes the state *)
LEMMA StepCases ==
    ASSUME TypeOK, [Next]_vars
    PROVE  \/ \E sender \in Addr, e \in Ids, developer \in Addr, amount \in Amounts,
                 deadline \in Nat, h \in Hashes :
                    Deposit(sender, e, developer, amount, deadline, h)
           \/ \E sender \in Addr, e \in Ids, h \in Hashes : SubmitWork(sender, e, h)
           \/ \E sender \in Addr, e \in Ids : ResolvingCall(sender, e)
           \/ \E sender \in Addr, e \in Ids :
                 \/ \E bps \in Bps : ProposeSettlement(sender, e, bps)
                 \/ RevokeSettlement(sender, e)
           \/ \E sender \in Addr, e \in Ids : DisputeCall(sender, e)
           \/ \E a \in Addr : Claim(a)
           \/ Tick
           \/ [RolesNext]_roleVars /\ UNCHANGED <<now, escrowVars>>
<1>1. CASE UNCHANGED vars
  BY <1>1 DEF vars
<1>2. CASE Governance
  BY <1>2 DEF Governance
<1>3. CASE \E sender \in Addr, e \in Ids : PartyCall(sender, e)
  <2>1. PICK sender \in Addr, e \in Ids : PartyCall(sender, e)
    BY <1>3
  <2>2. \A deadline \in 1..MaxTime : deadline \in Nat
    BY EscrowAssumption, SMT
  <2> QED
    BY <2>1, <2>2, Zenon DEF PartyCall, DisputeCall, ResolvingCall
<1>4. CASE \E e \in Ids : PermissionlessExit(e)
  <2>1. Addr # {}
    BY DEF TypeOK, RolesTypeOK
  <2> QED
    BY <1>4, <2>1 DEF ResolvingCall
<1> QED
  BY <1>1, <1>2, <1>3, <1>4, Zenon DEF Next, EscrowNext, Governance

-----------------------------------------------------------------------------
(* The invariant of the contract: types are respected, an id without a client  *)
(* has no phase, and the balance is what is owed, which is what keeps a claim  *)
(* within it.                                                                  *)

PhaseMarksExistence == \A e \in Ids : (escrow[e].phase = "NONE") <=> ~Exists(e)

Inv == TypeOK /\ PhaseMarksExistence /\ FullyBacked

(* the invariant holds at the start *)
LEMMA InitInv == Init => Inv
<1> SUFFICES ASSUME Init PROVE Inv
  OBVIOUS
<1>1. RolesTypeOK
  BY DEF Init, RolesInit, RolesTypeOK
<1>2. TypeOK
  BY <1>1, InitialRecords, SMT DEF Init, EscrowInit, TypeOK
<1>3. PhaseMarksExistence
  BY DEF Init, EscrowInit, PhaseMarksExistence, Exists, NoEscrow
<1>4. FullyBacked
  BY SMT DEF Init, EscrowInit, FullyBacked
<1> QED
  BY <1>2, <1>3, <1>4 DEF Inv

(* every step keeps the invariant *)
LEMMA NextInv == Inv /\ [Next]_vars => Inv'
<1> SUFFICES ASSUME Inv, [Next]_vars PROVE Inv'
  OBVIOUS
<1> USE DEF Inv
<1>0. /\ balance \in Nat /\ totalUnresolvedPrincipal \in Nat /\ totalClaimable \in Nat
      /\ escrow \in [Ids -> EscrowType] /\ NoAddr \notin Addr
  BY AddrAssumption DEF TypeOK
<1>1. ASSUME NEW sender \in Addr, NEW e \in Ids, NEW developer \in Addr,
             NEW amount \in Amounts, NEW deadline \in Nat, NEW h \in Hashes,
             Deposit(sender, e, developer, amount, deadline, h)
      PROVE  Inv'
  <2>1. amount \in Nat
    BY EscrowAssumption
  <2>2. FullyBacked'
    BY <1>0, <1>1, <2>1, SMT DEF Deposit, FullyBacked
  <2>3. PhaseMarksExistence'
    BY <1>0, <1>1, SMT DEF Deposit, PhaseMarksExistence, Exists
  <2> QED
    BY <1>1, <2>2, <2>3, DepositType
<1>2. ASSUME NEW sender \in Addr, NEW e \in Ids, NEW h \in Hashes, SubmitWork(sender, e, h)
      PROVE  Inv'
  <2>1. FullyBacked'
    BY <1>2 DEF SubmitWork, FullyBacked, moneyVars
  <2>2. PhaseMarksExistence'
    BY <1>0, <1>2, SMT DEF SubmitWork, PhaseMarksExistence, Exists
  <2> QED
    BY <1>2, <2>1, <2>2, SubmitWorkType
<1>3. ASSUME NEW sender \in Addr, NEW e \in Ids, ResolvingCall(sender, e)
      PROVE  Inv'
  <2>1. PICK bps \in 0..MAX_BPS, kind \in ResolutionKind, h \in Hashes \cup {NoHash} :
               Exists(e) /\ Resolve(e, bps, kind, h)
    BY <1>3, ResolvingCalls
  <2>2. escrow[e].amount \in Nat
    BY <1>0, SMT DEF EscrowType
  <2>3. FullyBacked'
    BY <1>0, <2>1, <2>2, SMT DEF Resolve, FullyBacked
  <2>4. PhaseMarksExistence'
    BY <2>1, ResolveEscrow, SMT DEF PhaseMarksExistence, Exists, Terms
  <2> QED
    BY <2>1, <2>3, <2>4, ResolveType
<1>4. ASSUME NEW sender \in Addr, NEW e \in Ids,
             \/ \E bps \in Bps : ProposeSettlement(sender, e, bps)
             \/ RevokeSettlement(sender, e)
      PROVE  Inv'
  <2>1. UNCHANGED <<escrow, moneyVars>>
    BY <1>4 DEF ProposeSettlement, RevokeSettlement
  <2> QED
    BY <1>4, <2>1, SettlementCallType DEF PhaseMarksExistence, Exists, FullyBacked, moneyVars
<1>5. ASSUME NEW sender \in Addr, NEW e \in Ids, DisputeCall(sender, e)
      PROVE  Inv'
  <2>1. /\ Exists(e)
        /\ UNCHANGED moneyVars
        /\ \E p \in Phase \ {"NONE", "RESOLVED"} : escrow' = [escrow EXCEPT ![e].phase = p]
    BY <1>5, DisputeCallEffect
  <2>2. PICK p \in Phase \ {"NONE", "RESOLVED"} : escrow' = [escrow EXCEPT ![e].phase = p]
    BY <2>1
  <2>3. PhaseMarksExistence'
    BY <1>0, <2>1, <2>2, SMT DEF PhaseMarksExistence, Exists
  <2> QED
    BY <1>5, <2>1, <2>3, DisputeCallType DEF FullyBacked, moneyVars
<1>6. ASSUME NEW a \in Addr, Claim(a)
      PROVE  Inv'
  <2>1. claimable[a] \in Nat
    BY DEF TypeOK
  <2>2. FullyBacked'
    BY <1>0, <1>6, <2>1, SMT DEF Claim, FullyBacked
  <2> QED
    BY <1>6, <2>2, ClaimType DEF Claim, PhaseMarksExistence, Exists
<1>7. CASE Tick
  <2>1. now' \in Nat
    BY <1>7, SMT DEF Tick, TypeOK
  <2> QED
    BY <1>7, <2>1, Zenon DEF Tick, TypeOK, PhaseMarksExistence, Exists, FullyBacked, RolesTypeOK,
       escrowVars, recordVars, moneyVars, roleVars
<1>8. CASE [RolesNext]_roleVars /\ UNCHANGED <<now, escrowVars>>
  <2>1. RolesTypeOK'
    BY <1>8, RolesType DEF TypeOK
  <2> QED
    BY <1>8, <2>1, Zenon DEF TypeOK, PhaseMarksExistence, Exists, FullyBacked,
       escrowVars, recordVars, moneyVars
<1> QED
  BY <1>1, <1>2, <1>3, <1>4, <1>5, <1>6, <1>7, <1>8, StepCases

(* the invariant holds always *)
LEMMA AlwaysInv == Spec => []Inv
<1>1. Init => Inv
  BY InitInv
<1>2. Inv /\ [Next]_vars => Inv'
  BY NextInv
<1> QED
  BY <1>1, <1>2, PTL DEF Spec

(* Every variable of the contract keeps its type, whatever the calls.          *)
THEOREM TypeCorrect == Spec => []TypeOK
<1>1. Inv => TypeOK
  BY DEF Inv
<1> QED
  BY <1>1, AlwaysInv, PTL

(* The contract never owes a unit it does not hold, nor holds one it does not  *)
(* owe (_assertSolvent, isSolvent).                                            *)
THEOREM AlwaysFullyBacked == Spec => []FullyBacked
<1>1. Inv => FullyBacked
  BY DEF Inv
<1> QED
  BY <1>1, AlwaysInv, PTL

-----------------------------------------------------------------------------
(* Platform roles *)

(* no handover makes two roles one address *)
LEMMA RolesStayDistinct ==
    ASSUME RolesDistinct, [RolesNext]_roleVars
    PROVE  RolesDistinct'
BY Zenon DEF RolesDistinct, RolesNext, roleVars, ProspectiveRole, TransferOwnership, AcceptOwnership,
   ProposeArbiter, AcceptArbiter, ProposeFeeRecipient, AcceptFeeRecipient, Pause, Unpause

(* No order of proposals and acceptances gives one address two roles           *)
(* (_requireProspectiveRole, checked again at acceptance).                     *)
THEOREM RolesAlwaysDistinct == RolesSpec => []RolesDistinct
<1>1. RolesInit => RolesDistinct
  BY DEF RolesInit, RolesDistinct
<1>2. RolesDistinct /\ [RolesNext]_roleVars => RolesDistinct'
  BY RolesStayDistinct
<1> QED
  BY <1>1, <1>2, PTL DEF RolesSpec

-----------------------------------------------------------------------------
(* Terms and outcomes *)

(* a step changes neither the terms of a deposit nor anything of a resolved escrow *)
LEMMA FrozenStep ==
    ASSUME Inv, [Next]_vars, NEW i \in Ids
    PROVE  /\ Exists(i) => Terms(escrow'[i]) = Terms(escrow[i])
           /\ escrow[i].phase = "RESOLVED" =>
                UNCHANGED <<escrow[i], settlement[i], dispute[i], resolved[i]>>
<1> DEFINE Frozen == /\ Exists(i) => Terms(escrow'[i]) = Terms(escrow[i])
                     /\ escrow[i].phase = "RESOLVED" =>
                          UNCHANGED <<escrow[i], settlement[i], dispute[i], resolved[i]>>
<1>0. /\ escrow \in [Ids -> EscrowType] /\ settlement \in [Ids -> SettlementType]
      /\ dispute \in [Ids -> DisputeType] /\ resolved \in [Ids -> ResolvedType]
      /\ (escrow[i].phase = "NONE") <=> ~Exists(i)
  BY DEF Inv, TypeOK, PhaseMarksExistence
<1>1. ASSUME NEW sender \in Addr, NEW e \in Ids, NEW developer \in Addr,
             NEW amount \in Amounts, NEW deadline \in Nat, NEW h \in Hashes,
             Deposit(sender, e, developer, amount, deadline, h)
      PROVE  Frozen
  <2>1. i # e => escrow'[i] = escrow[i]
    BY <1>0, <1>1, SMT DEF Deposit
  <2>2. i = e => ~Exists(i)
    BY <1>1 DEF Deposit
  <2> QED
    BY <1>0, <1>1, <2>1, <2>2, Zenon DEF Deposit, recordVars
<1>2. ASSUME NEW sender \in Addr, NEW e \in Ids, NEW h \in Hashes, SubmitWork(sender, e, h)
      PROVE  Frozen
  <2> DEFINE y == [escrow[e] EXCEPT !.deliveryHash = h]
  <2>1. Terms(y) = Terms(escrow[e])
    BY <1>0, EscrowUpdate, Zenon
  <2>2. escrow' = [escrow EXCEPT ![e] = y]
    BY <1>2, Zenon DEF SubmitWork
  <2> HIDE DEF y
  <2>3. Terms(escrow'[i]) = Terms(escrow[i]) /\ (i # e => escrow'[i] = escrow[i])
    BY <1>0, <2>1, <2>2, Zenon
  <2>4. escrow[e].phase = "FUNDED"
    BY <1>2 DEF SubmitWork, InPhase
  <2> QED
    BY <1>2, <2>3, <2>4, Zenon DEF SubmitWork, recordVars
<1>3. ASSUME NEW sender \in Addr, NEW e \in Ids, ResolvingCall(sender, e)
      PROVE  Frozen
  <2>1. PICK bps \in 0..MAX_BPS, kind \in ResolutionKind, h \in Hashes \cup {NoHash} :
               Resolve(e, bps, kind, h)
    BY <1>3, ResolvingCalls DEF Inv
  <2>2. Terms(escrow'[i]) = Terms(escrow[i]) /\ (i # e => escrow'[i] = escrow[i])
    BY <2>1, ResolveEscrow DEF Inv
  <2>3. escrow[e].phase # "RESOLVED" /\ dispute' = dispute
    BY <2>1 DEF Resolve
  <2>4. i # e => settlement'[i] = settlement[i] /\ resolved'[i] = resolved[i]
    BY <1>0, <2>1, SMT DEF Resolve
  <2> QED
    BY <2>2, <2>3, <2>4, Zenon
<1>4. ASSUME NEW sender \in Addr, NEW e \in Ids,
             \/ \E bps \in Bps : ProposeSettlement(sender, e, bps)
             \/ RevokeSettlement(sender, e)
      PROVE  Frozen
  <2>1. UNCHANGED <<escrow, dispute, resolved>> /\ escrow[e].phase # "RESOLVED"
    BY <1>4 DEF ProposeSettlement, RevokeSettlement
  <2>2. i # e => settlement'[i] = settlement[i]
    BY <1>0, <1>4, SMT DEF ProposeSettlement, RevokeSettlement
  <2> QED
    BY <2>1, <2>2, Zenon
<1>5. ASSUME NEW sender \in Addr, NEW e \in Ids, DisputeCall(sender, e)
      PROVE  Frozen
  <2>1. /\ escrow[e].phase # "RESOLVED" /\ UNCHANGED <<settlement, resolved>>
        /\ \E d \in DisputeType : dispute' = [dispute EXCEPT ![e] = d]
        /\ \E p \in Phase \ {"NONE", "RESOLVED"} : escrow' = [escrow EXCEPT ![e].phase = p]
    BY <1>5, DisputeCallEffect DEF Inv
  <2>2. PICK p \in Phase : escrow' = [escrow EXCEPT ![e].phase = p]
    BY <2>1
  <2> DEFINE y == [escrow[e] EXCEPT !.phase = p]
  <2>3. Terms(y) = Terms(escrow[e])
    BY <1>0, EscrowUpdate, Zenon
  <2>4. escrow' = [escrow EXCEPT ![e] = y]
    BY <2>2, Zenon
  <2> HIDE DEF y
  <2>5. Terms(escrow'[i]) = Terms(escrow[i]) /\ (i # e => escrow'[i] = escrow[i])
    BY <1>0, <2>3, <2>4, Zenon
  <2>6. i # e => dispute'[i] = dispute[i]
    BY <1>0, <2>1, SMT
  <2> QED
    BY <2>1, <2>5, <2>6, Zenon
<1>6. CASE \/ \E a \in Addr : Claim(a)
           \/ Tick
           \/ [RolesNext]_roleVars /\ UNCHANGED <<now, escrowVars>>
  <2>1. UNCHANGED <<escrow, settlement, dispute, resolved>>
    BY <1>6, Zenon DEF Claim, Tick, escrowVars, recordVars
  <2> QED
    BY <2>1, Zenon
<1> QED
  BY <1>1, <1>2, <1>3, <1>4, <1>5, <1>6, StepCases DEF Inv

(* The parties, the arbiter and the fee recipient a principal was deposited    *)
(* under bind it to the end, and a resolution is final.                        *)
THEOREM TermsAlwaysFrozen == Spec => TermsFrozen
<1>1. Inv /\ [Next]_vars =>
        [\A e \in Ids :
           /\ Exists(e) => Terms(escrow'[e]) = Terms(escrow[e])
           /\ escrow[e].phase = "RESOLVED" =>
                UNCHANGED <<escrow[e], settlement[e], dispute[e], resolved[e]>>]_vars
  BY FrozenStep
<1> QED
  BY <1>1, AlwaysInv, PTL DEF Spec, TermsFrozen

(* an escrow becomes resolved by one of these calls on it and no other way *)
LEMMA OnlyResolvingCallsResolve ==
    ASSUME Inv, [Next]_vars, NEW i \in Ids,
           escrow[i].phase # "RESOLVED", escrow'[i].phase = "RESOLVED"
    PROVE  \E sender \in Addr : ResolvingCall(sender, i)
<1>0. escrow \in [Ids -> EscrowType]
  BY DEF Inv, TypeOK
<1>1. ASSUME NEW sender \in Addr, NEW e \in Ids, NEW developer \in Addr,
             NEW amount \in Amounts, NEW deadline \in Nat, NEW h \in Hashes,
             Deposit(sender, e, developer, amount, deadline, h)
      PROVE  FALSE
  BY <1>0, <1>1, SMT DEF Deposit
<1>2. ASSUME NEW sender \in Addr, NEW e \in Ids, NEW h \in Hashes, SubmitWork(sender, e, h)
      PROVE  FALSE
  BY <1>0, <1>2, SMT DEF SubmitWork
<1>3. ASSUME NEW sender \in Addr, NEW e \in Ids, ResolvingCall(sender, e)
      PROVE  e = i
  <2>1. PICK bps \in 0..MAX_BPS, kind \in ResolutionKind, h \in Hashes \cup {NoHash} :
               Resolve(e, bps, kind, h)
    BY <1>3, ResolvingCalls DEF Inv
  <2> QED
    BY <2>1, ResolveEscrow DEF Inv
<1>4. ASSUME NEW sender \in Addr, NEW e \in Ids, DisputeCall(sender, e)
      PROVE  FALSE
  <2>1. PICK p \in Phase \ {"NONE", "RESOLVED"} : escrow' = [escrow EXCEPT ![e].phase = p]
    BY <1>4, DisputeCallEffect DEF Inv
  <2> QED
    BY <1>0, <2>1, SMT
<1>5. CASE \/ \E sender \in Addr, e \in Ids :
                \/ \E bps \in Bps : ProposeSettlement(sender, e, bps)
                \/ RevokeSettlement(sender, e)
           \/ \E a \in Addr : Claim(a)
           \/ Tick
           \/ [RolesNext]_roleVars /\ UNCHANGED <<now, escrowVars>>
  <2>1. escrow' = escrow
    BY <1>5, Zenon DEF ProposeSettlement, RevokeSettlement, Claim, Tick, escrowVars
  <2> QED
    BY <2>1, Zenon
<1> QED
  BY <1>1, <1>2, <1>3, <1>4, <1>5, StepCases, Zenon DEF Inv

(* what _resolve records of the division *)
LEMMA ResolveRecord ==
    ASSUME TypeOK, NEW e \in Ids, NEW bps \in 0..MAX_BPS, NEW kind, NEW h,
           Resolve(e, bps, kind, h)
    PROVE  /\ resolved'[e].clientAmount = MulBps(escrow[e].amount, bps)
           /\ resolved'[e].clientAmount + resolved'[e].developerAmount
                 + resolved'[e].platformFee = escrow[e].amount
           /\ resolved'[e].platformFee
                 = MulBps(resolved'[e].developerAmount + resolved'[e].platformFee, PLATFORM_FEE_BPS)
           /\ resolved'[e].decisionHash = h /\ resolved'[e].at = now
           /\ \A i \in Ids : i # e => resolved'[i] = resolved[i]
           /\ dispute' = dispute
<1> DEFINE s == Shares(escrow[e].amount, bps)
<1>1. escrow[e].amount \in Nat /\ resolved \in [Ids -> ResolvedType]
  BY SMT DEF TypeOK, EscrowType
<1>2. /\ s.clientAmount + s.developerAmount + s.platformFee = escrow[e].amount
      /\ s.clientAmount = MulBps(escrow[e].amount, bps)
      /\ s.platformFee = MulBps(s.developerAmount + s.platformFee, PLATFORM_FEE_BPS)
  BY <1>1, SharesAllocatePrincipal
<1>3. resolved' = [resolved EXCEPT ![e] =
         [clientAmount |-> s.clientAmount, developerAmount |-> s.developerAmount,
          platformFee |-> s.platformFee, decisionHash |-> h, at |-> now]]
  BY Zenon DEF Resolve
<1>4. dispute' = dispute
  BY DEF Resolve
<1> HIDE DEF s
<1>5. /\ resolved'[e] = [clientAmount |-> s.clientAmount, developerAmount |-> s.developerAmount,
                         platformFee |-> s.platformFee, decisionHash |-> h, at |-> now]
      /\ \A i \in Ids : i # e => resolved'[i] = resolved[i]
  BY <1>1, <1>3, Zenon
<1>6. /\ resolved'[e].clientAmount = s.clientAmount
      /\ resolved'[e].developerAmount = s.developerAmount
      /\ resolved'[e].platformFee = s.platformFee
      /\ resolved'[e].decisionHash = h /\ resolved'[e].at = now
  BY <1>5, SMT
<1> QED
  BY <1>2, <1>4, <1>5, <1>6

(* Whatever the client share and the rounding, a resolution allocates the      *)
(* principal to the last unit, and the fee falls on the developer's part.      *)
THEOREM AlwaysFullyAllocated == Spec => []PrincipalFullyAllocated
<1>1. Init => PrincipalFullyAllocated
  BY DEF Init, EscrowInit, PrincipalFullyAllocated, NoEscrow
<1>2. Inv /\ PrincipalFullyAllocated /\ [Next]_vars => PrincipalFullyAllocated'
  <2> SUFFICES ASSUME Inv, PrincipalFullyAllocated, [Next]_vars,
                      NEW i \in Ids, escrow'[i].phase = "RESOLVED"
               PROVE  LET r == resolved'[i] IN
                      /\ r.clientAmount + r.developerAmount + r.platformFee = escrow'[i].amount
                      /\ r.platformFee = MulBps(r.developerAmount + r.platformFee,
                                                PLATFORM_FEE_BPS)
    BY Zenon DEF PrincipalFullyAllocated
  <2>1. CASE escrow[i].phase = "RESOLVED"
    BY <2>1, FrozenStep, Zenon DEF PrincipalFullyAllocated
  <2>2. CASE escrow[i].phase # "RESOLVED"
    <3>1. PICK sender \in Addr : ResolvingCall(sender, i)
      BY <2>2, OnlyResolvingCallsResolve
    <3>2. PICK bps \in 0..MAX_BPS, kind \in ResolutionKind, h \in Hashes \cup {NoHash} :
                 Exists(i) /\ Resolve(i, bps, kind, h)
      BY <3>1, ResolvingCalls DEF Inv
    <3>3. escrow'[i].amount = escrow[i].amount
      BY <3>2, ResolveEscrow, SMT DEF Terms, Inv
    <3> QED
      BY <3>2, <3>3, ResolveRecord, Zenon DEF Inv
  <2> QED
    BY <2>1, <2>2
<1> QED
  BY <1>1, <1>2, AlwaysInv, PTL DEF Spec

-----------------------------------------------------------------------------
(* Outcomes.  OutcomeMatchesProcess speaks of resolved escrows only; what makes *)
(* it inductive is where the dispute record stands in each earlier phase.       *)

Raised(x, d, t) == d.raisedAt >= x.depositedAt /\ d.raisedAt <= t
Ruled(d, t) ==
    /\ d.initialRulingAt >= d.raisedAt + EVIDENCE_RESPONSE_PERIOD
    /\ d.initialRulingAt < d.raisedAt + ARBITER_STALL_PERIOD
    /\ d.initialRulingAt <= t
Challenged(d, t) ==
    /\ d.challengedAt >= d.initialRulingAt
    /\ d.challengedAt < d.initialRulingAt + CHALLENGE_PERIOD
    /\ d.challengedAt <= t
FinallyRuled(d, t) ==
    /\ d.finalRulingAt >= d.challengedAt
    /\ d.finalRulingAt < d.challengedAt + ARBITER_STALL_PERIOD
    /\ d.finalRulingAt <= t

(* the record of a dispute at time t in each phase before the resolution *)
Stage(x, d, t) ==
    /\ x.phase \in {"NONE", "FUNDED"} => d = NoDispute
    /\ x.phase = "FUNDED" => x.depositedAt <= t
    /\ x.phase \in {"DISPUTED", "INITIAL_RULING", "CHALLENGED", "FINAL_RULING"} => Raised(x, d, t)
    /\ x.phase \in {"INITIAL_RULING", "CHALLENGED", "FINAL_RULING"} => Ruled(d, t)
    /\ x.phase \in {"CHALLENGED", "FINAL_RULING"} => Challenged(d, t)
    /\ x.phase = "FINAL_RULING" => FinallyRuled(d, t)
    /\ x.phase = "DISPUTED" => d.initialRulingAt = 0
    /\ x.phase \in {"DISPUTED", "INITIAL_RULING"} => d.challengedAt = 0
    /\ x.phase \in {"DISPUTED", "INITIAL_RULING", "CHALLENGED"} => d.finalRulingAt = 0

Course == \A e \in Ids : Stage(escrow[e], dispute[e], now)

(* OutcomeMatchesProcess for one escrow *)
Outcome(e) ==
    /\ escrow[e].resolutionKind # "NONE"
    /\ escrow[e].resolutionKind = "RELEASE" => ByRelease(e)
    /\ escrow[e].resolutionKind = "MISSED_DELIVERY_REFUND" => ByMissedDelivery(e)
    /\ escrow[e].resolutionKind = "REVIEW_TIMEOUT" => ByReviewTimeout(e)
    /\ escrow[e].resolutionKind = "RULING" => ByUnchallengedRuling(e) \/ ByFinalRuling(e)
    /\ escrow[e].resolutionKind = "ARBITER_TIMEOUT_SPLIT" => ByTimeoutSplit(e)

(* the windows are natural, and there is time for evidence *)
LEMMA Periods ==
    /\ REVIEW_PERIOD \in Nat /\ CHALLENGE_PERIOD \in Nat /\ FINAL_RULING_NOTICE_PERIOD \in Nat
    /\ ARBITER_STALL_PERIOD \in Nat /\ EVIDENCE_RESPONSE_PERIOD \in Nat
    /\ EVIDENCE_RESPONSE_PERIOD > 0
BY EscrowAssumption, SMT

(* a change of phase leaves the time of the deposit *)
LEMMA EnterPhase ==
    ASSUME TypeOK, NEW e \in Ids, NEW p \in Phase, escrow' = [escrow EXCEPT ![e].phase = p]
    PROVE  escrow'[e].phase = p /\ escrow'[e].depositedAt = escrow[e].depositedAt
BY SMT DEF TypeOK, EscrowType

(* dispute calls keep the order of a dispute's times *)
LEMMA DisputeCallCourse ==
    ASSUME Inv, Course, NEW sender \in Addr, NEW e \in Ids, DisputeCall(sender, e)
    PROVE  Course'
<1> DEFINE x == escrow[e]
           d == dispute[e]
           y == dispute'[e]
<1>0. /\ TypeOK /\ now \in Nat /\ dispute \in [Ids -> DisputeType] /\ escrow \in [Ids -> EscrowType]
      /\ d \in DisputeType /\ Stage(x, d, now) /\ x.depositedAt \in Nat
      /\ d.raisedAt \in Nat /\ d.initialRulingAt \in Nat /\ d.challengedAt \in Nat
  BY SMT DEF Inv, TypeOK, Course, EscrowType, DisputeType
<1>1. /\ now' = now
      /\ \E u \in DisputeType : dispute' = [dispute EXCEPT ![e] = u]
      /\ \E p \in Phase : escrow' = [escrow EXCEPT ![e].phase = p]
  BY <1>0, DisputeCallEffect
<1>2. /\ \A i \in Ids : i # e => escrow'[i] = escrow[i] /\ dispute'[i] = dispute[i]
      /\ escrow'[e].depositedAt = x.depositedAt
  BY <1>0, <1>1, EnterPhase, SMT
<1>3. d \in DisputeType
  BY <1>0
<1>4. Stage(escrow'[e], dispute'[e], now)
  <2>1. CASE \E h \in Hashes : RaiseDispute(sender, e, h)
    <3>1. PICK h \in Hashes : RaiseDispute(sender, e, h)
      BY <2>1
    <3>2. x.phase = "FUNDED" /\ escrow'[e].phase = "DISPUTED"
      BY <1>0, <3>1, EnterPhase DEF RaiseDispute, Phase
    <3>3. y = [NoDispute EXCEPT !.raisedBy = sender, !.raisedAt = now, !.raiserEvidenceHash = h]
      BY <1>0, <3>1, Zenon DEF RaiseDispute
    <3>4. y.raisedAt = now /\ y.initialRulingAt = 0 /\ y.challengedAt = 0 /\ y.finalRulingAt = 0
      BY <1>3, <3>3, Zenon DEF DisputeType, NoDispute
    <3> QED
      BY <1>0, <1>1, <1>2, <3>2, <3>4, SMT DEF Stage, Raised
  <2>2. CASE \E h \in Hashes : SubmitCounterpartyEvidence(sender, e, h)
    <3>1. PICK h \in Hashes : SubmitCounterpartyEvidence(sender, e, h)
      BY <2>2
    <3>2. x.phase = "DISPUTED" /\ escrow'[e].phase = "DISPUTED"
      BY <3>1 DEF SubmitCounterpartyEvidence, InPhase
    <3>3. y = [d EXCEPT !.counterpartyEvidenceHash = h]
      BY <1>0, <3>1, Zenon DEF SubmitCounterpartyEvidence
    <3>4. /\ y.raisedAt = d.raisedAt /\ y.initialRulingAt = d.initialRulingAt
          /\ y.challengedAt = d.challengedAt /\ y.finalRulingAt = d.finalRulingAt
      BY <1>3, <3>3, Zenon DEF DisputeType, NoDispute
    <3> QED
      BY <1>0, <1>1, <1>2, <3>2, <3>4, SMT DEF Stage, Raised
  <2>3. CASE \E bps \in Bps, h \in Hashes : PostInitialRuling(sender, e, bps, h)
    <3>1. PICK bps \in Bps, h \in Hashes : PostInitialRuling(sender, e, bps, h)
      BY <2>3
    <3>2. /\ x.phase = "DISPUTED" /\ escrow'[e].phase = "INITIAL_RULING"
          /\ now >= d.raisedAt + EVIDENCE_RESPONSE_PERIOD
          /\ now < d.raisedAt + ARBITER_STALL_PERIOD
      BY <1>0, <3>1, EnterPhase DEF PostInitialRuling, InPhase, Phase
    <3>3. y = [d EXCEPT !.initialClientBps = bps, !.initialRulingAt = now,
                        !.initialDecisionHash = h]
      BY <1>0, <3>1, Zenon DEF PostInitialRuling
    <3>4. /\ y.raisedAt = d.raisedAt /\ y.initialRulingAt = now
          /\ y.challengedAt = d.challengedAt /\ y.finalRulingAt = d.finalRulingAt
      BY <1>3, <3>3, Zenon DEF DisputeType, NoDispute
    <3> QED
      BY <1>0, <1>1, <1>2, <3>2, <3>4, SMT DEF Stage, Raised, Ruled
  <2>4. CASE ChallengeRuling(sender, e)
    <3>1. /\ x.phase = "INITIAL_RULING" /\ escrow'[e].phase = "CHALLENGED"
          /\ now < d.initialRulingAt + CHALLENGE_PERIOD
      BY <1>0, <2>4, EnterPhase DEF ChallengeRuling, InPhase, Phase
    <3>2. y = [d EXCEPT !.challengedAt = now]
      BY <1>0, <2>4, Zenon DEF ChallengeRuling
    <3>3. /\ y.raisedAt = d.raisedAt /\ y.initialRulingAt = d.initialRulingAt
          /\ y.challengedAt = now /\ y.finalRulingAt = d.finalRulingAt
      BY <1>3, <3>2, Zenon DEF DisputeType, NoDispute
    <3> QED
      BY <1>0, <1>1, <1>2, <3>1, <3>3, SMT DEF Stage, Raised, Ruled, Challenged
  <2>5. CASE \E bps \in Bps, h \in Hashes : PostFinalRuling(sender, e, bps, h)
    <3>1. PICK bps \in Bps, h \in Hashes : PostFinalRuling(sender, e, bps, h)
      BY <2>5
    <3>2. /\ x.phase = "CHALLENGED" /\ escrow'[e].phase = "FINAL_RULING"
          /\ now < d.challengedAt + ARBITER_STALL_PERIOD
      BY <1>0, <3>1, EnterPhase DEF PostFinalRuling, InPhase, Phase
    <3>3. y = [d EXCEPT !.finalClientBps = bps, !.finalRulingAt = now, !.finalDecisionHash = h]
      BY <1>0, <3>1, Zenon DEF PostFinalRuling
    <3>4. /\ y.raisedAt = d.raisedAt /\ y.initialRulingAt = d.initialRulingAt
          /\ y.challengedAt = d.challengedAt /\ y.finalRulingAt = now
      BY <1>3, <3>3, Zenon DEF DisputeType, NoDispute
    <3> QED
      BY <1>0, <1>1, <1>2, <3>2, <3>4, SMT DEF Stage, Raised, Ruled, Challenged, FinallyRuled
  <2> QED
    BY <2>1, <2>2, <2>3, <2>4, <2>5 DEF DisputeCall
<1> QED
  BY <1>0, <1>1, <1>2, <1>4, Zenon DEF Course

(* what a resolution shows of the escrow afterwards *)
LEMMA ResolveFacts ==
    ASSUME TypeOK, NEW e \in Ids, NEW bps \in 0..MAX_BPS, NEW kind \in ResolutionKind, NEW h,
           Resolve(e, bps, kind, h)
    PROVE  /\ escrow'[e].resolutionKind = kind
           /\ escrow'[e].deliveryHash = escrow[e].deliveryHash
           /\ escrow'[e].amount = escrow[e].amount
           /\ escrow'[e].depositedAt = escrow[e].depositedAt
           /\ escrow'[e].deliveryDeadline = escrow[e].deliveryDeadline
           /\ dispute'[e] = dispute[e]
           /\ resolved'[e].clientAmount = MulBps(escrow[e].amount, bps)
           /\ resolved'[e].decisionHash = h /\ resolved'[e].at = now
<1>1. escrow'[e].resolutionKind = kind /\ escrow'[e].deliveryHash = escrow[e].deliveryHash
  BY ResolveEscrow
<1>2. /\ escrow'[e].amount = escrow[e].amount
      /\ escrow'[e].depositedAt = escrow[e].depositedAt
      /\ escrow'[e].deliveryDeadline = escrow[e].deliveryDeadline
  <2>1. Terms(escrow'[e]) = Terms(escrow[e])
    BY ResolveEscrow
  <2> QED
    BY <2>1, SMT DEF Terms
<1>3. /\ resolved'[e].clientAmount = MulBps(escrow[e].amount, bps)
      /\ resolved'[e].decisionHash = h /\ resolved'[e].at = now
      /\ dispute'[e] = dispute[e]
  BY ResolveRecord
<1> QED
  BY <1>1, <1>2, <1>3, Zenon

(* a call that resolves records the outcome its history calls for *)
LEMMA ResolvedOutcome ==
    ASSUME Inv, Course, NEW sender \in Addr, NEW e \in Ids, ResolvingCall(sender, e)
    PROVE  Outcome(e)'
<1> DEFINE x == escrow[e]
           d == dispute[e]
<1>0. /\ TypeOK /\ Stage(x, d, now) /\ x.amount \in Nat /\ now \in Nat
      /\ d.raisedAt \in Nat /\ d.initialRulingAt \in Nat /\ d.challengedAt \in Nat
  BY SMT DEF Inv, TypeOK, Course, EscrowType, DisputeType
<1>1. 0 \in 0..MAX_BPS /\ MAX_BPS \in 0..MAX_BPS /\ MAX_BPS \div 2 \in 0..MAX_BPS
  BY BpsAssumption, SMT
<1>2. /\ settlement[e].clientBps \in 0..MAX_BPS
      /\ d.initialClientBps \in 0..MAX_BPS /\ d.finalClientBps \in 0..MAX_BPS
  BY SMT DEF Inv, TypeOK, SettlementType, DisputeType
<1>3. {"RELEASE", "MISSED_DELIVERY_REFUND", "REVIEW_TIMEOUT", "SETTLEMENT", "RULING",
       "ARBITER_TIMEOUT_SPLIT"} \subseteq ResolutionKind
  BY DEF ResolutionKind
<1>4. CASE ReleaseFunds(sender, e)
  <2>1. Resolve(e, 0, "RELEASE", NoHash) /\ x.phase = "FUNDED" /\ x.deliveryHash # NoHash
    BY <1>4 DEF ReleaseFunds, InPhase
  <2>2. resolved'[e].clientAmount = 0
    BY <1>0, <1>1, <1>3, <2>1, ResolveFacts, MulBpsExtremes
  <2>3. /\ escrow'[e].resolutionKind = "RELEASE" /\ escrow'[e].deliveryHash = x.deliveryHash
        /\ dispute'[e] = d
    BY <1>0, <1>1, <1>3, <2>1, ResolveFacts
  <2> QED
    BY <1>0, <2>1, <2>2, <2>3, SMT DEF Outcome, ByRelease, Stage
<1>5. CASE AcceptSettlement(sender, e)
  <2>1. Resolve(e, settlement[e].clientBps, "SETTLEMENT", NoHash)
    BY <1>5 DEF AcceptSettlement
  <2>2. escrow'[e].resolutionKind = "SETTLEMENT"
    BY <1>0, <1>2, <1>3, <2>1, ResolveFacts
  <2> QED
    BY <2>2 DEF Outcome
<1>6. CASE ClaimMissedDeliveryRefund(e)
  <2>1. /\ Resolve(e, MAX_BPS, "MISSED_DELIVERY_REFUND", NoHash)
        /\ x.phase = "FUNDED" /\ x.deliveryHash = NoHash /\ now > x.deliveryDeadline
    BY <1>6 DEF ClaimMissedDeliveryRefund, InPhase
  <2>2. /\ escrow'[e].resolutionKind = "MISSED_DELIVERY_REFUND"
        /\ escrow'[e].deliveryHash = x.deliveryHash /\ escrow'[e].amount = x.amount
        /\ escrow'[e].deliveryDeadline = x.deliveryDeadline
        /\ dispute'[e] = d /\ resolved'[e].at = now
        /\ resolved'[e].clientAmount = MulBps(x.amount, MAX_BPS)
    BY <1>0, <1>1, <1>3, <2>1, ResolveFacts
  <2>3. resolved'[e].clientAmount = x.amount
    BY <1>0, <2>2, MulBpsExtremes
  <2>4. resolved'[e].platformFee = Shares(x.amount, MAX_BPS).platformFee
    BY <2>1, SMT DEF Resolve, Inv, TypeOK
  <2>5. resolved'[e].platformFee = 0
    BY <1>0, <2>4, FullRefundIsFree
  <2> QED
    BY <1>0, <2>1, <2>2, <2>3, <2>5, SMT DEF Outcome, ByMissedDelivery, Stage
<1>7. CASE ClaimReviewTimeout(e)
  <2>1. /\ Resolve(e, 0, "REVIEW_TIMEOUT", NoHash) /\ x.phase = "FUNDED"
        /\ x.deliveryHash # NoHash /\ now >= x.deliveryDeadline + REVIEW_PERIOD
    BY <1>7 DEF ClaimReviewTimeout, InPhase
  <2>2. resolved'[e].clientAmount = 0
    BY <1>0, <1>1, <1>3, <2>1, ResolveFacts, MulBpsExtremes
  <2>3. /\ escrow'[e].resolutionKind = "REVIEW_TIMEOUT"
        /\ escrow'[e].deliveryHash = x.deliveryHash
        /\ escrow'[e].deliveryDeadline = x.deliveryDeadline
        /\ dispute'[e] = d /\ resolved'[e].at = now
    BY <1>0, <1>1, <1>3, <2>1, ResolveFacts
  <2> QED
    BY <1>0, <2>1, <2>2, <2>3, SMT DEF Outcome, ByReviewTimeout, ByRelease, Stage
<1>8. CASE FinalizeInitialRuling(e)
  <2>1. /\ Resolve(e, d.initialClientBps, "RULING", d.initialDecisionHash)
        /\ x.phase = "INITIAL_RULING" /\ now >= d.initialRulingAt + CHALLENGE_PERIOD
    BY <1>8 DEF FinalizeInitialRuling, InPhase
  <2>2. /\ escrow'[e].resolutionKind = "RULING" /\ escrow'[e].amount = x.amount
        /\ escrow'[e].depositedAt = x.depositedAt /\ dispute'[e] = d
        /\ resolved'[e].at = now /\ resolved'[e].decisionHash = d.initialDecisionHash
        /\ resolved'[e].clientAmount = MulBps(x.amount, d.initialClientBps)
    BY <1>0, <1>2, <1>3, <2>1, ResolveFacts
  <2>3. ByUnchallengedRuling(e)'
    BY <1>0, <2>1, <2>2, SMT DEF ByUnchallengedRuling, Stage, Raised, Ruled
  <2> QED
    BY <2>2, <2>3, SMT DEF Outcome
<1>9. CASE FinalizeFinalRuling(e)
  <2>1. /\ Resolve(e, d.finalClientBps, "RULING", d.finalDecisionHash)
        /\ x.phase = "FINAL_RULING" /\ now >= d.finalRulingAt + FINAL_RULING_NOTICE_PERIOD
    BY <1>9 DEF FinalizeFinalRuling, InPhase
  <2>2. /\ escrow'[e].resolutionKind = "RULING" /\ escrow'[e].amount = x.amount
        /\ dispute'[e] = d
        /\ resolved'[e].at = now /\ resolved'[e].decisionHash = d.finalDecisionHash
        /\ resolved'[e].clientAmount = MulBps(x.amount, d.finalClientBps)
    BY <1>0, <1>2, <1>3, <2>1, ResolveFacts
  <2>3. ByFinalRuling(e)'
    BY <1>0, <2>1, <2>2, SMT DEF ByFinalRuling, Stage, Raised, Ruled, Challenged, FinallyRuled
  <2> QED
    BY <2>2, <2>3, SMT DEF Outcome
<1>10. CASE FinalizeArbiterTimeoutSplit(e)
  <2>1. /\ Resolve(e, MAX_BPS \div 2, "ARBITER_TIMEOUT_SPLIT", NoHash)
        /\ x.phase \in {"DISPUTED", "CHALLENGED"} /\ now >= StallDeadline(e)
    BY <1>10 DEF FinalizeArbiterTimeoutSplit
  <2>2. /\ escrow'[e].resolutionKind = "ARBITER_TIMEOUT_SPLIT" /\ escrow'[e].amount = x.amount
        /\ dispute'[e] = d /\ resolved'[e].at = now /\ resolved'[e].decisionHash = NoHash
        /\ resolved'[e].clientAmount = MulBps(x.amount, MAX_BPS \div 2)
    BY <1>0, <1>1, <1>3, <2>1, ResolveFacts
  <2>3. x.phase = "CHALLENGED" => d.initialRulingAt # 0
    BY <1>0, Periods, SMT DEF Stage, Ruled
  <2>4. ByTimeoutSplit(e)'
    BY <1>0, <2>1, <2>2, <2>3, SMT DEF ByTimeoutSplit, StallDeadline, Stage, Challenged
  <2> QED
    BY <2>2, <2>4, SMT DEF Outcome
<1> QED
  BY <1>4, <1>5, <1>6, <1>7, <1>8, <1>9, <1>10, Zenon DEF ResolvingCall, PermissionlessExit

(* every step keeps the order of a dispute's times *)
LEMMA CourseStep ==
    ASSUME Inv, Course, [Next]_vars
    PROVE  Course'
<1>0. /\ TypeOK /\ now \in Nat
      /\ dispute \in [Ids -> DisputeType] /\ escrow \in [Ids -> EscrowType]
      /\ \A i \in Ids : /\ escrow[i].depositedAt \in Nat /\ dispute[i].raisedAt \in Nat
                        /\ dispute[i].initialRulingAt \in Nat
                        /\ dispute[i].challengedAt \in Nat /\ dispute[i].finalRulingAt \in Nat
                        /\ Stage(escrow[i], dispute[i], now)
                        /\ ~Exists(i) => escrow[i].phase = "NONE"
  BY SMT DEF Inv, TypeOK, Course, EscrowType, DisputeType, PhaseMarksExistence
<1>1. ASSUME NEW sender \in Addr, NEW e \in Ids, NEW developer \in Addr,
             NEW amount \in Amounts, NEW deadline \in Nat, NEW h \in Hashes,
             Deposit(sender, e, developer, amount, deadline, h)
      PROVE  Course'
  <2>1. now' = now /\ dispute' = dispute /\ ~Exists(e)
    BY <1>1 DEF Deposit, recordVars
  <2>2. /\ \A i \in Ids : i # e => escrow'[i] = escrow[i]
        /\ escrow'[e].phase = "FUNDED" /\ escrow'[e].depositedAt = now
    BY <1>0, <1>1, SMT DEF Deposit
  <2>3. dispute[e] = NoDispute
    BY <1>0, <2>1 DEF Stage
  <2>4. Stage(escrow'[e], dispute'[e], now)
    BY <1>0, <2>1, <2>2, <2>3, SMT DEF Stage
  <2> QED
    BY <1>0, <2>1, <2>2, <2>4, Zenon DEF Course
<1>2. ASSUME NEW sender \in Addr, NEW e \in Ids, NEW h \in Hashes, SubmitWork(sender, e, h)
      PROVE  Course'
  <2>1. now' = now /\ dispute' = dispute
    BY <1>2 DEF SubmitWork, recordVars
  <2>2. /\ \A i \in Ids : i # e => escrow'[i] = escrow[i]
        /\ escrow'[e].phase = escrow[e].phase /\ escrow'[e].depositedAt = escrow[e].depositedAt
    BY <1>0, <1>2, SMT DEF SubmitWork, EscrowType
  <2>3. Stage(escrow'[e], dispute'[e], now)
    BY <1>0, <2>1, <2>2, Zenon DEF Stage, Raised
  <2> QED
    BY <1>0, <2>1, <2>2, <2>3, Zenon DEF Course
<1>3. ASSUME NEW sender \in Addr, NEW e \in Ids, ResolvingCall(sender, e)
      PROVE  Course'
  <2>1. PICK bps \in 0..MAX_BPS, kind \in ResolutionKind, h \in Hashes \cup {NoHash} :
               Resolve(e, bps, kind, h)
    BY <1>3, ResolvingCalls DEF Inv
  <2>2. now' = now /\ dispute' = dispute
    BY <2>1 DEF Resolve
  <2>3. (\A i \in Ids : i # e => escrow'[i] = escrow[i]) /\ escrow'[e].phase = "RESOLVED"
    BY <1>0, <2>1, ResolveEscrow
  <2>4. Stage(escrow'[e], dispute'[e], now)
    BY <2>3, SMT DEF Stage
  <2> QED
    BY <1>0, <2>2, <2>3, <2>4, Zenon DEF Course
<1>4. ASSUME NEW sender \in Addr, NEW e \in Ids, DisputeCall(sender, e)
      PROVE  Course'
  BY <1>4, DisputeCallCourse
<1>5. CASE Tick
  <2>1. now' = now + 1 /\ dispute' = dispute /\ escrow' = escrow
    BY <1>5 DEF Tick, escrowVars, recordVars
  <2>2. \A i \in Ids : Stage(escrow[i], dispute[i], now + 1)
    BY <1>0, SMT DEF Stage, Raised, Ruled, Challenged, FinallyRuled
  <2> QED
    BY <2>1, <2>2, Zenon DEF Course
<1>6. CASE \/ \E sender \in Addr, e \in Ids :
                \/ \E bps \in Bps : ProposeSettlement(sender, e, bps)
                \/ RevokeSettlement(sender, e)
           \/ \E a \in Addr : Claim(a)
           \/ [RolesNext]_roleVars /\ UNCHANGED <<now, escrowVars>>
  <2>1. UNCHANGED <<now, escrow, dispute>>
    BY <1>6, Zenon DEF ProposeSettlement, RevokeSettlement, Claim, escrowVars, recordVars
  <2> QED
    BY <2>1, Zenon DEF Course
<1> QED
  BY <1>0, <1>1, <1>2, <1>3, <1>4, <1>5, <1>6, StepCases

(* A resolution pays out the decision in force, and only after every window it *)
(* depends on has run its course, whatever the interleaving of the parties,    *)
(* the arbiter and the callers of the exits (finalizeRuling,                   *)
(* finalizeArbiterTimeoutSplit, claimReviewTimeout, claimMissedDeliveryRefund).*)
THEOREM OutcomeAlwaysMatchesProcess == Spec => []OutcomeMatchesProcess
<1> DEFINE Outcomes == \A e \in Ids : escrow[e].phase = "RESOLVED" => Outcome(e)
<1>1. Outcomes => OutcomeMatchesProcess
  BY Zenon DEF OutcomeMatchesProcess, Outcome
<1>2. Init => Course /\ Outcomes
  <2> SUFFICES ASSUME Init PROVE Course /\ Outcomes
    OBVIOUS
  <2>1. \A e \in Ids : escrow[e].phase = "NONE" /\ dispute[e] = NoDispute
    BY DEF Init, EscrowInit, NoEscrow
  <2> QED
    BY <2>1, Zenon DEF Course, Stage
<1>3. Inv /\ Course /\ Outcomes /\ [Next]_vars => Course' /\ Outcomes'
  <2> SUFFICES ASSUME Inv, Course, Outcomes, [Next]_vars PROVE Course' /\ Outcomes'
    OBVIOUS
  <2>1. ASSUME NEW i \in Ids, escrow'[i].phase = "RESOLVED"
        PROVE  Outcome(i)'
    <3>1. CASE escrow[i].phase = "RESOLVED"
      <4>1. Outcome(i)
        BY <3>1
      <4>2. UNCHANGED <<escrow[i], dispute[i], resolved[i]>>
        BY <3>1, FrozenStep
      <4> QED
        BY <4>1, <4>2, Zenon DEF Outcome, ByRelease, ByMissedDelivery, ByReviewTimeout,
           ByUnchallengedRuling, ByFinalRuling, ByTimeoutSplit
    <3>2. CASE escrow[i].phase # "RESOLVED"
      <4>1. PICK sender \in Addr : ResolvingCall(sender, i)
        BY <2>1, <3>2, OnlyResolvingCallsResolve
      <4> QED
        BY <4>1, ResolvedOutcome
    <3> QED
      BY <3>1, <3>2
  <2> QED
    BY <2>1, CourseStep
<1> HIDE DEF Outcomes
<1> QED
  BY <1>1, <1>2, <1>3, AlwaysInv, PTL DEF Spec

-----------------------------------------------------------------------------
(* The refinement *)

(* the abstract state of one escrow *)
LEMMA SameDeal ==
    ASSUME NEW i \in Ids, Terms(escrow'[i]) = Terms(escrow[i])
    PROVE  DealOf(i)' = DealOf(i)
BY SMT DEF Terms, DealOf

(* the phase of an escrow tells how the promise sees it *)
LEMMA StageByPhase ==
    ASSUME NEW i \in Ids
    PROVE  /\ escrow[i].phase = "NONE" => StageOf(i) = "absent"
           /\ escrow[i].phase = "RESOLVED" => StageOf(i) = "divided"
           /\ escrow[i].phase \notin {"NONE", "RESOLVED"} => StageOf(i) = "held"
BY DEF StageOf

(* the same after a step *)
LEMMA StageByPhaseAfter ==
    ASSUME NEW i \in Ids
    PROVE  /\ escrow'[i].phase = "NONE" => StageOf(i)' = "absent"
           /\ escrow'[i].phase = "RESOLVED" => StageOf(i)' = "divided"
           /\ escrow'[i].phase \notin {"NONE", "RESOLVED"} => StageOf(i)' = "held"
BY DEF StageOf

(* a step that moves no money, no escrow out of its stage and no terms *)
LEMMA StepsInvisible ==
    ASSUME UNCHANGED <<claimable, balance>>,
           \A i \in Ids : StageOf(i)' = StageOf(i) /\ DealOf(i)' = DealOf(i)
    PROVE  UNCHANGED Promise!promiseVars
BY Zenon DEF Promise!promiseVars

(* deposit is a Hold *)
LEMMA DepositHolds ==
    ASSUME Inv, NEW sender \in Addr, NEW e \in Ids, NEW developer \in Addr,
           NEW amount \in Amounts, NEW deadline \in Nat, NEW h \in Hashes,
           Deposit(sender, e, developer, amount, deadline, h)
    PROVE  Promise!Hold(e)
<1> DEFINE x == [client |-> sender, developer |-> developer, arbiter |-> arbiter,
                 feeRecipient |-> feeRecipient, amount |-> amount, depositedAt |-> now,
                 deliveryDeadline |-> deadline, termsHash |-> h,
                 deliveryHash |-> NoHash, phase |-> "FUNDED", resolutionKind |-> "NONE"]
<1>1. escrow \in [Ids -> EscrowType] /\ feeRecipient \in Addr /\ amount \in Nat \ {0}
  BY EscrowAssumption DEF Inv, TypeOK, RolesTypeOK
<1>2. escrow' = [escrow EXCEPT ![e] = x]
  BY DEF Deposit
<1>3. /\ x.client = sender /\ x.developer = developer /\ x.feeRecipient = feeRecipient
      /\ x.amount = amount /\ x.phase = "FUNDED"
  OBVIOUS
<1> HIDE DEF x
<1>4. escrow'[e] = x /\ \A i \in Ids : i # e => escrow'[i] = escrow[i]
  BY <1>1, <1>2, Zenon
<1>5. StageOf(e) = "absent" /\ StageOf(e)' = "held"
  BY <1>3, <1>4, StageByPhase, StageByPhaseAfter, SMT DEF Inv, PhaseMarksExistence, Deposit
<1>6. \A i \in Ids : i # e => StageOf(i)' = StageOf(i) /\ DealOf(i)' = DealOf(i)
  BY <1>4, Zenon DEF StageOf, DealOf
<1>7. /\ DealOf(e)'.client = sender /\ DealOf(e)'.developer = developer
      /\ DealOf(e)'.feeRecipient = feeRecipient /\ DealOf(e)'.amount = amount
  BY <1>3, <1>4, SMT DEF DealOf
<1>8. balance' = balance + amount /\ claimable' = claimable /\ developer # sender
  BY DEF Deposit
<1>9. [i \in Ids |-> StageOf(i)]' = [[i \in Ids |-> StageOf(i)] EXCEPT ![e] = "held"]
  BY <1>5, <1>6, Zenon
<1>10. [i \in Ids |-> DealOf(i)]' = [[i \in Ids |-> DealOf(i)] EXCEPT ![e] = DealOf(e)']
  BY <1>6, Zenon
<1> QED
  BY <1>1, <1>5, <1>7, <1>8, <1>9, <1>10, SMT DEF Promise!Hold

(* every call that resolves is a Divide *)
LEMMA ResolveDivides ==
    ASSUME Inv, NEW sender \in Addr, NEW e \in Ids, ResolvingCall(sender, e)
    PROVE  Promise!Divide(e)
<1> DEFINE x == escrow[e]
<1>1. PICK bps \in 0..MAX_BPS, kind \in ResolutionKind, h \in Hashes \cup {NoHash} :
             Exists(e) /\ Resolve(e, bps, kind, h)
  BY ResolvingCalls DEF Inv
<1>2. x \in EscrowType /\ x.amount \in Nat /\ x.phase \notin {"NONE", "RESOLVED"}
  BY <1>1, SMT DEF Inv, TypeOK, EscrowType, PhaseMarksExistence, Resolve
<1>3. /\ \A i \in Ids : i # e => escrow'[i] = escrow[i]
      /\ Terms(escrow'[e]) = Terms(escrow[e]) /\ escrow'[e].phase = "RESOLVED"
  BY <1>1, ResolveEscrow DEF Inv
<1>4. StageOf(e) = "held" /\ StageOf(e)' = "divided"
  BY <1>2, <1>3, StageByPhase, StageByPhaseAfter, SMT
<1>5. \A i \in Ids : DealOf(i)' = DealOf(i)
  BY <1>3, SameDeal, Zenon DEF DealOf
<1>6. \A i \in Ids : i # e => StageOf(i)' = StageOf(i)
  BY <1>3, Zenon DEF StageOf
<1> DEFINE c == MulBps(x.amount, bps)
           s == Shares(x.amount, bps)
<1>7. c \in 0..x.amount
  BY <1>2, MulBpsBounds
<1>8. claimable' = [a \in Addr |-> claimable[a] + ShareOf(a, x, s)] /\ balance' = balance
  BY <1>1, Zenon DEF Resolve
<1>9. \A a : ShareOf(a, x, s) = Promise!Part(a, DealOf(e), c)
  <2>1. /\ s.clientAmount = c
        /\ s.platformFee = MulBps(x.amount - c, PLATFORM_FEE_BPS)
        /\ s.developerAmount = x.amount - c - MulBps(x.amount - c, PLATFORM_FEE_BPS)
    BY SMT DEF Shares
  <2>2. /\ DealOf(e).client = x.client /\ DealOf(e).developer = x.developer
        /\ DealOf(e).feeRecipient = x.feeRecipient /\ DealOf(e).amount = x.amount
    BY DEF DealOf
  <2> HIDE DEF s, c
  <2> QED
    BY <2>1, <2>2, Zenon DEF ShareOf, Promise!Part, Promise!MulBps, MulBps
<1>10. [i \in Ids |-> StageOf(i)]' = [[i \in Ids |-> StageOf(i)] EXCEPT ![e] = "divided"]
  BY <1>4, <1>6, Zenon
<1>11. [i \in Ids |-> DealOf(i)]' = [i \in Ids |-> DealOf(i)]
  BY <1>5, Zenon
<1>12. DealOf(e).amount = x.amount
  BY DEF DealOf
<1> HIDE DEF s, c
<1>13. claimable' = [a \in Addr |-> claimable[a] + Promise!Part(a, DealOf(e), c)]
  BY <1>8, <1>9, Zenon
<1> QED
  BY <1>4, <1>7, <1>8, <1>10, <1>11, <1>12, <1>13, Zenon DEF Promise!Divide

(* claim is a Withdraw *)
LEMMA ClaimWithdraws ==
    ASSUME Inv, NEW a \in Addr, Claim(a)
    PROVE  Promise!Withdraw(a)
<1>1. escrow' = escrow
  BY DEF Claim
<1>2. /\ [i \in Ids |-> StageOf(i)]' = [i \in Ids |-> StageOf(i)]
      /\ [i \in Ids |-> DealOf(i)]' = [i \in Ids |-> DealOf(i)]
  BY <1>1, Zenon DEF StageOf, DealOf
<1>3. claimable[a] > 0
  BY SMT DEF Inv, TypeOK, Claim
<1> QED
  BY <1>2, <1>3, Zenon DEF Claim, Promise!Withdraw

(* nothing is promised at the start *)
LEMMA InitPromised == Init => Promise!PromiseInit
<1> SUFFICES ASSUME Init PROVE Promise!PromiseInit
  OBVIOUS
<1>1. /\ \A i \in Ids : escrow[i] = NoEscrow
      /\ claimable = [a \in Addr |-> 0] /\ balance = 0
  BY DEF Init, EscrowInit
<1>2. \A i \in Ids : StageOf(i) = "absent" /\ DealOf(i) = Promise!NoDeal
  BY <1>1, SMT DEF StageOf, DealOf, NoEscrow, Promise!NoDeal
<1> QED
  BY <1>1, <1>2, Zenon DEF Promise!PromiseInit

(* every step is one of the promise or invisible to it *)
LEMMA StepPromised ==
    ASSUME Inv, [Next]_vars
    PROVE  [Promise!PromiseNext]_Promise!promiseVars
<1>1. ASSUME NEW sender \in Addr, NEW e \in Ids, NEW developer \in Addr,
             NEW amount \in Amounts, NEW deadline \in Nat, NEW h \in Hashes,
             Deposit(sender, e, developer, amount, deadline, h)
      PROVE  Promise!PromiseNext
  BY <1>1, DepositHolds DEF Promise!PromiseNext
<1>2. ASSUME NEW sender \in Addr, NEW e \in Ids, NEW h \in Hashes, SubmitWork(sender, e, h)
      PROVE  UNCHANGED Promise!promiseVars
  <2>1. escrow \in [Ids -> EscrowType]
    BY DEF Inv, TypeOK
  <2>2. \A i \in Ids : Terms(escrow'[i]) = Terms(escrow[i]) /\ escrow'[i].phase = escrow[i].phase
    BY <1>2, <2>1, SMT DEF SubmitWork, EscrowType, Terms
  <2>3. \A i \in Ids : StageOf(i)' = StageOf(i) /\ DealOf(i)' = DealOf(i)
    BY <2>2, SameDeal, Zenon DEF StageOf
  <2> QED
    BY <1>2, <2>3, StepsInvisible DEF SubmitWork, moneyVars
<1>3. ASSUME NEW sender \in Addr, NEW e \in Ids, ResolvingCall(sender, e)
      PROVE  Promise!PromiseNext
  BY <1>3, ResolveDivides DEF Promise!PromiseNext
<1>4. ASSUME NEW sender \in Addr, NEW e \in Ids, DisputeCall(sender, e)
      PROVE  UNCHANGED Promise!promiseVars
  <2>1. /\ escrow[e].phase \notin {"NONE", "RESOLVED"} /\ Exists(e)
        /\ UNCHANGED <<claimable, balance>>
        /\ \E p \in Phase \ {"NONE", "RESOLVED"} : escrow' = [escrow EXCEPT ![e].phase = p]
    BY <1>4, DisputeCallEffect DEF Inv, moneyVars
  <2>2. PICK p \in Phase \ {"NONE", "RESOLVED"} : escrow' = [escrow EXCEPT ![e].phase = p]
    BY <2>1
  <2>3. escrow \in [Ids -> EscrowType]
    BY DEF Inv, TypeOK
  <2>4. /\ escrow'[e].phase = p
        /\ \A i \in Ids : Terms(escrow'[i]) = Terms(escrow[i]) /\ (i # e => escrow'[i] = escrow[i])
    BY <2>2, <2>3, SMT DEF EscrowType, Terms
  <2>5. StageOf(e) = "held" /\ StageOf(e)' = "held"
    BY <2>1, <2>4, StageByPhase, StageByPhaseAfter, SMT
  <2>6. \A i \in Ids : StageOf(i)' = StageOf(i) /\ DealOf(i)' = DealOf(i)
    BY <2>4, <2>5, SameDeal, Zenon DEF StageOf
  <2> QED
    BY <2>1, <2>6, StepsInvisible
<1>5. ASSUME NEW a \in Addr, Claim(a)
      PROVE  Promise!PromiseNext
  BY <1>5, ClaimWithdraws DEF Promise!PromiseNext
<1>6. CASE \/ \E sender \in Addr, e \in Ids :
                \/ \E bps \in Bps : ProposeSettlement(sender, e, bps)
                \/ RevokeSettlement(sender, e)
           \/ Tick
           \/ [RolesNext]_roleVars /\ UNCHANGED <<now, escrowVars>>
  <2>1. UNCHANGED <<escrow, claimable, balance>>
    BY <1>6, Zenon DEF ProposeSettlement, RevokeSettlement, Tick, escrowVars, moneyVars
  <2>2. \A i \in Ids : StageOf(i)' = StageOf(i) /\ DealOf(i)' = DealOf(i)
    BY <2>1, Zenon DEF StageOf, DealOf
  <2> QED
    BY <2>1, <2>2, StepsInvisible
<1> QED
  BY <1>1, <1>2, <1>3, <1>4, <1>5, <1>6, StepCases DEF Inv

(* Every behaviour of the contract is one the promise allows: a principal is   *)
(* divided once, among the payees named at its deposit, the fee bearing on the *)
(* developer's part, and credits leave only to their owner.                    *)
THEOREM ContractKeepsPromise == Spec => KeepsPromise
<1>1. Init => Promise!PromiseInit
  BY InitPromised
<1>2. Inv /\ [Next]_vars => [Promise!PromiseNext]_Promise!promiseVars
  BY StepPromised
<1> QED
  BY <1>1, <1>2, AlwaysInv, PTL DEF Spec, KeepsPromise, Promise!PromiseSpec

-----------------------------------------------------------------------------
(* Sums over finite sets.  MapThenSumSet is a fold defined by a recursive      *)
(* function over sets; the facts below are the ones the books need.            *)

(* what holds of a finite set as soon as it holds of its proper subsets *)
LEMMA FiniteInduction ==
    ASSUME NEW S, IsFiniteSet(S), NEW C,
           \A T \in SUBSET S : (\A U \in SUBSET T : U # T => U \in C) => T \in C
    PROVE  \A T \in SUBSET S : T \in C
<1> DEFINE bad == (SUBSET S) \ C
<1>1. IsWellFoundedOn(StrictSubsetOrdering(S), SUBSET S)
  <2>1. FiniteSubsetsOf(S) = SUBSET S
    BY FS_FiniteSubsetsOfFinite
  <2> QED
    BY <2>1, FS_StrictSubsetOrderingWellFounded
<1> SUFFICES ASSUME bad # {} PROVE FALSE
  OBVIOUS
<1>2. PICK T \in bad : \A U \in bad : <<U, T>> \notin StrictSubsetOrdering(S)
  <2> HIDE DEF bad
  <2>1. bad \subseteq SUBSET S
    BY DEF bad
  <2> QED
    BY <1>1, <2>1, WFMin
<1>3. ASSUME NEW U \in SUBSET T, U # T PROVE U \in C
  <2>1. <<U, T>> \in StrictSubsetOrdering(S)
    BY <1>3 DEF StrictSubsetOrdering
  <2> QED
    BY <1>2, <2>1
<1> QED
  BY <1>3

(* the element MapThenSumSet takes out of a set *)
AnyOf(s) == CHOOSE x \in s : TRUE

(* the equation of the fold *)
Adds(g, f, S) ==
    g = [s \in SUBSET S |-> IF s = {} THEN 0 ELSE f[AnyOf(s)] + g[s \ {AnyOf(s)}]]

(* a set of naturals with zero and the successor of each member *)
LEMMA NatSetInduction ==
    ASSUME NEW S, 0 \in S, \A n \in Nat : n \in S => n + 1 \in S
    PROVE  \A n \in Nat : n \in S
<1> DEFINE below == {p \in Nat \X Nat : p[1] < p[2]}
           bad == Nat \ S
<1>1. IsWellFoundedOn(below, Nat)
  <2>1. OpToRel(<, Nat) = below
    BY DEF OpToRel
  <2> QED
    BY <2>1, NatLessThanWellFounded
<1> SUFFICES ASSUME bad # {} PROVE FALSE
  OBVIOUS
<1>2. PICK m \in bad : \A n \in bad : <<n, m>> \notin below
  <2> HIDE DEF bad, below
  <2>1. bad \subseteq Nat
    BY DEF bad
  <2> QED
    BY <1>1, <2>1, WFMin
<1>3. m \in Nat /\ m # 0 /\ m - 1 \in Nat
  OBVIOUS
<1>4. m - 1 \in S
  <2>1. <<m - 1, m>> \in below
    BY <1>3
  <2> QED
    BY <1>2, <1>3, <2>1
<1> QED
  BY <1>2, <1>3, <1>4

(* the element a fold picks next is one of the set *)
LEMMA AnyOfMember ==
    ASSUME NEW s, s # {}
    PROVE  AnyOf(s) \in s
BY DEF AnyOf

(* a solution exists, by induction on the cardinality of the sets it is given *)
LEMMA SumExists ==
    ASSUME NEW S, IsFiniteSet(S), NEW f
    PROVE  \E g : Adds(g, f, S)
<1> DEFINE upTo(n) == {s \in SUBSET S : Cardinality(s) <= n}
           body(g, s) == IF s = {} THEN 0 ELSE f[AnyOf(s)] + g[s \ {AnyOf(s)}]
           C == {n \in Nat : \E g : g = [s \in upTo(n) |-> body(g, s)]}
<1>0. \A s \in SUBSET S : IsFiniteSet(s) /\ Cardinality(s) \in Nat
  BY FS_Subset, FS_CardinalityType
<1>1. 0 \in C
  <2>1. upTo(0) = {{}}
    BY <1>0, FS_EmptySet
  <2> DEFINE g == [s \in upTo(0) |-> 0]
  <2>2. g = [s \in upTo(0) |-> body(g, s)]
    BY <2>1
  <2> QED
    BY <2>2
<1>2. ASSUME NEW n \in Nat, n \in C PROVE n + 1 \in C
  <2>1. PICK g : g = [s \in upTo(n) |-> body(g, s)]
    BY <1>2
  <2> DEFINE h == [s \in upTo(n + 1) |-> body(g, s)]
  <2>2. ASSUME NEW s \in upTo(n + 1) PROVE h[s] = body(h, s)
    <3>1. CASE s = {}
      BY <3>1
    <3>2. CASE s # {}
      <4> DEFINE t == s \ {AnyOf(s)}
      <4>1. AnyOf(s) \in s
        BY <3>2, AnyOfMember
      <4>2. Cardinality(t) = Cardinality(s) - 1 /\ Cardinality(s) \in Nat
        BY <1>0, <4>1, FS_RemoveElement
      <4>3. t \in upTo(n) /\ t \in upTo(n + 1)
        BY <4>2
      <4>4. g[t] = body(g, t) /\ h[t] = body(g, t)
        <5> HIDE DEF upTo, t, body
        <5> QED
          BY <2>1, <4>3 DEF h
      <4>5. h[t] = g[t]
        <5> HIDE DEF t, body
        <5> QED
          BY <4>4
      <4>6. h[s] = body(g, s)
        OBVIOUS
      <4>7. body(g, s) = body(h, s)
        <5> HIDE DEF h
        <5> QED
          BY <4>5
      <4> QED
        BY <4>6, <4>7
    <3> QED
      BY <3>1, <3>2
  <2>3. h = [s \in upTo(n + 1) |-> h[s]]
    OBVIOUS
  <2>4. h = [s \in upTo(n + 1) |-> body(h, s)]
    <3> HIDE DEF h, upTo, body
    <3> QED
      BY <2>2, <2>3
  <2> HIDE DEF h
  <2>5. \E k : k = [s \in upTo(n + 1) |-> body(k, s)]
    BY <2>4
  <2>6. n + 1 \in Nat
    OBVIOUS
  <2> HIDE DEF upTo, body
  <2> QED
    BY <2>5, <2>6, Zenon
<1>3. Cardinality(S) \in C
  <2> HIDE DEF C
  <2> QED
    BY <1>0, <1>1, <1>2, NatSetInduction
<1>4. upTo(Cardinality(S)) = SUBSET S
  BY FS_Subset
<1> QED
  BY <1>3, <1>4 DEF Adds

(* Total is the value of a solution *)
LEMMA SumIs ==
    ASSUME NEW S, IsFiniteSet(S), NEW f
    PROVE  \E g : Adds(g, f, S) /\ Total(f, S) = g[S]
<1> DEFINE g == CHOOSE g : Adds(g, f, S)
<1>1. Adds(g, f, S)
  BY SumExists
<1>2. Total(f, S) = g[S]
  BY DEF Total, MapThenSumSet, MapThenFoldSet, Adds, AnyOf
<1> QED
  BY <1>1, <1>2


(* one step of the fold *)
LEMMA AddsStep ==
    ASSUME NEW S, NEW f, NEW g, Adds(g, f, S), NEW T \in SUBSET S
    PROVE  /\ T = {} => g[T] = 0
           /\ T # {} => AnyOf(T) \in T /\ g[T] = f[AnyOf(T)] + g[T \ {AnyOf(T)}]
BY AnyOfMember DEF Adds

(* naturals add up to a natural *)
LEMMA AddsNat ==
    ASSUME NEW S, IsFiniteSet(S), NEW f, NEW g, Adds(g, f, S), \A x \in S : f[x] \in Nat
    PROVE  \A T \in SUBSET S : g[T] \in Nat
<1> DEFINE C == {T \in SUBSET S : g[T] \in Nat}
<1>1. ASSUME NEW T \in SUBSET S, \A U \in SUBSET T : U # T => U \in C
      PROVE  T \in C
  <2>1. CASE T = {}
    <3>1. g[T] = 0
      BY <2>1, AddsStep
    <3> QED
      BY <3>1
  <2>2. CASE T # {}
    <3>1. AnyOf(T) \in T /\ g[T] = f[AnyOf(T)] + g[T \ {AnyOf(T)}]
      BY <2>2, AddsStep
    <3>2. g[T \ {AnyOf(T)}] \in Nat /\ f[AnyOf(T)] \in Nat
      BY <1>1, <3>1
    <3> QED
      BY <3>1, <3>2
  <2> QED
    BY <2>1, <2>2
<1> HIDE DEF C
<1>2. \A T \in SUBSET S : T \in C
  BY <1>1, FiniteInduction
<1> QED
  BY <1>2 DEF C

(* only the values on the set count *)
LEMMA AddsSame ==
    ASSUME NEW S, IsFiniteSet(S), NEW R \in SUBSET S,
           NEW f, NEW g, Adds(g, f, S), NEW k, NEW h, Adds(h, k, R),
           \A x \in R : f[x] = k[x]
    PROVE  \A T \in SUBSET R : g[T] = h[T]
<1> DEFINE C == {T \in SUBSET R : g[T] = h[T]}
<1>1. ASSUME NEW T \in SUBSET R, \A U \in SUBSET T : U # T => U \in C
      PROVE  T \in C
  <2>0. T \in SUBSET S
    OBVIOUS
  <2>1. CASE T = {}
    <3>1. g[T] = 0
      BY <2>0, <2>1, AddsStep
    <3>2. h[T] = 0
      BY <2>1, AddsStep
    <3> QED
      BY <3>1, <3>2
  <2>2. CASE T # {}
    <3>1. /\ AnyOf(T) \in T /\ g[T] = f[AnyOf(T)] + g[T \ {AnyOf(T)}]
          /\ h[T] = k[AnyOf(T)] + h[T \ {AnyOf(T)}]
      BY <2>0, <2>2, AddsStep
    <3>2. T \ {AnyOf(T)} \in C /\ f[AnyOf(T)] = k[AnyOf(T)]
      BY <1>1, <3>1
    <3> QED
      BY <3>1, <3>2
  <2> QED
    BY <2>1, <2>2
<1> HIDE DEF C
<1>2. IsFiniteSet(R)
  BY FS_Subset
<1>3. \A T \in SUBSET R : T \in C
  BY <1>1, <1>2, FiniteInduction
<1> QED
  BY <1>3 DEF C

(* any element may be taken out first: the order of the additions is free *)
LEMMA AddsAny ==
    ASSUME NEW S, IsFiniteSet(S), NEW f, NEW g, Adds(g, f, S), \A x \in S : f[x] \in Nat,
           NEW R \in SUBSET S, NEW z \in R
    PROVE  g[R] = f[z] + g[R \ {z}]
<1> DEFINE C == {T \in SUBSET S : \A x \in T : g[T] = f[x] + g[T \ {x}]}
<1>1. ASSUME NEW T \in SUBSET S, \A U \in SUBSET T : U # T => U \in C
      PROVE  T \in C
  <2> SUFFICES ASSUME NEW x \in T PROVE g[T] = f[x] + g[T \ {x}]
    OBVIOUS
  <2> DEFINE y == AnyOf(T)
  <2>1. y \in T /\ g[T] = f[y] + g[T \ {y}]
    BY AddsStep
  <2> HIDE DEF y
  <2>2. CASE x = y
    BY <2>1, <2>2
  <2>3. CASE x # y
    <3>1. T \ {y} \in C /\ T \ {x} \in C
      BY <1>1, <2>1
    <3>2. g[T \ {y}] = f[x] + g[(T \ {y}) \ {x}]
      BY <2>3, <3>1
    <3>3. g[T \ {x}] = f[y] + g[(T \ {x}) \ {y}]
      BY <2>1, <2>3, <3>1
    <3>4. (T \ {y}) \ {x} = (T \ {x}) \ {y} /\ (T \ {x}) \ {y} \in SUBSET S
      OBVIOUS
    <3>5. g[(T \ {x}) \ {y}] \in Nat /\ f[x] \in Nat /\ f[y] \in Nat
      BY <2>1, <3>4, AddsNat
    <3> DEFINE rest == g[(T \ {x}) \ {y}]
    <3>6. /\ g[T] = f[y] + (f[x] + rest) /\ g[T \ {x}] = f[y] + rest
          /\ rest \in Nat /\ f[x] \in Nat /\ f[y] \in Nat
      BY <2>1, <3>2, <3>3, <3>4, <3>5
    <3> HIDE DEF rest
    <3> QED
      BY <3>6
  <2> QED
    BY <2>2, <2>3
<1> HIDE DEF C
<1>2. R \in C
  BY <1>1, FiniteInduction
<1> QED
  BY <1>2 DEF C

(* the facts about Total: equal values, an element more or less, one value *)
(* changed                                                                   *)
LEMMA TotalSame ==
    ASSUME NEW S, IsFiniteSet(S), NEW f, NEW k, \A x \in S : f[x] = k[x]
    PROVE  Total(f, S) = Total(k, S)
<1>1. PICK g : Adds(g, f, S) /\ Total(f, S) = g[S]
  BY SumIs
<1>2. PICK h : Adds(h, k, S) /\ Total(k, S) = h[S]
  BY SumIs
<1>3. S \in SUBSET S
  OBVIOUS
<1>4. \A T \in SUBSET S : g[T] = h[T]
  BY <1>1, <1>2, <1>3, AddsSame
<1> QED
  BY <1>1, <1>2, <1>3, <1>4

(* a sum is one term and the sum of the rest *)
LEMMA TotalRemove ==
    ASSUME NEW S, IsFiniteSet(S), NEW f, \A x \in S : f[x] \in Nat, NEW x \in S
    PROVE  /\ Total(f, S \ {x}) \in Nat
           /\ Total(f, S) = f[x] + Total(f, S \ {x})
<1>1. PICK g : Adds(g, f, S) /\ Total(f, S) = g[S]
  BY SumIs
<1>2. IsFiniteSet(S \ {x}) /\ S \ {x} \in SUBSET S /\ S \in SUBSET S
  BY FS_RemoveElement
<1>3. PICK h : Adds(h, f, S \ {x}) /\ Total(f, S \ {x}) = h[S \ {x}]
  BY <1>2, SumIs
<1>4. h[S \ {x}] = g[S \ {x}]
  BY <1>1, <1>2, <1>3, AddsSame
<1>5. g[S] = f[x] + g[S \ {x}] /\ g[S \ {x}] \in Nat
  <2>1. \A T \in SUBSET S : g[T] \in Nat
    BY <1>1, AddsNat
  <2>2. g[S] = f[x] + g[S \ {x}]
    BY <1>1, <1>2, AddsAny
  <2> QED
    BY <1>2, <2>1, <2>2
<1> QED
  BY <1>1, <1>3, <1>4, <1>5

(* the empty sum is zero *)
LEMMA TotalEmpty == ASSUME NEW f PROVE Total(f, {}) = 0
<1>1. PICK g : Adds(g, f, {}) /\ Total(f, {}) = g[{}]
  BY FS_EmptySet, SumIs
<1> QED
  BY <1>1, AddsStep

(* changing one term changes the sum by as much *)
LEMMA TotalChange ==
    ASSUME NEW S, IsFiniteSet(S), NEW x \in S,
           NEW f, \A y \in S : f[y] \in Nat,
           NEW k, k[x] \in Nat, \A y \in S : y # x => k[y] = f[y]
    PROVE  Total(k, S) + f[x] = Total(f, S) + k[x] /\ Total(k, S) \in Nat
<1>1. Total(f, S) = f[x] + Total(f, S \ {x}) /\ Total(f, S \ {x}) \in Nat
  BY TotalRemove
<1>2. Total(k, S) = k[x] + Total(k, S \ {x})
  <2>1. \A y \in S : k[y] \in Nat
    OBVIOUS
  <2> QED
    BY <2>1, TotalRemove
<1>3. Total(k, S \ {x}) = Total(f, S \ {x})
  BY FS_RemoveElement, TotalSame
<1> QED
  BY <1>1, <1>2, <1>3

(* a new term adds to the sum *)
LEMMA TotalInsert ==
    ASSUME NEW T, IsFiniteSet(T), NEW x, x \notin T, NEW f, NEW k,
           \A y \in T : f[y] \in Nat /\ k[y] = f[y], k[x] \in Nat
    PROVE  Total(k, T \cup {x}) = k[x] + Total(f, T)
<1> DEFINE S == T \cup {x}
<1>1. IsFiniteSet(S) /\ x \in S /\ S \ {x} = T
  BY FS_AddElement
<1>2. \A y \in S : k[y] \in Nat
  OBVIOUS
<1> HIDE DEF S
<1>3. Total(k, S) = k[x] + Total(k, S \ {x})
  BY <1>1, <1>2, TotalRemove
<1>4. Total(k, T) = Total(f, T)
  BY TotalSame
<1> QED
  BY <1>1, <1>3, <1>4 DEF S

(* a sum of naturals is a natural *)
LEMMA TotalNat ==
    ASSUME NEW S, IsFiniteSet(S), NEW f, \A x \in S : f[x] \in Nat
    PROVE  Total(f, S) \in Nat
<1>1. PICK g : Adds(g, f, S) /\ Total(f, S) = g[S]
  BY SumIs
<1>2. \A T \in SUBSET S : g[T] \in Nat
  BY <1>1, AddsNat
<1> QED
  BY <1>1, <1>2
-----------------------------------------------------------------------------
(* The books.  Adding up an absent escrow adds nothing, and the payees of one  *)
(* that exists are addresses that can be credited.                             *)

DealsComplete ==
    \A e \in Ids : IF Exists(e) THEN {escrow[e].client, escrow[e].developer,
                                      escrow[e].feeRecipient} \subseteq Addr
                                ELSE escrow[e].amount = 0

BooksInv == Inv /\ DealsComplete /\ TotalsMatch /\ CreditsFollowResolutions

(* the terms of an id change with its deposit and no other step *)
LEMMA TermsStep ==
    ASSUME Inv, [Next]_vars, NEW i \in Ids
    PROVE  \/ \E sender \in Addr, developer \in Addr, amount \in Amounts,
                 deadline \in Nat, h \in Hashes :
                    Deposit(sender, i, developer, amount, deadline, h)
           \/ Terms(escrow'[i]) = Terms(escrow[i])
<1>0. escrow \in [Ids -> EscrowType]
  BY DEF Inv, TypeOK
<1>1. CASE Exists(i)
  BY <1>1, FrozenStep
<1>2. CASE ~Exists(i)
  <2>1. ASSUME NEW sender \in Addr, NEW e \in Ids, NEW developer \in Addr,
               NEW amount \in Amounts, NEW deadline \in Nat, NEW h \in Hashes,
               Deposit(sender, e, developer, amount, deadline, h), e # i
        PROVE  escrow'[i] = escrow[i]
    BY <1>0, <2>1, SMT DEF Deposit
  <2>2. ASSUME NEW sender \in Addr, NEW e \in Ids, NEW h \in Hashes, SubmitWork(sender, e, h)
        PROVE  escrow'[i] = escrow[i]
    <3>1. e # i
      BY <1>2, <2>2 DEF SubmitWork, InPhase
    <3> QED
      BY <1>0, <2>2, <3>1, SMT DEF SubmitWork
  <2>3. ASSUME NEW sender \in Addr, NEW e \in Ids, ResolvingCall(sender, e)
        PROVE  escrow'[i] = escrow[i]
    <3>1. e # i
      BY <1>2, <2>3, ResolvingCalls DEF Inv
    <3>2. PICK bps \in 0..MAX_BPS, kind \in ResolutionKind, h \in Hashes \cup {NoHash} :
                 Resolve(e, bps, kind, h)
      BY <2>3, ResolvingCalls DEF Inv
    <3> QED
      BY <3>1, <3>2, ResolveEscrow DEF Inv
  <2>4. ASSUME NEW sender \in Addr, NEW e \in Ids, DisputeCall(sender, e)
        PROVE  escrow'[i] = escrow[i]
    <3>1. Exists(e) /\ \E p \in Phase \ {"NONE", "RESOLVED"} : escrow' = [escrow EXCEPT ![e].phase = p]
      BY <2>4, DisputeCallEffect DEF Inv
    <3>2. e # i
      BY <1>2, <3>1
    <3> QED
      BY <1>0, <3>1, <3>2, SMT
  <2>5. CASE \/ \E sender \in Addr, e \in Ids :
                  \/ \E bps \in Bps : ProposeSettlement(sender, e, bps)
                  \/ RevokeSettlement(sender, e)
             \/ \E a \in Addr : Claim(a)
             \/ Tick
             \/ [RolesNext]_roleVars /\ UNCHANGED <<now, escrowVars>>
    BY <2>5, Zenon DEF ProposeSettlement, RevokeSettlement, Claim, Tick, escrowVars
  <2> QED
    BY <2>1, <2>2, <2>3, <2>4, <2>5, StepCases, Zenon DEF Inv
<1> QED
  BY <1>1, <1>2

(* an escrow that exists keeps its payees, one that does not has no amount *)
LEMMA NextDealsComplete == Inv /\ DealsComplete /\ [Next]_vars => DealsComplete'
<1> SUFFICES ASSUME Inv, DealsComplete, [Next]_vars, NEW i \in Ids
             PROVE  IF escrow'[i].client # NoAddr
                    THEN {escrow'[i].client, escrow'[i].developer,
                          escrow'[i].feeRecipient} \subseteq Addr
                    ELSE escrow'[i].amount = 0
  BY DEF DealsComplete, Exists
<1>1. CASE Terms(escrow'[i]) = Terms(escrow[i])
  <2>1. /\ escrow'[i].client = escrow[i].client /\ escrow'[i].developer = escrow[i].developer
        /\ escrow'[i].feeRecipient = escrow[i].feeRecipient
        /\ escrow'[i].amount = escrow[i].amount
    BY <1>1, SMT DEF Terms
  <2> QED
    BY <2>1 DEF DealsComplete, Exists
<1>2. ASSUME NEW sender \in Addr, NEW developer \in Addr, NEW amount \in Amounts,
             NEW deadline \in Nat, NEW h \in Hashes,
             Deposit(sender, i, developer, amount, deadline, h)
      PROVE  {escrow'[i].client, escrow'[i].developer, escrow'[i].feeRecipient} \subseteq Addr
  BY <1>2, SMT DEF Deposit, Inv, TypeOK, RolesTypeOK
<1>3. {escrow'[i].client} \subseteq Addr => escrow'[i].client # NoAddr
  BY AddrAssumption
<1> QED
  BY <1>1, <1>2, <1>3, TermsStep

(* what the books are made of *)
LEMMA BookTypes ==
    ASSUME Inv
    PROVE  /\ \A e \in Ids : Held[e] \in Nat
           /\ \A a \in Addr : claimable[a] \in Nat /\ paid[a] \in Nat
           /\ \A e \in Ids : /\ Allocated("clientAmount")[e] = resolved[e].clientAmount
                             /\ Allocated("developerAmount")[e] = resolved[e].developerAmount
                             /\ Allocated("platformFee")[e] = resolved[e].platformFee
                             /\ resolved[e].clientAmount \in Nat
                             /\ resolved[e].developerAmount \in Nat
                             /\ resolved[e].platformFee \in Nat
           /\ totalUnresolvedPrincipal \in Nat /\ totalClaimable \in Nat
<1>1. \A e \in Ids : escrow[e] \in EscrowType /\ resolved[e] \in ResolvedType
  BY DEF Inv, TypeOK
<1>2. \A e \in Ids : escrow[e].amount \in Nat
  BY <1>1, SMT DEF EscrowType
<1>3. \A e \in Ids : Held[e] \in Nat
  BY <1>2 DEF Held
<1> QED
  BY <1>1, <1>3, SMT DEF ResolvedType, Allocated, Inv, TypeOK

(* what the books read of an escrow *)
SameBooks(i) ==
    /\ Terms(escrow'[i]) = Terms(escrow[i])
    /\ escrow'[i].phase = "RESOLVED" <=> escrow[i].phase = "RESOLVED"

(* the steps that move money, and all the others *)
LEMMA BookStep ==
    ASSUME Inv, [Next]_vars
    PROVE  \/ \E sender \in Addr, e \in Ids, developer \in Addr, amount \in Amounts,
                 deadline \in Nat, h \in Hashes :
                    Deposit(sender, e, developer, amount, deadline, h)
           \/ \E sender \in Addr, e \in Ids : ResolvingCall(sender, e)
           \/ \E a \in Addr : Claim(a)
           \/ UNCHANGED <<moneyVars, resolved>> /\ \A i \in Ids : SameBooks(i)
<1> DEFINE Quiet == UNCHANGED <<moneyVars, resolved>> /\ \A i \in Ids : SameBooks(i)
<1>0. escrow \in [Ids -> EscrowType]
  BY DEF Inv, TypeOK
<1>1. ASSUME NEW sender \in Addr, NEW e \in Ids, NEW h \in Hashes, SubmitWork(sender, e, h)
      PROVE  Quiet
  <2>1. \A i \in Ids : Terms(escrow'[i]) = Terms(escrow[i]) /\ escrow'[i].phase = escrow[i].phase
    BY <1>0, <1>1, SMT DEF SubmitWork, EscrowType, Terms
  <2> QED
    BY <1>1, <2>1 DEF SubmitWork, SameBooks, recordVars
<1>2. ASSUME NEW sender \in Addr, NEW e \in Ids, DisputeCall(sender, e)
      PROVE  Quiet
  <2>1. /\ escrow[e].phase # "RESOLVED" /\ UNCHANGED <<moneyVars, resolved>>
        /\ \E p \in Phase \ {"NONE", "RESOLVED"} : escrow' = [escrow EXCEPT ![e].phase = p]
    BY <1>2, DisputeCallEffect DEF Inv
  <2>2. PICK p \in Phase \ {"NONE", "RESOLVED"} : escrow' = [escrow EXCEPT ![e].phase = p]
    BY <2>1
  <2>3. /\ escrow'[e].phase = p
        /\ \A i \in Ids : Terms(escrow'[i]) = Terms(escrow[i]) /\ (i # e => escrow'[i] = escrow[i])
    BY <1>0, <2>2, SMT DEF EscrowType, Terms
  <2> QED
    BY <2>1, <2>2, <2>3 DEF SameBooks
<1>3. CASE \/ \E sender \in Addr, e \in Ids :
                \/ \E bps \in Bps : ProposeSettlement(sender, e, bps)
                \/ RevokeSettlement(sender, e)
           \/ Tick
           \/ [RolesNext]_roleVars /\ UNCHANGED <<now, escrowVars>>
  <2>1. UNCHANGED <<escrow, moneyVars, resolved>>
    BY <1>3, Zenon DEF ProposeSettlement, RevokeSettlement, Tick, escrowVars, recordVars
  <2> QED
    BY <2>1, Zenon DEF SameBooks
<1> QED
  BY <1>1, <1>2, <1>3, StepCases, Zenon DEF Inv

(* k is f with p more for x *)
Credits(k, f, x, p, S) ==
    /\ f \in [S -> Nat] /\ x \in S /\ p \in Nat
    /\ k = [a \in S |-> IF a = x THEN f[a] + p ELSE f[a]]

(* one credit *)
LEMMA CreditedPoints ==
    ASSUME NEW S, NEW f, NEW x, NEW p, NEW k, Credits(k, f, x, p, S)
    PROVE  /\ k \in [S -> Nat] /\ k[x] = f[x] + p
           /\ \A a \in S : a # x => k[a] = f[a]
BY DEF Credits

(* crediting one address adds the credit to the sum over all *)
LEMMA TotalCredited ==
    ASSUME NEW S, IsFiniteSet(S), NEW f, NEW x, NEW p, NEW k, Credits(k, f, x, p, S)
    PROVE  k \in [S -> Nat] /\ Total(k, S) = Total(f, S) + p /\ Total(f, S) \in Nat
<1>0. f \in [S -> Nat] /\ x \in S /\ p \in Nat
  BY DEF Credits
<1>1. k \in [S -> Nat] /\ k[x] = f[x] + p /\ \A a \in S : a # x => k[a] = f[a]
  BY CreditedPoints
<1>2. f[x] \in Nat /\ k[x] \in Nat /\ (\A a \in S : f[a] \in Nat) /\ \A a \in S : k[a] \in Nat
  BY <1>0, <1>1
<1>3. Total(k, S) + f[x] = Total(f, S) + k[x]
  BY <1>0, <1>1, <1>2, TotalChange
<1>4. Total(f, S) \in Nat
  BY <1>2, TotalNat
<1>5. Total(k, S) \in Nat
  BY <1>2, TotalNat
<1> QED
  BY <1>0, <1>1, <1>2, <1>3, <1>4, <1>5

ThreeCredited(g, f, x, y, z, p, q, r, S) ==
    /\ f \in [S -> Nat] /\ {x, y, z} \subseteq S /\ {p, q, r} \subseteq Nat
    /\ g = [a \in S |-> f[a] + ((IF a = x THEN p ELSE 0) + (IF a = y THEN q ELSE 0)
                                + (IF a = z THEN r ELSE 0))]

(* three credits, possibly to one address, add up *)
LEMMA ThreeCredits ==
    ASSUME NEW S, IsFiniteSet(S), NEW f, NEW x, NEW y, NEW z, NEW p, NEW q, NEW r, NEW g,
           ThreeCredited(g, f, x, y, z, p, q, r, S)
    PROVE  Total(g, S) = Total(f, S) + p + q + r
<1>0. /\ f \in [S -> Nat] /\ x \in S /\ y \in S /\ z \in S
      /\ p \in Nat /\ q \in Nat /\ r \in Nat
  BY DEF ThreeCredited
<1>1. PICK c1 : Credits(c1, f, x, p, S)
  BY <1>0 DEF Credits
<1>2. c1 \in [S -> Nat] /\ Total(c1, S) = Total(f, S) + p /\ Total(f, S) \in Nat
  BY <1>1, TotalCredited
<1>3. \A a \in S : c1[a] = f[a] + (IF a = x THEN p ELSE 0)
  BY <1>1 DEF Credits
<1>4. PICK c2 : Credits(c2, c1, y, q, S)
  BY <1>0, <1>2 DEF Credits
<1>5. c2 \in [S -> Nat] /\ Total(c2, S) = Total(c1, S) + q
  BY <1>4, TotalCredited
<1>6. \A a \in S : c2[a] = c1[a] + (IF a = y THEN q ELSE 0)
  BY <1>4, <1>2 DEF Credits
<1>7. PICK c3 : Credits(c3, c2, z, r, S)
  BY <1>0, <1>5 DEF Credits
<1>8. c3 \in [S -> Nat] /\ Total(c3, S) = Total(c2, S) + r
  BY <1>7, TotalCredited
<1>9. \A a \in S : c3[a] = c2[a] + (IF a = z THEN r ELSE 0)
  BY <1>7, <1>5 DEF Credits
<1>10. \A a \in S : g[a] = c3[a]
  BY <1>0, <1>3, <1>6, <1>9 DEF ThreeCredited
<1>11. Total(g, S) = Total(c3, S)
  BY <1>10, TotalSame
<1> QED
  BY <1>0, <1>2, <1>5, <1>8, <1>11

(* what an escrow holds after a step *)
LEMMA HeldAfter ==
    ASSUME NEW i \in Ids
    PROVE  Held'[i] = IF escrow'[i].phase = "RESOLVED" THEN 0 ELSE escrow'[i].amount
BY DEF Held

(* every step changes the running totals by what it changes the sums *)
LEMMA NextTotalsMatch ==
    ASSUME IsFiniteSet(Ids), IsFiniteSet(Addr)
    PROVE  BooksInv /\ [Next]_vars => TotalsMatch'
<1> SUFFICES ASSUME BooksInv, [Next]_vars PROVE TotalsMatch'
  OBVIOUS
<1>0. Inv /\ DealsComplete /\ TotalsMatch /\ escrow \in [Ids -> EscrowType]
      /\ \A e \in Ids : escrow[e].amount \in Nat
  BY SMT DEF BooksInv, Inv, TypeOK, EscrowType
<1>a. /\ \A e \in Ids : Held[e] \in Nat
      /\ \A a \in Addr : claimable[a] \in Nat
      /\ totalUnresolvedPrincipal \in Nat /\ totalClaimable \in Nat
  BY <1>0, BookTypes
<1> SUFFICES /\ totalUnresolvedPrincipal' = Total(Held', Ids)
             /\ totalClaimable' = Total(claimable', Addr)
  BY DEF TotalsMatch
<1>b. totalUnresolvedPrincipal = Total(Held, Ids) /\ totalClaimable = Total(claimable, Addr)
  BY <1>0 DEF TotalsMatch
<1>1. ASSUME NEW sender \in Addr, NEW e \in Ids, NEW developer \in Addr,
             NEW amount \in Amounts, NEW deadline \in Nat, NEW h \in Hashes,
             Deposit(sender, e, developer, amount, deadline, h)
      PROVE  /\ totalUnresolvedPrincipal' = Total(Held', Ids)
             /\ totalClaimable' = Total(claimable', Addr)
  <2>1. escrow'[e].amount = amount /\ escrow'[e].phase = "FUNDED"
        /\ \A i \in Ids : i # e => escrow'[i] = escrow[i]
    BY <1>0, <1>1, SMT DEF Deposit
  <2>2. Held[e] = 0
    BY <1>0, <1>1 DEF Deposit, DealsComplete, Held
  <2>3. Held'[e] = amount /\ amount \in Nat
    BY <2>1, HeldAfter, EscrowAssumption
  <2>4. \A i \in Ids : i # e => Held'[i] = Held[i]
    BY <2>1, HeldAfter DEF Held
  <2>5. Total(Held', Ids) + Held[e] = Total(Held, Ids) + Held'[e] /\ Total(Held', Ids) \in Nat
    BY <1>a, <2>3, <2>4, TotalChange
  <2>6. totalUnresolvedPrincipal' = totalUnresolvedPrincipal + amount
        /\ UNCHANGED <<claimable, totalClaimable>>
    BY <1>1 DEF Deposit
  <2> QED
    BY <1>a, <1>b, <2>2, <2>3, <2>5, <2>6
<1>2. ASSUME NEW sender \in Addr, NEW e \in Ids, ResolvingCall(sender, e)
      PROVE  /\ totalUnresolvedPrincipal' = Total(Held', Ids)
             /\ totalClaimable' = Total(claimable', Addr)
  <2> DEFINE x == escrow[e]
  <2>1. PICK bps \in 0..MAX_BPS, kind \in ResolutionKind, h \in Hashes \cup {NoHash} :
               Exists(e) /\ Resolve(e, bps, kind, h)
    BY <1>0, <1>2, ResolvingCalls DEF Inv
  <2>2. escrow'[e].phase = "RESOLVED" /\ x.phase # "RESOLVED"
        /\ \A i \in Ids : i # e => escrow'[i] = escrow[i]
    BY <1>0, <2>1, ResolveEscrow DEF Inv, Resolve
  <2>3. Held'[e] = 0 /\ Held[e] = x.amount /\ \A i \in Ids : i # e => Held'[i] = Held[i]
    BY <2>2, HeldAfter DEF Held
  <2>4. Total(Held', Ids) + Held[e] = Total(Held, Ids) + Held'[e] /\ Total(Held', Ids) \in Nat
    BY <1>a, <2>3, TotalChange
  <2>5. totalUnresolvedPrincipal' = totalUnresolvedPrincipal - x.amount
        /\ totalClaimable' = totalClaimable + x.amount
    BY <2>1 DEF Resolve
  <2>6. Total(claimable', Addr) = Total(claimable, Addr) + x.amount
    <3> DEFINE s == Shares(x.amount, bps)
    <3>1. /\ s.clientAmount \in Nat /\ s.developerAmount \in Nat /\ s.platformFee \in Nat
          /\ s.clientAmount + s.developerAmount + s.platformFee = x.amount
      BY <1>0, SharesAllocatePrincipal
    <3>2. claimable' = [a \in Addr |-> claimable[a] + ShareOf(a, x, s)]
      BY <2>1, Zenon DEF Resolve
    <3>3. x.client \in Addr /\ x.developer \in Addr /\ x.feeRecipient \in Addr
      BY <1>0, <2>1 DEF DealsComplete
    <3> HIDE DEF s
    <3>4. claimable \in [Addr -> Nat]
      BY <1>0 DEF Inv, TypeOK
    <3>5. PICK p \in Nat, q \in Nat, r \in Nat :
               p = s.clientAmount /\ q = s.developerAmount /\ r = s.platformFee
      BY <3>1
    <3>6. PICK u \in Addr, v \in Addr, w \in Addr :
               u = x.client /\ v = x.developer /\ w = x.feeRecipient
      BY <3>3
    <3>7. ThreeCredited(claimable', claimable, u, v, w, p, q, r, Addr)
      BY <3>2, <3>4, <3>5, <3>6 DEF ShareOf, ThreeCredited
    <3>8. PICK f, g : f = claimable /\ g = claimable'
      OBVIOUS
    <3>9. ThreeCredited(g, f, u, v, w, p, q, r, Addr)
      BY <3>7, <3>8
    <3>10. Total(g, Addr) = Total(f, Addr) + p + q + r
      BY <3>9, ThreeCredits
    <3> QED
      BY <1>0, <1>a, <1>b, <3>1, <3>5, <3>8, <3>10
  <2> QED
    BY <1>0, <1>a, <1>b, <2>3, <2>4, <2>5, <2>6
<1>3. ASSUME NEW a \in Addr, Claim(a)
      PROVE  /\ totalUnresolvedPrincipal' = Total(Held', Ids)
             /\ totalClaimable' = Total(claimable', Addr)
  <2>1. /\ claimable' = [claimable EXCEPT ![a] = 0]
        /\ totalClaimable' = totalClaimable - claimable[a]
        /\ UNCHANGED <<escrow, totalUnresolvedPrincipal>>
    BY <1>3 DEF Claim
  <2>2. Held' = Held
    BY <2>1 DEF Held
  <2>3. claimable'[a] = 0 /\ \A b \in Addr : b # a => claimable'[b] = claimable[b]
    BY <1>0, <2>1 DEF Inv, TypeOK
  <2>4. Total(claimable', Addr) + claimable[a] = Total(claimable, Addr) + claimable'[a]
        /\ Total(claimable', Addr) \in Nat
    BY <1>a, <2>3, TotalChange
  <2> QED
    BY <1>a, <1>b, <2>1, <2>2, <2>3, <2>4
<1>4. CASE UNCHANGED <<moneyVars, resolved>> /\ \A i \in Ids : SameBooks(i)
  <2>1. \A i \in Ids : Held'[i] = Held[i]
    <3>1. \A i \in Ids : escrow'[i].amount = escrow[i].amount
      BY <1>4, SMT DEF SameBooks, Terms
    <3> QED
      BY <1>4, <3>1, HeldAfter DEF SameBooks, Held
  <2>2. Total(Held', Ids) = Total(Held, Ids)
    BY <2>1, TotalSame
  <2> QED
    BY <1>4, <1>b, <2>2 DEF moneyVars
<1> QED
  BY <1>0, <1>1, <1>2, <1>3, <1>4, BookStep

-----------------------------------------------------------------------------
(* The credits of an address against the shares of the resolved escrows *)

(* an address gains the share of one escrow, or nothing *)
LEMMA ShareGained ==
    ASSUME NEW R, IsFiniteSet(R), NEW e, e \notin R, NEW f, NEW k,
           \A i \in R : f[i] \in Nat /\ k[i] = f[i], k[e] \in Nat, NEW T
    PROVE  /\ T = R \cup {e} => Total(k, T) = Total(f, R) + k[e]
           /\ T = R => Total(k, T) = Total(f, R)
           /\ Total(f, R) \in Nat
<1>1. Total(f, R) \in Nat
  BY TotalNat
<1>2. Total(k, R \cup {e}) = k[e] + Total(f, R)
  BY TotalInsert
<1>3. Total(k, R) = Total(f, R)
  BY TotalSame
<1>4. k[e] + Total(f, R) = Total(f, R) + k[e]
  BY <1>1
<1>5. T = R \cup {e} => Total(k, T) = Total(f, R) + k[e]
  BY <1>2, <1>4, Zenon
<1>6. T = R => Total(k, T) = Total(f, R)
  BY <1>3, Zenon
<1> QED
  BY <1>1, <1>5, <1>6

(* who was paid for which escrow *)
LEMMA ResolvedSets ==
    ASSUME NEW a
    PROVE  /\ \A i : i \in ResolvedFor(a, "client") <=>
                        i \in Ids /\ escrow[i].phase = "RESOLVED" /\ escrow[i].client = a
           /\ \A i : i \in ResolvedFor(a, "developer") <=>
                        i \in Ids /\ escrow[i].phase = "RESOLVED" /\ escrow[i].developer = a
           /\ \A i : i \in ResolvedFor(a, "feeRecipient") <=>
                        i \in Ids /\ escrow[i].phase = "RESOLVED" /\ escrow[i].feeRecipient = a
<1>1. \A i : i \in ResolvedFor(a, "client") <=>
               i \in Ids /\ escrow[i].phase = "RESOLVED" /\ escrow[i].client = a
  BY DEF ResolvedFor
<1>2. \A i : i \in ResolvedFor(a, "developer") <=>
               i \in Ids /\ escrow[i].phase = "RESOLVED" /\ escrow[i].developer = a
  BY DEF ResolvedFor
<1>3. \A i : i \in ResolvedFor(a, "feeRecipient") <=>
               i \in Ids /\ escrow[i].phase = "RESOLVED" /\ escrow[i].feeRecipient = a
  BY DEF ResolvedFor
<1> QED
  BY <1>1, <1>2, <1>3

(* and after a step *)
LEMMA ResolvedSetsAfter ==
    ASSUME NEW a
    PROVE  /\ \A i : i \in ResolvedFor(a, "client")' <=>
                        i \in Ids /\ escrow'[i].phase = "RESOLVED" /\ escrow'[i].client = a
           /\ \A i : i \in ResolvedFor(a, "developer")' <=>
                        i \in Ids /\ escrow'[i].phase = "RESOLVED" /\ escrow'[i].developer = a
           /\ \A i : i \in ResolvedFor(a, "feeRecipient")' <=>
                        i \in Ids /\ escrow'[i].phase = "RESOLVED" /\ escrow'[i].feeRecipient = a
<1>1. \A i : i \in ResolvedFor(a, "client")' <=>
               i \in Ids /\ escrow'[i].phase = "RESOLVED" /\ escrow'[i].client = a
  BY DEF ResolvedFor
<1>2. \A i : i \in ResolvedFor(a, "developer")' <=>
               i \in Ids /\ escrow'[i].phase = "RESOLVED" /\ escrow'[i].developer = a
  BY DEF ResolvedFor
<1>3. \A i : i \in ResolvedFor(a, "feeRecipient")' <=>
               i \in Ids /\ escrow'[i].phase = "RESOLVED" /\ escrow'[i].feeRecipient = a
  BY DEF ResolvedFor
<1> QED
  BY <1>1, <1>2, <1>3

(* what was allocated after a step *)
LEMMA AllocatedAfter ==
    ASSUME NEW i \in Ids
    PROVE  /\ Allocated("clientAmount")'[i] = resolved'[i].clientAmount
           /\ Allocated("developerAmount")'[i] = resolved'[i].developerAmount
           /\ Allocated("platformFee")'[i] = resolved'[i].platformFee
BY DEF Allocated

(* a step that resolves nothing leaves what each address is due, in all *)
LEMMA NothingResolved ==
    ASSUME CreditsFollowResolutions, UNCHANGED resolved,
           \A a \in Addr : claimable'[a] + paid'[a] = claimable[a] + paid[a],
           \A i \in Ids : /\ (escrow'[i].phase = "RESOLVED") <=> (escrow[i].phase = "RESOLVED")
                          /\ escrow[i].phase = "RESOLVED" => Terms(escrow'[i]) = Terms(escrow[i])
    PROVE  CreditsFollowResolutions'
<1>1. \A i \in Ids : escrow[i].phase = "RESOLVED" =>
         /\ escrow'[i].client = escrow[i].client /\ escrow'[i].developer = escrow[i].developer
         /\ escrow'[i].feeRecipient = escrow[i].feeRecipient
  BY SMT DEF Terms
<1>2. ASSUME NEW a \in Addr
      PROVE  /\ ResolvedFor(a, "client")' = ResolvedFor(a, "client")
             /\ ResolvedFor(a, "developer")' = ResolvedFor(a, "developer")
             /\ ResolvedFor(a, "feeRecipient")' = ResolvedFor(a, "feeRecipient")
  <2>1. \A i : (i \in ResolvedFor(a, "client")') <=> (i \in ResolvedFor(a, "client"))
    BY <1>1, ResolvedSets, ResolvedSetsAfter
  <2>2. \A i : (i \in ResolvedFor(a, "developer")') <=> (i \in ResolvedFor(a, "developer"))
    BY <1>1, ResolvedSets, ResolvedSetsAfter
  <2>3. \A i : (i \in ResolvedFor(a, "feeRecipient")') <=> (i \in ResolvedFor(a, "feeRecipient"))
    BY <1>1, ResolvedSets, ResolvedSetsAfter
  <2> QED
    BY <2>1, <2>2, <2>3
<1>3. \A share : Allocated(share)' = Allocated(share)
  BY DEF Allocated
<1> QED
  BY <1>2, <1>3, Zenon DEF CreditsFollowResolutions

(* every step changes an address's credit by the shares it resolved for it *)
LEMMA NextCredits ==
    ASSUME IsFiniteSet(Ids)
    PROVE  BooksInv /\ [Next]_vars => CreditsFollowResolutions'
<1> SUFFICES ASSUME BooksInv, [Next]_vars PROVE CreditsFollowResolutions'
  OBVIOUS
<1>0. Inv /\ CreditsFollowResolutions /\ escrow \in [Ids -> EscrowType]
      /\ \A e \in Ids : escrow[e].amount \in Nat
  BY SMT DEF BooksInv, Inv, TypeOK, EscrowType
<1>1. ASSUME NEW sender \in Addr, NEW e \in Ids, NEW developer \in Addr,
             NEW amount \in Amounts, NEW deadline \in Nat, NEW h \in Hashes,
             Deposit(sender, e, developer, amount, deadline, h)
      PROVE  CreditsFollowResolutions'
  <2>1. escrow[e].phase = "NONE"
    BY <1>0, <1>1 DEF Deposit, Inv, PhaseMarksExistence
  <2>2. escrow'[e].phase = "FUNDED" /\ \A i \in Ids : i # e => escrow'[i] = escrow[i]
    BY <1>0, <1>1, SMT DEF Deposit
  <2>3. UNCHANGED <<resolved, claimable, paid>>
    BY <1>1 DEF Deposit, recordVars
  <2> QED
    BY <1>0, <2>1, <2>2, <2>3, NothingResolved
<1>2. ASSUME NEW a \in Addr, Claim(a)
      PROVE  CreditsFollowResolutions'
  <2>1. UNCHANGED <<escrow, resolved>>
    BY <1>2 DEF Claim, recordVars
  <2>2. \A b \in Addr : claimable'[b] + paid'[b] = claimable[b] + paid[b]
    <3>1. /\ claimable \in [Addr -> Nat] /\ paid \in [Addr -> Nat]
          /\ claimable' = [claimable EXCEPT ![a] = 0]
          /\ paid' = [paid EXCEPT ![a] = @ + claimable[a]]
      BY <1>0, <1>2 DEF Claim, Inv, TypeOK
    <3> QED
      BY <3>1
  <2> QED
    BY <1>0, <2>1, <2>2, NothingResolved
<1>3. CASE UNCHANGED <<moneyVars, resolved>> /\ \A i \in Ids : SameBooks(i)
  <2>1. /\ UNCHANGED resolved
        /\ \A a \in Addr : claimable'[a] + paid'[a] = claimable[a] + paid[a]
    BY <1>3 DEF moneyVars
  <2> QED
    BY <1>0, <1>3, <2>1, NothingResolved DEF SameBooks
<1>4. ASSUME NEW sender \in Addr, NEW e \in Ids, ResolvingCall(sender, e)
      PROVE  CreditsFollowResolutions'
  <2> SUFFICES ASSUME NEW a \in Addr
               PROVE  claimable'[a] + paid'[a]
                        = Total(Allocated("clientAmount")', ResolvedFor(a, "client")')
                          + Total(Allocated("developerAmount")', ResolvedFor(a, "developer")')
                          + Total(Allocated("platformFee")', ResolvedFor(a, "feeRecipient")')
    BY DEF CreditsFollowResolutions
  <2>0. claimable[a] + paid[a]
           = Total(Allocated("clientAmount"), ResolvedFor(a, "client"))
             + Total(Allocated("developerAmount"), ResolvedFor(a, "developer"))
             + Total(Allocated("platformFee"), ResolvedFor(a, "feeRecipient"))
        /\ claimable[a] \in Nat /\ paid[a] \in Nat
    BY <1>0, BookTypes DEF CreditsFollowResolutions
  <2> DEFINE x == escrow[e]
  <2>1. PICK bps \in 0..MAX_BPS, kind \in ResolutionKind, h \in Hashes \cup {NoHash} :
               Exists(e) /\ Resolve(e, bps, kind, h)
    BY <1>0, <1>4, ResolvingCalls DEF Inv
  <2> DEFINE s == Shares(x.amount, bps)
  <2>2. /\ escrow'[e].phase = "RESOLVED" /\ x.phase # "RESOLVED"
        /\ Terms(escrow'[e]) = Terms(x)
        /\ \A i \in Ids : i # e => escrow'[i] = escrow[i]
    BY <1>0, <2>1, ResolveEscrow DEF Inv, Resolve
  <2>3. /\ s.clientAmount \in Nat /\ s.developerAmount \in Nat /\ s.platformFee \in Nat
    BY <1>0, SharesAllocatePrincipal
  <2>4. /\ claimable' = [b \in Addr |-> claimable[b] + ShareOf(b, x, s)]
        /\ paid' = paid
        /\ resolved' = [resolved EXCEPT ![e] =
              [clientAmount |-> s.clientAmount, developerAmount |-> s.developerAmount,
               platformFee |-> s.platformFee, decisionHash |-> h, at |-> now]]
    BY <2>1, Zenon DEF Resolve
  <2>5. PICK p \in Nat, q \in Nat, r \in Nat :
             p = s.clientAmount /\ q = s.developerAmount /\ r = s.platformFee
    BY <2>3
  <2> HIDE DEF s
  <2>6. /\ resolved'[e].clientAmount = p /\ resolved'[e].developerAmount = q
        /\ resolved'[e].platformFee = r /\ \A i \in Ids : i # e => resolved'[i] = resolved[i]
    BY <1>0, <2>4, <2>5, SMT DEF Inv, TypeOK
  <2>7. PICK u, v, w : u = x.client /\ v = x.developer /\ w = x.feeRecipient
    OBVIOUS
  <2>8. escrow'[e].client = u /\ escrow'[e].developer = v /\ escrow'[e].feeRecipient = w
    BY <2>2, <2>7, SMT DEF Terms
  <2>9. claimable'[a] + paid'[a]
           = claimable[a] + paid[a] + ((IF a = u THEN p ELSE 0) + (IF a = v THEN q ELSE 0)
                                       + (IF a = w THEN r ELSE 0))
    <3>1. claimable'[a] = claimable[a] + ((IF a = u THEN p ELSE 0) + (IF a = v THEN q ELSE 0)
                                       + (IF a = w THEN r ELSE 0))
      BY <2>4, <2>5, <2>7 DEF ShareOf
    <3> QED
      BY <2>0, <2>4, <3>1
  <2>10. /\ IsFiniteSet(ResolvedFor(a, "client")) /\ IsFiniteSet(ResolvedFor(a, "developer"))
         /\ IsFiniteSet(ResolvedFor(a, "feeRecipient"))
    <3>1. \A party : ResolvedFor(a, party) \subseteq Ids
      BY DEF ResolvedFor
    <3> QED
      BY <3>1, FS_Subset
  <2>11. /\ e \notin ResolvedFor(a, "client") /\ e \notin ResolvedFor(a, "developer")
         /\ e \notin ResolvedFor(a, "feeRecipient")
    BY <2>2 DEF ResolvedFor
  <2>12. /\ a = u => ResolvedFor(a, "client")' = ResolvedFor(a, "client") \cup {e}
         /\ a # u => ResolvedFor(a, "client")' = ResolvedFor(a, "client")
    <3>1. \A i : i \in ResolvedFor(a, "client")' <=>
                    i \in ResolvedFor(a, "client") \/ (i = e /\ a = u)
      BY <2>2, <2>8, ResolvedSets, ResolvedSetsAfter
    <3> QED
      BY <3>1
  <2>13. /\ a = v => ResolvedFor(a, "developer")' = ResolvedFor(a, "developer") \cup {e}
         /\ a # v => ResolvedFor(a, "developer")' = ResolvedFor(a, "developer")
    <3>1. \A i : i \in ResolvedFor(a, "developer")' <=>
                    i \in ResolvedFor(a, "developer") \/ (i = e /\ a = v)
      BY <2>2, <2>8, ResolvedSets, ResolvedSetsAfter
    <3> QED
      BY <3>1
  <2>14. /\ a = w => ResolvedFor(a, "feeRecipient")' = ResolvedFor(a, "feeRecipient") \cup {e}
         /\ a # w => ResolvedFor(a, "feeRecipient")' = ResolvedFor(a, "feeRecipient")
    <3>1. \A i : i \in ResolvedFor(a, "feeRecipient")' <=>
                    i \in ResolvedFor(a, "feeRecipient") \/ (i = e /\ a = w)
      BY <2>2, <2>8, ResolvedSets, ResolvedSetsAfter
    <3> QED
      BY <3>1
  <2>15. \A i \in Ids : i # e =>
           /\ Allocated("clientAmount")[i] \in Nat /\ Allocated("developerAmount")[i] \in Nat
           /\ Allocated("platformFee")[i] \in Nat
           /\ Allocated("clientAmount")'[i] = Allocated("clientAmount")[i]
           /\ Allocated("developerAmount")'[i] = Allocated("developerAmount")[i]
           /\ Allocated("platformFee")'[i] = Allocated("platformFee")[i]
    BY <1>0, <2>6, BookTypes, AllocatedAfter
  <2>16. /\ Allocated("clientAmount")'[e] = p /\ Allocated("developerAmount")'[e] = q
         /\ Allocated("platformFee")'[e] = r
    BY <2>6, AllocatedAfter
  <2>17. \A party : ResolvedFor(a, party) \subseteq Ids
    BY DEF ResolvedFor
  <2>18. /\ Total(Allocated("clientAmount")', ResolvedFor(a, "client")')
              = Total(Allocated("clientAmount"), ResolvedFor(a, "client"))
                + (IF a = u THEN p ELSE 0)
         /\ Total(Allocated("clientAmount"), ResolvedFor(a, "client")) \in Nat
    <3> DEFINE R == ResolvedFor(a, "client")
               T == ResolvedFor(a, "client")'
               f == Allocated("clientAmount")
               k == Allocated("clientAmount")'
    <3>1. /\ IsFiniteSet(R) /\ e \notin R /\ k[e] = p
          /\ (\A i \in R : f[i] \in Nat /\ k[i] = f[i])
          /\ (a = u => T = R \cup {e}) /\ (a # u => T = R)
      BY <2>10, <2>11, <2>12, <2>15, <2>16, <2>17
    <3> HIDE DEF R, T, f, k
    <3>2. /\ T = R \cup {e} => Total(k, T) = Total(f, R) + k[e]
          /\ T = R => Total(k, T) = Total(f, R)
          /\ Total(f, R) \in Nat
      BY <3>1, ShareGained
    <3>3. Total(k, T) = Total(f, R) + (IF a = u THEN p ELSE 0) /\ Total(f, R) \in Nat
      BY <3>1, <3>2
    <3> QED
      BY <3>3 DEF R, T, f, k
  <2>19. /\ Total(Allocated("developerAmount")', ResolvedFor(a, "developer")')
              = Total(Allocated("developerAmount"), ResolvedFor(a, "developer"))
                + (IF a = v THEN q ELSE 0)
         /\ Total(Allocated("developerAmount"), ResolvedFor(a, "developer")) \in Nat
    <3> DEFINE R == ResolvedFor(a, "developer")
               T == ResolvedFor(a, "developer")'
               f == Allocated("developerAmount")
               k == Allocated("developerAmount")'
    <3>1. /\ IsFiniteSet(R) /\ e \notin R /\ k[e] = q
          /\ (\A i \in R : f[i] \in Nat /\ k[i] = f[i])
          /\ (a = v => T = R \cup {e}) /\ (a # v => T = R)
      BY <2>10, <2>11, <2>13, <2>15, <2>16, <2>17
    <3> HIDE DEF R, T, f, k
    <3>2. /\ T = R \cup {e} => Total(k, T) = Total(f, R) + k[e]
          /\ T = R => Total(k, T) = Total(f, R)
          /\ Total(f, R) \in Nat
      BY <3>1, ShareGained
    <3>3. Total(k, T) = Total(f, R) + (IF a = v THEN q ELSE 0) /\ Total(f, R) \in Nat
      BY <3>1, <3>2
    <3> QED
      BY <3>3 DEF R, T, f, k
  <2>20. /\ Total(Allocated("platformFee")', ResolvedFor(a, "feeRecipient")')
              = Total(Allocated("platformFee"), ResolvedFor(a, "feeRecipient"))
                + (IF a = w THEN r ELSE 0)
         /\ Total(Allocated("platformFee"), ResolvedFor(a, "feeRecipient")) \in Nat
    <3> DEFINE R == ResolvedFor(a, "feeRecipient")
               T == ResolvedFor(a, "feeRecipient")'
               f == Allocated("platformFee")
               k == Allocated("platformFee")'
    <3>1. /\ IsFiniteSet(R) /\ e \notin R /\ k[e] = r
          /\ (\A i \in R : f[i] \in Nat /\ k[i] = f[i])
          /\ (a = w => T = R \cup {e}) /\ (a # w => T = R)
      BY <2>10, <2>11, <2>14, <2>15, <2>16, <2>17
    <3> HIDE DEF R, T, f, k
    <3>2. /\ T = R \cup {e} => Total(k, T) = Total(f, R) + k[e]
          /\ T = R => Total(k, T) = Total(f, R)
          /\ Total(f, R) \in Nat
      BY <3>1, ShareGained
    <3>3. Total(k, T) = Total(f, R) + (IF a = w THEN r ELSE 0) /\ Total(f, R) \in Nat
      BY <3>1, <3>2
    <3> QED
      BY <3>3 DEF R, T, f, k
  <2> QED
    BY <2>0, <2>9, <2>18, <2>19, <2>20
<1> QED
  BY <1>0, <1>1, <1>2, <1>3, <1>4, BookStep

(* nothing is owed at the start *)
LEMMA TotalZero ==
    ASSUME NEW S, IsFiniteSet(S), NEW f, \A x \in S : f[x] = 0
    PROVE  Total(f, S) = 0
<1>1. PICK g : Adds(g, f, S) /\ Total(f, S) = g[S]
  BY SumIs
<1>a. Adds(g, f, S)
  BY <1>1
<1> DEFINE C == {T \in SUBSET S : g[T] = 0}
<1>2. ASSUME NEW T \in SUBSET S, \A U \in SUBSET T : U # T => U \in C
      PROVE  T \in C
  <2>1. CASE T = {}
    BY <1>a, <2>1, AddsStep
  <2>2. CASE T # {}
    <3>1. AnyOf(T) \in T /\ g[T] = f[AnyOf(T)] + g[T \ {AnyOf(T)}]
      BY <1>a, <2>2, AddsStep
    <3>2. g[T \ {AnyOf(T)}] = 0 /\ f[AnyOf(T)] = 0
      BY <1>2, <3>1
    <3> QED
      BY <3>1, <3>2
  <2> QED
    BY <2>1, <2>2
<1> HIDE DEF C
<1>3. \A T \in SUBSET S : T \in C
  BY <1>2, FiniteInduction
<1> QED
  BY <1>1, <1>3 DEF C

(* the books of a new contract *)
LEMMA InitBooks ==
    ASSUME IsFiniteSet(Ids), IsFiniteSet(Addr)
    PROVE  Init => BooksInv
<1> SUFFICES ASSUME Init PROVE BooksInv
  OBVIOUS
<1>1. Inv
  BY InitInv
<1>2. /\ \A e \in Ids : escrow[e].client = NoAddr /\ escrow[e].amount = 0 /\ escrow[e].phase = "NONE"
      /\ totalUnresolvedPrincipal = 0 /\ totalClaimable = 0
      /\ \A a \in Addr : claimable[a] = 0 /\ paid[a] = 0
  BY SMT DEF Init, EscrowInit, NoEscrow
<1>3. DealsComplete
  BY <1>2 DEF DealsComplete, Exists
<1>4. TotalsMatch
  <2>1. \A e \in Ids : Held[e] = 0
    BY <1>2 DEF Held
  <2>2. Total(Held, Ids) = 0 /\ Total(claimable, Addr) = 0
    BY <1>2, <2>1, TotalZero
  <2> QED
    BY <1>2, <2>2 DEF TotalsMatch
<1>5. CreditsFollowResolutions
  <2> SUFFICES ASSUME NEW a \in Addr
               PROVE  claimable[a] + paid[a]
                        = Total(Allocated("clientAmount"), ResolvedFor(a, "client"))
                          + Total(Allocated("developerAmount"), ResolvedFor(a, "developer"))
                          + Total(Allocated("platformFee"), ResolvedFor(a, "feeRecipient"))
    BY DEF CreditsFollowResolutions
  <2>1. \A party : ResolvedFor(a, party) = {}
    BY <1>2 DEF ResolvedFor
  <2>2. \A party, share : Total(Allocated(share), ResolvedFor(a, party)) = 0
    BY <2>1, TotalEmpty
  <2>3. claimable[a] = 0 /\ paid[a] = 0
    BY <1>2
  <2> QED
    BY <2>2, <2>3
<1> QED
  BY <1>1, <1>3, <1>4, <1>5 DEF BooksInv

(* the books are always in order *)
LEMMA InductiveBooks ==
    ASSUME IsFiniteSet(Ids), IsFiniteSet(Addr)
    PROVE  Spec => []BooksInv
<1>1. Init => BooksInv
  BY InitBooks
<1>2. BooksInv /\ [Next]_vars => BooksInv'
  <2>1. BooksInv /\ [Next]_vars => Inv'
    BY NextInv DEF BooksInv
  <2>2. BooksInv /\ [Next]_vars => DealsComplete'
    BY NextDealsComplete DEF BooksInv
  <2> QED
    BY <2>1, <2>2, NextTotalsMatch, NextCredits, Zenon DEF BooksInv
<1> QED
  BY <1>1, <1>2, PTL DEF Spec

(* The contract's running totals are, at every moment, the sums they stand     *)
(* for: the principal of the escrows that are not resolved, and what can be    *)
(* claimed (totalUnresolvedPrincipal, totalClaimable).                         *)
THEOREM TotalsAlwaysMatch ==
    ASSUME IsFiniteSet(Ids), IsFiniteSet(Addr)
    PROVE  Spec => []TotalsMatch
<1>1. BooksInv => TotalsMatch
  BY DEF BooksInv
<1> QED
  BY <1>1, InductiveBooks, PTL

(* Whatever the order of resolutions and claims, an address has been credited  *)
(* exactly its shares of the resolved escrows, neither more nor less, whatever *)
(* parts it plays in them (_resolve, claim).                                   *)
THEOREM CreditsAlwaysFollow ==
    ASSUME IsFiniteSet(Ids), IsFiniteSet(Addr)
    PROVE  Spec => []CreditsFollowResolutions
<1>1. BooksInv => CreditsFollowResolutions
  BY DEF BooksInv
<1> QED
  BY <1>1, InductiveBooks, PTL

-----------------------------------------------------------------------------
(* Nothing strands a principal.  NoStranding is about ENABLED; what follows is *)
(* its content in the guards of the exits, with the checked arithmetic of      *)
(* _resolve and the solvency assertion in them.                                *)

RefundDue(e) == InPhase(e, "FUNDED") /\ escrow[e].deliveryHash = NoHash
                /\ now > escrow[e].deliveryDeadline
ReviewOver(e) == InPhase(e, "FUNDED") /\ escrow[e].deliveryHash # NoHash
                 /\ now >= escrow[e].deliveryDeadline + REVIEW_PERIOD
InitialRulingDue(e) == InPhase(e, "INITIAL_RULING")
                       /\ now >= dispute[e].initialRulingAt + CHALLENGE_PERIOD
FinalRulingDue(e) == InPhase(e, "FINAL_RULING")
                     /\ now >= dispute[e].finalRulingAt + FINAL_RULING_NOTICE_PERIOD
SplitDue(e) == Exists(e) /\ escrow[e].phase \in {"DISPUTED", "CHALLENGED"}
               /\ now >= StallDeadline(e)

ResolveFits(e) == totalUnresolvedPrincipal >= escrow[e].amount /\ Solvent

ExitDue(e) ==
    /\ RefundDue(e) \/ ReviewOver(e) \/ InitialRulingDue(e) \/ FinalRulingDue(e) \/ SplitDue(e)
    /\ ResolveFits(e)

NothingStrands ==
    \A e \in Ids :
        \/ InPhase(e, "FUNDED") /\ now >= escrow[e].deliveryDeadline + REVIEW_PERIOD
        \/ /\ Exists(e) /\ escrow[e].phase \notin {"FUNDED", "RESOLVED"}
           /\ now >= dispute[e].raisedAt + LongestDispute
        => ExitDue(e)

(* the assignments of _resolve, without its guards *)
ResolveAssigns(e, bps, kind, h) ==
    LET x == escrow[e]
        s == Shares(x.amount, bps)
    IN  /\ escrow' = [escrow EXCEPT ![e] =
              [@ EXCEPT !.phase = "RESOLVED", !.resolutionKind = kind]]
        /\ totalUnresolvedPrincipal' = totalUnresolvedPrincipal - x.amount
        /\ totalClaimable' = totalClaimable + x.amount
        /\ claimable' = [a \in Addr |-> claimable[a] + ShareOf(a, x, s)]
        /\ settlement' = [settlement EXCEPT ![e] = NoSettlement]
        /\ resolved' = [resolved EXCEPT ![e] =
              [clientAmount |-> s.clientAmount, developerAmount |-> s.developerAmount,
               platformFee |-> s.platformFee, decisionHash |-> h, at |-> now]]
        /\ UNCHANGED <<now, dispute, balance, paid, roleVars>>

(* when the principal fits, _resolve has no other guard than the phase *)
LEMMA ResolveIsAssigns ==
    ASSUME TypeOK, NEW e \in Ids, ResolveFits(e), escrow[e].phase # "RESOLVED",
           NEW bps, NEW kind, NEW h
    PROVE  Resolve(e, bps, kind, h) <=> ResolveAssigns(e, bps, kind, h)
<1>1. Resolve(e, bps, kind, h) => ResolveAssigns(e, bps, kind, h)
  BY Zenon DEF Resolve, ResolveAssigns
<1>2. ASSUME ResolveAssigns(e, bps, kind, h)
      PROVE  Resolve(e, bps, kind, h)
  <2>1. /\ totalUnresolvedPrincipal \in Nat /\ totalClaimable \in Nat /\ balance \in Nat
        /\ escrow[e].amount \in Nat
    BY SMT DEF TypeOK, EscrowType
  <2>2. /\ totalUnresolvedPrincipal' = totalUnresolvedPrincipal - escrow[e].amount
        /\ totalClaimable' = totalClaimable + escrow[e].amount /\ balance' = balance
    BY <1>2, Zenon DEF ResolveAssigns
  <2>3. totalUnresolvedPrincipal >= escrow[e].amount
        /\ balance >= totalUnresolvedPrincipal + totalClaimable
    BY DEF ResolveFits, Solvent
  <2>4. balance' >= totalUnresolvedPrincipal' + totalClaimable'
    BY <2>1, <2>2, <2>3
  <2> QED
    BY <1>2, <2>3, <2>4, Zenon DEF ResolveAssigns, Resolve, Solvent
<1> QED
  BY <1>1, <1>2

(* an open exit has no other guard: its assignments are a step of the contract *)
LEMMA OpenExitsResolve ==
    ASSUME TypeOK, NEW e \in Ids, ResolveFits(e)
    PROVE  /\ RefundDue(e) /\ ResolveAssigns(e, MAX_BPS, "MISSED_DELIVERY_REFUND", NoHash)
                 => ClaimMissedDeliveryRefund(e)
           /\ ReviewOver(e) /\ ResolveAssigns(e, 0, "REVIEW_TIMEOUT", NoHash)
                 => ClaimReviewTimeout(e)
           /\ /\ InitialRulingDue(e)
              /\ ResolveAssigns(e, dispute[e].initialClientBps, "RULING",
                                dispute[e].initialDecisionHash)
              => FinalizeInitialRuling(e)
           /\ /\ FinalRulingDue(e)
              /\ ResolveAssigns(e, dispute[e].finalClientBps, "RULING",
                                dispute[e].finalDecisionHash)
              => FinalizeFinalRuling(e)
           /\ SplitDue(e) /\ ResolveAssigns(e, MAX_BPS \div 2, "ARBITER_TIMEOUT_SPLIT", NoHash)
                 => FinalizeArbiterTimeoutSplit(e)
<1>1. \A bps, kind, h : escrow[e].phase # "RESOLVED" /\ ResolveAssigns(e, bps, kind, h)
                            => Resolve(e, bps, kind, h)
  BY ResolveIsAssigns
<1>2. /\ RefundDue(e) => escrow[e].phase # "RESOLVED"
      /\ ReviewOver(e) => escrow[e].phase # "RESOLVED"
      /\ InitialRulingDue(e) => escrow[e].phase # "RESOLVED"
      /\ FinalRulingDue(e) => escrow[e].phase # "RESOLVED"
      /\ SplitDue(e) => escrow[e].phase # "RESOLVED"
  BY DEF RefundDue, ReviewOver, InitialRulingDue, FinalRulingDue, SplitDue, InPhase
<1>3. RefundDue(e) /\ ResolveAssigns(e, MAX_BPS, "MISSED_DELIVERY_REFUND", NoHash)
        => ClaimMissedDeliveryRefund(e)
  BY <1>1, <1>2, Zenon DEF RefundDue, ClaimMissedDeliveryRefund
<1>4. ReviewOver(e) /\ ResolveAssigns(e, 0, "REVIEW_TIMEOUT", NoHash) => ClaimReviewTimeout(e)
  BY <1>1, <1>2, Zenon DEF ReviewOver, ClaimReviewTimeout
<1>5. /\ InitialRulingDue(e)
      /\ ResolveAssigns(e, dispute[e].initialClientBps, "RULING", dispute[e].initialDecisionHash)
      => FinalizeInitialRuling(e)
  BY <1>1, <1>2, Zenon DEF InitialRulingDue, FinalizeInitialRuling
<1>6. /\ FinalRulingDue(e)
      /\ ResolveAssigns(e, dispute[e].finalClientBps, "RULING", dispute[e].finalDecisionHash)
      => FinalizeFinalRuling(e)
  BY <1>1, <1>2, Zenon DEF FinalRulingDue, FinalizeFinalRuling
<1>7. SplitDue(e) /\ ResolveAssigns(e, MAX_BPS \div 2, "ARBITER_TIMEOUT_SPLIT", NoHash)
        => FinalizeArbiterTimeoutSplit(e)
  BY <1>1, <1>2, Zenon DEF SplitDue, FinalizeArbiterTimeoutSplit
<1> QED
  BY <1>3, <1>4, <1>5, <1>6, <1>7

(* an unresolved principal is part of the total, so subtracting it is safe *)
LEMMA PrincipalInTotal ==
    ASSUME IsFiniteSet(Ids), BooksInv, NEW e \in Ids, escrow[e].phase # "RESOLVED"
    PROVE  ResolveFits(e)
<1>1. /\ Inv /\ TotalsMatch /\ escrow[e].amount \in Nat
      /\ totalUnresolvedPrincipal \in Nat /\ totalClaimable \in Nat
  BY SMT DEF BooksInv, Inv, TypeOK, EscrowType
<1>2. \A i \in Ids : Held[i] \in Nat
  BY <1>1, BookTypes
<1>3. Total(Held, Ids) = Held[e] + Total(Held, Ids \ {e}) /\ Total(Held, Ids \ {e}) \in Nat
  BY <1>2, TotalRemove
<1>4. Held[e] = escrow[e].amount /\ totalUnresolvedPrincipal = Total(Held, Ids)
  BY <1>1 DEF Held, TotalsMatch
<1>5. totalUnresolvedPrincipal >= escrow[e].amount
  BY <1>1, <1>3, <1>4
<1>6. balance >= totalUnresolvedPrincipal + totalClaimable
  BY <1>1 DEF Inv, FullyBacked
<1> QED
  BY <1>5, <1>6 DEF ResolveFits, Solvent

(* past the longest course of a dispute one of the exits open to anyone is due *)
LEMMA LongDisputeExits ==
    ASSUME Inv, Course, NEW e \in Ids, Exists(e), escrow[e].phase \notin {"FUNDED", "RESOLVED"},
           now >= dispute[e].raisedAt + LongestDispute
    PROVE  InitialRulingDue(e) \/ FinalRulingDue(e) \/ SplitDue(e)
<1>1. /\ now \in Nat /\ dispute[e].raisedAt \in Nat /\ dispute[e].initialRulingAt \in Nat
      /\ dispute[e].challengedAt \in Nat /\ dispute[e].finalRulingAt \in Nat
      /\ escrow[e].phase \in Phase /\ escrow[e].phase # "NONE"
  BY SMT DEF Inv, TypeOK, EscrowType, DisputeType, PhaseMarksExistence
<1>2. /\ CHALLENGE_PERIOD \in Nat /\ FINAL_RULING_NOTICE_PERIOD \in Nat
      /\ ARBITER_STALL_PERIOD \in Nat
  BY Periods
<1>3. now >= dispute[e].raisedAt + (2 * ARBITER_STALL_PERIOD + CHALLENGE_PERIOD
                                    + FINAL_RULING_NOTICE_PERIOD)
  BY DEF LongestDispute
<1>4. Stage(escrow[e], dispute[e], now)
  BY DEF Course
<1>5. CASE escrow[e].phase = "DISPUTED"
  BY <1>1, <1>2, <1>3, <1>5, SMT DEF SplitDue, StallDeadline
<1>6. CASE escrow[e].phase = "INITIAL_RULING"
  <2>1. dispute[e].initialRulingAt < dispute[e].raisedAt + ARBITER_STALL_PERIOD
    BY <1>4, <1>6 DEF Stage, Ruled
  <2> QED
    BY <1>1, <1>2, <1>3, <1>6, <2>1, SMT DEF InitialRulingDue, InPhase
<1>7. CASE escrow[e].phase = "CHALLENGED"
  <2>1. /\ dispute[e].initialRulingAt < dispute[e].raisedAt + ARBITER_STALL_PERIOD
        /\ dispute[e].challengedAt < dispute[e].initialRulingAt + CHALLENGE_PERIOD
    BY <1>4, <1>7 DEF Stage, Ruled, Challenged
  <2> QED
    BY <1>1, <1>2, <1>3, <1>7, <2>1, SMT DEF SplitDue, StallDeadline
<1>8. CASE escrow[e].phase = "FINAL_RULING"
  <2>1. /\ dispute[e].initialRulingAt < dispute[e].raisedAt + ARBITER_STALL_PERIOD
        /\ dispute[e].challengedAt < dispute[e].initialRulingAt + CHALLENGE_PERIOD
        /\ dispute[e].finalRulingAt < dispute[e].challengedAt + ARBITER_STALL_PERIOD
    BY <1>4, <1>8 DEF Stage, Ruled, Challenged, FinallyRuled
  <2> QED
    BY <1>1, <1>2, <1>3, <1>8, <2>1, SMT DEF FinalRulingDue, InPhase
<1> QED
  BY <1>1, <1>5, <1>6, <1>7, <1>8 DEF Phase

(* Once a bounty is past its review period, or a dispute past the longest      *)
(* course it can take, an exit anyone may call is open, and neither the        *)
(* subtraction nor the solvency check of _resolve can hold it up.              *)
THEOREM NothingEverStrands ==
    ASSUME IsFiniteSet(Ids), IsFiniteSet(Addr)
    PROVE  Spec => []NothingStrands
<1>1. BooksInv /\ Course => NothingStrands
  <2> SUFFICES ASSUME BooksInv, Course, NEW e \in Ids,
                      \/ InPhase(e, "FUNDED")
                         /\ now >= escrow[e].deliveryDeadline + REVIEW_PERIOD
                      \/ /\ Exists(e) /\ escrow[e].phase \notin {"FUNDED", "RESOLVED"}
                         /\ now >= dispute[e].raisedAt + LongestDispute
               PROVE  ExitDue(e)
    BY DEF NothingStrands
  <2>0. Inv
    BY DEF BooksInv
  <2>1. escrow[e].phase # "RESOLVED"
    BY DEF InPhase
  <2>2. ResolveFits(e)
    BY <2>1, PrincipalInTotal
  <2>3. CASE InPhase(e, "FUNDED") /\ now >= escrow[e].deliveryDeadline + REVIEW_PERIOD
    <3>1. now \in Nat /\ escrow[e].deliveryDeadline \in Nat
      BY <2>0, SMT DEF Inv, TypeOK, EscrowType
    <3>2. REVIEW_PERIOD \in Nat /\ REVIEW_PERIOD > 0
      BY EscrowAssumption, SMT
    <3>3. now > escrow[e].deliveryDeadline
      BY <2>3, <3>1, <3>2
    <3> QED
      BY <2>2, <2>3, <3>3 DEF ExitDue, RefundDue, ReviewOver
  <2>4. CASE Exists(e) /\ escrow[e].phase \notin {"FUNDED", "RESOLVED"}
             /\ now >= dispute[e].raisedAt + LongestDispute
    BY <2>0, <2>2, <2>4, LongDisputeExits DEF ExitDue
  <2> QED
    BY <2>3, <2>4
<1>2. Init => Course
  <2> SUFFICES ASSUME Init PROVE Course
    OBVIOUS
  <2>1. \A e \in Ids : escrow[e].phase = "NONE" /\ dispute[e] = NoDispute
    BY DEF Init, EscrowInit, NoEscrow
  <2> QED
    BY <2>1, Zenon DEF Course, Stage
<1>3. Inv /\ Course /\ [Next]_vars => Course'
  BY CourseStep
<1> QED
  BY <1>1, <1>2, <1>3, AlwaysInv, InductiveBooks, PTL DEF Spec

=============================================================================
