------------------------------- MODULE Disputes -------------------------------
(***************************************************************************)
(* The rows the indexer keeps about one funded escrow until the end of it:   *)
(* settlement proposals, the dispute, its rulings and evidence, the issue's   *)
(* outcome and the balances.  Every event of the escrow is applied with a     *)
(* snapshot for its undo; a reorganisation undoes the events of the lost      *)
(* blocks, latest first, in one transaction that fails as a whole.            *)
(*                                                                         *)
(* Shares are the client's, of a principal of Whole units; the fee is in      *)
(* EscrowMirror.  An event's position stands for its transaction: the one     *)
(* that takes a lost event's place may well be the same transaction.          *)
(***************************************************************************)
EXTENDS Integers, Sequences, FiniteSets

CONSTANTS
    Whole,          \* the principal, in units
    Shares,         \* client's shares proposed or ruled
    Manifests,      \* evidence manifests, by their hashes
    MaxEvents,      \* bound on the events of the escrow
    SavesApart      \* no manifest is saved while an event is projected

ASSUME DisputesAssumption ==
    /\ Whole \in Nat \ {0}
    /\ Shares \subseteq 0..Whole
    /\ "none" \notin Manifests
    /\ MaxEvents \in Nat
    /\ SavesApart \in BOOLEAN

VARIABLES
    rows,       \* issues, disputes, settlement_proposals, ruling_records, claimable_balances
    evidence,   \* evidence_manifests by hash: not saved, saved, or attached to an event
    projection, \* escrow_projections: phase, and the payout columns
    projected,  \* canonical rows of chain_events with the snapshot for the undo
    onChain     \* how many of them are still on the node's chain

dbVars == <<rows, evidence, projection, projected>>
vars == <<rows, evidence, projection, projected, onChain>>

Parties == {"client", "developer"}
None == "none"
Unset == -1
Stuck == [stuck |-> TRUE]     \* an undo function threw

Paid(share) == [p \in Parties |-> IF p = "client" THEN share ELSE Whole - share]

-----------------------------------------------------------------------------
(* External: what the contract lets happen after the events es               *)

PhaseAfter == [raised |-> "DISPUTED", initial |-> "INITIAL_RULING", challenged |-> "CHALLENGED",
               final |-> "FINAL_RULING", resolved |-> "RESOLVED"]

Resolutions == {"RELEASE", "SETTLEMENT", "RULING", "ARBITER_TIMEOUT_SPLIT"}
Kind(e) == IF e.kind \in Resolutions THEN "resolved" ELSE e.kind

Last(ns) == CHOOSE n \in ns : \A m \in ns : m <= n

Of(es, kinds) == {n \in DOMAIN es : Kind(es[n]) \in kinds}

Phase(es) == IF Of(es, DOMAIN PhaseAfter) = {} THEN "FUNDED"
             ELSE PhaseAfter[Kind(es[Last(Of(es, DOMAIN PhaseAfter))])]

(* the open proposal, as a set of at most one event *)
Open(es) == {n \in Of(es, {"proposed"}) : \A m \in Of(es, {"revoked", "resolved"}) : m < n}

Raiser(es) == es[Last(Of(es, {"raised"}))].by
RuledShare(es) == es[Last(Of(es, {"initial", "final"}))].share

Resolvable(es, e) ==
    LET phase == Phase(es) IN
    CASE e.kind = "RELEASE" -> phase = "FUNDED" /\ e.share = 0
      [] e.kind = "SETTLEMENT" -> \E n \in Open(es) : e.share = es[n].share /\ e.by # es[n].by
      [] e.kind = "RULING" -> phase \in {"INITIAL_RULING", "FINAL_RULING"} /\ e.share = RuledShare(es)
      [] e.kind = "ARBITER_TIMEOUT_SPLIT" ->
            phase \in {"DISPUTED", "CHALLENGED"} /\ e.share = Whole \div 2

Claimable(es, p) ==
    IF Of(es, {"resolved"}) = {} \/ \E n \in Of(es, {"claimed"}) : es[n].by = p THEN 0
    ELSE Paid(es[Last(Of(es, {"resolved"}))].share)[p]

MayFollow(es, e) ==
    LET phase == Phase(es) IN
    CASE e.kind = "proposed" -> phase # "RESOLVED" /\ Open(es) = {}
      [] e.kind = "revoked" -> phase # "RESOLVED" /\ \E n \in Open(es) : es[n].by = e.by
      [] e.kind = "raised" -> phase = "FUNDED"
      [] e.kind = "evidence" -> phase = "DISPUTED" /\ e.by # Raiser(es) /\ Of(es, {"evidence"}) = {}
      [] e.kind = "initial" -> phase = "DISPUTED"
      [] e.kind = "challenged" -> phase = "INITIAL_RULING" /\ Paid(RuledShare(es))[e.by] < Whole
      [] e.kind = "final" -> phase = "CHALLENGED"
      [] e.kind = "claimed" -> Claimable(es, e.by) > 0 /\ e.share = Claimable(es, e.by)
      [] OTHER -> phase # "RESOLVED" /\ Resolvable(es, e)

Kinds == {"proposed", "initial", "final", "revoked", "raised", "evidence", "challenged", "claimed"}
         \cup Resolutions

(* fields that do not matter for a kind are fixed; the hash of evidence given  *)
(* outside the application is that of no manifest                              *)
Events ==
    {e \in [kind : Kinds, by : Parties, share : 0..Whole, hash : Manifests \cup {None}] :
        /\ e.kind \in {"proposed", "initial", "final"} => e.share \in Shares
        /\ e.kind \in {"revoked", "raised", "evidence", "challenged"} => e.share = 0
        /\ e.kind \in {"initial", "final", "RELEASE", "RULING", "ARBITER_TIMEOUT_SPLIT"} => e.by = "client"
        /\ e.hash # None => e.kind \in {"raised", "evidence"}}

(* what the chain has beyond the events projected is chosen when it is projected *)
Reorganise(n) ==
    /\ n < onChain
    /\ onChain' = n
    /\ UNCHANGED dbVars

-----------------------------------------------------------------------------
(* applyDispute, applySettlement, applyResolved, applyClaimed                 *)

NoDispute == [status |-> None, phase |-> None, raisedBy |-> None, counterEvidence |-> FALSE,
              proposedShare |-> Unset, challengedBy |-> None, finalShare |-> Unset]

Pending(r) == {n \in DOMAIN r.proposals : r.proposals[n].status = "PENDING"}

(* rulingRecord.findFirst by decision hash, the latest posted *)
LatestRuling(r) == CHOOSE x \in r.rulings : \A y \in r.rulings : y.event <= x.event

(* the throws of the effect of e *)
Accepts(r, e) ==
    CASE e.kind = "proposed" -> Pending(r) = {}
      [] e.kind = "revoked" -> \E n \in Pending(r) : r.proposals[n].by = e.by
      [] e.kind = "raised" -> TRUE
      [] e.kind \in {"evidence", "initial", "challenged", "final"} -> r.dispute # NoDispute
      [] e.kind = "claimed" -> r.balance[e.by] = e.share
      [] OTHER -> /\ r.issue.status \in {"IN_PROGRESS", "DISPUTED"}
                  /\ e.kind = "SETTLEMENT" => Pending(r) # {}

WithDispute(r, fields) ==
    [r EXCEPT !.dispute = [f \in DOMAIN NoDispute |->
        IF f \in DOMAIN fields THEN fields[f] ELSE r.dispute[f]]]

ApplyDispute(r, e, id) ==
    CASE e.kind = "raised" ->
            [WithDispute(r, [status |-> "OPEN", phase |-> "DISPUTED", raisedBy |-> e.by])
                EXCEPT !.issue.status = "DISPUTED"]
      [] e.kind = "evidence" -> WithDispute(r, [counterEvidence |-> TRUE])
      [] e.kind = "challenged" ->
            WithDispute(r, [status |-> "CHALLENGED", phase |-> "CHALLENGED", challengedBy |-> e.by])
      [] e.kind = "initial" ->
            [WithDispute(r, [status |-> "PROPOSED", phase |-> "INITIAL_RULING", proposedShare |-> e.share])
                EXCEPT !.rulings = @ \cup {[event |-> id, kind |-> "INITIAL", share |-> e.share]}]
      [] e.kind = "final" ->
            [WithDispute(r, [status |-> "FINAL_RULING", phase |-> "FINAL_RULING", finalShare |-> e.share])
                EXCEPT !.rulings = @ \cup {[event |-> id, kind |-> "FINAL", share |-> e.share]}]

CloseProposal(r, status, id) ==
    [r EXCEPT !.proposals = [n \in DOMAIN @ |-> IF n \in Pending(r)
                                THEN [@[n] EXCEPT !.status = status, !.closed = id] ELSE @[n]]]

ApplySettlement(r, e, id) ==
    IF e.kind = "proposed"
    THEN [r EXCEPT !.proposals = Append(@, [by |-> e.by, status |-> "PENDING", opened |-> id, closed |-> 0])]
    ELSE CloseProposal(r, "REVOKED", id)

DisputeEnds(e) == e.kind \in {"RULING", "ARBITER_TIMEOUT_SPLIT"}

FinalShare(r, e) == IF e.kind = "RULING" THEN LatestRuling(r).share ELSE Whole \div 2

ApplyResolved(r, e, id) ==
    LET closed == CloseProposal(r, IF e.kind = "SETTLEMENT" THEN "ACCEPTED" ELSE "VOIDED", id)
        done == [closed EXCEPT !.issue = [status |-> "COMPLETED", outcome |-> e.kind],
                               !.balance = [p \in Parties |-> @[p] + Paid(e.share)[p]]]
    IN  IF DisputeEnds(e) /\ r.dispute # NoDispute
        THEN WithDispute(done, [status |-> "RESOLVED", phase |-> "RESOLVED", finalShare |-> FinalShare(r, e)])
        ELSE done

Apply(r, e, id) ==
    CASE e.kind \in {"proposed", "revoked"} -> ApplySettlement(r, e, id)
      [] e.kind = "claimed" -> [r EXCEPT !.balance[e.by] = 0]
      [] e.kind \in Resolutions -> ApplyResolved(r, e, id)
      [] OTHER -> ApplyDispute(r, e, id)

(* the manifest with the hash of the event, if the application has saved one *)
Carried(manifests, e) == IF e.hash \in Manifests THEN manifests[e.hash] ELSE Unset

(* it is attached, whoever saved it and whatever it was attached to *)
Attach(manifests, e, id) ==
    IF Carried(manifests, e) = Unset THEN manifests ELSE [manifests EXCEPT ![e.hash] = id]

-----------------------------------------------------------------------------
(* undoDispute, undoSettlement, undoResolved, undoClaimed, with their throws; *)
(* a snapshot is the rows as they were, of which each puts back what it names *)

UndoDispute(r, was, id) ==
    IF r.issue.status \notin {was.issue.status, "DISPUTED"} THEN Stuck
    ELSE [r EXCEPT !.dispute = was.dispute, !.issue.status = was.issue.status,
                   !.rulings = {x \in @ : x.event # id}]

Reopened(r, n, statuses, id) ==
    IF r.proposals[n].closed = id /\ r.proposals[n].status \in statuses
    THEN [r EXCEPT !.proposals[n].status = "PENDING", !.proposals[n].closed = 0]
    ELSE Stuck

UndoSettlement(r, was, id) ==
    IF Pending(was) # {} THEN Reopened(r, CHOOSE n \in Pending(was) : TRUE, {"REVOKED"}, id)
    ELSE LET mine == {n \in Pending(r) : r.proposals[n].opened = id}
         IN  IF mine = {} THEN Stuck
             ELSE [r EXCEPT !.proposals = SubSeq(@, 1, Len(@) - 1)]

(* Mutant: the proposal that the resolution closed stays closed *)
UndoProposalClosed(r, was, id) == r

UndoProposal(r, was, id) ==
    IF Pending(was) = {} THEN r
    ELSE Reopened(r, CHOOSE n \in Pending(was) : TRUE, {"ACCEPTED", "VOIDED"}, id)

Debit(r, e) == [r EXCEPT !.balance = [p \in Parties |-> @[p] - Paid(e.share)[p]]]

UndoResolved(r, was, e, id) ==
    IF r.issue # [status |-> "COMPLETED", outcome |-> e.kind] THEN Stuck
    ELSE LET open == UndoProposal([r EXCEPT !.issue = was.issue], was, id)
         IN  IF open = Stuck THEN Stuck
             ELSE IF \E p \in Parties : open.balance[p] < Paid(e.share)[p] THEN Stuck
             ELSE IF DisputeEnds(e) THEN UndoDispute(Debit(open, e), was, id) ELSE Debit(open, e)

(* Mutant: a payment taken back is not credited again *)
UndoClaimedForgotten(r, e) == r

UndoClaimed(r, e) == [r EXCEPT !.balance[e.by] = @ + e.share]

Undo(r, n) ==
    LET e == projected[n].event
        was == projected[n].was
    IN  IF r = Stuck THEN Stuck
        ELSE CASE e.kind \in {"proposed", "revoked"} -> UndoSettlement(r, was, n)
               [] e.kind = "claimed" -> UndoClaimed(r, e)
               [] e.kind \in Resolutions -> UndoResolved(r, was, e, n)
               [] OTHER -> UndoDispute(r, was, n)

(* the rows once all projections but the first n are undone, latest first *)
Rewound(n) ==
    LET after[k \in n..Len(projected)] ==
            IF k = Len(projected) THEN rows ELSE Undo(after[k + 1], k + 1)
    IN  after[n]

(* Mutant: a manifest is taken from the event, not given back to an earlier one *)
DetachedFromAll(attached, n) ==
    [h \in Manifests |-> IF attached[h] = n THEN 0 ELSE attached[h]]

(* undoDispute: a manifest that hangs on the event, and that the snapshot knows, *)
(* hangs where it did before.  Of the manifests in the snapshot only the one the *)
(* event carried can hang on it, and is kept                                     *)
Detached(attached, n) ==
    [h \in Manifests |-> IF attached[h] = n /\ projected[n].carried # Unset
                         THEN projected[n].carried ELSE attached[h]]

(* the manifests likewise; they hang on no events but those undoDispute undoes *)
RewoundEvidence(n) ==
    LET after[k \in n..Len(projected)] ==
            IF k = Len(projected) THEN evidence ELSE Detached(after[k + 1], k + 1)
    IN  after[n]

-----------------------------------------------------------------------------
(* The indexer *)

UpToDate == onChain = Len(projected)
History == [n \in DOMAIN projected |-> projected[n].event]

(* projectionFields: the payout columns are written only with a resolution *)
Fields(es, payout) ==
    [phase |-> Phase(es),
     payout |-> IF es # <<>> /\ es[Len(es)].kind \in Resolutions THEN es[Len(es)].share ELSE payout]

(* createEvidenceManifest saves h once its file is stored; it took no lock, and  *)
(* assertEvidenceWindow passed at any time before: every escrow begins FUNDED,   *)
(* where both parties pass.  A manifest that has been saved is left as it is     *)
Saved(h) == IF evidence[h] = Unset THEN [evidence EXCEPT ![h] = 0] ELSE evidence

(* captureDisputeUndo reads the manifests and attach, in a later statement,      *)
(* writes them; one of them may be saved in between                              *)
Attached(e, id) ==
    {Attach(evidence, e, id)} \cup
        (IF SavesApart THEN {} ELSE {Attach(Saved(h), e, id) : h \in Manifests})

ProjectEvent(e) ==
    /\ UpToDate /\ onChain < MaxEvents
    /\ MayFollow(History, e)
    /\ Accepts(rows, e)
    /\ rows' = Apply(rows, e, onChain + 1)
    /\ evidence' \in Attached(e, onChain + 1)
    /\ projected' = Append(projected, [event |-> e, was |-> rows, carried |-> Carried(evidence, e)])
    /\ projection' = IF e.kind = "claimed" THEN projection
                     ELSE Fields(Append(History, e), projection.payout)
    /\ onChain' = onChain + 1

(* handleReorg; a Claimed log names no escrow and rebuilds none *)
HandleReorg ==
    /\ ~UpToDate
    /\ LET undone == Rewound(onChain)
       IN  undone # Stuck /\ rows' = undone
    /\ evidence' = RewoundEvidence(onChain)
    /\ projected' = SubSeq(projected, 1, onChain)
    /\ projection' = IF \A n \in (onChain + 1)..Len(projected) : projected[n].event.kind = "claimed"
                     THEN projection
                     ELSE Fields(SubSeq(History, 1, onChain), projection.payout)
    /\ UNCHANGED onChain

CreateEvidenceManifest(h) ==
    /\ evidence[h] = Unset
    /\ evidence' = Saved(h)
    /\ UNCHANGED <<rows, projection, projected, onChain>>

-----------------------------------------------------------------------------

NewRows ==
    [issue |-> [status |-> "IN_PROGRESS", outcome |-> None], dispute |-> NoDispute,
     proposals |-> <<>>, rulings |-> {}, balance |-> [p \in Parties |-> 0]]

Init ==
    /\ rows = NewRows
    /\ evidence = [h \in Manifests |-> Unset]
    /\ projection = [phase |-> "FUNDED", payout |-> Unset]
    /\ projected = <<>> /\ onChain = 0

Next ==
    \/ \E n \in 0..MaxEvents : Reorganise(n)
    \/ \E e \in Events : ProjectEvent(e)
    \/ HandleReorg
    \/ \E h \in Manifests : CreateEvidenceManifest(h)

Spec == Init /\ [][Next]_vars

-----------------------------------------------------------------------------

Phases == {"FUNDED", "DISPUTED", "INITIAL_RULING", "CHALLENGED", "FINAL_RULING", "RESOLVED"}

TypeOK ==
    /\ rows.issue.status \in {"IN_PROGRESS", "DISPUTED", "COMPLETED"}
    /\ DOMAIN rows.dispute = DOMAIN NoDispute
    /\ \A p \in Parties : rows.balance[p] \in 0..Whole
    /\ Cardinality(Pending(rows)) <= 1
    /\ \A h \in Manifests : evidence[h] \in Unset..MaxEvents
    /\ projection.phase \in Phases
    /\ onChain \in 0..Len(projected)

(* the rows of an indexer that only ever saw the canonical events *)
RowsOf(es) ==
    LET after[n \in 0..Len(es)] == IF n = 0 THEN NewRows ELSE Apply(after[n - 1], es[n], n)
    IN  after[Len(es)]

(* Whatever was projected and taken back before, the rows are those of the     *)
(* canonical events alone: every undo puts back all its effect changed, also   *)
(* a proposal that a resolution closed and a balance that was paid out.        *)
RowsFollowEvents == rows = RowsOf(History)

(* No course of the contract and no reorganisation of it makes an effect or an *)
(* undo throw, which would stop the indexer for all escrows.                   *)
NeverStuck ==
    IF UpToDate THEN \A e \in Events : ~Accepts(rows, e) => ~MayFollow(History, e)
    ELSE Rewound(onChain) # Stuck

(* the canonical events that carry the hash h and found its manifest saved *)
Carriers(h) ==
    {n \in DOMAIN projected : projected[n].event.hash = h /\ projected[n].carried # Unset}

(* What the dispute shows as the final share is what the contract divided by,  *)
(* and a saved manifest hangs on the last canonical event that carries its     *)
(* hash and found it saved, also when a later carrier was taken back; on none  *)
(* if there is none (attach, undoDispute).                                     *)
ShownAsDecided ==
    /\ rows.dispute.status = "RESOLVED" => rows.dispute.finalShare = History[Last(Of(History, {"resolved"}))].share
    /\ \A h \in Manifests : evidence[h] # Unset =>
          evidence[h] = IF Carriers(h) = {} THEN 0 ELSE Last(Carriers(h))

(* A manifest is attached to no event but one that stands and carries its hash. *)
AttachedToStanding ==
    \A h \in Manifests : evidence[h] \notin {Unset, 0} =>
        evidence[h] \in DOMAIN projected /\ projected[evidence[h]].event.hash = h

(* "RESOLVED // Resolution executed on-chain" (schema.prisma:88): a dispute    *)
(* whose escrow was resolved is resolved.                                      *)
DisputeResolvedOnChain ==
    rows.dispute # NoDispute /\ Phase(History) = "RESOLVED" => rows.dispute.status = "RESOLVED"

(* "Rebuild affected projections from canonical history" (replay.ts:5): an     *)
(* escrow whose resolution was reorganised away shows no payout.               *)
ProjectionFollowsEvents ==
    projection.phase # "RESOLVED" => projection.payout = Unset

=============================================================================
