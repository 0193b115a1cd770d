---------------------------- MODULE DisputesProofs ----------------------------
(***************************************************************************)
(* What holds of the rows kept about an escrow for any course of its events  *)
(* and any reorganisations: an undo gives back exactly the rows its snapshot *)
(* was taken of, so the rows are those of the canonical events; and the rows *)
(* know of the contract what the effects check, so that none of them throws. *)
(***************************************************************************)
EXTENDS Disputes, TLAPS, WellFoundedInduction, FiniteSetTheorems

EventKinds == {"proposed", "revoked", "raised", "evidence", "initial", "challenged", "final",
               "claimed", "resolved"}

Proposals == [by : Parties, status : {"PENDING", "REVOKED", "ACCEPTED", "VOIDED"},
              opened : Nat, closed : Nat]

(* the tables have the columns the model gives them *)
Shaped(r) ==
    /\ r = [issue |-> r.issue, dispute |-> r.dispute, proposals |-> r.proposals,
            rulings |-> r.rulings, balance |-> r.balance]
    /\ r.issue = [status |-> r.issue.status, outcome |-> r.issue.outcome]
    /\ r.issue.status \in {"IN_PROGRESS", "DISPUTED", "COMPLETED"}
    /\ r.proposals \in Seq(Proposals)
    /\ r.balance \in [Parties -> Nat]
    /\ DOMAIN r.dispute = DOMAIN NoDispute

(* the latest event of given kinds is one of them *)
LastExists(es) ==
    \A kinds \in SUBSET EventKinds : Of(es, kinds) # {} =>
        Last(Of(es, kinds)) \in Of(es, kinds) /\ \A n \in Of(es, kinds) : n <= Last(Of(es, kinds))

(* the contract resolves once, and pays after that *)
ResolvedOnce(es) ==
    /\ Of(es, {"resolved"}) = {} <=> Phase(es) # "RESOLVED"
    /\ Of(es, {"resolved"}) = {} => Of(es, {"claimed"}) = {}
    /\ Phase(es) \in {"INITIAL_RULING", "FINAL_RULING"} => Of(es, {"initial", "final"}) # {}
    /\ Phase(es) \in Phases

(* the pending proposal is the one open on the contract *)
ProposalsAgree(es, r) ==
    /\ \A n \in Pending(r) : /\ r.proposals[n].closed = 0
                             /\ r.proposals[n].opened \in Open(es)
                             /\ es[r.proposals[n].opened].by = r.proposals[n].by
    /\ \A k \in Open(es) : \E n \in Pending(r) : r.proposals[n].opened = k
    /\ \A m, n \in Pending(r) : m = n

RulingsAgree(es, r) ==
    /\ \A x \in r.rulings : x.event \in Of(es, {"initial", "final"}) /\ x.share = es[x.event].share
    /\ \A k \in Of(es, {"initial", "final"}) : \E x \in r.rulings : x.event = k

DisputeAgrees(es, r) ==
    /\ Phase(es) # "RESOLVED" => r.issue.status # "COMPLETED" /\ r.dispute.status # "RESOLVED"
    /\ Phase(es) \notin {"FUNDED", "RESOLVED"} => r.dispute.status # None
    /\ r.dispute.status = "RESOLVED" => r.dispute.finalShare = es[Last(Of(es, {"resolved"}))].share

BalancesAgree(es, r) == \A p \in Parties : r.balance[p] = Claimable(es, p)

(* what the rows r know of the events es they were written for *)
Agrees(es, r) == /\ Shaped(r) /\ LastExists(es) /\ ResolvedOnce(es) /\ ProposalsAgree(es, r)
                 /\ RulingsAgree(es, r) /\ DisputeAgrees(es, r) /\ BalancesAgree(es, r)

(* the first n events projected, and the rows they left *)
EventsTo(n) == [m \in 1..n |-> projected[m].event]
RowsAt(n) == IF n = Len(projected) THEN rows ELSE projected[n + 1].was

(* every snapshot holds the rows its event was applied to *)
Linked ==
    /\ RowsAt(0) = NewRows
    /\ \A n \in 1..Len(projected) :
        /\ Accepts(RowsAt(n - 1), projected[n].event)
        /\ RowsAt(n) = Apply(RowsAt(n - 1), projected[n].event, n)

(* among the events projected q, the n-th carries the manifest h, saved by then *)
Carries(q, n, h) == q[n].event.hash = h /\ q[n].carried # Unset

(* after the first n of them a saved manifest h hangs on the v-th; 0 is none *)
Hangs(q, n, h, v) ==
    /\ v \in 0..n
    /\ v # 0 => Carries(q, v, h)
    /\ \A m \in 1..n : Carries(q, m, h) => m <= v

(* so the manifests a do that are saved, and the others were never carried *)
Hung(q, n, a) ==
    /\ a \in [Manifests -> Unset..n]
    /\ \A h \in Manifests : IF a[h] = Unset THEN \A m \in 1..n : ~Carries(q, m, h)
                             ELSE Hangs(q, n, h, a[h])

(* what the snapshot of an event has of the manifest it carries is where that hung before *)
CarriedFrom(q, n) ==
    q[n].carried # Unset => q[n].event.hash \in Manifests /\ Hangs(q, n - 1, q[n].event.hash, q[n].carried)

EvidenceHangs ==
    SavesApart => /\ Hung(projected, Len(projected), evidence)
                  /\ \A n \in 1..Len(projected) : CarriedFrom(projected, n)

Recorded ==
    /\ projected = [n \in 1..Len(projected) |->
            [event |-> projected[n].event, was |-> projected[n].was, carried |-> projected[n].carried]]
    /\ \A n \in 1..Len(projected) : projected[n].event \in Events
    /\ Len(projected) \in 0..MaxEvents
    /\ onChain \in 0..Len(projected)

IInv == /\ Recorded /\ Linked /\ EvidenceHangs
        /\ projection.phase \in Phases
        /\ \A n \in 0..Len(projected) : Agrees(EventsTo(n), RowsAt(n))

-----------------------------------------------------------------------------
(* What each event writes, as a record of tables *)

(* the fields of a dispute after a change of some *)
Changed(r, fields) ==
    [f \in DOMAIN NoDispute |-> IF f \in DOMAIN fields THEN fields[f] ELSE r.dispute[f]]

Tables(i, d, p, x, b) == [issue |-> i, dispute |-> d, proposals |-> p, rulings |-> x, balance |-> b]

WithStatus(i, s) == [i EXCEPT !.status = s]

(* what undoDispute puts back *)
PutBack(a, d, s, x) == [a EXCEPT !.dispute = d, !.issue.status = s, !.rulings = x]

(* a change of the dispute is a change of nothing else *)
LEMMA WithDisputeTables ==
  ASSUME NEW r, Shaped(r), NEW fields
  PROVE  WithDispute(r, fields) = Tables(r.issue, Changed(r, fields), r.proposals, r.rulings, r.balance)
  <1>1. WithDispute(r, fields) = [r EXCEPT !.dispute = Changed(r, fields)]
    BY DEF WithDispute, Changed
  <1>2. r = Tables(r.issue, r.dispute, r.proposals, r.rulings, r.balance)
    BY DEF Tables, Shaped
  <1>3. ASSUME NEW i, NEW d, NEW p, NEW x, NEW b, NEW c, r = Tables(i, d, p, x, b)
        PROVE  [r EXCEPT !.dispute = c] = Tables(i, c, p, x, b)
    BY <1>3 DEF Tables
  <1> QED
    BY <1>1, <1>2, <1>3

IssueAfter(r, e) == IF e.kind = "raised" THEN [status |-> "DISPUTED", outcome |-> r.issue.outcome] ELSE r.issue

RulingsAfter(r, e, id) ==
    IF e.kind \in {"initial", "final"}
    THEN r.rulings \cup {[event |-> id, kind |-> IF e.kind = "initial" THEN "INITIAL" ELSE "FINAL", share |-> e.share]}
    ELSE r.rulings

(* the dispute's row after an event: only a resolution makes it RESOLVED *)
DisputeChanged(r, e, id, d) ==
    /\ ApplyDispute(r, e, id) = Tables(IssueAfter(r, e), d, r.proposals, RulingsAfter(r, e, id), r.balance)
    /\ DOMAIN d = DOMAIN NoDispute
    /\ e.kind = "evidence" => d.status = r.dispute.status
    /\ e.kind # "evidence" => d.status \notin {None, "RESOLVED"}

(* what raising a dispute, evidence, a ruling or a challenge changes *)
LEMMA DisputeTables ==
  ASSUME NEW r, Shaped(r), NEW e, NEW id,
         e.kind \in {"raised", "evidence", "initial", "challenged", "final"}
  PROVE  \E d : DisputeChanged(r, e, id, d)
  <1>1. CASE e.kind = "raised"
    <2> DEFINE fields == [status |-> "OPEN", phase |-> "DISPUTED", raisedBy |-> e.by]
    <2>1. ApplyDispute(r, e, id) = [WithDispute(r, fields) EXCEPT !.issue.status = "DISPUTED"]
      BY <1>1 DEF ApplyDispute
    <2>2. Changed(r, fields).status = "OPEN"
      BY DEF Changed, NoDispute
    <2> HIDE DEF fields
    <2>3. WithDispute(r, fields) = Tables(r.issue, Changed(r, fields), r.proposals, r.rulings, r.balance)
      BY WithDisputeTables
    <2>4. ApplyDispute(r, e, id)
            = Tables([status |-> "DISPUTED", outcome |-> r.issue.outcome], Changed(r, fields),
                     r.proposals, r.rulings, r.balance)
      BY <2>1, <2>3 DEF Tables, Shaped
    <2>5. IssueAfter(r, e) = [status |-> "DISPUTED", outcome |-> r.issue.outcome] /\ RulingsAfter(r, e, id) = r.rulings
      BY <1>1 DEF IssueAfter, RulingsAfter
    <2>6. DisputeChanged(r, e, id, Changed(r, fields))
      BY <1>1, <2>2, <2>4, <2>5 DEF None, DisputeChanged, Changed
    <2> QED
      BY <2>6
  <1>2. CASE e.kind = "evidence"
    <2> DEFINE fields == [counterEvidence |-> TRUE]
    <2>1. ApplyDispute(r, e, id) = WithDispute(r, fields)
      BY <1>2 DEF ApplyDispute
    <2>2. Changed(r, fields).status = r.dispute.status
      BY DEF Changed, NoDispute
    <2> HIDE DEF fields
    <2>3. WithDispute(r, fields) = Tables(r.issue, Changed(r, fields), r.proposals, r.rulings, r.balance)
      BY WithDisputeTables
    <2>4. IssueAfter(r, e) = r.issue /\ RulingsAfter(r, e, id) = r.rulings
      BY <1>2 DEF IssueAfter, RulingsAfter
    <2>5. DisputeChanged(r, e, id, Changed(r, fields))
      BY <1>2, <2>1, <2>2, <2>3, <2>4 DEF None, DisputeChanged, Changed
    <2> QED
      BY <2>5
  <1>3. CASE e.kind = "challenged"
    <2> DEFINE fields == [status |-> "CHALLENGED", phase |-> "CHALLENGED", challengedBy |-> e.by]
    <2>1. ApplyDispute(r, e, id) = WithDispute(r, fields)
      BY <1>3 DEF ApplyDispute
    <2>2. Changed(r, fields).status = "CHALLENGED"
      BY DEF Changed, NoDispute
    <2> HIDE DEF fields
    <2>3. WithDispute(r, fields) = Tables(r.issue, Changed(r, fields), r.proposals, r.rulings, r.balance)
      BY WithDisputeTables
    <2>4. IssueAfter(r, e) = r.issue /\ RulingsAfter(r, e, id) = r.rulings
      BY <1>3 DEF IssueAfter, RulingsAfter
    <2>5. DisputeChanged(r, e, id, Changed(r, fields))
      BY <1>3, <2>1, <2>2, <2>3, <2>4 DEF None, DisputeChanged, Changed
    <2> QED
      BY <2>5
  <1>4. CASE e.kind = "initial"
    <2> DEFINE fields == [status |-> "PROPOSED", phase |-> "INITIAL_RULING", proposedShare |-> e.share]
    <2>1. ApplyDispute(r, e, id)
            = [WithDispute(r, fields)
                 EXCEPT !.rulings = @ \cup {[event |-> id, kind |-> "INITIAL", share |-> e.share]}]
      BY <1>4 DEF ApplyDispute
    <2>2. Changed(r, fields).status = "PROPOSED"
      BY DEF Changed, NoDispute
    <2> HIDE DEF fields
    <2>3. WithDispute(r, fields) = Tables(r.issue, Changed(r, fields), r.proposals, r.rulings, r.balance)
      BY WithDisputeTables
    <2>4. ApplyDispute(r, e, id)
            = Tables(r.issue, Changed(r, fields), r.proposals,
                     r.rulings \cup {[event |-> id, kind |-> "INITIAL", share |-> e.share]}, r.balance)
      BY <2>1, <2>3 DEF Tables
    <2>5. /\ IssueAfter(r, e) = r.issue
          /\ RulingsAfter(r, e, id) = r.rulings \cup {[event |-> id, kind |-> "INITIAL", share |-> e.share]}
      BY <1>4 DEF IssueAfter, RulingsAfter
    <2>6. DisputeChanged(r, e, id, Changed(r, fields))
      BY <1>4, <2>2, <2>4, <2>5 DEF None, DisputeChanged, Changed
    <2> QED
      BY <2>6
  <1>5. CASE e.kind = "final"
    <2> DEFINE fields == [status |-> "FINAL_RULING", phase |-> "FINAL_RULING", finalShare |-> e.share]
    <2>1. ApplyDispute(r, e, id)
            = [WithDispute(r, fields)
                 EXCEPT !.rulings = @ \cup {[event |-> id, kind |-> "FINAL", share |-> e.share]}]
      BY <1>5 DEF ApplyDispute
    <2>2. Changed(r, fields).status = "FINAL_RULING"
      BY DEF Changed, NoDispute
    <2> HIDE DEF fields
    <2>3. WithDispute(r, fields) = Tables(r.issue, Changed(r, fields), r.proposals, r.rulings, r.balance)
      BY WithDisputeTables
    <2>4. ApplyDispute(r, e, id)
            = Tables(r.issue, Changed(r, fields), r.proposals,
                     r.rulings \cup {[event |-> id, kind |-> "FINAL", share |-> e.share]}, r.balance)
      BY <2>1, <2>3 DEF Tables
    <2>5. /\ IssueAfter(r, e) = r.issue
          /\ RulingsAfter(r, e, id) = r.rulings \cup {[event |-> id, kind |-> "FINAL", share |-> e.share]}
      BY <1>5 DEF IssueAfter, RulingsAfter
    <2>6. DisputeChanged(r, e, id, Changed(r, fields))
      BY <1>5, <2>2, <2>4, <2>5 DEF None, DisputeChanged, Changed
    <2> QED
      BY <2>6
  <1> QED
    BY <1>1, <1>2, <1>3, <1>4, <1>5

(* putting back the dispute, the issue's status and the rulings *)
LEMMA StatusRestored ==
  ASSUME NEW i, NEW d, NEW p, NEW x, NEW b, NEW a, a = Tables(i, d, p, x, b), NEW c, NEW s, NEW k
  PROVE  PutBack(a, c, s, k) = Tables(WithStatus(i, s), c, p, k, b)
  <1>1. [a EXCEPT !.dispute = c] = Tables(i, c, p, x, b)
    BY DEF Tables
  <1>2. ASSUME NEW y, y = Tables(i, c, p, x, b)
        PROVE  [y EXCEPT !.issue.status = s] = Tables([i EXCEPT !.status = s], c, p, x, b)
    <2>1. y.issue = i
      BY <1>2 DEF Tables
    <2> DEFINE j == [y.issue EXCEPT !.status = s]
    <2>2. [y EXCEPT !.issue.status = s] = [y EXCEPT !.issue = j]
      OBVIOUS
    <2> HIDE DEF j
    <2>3. [y EXCEPT !.issue = j] = Tables(j, c, p, x, b)
      BY <1>2 DEF Tables
    <2> QED
      BY <2>1, <2>2, <2>3 DEF j
  <1>3. ASSUME NEW y, NEW j, y = Tables(j, c, p, x, b)
        PROVE  [y EXCEPT !.rulings = k] = Tables(j, c, p, k, b)
    BY <1>3 DEF Tables
  <1> QED
    BY <1>1, <1>2, <1>3 DEF PutBack, WithStatus

(* undoing a dispute's event gives the rows its snapshot was taken of *)
LEMMA DisputeUndone ==
  ASSUME NEW r, Shaped(r), NEW e, NEW id, \A x \in r.rulings : x.event # id,
         e.kind \in {"raised", "evidence", "initial", "challenged", "final"}
  PROVE  UndoDispute(ApplyDispute(r, e, id), r, id) = r
  <1> DEFINE a == ApplyDispute(r, e, id)
             i == IssueAfter(r, e)
             x == RulingsAfter(r, e, id)
  <1>1. PICK d : a = Tables(i, d, r.proposals, x, r.balance)
    BY DisputeTables DEF DisputeChanged
  <1>2. i.status \in {r.issue.status, "DISPUTED"} /\ WithStatus(i, r.issue.status) = r.issue
    BY DEF Shaped, WithStatus, IssueAfter
  <1>3. {y \in x : y.event # id} = r.rulings
    BY DEF RulingsAfter
  <1> HIDE DEF a, i, x
  <1>4. a.issue = i /\ a.rulings = x
    BY <1>1 DEF Tables
  <1>5. {y \in a.rulings : y.event # id} = r.rulings
    BY <1>3, <1>4
  <1> DEFINE kept == {y \in a.rulings : y.event # id}
  <1>6. UndoDispute(a, r, id) = PutBack(a, r.dispute, r.issue.status, kept)
    BY <1>2, <1>4 DEF UndoDispute, PutBack
  <1> HIDE DEF kept
  <1>7. PutBack(a, r.dispute, r.issue.status, kept)
          = Tables(WithStatus(i, r.issue.status), r.dispute, r.proposals, kept, r.balance)
    BY <1>1, StatusRestored
  <1>8. Tables(r.issue, r.dispute, r.proposals, r.rulings, r.balance) = r
    BY DEF Tables, Shaped
  <1> QED
    BY <1>2, <1>5, <1>6, <1>7, <1>8 DEF a, kept

(* the proposals once the pending one is closed *)
Closed(r, s, id) == [n \in DOMAIN r.proposals |-> IF n \in Pending(r)
                        THEN [r.proposals[n] EXCEPT !.status = s, !.closed = id] ELSE r.proposals[n]]

(* closing a proposal changes nothing else *)
LEMMA CloseTables ==
  ASSUME NEW r, Shaped(r), NEW s, NEW id
  PROVE  CloseProposal(r, s, id) = Tables(r.issue, r.dispute, Closed(r, s, id), r.rulings, r.balance)
  <1>1. CloseProposal(r, s, id) = [r EXCEPT !.proposals = Closed(r, s, id)]
    BY DEF CloseProposal, Closed
  <1>2. r = Tables(r.issue, r.dispute, r.proposals, r.rulings, r.balance)
    BY DEF Tables, Shaped
  <1> QED
    BY <1>1, <1>2 DEF Tables

(* a proposal that an event closed is opened again *)
LEMMA ClosedReopened ==
  ASSUME NEW r, Shaped(r), NEW id \in Nat, NEW s, NEW statuses, s \in statuses, s # "PENDING",
         Pending(r) # {}, \A m, n \in Pending(r) : m = n, \A n \in Pending(r) : r.proposals[n].closed = 0,
         NEW i, NEW d, NEW b
  PROVE  Reopened(Tables(i, d, Closed(r, s, id), r.rulings, b), CHOOSE n \in Pending(r) : TRUE, statuses, id)
           = Tables(i, d, r.proposals, r.rulings, b)
  <1> DEFINE q == Closed(r, s, id)
  <1> DEFINE n == CHOOSE n \in Pending(r) : TRUE
  <1>2. n \in Pending(r)
    OBVIOUS
  <1>3. n \in DOMAIN r.proposals /\ r.proposals[n] \in Proposals
    BY <1>2 DEF Pending, Shaped
  <1>4. r.proposals[n].status = "PENDING" /\ r.proposals[n].closed = 0
    BY <1>2 DEF Pending
  <1>5. Pending(r) = {n}
    BY <1>2
  <1> HIDE DEF n
  <1>6. q[n] = [r.proposals[n] EXCEPT !.status = s, !.closed = id]
    BY <1>3, <1>5 DEF Closed
  <1>7. q[n].closed = id /\ q[n].status = s
    BY <1>3, <1>6 DEF Proposals
  <1>8. [q EXCEPT ![n].status = "PENDING", ![n].closed = 0] = r.proposals
    <2>1. [[q[n] EXCEPT !.status = "PENDING"] EXCEPT !.closed = 0] = r.proposals[n]
      BY <1>3, <1>4, <1>6 DEF Proposals
    <2>2. r.proposals = [m \in DOMAIN r.proposals |-> r.proposals[m]]
      BY DEF Shaped
    <2>3. DOMAIN q = DOMAIN r.proposals /\ \A m \in DOMAIN r.proposals : m # n => q[m] = r.proposals[m]
      BY <1>5 DEF Closed
    <2> HIDE DEF q
    <2>4. [q EXCEPT ![n].status = "PENDING", ![n].closed = 0]
            = [m \in DOMAIN q |-> IF m = n THEN [[q[n] EXCEPT !.status = "PENDING"] EXCEPT !.closed = 0] ELSE q[m]]
      BY <1>3, <2>3
    <2> QED
      BY <2>1, <2>2, <2>3, <2>4
  <1> HIDE DEF q
  <1> DEFINE t == Tables(i, d, q, r.rulings, b)
  <1>9. t.proposals = q
    BY DEF Tables
  <1>10. Reopened(t, n, statuses, id) = [t EXCEPT !.proposals[n].status = "PENDING", !.proposals[n].closed = 0]
    BY <1>7, <1>9 DEF Reopened
  <1>11. @ = [t EXCEPT !.proposals = [q EXCEPT ![n].status = "PENDING", ![n].closed = 0]]
    BY ZenonT(30) DEF Tables
  <1>12. @ = Tables(i, d, r.proposals, r.rulings, b)
    BY <1>8 DEF Tables
  <1> QED
    BY <1>10, <1>11, <1>12 DEF n, q

(* undoing a proposal or its revocation gives the rows its snapshot was taken of *)
LEMMA SettlementUndone ==
  ASSUME NEW r, Shaped(r), NEW id \in Nat \ {0}, NEW e \in Events, e.kind \in {"proposed", "revoked"},
         Accepts(r, e), \A m, n \in Pending(r) : m = n, \A n \in Pending(r) : r.proposals[n].closed = 0
  PROVE  UndoSettlement(ApplySettlement(r, e, id), r, id) = r
  <1>0. r = Tables(r.issue, r.dispute, r.proposals, r.rulings, r.balance)
    BY DEF Tables, Shaped
  <1>1. CASE e.kind = "proposed"
    <2> DEFINE new == [by |-> e.by, status |-> "PENDING", opened |-> id, closed |-> 0]
               p == Append(r.proposals, new)
               a == ApplySettlement(r, e, id)
    <2>1. a = Tables(r.issue, r.dispute, p, r.rulings, r.balance)
      BY <1>0, <1>1 DEF ApplySettlement, Tables
    <2>2. Pending(r) = {}
      BY <1>1 DEF Accepts
    <2>3. new \in Proposals /\ r.proposals \in Seq(Proposals)
      BY DEF Proposals, Shaped, Events, Kinds
    <2>4. new.status = "PENDING" /\ new.opened = id
      OBVIOUS
    <2> HIDE DEF new
    <2>5. /\ Len(r.proposals) \in Nat
          /\ Len(r.proposals) + 1 \in DOMAIN p /\ p[Len(r.proposals) + 1] = new
          /\ SubSeq(p, 1, Len(p) - 1) = r.proposals
      BY <2>3
    <2> HIDE DEF p, a
    <2>6. a.proposals = p
      BY <2>1 DEF Tables
    <2>7. {n \in Pending(a) : a.proposals[n].opened = id} # {}
      BY <2>4, <2>5, <2>6 DEF Pending
    <2>8. UndoSettlement(a, r, id) = [a EXCEPT !.proposals = SubSeq(a.proposals, 1, Len(a.proposals) - 1)]
      BY <2>2, <2>7 DEF UndoSettlement
    <2>9. [a EXCEPT !.proposals = r.proposals] = Tables(r.issue, r.dispute, r.proposals, r.rulings, r.balance)
      BY <2>1 DEF Tables
    <2> QED
      BY <1>0, <2>5, <2>6, <2>8, <2>9 DEF a
  <1>2. CASE e.kind = "revoked"
    <2>1. Pending(r) # {}
      BY <1>2 DEF Accepts
    <2>2. ApplySettlement(r, e, id) = CloseProposal(r, "REVOKED", id)
      BY <1>2 DEF ApplySettlement
    <2>3. \A a : UndoSettlement(a, r, id) = Reopened(a, CHOOSE n \in Pending(r) : TRUE, {"REVOKED"}, id)
      BY <2>1 DEF UndoSettlement
    <2> QED
      BY <1>0, <2>1, <2>2, <2>3, CloseTables, ClosedReopened
  <1> QED
    BY <1>1, <1>2

(* undoing a payment credits it again *)
LEMMA ClaimedUndone ==
  ASSUME NEW r, Shaped(r), NEW e \in Events, e.kind = "claimed", Accepts(r, e)
  PROVE  UndoClaimed([r EXCEPT !.balance[e.by] = 0], e) = r
  <1>1. r.balance[e.by] = e.share /\ e.by \in Parties /\ r.balance \in [Parties -> Nat]
    BY DEF Accepts, Shaped, Events, Kinds
  <1> DEFINE b == [r.balance EXCEPT ![e.by] = 0]
             a == [r EXCEPT !.balance = b]
  <1>2. b[e.by] = 0 /\ [b EXCEPT ![e.by] = b[e.by] + e.share] = r.balance
    <2>1. e.share \in Nat
      BY <1>1
    <2> QED
      BY <1>1, <2>1
  <1>3. a.balance = b /\ [a EXCEPT !.balance = r.balance] = r
    BY DEF Shaped
  <1>4. UndoClaimed(a, e) = [a EXCEPT !.balance = [a.balance EXCEPT ![e.by] = a.balance[e.by] + e.share]]
    BY DEF UndoClaimed
  <1>5. a = [r EXCEPT !.balance[e.by] = 0]
    OBVIOUS
  <1> HIDE DEF a, b
  <1> QED
    BY <1>2, <1>3, <1>4, <1>5

(* what both shares of a resolution are *)
LEMMA PaidShares ==
  ASSUME NEW share \in 0..Whole
  PROVE  /\ Paid(share) \in [Parties -> 0..Whole]
         /\ \A p \in Parties : Paid(share)[p] = IF p = "client" THEN share ELSE Whole - share
  BY DisputesAssumption DEF Paid

Settled(a, i, b) == [a EXCEPT !.issue = i, !.balance = b]

(* writing the issue and the balances changes nothing else *)
LEMMA SettledTables ==
  ASSUME NEW i, NEW d, NEW p, NEW x, NEW b, NEW a, a = Tables(i, d, p, x, b), NEW j, NEW c
  PROVE  Settled(a, j, c) = Tables(j, d, p, x, c)
  <1>1. [a EXCEPT !.issue = j] = Tables(j, d, p, x, b)
    BY DEF Tables
  <1>2. ASSUME NEW y, y = Tables(j, d, p, x, b)
        PROVE  [y EXCEPT !.balance = c] = Tables(j, d, p, x, c)
    BY <1>2 DEF Tables
  <1> QED
    BY <1>1, <1>2 DEF Settled

(* what a resolution writes *)
LEMMA ResolvedTables ==
  ASSUME NEW r, Shaped(r), NEW e \in Events, e.kind \in Resolutions, NEW id \in Nat \ {0}
  PROVE  \E d :
            /\ ApplyResolved(r, e, id)
                 = Tables([status |-> "COMPLETED", outcome |-> e.kind], d,
                          Closed(r, IF e.kind = "SETTLEMENT" THEN "ACCEPTED" ELSE "VOIDED", id),
                          r.rulings, [p \in Parties |-> r.balance[p] + Paid(e.share)[p]])
            /\ DOMAIN d = DOMAIN NoDispute
            /\ ~DisputeEnds(e) \/ r.dispute = NoDispute => d = r.dispute
            /\ DisputeEnds(e) /\ r.dispute # NoDispute => d.status = "RESOLVED" /\ d.finalShare = FinalShare(r, e)
  <1> DEFINE s == IF e.kind = "SETTLEMENT" THEN "ACCEPTED" ELSE "VOIDED"
             c == CloseProposal(r, s, id)
             i == [status |-> "COMPLETED", outcome |-> e.kind]
             b == [p \in Parties |-> r.balance[p] + Paid(e.share)[p]]
             done == [c EXCEPT !.issue = [status |-> "COMPLETED", outcome |-> e.kind],
                               !.balance = [p \in Parties |-> @[p] + Paid(e.share)[p]]]
             share == FinalShare(r, e)
             fields == [status |-> "RESOLVED", phase |-> "RESOLVED", finalShare |-> share]
  <1>1. c = Tables(r.issue, r.dispute, Closed(r, s, id), r.rulings, r.balance)
    BY CloseTables
  <1>2. done = Tables(i, r.dispute, Closed(r, s, id), r.rulings, b)
    <2>1. done = [c EXCEPT !.issue = i, !.balance = [p \in Parties |-> c.balance[p] + Paid(e.share)[p]]]
      OBVIOUS
    <2>2. [p \in Parties |-> c.balance[p] + Paid(e.share)[p]] = b
      BY <1>1 DEF Tables
    <2>3. done = Settled(c, i, [p \in Parties |-> c.balance[p] + Paid(e.share)[p]])
      BY <2>1 DEF Settled
    <2> HIDE DEF b, i, c, done
    <2>4. Settled(c, i, b) = Tables(i, r.dispute, Closed(r, s, id), r.rulings, b)
      BY <1>1, SettledTables
    <2> QED
      BY <2>2, <2>3, <2>4
  <1>3. ApplyResolved(r, e, id)
          = IF DisputeEnds(e) /\ r.dispute # NoDispute THEN WithDispute(done, fields) ELSE done
    BY DEF ApplyResolved
  <1>4. Changed(r, fields).status = "RESOLVED" /\ Changed(r, fields).finalShare = share
    BY DEF Changed, NoDispute
  <1>5. DOMAIN Changed(r, fields) = DOMAIN NoDispute
    BY DEF Changed
  <1> HIDE DEF fields
  <1>6. WithDispute(done, fields) = Tables(i, Changed(r, fields), Closed(r, s, id), r.rulings, b)
    <2>1. WithDispute(done, fields) = [done EXCEPT !.dispute = Changed(done, fields)]
      BY DEF WithDispute, Changed
    <2>2. done.dispute = r.dispute
      BY <1>2 DEF Tables
    <2>3. Changed(done, fields) = Changed(r, fields)
      BY <2>2 DEF Changed
    <2> HIDE DEF done, c, i, b
    <2> QED
      BY <1>2, <2>1, <2>3 DEF Tables
  <1>7. CASE DisputeEnds(e) /\ r.dispute # NoDispute
    <2>1. ApplyResolved(r, e, id) = Tables(i, Changed(r, fields), Closed(r, s, id), r.rulings, b)
      BY <1>3, <1>6, <1>7
    <2> HIDE DEF share
    <2> QED
      BY <1>4, <1>5, <1>7, <2>1 DEF share
  <1>8. CASE ~(DisputeEnds(e) /\ r.dispute # NoDispute)
    <2>1. ApplyResolved(r, e, id) = Tables(i, r.dispute, Closed(r, s, id), r.rulings, b)
      BY <1>2, <1>3, <1>8
    <2>2. DOMAIN r.dispute = DOMAIN NoDispute
      BY DEF Shaped
    <2> QED
      BY <1>8, <2>1, <2>2
  <1> QED
    BY <1>7, <1>8

(* undoing a resolution gives the rows its snapshot was taken of *)
LEMMA ResolvedUndone ==
  ASSUME NEW r, Shaped(r), NEW id \in Nat \ {0}, NEW e \in Events, e.kind \in Resolutions,
         \A x \in r.rulings : x.event # id,
         \A m, n \in Pending(r) : m = n, \A n \in Pending(r) : r.proposals[n].closed = 0
  PROVE  UndoResolved(ApplyResolved(r, e, id), r, e, id) = r
  <1> DEFINE s == IF e.kind = "SETTLEMENT" THEN "ACCEPTED" ELSE "VOIDED"
             c == Closed(r, s, id)
             i == [status |-> "COMPLETED", outcome |-> e.kind]
             b == [p \in Parties |-> r.balance[p] + Paid(e.share)[p]]
             a == ApplyResolved(r, e, id)
  <1>0. r = Tables(r.issue, r.dispute, r.proposals, r.rulings, r.balance)
    BY DEF Tables, Shaped
  <1>1. PICK d : /\ a = Tables(i, d, c, r.rulings, b)
                 /\ ~DisputeEnds(e) => d = r.dispute
    BY ResolvedTables
  <1>2. Paid(e.share) \in [Parties -> 0..Whole] /\ r.balance \in [Parties -> Nat]
    BY PaidShares DEF Events, Kinds, Shaped
  <1>3. \A p \in Parties : b[p] \in Nat /\ b[p] >= Paid(e.share)[p] /\ b[p] - Paid(e.share)[p] = r.balance[p]
    BY <1>2, DisputesAssumption
  <1>4. s \in {"ACCEPTED", "VOIDED"} /\ s # "PENDING"
    OBVIOUS
  <1> HIDE DEF a, b, c, s
  <1>5. a.issue = [status |-> "COMPLETED", outcome |-> e.kind]
    BY <1>1 DEF Tables
  <1> DEFINE o == [a EXCEPT !.issue = r.issue]
             open == UndoProposal(o, r, id)
  <1>6. o = Tables(r.issue, d, c, r.rulings, b)
    <2> HIDE DEF i
    <2> QED
      BY <1>1 DEF Tables
  <1> HIDE DEF o, i
  <1>7. open = Tables(r.issue, d, r.proposals, r.rulings, b)
    <2>1. CASE Pending(r) = {}
      <3>1. open = o
        BY <2>1 DEF UndoProposal
      <3>2. c = r.proposals
        <4>1. c = [n \in DOMAIN r.proposals |-> r.proposals[n]]
          BY <2>1 DEF c, Closed
        <4>2. r.proposals \in Seq(Proposals)
          BY DEF Shaped
        <4> QED
          BY <4>1, <4>2
      <3> QED
        BY <1>6, <3>1, <3>2
    <2>2. CASE Pending(r) # {}
      <3>1. open = Reopened(o, CHOOSE n \in Pending(r) : TRUE, {"ACCEPTED", "VOIDED"}, id)
        BY <2>2 DEF UndoProposal
      <3> QED
        BY <1>4, <1>6, <2>2, <3>1, ClosedReopened DEF c
    <2> QED
      BY <2>1, <2>2
  <1> HIDE DEF open
  <1>8. open # Stuck /\ open.balance = b
    BY <1>7 DEF Tables, Stuck
  <1>9. Debit(open, e) = Tables(r.issue, d, r.proposals, r.rulings, r.balance)
    <2> DEFINE f == [p \in Parties |-> open.balance[p] - Paid(e.share)[p]]
    <2>1. Debit(open, e) = [open EXCEPT !.balance = f]
      BY DEF Debit
    <2>2. f = r.balance
      <3>1. f = [p \in Parties |-> r.balance[p]]
        BY <1>3, <1>8
      <3> QED
        BY <1>2, <3>1
    <2> HIDE DEF f
    <2> QED
      BY <1>7, <2>1, <2>2 DEF Tables
  <1>10. UndoResolved(a, r, e, id)
           = IF DisputeEnds(e) THEN UndoDispute(Debit(open, e), r, id) ELSE Debit(open, e)
    <2>1. UndoResolved(a, r, e, id)
            = IF open = Stuck THEN Stuck
              ELSE IF \E p \in Parties : open.balance[p] < Paid(e.share)[p] THEN Stuck
              ELSE IF DisputeEnds(e) THEN UndoDispute(Debit(open, e), r, id) ELSE Debit(open, e)
      BY <1>5 DEF UndoResolved, open, o
    <2>2. ~\E p \in Parties : open.balance[p] < Paid(e.share)[p]
      BY <1>2, <1>3, <1>8
    <2> QED
      BY <1>8, <2>1, <2>2
  <1>11. CASE ~DisputeEnds(e)
    BY <1>0, <1>1, <1>9, <1>10, <1>11 DEF a
  <1>12. CASE DisputeEnds(e)
    <2> DEFINE y == Debit(open, e)
               kept == {x \in y.rulings : x.event # id}
    <2>1. y.issue = r.issue /\ y.rulings = r.rulings
      BY <1>9 DEF Tables
    <2>2. kept = r.rulings
      BY <2>1
    <2> HIDE DEF y, kept
    <2>3. UndoDispute(y, r, id) = PutBack(y, r.dispute, r.issue.status, kept)
      BY <2>1 DEF UndoDispute, PutBack, kept
    <2>4. y = Tables(r.issue, d, r.proposals, r.rulings, r.balance)
      BY <1>9 DEF y
    <2>5. PutBack(y, r.dispute, r.issue.status, kept)
            = Tables(WithStatus(r.issue, r.issue.status), r.dispute, r.proposals, kept, r.balance)
      BY <2>4, StatusRestored
    <2>6. WithStatus(r.issue, r.issue.status) = r.issue
      BY DEF WithStatus, Shaped
    <2> QED
      BY <1>0, <1>10, <1>12, <2>2, <2>3, <2>5, <2>6 DEF a, y
  <1> QED
    BY <1>11, <1>12

(* an effect leaves rows with the tables they had, and no throw *)
LEMMA ApplyTables ==
  ASSUME NEW r, Shaped(r), NEW e \in Events, NEW id \in Nat \ {0}
  PROVE  Apply(r, e, id) # Stuck
  <1> DEFINE a == Apply(r, e, id)
  <1>0. r = Tables(r.issue, r.dispute, r.proposals, r.rulings, r.balance)
    BY DEF Tables, Shaped
  <1>1. e.kind \in {"proposed", "revoked", "claimed", "raised", "evidence", "initial", "challenged", "final"}
                       \cup Resolutions
    BY DEF Events, Kinds
  <1>2. SUFFICES \E i, d, p, x, b : a = Tables(i, d, p, x, b)
    BY DEF Tables, Stuck
  <1> HIDE DEF a
  <1>3. CASE e.kind = "proposed"
    <2> DEFINE q == Append(r.proposals, [by |-> e.by, status |-> "PENDING", opened |-> id, closed |-> 0])
    <2>1. a = [r EXCEPT !.proposals = q]
      BY <1>3 DEF Apply, ApplySettlement, Resolutions, a
    <2> HIDE DEF q
    <2>2. a = Tables(r.issue, r.dispute, q, r.rulings, r.balance)
      BY <1>0, <2>1 DEF Tables
    <2> QED
      BY <2>2
  <1>4. CASE e.kind = "revoked"
    <2>1. a = CloseProposal(r, "REVOKED", id)
      BY <1>4 DEF Apply, ApplySettlement, Resolutions, a
    <2> QED
      BY <2>1, CloseTables
  <1>5. CASE e.kind = "claimed"
    <2> DEFINE c == [r.balance EXCEPT ![e.by] = 0]
    <2>1. a = [r EXCEPT !.balance = c]
      BY <1>5 DEF Apply, Resolutions, a
    <2> HIDE DEF c
    <2>2. a = Tables(r.issue, r.dispute, r.proposals, r.rulings, c)
      BY <1>0, <2>1 DEF Tables
    <2> QED
      BY <2>2
  <1>6. CASE e.kind \in Resolutions
    <2>1. a = ApplyResolved(r, e, id)
      BY <1>6 DEF Apply, Resolutions, a
    <2>2. PICK d : a = Tables([status |-> "COMPLETED", outcome |-> e.kind], d,
                              Closed(r, IF e.kind = "SETTLEMENT" THEN "ACCEPTED" ELSE "VOIDED", id),
                              r.rulings, [p \in Parties |-> r.balance[p] + Paid(e.share)[p]])
      BY <1>6, <2>1, ResolvedTables
    <2> QED
      BY <2>2
  <1>7. CASE e.kind \in {"raised", "evidence", "initial", "challenged", "final"}
    <2>1. a = ApplyDispute(r, e, id)
      BY <1>7 DEF Apply, Resolutions, a
    <2> DEFINE i == IssueAfter(r, e)
               x == RulingsAfter(r, e, id)
    <2> HIDE DEF i, x
    <2>2. PICK d : a = Tables(i, d, r.proposals, x, r.balance)
      BY <1>7, <2>1, DisputeTables DEF DisputeChanged, i, x
    <2> QED
      BY <2>2
  <1> QED
    BY <1>1, <1>3, <1>4, <1>5, <1>6, <1>7

(* undoing an event gives the rows its snapshot was taken of *)
LEMMA Undone ==
  ASSUME NEW es, NEW r, Agrees(es, r), NEW id \in Nat \ {0}, DOMAIN es \subseteq 1..(id - 1),
         id \in DOMAIN projected, projected[id].was = r, projected[id].event \in Events,
         Accepts(r, projected[id].event)
  PROVE  Undo(Apply(r, projected[id].event, id), id) = r
  <1> DEFINE e == projected[id].event
             a == Apply(r, e, id)
  <1>1. /\ Shaped(r) /\ e \in Events /\ Accepts(r, e)
        /\ \A m, n \in Pending(r) : m = n
        /\ \A n \in Pending(r) : r.proposals[n].closed = 0
    BY DEF Agrees, ProposalsAgree
  <1>2. \A x \in r.rulings : x.event # id
    BY DEF Agrees, RulingsAgree, Of
  <1>3. e.kind \in {"proposed", "revoked", "claimed", "raised", "evidence", "initial", "challenged", "final"}
                       \cup Resolutions
    BY <1>1 DEF Events, Kinds
  <1> HIDE DEF e
  <1>4. CASE e.kind \in {"proposed", "revoked"}
    <2>1. a = ApplySettlement(r, e, id)
      BY <1>4 DEF Apply, Resolutions
    <2>2. a # Stuck => Undo(a, id) = UndoSettlement(a, r, id)
      BY <1>4 DEF Undo, Resolutions, e
    <2> QED
      BY <1>1, <1>4, <2>1, <2>2, SettlementUndone, ApplyTables DEF e
  <1>5. CASE e.kind = "claimed"
    <2>1. a = [r EXCEPT !.balance[e.by] = 0]
      BY <1>5 DEF Apply, Resolutions
    <2>2. a # Stuck => Undo(a, id) = UndoClaimed(a, e)
      BY <1>5 DEF Undo, Resolutions, e
    <2> QED
      BY <1>1, <1>5, <2>1, <2>2, ClaimedUndone, ApplyTables DEF e
  <1>6. CASE e.kind \in Resolutions
    <2>1. a = ApplyResolved(r, e, id)
      BY <1>6 DEF Apply, Resolutions
    <2>2. a # Stuck => Undo(a, id) = UndoResolved(a, r, e, id)
      BY <1>6 DEF Undo, e, Resolutions
    <2> QED
      BY <1>1, <1>2, <1>6, <2>1, <2>2, ResolvedUndone, ApplyTables DEF e
  <1>7. CASE e.kind \in {"raised", "evidence", "initial", "challenged", "final"}
    <2>1. a = ApplyDispute(r, e, id)
      BY <1>7 DEF Apply, Resolutions
    <2>2. a # Stuck => Undo(a, id) = UndoDispute(a, r, id)
      BY <1>7 DEF Undo, e, Resolutions
    <2> QED
      BY <1>1, <1>2, <1>7, <2>1, <2>2, DisputeUndone, ApplyTables DEF e
  <1> QED
    BY <1>3, <1>4, <1>5, <1>6, <1>7

-----------------------------------------------------------------------------
(* What one more event changes of what is read from the events *)

(* the kind of an event is one of those the model names *)
LEMMA KindOf ==
  ASSUME NEW e \in Events
  PROVE  /\ Kind(e) \in EventKinds
         /\ e.kind \in Resolutions <=> Kind(e) = "resolved"
         /\ e.kind \notin Resolutions => Kind(e) = e.kind
         /\ e.kind \in EventKinds \/ e.kind \in Resolutions
         /\ e.share \in 0..Whole /\ e.by \in Parties
  BY DEF Events, Kinds, Kind, EventKinds, Resolutions

(* the events of given kinds, with one more event *)
LEMMA OfAppend ==
  ASSUME NEW es \in Seq(Events), NEW e \in Events, NEW kinds
  PROVE  /\ Of(Append(es, e), kinds)
               = IF Kind(e) \in kinds THEN Of(es, kinds) \cup {Len(es) + 1} ELSE Of(es, kinds)
         /\ \A n \in Of(es, kinds) : n \in 1..Len(es) /\ Append(es, e)[n] = es[n]
         /\ Append(es, e)[Len(es) + 1] = e
         /\ Len(es) \in Nat /\ Len(es) + 1 \notin Of(es, kinds)
  <1> DEFINE es2 == Append(es, e)
  <1>1. /\ DOMAIN es2 = DOMAIN es \cup {Len(es) + 1} /\ DOMAIN es = 1..Len(es)
        /\ \A n \in 1..Len(es) : es2[n] = es[n]
        /\ es2[Len(es) + 1] = e /\ Len(es) \in Nat
    OBVIOUS
  <1> HIDE DEF es2
  <1>2. Of(es2, kinds) = IF Kind(e) \in kinds THEN Of(es, kinds) \cup {Len(es) + 1} ELSE Of(es, kinds)
    <2>1. ASSUME NEW n
          PROVE  n \in Of(es2, kinds)
                   <=> n \in IF Kind(e) \in kinds THEN Of(es, kinds) \cup {Len(es) + 1} ELSE Of(es, kinds)
      <3>1. CASE n = Len(es) + 1
        BY <1>1, <3>1 DEF Of
      <3>2. CASE n # Len(es) + 1
        BY <1>1, <3>2 DEF Of
      <3> QED
        BY <3>1, <3>2
    <2> QED
      BY <2>1
  <1>3. \A n \in Of(es, kinds) : n \in 1..Len(es)
    BY <1>1 DEF Of
  <1> QED
    BY <1>1, <1>2, <1>3 DEF es2

(* the latest event of given kinds, with one more event *)
LEMMA LastAppend ==
  ASSUME NEW es \in Seq(Events), NEW e \in Events, NEW kinds
  PROVE  /\ Kind(e) \in kinds => Last(Of(Append(es, e), kinds)) = Len(es) + 1
         /\ Kind(e) \notin kinds => Last(Of(Append(es, e), kinds)) = Last(Of(es, kinds))
  <1> DEFINE s == Of(Append(es, e), kinds)
             l == Len(es) + 1
  <1>1. ASSUME Kind(e) \in kinds PROVE Last(s) = l
    <2>1. l \in s /\ l \in Nat
      BY <1>1, OfAppend
    <2>2. \A m \in s : m <= l /\ m \in Nat
      BY <1>1, OfAppend
    <2> HIDE DEF l, s
    <2>3. \A n \in s : (\A m \in s : m <= n) => n = l
      BY <2>1, <2>2
    <2> QED
      BY <2>1, <2>2, <2>3 DEF Last
  <1> QED
    BY <1>1, OfAppend

(* the latest event of given kinds still is one of them *)
LEMMA LastStillExists ==
  ASSUME NEW es \in Seq(Events), NEW e \in Events, LastExists(es)
  PROVE  LastExists(Append(es, e))
  <1> DEFINE es2 == Append(es, e)
  <1>1. ASSUME NEW kinds \in SUBSET EventKinds, Of(es2, kinds) # {}
        PROVE  Last(Of(es2, kinds)) \in Of(es2, kinds) /\ \A n \in Of(es2, kinds) : n <= Last(Of(es2, kinds))
    <2>1. CASE Kind(e) \in kinds
      <3>1. /\ Of(es2, kinds) = Of(es, kinds) \cup {Len(es) + 1} /\ Last(Of(es2, kinds)) = Len(es) + 1
            /\ Of(es, kinds) \subseteq 1..Len(es) /\ Len(es) \in Nat
        BY <2>1, OfAppend, LastAppend
      <3> DEFINE l == Len(es)
                 s == Of(es, kinds)
                 s2 == Of(es2, kinds)
      <3> HIDE DEF es2, l, s, s2
      <3>2. s2 = s \cup {l + 1} /\ Last(s2) = l + 1 /\ s \subseteq 1..l /\ l \in Nat
        BY <3>1 DEF l, s, s2
      <3>3. \A n \in s2 : n <= l + 1
        BY <3>2
      <3> QED
        BY <3>2, <3>3 DEF s2
    <2>2. CASE Kind(e) \notin kinds
      <3>1. Of(es2, kinds) = Of(es, kinds) /\ Last(Of(es2, kinds)) = Last(Of(es, kinds))
        BY <2>2, OfAppend, LastAppend
      <3> QED
        BY <1>1, <3>1 DEF LastExists
    <2> QED
      BY <2>1, <2>2
  <1> QED
    BY <1>1 DEF LastExists

PhaseKinds == {"raised", "initial", "challenged", "final", "resolved"}

(* the phase of the contract after one more event *)
LEMMA PhaseAppend ==
  ASSUME NEW es \in Seq(Events), NEW e \in Events, LastExists(es)
  PROVE  /\ Kind(e) \in PhaseKinds => Phase(Append(es, e)) = PhaseAfter[Kind(e)]
         /\ Kind(e) \notin PhaseKinds => Phase(Append(es, e)) = Phase(es)
  <1> DEFINE es2 == Append(es, e)
             s == Of(es, PhaseKinds)
  <1>1. DOMAIN PhaseAfter = PhaseKinds
    BY DEF PhaseAfter, PhaseKinds
  <1>2. PhaseKinds \in SUBSET EventKinds
    BY DEF PhaseKinds, EventKinds
  <1>3. \A x : Phase(x) = IF Of(x, PhaseKinds) = {} THEN "FUNDED"
                        ELSE PhaseAfter[Kind(x[Last(Of(x, PhaseKinds))])]
    BY <1>1 DEF Phase
  <1>4. CASE Kind(e) \in PhaseKinds
    <2>1. Of(es2, PhaseKinds) # {} /\ Last(Of(es2, PhaseKinds)) = Len(es) + 1 /\ es2[Len(es) + 1] = e
      BY <1>4, OfAppend, LastAppend
    <2> QED
      BY <1>3, <1>4, <2>1
  <1>5. CASE Kind(e) \notin PhaseKinds
    <2>1. Of(es2, PhaseKinds) = s /\ Last(Of(es2, PhaseKinds)) = Last(s)
      BY <1>5, OfAppend, LastAppend
    <2>2. s # {} => Last(s) \in s
      BY <1>2 DEF LastExists
    <2>3. s # {} => es2[Last(s)] = es[Last(s)]
      BY <2>2, OfAppend
    <2> QED
      BY <1>3, <1>5, <2>1, <2>3
  <1> QED
    BY <1>4, <1>5

(* the open proposal after one more event *)
LEMMA OpenAppend ==
  ASSUME NEW es \in Seq(Events), NEW e \in Events
  PROVE  /\ Kind(e) = "proposed" => Open(Append(es, e)) = Open(es) \cup {Len(es) + 1}
         /\ Kind(e) \in {"revoked", "resolved"} => Open(Append(es, e)) = {}
         /\ Kind(e) \notin {"proposed", "revoked", "resolved"} => Open(Append(es, e)) = Open(es)
         /\ \A k \in Open(es) : k \in 1..Len(es) /\ Append(es, e)[k] = es[k]
  <1> DEFINE es2 == Append(es, e)
             l == Len(es) + 1
             closing == Of(es, {"revoked", "resolved"})
             opening == Of(es, {"proposed"})
  <1>1. /\ closing \subseteq 1..Len(es) /\ opening \subseteq 1..Len(es) /\ Len(es) \in Nat
        /\ \A k \in opening : es2[k] = es[k]
    BY OfAppend
  <1>2. Open(es) = {n \in opening : \A m \in closing : m < n}
    BY DEF Open
  <1>3. Open(es2) = {n \in Of(es2, {"proposed"}) : \A m \in Of(es2, {"revoked", "resolved"}) : m < n}
    BY DEF Open
  <1>4. CASE Kind(e) = "proposed"
    <2>1. Of(es2, {"proposed"}) = opening \cup {l} /\ Of(es2, {"revoked", "resolved"}) = closing
      BY <1>4, OfAppend
    <2> HIDE DEF es2, opening, closing
    <2>2. \A m \in closing : m < l
      BY <1>1
    <2>3. ASSUME NEW n PROVE n \in Open(es2) <=> n \in Open(es) \cup {l}
      BY <1>2, <1>3, <2>1, <2>2
    <2>4. Open(es2) = Open(es) \cup {l}
      BY <2>3
    <2> QED
      BY <1>1, <1>2, <1>4, <2>4 DEF es2
  <1>5. CASE Kind(e) \in {"revoked", "resolved"}
    <2>1. Of(es2, {"proposed"}) = opening /\ l \in Of(es2, {"revoked", "resolved"})
      BY <1>5, OfAppend
    <2>2. \A n \in opening : ~(l < n)
      BY <1>1
    <2> QED
      BY <1>1, <1>2, <1>3, <1>5, <2>1, <2>2
  <1>6. CASE Kind(e) \notin {"proposed", "revoked", "resolved"}
    <2>1. Of(es2, {"proposed"}) = opening /\ Of(es2, {"revoked", "resolved"}) = closing
      BY <1>6, OfAppend
    <2> QED
      BY <1>1, <1>2, <1>3, <1>6, <2>1
  <1> QED
    BY <1>4, <1>5, <1>6

(* what a party may claim after one more event *)
LEMMA ClaimableAppend ==
  ASSUME NEW es \in Seq(Events), NEW e \in Events, LastExists(es), ResolvedOnce(es), NEW p \in Parties
  PROVE  /\ Kind(e) = "resolved" /\ Phase(es) # "RESOLVED" => Claimable(Append(es, e), p) = Paid(e.share)[p]
         /\ Kind(e) = "claimed" => Claimable(Append(es, e), p) = IF p = e.by THEN 0 ELSE Claimable(es, p)
         /\ Kind(e) \notin {"resolved", "claimed"} => Claimable(Append(es, e), p) = Claimable(es, p)
  <1> DEFINE es2 == Append(es, e)
             l == Len(es) + 1
             res == Of(es, {"resolved"})
             cl == Of(es, {"claimed"})
  <1>1. \A x : Claimable(x, p) = IF Of(x, {"resolved"}) = {} \/ \E n \in Of(x, {"claimed"}) : x[n].by = p THEN 0
                               ELSE Paid(x[Last(Of(x, {"resolved"}))].share)[p]
    BY DEF Claimable
  <1>2. /\ \A n \in res : es2[n] = es[n]
        /\ \A n \in cl : es2[n] = es[n]
        /\ es2[l] = e
    BY OfAppend
  <1>3. res # {} => Last(res) \in res
    BY DEF LastExists, EventKinds
  <1>4. CASE Kind(e) = "resolved" /\ Phase(es) # "RESOLVED"
    <2>1. l \in Of(es2, {"resolved"}) /\ Last(Of(es2, {"resolved"})) = l
      BY <1>4, OfAppend, LastAppend
    <2>2. Of(es2, {"claimed"}) = {}
      BY <1>4, OfAppend DEF ResolvedOnce
    <2> QED
      BY <1>1, <1>2, <1>4, <2>1, <2>2
  <1>5. CASE Kind(e) = "claimed"
    <2>1. Of(es2, {"resolved"}) = res /\ Last(Of(es2, {"resolved"})) = Last(res)
      BY <1>5, OfAppend, LastAppend
    <2>2. Of(es2, {"claimed"}) = cl \cup {l}
      BY <1>5, OfAppend
    <2>3. (\E n \in Of(es2, {"claimed"}) : es2[n].by = p) <=> (p = e.by \/ \E n \in cl : es[n].by = p)
      BY <1>2, <2>2
    <2>4. res # {} => es2[Last(res)] = es[Last(res)]
      BY <1>2, <1>3
    <2>5. Claimable(es, p) = IF res = {} \/ (\E n \in cl : es[n].by = p) THEN 0
                             ELSE Paid(es[Last(res)].share)[p]
      BY <1>1
    <2>6. Claimable(es2, p) = IF res = {} \/ (\E n \in Of(es2, {"claimed"}) : es2[n].by = p) THEN 0
                              ELSE Paid(es2[Last(res)].share)[p]
      BY <1>1, <2>1
    <2> HIDE DEF es2, res, cl
    <2>7. Claimable(es2, p) = IF p = e.by THEN 0 ELSE Claimable(es, p)
      BY <2>3, <2>4, <2>5, <2>6
    <2> QED
      BY <1>5, <2>7 DEF es2
  <1>6. CASE Kind(e) \notin {"resolved", "claimed"}
    <2>1. Of(es2, {"resolved"}) = res /\ Last(Of(es2, {"resolved"})) = Last(res)
      BY <1>6, OfAppend, LastAppend
    <2>2. Of(es2, {"claimed"}) = cl
      BY <1>6, OfAppend
    <2>3. (\E n \in cl : es2[n].by = p) <=> (\E n \in cl : es[n].by = p)
      BY <1>2
    <2>4. res # {} => es2[Last(res)] = es[Last(res)]
      BY <1>2, <1>3
    <2> QED
      BY <1>1, <1>6, <2>1, <2>2, <2>3, <2>4
  <1> QED
    BY <1>4, <1>5, <1>6

-----------------------------------------------------------------------------
(* One more event that the contract lets happen *)

DisputeKinds == {"raised", "evidence", "initial", "challenged", "final"}

(* what the contract requires of its next event *)
LEMMA ContractRequires ==
  ASSUME NEW es, NEW e \in Events, MayFollow(es, e)
  PROVE  /\ e.kind # "claimed" => Phase(es) # "RESOLVED"
         /\ e.kind = "proposed" => Open(es) = {}
         /\ e.kind = "revoked" => \E n \in Open(es) : es[n].by = e.by
         /\ e.kind = "raised" => Phase(es) = "FUNDED"
         /\ e.kind \in {"evidence", "initial"} => Phase(es) = "DISPUTED"
         /\ e.kind = "challenged" => Phase(es) = "INITIAL_RULING"
         /\ e.kind = "final" => Phase(es) = "CHALLENGED"
         /\ e.kind = "claimed" => Claimable(es, e.by) > 0 /\ e.share = Claimable(es, e.by)
         /\ e.kind = "SETTLEMENT" => Open(es) # {}
         /\ e.kind = "RULING" => Phase(es) \in {"INITIAL_RULING", "FINAL_RULING"} /\ e.share = RuledShare(es)
         /\ e.kind = "ARBITER_TIMEOUT_SPLIT" => e.share = Whole \div 2
         /\ e.kind \in {"RULING", "ARBITER_TIMEOUT_SPLIT"} => Phase(es) # "FUNDED"
  <1>1. e.kind \in {"proposed", "revoked", "claimed", "raised", "evidence", "initial", "challenged", "final"}
                       \cup Resolutions
    BY DEF Events, Kinds
  <1>2. CASE e.kind = "proposed"
    BY <1>2 DEF MayFollow
  <1>3. CASE e.kind = "revoked"
    BY <1>3 DEF MayFollow
  <1>4. CASE e.kind = "raised"
    BY <1>4 DEF MayFollow
  <1>5. CASE e.kind = "evidence"
    BY <1>5 DEF MayFollow
  <1>6. CASE e.kind = "initial"
    BY <1>6 DEF MayFollow
  <1>7. CASE e.kind = "challenged"
    BY <1>7 DEF MayFollow
  <1>8. CASE e.kind = "final"
    BY <1>8 DEF MayFollow
  <1>9. CASE e.kind = "claimed"
    BY <1>9 DEF MayFollow
  <1>10. CASE e.kind \in Resolutions
    <2>1. Phase(es) # "RESOLVED" /\ Resolvable(es, e)
      BY <1>10 DEF MayFollow, Resolutions
    <2>2. CASE e.kind = "RELEASE"
      BY <2>1, <2>2
    <2>3. CASE e.kind = "SETTLEMENT"
      BY <2>1, <2>3 DEF Resolvable
    <2>4. CASE e.kind = "RULING"
      BY <2>1, <2>4 DEF Resolvable
    <2>5. CASE e.kind = "ARBITER_TIMEOUT_SPLIT"
      BY <2>1, <2>5 DEF Resolvable
    <2> QED
      BY <1>10, <2>2, <2>3, <2>4, <2>5 DEF Resolutions
  <1> QED
    BY <1>1, <1>2, <1>3, <1>4, <1>5, <1>6, <1>7, <1>8, <1>9, <1>10

(* the contract resolves once, and pays after that, with one more event *)
LEMMA StillResolvedOnce ==
  ASSUME NEW es \in Seq(Events), NEW e \in Events, MayFollow(es, e), LastExists(es), ResolvedOnce(es)
  PROVE  ResolvedOnce(Append(es, e))
  <1> DEFINE es2 == Append(es, e)
  <1>1. /\ Of(es2, {"resolved"}) = {} <=> (Of(es, {"resolved"}) = {} /\ Kind(e) # "resolved")
        /\ Of(es2, {"claimed"}) = {} <=> (Of(es, {"claimed"}) = {} /\ Kind(e) # "claimed")
        /\ Of(es2, {"initial", "final"}) = {} <=> (Of(es, {"initial", "final"}) = {} /\ Kind(e) \notin {"initial", "final"})
    BY OfAppend
  <1>2. /\ Kind(e) \in PhaseKinds => Phase(es2) = PhaseAfter[Kind(e)]
        /\ Kind(e) \notin PhaseKinds => Phase(es2) = Phase(es)
    BY PhaseAppend
  <1>3. /\ Kind(e) # "claimed" => Phase(es) # "RESOLVED"
        /\ Kind(e) = "claimed" => Phase(es) = "RESOLVED"
    <2>1. Kind(e) # "claimed" => e.kind # "claimed"
      BY DEF Kind, Resolutions
    <2>2. ASSUME Kind(e) = "claimed" PROVE Phase(es) = "RESOLVED"
      <3>1. e.kind = "claimed"
        BY <2>2 DEF Kind
      <3>2. Claimable(es, e.by) # 0
        BY <3>1, ContractRequires
      <3>3. Of(es, {"resolved"}) # {}
        BY <3>2 DEF Claimable
      <3> QED
        BY <3>3 DEF ResolvedOnce
    <2> QED
      BY <2>1, <2>2, ContractRequires
  <1>4. Kind(e) \in EventKinds
    BY KindOf
  <1>5. /\ PhaseAfter["raised"] = "DISPUTED" /\ PhaseAfter["initial"] = "INITIAL_RULING"
        /\ PhaseAfter["challenged"] = "CHALLENGED" /\ PhaseAfter["final"] = "FINAL_RULING"
        /\ PhaseAfter["resolved"] = "RESOLVED"
    BY DEF PhaseAfter
  <1> HIDE DEF es2
  <1>6. Phase(es2) = "RESOLVED" <=> (Phase(es) = "RESOLVED" \/ Kind(e) = "resolved")
    BY <1>2, <1>3, <1>5 DEF PhaseKinds
  <1>7. Of(es2, {"resolved"}) = {} <=> Phase(es2) # "RESOLVED"
    BY <1>1, <1>6 DEF ResolvedOnce
  <1>8. Of(es2, {"resolved"}) = {} => Of(es2, {"claimed"}) = {}
    BY <1>1, <1>3 DEF ResolvedOnce
  <1>9. Phase(es2) \in {"INITIAL_RULING", "FINAL_RULING"} => Of(es2, {"initial", "final"}) # {}
    BY <1>1, <1>2, <1>5 DEF ResolvedOnce, PhaseKinds
  <1>10. Phase(es2) \in Phases
    BY <1>2, <1>5 DEF ResolvedOnce, PhaseKinds, Phases
  <1> QED
    BY <1>7, <1>8, <1>9, <1>10 DEF ResolvedOnce, es2

(* what the rows know of the events lets every effect pass *)
LEMMA EffectPasses ==
  ASSUME NEW es, NEW r, Agrees(es, r), NEW e \in Events, MayFollow(es, e)
  PROVE  Accepts(r, e)
  <1>1. e.kind \in {"proposed", "revoked", "claimed", "raised", "evidence", "initial", "challenged", "final"}
                       \cup Resolutions
    BY DEF Events, Kinds
  <1>2. CASE e.kind = "proposed"
    <2>1. Open(es) = {}
      BY <1>2, ContractRequires
    <2>2. Pending(r) = {}
      BY <2>1 DEF Agrees, ProposalsAgree
    <2> QED
      BY <1>2, <2>2 DEF Accepts
  <1>3. CASE e.kind = "revoked"
    <2>1. PICK k \in Open(es) : es[k].by = e.by
      BY <1>3, ContractRequires
    <2>2. PICK n \in Pending(r) : r.proposals[n].opened = k
      BY DEF Agrees, ProposalsAgree
    <2>3. r.proposals[n].by = e.by
      BY <2>1, <2>2 DEF Agrees, ProposalsAgree
    <2> QED
      BY <1>3, <2>3 DEF Accepts
  <1>4. CASE e.kind = "raised"
    BY <1>4 DEF Accepts
  <1>5. CASE e.kind \in {"evidence", "initial", "challenged", "final"}
    <2>1. Phase(es) \notin {"FUNDED", "RESOLVED"}
      BY <1>5, ContractRequires
    <2>2. r.dispute.status # None
      BY <2>1 DEF Agrees, DisputeAgrees
    <2>3. r.dispute # NoDispute
      BY <2>2 DEF NoDispute
    <2> QED
      BY <1>5, <2>3 DEF Accepts
  <1>6. CASE e.kind = "claimed"
    <2>1. e.share = Claimable(es, e.by) /\ e.by \in Parties
      BY <1>6, ContractRequires, KindOf
    <2>2. r.balance[e.by] = e.share
      BY <2>1 DEF Agrees, BalancesAgree
    <2> QED
      BY <1>6, <2>2 DEF Accepts
  <1>7. CASE e.kind \in Resolutions
    <2>1. Phase(es) # "RESOLVED"
      BY <1>7, ContractRequires DEF Resolutions
    <2>2. r.issue.status \in {"IN_PROGRESS", "DISPUTED"}
      BY <2>1 DEF Agrees, DisputeAgrees, Shaped
    <2>3. e.kind = "SETTLEMENT" => Pending(r) # {}
      <3>1. ASSUME e.kind = "SETTLEMENT" PROVE Pending(r) # {}
        <4>1. Open(es) # {}
          BY <3>1, ContractRequires
        <4> QED
          BY <4>1 DEF Agrees, ProposalsAgree
      <3> QED
        BY <3>1
    <2> QED
      BY <1>7, <2>2, <2>3 DEF Accepts, Resolutions
  <1> QED
    BY <1>1, <1>2, <1>3, <1>4, <1>5, <1>6, <1>7

-----------------------------------------------------------------------------
(* The rows know of the events what they did after one more of them *)

(* the tables of a record of tables *)
LEMMA TablesFields ==
  ASSUME NEW i, NEW d, NEW p, NEW x, NEW b
  PROVE  LET a == Tables(i, d, p, x, b)
         IN  /\ a.issue = i /\ a.dispute = d /\ a.proposals = p /\ a.rulings = x /\ a.balance = b
             /\ Pending(a) = {n \in DOMAIN p : p[n].status = "PENDING"}
  BY DEF Tables, Pending

(* tables with the columns the model gives them *)
LEMMA TablesShaped ==
  ASSUME NEW i, NEW d, NEW p, NEW x, NEW b,
         i = [status |-> i.status, outcome |-> i.outcome],
         i.status \in {"IN_PROGRESS", "DISPUTED", "COMPLETED"},
         DOMAIN d = DOMAIN NoDispute, p \in Seq(Proposals), b \in [Parties -> Nat]
  PROVE  Shaped(Tables(i, d, p, x, b))
  <1> DEFINE a == Tables(i, d, p, x, b)
  <1>1. a.issue = i /\ a.dispute = d /\ a.proposals = p /\ a.rulings = x /\ a.balance = b
    BY TablesFields
  <1>2. a = [issue |-> i, dispute |-> d, proposals |-> p, rulings |-> x, balance |-> b]
    BY DEF Tables
  <1> HIDE DEF a
  <1> QED
    BY <1>1, <1>2 DEF Shaped, a

(* rows are the record of their tables *)
LEMMA AsTables ==
  ASSUME NEW r, Shaped(r)
  PROVE  r = Tables(r.issue, r.dispute, r.proposals, r.rulings, r.balance)
  BY DEF Tables, Shaped

(* an event that is no proposal and ends none leaves what the rows know of them *)
LEMMA ProposalsKept ==
  ASSUME NEW es \in Seq(Events), NEW e \in Events, NEW r, NEW a, ProposalsAgree(es, r),
         a.proposals = r.proposals, Kind(e) \notin {"proposed", "revoked", "resolved"}
  PROVE  ProposalsAgree(Append(es, e), a)
  <1> DEFINE es2 == Append(es, e)
  <1>1. Pending(a) = Pending(r)
    BY DEF Pending
  <1>2. Open(es2) = Open(es) /\ \A k \in Open(es) : es2[k] = es[k]
    BY OpenAppend
  <1> HIDE DEF es2
  <1>3. \A n \in Pending(a) : /\ a.proposals[n].closed = 0
                              /\ a.proposals[n].opened \in Open(es2)
                              /\ es2[a.proposals[n].opened].by = a.proposals[n].by
    BY <1>1, <1>2 DEF ProposalsAgree
  <1>4. \A k \in Open(es2) : \E n \in Pending(a) : a.proposals[n].opened = k
    BY <1>1, <1>2 DEF ProposalsAgree
  <1>5. \A m, n \in Pending(a) : m = n
    BY <1>1 DEF ProposalsAgree
  <1>6. ProposalsAgree(es2, a)
    BY <1>3, <1>4, <1>5 DEF ProposalsAgree
  <1> QED
    BY <1>6 DEF es2

(* an event that is no ruling leaves what the rows know of rulings *)
LEMMA RulingsKept ==
  ASSUME NEW es \in Seq(Events), NEW e \in Events, NEW r, NEW a, RulingsAgree(es, r),
         a.rulings = r.rulings, Kind(e) \notin {"initial", "final"}
  PROVE  RulingsAgree(Append(es, e), a)
  <1>1. /\ Of(Append(es, e), {"initial", "final"}) = Of(es, {"initial", "final"})
        /\ \A k \in Of(es, {"initial", "final"}) : Append(es, e)[k] = es[k]
    BY OfAppend
  <1> QED
    BY <1>1 DEF RulingsAgree

(* an event that pays nobody leaves the balances *)
LEMMA BalancesKept ==
  ASSUME NEW es \in Seq(Events), NEW e \in Events, NEW r, NEW a, LastExists(es), ResolvedOnce(es),
         BalancesAgree(es, r), a.balance = r.balance, Kind(e) \notin {"claimed", "resolved"}
  PROVE  BalancesAgree(Append(es, e), a)
  BY ClaimableAppend DEF BalancesAgree

(* the share of the resolution stays what it was *)
LEMMA ResolutionKept ==
  ASSUME NEW es \in Seq(Events), NEW e \in Events, LastExists(es), ResolvedOnce(es),
         Phase(es) = "RESOLVED", Kind(e) # "resolved"
  PROVE  Append(es, e)[Last(Of(Append(es, e), {"resolved"}))] = es[Last(Of(es, {"resolved"}))]
  <1>1. Of(es, {"resolved"}) # {}
    BY DEF ResolvedOnce
  <1>2. Last(Of(es, {"resolved"})) \in Of(es, {"resolved"})
    BY <1>1 DEF LastExists, EventKinds
  <1>3. Last(Of(Append(es, e), {"resolved"})) = Last(Of(es, {"resolved"}))
    BY LastAppend
  <1> QED
    BY <1>2, <1>3, OfAppend

(* an event outside the dispute leaves what the rows know of it *)
LEMMA DisputeKept ==
  ASSUME NEW es \in Seq(Events), NEW e \in Events, NEW r, NEW a, LastExists(es), ResolvedOnce(es),
         DisputeAgrees(es, r), a.dispute.status = r.dispute.status,
         a.dispute.finalShare = r.dispute.finalShare, a.issue = r.issue,
         Kind(e) \notin PhaseKinds
  PROVE  DisputeAgrees(Append(es, e), a)
  <1>1. Phase(Append(es, e)) = Phase(es)
    BY PhaseAppend
  <1>2. ASSUME a.dispute.status = "RESOLVED"
        PROVE  a.dispute.finalShare = Append(es, e)[Last(Of(Append(es, e), {"resolved"}))].share
    <2>1. Phase(es) = "RESOLVED"
      BY <1>2 DEF DisputeAgrees
    <2> QED
      BY <1>2, <2>1, ResolutionKept DEF DisputeAgrees, PhaseKinds
  <1> QED
    BY <1>1, <1>2 DEF DisputeAgrees

(* a proposal *)
LEMMA ProposedAgrees ==
  ASSUME NEW es \in Seq(Events), NEW e \in Events, NEW r, Agrees(es, r), MayFollow(es, e),
         e.kind = "proposed"
  PROVE  Agrees(Append(es, e), Apply(r, e, Len(es) + 1))
  <1> DEFINE es2 == Append(es, e)
             id == Len(es) + 1
             a == Apply(r, e, id)
             new == [by |-> e.by, status |-> "PENDING", opened |-> id, closed |-> 0]
             q == Append(r.proposals, new)
  <1>0. /\ Shaped(r) /\ LastExists(es) /\ ResolvedOnce(es) /\ ProposalsAgree(es, r)
        /\ RulingsAgree(es, r) /\ DisputeAgrees(es, r) /\ BalancesAgree(es, r)
    BY DEF Agrees
  <1>1. Kind(e) = "proposed"
    BY DEF Kind, Resolutions
  <1>2. a = Tables(r.issue, r.dispute, q, r.rulings, r.balance)
    <2>1. a = [r EXCEPT !.proposals = q]
      BY DEF Apply, ApplySettlement, Resolutions
    <2> HIDE DEF q, a
    <2> QED
      BY <1>0, <2>1, AsTables DEF Tables
  <1>3. /\ new \in Proposals /\ new.status = "PENDING" /\ new.opened = id /\ new.closed = 0 /\ new.by = e.by
        /\ id \in Nat /\ es2[id] = e
    BY OfAppend, KindOf DEF Proposals
  <1> HIDE DEF new, a, es2, id
  <1>4. /\ q \in Seq(Proposals) /\ Len(r.proposals) \in Nat
        /\ DOMAIN q = DOMAIN r.proposals \cup {Len(r.proposals) + 1}
        /\ q[Len(r.proposals) + 1] = new
        /\ \A n \in DOMAIN r.proposals : q[n] = r.proposals[n]
    BY <1>0, <1>3 DEF Shaped
  <1>5. Pending(r) = {} /\ Open(es) = {}
    BY <1>0, ContractRequires DEF ProposalsAgree
  <1> HIDE DEF q
  <1>6. Pending(a) = {Len(r.proposals) + 1} /\ a.proposals = q
    <2>1. a.proposals = q /\ Pending(a) = {n \in DOMAIN q : q[n].status = "PENDING"}
      BY <1>2, TablesFields
    <2>2. \A n \in DOMAIN r.proposals : q[n].status # "PENDING"
      BY <1>4, <1>5 DEF Pending
    <2> QED
      BY <1>3, <1>4, <2>1, <2>2
  <1>7. Open(es2) = {id}
    BY <1>1, <1>5, OpenAppend DEF es2, id
  <1>8. ProposalsAgree(es2, a)
    BY <1>3, <1>4, <1>6, <1>7 DEF ProposalsAgree
  <1>9. Shaped(a)
    <2>1. Shaped(Tables(r.issue, r.dispute, q, r.rulings, r.balance))
      BY <1>0, <1>4, TablesShaped DEF Shaped
    <2> QED
      BY <1>2, <2>1
  <1>10. a.issue = r.issue /\ a.dispute = r.dispute /\ a.rulings = r.rulings /\ a.balance = r.balance
    BY <1>2, TablesFields
  <1>11. RulingsAgree(es2, a) /\ BalancesAgree(es2, a) /\ DisputeAgrees(es2, a)
    BY <1>0, <1>1, <1>10, RulingsKept, BalancesKept, DisputeKept DEF es2, PhaseKinds
  <1>12. LastExists(es2) /\ ResolvedOnce(es2)
    BY <1>0, LastStillExists, StillResolvedOnce DEF es2
  <1> QED
    BY <1>8, <1>9, <1>11, <1>12 DEF Agrees, es2, a, id

(* a closed proposal is pending no more *)
LEMMA ClosedProposals ==
  ASSUME NEW r, Shaped(r), NEW s \in {"REVOKED", "ACCEPTED", "VOIDED"}, NEW id \in Nat
  PROVE  /\ Closed(r, s, id) \in Seq(Proposals)
         /\ \A n \in DOMAIN Closed(r, s, id) : Closed(r, s, id)[n].status # "PENDING"
  <1> DEFINE q == Closed(r, s, id)
  <1>1. r.proposals \in Seq(Proposals)
    BY DEF Shaped
  <1>2. DOMAIN q = DOMAIN r.proposals
    BY DEF Closed
  <1>3. ASSUME NEW n \in DOMAIN r.proposals
        PROVE  q[n] \in Proposals /\ q[n].status # "PENDING"
    <2>1. r.proposals[n] \in Proposals
      BY <1>1
    <2>2. CASE n \in Pending(r)
      <3>1. q[n] = [r.proposals[n] EXCEPT !.status = s, !.closed = id]
        BY <2>2 DEF Closed
      <3> QED
        BY <2>1, <3>1 DEF Proposals
    <2>3. CASE n \notin Pending(r)
      <3>1. q[n] = r.proposals[n]
        BY <2>3 DEF Closed
      <3> QED
        BY <2>1, <2>3, <3>1 DEF Pending
    <2> QED
      BY <2>2, <2>3
  <1>4. q \in [1..Len(r.proposals) -> Proposals]
    <2>1. q = [n \in DOMAIN r.proposals |-> q[n]]
      BY DEF Closed
    <2>2. DOMAIN r.proposals = 1..Len(r.proposals)
      BY <1>1
    <2> HIDE DEF q
    <2> QED
      BY <1>3, <2>1, <2>2
  <1>5. q \in Seq(Proposals)
    <2> HIDE DEF q
    <2>1. Len(r.proposals) \in Nat
      BY <1>1
    <2> QED
      BY <1>4, <2>1
  <1> QED
    BY <1>2, <1>3, <1>5

(* a revocation *)
LEMMA RevokedAgrees ==
  ASSUME NEW es \in Seq(Events), NEW e \in Events, NEW r, Agrees(es, r), MayFollow(es, e),
         e.kind = "revoked"
  PROVE  Agrees(Append(es, e), Apply(r, e, Len(es) + 1))
  <1> DEFINE es2 == Append(es, e)
             id == Len(es) + 1
             a == Apply(r, e, id)
             q == Closed(r, "REVOKED", id)
  <1>0. /\ Shaped(r) /\ LastExists(es) /\ ResolvedOnce(es) /\ ProposalsAgree(es, r)
        /\ RulingsAgree(es, r) /\ DisputeAgrees(es, r) /\ BalancesAgree(es, r)
    BY DEF Agrees
  <1>1. Kind(e) = "revoked"
    BY DEF Kind, Resolutions
  <1>2. a = Tables(r.issue, r.dispute, q, r.rulings, r.balance)
    <2>1. a = CloseProposal(r, "REVOKED", id)
      BY DEF Apply, ApplySettlement, Resolutions
    <2> QED
      BY <1>0, <2>1, CloseTables
  <1>3. id \in Nat
    OBVIOUS
  <1>4. q \in Seq(Proposals) /\ \A n \in DOMAIN q : q[n].status # "PENDING"
    BY <1>0, <1>3, ClosedProposals
  <1> HIDE DEF es2, id, a, q
  <1>5. Pending(a) = {}
    BY <1>2, <1>4, TablesFields
  <1>6. Open(es2) = {}
    BY <1>1, OpenAppend DEF es2
  <1>7. ProposalsAgree(es2, a)
    BY <1>5, <1>6 DEF ProposalsAgree
  <1>8. Shaped(a)
    <2>1. Shaped(Tables(r.issue, r.dispute, q, r.rulings, r.balance))
      BY <1>0, <1>4, TablesShaped DEF Shaped
    <2> QED
      BY <1>2, <2>1
  <1>9. a.issue = r.issue /\ a.dispute = r.dispute /\ a.rulings = r.rulings /\ a.balance = r.balance
    BY <1>2, TablesFields
  <1>10. RulingsAgree(es2, a) /\ BalancesAgree(es2, a) /\ DisputeAgrees(es2, a)
    BY <1>0, <1>1, <1>9, RulingsKept, BalancesKept, DisputeKept DEF es2, PhaseKinds
  <1>11. LastExists(es2) /\ ResolvedOnce(es2)
    BY <1>0, LastStillExists, StillResolvedOnce DEF es2
  <1> QED
    BY <1>7, <1>8, <1>10, <1>11 DEF Agrees, es2, a, id

(* a payment *)
LEMMA ClaimedAgrees ==
  ASSUME NEW es \in Seq(Events), NEW e \in Events, NEW r, Agrees(es, r), MayFollow(es, e),
         e.kind = "claimed"
  PROVE  Agrees(Append(es, e), Apply(r, e, Len(es) + 1))
  <1> DEFINE es2 == Append(es, e)
             id == Len(es) + 1
             a == Apply(r, e, id)
             b == [r.balance EXCEPT ![e.by] = 0]
  <1>0. /\ Shaped(r) /\ LastExists(es) /\ ResolvedOnce(es) /\ ProposalsAgree(es, r)
        /\ RulingsAgree(es, r) /\ DisputeAgrees(es, r) /\ BalancesAgree(es, r)
    BY DEF Agrees
  <1>1. Kind(e) = "claimed"
    BY DEF Kind, Resolutions
  <1>2. a = Tables(r.issue, r.dispute, r.proposals, r.rulings, b)
    <2>1. a = [r EXCEPT !.balance = b]
      BY DEF Apply, Resolutions
    <2> HIDE DEF b, a
    <2> QED
      BY <1>0, <2>1, AsTables DEF Tables
  <1>3. /\ r.balance \in [Parties -> Nat] /\ b \in [Parties -> Nat]
        /\ \A p \in Parties : b[p] = IF p = e.by THEN 0 ELSE r.balance[p]
    BY <1>0 DEF Shaped
  <1> HIDE DEF es2, id, a, b
  <1>4. Shaped(a)
    <2>1. Shaped(Tables(r.issue, r.dispute, r.proposals, r.rulings, b))
      BY <1>0, <1>3, TablesShaped DEF Shaped
    <2> QED
      BY <1>2, <2>1
  <1>5. /\ a.issue = r.issue /\ a.dispute = r.dispute /\ a.rulings = r.rulings
        /\ a.proposals = r.proposals /\ a.balance = b
    BY <1>2, TablesFields
  <1>6. BalancesAgree(es2, a)
    BY <1>0, <1>1, <1>3, <1>5, ClaimableAppend DEF BalancesAgree, es2
  <1>7. RulingsAgree(es2, a) /\ ProposalsAgree(es2, a) /\ DisputeAgrees(es2, a)
    BY <1>0, <1>1, <1>5, RulingsKept, ProposalsKept, DisputeKept DEF es2, PhaseKinds
  <1>8. LastExists(es2) /\ ResolvedOnce(es2)
    BY <1>0, LastStillExists, StillResolvedOnce DEF es2
  <1> QED
    BY <1>4, <1>6, <1>7, <1>8 DEF Agrees, es2, a, id

(* what is raised, told or decided in a dispute *)
LEMMA DisputeEventAgrees ==
  ASSUME NEW es \in Seq(Events), NEW e \in Events, NEW r, Agrees(es, r), MayFollow(es, e),
         e.kind \in DisputeKinds
  PROVE  Agrees(Append(es, e), Apply(r, e, Len(es) + 1))
  <1> DEFINE es2 == Append(es, e)
             id == Len(es) + 1
             a == Apply(r, e, id)
             i == IssueAfter(r, e)
             posted == [event |-> id, kind |-> IF e.kind = "initial" THEN "INITIAL" ELSE "FINAL", share |-> e.share]
             x == RulingsAfter(r, e, id)
  <1>0. /\ Shaped(r) /\ LastExists(es) /\ ResolvedOnce(es) /\ ProposalsAgree(es, r)
        /\ RulingsAgree(es, r) /\ DisputeAgrees(es, r) /\ BalancesAgree(es, r)
    BY DEF Agrees
  <1>1. Kind(e) = e.kind /\ e.kind \in DisputeKinds
    BY DEF Kind, Resolutions, DisputeKinds
  <1>2. a = ApplyDispute(r, e, id)
    BY DEF Apply, Resolutions, DisputeKinds
  <1>3. PICK d : DisputeChanged(r, e, id, d)
    <2>1. e.kind \in {"raised", "evidence", "initial", "challenged", "final"}
      BY DEF DisputeKinds
    <2> HIDE DEF id, es2, a, i, x, posted
    <2> QED
      BY <1>0, <2>1, DisputeTables DEF DisputeChanged
  <1>4. /\ DOMAIN d = DOMAIN NoDispute
        /\ e.kind = "evidence" => d.status = r.dispute.status
        /\ e.kind # "evidence" => d.status \notin {None, "RESOLVED"}
    BY <1>3 DEF DisputeChanged
  <1>5. posted.event = id /\ posted.share = e.share /\ id \in Nat
    OBVIOUS
  <1>6. /\ i = [status |-> i.status, outcome |-> i.outcome]
        /\ i.status \in {"IN_PROGRESS", "DISPUTED", "COMPLETED"}
        /\ r.issue.status # "COMPLETED" => i.status # "COMPLETED"
    BY <1>0 DEF Shaped, IssueAfter
  <1> HIDE DEF a, i, x, es2, posted, id
  <1>7. a = Tables(i, d, r.proposals, x, r.balance)
    BY <1>2, <1>3 DEF DisputeChanged, i, x
  <1>8. Shaped(a)
    <2>1. Shaped(Tables(i, d, r.proposals, x, r.balance))
      BY <1>0, <1>4, <1>6, TablesShaped DEF Shaped
    <2> QED
      BY <1>7, <2>1
  <1>9. a.issue = i /\ a.dispute = d /\ a.proposals = r.proposals /\ a.rulings = x /\ a.balance = r.balance
    BY <1>7, TablesFields
  <1>10. ProposalsAgree(es2, a) /\ BalancesAgree(es2, a)
    BY <1>0, <1>1, <1>9, ProposalsKept, BalancesKept DEF es2, DisputeKinds
  <1>11. RulingsAgree(es2, a)
    <2>1. CASE e.kind \notin {"initial", "final"}
      BY <1>0, <1>1, <1>9, <2>1, RulingsKept DEF x, RulingsAfter, es2
    <2>2. CASE e.kind \in {"initial", "final"}
      <3> DEFINE s == Of(es, {"initial", "final"})
                 s2 == Of(es2, {"initial", "final"})
      <3>1. s2 = s \cup {id} /\ es2[id] = e /\ \A k \in s : es2[k] = es[k]
        BY <1>1, <2>2, OfAppend DEF es2, id
      <3>2. x = r.rulings \cup {posted}
        BY <2>2 DEF x, RulingsAfter, posted
      <3> HIDE DEF s, s2
      <3>3. \A y \in r.rulings : y.event \in s /\ y.share = es[y.event].share
        BY <1>0 DEF RulingsAgree, s
      <3>4. \A k \in s : \E y \in r.rulings : y.event = k
        BY <1>0 DEF RulingsAgree, s
      <3>5. \A y \in a.rulings : y.event \in s2 /\ y.share = es2[y.event].share
        BY <1>5, <1>9, <3>1, <3>2, <3>3
      <3>6. \A k \in s2 : \E y \in a.rulings : y.event = k
        BY <1>5, <1>9, <3>1, <3>2, <3>4
      <3> QED
        BY <3>5, <3>6 DEF RulingsAgree, s2
    <2> QED
      BY <2>1, <2>2
  <1>12. DisputeAgrees(es2, a)
    <2>1. Phase(es) # "RESOLVED" /\ (e.kind = "evidence" => Phase(es) = "DISPUTED")
      BY ContractRequires DEF DisputeKinds
    <2>2. r.issue.status # "COMPLETED" /\ r.dispute.status # "RESOLVED"
      BY <1>0, <2>1 DEF DisputeAgrees
    <2>3. e.kind = "evidence" => r.dispute.status # None
      BY <1>0, <2>1 DEF DisputeAgrees
    <2>4. a.dispute.status # "RESOLVED" /\ a.dispute.status # None
      BY <1>4, <1>9, <2>2, <2>3
    <2>5. a.issue.status # "COMPLETED"
      BY <1>6, <1>9, <2>2
    <2> QED
      BY <2>4, <2>5 DEF DisputeAgrees
  <1>13. LastExists(es2) /\ ResolvedOnce(es2)
    BY <1>0, LastStillExists, StillResolvedOnce DEF es2
  <1> QED
    BY <1>8, <1>10, <1>11, <1>12, <1>13 DEF Agrees, es2, a, id

(* the ruling that a resolution carries out is the contract's last one *)
LEMMA RulingCarriedOut ==
  ASSUME NEW es \in Seq(Events), NEW r, LastExists(es), ResolvedOnce(es), RulingsAgree(es, r),
         Phase(es) \in {"INITIAL_RULING", "FINAL_RULING"}
  PROVE  LatestRuling(r).share = RuledShare(es)
  <1> DEFINE s == Of(es, {"initial", "final"})
             l == Last(s)
             z == LatestRuling(r)
  <1>1. s # {} /\ l \in s
    BY DEF ResolvedOnce, LastExists, EventKinds
  <1>2. s \subseteq Nat
    BY DEF Of
  <1>3. \A m \in s : m <= l
    BY <1>1 DEF LastExists, EventKinds
  <1> HIDE DEF s, l
  <1>4. PICK y \in r.rulings : y.event = l
    BY <1>1 DEF RulingsAgree, s
  <1>5. \A x \in r.rulings : x.event \in s /\ x.share = es[x.event].share
    BY DEF RulingsAgree, s
  <1>6. \A x \in r.rulings : x.event <= y.event
    BY <1>3, <1>4, <1>5
  <1>7. z \in r.rulings /\ \A x \in r.rulings : x.event <= z.event
    BY <1>4, <1>6 DEF LatestRuling
  <1> HIDE DEF z
  <1>8. z.event = l
    <2>1. z.event \in s
      BY <1>5, <1>7
    <2>2. z.event <= l /\ l <= z.event
      BY <1>3, <1>4, <1>7, <2>1
    <2>3. z.event \in Nat /\ l \in Nat
      BY <1>1, <1>2, <2>1
    <2> QED
      BY <2>2, <2>3
  <1> QED
    BY <1>5, <1>7, <1>8 DEF RuledShare, z, l, s

(* a resolution *)
LEMMA ResolvedAgrees ==
  ASSUME NEW es \in Seq(Events), NEW e \in Events, NEW r, Agrees(es, r), MayFollow(es, e),
         e.kind \in Resolutions
  PROVE  Agrees(Append(es, e), Apply(r, e, Len(es) + 1))
  <1> DEFINE es2 == Append(es, e)
             id == Len(es) + 1
             a == Apply(r, e, id)
             s == IF e.kind = "SETTLEMENT" THEN "ACCEPTED" ELSE "VOIDED"
             q == Closed(r, s, id)
             i == [status |-> "COMPLETED", outcome |-> e.kind]
             b == [p \in Parties |-> r.balance[p] + Paid(e.share)[p]]
  <1>0. /\ Shaped(r) /\ LastExists(es) /\ ResolvedOnce(es) /\ ProposalsAgree(es, r)
        /\ RulingsAgree(es, r) /\ DisputeAgrees(es, r) /\ BalancesAgree(es, r)
    BY DEF Agrees
  <1>1. Kind(e) = "resolved"
    BY DEF Kind
  <1>2. Phase(es) # "RESOLVED"
    BY ContractRequires DEF Resolutions
  <1>3. id \in Nat \ {0} /\ s \in {"REVOKED", "ACCEPTED", "VOIDED"}
    OBVIOUS
  <1>4. a = ApplyResolved(r, e, id)
    BY DEF Apply, Resolutions
  <1>5. PICK d : /\ ApplyResolved(r, e, id) = Tables(i, d, q, r.rulings, b)
                 /\ DOMAIN d = DOMAIN NoDispute
                 /\ ~DisputeEnds(e) \/ r.dispute = NoDispute => d = r.dispute
                 /\ DisputeEnds(e) /\ r.dispute # NoDispute => d.status = "RESOLVED" /\ d.finalShare = FinalShare(r, e)
    BY <1>0, <1>3, ResolvedTables
  <1>6. q \in Seq(Proposals) /\ \A n \in DOMAIN q : q[n].status # "PENDING"
    BY <1>0, <1>3, ClosedProposals
  <1>7. e.share \in 0..Whole /\ Paid(e.share) \in [Parties -> 0..Whole]
    BY KindOf, PaidShares
  <1>8. b \in [Parties -> Nat] /\ \A p \in Parties : b[p] = r.balance[p] + Paid(e.share)[p]
    <2>1. r.balance \in [Parties -> Nat]
      BY <1>0 DEF Shaped
    <2> QED
      BY <1>7, <2>1, DisputesAssumption
  <1>9. i.status = "COMPLETED" /\ i.outcome = e.kind /\ i = [status |-> i.status, outcome |-> i.outcome]
    OBVIOUS
  <1> HIDE DEF es2, id, a, s, q, i, b
  <1>10. a = Tables(i, d, q, r.rulings, b)
    BY <1>4, <1>5
  <1>11. Shaped(a)
    <2>1. Shaped(Tables(i, d, q, r.rulings, b))
      BY <1>5, <1>6, <1>8, <1>9, TablesShaped
    <2> QED
      BY <1>10, <2>1
  <1>12. /\ a.issue = i /\ a.dispute = d /\ a.rulings = r.rulings /\ a.proposals = q /\ a.balance = b
         /\ Pending(a) = {}
    BY <1>6, <1>10, TablesFields
  <1>13. ProposalsAgree(es2, a)
    <2>1. Open(es2) = {}
      BY <1>1, OpenAppend DEF es2
    <2> QED
      BY <1>12, <2>1 DEF ProposalsAgree
  <1>14. RulingsAgree(es2, a)
    BY <1>0, <1>1, <1>12, RulingsKept DEF es2
  <1>15. BalancesAgree(es2, a)
    <2>1. ASSUME NEW p \in Parties PROVE a.balance[p] = Claimable(es2, p)
      <3>1. Of(es, {"resolved"}) = {}
        BY <1>0, <1>2 DEF ResolvedOnce
      <3>2. r.balance[p] = 0
        BY <1>0, <3>1 DEF BalancesAgree, Claimable
      <3>3. Claimable(es2, p) = Paid(e.share)[p]
        BY <1>0, <1>1, <1>2, ClaimableAppend DEF es2
      <3>4. Paid(e.share)[p] \in Nat
        BY <1>7, DisputesAssumption
      <3> QED
        BY <1>8, <1>12, <3>2, <3>3, <3>4
    <2> QED
      BY <2>1 DEF BalancesAgree
  <1>16. DisputeAgrees(es2, a)
    <2>1. Phase(es2) = "RESOLVED"
      <3>1. PhaseAfter["resolved"] = "RESOLVED"
        BY DEF PhaseAfter
      <3> QED
        BY <1>0, <1>1, <3>1, PhaseAppend DEF es2, PhaseKinds
    <2>2. es2[Last(Of(es2, {"resolved"}))] = e
      BY <1>1, OfAppend, LastAppend DEF es2
    <2>3. ASSUME d.status = "RESOLVED" PROVE d.finalShare = e.share
      <3>1. DisputeEnds(e) /\ r.dispute # NoDispute
        BY <1>0, <1>2, <1>5, <2>3 DEF DisputeAgrees
      <3>2. d.finalShare = FinalShare(r, e)
        BY <1>5, <3>1
      <3>3. CASE e.kind = "RULING"
        <4>1. Phase(es) \in {"INITIAL_RULING", "FINAL_RULING"} /\ e.share = RuledShare(es)
          BY <3>3, ContractRequires
        <4>2. LatestRuling(r).share = RuledShare(es)
          BY <1>0, <4>1, RulingCarriedOut
        <4> QED
          BY <3>2, <3>3, <4>1, <4>2 DEF FinalShare
      <3>4. CASE e.kind = "ARBITER_TIMEOUT_SPLIT"
        BY <3>2, <3>4, ContractRequires DEF FinalShare
      <3> QED
        BY <3>1, <3>3, <3>4 DEF DisputeEnds
    <2> QED
      BY <1>12, <2>1, <2>2, <2>3 DEF DisputeAgrees
  <1>17. LastExists(es2) /\ ResolvedOnce(es2)
    BY <1>0, LastStillExists, StillResolvedOnce DEF es2
  <1> QED
    BY <1>11, <1>13, <1>14, <1>15, <1>16, <1>17 DEF Agrees, es2, a, id

(* the rows know of the events, with one more of them, what they did *)
LEMMA StillAgrees ==
  ASSUME NEW es \in Seq(Events), NEW e \in Events, NEW r, Agrees(es, r), MayFollow(es, e)
  PROVE  Agrees(Append(es, e), Apply(r, e, Len(es) + 1))
  <1>1. \/ e.kind = "proposed" \/ e.kind = "revoked" \/ e.kind = "claimed"
        \/ e.kind \in DisputeKinds \/ e.kind \in Resolutions
    BY DEF Events, Kinds, DisputeKinds
  <1> QED
    BY <1>1, ProposedAgrees, RevokedAgrees, ClaimedAgrees, DisputeEventAgrees, ResolvedAgrees

(* new rows know that nothing has happened *)
LEMMA NewRowsAgree == Agrees(<<>>, NewRows)
  <1>1. \A kinds : Of(<<>>, kinds) = {}
    BY DEF Of
  <1>2. Phase(<<>>) = "FUNDED" /\ Open(<<>>) = {}
    BY <1>1 DEF Phase, Open
  <1>3. NewRows = Tables([status |-> "IN_PROGRESS", outcome |-> None], NoDispute, <<>>, {}, [p \in Parties |-> 0])
    BY DEF NewRows, Tables
  <1>4. /\ NewRows.issue = [status |-> "IN_PROGRESS", outcome |-> None] /\ NewRows.dispute = NoDispute
        /\ NewRows.proposals = <<>> /\ NewRows.rulings = {} /\ NewRows.balance = [p \in Parties |-> 0]
    BY DEF NewRows
  <1>5. NoDispute.status = None
    BY DEF NoDispute
  <1>6. Shaped(NewRows)
    BY <1>3, <1>4 DEF Shaped, Tables
  <1>7. Pending(NewRows) = {}
    BY <1>4 DEF Pending
  <1>8. LastExists(<<>>) /\ ResolvedOnce(<<>>)
    BY <1>1, <1>2 DEF LastExists, ResolvedOnce, Phases
  <1>9. ProposalsAgree(<<>>, NewRows) /\ RulingsAgree(<<>>, NewRows)
    BY <1>1, <1>2, <1>4, <1>7 DEF ProposalsAgree, RulingsAgree
  <1>10. DisputeAgrees(<<>>, NewRows) /\ BalancesAgree(<<>>, NewRows)
    BY <1>1, <1>2, <1>4, <1>5 DEF DisputeAgrees, BalancesAgree, Claimable, None
  <1> QED
    BY <1>6, <1>8, <1>9, <1>10 DEF Agrees

-----------------------------------------------------------------------------
(* Natural numbers: < is well-founded, so a non-empty set has a least element *)

(* the order on the natural numbers is well-founded *)
LEMMA BelowWellFounded == IsWellFoundedOn({p \in Nat \X Nat : p[1] < p[2]}, Nat)
  <1>1. OpToRel(<, Nat) = {p \in Nat \X Nat : p[1] < p[2]}
    BY DEF OpToRel
  <1> QED
    BY <1>1, NatLessThanWellFounded

(* a non-empty set of natural numbers has a least element *)
LEMMA Smallest ==
  ASSUME NEW S, S \subseteq Nat, S # {}
  PROVE  \E x \in S : \A y \in S : x <= y
  <1> DEFINE R == {p \in Nat \X Nat : p[1] < p[2]}
  <1>1. PICK x \in S : \A y \in S : ~(<<y, x>> \in R)
    <2> HIDE DEF R
    <2> QED
      BY BelowWellFounded, WFMin DEF R
  <1>2. ASSUME NEW y \in S PROVE x <= y
    <2>1. x \in Nat /\ y \in Nat /\ ~(<<y, x>> \in R)
      BY <1>1
    <2>2. <<y, x>> \in R <=> y < x
      BY <2>1
    <2> QED
      BY <2>1, <2>2
  <1> QED
    BY <1>2

(* two functions that agree at l, and below wherever they agree one above, agree at n *)
LEMMA Downward ==
  ASSUME NEW l \in Nat, NEW n \in 0..l, NEW c, NEW w, c[l] = w[l],
         \A k \in n..(l - 1) : c[k + 1] = w[k + 1] => c[k] = w[k]
  PROVE  c[n] = w[n]
  <1> DEFINE good == {j \in 0..(l - n) : c[l - j] = w[l - j]}
  <1>1. 0 \in good
    OBVIOUS
  <1>2. \A j \in good : j # l - n => j + 1 \in good
    <2> SUFFICES ASSUME NEW j \in good, j # l - n PROVE j + 1 \in good
      OBVIOUS
    <2>1. j \in 0..(l - n) /\ c[l - j] = w[l - j]
      OBVIOUS
    <2>2. PICK k : k = l - (j + 1)
      OBVIOUS
    <2>3. k \in n..(l - 1) /\ k + 1 = l - j /\ j + 1 \in 0..(l - n)
      BY <2>1, <2>2
    <2>4. c[k] = w[k]
      BY <2>1, <2>3
    <2> QED
      BY <2>2, <2>3, <2>4
  <1> HIDE DEF good
  <1>3. l - n \in good
    <2> DEFINE bad == (0..(l - n)) \ good
    <2>1. SUFFICES ASSUME bad # {} PROVE FALSE
      OBVIOUS
    <2>2. PICK x \in bad : \A y \in bad : x <= y
      <3>1. bad \subseteq Nat
        OBVIOUS
      <3> QED
        BY <2>1, <3>1, Smallest
    <2>3. x - 1 \in good /\ x - 1 # l - n /\ (x - 1) + 1 = x
      BY <1>1, <2>2
    <2> QED
      BY <1>2, <2>2, <2>3
  <1> QED
    BY <1>3 DEF good

-----------------------------------------------------------------------------
(* Sequences of anything *)

(* a function on 1..l is a sequence *)
LEMMA AsSequence ==
  ASSUME NEW q, NEW l \in Nat, q = [n \in 1..l |-> q[n]]
  PROVE  \E S : q \in Seq(S) /\ Len(q) = l
  <1> DEFINE S == {q[n] : n \in 1..l}
  <1>1. \A n \in 1..l : q[n] \in S
    OBVIOUS
  <1> HIDE DEF S
  <1>2. q \in [1..l -> S]
    BY <1>1
  <1>3. q \in Seq(S) /\ Len(q) = l
    BY <1>2
  <1> QED
    BY <1>3

(* a sequence with one more element *)
LEMMA Appended ==
  ASSUME NEW q, NEW l \in Nat, q = [n \in 1..l |-> q[n]], NEW x, NEW p, p = Append(q, x)
  PROVE  /\ Len(p) = l + 1 /\ p[l + 1] = x /\ \A n \in 1..l : p[n] = q[n]
         /\ p = [n \in 1..(l + 1) |-> p[n]]
         /\ p = [n \in 1..(l + 1) |-> IF n = l + 1 THEN x ELSE q[n]]
  <1>1. PICK S : q \in Seq(S) /\ Len(q) = l
    BY AsSequence
  <1>2. q \in Seq(S \cup {x})
    BY <1>1
  <1>3. p \in Seq(S \cup {x}) /\ Len(p) = l + 1 /\ DOMAIN p = 1..(l + 1)
    BY <1>1, <1>2
  <1>4. p[l + 1] = x /\ \A n \in 1..l : p[n] = q[n]
    BY <1>1, <1>2
  <1>5. p = [n \in 1..(l + 1) |-> p[n]]
    BY <1>3
  <1>6. \A n \in 1..(l + 1) : p[n] = IF n = l + 1 THEN x ELSE q[n]
    BY <1>4
  <1> QED
    BY <1>3, <1>4, <1>5, <1>6

(* the first elements of a sequence *)
LEMMA Cut ==
  ASSUME NEW q, NEW l \in Nat, q = [n \in 1..l |-> q[n]], NEW k \in 0..l, NEW p, p = SubSeq(q, 1, k)
  PROVE  Len(p) = k /\ p = [n \in 1..k |-> p[n]] /\ \A n \in 1..k : p[n] = q[n]
  <1>1. PICK S : q \in Seq(S) /\ Len(q) = l
    BY AsSequence
  <1> QED
    BY <1>1

-----------------------------------------------------------------------------
(* What the snapshots say *)

(* the events projected are a sequence of events *)
LEMMA EventsSequence ==
  ASSUME Recorded, NEW n \in 0..Len(projected)
  PROVE  /\ EventsTo(n) \in Seq(Events) /\ Len(EventsTo(n)) = n /\ DOMAIN EventsTo(n) = 1..n
         /\ \A m \in 1..n : EventsTo(n)[m] = projected[m].event
  <1>1. EventsTo(n) \in [1..n -> Events]
    BY DEF EventsTo, Recorded
  <1>2. n \in Nat
    BY DEF Recorded
  <1> QED
    BY <1>1, <1>2 DEF EventsTo

(* the history is all events projected *)
LEMMA HistoryAll ==
  ASSUME Recorded
  PROVE  History = EventsTo(Len(projected)) /\ DOMAIN projected = 1..Len(projected)
  <1>1. DOMAIN projected = 1..Len(projected)
    BY DEF Recorded
  <1> QED
    BY <1>1 DEF History, EventsTo

(* the rows are those of the events projected *)
LEMMA RowsAreFold ==
  ASSUME IInv
  PROVE  rows = RowsOf(History)
  <1> DEFINE L == Len(projected)
             es == History
             Folds(f) == f = [n \in 0..Len(es) |-> IF n = 0 THEN NewRows ELSE Apply(f[n - 1], es[n], n)]
             w == [n \in 0..L |-> RowsAt(n)]
             c == CHOOSE f : Folds(f)
  <1>1. L \in Nat /\ Len(es) = L /\ \A n \in 1..L : es[n] = projected[n].event
    BY HistoryAll, EventsSequence DEF IInv, Recorded
  <1>2. RowsAt(0) = NewRows /\ \A n \in 1..L : RowsAt(n) = Apply(RowsAt(n - 1), es[n], n)
    BY <1>1 DEF IInv, Linked
  <1>3. RowsOf(es) = c[Len(es)]
    BY DEF RowsOf
  <1> HIDE DEF L, es
  <1>4. Folds(w)
    <2>1. ASSUME NEW n \in 0..L PROVE RowsAt(n) = IF n = 0 THEN NewRows ELSE Apply(w[n - 1], es[n], n)
      <3>1. CASE n = 0
        BY <1>2, <3>1
      <3>2. CASE n # 0
        <4>1. n \in 1..L /\ n - 1 \in 0..L
          BY <1>1, <3>2
        <4>2. w[n - 1] = RowsAt(n - 1)
          BY <4>1
        <4> QED
          BY <1>2, <3>2, <4>1, <4>2
      <3> QED
        BY <3>1, <3>2
    <2> QED
      BY <1>1, <2>1
  <1>5. Folds(c)
    BY <1>4
  <1>6. /\ c[0] = NewRows
        /\ \A n \in 1..L : c[n] = Apply(c[n - 1], es[n], n)
    <2> HIDE DEF c
    <2>1. \A n \in 0..L : c[n] = IF n = 0 THEN NewRows ELSE Apply(c[n - 1], es[n], n)
      BY <1>1, <1>5
    <2> QED
      BY <1>1, <2>1
  <1> HIDE DEF c, w, Folds
  <1>7. \A n \in 0..L : c[n] = RowsAt(n)
    <2> DEFINE bad == {n \in 0..L : c[n] # RowsAt(n)}
    <2>1. SUFFICES ASSUME bad # {} PROVE FALSE
      OBVIOUS
    <2>2. bad \subseteq Nat
      BY <1>1
    <2>3. PICK x \in bad : \A y \in bad : x <= y
      BY <2>1, <2>2, Smallest
    <2>4. x # 0
      BY <1>2, <1>6
    <2>5. x \in 1..L /\ x - 1 \in 0..L /\ x - 1 \notin bad
      BY <1>1, <2>3, <2>4
    <2> QED
      BY <1>2, <1>6, <2>5
  <1>8. L \in 0..L
    BY <1>1
  <1>9. RowsAt(L) = rows
    BY DEF RowsAt, L
  <1> QED
    BY <1>1, <1>3, <1>7, <1>8, <1>9 DEF es

(* undoing the events after the first n gives the rows these had left *)
LEMMA RewoundRows ==
  ASSUME IInv, NEW n \in 0..Len(projected)
  PROVE  Rewound(n) = RowsAt(n)
  <1> DEFINE L == Len(projected)
             Undoes(f) == f = [k \in n..L |-> IF k = L THEN rows ELSE Undo(f[k + 1], k + 1)]
             w == [k \in n..L |-> RowsAt(k)]
             c == CHOOSE f : Undoes(f)
  <1>1. L \in Nat /\ n \in 0..L
    BY DEF IInv, Recorded
  <1>2. RowsAt(L) = rows
    BY DEF RowsAt
  <1>3. ASSUME NEW k \in n..(L - 1) PROVE RowsAt(k) = Undo(RowsAt(k + 1), k + 1)
    <2> DEFINE id == k + 1
               e == projected[id].event
    <2>1. /\ k \in 0..Len(projected) /\ id \in 1..Len(projected) /\ id \in Nat \ {0}
          /\ id - 1 = k /\ id \in DOMAIN projected
      BY <1>1, HistoryAll DEF IInv
    <2>2. Accepts(RowsAt(k), e) /\ RowsAt(id) = Apply(RowsAt(k), e, id)
      BY <2>1 DEF IInv, Linked
    <2>3. Agrees(EventsTo(k), RowsAt(k)) /\ DOMAIN EventsTo(k) = 1..k /\ e \in Events
      BY <2>1, EventsSequence DEF IInv, Recorded
    <2>4. projected[id].was = RowsAt(k)
      BY <1>1 DEF RowsAt
    <2> HIDE DEF id
    <2>5. Undo(Apply(RowsAt(k), e, id), id) = RowsAt(k)
      BY <2>1, <2>2, <2>3, <2>4, Undone
    <2> QED
      BY <2>2, <2>5 DEF id
  <1>4. Rewound(n) = c[n]
    BY DEF Rewound
  <1> HIDE DEF L
  <1>5. Undoes(w)
    <2>1. ASSUME NEW k \in n..L PROVE RowsAt(k) = IF k = L THEN rows ELSE Undo(w[k + 1], k + 1)
      <3>1. CASE k = L
        BY <1>2, <3>1
      <3>2. CASE k # L
        <4>1. k \in n..(L - 1) /\ k + 1 \in n..L
          BY <1>1, <3>2
        <4>2. w[k + 1] = RowsAt(k + 1)
          BY <4>1
        <4> QED
          BY <1>3, <3>2, <4>1, <4>2
      <3> QED
        BY <3>1, <3>2
    <2> QED
      BY <2>1
  <1>6. Undoes(c)
    BY <1>5
  <1>7. \A k \in n..L : c[k] = IF k = L THEN rows ELSE Undo(c[k + 1], k + 1)
    <2> HIDE DEF c
    <2> QED
      BY <1>6
  <1> HIDE DEF c, w, Undoes
  <1>8. c[L] = w[L] /\ \A k \in n..(L - 1) : c[k + 1] = w[k + 1] => c[k] = w[k]
    <2>1. \A k \in n..L : w[k] = IF k = L THEN rows ELSE Undo(w[k + 1], k + 1)
      BY <1>5 DEF Undoes
    <2>2. ASSUME NEW k \in n..(L - 1), c[k + 1] = w[k + 1] PROVE c[k] = w[k]
      <3>1. k \in n..L /\ k # L
        BY <1>1
      <3> QED
        BY <1>7, <2>1, <2>2, <3>1
    <2>3. L \in n..L
      BY <1>1
    <2> QED
      BY <1>7, <2>1, <2>2, <2>3
  <1>9. c[n] = w[n]
    <2>1. c[L] = w[L]
      BY <1>8
    <2>2. \A k \in n..(L - 1) : c[k + 1] = w[k + 1] => c[k] = w[k]
      BY <1>8
    <2> QED
      BY <1>1, <2>1, <2>2, Downward
  <1>10. w[n] = RowsAt(n)
    BY <1>1 DEF w
  <1> QED
    BY <1>4, <1>9, <1>10

-----------------------------------------------------------------------------
(* Where the manifests hang *)

(* only the first n events matter *)
LEMMA SameHangs ==
  ASSUME NEW n \in Nat, NEW p, NEW q, \A m \in 1..n : q[m] = p[m]
  PROVE  /\ \A h, v : Hangs(p, n, h, v) => Hangs(q, n, h, v)
         /\ \A a : Hung(p, n, a) => Hung(q, n, a)
         /\ \A m \in 1..n : CarriedFrom(p, m) => CarriedFrom(q, m)
  <1>1. \A m \in 1..n : \A h : Carries(q, m, h) <=> Carries(p, m, h)
    BY DEF Carries
  <1>2. ASSUME NEW k \in 0..n, NEW h, NEW v, Hangs(p, k, h, v) PROVE Hangs(q, k, h, v)
    <2>1. v \in 0..k /\ 1..k \subseteq 1..n /\ (v # 0 => v \in 1..n)
      BY <1>2 DEF Hangs
    <2> QED
      BY <1>1, <1>2, <2>1 DEF Hangs
  <1>3. n \in 0..n
    OBVIOUS
  <1>4. \A a : Hung(p, n, a) => Hung(q, n, a)
    BY <1>1, <1>2, <1>3 DEF Hung
  <1>5. ASSUME NEW m \in 1..n, CarriedFrom(p, m) PROVE CarriedFrom(q, m)
    <2>1. m - 1 \in 0..n
      OBVIOUS
    <2> QED
      BY <1>2, <1>5, <2>1 DEF CarriedFrom
  <1> QED
    BY <1>2, <1>3, <1>4, <1>5

(* after any number of events a manifest hangs somewhere *)
LEMMA HangsSomewhere ==
  ASSUME NEW n \in Nat, NEW h
  PROVE  \E v : Hangs(projected, n, h, v)
  <1> DEFINE above == {v \in 0..n : \A m \in 1..n : Carries(projected, m, h) => m <= v}
  <1>1. n \in above /\ above \subseteq Nat
    OBVIOUS
  <1>2. PICK v \in above : \A u \in above : v <= u
    <2> HIDE DEF above
    <2> QED
      BY <1>1, Smallest
  <1>3. v # 0 => Carries(projected, v, h)
    <2> SUFFICES ASSUME v # 0, ~Carries(projected, v, h) PROVE FALSE
      OBVIOUS
    <2>1. v - 1 \in 0..n /\ \A m \in 1..n : m <= v /\ m # v => m <= v - 1
      OBVIOUS
    <2>2. v - 1 \in above
      BY <2>1
    <2> QED
      BY <1>2, <2>2
  <1> QED
    BY <1>2, <1>3 DEF Hangs

(* and on one event only *)
LEMMA HangsOnce ==
  ASSUME NEW n \in Nat, NEW h, NEW u, NEW v, Hangs(projected, n, h, u), Hangs(projected, n, h, v)
  PROVE  u = v
  <1>1. u \in 0..n /\ v \in 0..n
    BY DEF Hangs
  <1>2. u # 0 => u <= v
    BY <1>1 DEF Hangs
  <1>3. v # 0 => v <= u
    BY <1>1 DEF Hangs
  <1> QED
    BY <1>1, <1>2, <1>3

(* the manifests as the first k events have left them *)
HungAt(k) == [h \in Manifests |-> IF evidence[h] = Unset THEN Unset
                                  ELSE CHOOSE v : Hangs(projected, k, h, v)]

(* where a saved manifest hangs after the first k events *)
LEMMA HungAtHangs ==
  ASSUME NEW k \in Nat, NEW h \in Manifests
  PROVE  /\ evidence[h] = Unset => HungAt(k)[h] = Unset
         /\ evidence[h] # Unset => Hangs(projected, k, h, HungAt(k)[h]) /\ HungAt(k)[h] \in 0..k
  <1>1. Hangs(projected, k, h, CHOOSE v : Hangs(projected, k, h, v))
    BY HangsSomewhere
  <1> QED
    BY <1>1 DEF HungAt, Hangs

(* an event with the hash of a saved manifest takes it over *)
LEMMA AttachHangs ==
  ASSUME NEW L \in Nat, NEW e, NEW q, NEW a,
         Hung(projected, L, evidence), \A m \in 1..L : CarriedFrom(projected, m),
         \A m \in 1..L : q[m] = projected[m],
         q[L + 1].event = e, q[L + 1].carried = Carried(evidence, e), a = Attach(evidence, e, L + 1)
  PROVE  Hung(q, L + 1, a) /\ \A m \in 1..(L + 1) : CarriedFrom(q, m)
  <1>1. /\ Hung(q, L, evidence) /\ \A m \in 1..L : CarriedFrom(q, m)
    BY SameHangs
  <1>2. \A h : Carries(q, L + 1, h) <=> e.hash = h /\ Carried(evidence, e) # Unset
    BY DEF Carries
  <1>3. Carried(evidence, e) # Unset => e.hash \in Manifests /\ Carried(evidence, e) = evidence[e.hash]
    BY DEF Carried
  <1>4. \A m \in 1..(L + 1) : m \in 1..L \/ m = L + 1
    OBVIOUS
  <1>5. CarriedFrom(q, L + 1)
    BY <1>1, <1>3 DEF CarriedFrom, Hung
  <1>6. a \in [Manifests -> Unset..(L + 1)]
    <2>1. evidence \in [Manifests -> Unset..(L + 1)]
      BY <1>1 DEF Hung, Unset
    <2>2. L + 1 \in Unset..(L + 1)
      BY DEF Unset
    <2> QED
      BY <2>1, <2>2 DEF Attach
  <1>7. ASSUME NEW h \in Manifests
        PROVE  IF a[h] = Unset THEN \A m \in 1..(L + 1) : ~Carries(q, m, h) ELSE Hangs(q, L + 1, h, a[h])
    <2>1. CASE Carried(evidence, e) # Unset /\ e.hash = h
      <3>1. a[h] = L + 1 /\ L + 1 # Unset
        BY <1>1, <2>1 DEF Attach, Hung, Unset
      <3>2. Hangs(q, L + 1, h, L + 1)
        BY <1>2, <2>1 DEF Hangs
      <3> QED
        BY <3>1, <3>2
    <2>2. CASE ~(Carried(evidence, e) # Unset /\ e.hash = h)
      <3>1. a[h] = evidence[h]
        BY <1>1, <2>2 DEF Attach, Hung
      <3>2. ~Carries(q, L + 1, h)
        BY <1>2, <2>2
      <3>3. CASE evidence[h] = Unset
        BY <1>1, <1>4, <3>1, <3>2, <3>3 DEF Hung
      <3>4. CASE evidence[h] # Unset
        <4>1. Hangs(q, L, h, evidence[h])
          BY <1>1, <3>4 DEF Hung
        <4>2. Hangs(q, L + 1, h, evidence[h])
          BY <1>4, <3>2, <4>1 DEF Hangs
        <4> QED
          BY <3>1, <3>4, <4>2
      <3> QED
        BY <3>3, <3>4
    <2> QED
      BY <2>1, <2>2
  <1> QED
    BY <1>1, <1>4, <1>5, <1>6, <1>7 DEF Hung

(* taking an event back gives the manifests as the events before it left them *)
LEMMA DetachedHangs ==
  ASSUME NEW k \in Nat, CarriedFrom(projected, k + 1)
  PROVE  Detached(HungAt(k + 1), k + 1) = HungAt(k)
  <1> DEFINE id == k + 1
             a == HungAt(id)
  <1>1. id \in Nat /\ id - 1 = k /\ id # Unset /\ id # 0
    BY DEF Unset
  <1> HIDE DEF id
  <1>2. ASSUME NEW h \in Manifests
        PROVE  (IF a[h] = id /\ projected[id].carried # Unset THEN projected[id].carried ELSE a[h]) = HungAt(k)[h]
    <2>1. CASE evidence[h] = Unset
      BY <1>1, <2>1, HungAtHangs
    <2>2. CASE evidence[h] # Unset
      <3>1. Hangs(projected, id, h, a[h]) /\ Hangs(projected, k, h, HungAt(k)[h])
        BY <1>1, <2>2, HungAtHangs
      <3>2. CASE a[h] = id
        <4>1. projected[id].event.hash = h /\ projected[id].carried # Unset
          BY <1>1, <3>1, <3>2 DEF Hangs, Carries
        <4>2. Hangs(projected, k, h, projected[id].carried)
          BY <1>1, <4>1 DEF CarriedFrom, id
        <4> QED
          BY <3>1, <3>2, <4>1, <4>2, HangsOnce
      <3>3. CASE a[h] # id
        <4>1. Hangs(projected, k, h, a[h])
          BY <1>1, <3>1, <3>3 DEF Hangs, id
        <4> QED
          BY <3>1, <3>3, <4>1, HangsOnce
      <3> QED
        BY <3>2, <3>3
    <2> QED
      BY <2>1, <2>2
  <1>3. HungAt(k) = [h \in Manifests |-> HungAt(k)[h]]
    BY DEF HungAt
  <1> QED
    BY <1>2, <1>3 DEF Detached, id

(* undoing the events after the first n gives the manifests as these left them *)
LEMMA RewoundHangs ==
  ASSUME IInv, SavesApart, NEW n \in 0..Len(projected)
  PROVE  Hung(projected, n, RewoundEvidence(n))
  <1> DEFINE L == Len(projected)
             Undoes(f) == f = [k \in n..L |-> IF k = L THEN evidence ELSE Detached(f[k + 1], k + 1)]
             w == [k \in n..L |-> HungAt(k)]
             c == CHOOSE f : Undoes(f)
  <1>1. L \in Nat /\ n \in 0..L /\ n \in Nat
    BY DEF IInv, Recorded
  <1>2. Hung(projected, L, evidence)
    BY DEF IInv, EvidenceHangs
  <1>3. HungAt(L) = evidence
    <2>1. ASSUME NEW h \in Manifests PROVE HungAt(L)[h] = evidence[h]
      <3>1. CASE evidence[h] = Unset
        BY <1>1, <3>1, HungAtHangs
      <3>2. CASE evidence[h] # Unset
        <4>1. Hangs(projected, L, h, evidence[h]) /\ Hangs(projected, L, h, HungAt(L)[h])
          BY <1>1, <1>2, <3>2, HungAtHangs DEF Hung
        <4> QED
          BY <1>1, <4>1, HangsOnce
      <3> QED
        BY <3>1, <3>2
    <2>2. HungAt(L) = [h \in Manifests |-> HungAt(L)[h]]
      BY DEF HungAt
    <2>3. evidence = [h \in Manifests |-> evidence[h]]
      BY <1>2 DEF Hung
    <2> QED
      BY <2>1, <2>2, <2>3
  <1>4. ASSUME NEW k \in n..(L - 1) PROVE HungAt(k) = Detached(HungAt(k + 1), k + 1)
    <2>1. k \in Nat /\ k + 1 \in 1..L
      BY <1>1
    <2>2. CarriedFrom(projected, k + 1)
      BY <2>1 DEF IInv, EvidenceHangs
    <2> QED
      BY <2>1, <2>2, DetachedHangs
  <1>5. RewoundEvidence(n) = c[n]
    BY DEF RewoundEvidence
  <1> HIDE DEF L
  <1>6. \A k \in n..L : w[k] = IF k = L THEN evidence ELSE Detached(w[k + 1], k + 1)
    <2> SUFFICES ASSUME NEW k \in n..L
                 PROVE  HungAt(k) = IF k = L THEN evidence ELSE Detached(w[k + 1], k + 1)
      OBVIOUS
    <2>1. CASE k = L
      BY <1>3, <2>1
    <2>2. CASE k # L
      <3>1. k \in n..(L - 1) /\ k + 1 \in n..L
        BY <1>1, <2>2
      <3>2. w[k + 1] = HungAt(k + 1)
        BY <3>1
      <3> QED
        BY <1>4, <2>2, <3>1, <3>2
    <2> QED
      BY <2>1, <2>2
  <1>7. Undoes(w)
    <2>1. w = [k \in n..L |-> w[k]]
      OBVIOUS
    <2> HIDE DEF w
    <2> QED
      BY <1>6, <2>1
  <1>8. Undoes(c)
    BY <1>7
  <1>9. \A k \in n..L : c[k] = IF k = L THEN evidence ELSE Detached(c[k + 1], k + 1)
    <2> HIDE DEF c
    <2> QED
      BY <1>8
  <1> HIDE DEF c, w, Undoes
  <1>10. c[L] = w[L] /\ \A k \in n..(L - 1) : c[k + 1] = w[k + 1] => c[k] = w[k]
    <2>1. ASSUME NEW k \in n..(L - 1), c[k + 1] = w[k + 1] PROVE c[k] = w[k]
      <3>1. k \in n..L /\ k # L
        BY <1>1
      <3> QED
        BY <1>6, <1>9, <2>1, <3>1
    <2>2. L \in n..L
      BY <1>1
    <2> QED
      BY <1>6, <1>9, <2>1, <2>2
  <1>11. c[n] = w[n]
    <2>1. c[L] = w[L]
      BY <1>10
    <2>2. \A k \in n..(L - 1) : c[k + 1] = w[k + 1] => c[k] = w[k]
      BY <1>10
    <2> QED
      BY <1>1, <2>1, <2>2, Downward
  <1>12. w[n] = HungAt(n)
    BY <1>1 DEF w
  <1>13. Hung(projected, n, HungAt(n))
    <2>1. \A m \in 1..n : m \in 1..L
      BY <1>1
    <2>2. ASSUME NEW h \in Manifests
          PROVE  /\ HungAt(n)[h] \in Unset..n
                 /\ IF HungAt(n)[h] = Unset THEN \A m \in 1..n : ~Carries(projected, m, h)
                    ELSE Hangs(projected, n, h, HungAt(n)[h])
      <3>1. CASE evidence[h] = Unset
        <4>1. \A m \in 1..n : ~Carries(projected, m, h)
          BY <1>2, <2>1, <3>1 DEF Hung
        <4>2. HungAt(n)[h] = Unset /\ Unset \in Unset..n
          BY <1>1, <3>1, HungAtHangs DEF Unset
        <4> QED
          BY <4>1, <4>2
      <3>2. CASE evidence[h] # Unset
        <4>1. Hangs(projected, n, h, HungAt(n)[h]) /\ HungAt(n)[h] \in 0..n
          BY <1>1, <3>2, HungAtHangs
        <4>2. HungAt(n)[h] # Unset /\ HungAt(n)[h] \in Unset..n
          BY <1>1, <4>1 DEF Unset
        <4> QED
          BY <4>1, <4>2
      <3> QED
        BY <3>1, <3>2
    <2>3. HungAt(n) \in [Manifests -> Unset..n]
      <3>1. HungAt(n) = [h \in Manifests |-> HungAt(n)[h]]
        BY DEF HungAt
      <3> QED
        BY <2>2, <3>1
    <2> QED
      BY <2>2, <2>3 DEF Hung
  <1> QED
    BY <1>5, <1>11, <1>12, <1>13

-----------------------------------------------------------------------------
(* The invariant *)

(* it holds before the first event *)
LEMMA InitIInv == Init => IInv
  <1> SUFFICES ASSUME Init PROVE IInv
    OBVIOUS
  <1>1. /\ rows = NewRows /\ projected = <<>> /\ onChain = 0 /\ evidence = [h \in Manifests |-> Unset]
        /\ projection.phase = "FUNDED"
    BY DEF Init
  <1>2. Len(projected) = 0 /\ 1..Len(projected) = {}
    BY <1>1
  <1>3. Recorded
    BY <1>1, <1>2, DisputesAssumption DEF Recorded
  <1>4. RowsAt(0) = NewRows
    BY <1>1, <1>2 DEF RowsAt
  <1>5. EventsTo(0) = <<>>
    BY DEF EventsTo
  <1>6. \A n \in 0..Len(projected) : Agrees(EventsTo(n), RowsAt(n))
    <2>1. 0..Len(projected) = {0}
      BY <1>2
    <2> QED
      BY <1>4, <1>5, <2>1, NewRowsAgree
  <1>7. Linked /\ EvidenceHangs /\ projection.phase \in Phases
    BY <1>1, <1>2, <1>4 DEF Linked, EvidenceHangs, Hung, Unset, Phases
  <1> QED
    BY <1>3, <1>6, <1>7 DEF IInv

(* a phase that events of the contract reach *)
LEMMA PhaseTyped ==
  ASSUME IInv, NEW n \in 0..Len(projected)
  PROVE  Phase(EventsTo(n)) \in Phases
  BY DEF IInv, Agrees, ResolvedOnce

(* a step that projects nothing and undoes nothing *)
LEMMA QuietStep ==
  ASSUME IInv, UNCHANGED <<rows, projected>>, onChain' \in 0..Len(projected), projection'.phase \in Phases,
         EvidenceHangs'
  PROVE  IInv'
  <1>1. Recorded'
    BY DEF IInv, Recorded
  <1>2. Linked'
    BY DEF IInv, Linked, RowsAt
  <1>3. ASSUME NEW n \in 0..Len(projected') PROVE Agrees(EventsTo(n)', RowsAt(n)')
    <2>1. EventsTo(n)' = EventsTo(n) /\ RowsAt(n)' = RowsAt(n)
      BY DEF EventsTo, RowsAt
    <2> QED
      BY <2>1 DEF IInv
  <1>4. (\A n \in 0..Len(projected) : Agrees(EventsTo(n), RowsAt(n)))'
    BY <1>3
  <1> QED
    BY <1>1, <1>2, <1>4 DEF IInv

(* blocks leave the node's chain *)
LEMMA ReorganiseKeeps ==
  ASSUME IInv, NEW n \in 0..MaxEvents, Reorganise(n)
  PROVE  IInv'
  <1>1. UNCHANGED <<rows, evidence, projection, projected>> /\ onChain' = n /\ n < onChain
    BY DEF Reorganise, dbVars
  <1>2. n \in 0..Len(projected)
    BY <1>1, DisputesAssumption DEF IInv, Recorded
  <1>3. EvidenceHangs'
    BY <1>1 DEF IInv, EvidenceHangs
  <1> QED
    BY <1>1, <1>2, <1>3, QuietStep DEF IInv

(* a party saves a manifest *)
LEMMA ManifestKeeps ==
  ASSUME IInv, NEW h \in Manifests, CreateEvidenceManifest(h)
  PROVE  IInv'
  <1>1. /\ UNCHANGED <<rows, projection, projected, onChain>>
        /\ evidence[h] = Unset /\ evidence' = [evidence EXCEPT ![h] = 0]
    BY DEF CreateEvidenceManifest, Saved
  <1> DEFINE L == Len(projected)
  <1>2. L \in Nat /\ (SavesApart => Hung(projected, L, evidence))
    BY DEF IInv, Recorded, EvidenceHangs
  <1>3. ASSUME SavesApart PROVE Hung(projected, L, evidence')
    <2>0. Hung(projected, L, evidence)
      BY <1>2, <1>3
    <2>1. evidence' \in [Manifests -> Unset..L]
      BY <1>1, <1>2, <2>0 DEF Hung, Unset
    <2>2. \A m \in 1..L : ~Carries(projected, m, h)
      BY <1>1, <1>2, <2>0 DEF Hung
    <2>3. Hangs(projected, L, h, 0) /\ 0 # Unset /\ evidence'[h] = 0
      BY <1>1, <1>2, <2>0, <2>2 DEF Hung, Hangs, Unset
    <2>4. \A g \in Manifests : g # h => evidence'[g] = evidence[g]
      BY <1>1, <1>2, <2>0 DEF Hung
    <2> QED
      BY <1>2, <2>0, <2>1, <2>3, <2>4 DEF Hung
  <1>4. EvidenceHangs'
    BY <1>1, <1>3 DEF IInv, EvidenceHangs
  <1> QED
    BY <1>1, <1>4, QuietStep DEF IInv, Recorded

(* an event is projected *)
LEMMA ProjectEventKeeps ==
  ASSUME IInv, NEW e \in Events, ProjectEvent(e)
  PROVE  IInv'
  <1>L. PICK L : L = Len(projected)
    OBVIOUS
  <1>i. PICK id : id = L + 1
    OBVIOUS
  <1>0. /\ Recorded /\ Linked /\ EvidenceHangs /\ projection.phase \in Phases
        /\ \A n \in 0..L : Agrees(EventsTo(n), RowsAt(n))
    BY <1>L DEF IInv
  <1>1. /\ onChain = L /\ L < MaxEvents /\ MayFollow(History, e) /\ Accepts(rows, e)
        /\ rows' = Apply(rows, e, id) /\ (SavesApart => evidence' = Attach(evidence, e, id))
        /\ projected' = Append(projected, [event |-> e, was |-> rows, carried |-> Carried(evidence, e)])
        /\ projection' = IF e.kind = "claimed" THEN projection ELSE Fields(Append(History, e), projection.payout)
        /\ onChain' = id
    BY <1>L, <1>i DEF ProjectEvent, UpToDate, Attached
  <1>2. /\ History = EventsTo(L) /\ EventsTo(L) \in Seq(Events) /\ Len(EventsTo(L)) = L
        /\ L \in Nat /\ L \in 0..L /\ DOMAIN EventsTo(L) = 1..L
        /\ \A m \in 1..L : EventsTo(L)[m] = projected[m].event
    BY <1>L, <1>0, HistoryAll, EventsSequence DEF Recorded
  <1>3. RowsAt(L) = rows
    BY <1>L DEF RowsAt
  <1> DEFINE new == [event |-> e, was |-> rows, carried |-> Carried(evidence, e)]
  <1>4. /\ Len(projected') = id /\ projected'[id] = new /\ \A n \in 1..L : projected'[n] = projected[n]
        /\ projected' = [n \in 1..id |-> projected'[n]]
    <2>1. projected = [n \in 1..L |-> projected[n]]
      BY <1>L, <1>0 DEF Recorded
    <2>2. projected' = Append(projected, new)
      BY <1>1
    <2> HIDE DEF new
    <2>3. PICK p : p = projected'
      OBVIOUS
    <2>4. /\ Len(p) = L + 1 /\ p[L + 1] = new /\ \A n \in 1..L : p[n] = projected[n]
          /\ p = [n \in 1..(L + 1) |-> p[n]]
      BY <1>2, <2>1, <2>2, <2>3, Appended
    <2> QED
      BY <1>i, <2>3, <2>4
  <1>5. new.event = e /\ new.was = rows /\ new.carried = Carried(evidence, e)
    OBVIOUS
  <1>6. id \in Nat /\ id <= MaxEvents /\ id # 0
    BY <1>i, <1>1, <1>2, DisputesAssumption
  <1> HIDE DEF new
  <1>7. Recorded'
    <2>1. ASSUME NEW n \in 1..id
          PROVE  /\ projected'[n] = [event |-> projected'[n].event, was |-> projected'[n].was,
                                  carried |-> projected'[n].carried]
                 /\ projected'[n].event \in Events
      <3>1. CASE n = id
        BY <1>4, <3>1 DEF new
      <3>2. CASE n # id
        <4>1. n \in 1..L
          BY <1>i, <1>2, <3>2
        <4>2. /\ projected[n] = [event |-> projected[n].event, was |-> projected[n].was,
                                carried |-> projected[n].carried]
             /\ projected[n].event \in Events
          BY <1>L, <1>0, <4>1 DEF Recorded
        <4> QED
          BY <1>4, <4>1, <4>2
      <3> QED
        BY <3>1, <3>2
    <2>2. PICK q : q = projected'
      OBVIOUS
    <2>3. q = [n \in 1..id |-> [event |-> q[n].event, was |-> q[n].was, carried |-> q[n].carried]]
      BY <1>4, <2>1, <2>2
    <2>4. Len(q) = id /\ (\A n \in 1..id : q[n].event \in Events) /\ onChain' = id
      BY <1>1, <1>4, <2>1, <2>2
    <2>5. id \in 0..MaxEvents /\ id \in 0..id
      BY <1>6, DisputesAssumption
    <2> QED
      BY <2>2, <2>3, <2>4, <2>5 DEF Recorded
  <1>8. ASSUME NEW n \in 0..L PROVE RowsAt(n)' = RowsAt(n) /\ EventsTo(n)' = EventsTo(n)
    <2>1. RowsAt(n)' = projected'[n + 1].was
      BY <1>i, <1>2, <1>4 DEF RowsAt
    <2>2. CASE n = L
      BY <1>i, <1>3, <1>4, <1>5, <2>1, <2>2 DEF EventsTo
    <2>3. CASE n # L
      <3>1. n + 1 \in 1..L
        BY <1>2, <2>3
      <3> QED
        BY <1>L, <1>2, <1>4, <2>1, <2>3, <3>1 DEF RowsAt, EventsTo
    <2> QED
      BY <2>2, <2>3
  <1>9. RowsAt(id)' = Apply(rows, e, id) /\ EventsTo(id)' = Append(EventsTo(L), e)
    <2>1. RowsAt(id)' = rows'
      BY <1>4 DEF RowsAt
    <2>2. EventsTo(id)' = [m \in 1..id |-> projected'[m].event]
      BY DEF EventsTo
    <2>3. ASSUME NEW m \in 1..id
          PROVE  projected'[m].event = IF m = id THEN e ELSE EventsTo(L)[m]
      <3>1. m = id \/ m \in 1..L
        BY <1>i, <1>2
      <3>2. m \in 1..L => m # id
        BY <1>i, <1>2
      <3> QED
        BY <1>2, <1>4, <1>5, <3>1, <3>2
    <2>4. Append(EventsTo(L), e) = [m \in 1..id |-> IF m = id THEN e ELSE EventsTo(L)[m]]
      <3>1. PICK es : es = EventsTo(L)
        OBVIOUS
      <3>2. es = [m \in 1..L |-> es[m]]
        BY <3>1 DEF EventsTo
      <3>3. Append(es, e) = [m \in 1..id |-> IF m = id THEN e ELSE es[m]]
        BY <1>i, <1>2, <3>2, Appended
      <3> QED
        BY <3>1, <3>3
    <2> QED
      BY <1>1, <2>1, <2>2, <2>3, <2>4
  <1>10. Agrees(EventsTo(L), rows)
    BY <1>0, <1>2, <1>3
  <1>11. Agrees(Append(EventsTo(L), e), Apply(rows, e, id))
    BY <1>i, <1>1, <1>2, <1>10, StillAgrees
  <1>12. (\A n \in 0..Len(projected) : Agrees(EventsTo(n), RowsAt(n)))'
    <2>1. ASSUME NEW n \in 0..id PROVE Agrees(EventsTo(n)', RowsAt(n)')
      <3>1. CASE n = id
        BY <1>9, <1>11, <3>1
      <3>2. CASE n # id
        <4>1. n \in 0..L
          BY <1>i, <1>2, <3>2
        <4> QED
          BY <1>0, <1>8, <4>1
      <3> QED
        BY <3>1, <3>2
    <2> QED
      BY <1>4, <2>1
  <1>13. Linked'
    <2>1. RowsAt(0)' = NewRows
      BY <1>0, <1>2, <1>8 DEF Linked
    <2>2. ASSUME NEW n \in 1..id
          PROVE  /\ Accepts(RowsAt(n - 1)', projected'[n].event)
                 /\ RowsAt(n)' = Apply(RowsAt(n - 1)', projected'[n].event, n)
      <3>1. CASE n = id
        <4>1. RowsAt(n - 1)' = rows
          BY <1>i, <1>2, <1>3, <1>8, <3>1
        <4> QED
          BY <1>1, <1>4, <1>5, <1>9, <3>1, <4>1
      <3>2. CASE n # id
        <4>1. n \in 1..L /\ n \in 0..L /\ n - 1 \in 0..L
          BY <1>i, <1>2, <3>2
        <4>2. Accepts(RowsAt(n - 1), projected[n].event) /\ RowsAt(n) = Apply(RowsAt(n - 1), projected[n].event, n)
          BY <1>L, <1>0, <4>1 DEF Linked
        <4>3. RowsAt(n - 1)' = RowsAt(n - 1) /\ RowsAt(n)' = RowsAt(n) /\ projected'[n] = projected[n]
          BY <1>4, <1>8, <4>1
        <4> QED
          BY <4>2, <4>3
      <3> QED
        BY <3>1, <3>2
    <2> QED
      BY <1>4, <2>1, <2>2 DEF Linked
  <1>14. EvidenceHangs'
    <2> SUFFICES ASSUME SavesApart
                 PROVE  (/\ Hung(projected, Len(projected), evidence)
                         /\ \A n \in 1..Len(projected) : CarriedFrom(projected, n))'
      BY DEF EvidenceHangs
    <2>1. PICK q : q = projected'
      OBVIOUS
    <2>2. PICK a : a = evidence'
      OBVIOUS
    <2>3. /\ Len(q) = L + 1 /\ \A m \in 1..L : q[m] = projected[m]
          /\ q[L + 1].event = e /\ q[L + 1].carried = Carried(evidence, e) /\ a = Attach(evidence, e, L + 1)
      BY <1>i, <1>1, <1>4, <1>5, <2>1, <2>2
    <2>4. Hung(projected, L, evidence) /\ \A m \in 1..L : CarriedFrom(projected, m)
      BY <1>L, <1>0 DEF EvidenceHangs
    <2>5. Hung(q, L + 1, a) /\ \A m \in 1..(L + 1) : CarriedFrom(q, m)
      BY <1>2, <2>3, <2>4, AttachHangs
    <2> QED
      BY <2>1, <2>2, <2>3, <2>5
  <1>15. projection'.phase \in Phases
    <2>1. CASE e.kind = "claimed"
      BY <1>0, <1>1, <2>1
    <2>2. CASE e.kind # "claimed"
      <3>1. projection'.phase = Phase(Append(EventsTo(L), e))
        BY <1>1, <1>2, <2>2 DEF Fields
      <3> QED
        BY <1>11, <3>1 DEF Agrees, ResolvedOnce
    <2> QED
      BY <2>1, <2>2
  <1> QED
    BY <1>7, <1>12, <1>13, <1>14, <1>15 DEF IInv

(* the events of the lost blocks are undone *)
LEMMA HandleReorgKeeps ==
  ASSUME IInv, HandleReorg
  PROVE  IInv'
  <1> DEFINE L == Len(projected)
             k == onChain
  <1>0. /\ Recorded /\ Linked /\ EvidenceHangs /\ projection.phase \in Phases
        /\ \A n \in 0..L : Agrees(EventsTo(n), RowsAt(n))
    BY DEF IInv
  <1>1. /\ k # L /\ rows' = Rewound(k) /\ projected' = SubSeq(projected, 1, k) /\ onChain' = k
        /\ evidence' = RewoundEvidence(k)
        /\ projection' = IF \A n \in (k + 1)..L : projected[n].event.kind = "claimed" THEN projection
                         ELSE Fields(SubSeq(History, 1, k), projection.payout)
    BY DEF HandleReorg, UpToDate
  <1>2. /\ L \in Nat /\ k \in 0..L /\ k \in Nat /\ k < L /\ L <= MaxEvents /\ MaxEvents \in Nat
        /\ History = EventsTo(L) /\ EventsTo(L) \in Seq(Events) /\ Len(EventsTo(L)) = L
        /\ \A m \in 1..L : EventsTo(L)[m] = projected[m].event
    <2>1. L \in 0..MaxEvents /\ k \in 0..L /\ k # L
      BY <1>0, <1>1 DEF Recorded
    <2>2. L \in Nat /\ k \in Nat /\ k < L /\ L <= MaxEvents /\ MaxEvents \in Nat /\ L \in 0..L
      BY <2>1, DisputesAssumption
    <2>3. /\ History = EventsTo(L) /\ EventsTo(L) \in Seq(Events) /\ Len(EventsTo(L)) = L
          /\ \A m \in 1..L : EventsTo(L)[m] = projected[m].event
      BY <1>0, <2>2, HistoryAll, EventsSequence
    <2> QED
      BY <2>1, <2>2, <2>3
  <1>3. rows' = RowsAt(k)
    BY <1>1, <1>2, RewoundRows
  <1>4. Len(projected') = k /\ projected' = [n \in 1..k |-> projected'[n]] /\ \A n \in 1..k : projected'[n] = projected[n]
    <2>1. projected = [n \in 1..L |-> projected[n]]
      BY <1>0 DEF Recorded
    <2> HIDE DEF L, k
    <2>2. PICK p : p = projected'
      OBVIOUS
    <2>3. Len(p) = k /\ p = [n \in 1..k |-> p[n]] /\ \A n \in 1..k : p[n] = projected[n]
      BY <1>1, <1>2, <2>1, <2>2, Cut
    <2> QED
      BY <2>2, <2>3
  <1>5. SubSeq(History, 1, k) = EventsTo(k)
    <2> DEFINE es == EventsTo(L)
    <2>1. SubSeq(es, 1, k) = [m \in 1..k |-> es[m]]
      <3> HIDE DEF es
      <3> QED
        BY <1>2 DEF es
    <2>2. \A m \in 1..k : es[m] = projected[m].event
      BY <1>2
    <2> QED
      BY <1>2, <2>1, <2>2 DEF EventsTo
  <1> HIDE DEF L, k
  <1>6. Recorded'
    <2>1. ASSUME NEW n \in 1..k
          PROVE  /\ projected'[n] = [event |-> projected'[n].event, was |-> projected'[n].was,
                                  carried |-> projected'[n].carried]
                 /\ projected'[n].event \in Events
      <3>1. n \in 1..L
        BY <1>2
      <3>2. /\ projected[n] = [event |-> projected[n].event, was |-> projected[n].was,
                                carried |-> projected[n].carried]
             /\ projected[n].event \in Events
        BY <1>0, <3>1 DEF Recorded, L
      <3> QED
        BY <1>4, <3>2
    <2>2. PICK q : q = projected'
      OBVIOUS
    <2>3. q = [n \in 1..k |-> [event |-> q[n].event, was |-> q[n].was, carried |-> q[n].carried]]
      BY <1>4, <2>1, <2>2
    <2>4. Len(q) = k /\ (\A n \in 1..k : q[n].event \in Events) /\ onChain' = k
      BY <1>1, <1>4, <2>1, <2>2
    <2>5. k \in 0..MaxEvents /\ k \in 0..k
      BY <1>2
    <2> QED
      BY <2>2, <2>3, <2>4, <2>5 DEF Recorded
  <1>7. ASSUME NEW n \in 0..k PROVE RowsAt(n)' = RowsAt(n) /\ EventsTo(n)' = EventsTo(n)
    <2>1. RowsAt(n)' = IF n = k THEN rows' ELSE projected'[n + 1].was
      BY <1>4 DEF RowsAt
    <2>2. RowsAt(n)' = RowsAt(n)
      <3>1. CASE n = k
        BY <1>3, <2>1, <3>1
      <3>2. CASE n # k
        <4>1. n + 1 \in 1..k /\ n # L
          BY <1>2, <3>2
        <4> QED
          BY <1>4, <2>1, <3>2, <4>1 DEF RowsAt, L
      <3> QED
        BY <3>1, <3>2
    <2>3. 1..n \subseteq 1..k
      BY <1>2
    <2>4. EventsTo(n)' = EventsTo(n)
      BY <1>4, <2>3 DEF EventsTo
    <2> QED
      BY <2>2, <2>4
  <1>8. (\A n \in 0..Len(projected) : Agrees(EventsTo(n), RowsAt(n)))'
    <2>1. ASSUME NEW n \in 0..k PROVE Agrees(EventsTo(n)', RowsAt(n)')
      <3>1. n \in 0..L
        BY <1>2
      <3> QED
        BY <1>0, <1>7, <3>1
    <2> QED
      BY <1>4, <2>1
  <1>9. Linked'
    <2>1. RowsAt(0)' = NewRows
      BY <1>0, <1>2, <1>7 DEF Linked
    <2>2. ASSUME NEW n \in 1..k
          PROVE  /\ Accepts(RowsAt(n - 1)', projected'[n].event)
                 /\ RowsAt(n)' = Apply(RowsAt(n - 1)', projected'[n].event, n)
      <3>1. n \in 1..L /\ n \in 0..k /\ n - 1 \in 0..k
        BY <1>2
      <3>2. Accepts(RowsAt(n - 1), projected[n].event) /\ RowsAt(n) = Apply(RowsAt(n - 1), projected[n].event, n)
        BY <1>0, <3>1 DEF Linked, L
      <3>3. RowsAt(n - 1)' = RowsAt(n - 1) /\ RowsAt(n)' = RowsAt(n) /\ projected'[n] = projected[n]
        BY <1>4, <1>7, <3>1
      <3> QED
        BY <3>2, <3>3
    <2> QED
      BY <1>4, <2>1, <2>2 DEF Linked
  <1>10. EvidenceHangs'
    <2> SUFFICES ASSUME SavesApart
                 PROVE  (/\ Hung(projected, Len(projected), evidence)
                         /\ \A n \in 1..Len(projected) : CarriedFrom(projected, n))'
      BY DEF EvidenceHangs
    <2>1. PICK q : q = projected'
      OBVIOUS
    <2>2. PICK a : a = evidence'
      OBVIOUS
    <2>3. Len(q) = k /\ \A m \in 1..k : q[m] = projected[m]
      BY <1>4, <2>1
    <2>4. Hung(projected, k, a)
      BY <1>1, <1>2, <2>2, RewoundHangs DEF L
    <2>5. \A m \in 1..k : CarriedFrom(projected, m)
      BY <1>0, <1>2 DEF EvidenceHangs, L
    <2>6. Hung(q, k, a) /\ \A m \in 1..k : CarriedFrom(q, m)
      BY <1>2, <2>3, <2>4, <2>5, SameHangs
    <2> QED
      BY <2>1, <2>2, <2>3, <2>6
  <1>11. projection'.phase \in Phases
    <2>1. Phase(EventsTo(k)) \in Phases
      BY <1>2, PhaseTyped DEF L
    <2> QED
      BY <1>0, <1>1, <1>5, <2>1 DEF Fields
  <1> QED
    BY <1>6, <1>8, <1>9, <1>10, <1>11 DEF IInv

-----------------------------------------------------------------------------
(* Theorems *)

(* After any events and reorganisations, every snapshot holds the rows its   *)
(* event was applied to, and these know of the contract what the effects     *)
(* check.                                                                    *)
THEOREM InductiveInvariant == Spec => []IInv
  <1>1. IInv /\ [Next]_vars => IInv'
    <2> SUFFICES ASSUME IInv, [Next]_vars PROVE IInv'
      OBVIOUS
    <2>1. ASSUME NEW n \in 0..MaxEvents, Reorganise(n) PROVE IInv'
      BY <2>1, ReorganiseKeeps
    <2>2. ASSUME NEW e \in Events, ProjectEvent(e) PROVE IInv'
      BY <2>2, ProjectEventKeeps
    <2>3. CASE HandleReorg
      BY <2>3, HandleReorgKeeps
    <2>4. ASSUME NEW h \in Manifests, CreateEvidenceManifest(h) PROVE IInv'
      BY <2>4, ManifestKeeps
    <2>5. CASE UNCHANGED vars
      <3>1. UNCHANGED <<rows, evidence, projection, projected, onChain>>
        BY <2>5 DEF vars, dbVars
      <3>2. EvidenceHangs'
        BY <3>1 DEF IInv, EvidenceHangs
      <3> QED
        BY <3>1, <3>2, QuietStep DEF IInv, Recorded
    <2> QED
      BY <2>1, <2>2, <2>3, <2>4, <2>5 DEF Next
  <1> QED
    BY InitIInv, <1>1, PTL DEF Spec

(* The rows, the projection and the evidence are of their types; at most one   *)
(* proposal is pending and no balance exceeds the principal.                   *)
THEOREM TypeCorrect ==
  ASSUME SavesApart
  PROVE  Spec => []TypeOK
  <1>1. IInv => TypeOK
    <2> SUFFICES ASSUME IInv PROVE TypeOK
      OBVIOUS
    <2> DEFINE L == Len(projected)
    <2>1. L \in 0..MaxEvents /\ L \in 0..L /\ onChain \in 0..L
      BY DEF IInv, Recorded
    <2>2. Agrees(EventsTo(L), rows)
      <3>1. RowsAt(L) = rows
        BY DEF RowsAt
      <3> QED
        BY <2>1, <3>1 DEF IInv
    <2>3. EventsTo(L) \in Seq(Events)
      BY <2>1, EventsSequence DEF IInv
    <2>4. rows.issue.status \in {"IN_PROGRESS", "DISPUTED", "COMPLETED"} /\ DOMAIN rows.dispute = DOMAIN NoDispute
      BY <2>2 DEF Agrees, Shaped
    <2>5. ASSUME NEW p \in Parties PROVE rows.balance[p] \in 0..Whole
      <3> DEFINE es == EventsTo(L)
                 l == Last(Of(es, {"resolved"}))
      <3>1. rows.balance[p] = Claimable(es, p)
        BY <2>2 DEF Agrees, BalancesAgree
      <3>2. ASSUME Of(es, {"resolved"}) # {} PROVE Paid(es[l].share)[p] \in 0..Whole
        <4>1. l \in Of(es, {"resolved"})
          BY <2>2, <3>2 DEF Agrees, LastExists, EventKinds
        <4>2. l \in DOMAIN es
          BY <4>1 DEF Of
        <4> HIDE DEF l, es
        <4>3. es[l] \in Events
          BY <2>3, <4>2 DEF es
        <4> QED
          BY <4>3, KindOf, PaidShares
      <3>3. 0 \in 0..Whole
        BY DisputesAssumption
      <3> QED
        BY <3>1, <3>2, <3>3 DEF Claimable
    <2>6. Cardinality(Pending(rows)) <= 1
      <3>1. \A m, n \in Pending(rows) : m = n
        BY <2>2 DEF Agrees, ProposalsAgree
      <3>2. CASE Pending(rows) = {}
        BY <3>2, FS_EmptySet
      <3>3. CASE Pending(rows) # {}
        <4>1. PICK n : n \in Pending(rows)
          BY <3>3
        <4>2. Pending(rows) = {n}
          BY <3>1, <4>1
        <4> QED
          BY <4>2, FS_Singleton
      <3> QED
        BY <3>2, <3>3
    <2>7. \A h \in Manifests : evidence[h] \in Unset..MaxEvents
      <3>1. Unset..L \subseteq Unset..MaxEvents
        BY <2>1, DisputesAssumption DEF Unset
      <3> QED
        BY <3>1 DEF IInv, EvidenceHangs, Hung
    <2> QED
      BY <2>1, <2>4, <2>5, <2>6, <2>7 DEF TypeOK, IInv
  <1> QED
    BY <1>1, InductiveInvariant, PTL

(* The rows are those of the canonical events alone, whatever was projected   *)
(* and taken back before (applyDispute, applySettlement, applyResolved,       *)
(* applyClaimed and their undo functions).                                    *)
THEOREM RowsAlwaysFollow == Spec => []RowsFollowEvents
  <1>1. IInv => RowsFollowEvents
    BY RowsAreFold DEF RowsFollowEvents
  <1> QED
    BY <1>1, InductiveInvariant, PTL

(* No effect of an event that the contract lets happen and no undo of one that *)
(* a reorganisation takes back ever throws.                                    *)
THEOREM NeverGetsStuck == Spec => []NeverStuck
  <1>1. IInv => NeverStuck
    <2> SUFFICES ASSUME IInv PROVE NeverStuck
      OBVIOUS
    <2>1. ASSUME NEW e \in Events, MayFollow(History, e) PROVE Accepts(rows, e)
      <3>1. History = EventsTo(Len(projected)) /\ Len(projected) \in 0..Len(projected)
        BY HistoryAll DEF IInv, Recorded
      <3>2. RowsAt(Len(projected)) = rows
        BY DEF RowsAt
      <3>3. Agrees(History, rows)
        BY <3>1, <3>2 DEF IInv
      <3> QED
        BY <2>1, <3>3, EffectPasses
    <2>2. Rewound(onChain) # Stuck
      <3>1. onChain \in 0..Len(projected)
        BY DEF IInv, Recorded
      <3>2. Rewound(onChain) = RowsAt(onChain) /\ Agrees(EventsTo(onChain), RowsAt(onChain))
        BY <3>1, RewoundRows DEF IInv
      <3>3. Shaped(RowsAt(onChain))
        BY <3>2 DEF Agrees
      <3>4. RowsAt(onChain) # Stuck
        <4> DEFINE r == RowsAt(onChain)
        <4>1. r = Tables(r.issue, r.dispute, r.proposals, r.rulings, r.balance)
          BY <3>3, AsTables
        <4> HIDE DEF r
        <4>2. r # Stuck
          BY <4>1 DEF Tables, Stuck
        <4> QED
          BY <4>2 DEF r
      <3> QED
        BY <3>2, <3>4
    <2> QED
      BY <2>1, <2>2 DEF NeverStuck
  <1> QED
    BY <1>1, InductiveInvariant, PTL

(* The final share a dispute shows is the one the contract divided by, and a   *)
(* saved manifest hangs on the last canonical event that carries its hash and  *)
(* found it saved, whoever gave the hash and whatever was taken back since,    *)
(* provided no manifest is saved between the two statements of a projection    *)
(* that read and write the manifests.                                          *)
THEOREM AlwaysShownAsDecided ==
  ASSUME SavesApart
  PROVE  Spec => []ShownAsDecided
  <1>1. IInv => ShownAsDecided
    <2> SUFFICES ASSUME IInv PROVE ShownAsDecided
      OBVIOUS
    <2> DEFINE L == Len(projected)
    <2>1. /\ History = EventsTo(L) /\ L \in 0..L /\ L \in Nat /\ DOMAIN projected = 1..L
      BY HistoryAll DEF IInv, Recorded
    <2>2. DisputeAgrees(History, rows)
      <3>1. RowsAt(L) = rows
        BY DEF RowsAt
      <3> QED
        BY <2>1, <3>1 DEF IInv, Agrees
    <2>3. ASSUME NEW h \in Manifests, evidence[h] # Unset
          PROVE  evidence[h] = IF Carriers(h) = {} THEN 0 ELSE Last(Carriers(h))
      <3> DEFINE v == evidence[h]
                 s == Carriers(h)
      <3>1. Hangs(projected, L, h, v)
        BY <2>3 DEF IInv, EvidenceHangs, Hung
      <3>2. \A m : m \in s <=> m \in 1..L /\ Carries(projected, m, h)
        BY <2>1 DEF Carriers, Carries
      <3>3. v \in 0..L /\ (v # 0 => v \in s) /\ \A m \in s : m \in 1..L /\ m <= v
        BY <2>1, <3>1, <3>2 DEF Hangs
      <3> HIDE DEF L, v, s
      <3>4. CASE s = {}
        BY <3>3, <3>4 DEF v, s
      <3>5. CASE s # {}
        <4>1. v \in s
          BY <2>1, <3>3, <3>5
        <4>2. ASSUME NEW u \in s, \A m \in s : m <= u PROVE u = v
          BY <2>1, <3>3, <4>1, <4>2
        <4>3. Last(s) = v
          BY <3>3, <4>1, <4>2 DEF Last
        <4> QED
          BY <3>5, <4>3 DEF v, s
      <3> QED
        BY <3>4, <3>5
    <2> QED
      BY <2>2, <2>3 DEF ShownAsDecided, DisputeAgrees
  <1> QED
    BY <1>1, InductiveInvariant, PTL

=============================================================================
