---------------------------- MODULE DeliveryProofs ----------------------------
(***************************************************************************)
(* What holds of the submissions of an issue for any number of drafts,      *)
(* deliveries and reorganisations: the rows say what the canonical events   *)
(* say, a prepared delivery keeps its draft, and a rewind is refused only    *)
(* for a review the client made since.                                      *)
(***************************************************************************)
EXTENDS Delivery, TLAPS, WellFoundedInduction

Snapshots == UNION {[rows -> Row] : rows \in SUBSET Submissions}
Deliveries == [tx : Nat, rows : SUBSET Submissions, undo : Snapshots]

Types ==
    /\ TypeOK
    /\ projected \in Seq(Deliveries)
    /\ \A n \in DOMAIN chain : chain[n] \in DOMAIN sent

Touched(k) == DOMAIN projected[k].undo

(* what the first n deliveries projected say of the status of row s *)
StatusAt(s, n) ==
    IF n \in DeliveriesOf(s) THEN "SUBMITTED"
    ELSE IF DeliveriesOf(s) \cap (1..n) = {} THEN "DRAFT" ELSE "SUPERSEDED"

(* the event of row s, which delivery k touched, after it *)
EventAfter(s, k) == IF s \in projected[k].rows THEN projected[k].tx ELSE projected[k].undo[s].event

(* a delivery is of rows it touched, and they have had its hash ever since *)
RowsDelivered ==
    \A k \in DOMAIN projected :
        /\ \A s \in Touched(k) : Exists(s)
        /\ \A s \in projected[k].rows : s \in Touched(k) /\ HashOf(s) = HashAt(k)

(* the row of a delivery is touched by the next one *)
NextTouches ==
    \A k \in DOMAIN projected :
        k + 1 \in DOMAIN projected => projected[k].rows \subseteq Touched(k + 1)

(* a snapshot holds the row as the deliveries before it had left it *)
SnapshotStatus ==
    \A k \in DOMAIN projected : \A s \in Touched(k) :
        /\ projected[k].undo[s].status = StatusAt(s, k - 1)
        /\ s \notin projected[k].rows => projected[k].undo[s].status = "SUBMITTED"
        /\ projected[k].undo[s].review > 0 => projected[k].undo[s].status # "DRAFT"

SnapshotEvent ==
    \A j, k \in DOMAIN projected :
        k < j => \A s \in Touched(j) \cap Touched(k) :
            (\A i \in (k + 1)..(j - 1) : s \notin Touched(i))
                => projected[j].undo[s].event = EventAfter(s, k)

(* no later delivery touched the row: it has the event the last one left *)
EventFollowsChain ==
    \A k \in DOMAIN projected : \A s \in Touched(k) :
        Touching(s, k) = {} => submission[s].event = EventAfter(s, k)

ExternalIsLast == external => projected # <<>> /\ projected[Len(projected)].rows = {}

IInv == /\ Types /\ PreparedKept /\ StatusFollowsChain /\ ReviewOnDelivery
        /\ RowsDelivered /\ NextTouches /\ SnapshotStatus /\ SnapshotEvent
        /\ EventFollowsChain /\ ExternalIsLast

(* the checks of undoWork that are not about a review *)
RewindPossible ==
    ~UpToDate /\ ~LostDeliveryReviewed
        => \A k \in (onChain + 1)..Len(projected) : UndoAccepts(k)

-----------------------------------------------------------------------------
(* Natural numbers: < is well-founded, so a non-empty set has a least element *)

(* the order on the natural numbers is well-founded *)
LEMMA LessThanWellFounded == IsWellFoundedOn({p \in Nat \X Nat : p[1] < p[2]}, Nat)
  <1>1. OpToRel(<, Nat) = {p \in Nat \X Nat : p[1] < p[2]}
    BY DEF OpToRel
  <1> QED
    BY <1>1, NatLessThanWellFounded

(* a non-empty set of natural numbers has a least element *)
LEMMA LeastElement ==
  ASSUME NEW S, S \subseteq Nat, S # {}
  PROVE  \E x \in S : \A y \in S : x <= y
  <1> DEFINE R == {p \in Nat \X Nat : p[1] < p[2]}
  <1>1. PICK x \in S : \A y \in S : ~(<<y, x>> \in R)
    <2> HIDE DEF R
    <2> QED
      BY LessThanWellFounded, WFMin DEF R
  <1>2. ASSUME NEW y \in S PROVE x <= y
    <2>1. ~(<<y, x>> \in R)
      BY <1>1
    <2>2. x \in Nat /\ y \in Nat
      OBVIOUS
    <2>3. <<y, x>> \in R <=> y < x
      BY <2>2
    <2> QED
      BY <2>1, <2>2, <2>3
  <1> QED
    BY <1>2

(* the first n elements of a sequence *)
LEMMA Prefix ==
  ASSUME NEW S, NEW q \in Seq(S), NEW n \in Nat, n <= Len(q)
  PROVE  LET p == SubSeq(q, 1, n)
         IN  /\ p \in Seq(S) /\ Len(p) = n /\ DOMAIN p = 1..n
             /\ \A m \in 1..n : m \in DOMAIN q /\ p[m] = q[m]
  OBVIOUS

-----------------------------------------------------------------------------
(* Types and reading of the state *)

(* a delivery that was projected has the fields the model gives it *)
LEMMA DeliveryType ==
  ASSUME Types, NEW k \in DOMAIN projected
  PROVE  /\ projected[k].tx \in Nat
         /\ projected[k].tx \in DOMAIN sent
         /\ projected[k].rows \subseteq Submissions
         /\ Touched(k) \subseteq Submissions
         /\ \A s \in Touched(k) : projected[k].undo[s] \in Row
  <1>1. projected[k] \in Deliveries
    BY DEF Types
  <1>2. projected[k].undo \in Snapshots
    BY <1>1 DEF Deliveries
  <1>3. PICK rows \in SUBSET Submissions : projected[k].undo \in [rows -> Row]
    BY <1>2 DEF Snapshots
  <1>4. projected[k].tx \in DOMAIN sent
    BY DEF Types, TypeOK
  <1> QED
    BY <1>1, <1>3, <1>4 DEF Deliveries, Touched

(* the numbers of the deliveries projected *)
LEMMA Numbers ==
  ASSUME Types
  PROVE  /\ Len(projected) \in Nat
         /\ DOMAIN projected = 1..Len(projected)
         /\ onChain \in 0..Len(projected)
  BY DEF Types, TypeOK

(* a status that deliveries give *)
LEMMA StatusAtValues ==
  ASSUME NEW s, NEW n
  PROVE  StatusAt(s, n) \in {"DRAFT", "SUBMITTED", "SUPERSEDED"}
  BY DEF StatusAt

(* StatusFollowsChain is about the status after all deliveries *)
LEMMA StatusFollows ==
  ASSUME Types
  PROVE  StatusFollowsChain <=>
            \A s \in Submissions : Exists(s) => submission[s].status = StatusAt(s, Len(projected))
  <1>1. ASSUME NEW s \in Submissions
        PROVE  StatusAt(s, Len(projected))
                 = CASE DeliveriesOf(s) = {} -> "DRAFT"
                     [] Len(projected) \in DeliveriesOf(s) -> "SUBMITTED"
                     [] OTHER -> "SUPERSEDED"
    <2>1. DeliveriesOf(s) \cap (1..Len(projected)) = DeliveriesOf(s)
      BY Numbers DEF DeliveriesOf
    <2> QED
      BY <2>1 DEF StatusAt
  <1> QED
    BY <1>1 DEF StatusFollowsChain

(* the first of the projections after n that touched s *)
LEMMA EarliestTouch ==
  ASSUME Types, NEW s, NEW n \in Nat, Touching(s, n) # {}
  PROVE  LET e == Earliest(Touching(s, n))
         IN  /\ e \in (n + 1)..Len(projected) /\ s \in Touched(e)
             /\ \A i \in (n + 1)..(e - 1) : s \notin Touched(i)
  <1>1. Touching(s, n) \subseteq Nat
    BY Numbers DEF Touching
  <1>2. \E x \in Touching(s, n) : \A y \in Touching(s, n) : x <= y
    BY <1>1, LeastElement
  <1> DEFINE e == Earliest(Touching(s, n))
  <1>3. e \in Touching(s, n) /\ \A y \in Touching(s, n) : e <= y
    BY <1>2 DEF Earliest
  <1>4. e \in (n + 1)..Len(projected) /\ s \in Touched(e)
    BY <1>3 DEF Touching, Touched
  <1>5. ASSUME NEW i \in (n + 1)..(e - 1) PROVE s \notin Touched(i)
    <2> HIDE DEF e
    <2>1. i \in (n + 1)..Len(projected) /\ ~(e <= i)
      BY <1>4, Numbers
    <2> QED
      BY <2>1, <1>3 DEF Touching, Touched
  <1> QED
    BY <1>4, <1>5

(* row s when every projection after the first n is undone: as the deliveries *)
(* before the first of those that touched it had left it                      *)
LEMMA RowAtEarliest ==
  ASSUME Types, NEW s \in Submissions, NEW n \in Nat, Touching(s, n) # {}
  PROVE  LET e == Earliest(Touching(s, n))
         IN  /\ RowAt(s, n).status = projected[e].undo[s].status
             /\ RowAt(s, n).event = projected[e].undo[s].event
             /\ RowAt(s, n).review = submission[s].review
             /\ RowAt(s, n).content = submission[s].content
             /\ RowAt(s, n) \in Row
  <1> DEFINE e == Earliest(Touching(s, n))
             was == projected[e].undo[s]
  <1>1. RowAt(s, n) = [submission[s] EXCEPT !.status = was.status, !.event = was.event]
    BY DEF RowAt
  <1>2. submission[s] \in Row
    BY DEF Types, TypeOK
  <1>3. was \in Row
    BY EarliestTouch, DeliveryType, Numbers
  <1>4. /\ RowAt(s, n).status = was.status /\ RowAt(s, n).event = was.event
        /\ RowAt(s, n).review = submission[s].review
        /\ RowAt(s, n).content = submission[s].content
        /\ RowAt(s, n) \in Row
    <2> HIDE DEF was
    <2> QED
      BY <1>1, <1>2, <1>3 DEF Row
  <1> QED
    BY <1>4

(* Status of a rewound row: what the deliveries that stay say *)
LEMMA RowAtStatus ==
  ASSUME Types, StatusFollowsChain, RowsDelivered, NextTouches, SnapshotStatus,
         NEW s \in Submissions, Exists(s), NEW n \in 0..Len(projected)
  PROVE  RowAt(s, n).status = StatusAt(s, n)
  <1>0. n \in Nat /\ Len(projected) \in Nat /\ n <= Len(projected)
    BY Numbers
  (* deliveries that do not touch s leave its status as it is, once it is not SUBMITTED *)
  <1>1. ASSUME NEW m \in n..Len(projected), \A i \in (n + 1)..m : s \notin Touched(i), m # n
        PROVE  /\ n \notin DeliveriesOf(s) /\ m \notin DeliveriesOf(s)
               /\ DeliveriesOf(s) \cap (1..m) = DeliveriesOf(s) \cap (1..n)
    <2>2. \A i \in (n + 1)..m : i \notin DeliveriesOf(s)
      BY <1>0, <1>1, Numbers DEF RowsDelivered, DeliveriesOf
    <2>3. n \notin DeliveriesOf(s)
      <3>1. SUFFICES ASSUME n \in DeliveriesOf(s) PROVE FALSE
        OBVIOUS
      <3>2. n + 1 \in DOMAIN projected /\ n + 1 \in (n + 1)..m
        BY <1>0, <1>1, Numbers
      <3>3. s \in Touched(n + 1)
        BY <3>1, <3>2 DEF NextTouches, DeliveriesOf
      <3> QED
        BY <3>2, <3>3, <1>1
    <2>4. m \in (n + 1)..m
      BY <1>0, <1>1, Numbers
    <2>5. DeliveriesOf(s) \cap (1..m) = DeliveriesOf(s) \cap (1..n)
      BY <1>0, <2>2, Numbers
    <2> QED
      BY <2>2, <2>3, <2>4, <2>5
  <1>2. CASE Touching(s, n) = {}
    <2>1. RowAt(s, n) = submission[s]
      BY <1>2 DEF RowAt
    <2>2. submission[s].status = StatusAt(s, Len(projected))
      BY StatusFollows
    <2>3. \A i \in (n + 1)..Len(projected) : s \notin Touched(i)
      BY <1>2 DEF Touching, Touched
    <2>4. Len(projected) \in n..Len(projected) /\ (Len(projected) = n \/ n < Len(projected))
      BY <1>0
    <2>5. StatusAt(s, Len(projected)) = StatusAt(s, n)
      BY <2>3, <2>4, <1>1 DEF StatusAt
    <2> QED
      BY <2>1, <2>2, <2>5
  <1>3. CASE Touching(s, n) # {}
    <2> DEFINE e == Earliest(Touching(s, n))
    <2>1. /\ e \in (n + 1)..Len(projected) /\ s \in Touched(e)
          /\ \A i \in (n + 1)..(e - 1) : s \notin Touched(i)
      BY <1>0, <1>3, EarliestTouch
    <2>2. RowAt(s, n).status = projected[e].undo[s].status
      BY <1>0, <1>3, RowAtEarliest
    <2> HIDE DEF e
    <2>3. e \in DOMAIN projected /\ e - 1 \in n..Len(projected) /\ e - 1 + 1 = e
      BY <1>0, <2>1, Numbers
    <2>4. projected[e].undo[s].status = StatusAt(s, e - 1)
      BY <2>1, <2>3 DEF SnapshotStatus
    <2>5. StatusAt(s, e - 1) = StatusAt(s, n)
      BY <2>1, <2>3, <1>1 DEF StatusAt
    <2> QED
      BY <2>2, <2>4, <2>5
  <1> QED
    BY <1>2, <1>3

(* The event of a rewound row: that of the last delivery that touched it *)
LEMMA RowAtEvent ==
  ASSUME Types, SnapshotEvent, EventFollowsChain,
         NEW k \in DOMAIN projected, NEW s \in Touched(k),
         NEW n \in k..Len(projected), \A i \in (k + 1)..n : s \notin Touched(i)
  PROVE  RowAt(s, n).event = EventAfter(s, k)
  <1>0. n \in Nat /\ k \in Nat /\ k <= n /\ n <= Len(projected) /\ s \in Submissions
    BY Numbers, DeliveryType
  <1>1. CASE Touching(s, n) = {}
    <2>1. Touching(s, k) = {}
      <3>1. ASSUME NEW i \in (k + 1)..Len(projected) PROVE s \notin Touched(i)
        <4>1. i \in (k + 1)..n \/ i \in (n + 1)..Len(projected)
          BY <1>0, Numbers
        <4> QED
          BY <4>1, <1>1 DEF Touching, Touched
      <3> QED
        BY <3>1 DEF Touching, Touched
    <2> QED
      BY <1>1, <2>1 DEF RowAt, EventFollowsChain
  <1>2. CASE Touching(s, n) # {}
    <2> DEFINE e == Earliest(Touching(s, n))
    <2>1. /\ e \in (n + 1)..Len(projected) /\ s \in Touched(e)
          /\ \A i \in (n + 1)..(e - 1) : s \notin Touched(i)
      BY <1>0, <1>2, EarliestTouch
    <2>2. RowAt(s, n).event = projected[e].undo[s].event
      BY <1>0, <1>2, RowAtEarliest
    <2> HIDE DEF e
    <2>3. e \in DOMAIN projected /\ k < e
      BY <1>0, <2>1, Numbers
    <2>4. ASSUME NEW i \in (k + 1)..(e - 1) PROVE s \notin Touched(i)
      <3>1. i \in (k + 1)..n \/ i \in (n + 1)..(e - 1)
        BY <1>0, <2>1, Numbers
      <3> QED
        BY <3>1, <2>1
    <2> QED
      BY <2>1, <2>2, <2>3, <2>4 DEF SnapshotEvent
  <1> QED
    BY <1>1, <1>2

-----------------------------------------------------------------------------
(* Types *)

(* the row a submission starts as *)
LEMMA NoRowType == NoRow \in Row /\ NoRow.status = "NONE" /\ NoRow.review = 0
  <1>1. (CHOOSE c \in Contents : TRUE) \in Contents
    BY DeliveryAssumption
  <1> QED
    BY <1>1 DEF NoRow, Row, Statuses

(* what captureWorkUndo keeps *)
LEMMA SnapshotType ==
  ASSUME Types, NEW h
  PROVE  /\ Matching(h) \subseteq Captured(h) /\ Captured(h) \subseteq Submissions
         /\ Matching(h) \in SUBSET Submissions
         /\ DOMAIN Snapshot(h) = Captured(h)
         /\ \A s \in Captured(h) : Snapshot(h)[s] = submission[s]
         /\ Snapshot(h) \in Snapshots
  <1>1. /\ Matching(h) \subseteq Captured(h) /\ Captured(h) \subseteq Submissions
        /\ Matching(h) \in SUBSET Submissions
    BY DEF Matching, Captured, UnderReview
  <1>2. \A s \in Captured(h) : submission[s] \in Row
    BY <1>1 DEF Types, TypeOK
  <1>3. Snapshot(h) \in [Captured(h) -> Row]
    BY <1>2 DEF Snapshot
  <1>4. Snapshot(h) \in Snapshots
    BY <1>1, <1>3 DEF Snapshots
  <1> QED
    BY <1>1, <1>3, <1>4 DEF Snapshot

(* the first state *)
LEMMA InitIInv == Init => IInv
  <1> SUFFICES ASSUME Init PROVE IInv
    OBVIOUS
  <1>1. DOMAIN projected = {} /\ Len(projected) = 0 /\ projected = <<>>
    BY DEF Init
  <1>2. submission \in [Submissions -> Row]
    BY NoRowType DEF Init
  <1>3. Types
    <2>1. sent = <<>> /\ chain = <<>> /\ projected = <<>>
      BY DEF Init
    <2>2. sent \in Seq(Hashes \cup {Foreign}) /\ chain \in Seq(1..MaxTx) /\ projected \in Seq(Deliveries)
      BY <2>1
    <2>3. Len(chain) = 0 /\ DOMAIN chain = {}
      BY <2>1
    <2>4. prepared \subseteq Hashes /\ funded \in BOOLEAN /\ external \in BOOLEAN
          /\ onChain = 0 /\ final = 0
      BY DEF Init
    <2> QED
      BY <1>1, <1>2, <2>2, <2>3, <2>4 DEF Types, TypeOK
  <1>4. \A s \in Submissions : ~Exists(s) /\ submission[s].review = 0
    BY NoRowType DEF Init, Exists
  <1>5. PreparedKept /\ StatusFollowsChain /\ ReviewOnDelivery /\ ExternalIsLast
    BY <1>4 DEF Init, PreparedKept, StatusFollowsChain, ReviewOnDelivery, ExternalIsLast
  <1>6. RowsDelivered /\ NextTouches /\ SnapshotStatus /\ SnapshotEvent /\ EventFollowsChain
    BY <1>1 DEF RowsDelivered, NextTouches, SnapshotStatus, SnapshotEvent, EventFollowsChain
  <1> QED
    BY <1>3, <1>5, <1>6 DEF IInv

(* what ProjectWork does to the list of deliveries *)
LEMMA ProjectWorkAppends ==
  ASSUME Types, ProjectWork
  PROVE  LET t == chain[onChain + 1]
             h == sent[t]
             n == Len(projected)
         IN  /\ t \in DOMAIN sent /\ t \in Nat /\ onChain = n /\ n \in Nat
             /\ projected' \in Seq(Deliveries)
             /\ Len(projected') = n + 1 /\ DOMAIN projected' = 1..(n + 1)
             /\ \A k \in 1..n : projected'[k] = projected[k]
             /\ projected'[n + 1] = [tx |-> t, rows |-> Matching(h), undo |-> Snapshot(h)]
  <1> DEFINE t == chain[onChain + 1]
             h == sent[t]
             n == Len(projected)
             d == [tx |-> t, rows |-> Matching(h), undo |-> Snapshot(h)]
  <1>1. onChain = n /\ n \in Nat /\ onChain < Len(chain)
    BY Numbers DEF ProjectWork, UpToDate
  <1>2. chain \in Seq(1..MaxTx) /\ sent \in Seq(Hashes \cup {Foreign})
    BY DEF Types, TypeOK
  <1>3. onChain + 1 \in DOMAIN chain
    BY <1>1, <1>2
  <1>4. t \in DOMAIN sent
    BY <1>3 DEF Types
  <1>5. t \in Nat
    <2>1. DOMAIN sent = 1..Len(sent) /\ Len(sent) \in Nat
      BY <1>2
    <2> QED
      BY <1>4, <2>1
  <1>6. d \in Deliveries
    BY <1>5, SnapshotType DEF Deliveries
  <1>7. projected \in Seq(Deliveries)
    BY DEF Types
  <1>8. projected' = Append(projected, d)
    BY DEF ProjectWork
  <1> HIDE DEF d
  <1>9. /\ projected' \in Seq(Deliveries)
        /\ Len(projected') = n + 1 /\ DOMAIN projected' = 1..(n + 1)
        /\ \A k \in 1..n : projected'[k] = projected[k]
        /\ projected'[n + 1] = d
    BY <1>6, <1>7, <1>8
  <1> QED
    BY <1>1, <1>4, <1>5, <1>9 DEF d

(* what HandleReorg does to it *)
LEMMA HandleReorgCuts ==
  ASSUME Types, HandleReorg
  PROVE  /\ onChain \in Nat /\ onChain < Len(projected)
         /\ projected' \in Seq(Deliveries)
         /\ Len(projected') = onChain /\ DOMAIN projected' = 1..onChain
         /\ \A k \in 1..onChain : projected'[k] = projected[k]
  <1>1. onChain \in Nat /\ onChain < Len(projected) /\ Len(projected) \in Nat
    BY Numbers DEF HandleReorg, UpToDate
  <1>2. projected \in Seq(Deliveries)
    BY DEF Types
  <1>3. projected' = SubSeq(projected, 1, onChain)
    BY DEF HandleReorg, Rewound
  <1> QED
    BY <1>1, <1>2, <1>3

(* the rows after HandleReorg *)
LEMMA RewoundRow ==
  ASSUME Types, NEW s \in Submissions, NEW n \in Nat
  PROVE  /\ RowAt(s, n) \in Row
         /\ RowAt(s, n).content = submission[s].content
         /\ RowAt(s, n).review = submission[s].review
  <1>1. CASE Touching(s, n) = {}
    <2>1. submission[s] \in Row
      BY DEF Types, TypeOK
    <2> QED
      BY <1>1, <2>1 DEF RowAt
  <1>2. CASE Touching(s, n) # {}
    BY <1>2, RowAtEarliest
  <1> QED
    BY <1>1, <1>2

(* the rows after ProjectWork *)
LEMMA AppliedRow ==
  ASSUME Types, NEW h, NEW t \in Nat, NEW s \in Submissions
  PROVE  LET row == ApplyWorkSubmitted(h, t)[s]
         IN  /\ row \in Row
             /\ row.content = submission[s].content /\ row.review = submission[s].review
             /\ s \in Matching(h) => row.status = "SUBMITTED" /\ row.event = t
             /\ s \notin Matching(h) => row.event = submission[s].event
             /\ s \notin Matching(h) /\ s \in UnderReview => row.status = "SUPERSEDED"
             /\ s \notin Captured(h) => row = submission[s]
  <1>1. submission[s] \in Row
    BY DEF Types, TypeOK
  <1>2. CASE s \in Matching(h)
    <2>1. ApplyWorkSubmitted(h, t)[s] = [submission[s] EXCEPT !.status = "SUBMITTED", !.event = t]
      BY <1>2 DEF ApplyWorkSubmitted
    <2> QED
      BY <1>1, <1>2, <2>1 DEF Row, Statuses, Captured
  <1>3. CASE s \notin Matching(h) /\ s \in UnderReview
    <2>1. ApplyWorkSubmitted(h, t)[s] = [submission[s] EXCEPT !.status = "SUPERSEDED"]
      BY <1>3 DEF ApplyWorkSubmitted
    <2> QED
      BY <1>1, <1>3, <2>1 DEF Row, Statuses, Captured
  <1>4. CASE s \notin Matching(h) /\ s \notin UnderReview
    <2>1. ApplyWorkSubmitted(h, t)[s] = submission[s]
      BY <1>4 DEF ApplyWorkSubmitted
    <2> QED
      BY <1>1, <1>4, <2>1
  <1> QED
    BY <1>2, <1>3, <1>4

-----------------------------------------------------------------------------
(* Steps that project nothing and undo nothing *)

(* rows keep what deliveries gave them; a new row is a draft, and only a draft *)
(* without a prepared hash changes its content                                 *)
RowsKept ==
    \A s \in Submissions :
        /\ Exists(s) => /\ submission'[s].status = submission[s].status
                        /\ submission'[s].event = submission[s].event
                        /\ \/ submission'[s].content = submission[s].content
                           \/ Editable(s)
        /\ \/ Exists(s)
           \/ submission'[s] = submission[s]
           \/ submission'[s].status = "DRAFT" /\ submission'[s].review = 0
        /\ submission'[s].review > 0 => submission[s].review > 0 \/ s \in UnderReview

PreparedFromDraft ==
    \A h \in prepared' : \/ h \in prepared
                         \/ /\ submission' = submission
                            /\ \E s \in Submissions : Exists(s) /\ h = HashOf(s)

SentGrows == \A n \in DOMAIN sent : n \in DOMAIN sent' /\ sent'[n] = sent[n]

Quiet == /\ UNCHANGED <<projected, external>>
         /\ RowsKept /\ PreparedFromDraft /\ SentGrows

(* such a step keeps everything the invariant says of rows and deliveries *)
LEMMA QuietKeeps ==
  ASSUME IInv, Quiet
  PROVE  /\ PreparedKept' /\ StatusFollowsChain' /\ ReviewOnDelivery'
         /\ RowsDelivered' /\ NextTouches' /\ SnapshotStatus' /\ SnapshotEvent'
         /\ EventFollowsChain' /\ ExternalIsLast'
  <1>0. Types /\ RowsKept /\ projected' = projected /\ external' = external
    BY DEF IInv, Quiet
  <1>1. \A s \in Submissions : DeliveriesOf(s)' = DeliveriesOf(s)
    BY <1>0 DEF DeliveriesOf
  <1>2. \A s \in Submissions : Exists(s) => Exists(s)' /\ submission'[s].status = submission[s].status
                                            /\ submission'[s].event = submission[s].event
    BY <1>0 DEF RowsKept, Exists
  <1>3. \A k \in DOMAIN projected : HashAt(k)' = HashAt(k)
    BY <1>0, DeliveryType DEF HashAt, Quiet, SentGrows
  <1>4. \A k \in DOMAIN projected : \A s \in projected[k].rows :
            s \in Submissions /\ Exists(s) /\ k \in DeliveriesOf(s)
    BY <1>0, DeliveryType DEF IInv, RowsDelivered, DeliveriesOf
  <1>5. ASSUME NEW k \in DOMAIN projected, NEW s \in projected[k].rows
        PROVE  HashOf(s)' = HashOf(s)
    <2>1. submission[s].status # "DRAFT"
      BY <1>4 DEF IInv, StatusFollowsChain
    <2>2. submission'[s].content = submission[s].content
      BY <2>1, <1>0, <1>4 DEF RowsKept, Editable
    <2> QED
      BY <2>2 DEF HashOf
  <1>6. RowsDelivered'
    <2>1. ASSUME NEW k \in DOMAIN projected, NEW s \in Touched(k) PROVE Exists(s)'
      BY <1>0, <1>2, DeliveryType DEF IInv, RowsDelivered
    <2>2. ASSUME NEW k \in DOMAIN projected, NEW s \in projected[k].rows
          PROVE  s \in Touched(k) /\ HashOf(s)' = HashAt(k)'
      BY <1>3, <1>5 DEF IInv, RowsDelivered
    <2> QED
      BY <2>1, <2>2, <1>0 DEF RowsDelivered, Touched
  <1>7. NextTouches' /\ SnapshotEvent' /\ ExternalIsLast'
    BY <1>0 DEF IInv, NextTouches, SnapshotEvent, ExternalIsLast, Touched, EventAfter
  <1>8. SnapshotStatus'
    <2>1. \A s \in Submissions : \A n : StatusAt(s, n)' = StatusAt(s, n)
      BY <1>1 DEF StatusAt
    <2>2. \A k \in DOMAIN projected : Touched(k) \subseteq Submissions
      BY <1>0, DeliveryType
    <2> QED
      BY <1>0, <2>1, <2>2 DEF IInv, SnapshotStatus, Touched
  <1>9. EventFollowsChain'
    <2>1. ASSUME NEW k \in DOMAIN projected, NEW s \in Touched(k), Touching(s, k) = {}
          PROVE  submission'[s].event = EventAfter(s, k)
      <3>1. s \in Submissions /\ Exists(s)
        BY <1>0, DeliveryType DEF IInv, RowsDelivered
      <3> QED
        BY <2>1, <3>1, <1>2 DEF IInv, EventFollowsChain
    <2> QED
      BY <1>0, <2>1 DEF EventFollowsChain, Touched, Touching, EventAfter
  <1>10. StatusFollowsChain'
    <2>1. ASSUME NEW s \in Submissions, Exists(s)'
          PROVE  submission'[s].status =
                    CASE DeliveriesOf(s) = {} -> "DRAFT"
                      [] Len(projected) \in DeliveriesOf(s) -> "SUBMITTED"
                      [] OTHER -> "SUPERSEDED"
      <3>1. CASE Exists(s)
        BY <3>1, <1>2 DEF IInv, StatusFollowsChain
      <3>2. CASE ~Exists(s)
        <4>1. submission'[s].status = "DRAFT"
          BY <2>1, <3>2, <1>0 DEF RowsKept, Exists
        <4>2. DeliveriesOf(s) = {}
          BY <3>2, <1>4 DEF DeliveriesOf
        <4> QED
          BY <4>1, <4>2
      <3> QED
        BY <3>1, <3>2
    <2> QED
      BY <2>1, <1>0, <1>1 DEF StatusFollowsChain
  <1>11. ReviewOnDelivery'
    <2>1. ASSUME NEW s \in Submissions, submission'[s].review > 0
          PROVE  submission'[s].status \in {"SUBMITTED", "SUPERSEDED"}
      <3>1. submission[s].review > 0 \/ s \in UnderReview
        BY <2>1, <1>0 DEF RowsKept
      <3>2. submission[s].status \in {"SUBMITTED", "SUPERSEDED"}
        BY <3>1 DEF IInv, ReviewOnDelivery, UnderReview
      <3>3. Exists(s)
        BY <3>2 DEF Exists
      <3> QED
        BY <3>2, <3>3, <1>2
    <2> QED
      BY <2>1 DEF ReviewOnDelivery
  <1>12. PreparedKept'
    <2>1. ASSUME NEW h \in prepared' PROVE Matching(h)' # {}
      <3>1. CASE h \in prepared
        <4>1. PICK s \in Submissions : Exists(s) /\ HashOf(s) = h
          BY <3>1 DEF IInv, PreparedKept, Matching
        <4>2. submission'[s].content = submission[s].content
          BY <3>1, <4>1, <1>0 DEF RowsKept, Editable
        <4>3. Exists(s)' /\ HashOf(s)' = h
          BY <4>1, <4>2, <1>2 DEF HashOf
        <4> QED
          BY <4>3 DEF Matching
      <3>2. CASE h \notin prepared
        <4>1. PICK s \in Submissions : Exists(s) /\ h = HashOf(s)
          BY <3>2 DEF Quiet, PreparedFromDraft
        <4>2. submission' = submission
          BY <3>2 DEF Quiet, PreparedFromDraft
        <4> QED
          BY <4>1, <4>2 DEF Matching, Exists, HashOf
      <3> QED
        BY <3>1, <3>2
    <2> QED
      BY <2>1 DEF PreparedKept
  <1> QED
    BY <1>6, <1>7, <1>8, <1>9, <1>10, <1>11, <1>12

(* every step but those of the indexer is such a step, and keeps the types *)
LEMMA OtherStepsQuiet ==
  ASSUME IInv, [Next]_vars, ~ProjectWork, ~HandleReorg
  PROVE  Quiet /\ Types'
  <1>0. Types
    BY DEF IInv
  <1>1. ASSUME UNCHANGED submission PROVE RowsKept
    BY <1>1 DEF RowsKept
  <1>2. ASSUME UNCHANGED prepared PROVE PreparedFromDraft
    BY <1>2 DEF PreparedFromDraft
  <1>3. ASSUME UNCHANGED sent PROVE SentGrows
    BY <1>3 DEF SentGrows
  <1>4. ASSUME NEW s \in Submissions, NEW c \in Contents, CreateDraft(s, c)
        PROVE  Quiet /\ Types'
    <2>1. Draft(c) \in Row /\ Draft(c).status = "DRAFT" /\ Draft(c).review = 0
      BY DEF Draft, Row, Statuses
    <2>2. /\ submission' = [submission EXCEPT ![s] = Draft(c)] /\ ~Exists(s)
          /\ UNCHANGED <<prepared, funded, external, projected, onChain, sent, chain, final>>
      BY <1>4 DEF CreateDraft, chainVars
    <2>3. submission \in [Submissions -> Row]
      BY <1>0 DEF Types, TypeOK
    <2>4. submission' \in [Submissions -> Row]
      BY <2>1, <2>2, <2>3
    <2>5. submission'[s] = Draft(c) /\ \A x \in Submissions \ {s} : submission'[x] = submission[x]
      BY <2>2, <2>3
    <2>6. RowsKept
      BY <2>1, <2>2, <2>5 DEF RowsKept
    <2>7. Types'
      BY <1>0, <2>2, <2>4 DEF Types, TypeOK
    <2> QED
      BY <1>2, <1>3, <2>2, <2>6, <2>7 DEF Quiet
  <1>5. ASSUME NEW s \in Submissions, NEW c \in Contents, EditDraft(s, c)
        PROVE  Quiet /\ Types'
    <2>1. /\ submission' = [submission EXCEPT ![s].content = c] /\ Editable(s)
          /\ UNCHANGED <<prepared, funded, external, projected, onChain, sent, chain, final>>
      BY <1>5 DEF EditDraft, chainVars
    <2>2. submission \in [Submissions -> Row]
      BY <1>0 DEF Types, TypeOK
    <2>3. /\ submission' \in [Submissions -> Row]
          /\ submission'[s].status = submission[s].status
          /\ submission'[s].event = submission[s].event
          /\ submission'[s].review = submission[s].review
          /\ \A x \in Submissions \ {s} : submission'[x] = submission[x]
      BY <2>1, <2>2 DEF Row
    <2>4. Exists(s)
      BY <2>1 DEF Editable, Exists
    <2>5. RowsKept
      BY <2>1, <2>3, <2>4 DEF RowsKept
    <2>6. Types'
      BY <1>0, <2>1, <2>3 DEF Types, TypeOK
    <2> QED
      BY <1>2, <1>3, <2>1, <2>5, <2>6 DEF Quiet
  <1>6. ASSUME NEW s \in Submissions, PrepareSubmitWork(s)
        PROVE  Quiet /\ Types'
    <2>1. /\ Exists(s) /\ prepared' = prepared \cup {HashOf(s)}
          /\ UNCHANGED <<submission, funded, external, projected, onChain, sent, chain, final>>
      BY <1>6 DEF PrepareSubmitWork, chainVars, Exists
    <2>2. HashOf(s) \in Hashes
      BY <1>0 DEF Types, TypeOK, HashOf, Hashes, Row
    <2>3. PreparedFromDraft
      BY <2>1 DEF PreparedFromDraft
    <2>4. Types'
      BY <1>0, <2>1, <2>2 DEF Types, TypeOK
    <2> QED
      BY <1>1, <1>3, <2>1, <2>3, <2>4 DEF Quiet
  <1>7. ASSUME NEW s \in Submissions, RequestChanges(s)
        PROVE  Quiet /\ Types'
    <2>1. /\ submission' = [submission EXCEPT ![s].review = submission[s].review + 1]
          /\ s \in UnderReview
          /\ UNCHANGED <<prepared, funded, external, projected, onChain, sent, chain, final>>
      BY <1>7 DEF RequestChanges, Reviewable, chainVars
    <2>2. submission \in [Submissions -> Row]
      BY <1>0 DEF Types, TypeOK
    <2>3. /\ submission' \in [Submissions -> Row]
          /\ submission'[s].status = submission[s].status
          /\ submission'[s].event = submission[s].event
          /\ submission'[s].content = submission[s].content
          /\ \A x \in Submissions \ {s} : submission'[x] = submission[x]
      BY <2>1, <2>2 DEF Row
    <2>4. Exists(s)
      BY <2>1 DEF UnderReview, Exists
    <2>5. RowsKept
      BY <2>1, <2>3, <2>4 DEF RowsKept
    <2>6. Types'
      BY <1>0, <2>1, <2>3 DEF Types, TypeOK
    <2> QED
      BY <1>2, <1>3, <2>1, <2>5, <2>6 DEF Quiet
  <1>8. ASSUME NEW h \in Hashes \cup {Foreign}, SubmitWork(h)
        PROVE  Quiet /\ Types'
    <2>1. /\ sent' = Append(sent, h)
          /\ UNCHANGED <<submission, prepared, funded, external, projected, onChain, chain, final>>
      BY <1>8 DEF SubmitWork, webVars
    <2>2. sent \in Seq(Hashes \cup {Foreign})
      BY <1>0 DEF Types, TypeOK
    <2>3. sent' \in Seq(Hashes \cup {Foreign}) /\ SentGrows
      BY <2>1, <2>2 DEF SentGrows
    <2>4. DOMAIN sent \subseteq DOMAIN sent'
      BY <2>3 DEF SentGrows
    <2>5. Types'
      BY <1>0, <2>1, <2>3, <2>4 DEF Types, TypeOK
    <2> QED
      BY <1>1, <1>2, <2>1, <2>3, <2>5 DEF Quiet
  <1>9. ASSUME NEW t \in 1..MaxTx, Include(t)
        PROVE  Quiet /\ Types'
    <2>1. /\ chain' = Append(chain, t) /\ t \in DOMAIN sent
          /\ UNCHANGED <<submission, prepared, funded, external, projected, onChain, sent, final>>
      BY <1>9 DEF Include, webVars
    <2>2. chain \in Seq(1..MaxTx) /\ final \in 0..Len(chain)
      BY <1>0 DEF Types, TypeOK
    <2>3. chain' \in Seq(1..MaxTx) /\ final \in 0..Len(chain')
      BY <2>1, <2>2
    <2>4. \A n \in DOMAIN chain' : chain'[n] \in DOMAIN sent
      <3>1. ASSUME NEW n \in DOMAIN chain' PROVE chain'[n] = t \/ (n \in DOMAIN chain /\ chain'[n] = chain[n])
        BY <2>1, <2>2
      <3> QED
        BY <1>0, <2>1, <3>1 DEF Types
    <2>5. Types'
      BY <1>0, <2>1, <2>3, <2>4 DEF Types, TypeOK
    <2> QED
      BY <1>1, <1>2, <1>3, <2>1, <2>5 DEF Quiet
  <1>10. ASSUME NEW n \in 0..MaxTx, Reorganise(n)
         PROVE  Quiet /\ Types'
    <2>1. /\ chain' = SubSeq(chain, 1, n) /\ n >= final /\ n < Len(chain)
          /\ onChain' = IF n < onChain THEN n ELSE onChain
          /\ UNCHANGED <<submission, prepared, funded, external, projected, sent, final>>
      BY <1>10 DEF Reorganise, webVars
    <2>2. chain \in Seq(1..MaxTx) /\ final \in 0..Len(chain) /\ onChain \in 0..Len(projected)
      BY <1>0 DEF Types, TypeOK
    <2>3. n \in Nat /\ Len(chain) \in Nat /\ Len(projected) \in Nat
      BY <2>2, <1>0, Numbers
    <2>4. /\ chain' \in Seq(1..MaxTx) /\ Len(chain') = n
          /\ \A m \in DOMAIN chain' : m \in DOMAIN chain /\ chain'[m] = chain[m]
      <3> DEFINE S == 1..MaxTx
      <3>1. chain \in Seq(S) /\ n <= Len(chain)
        BY <2>1, <2>2, <2>3
      <3> HIDE DEF S
      <3>2. /\ SubSeq(chain, 1, n) \in Seq(S) /\ Len(SubSeq(chain, 1, n)) = n
            /\ DOMAIN SubSeq(chain, 1, n) = 1..n
            /\ \A m \in 1..n : m \in DOMAIN chain /\ SubSeq(chain, 1, n)[m] = chain[m]
        BY <2>3, <3>1, Prefix
      <3> QED
        BY <2>1, <3>2 DEF S
    <2>5. final \in 0..Len(chain') /\ onChain' \in 0..Len(projected)
      BY <2>1, <2>2, <2>3, <2>4
    <2>6. \A m \in DOMAIN chain' : chain'[m] \in DOMAIN sent
      BY <1>0, <2>4 DEF Types
    <2>7. Types'
      BY <1>0, <2>1, <2>4, <2>5, <2>6 DEF Types, TypeOK
    <2> QED
      BY <1>1, <1>2, <1>3, <2>1, <2>7 DEF Quiet
  <1>11. CASE Finalise
    <2>1. /\ final < Len(chain) /\ final' = final + 1
          /\ UNCHANGED <<submission, prepared, funded, external, projected, onChain, sent, chain>>
      BY <1>11 DEF Finalise, webVars
    <2>2. Len(chain) \in Nat
      BY <1>0 DEF Types, TypeOK
    <2>3. final' \in 0..Len(chain)
      BY <1>0, <2>1, <2>2 DEF Types, TypeOK
    <2>4. Types'
      BY <1>0, <2>1, <2>3 DEF Types, TypeOK
    <2> QED
      BY <1>1, <1>2, <1>3, <2>1, <2>4 DEF Quiet
  <1>12. CASE PhaseChanges
    <2>1. /\ funded' = ~funded
          /\ UNCHANGED <<submission, prepared, external, projected, onChain, sent, chain, final>>
      BY <1>12 DEF PhaseChanges, webVars, chainVars
    <2>2. Types'
      BY <1>0, <2>1 DEF Types, TypeOK
    <2> QED
      BY <1>1, <1>2, <1>3, <2>1, <2>2 DEF Quiet
  <1>13. CASE UNCHANGED vars
    BY <1>0, <1>1, <1>2, <1>3, <1>13 DEF vars, Quiet, Types, TypeOK
  <1> QED
    BY <1>4, <1>5, <1>6, <1>7, <1>8, <1>9, <1>10, <1>11, <1>12, <1>13
    DEF Next, Web, Chain, Indexer

-----------------------------------------------------------------------------
(* The indexer *)

(* a delivery is projected: its snapshot holds what the deliveries before it say *)
LEMMA ProjectWorkKeeps ==
  ASSUME IInv, ProjectWork
  PROVE  IInv'
  <1> DEFINE t == chain[onChain + 1]
             h == sent[t]
             d == [tx |-> t, rows |-> Matching(h), undo |-> Snapshot(h)]
  <1>. PICK n \in Nat : n = Len(projected)
    BY Numbers DEF IInv
  <1>0. Types /\ n = Len(projected) /\ DOMAIN projected = 1..n
    BY Numbers DEF IInv
  <1>1. /\ t \in DOMAIN sent /\ t \in Nat /\ onChain = n
        /\ projected' \in Seq(Deliveries)
        /\ Len(projected') = n + 1 /\ DOMAIN projected' = 1..(n + 1)
        /\ \A k \in 1..n : projected'[k] = projected[k]
        /\ projected'[n + 1] = d
    BY <1>0, ProjectWorkAppends
  <1>2. /\ submission' = ApplyWorkSubmitted(h, t)
        /\ external' = (Matching(h) = {}) /\ onChain' = onChain + 1
        /\ UNCHANGED <<prepared, funded, sent, chain, final>>
    BY DEF ProjectWork, chainVars
  <1>3. /\ Matching(h) \subseteq Captured(h) /\ Captured(h) \subseteq Submissions
        /\ d.undo = Snapshot(h) /\ d.rows = Matching(h) /\ d.tx = t
        /\ DOMAIN d.undo = Captured(h)
        /\ \A s \in Captured(h) : d.undo[s] = submission[s]
    BY <1>0, SnapshotType
  <1>4. ASSUME NEW s \in Submissions
        PROVE  /\ submission'[s] \in Row
               /\ submission'[s].content = submission[s].content
               /\ submission'[s].review = submission[s].review
               /\ s \in Matching(h) => submission'[s].status = "SUBMITTED" /\ submission'[s].event = t
               /\ s \notin Matching(h) => submission'[s].event = submission[s].event
               /\ s \notin Matching(h) /\ s \in UnderReview => submission'[s].status = "SUPERSEDED"
               /\ s \notin Captured(h) => submission'[s] = submission[s]
    BY <1>0, <1>1, <1>2, AppliedRow
  <1> HIDE DEF t, h, d
  <1>5. \A s \in Submissions : Exists(s)' = Exists(s) /\ HashOf(s)' = HashOf(s)
    <2>1. ASSUME NEW s \in Submissions PROVE Exists(s)' = Exists(s)
      <3>1. CASE s \in Captured(h)
        BY <3>1, <1>4 DEF Captured, Matching, UnderReview, Exists
      <3>2. CASE s \notin Captured(h)
        BY <3>2, <1>4 DEF Exists
      <3> QED
        BY <3>1, <3>2
    <2>2. ASSUME NEW s \in Submissions PROVE HashOf(s)' = HashOf(s)
      BY <1>4 DEF HashOf
    <2> QED
      BY <2>1, <2>2
  (* the types *)
  <1>6. Types'
    <2>1. submission' \in [Submissions -> Row]
      <3>1. submission' = [s \in Submissions |-> submission'[s]]
        BY <1>2 DEF ApplyWorkSubmitted
      <3> QED
        BY <3>1, <1>4
    <2>2. ASSUME NEW k \in DOMAIN projected'
          PROVE  /\ projected'[k].tx \in DOMAIN sent /\ projected'[k].rows \subseteq Submissions
                 /\ DOMAIN projected'[k].undo \subseteq Submissions
                 /\ \A s \in DOMAIN projected'[k].undo : projected'[k].undo[s] \in Row
      <3>1. CASE k \in 1..n
        BY <3>1, <1>0, <1>1, DeliveryType DEF Touched
      <3>2. CASE k = n + 1
        <4>1. \A s \in Captured(h) : submission[s] \in Row
          BY <1>0, <1>3 DEF Types, TypeOK
        <4> QED
          BY <3>2, <4>1, <1>1, <1>3
      <3> QED
        BY <1>0, <1>1, <3>1, <3>2
    <2>3. onChain' \in 0..Len(projected')
      BY <1>0, <1>1, <1>2
    <2> QED
      BY <1>0, <1>1, <1>2, <2>1, <2>2, <2>3 DEF Types, TypeOK
  (* deliveries and what they say *)
  <1>7. \A s \in Submissions :
            DeliveriesOf(s)' = DeliveriesOf(s) \cup (IF s \in Matching(h) THEN {n + 1} ELSE {})
    BY <1>0, <1>1, <1>3 DEF DeliveriesOf
  <1>8. ASSUME NEW s \in Submissions, NEW m \in 0..n PROVE StatusAt(s, m)' = StatusAt(s, m)
    <2>1. n + 1 \notin 1..m /\ m # n + 1
      BY <1>0
    <2> QED
      BY <2>1, <1>7 DEF StatusAt
  <1>9. \A s \in Submissions : Exists(s) => submission[s].status = StatusAt(s, n)
    BY <1>0, StatusFollows DEF IInv
  <1>10. ASSUME NEW k \in 1..n PROVE /\ Touched(k)' = Touched(k) /\ HashAt(k)' = HashAt(k)
                                     /\ \A s : EventAfter(s, k)' = EventAfter(s, k)
    BY <1>1, <1>2 DEF Touched, HashAt, EventAfter
  <1>11. Touched(n + 1)' = Captured(h) /\ HashAt(n + 1)' = h
    BY <1>1, <1>2, <1>3 DEF Touched, HashAt, h
  <1>12. \A k \in 1..n : Touched(k) \subseteq Submissions /\ projected[k].rows \subseteq Submissions
    BY <1>0, DeliveryType
  (* the parts of the invariant *)
  <1>13. PreparedKept'
    <2>1. ASSUME NEW x \in prepared PROVE Matching(x)' # {}
      <3>1. PICK s \in Submissions : Exists(s) /\ HashOf(s) = x
        BY DEF IInv, PreparedKept, Matching
      <3> QED
        BY <3>1, <1>5 DEF Matching
    <2> QED
      BY <2>1, <1>2 DEF PreparedKept
  <1>14. StatusFollowsChain'
    <2>1. ASSUME NEW s \in Submissions, Exists(s) PROVE submission'[s].status = StatusAt(s, n + 1)'
      <3>1. CASE s \in Matching(h)
        BY <3>1, <1>4, <1>7 DEF StatusAt
      <3>2. CASE s \notin Matching(h)
        <4>1. /\ DeliveriesOf(s)' = DeliveriesOf(s) /\ n + 1 \notin DeliveriesOf(s)
              /\ DeliveriesOf(s) \cap (1..(n + 1)) = DeliveriesOf(s) \cap (1..n)
              /\ DeliveriesOf(s) \subseteq 1..n
          BY <3>2, <1>0, <1>7 DEF DeliveriesOf
        <4>2. submission[s].status = StatusAt(s, n)
          BY <2>1, <1>9
        <4>3. CASE s \in UnderReview
          <5>1. n \in DeliveriesOf(s)
            BY <4>2, <4>3 DEF UnderReview, StatusAt
          <5> QED
            BY <3>2, <4>1, <4>3, <5>1, <1>4 DEF StatusAt
        <4>4. CASE s \notin UnderReview
          <5>1. n \notin DeliveriesOf(s)
            BY <4>2, <4>4 DEF UnderReview, StatusAt
          <5>2. submission'[s] = submission[s]
            BY <3>2, <4>4, <1>4 DEF Captured
          <5> QED
            BY <4>1, <4>2, <5>1, <5>2 DEF StatusAt
        <4> QED
          BY <4>3, <4>4
      <3> QED
        BY <3>1, <3>2
    <2>2. \A s \in Submissions : Exists(s)' => submission'[s].status = StatusAt(s, Len(projected))'
      BY <2>1, <1>1, <1>5 DEF StatusAt
    <2>3. (Types => (StatusFollowsChain <=>
              \A s \in Submissions : Exists(s) => submission[s].status = StatusAt(s, Len(projected))))'
      BY StatusFollows, PTL
    <2> QED
      BY <2>2, <2>3, <1>6
  <1>15. ReviewOnDelivery'
    <2>1. ASSUME NEW s \in Submissions, submission'[s].review > 0
          PROVE  submission'[s].status \in {"SUBMITTED", "SUPERSEDED"}
      <3>1. submission[s].status \in {"SUBMITTED", "SUPERSEDED"}
        BY <2>1, <1>4 DEF IInv, ReviewOnDelivery
      <3> QED
        BY <3>1, <1>4 DEF Captured
    <2> QED
      BY <2>1 DEF ReviewOnDelivery
  <1>16. RowsDelivered'
    <2>1. ASSUME NEW k \in DOMAIN projected'
          PROVE  /\ \A s \in Touched(k)' : Exists(s)'
                 /\ \A s \in projected'[k].rows : s \in Touched(k)' /\ HashOf(s)' = HashAt(k)'
      <3>1. CASE k \in 1..n
        BY <3>1, <1>0, <1>1, <1>5, <1>10, <1>12 DEF IInv, RowsDelivered
      <3>2. CASE k = n + 1
        <4>1. \A s \in Captured(h) : s \in Submissions /\ Exists(s)
          BY DEF Captured, Matching, UnderReview, Exists
        <4>2. \A s \in Matching(h) : s \in Captured(h) /\ HashOf(s) = h
          BY <1>3 DEF Matching
        <4> QED
          BY <3>2, <4>1, <4>2, <1>1, <1>3, <1>5, <1>11 DEF Touched, HashAt
      <3> QED
        BY <1>0, <1>1, <3>1, <3>2
    <2> QED
      BY <2>1 DEF RowsDelivered
  <1>17. NextTouches'
    <2>1. ASSUME NEW k \in 1..n PROVE projected[k].rows \subseteq Touched(k + 1)'
      <3>1. CASE k = n
        <4>1. ASSUME NEW s \in projected[k].rows PROVE s \in UnderReview
          <5>1. s \in Submissions /\ Exists(s) /\ n \in DeliveriesOf(s)
            BY <3>1, <1>0, <1>12 DEF IInv, RowsDelivered, DeliveriesOf
          <5> QED
            BY <5>1, <1>9 DEF StatusAt, UnderReview
        <4> QED
          BY <3>1, <4>1, <1>11 DEF Captured, Touched
      <3>2. CASE k # n
        <4>1. k + 1 \in 1..n
          BY <3>2, <1>0
        <4> QED
          BY <4>1, <1>0, <1>10 DEF IInv, NextTouches
      <3> QED
        BY <3>1, <3>2
    <2>2. ASSUME NEW k \in DOMAIN projected', k + 1 \in DOMAIN projected'
          PROVE  projected'[k].rows \subseteq Touched(k + 1)'
      <3>1. k \in 1..n
        BY <2>2, <1>0, <1>1
      <3> QED
        BY <2>1, <3>1, <1>1
    <2> QED
      BY <2>2 DEF NextTouches
  <1>18. SnapshotStatus'
    <2>1. ASSUME NEW k \in DOMAIN projected', NEW s \in Touched(k)'
          PROVE  /\ projected'[k].undo[s].status = StatusAt(s, k - 1)'
                 /\ s \notin projected'[k].rows => projected'[k].undo[s].status = "SUBMITTED"
                 /\ projected'[k].undo[s].review > 0 => projected'[k].undo[s].status # "DRAFT"
      <3>1. CASE k \in 1..n
        <4>1. s \in Touched(k) /\ s \in Submissions /\ k - 1 \in 0..n
          BY <2>1, <3>1, <1>0, <1>10, <1>12
        <4> QED
          BY <3>1, <4>1, <1>0, <1>1, <1>8 DEF IInv, SnapshotStatus
      <3>2. CASE k = n + 1
        <4>1. s \in Captured(h) /\ s \in Submissions /\ Exists(s)
          BY <2>1, <3>2, <1>3, <1>11 DEF Touched, Captured, Matching, UnderReview, Exists
        <4>2. submission[s].status = StatusAt(s, n) /\ StatusAt(s, n)' = StatusAt(s, n)
          BY <4>1, <1>0, <1>8, <1>9
        <4>3. projected'[k].undo[s] = submission[s] /\ projected'[k].rows = Matching(h) /\ k - 1 = n
          BY <3>2, <4>1, <1>0, <1>1, <1>3
        <4>4. s \notin Matching(h) => submission[s].status = "SUBMITTED"
          BY <4>1 DEF Captured, UnderReview
        <4>5. submission[s].review > 0 => submission[s].status # "DRAFT"
          BY <4>1 DEF IInv, ReviewOnDelivery
        <4> QED
          BY <4>2, <4>3, <4>4, <4>5 DEF StatusAt
      <3> QED
        BY <1>0, <1>1, <3>1, <3>2
    <2> QED
      BY <2>1 DEF SnapshotStatus
  <1>19. SnapshotEvent'
    <2>1. ASSUME NEW j \in DOMAIN projected', NEW k \in DOMAIN projected', k < j,
                 NEW s \in Touched(j)' \cap Touched(k)',
                 \A i \in (k + 1)..(j - 1) : s \notin Touched(i)'
          PROVE  projected'[j].undo[s].event = EventAfter(s, k)'
      <3>1. k \in 1..n /\ s \in Touched(k)
        BY <2>1, <1>0, <1>1, <1>10
      <3>2. \A i \in (k + 1)..(j - 1) : i \in 1..n /\ s \notin Touched(i)
        BY <2>1, <3>1, <1>0, <1>1, <1>10
      <3>3. CASE j \in 1..n
        BY <2>1, <3>1, <3>2, <3>3, <1>0, <1>1, <1>10 DEF IInv, SnapshotEvent
      <3>4. CASE j = n + 1
        <4>1. Touching(s, k) = {}
          <5>1. (k + 1)..Len(projected) = (k + 1)..(j - 1)
            BY <3>4, <1>0
          <5> QED
            BY <3>2, <5>1 DEF Touching, Touched
        <4>2. submission[s].event = EventAfter(s, k)
          BY <3>1, <4>1, <1>0 DEF IInv, EventFollowsChain
        <4>3. projected'[j].undo[s] = submission[s]
          BY <2>1, <3>4, <1>1, <1>3 DEF Touched
        <4> QED
          BY <3>1, <4>2, <4>3, <1>10
      <3> QED
        BY <3>3, <3>4, <1>0, <1>1
    <2> QED
      BY <2>1 DEF SnapshotEvent
  <1>20. EventFollowsChain'
    <2>1. ASSUME NEW k \in DOMAIN projected', NEW s \in Touched(k)', Touching(s, k)' = {}
          PROVE  submission'[s].event = EventAfter(s, k)'
      <3>1. CASE k = n + 1
        <4>1. s \in Captured(h) /\ s \in Submissions
          BY <2>1, <3>1, <1>1, <1>3 DEF Touched
        <4>2. EventAfter(s, k)' = IF s \in Matching(h) THEN t ELSE submission[s].event
          BY <3>1, <4>1, <1>1, <1>3 DEF EventAfter
        <4> QED
          BY <4>1, <4>2, <1>4
      <3>2. CASE k \in 1..n
        <4>1. s \in Touched(k) /\ s \in Submissions
          BY <2>1, <3>2, <1>10, <1>12
        <4>2. \A i \in (k + 1)..(n + 1) : s \notin Touched(i)'
          BY <2>1, <1>1 DEF Touching, Touched
        <4>3. s \notin Captured(h)
          BY <3>2, <4>2, <1>0, <1>11 DEF Touched
        <4>4. \A i \in (k + 1)..n : s \notin Touched(i)
          BY <3>2, <4>2, <1>0, <1>10
        <4>5. Touching(s, k) = {}
          BY <4>4 DEF Touching, Touched
        <4>6. submission'[s] = submission[s]
          BY <4>1, <4>3, <1>4
        <4> QED
          BY <3>2, <4>1, <4>5, <4>6, <1>0, <1>10 DEF IInv, EventFollowsChain
      <3> QED
        BY <3>1, <3>2, <1>0, <1>1
    <2> QED
      BY <2>1 DEF EventFollowsChain
  <1>21. ExternalIsLast'
    <2>1. projected' # <<>>
      BY <1>0, <1>1
    <2> QED
      BY <2>1, <1>1, <1>2, <1>3 DEF ExternalIsLast
  <1> QED
    BY <1>6, <1>13, <1>14, <1>15, <1>16, <1>17, <1>18, <1>19, <1>20, <1>21 DEF IInv

(* deliveries are undone: each row goes back to what the ones that stay say *)
LEMMA HandleReorgKeeps ==
  ASSUME IInv, HandleReorg
  PROVE  IInv'
  <1>. PICK n \in Nat : n = onChain
    BY Numbers DEF IInv
  <1>0. Types /\ Len(projected) \in Nat /\ DOMAIN projected = 1..Len(projected) /\ n = onChain
    BY Numbers DEF IInv
  <1>1. /\ n < Len(projected)
        /\ projected' \in Seq(Deliveries)
        /\ Len(projected') = n /\ DOMAIN projected' = 1..n
        /\ \A k \in 1..n : projected'[k] = projected[k]
    BY <1>0, HandleReorgCuts
  <1>2. /\ submission' = [s \in Submissions |-> RowAt(s, n)]
        /\ external' = ExternalAfter(n)
        /\ \A k \in (n + 1)..Len(projected) : UndoAccepts(k)
        /\ UNCHANGED <<prepared, funded, onChain, sent, chain, final>>
    BY <1>0 DEF HandleReorg, chainVars
  <1>3. \A s \in Submissions : /\ submission'[s] = RowAt(s, n) /\ submission'[s] \in Row
                               /\ submission'[s].content = submission[s].content
                               /\ submission'[s].review = submission[s].review
    BY <1>0, <1>2, RewoundRow
  <1>4. \A k \in 1..n : k \in DOMAIN projected /\ Touched(k) \subseteq Submissions
                         /\ projected[k].rows \subseteq Submissions
    BY <1>0, <1>1, DeliveryType
  <1>5. ASSUME NEW s \in Submissions, Exists(s) PROVE submission'[s].status = StatusAt(s, n)
    <2>1. n \in 0..Len(projected)
      BY <1>0, <1>1
    <2> QED
      BY <2>1, <1>0, <1>3, <1>5, RowAtStatus DEF IInv
  <1>6. ASSUME NEW s \in Submissions, ~Exists(s) PROVE submission'[s] = submission[s]
    <2>1. Touching(s, n) = {}
      BY <1>0, <1>6 DEF Touching, Touched, IInv, RowsDelivered
    <2> QED
      BY <2>1, <1>3 DEF RowAt
  <1>7. \A s \in Submissions : Exists(s)' = Exists(s) /\ HashOf(s)' = HashOf(s)
    <2>1. ASSUME NEW s \in Submissions PROVE Exists(s)' = Exists(s)
      <3>1. CASE Exists(s)
        BY <3>1, <1>5, StatusAtValues DEF Exists
      <3>2. CASE ~Exists(s)
        BY <3>2, <1>6 DEF Exists
      <3> QED
        BY <3>1, <3>2
    <2>2. ASSUME NEW s \in Submissions PROVE HashOf(s)' = HashOf(s)
      BY <1>3 DEF HashOf
    <2> QED
      BY <2>1, <2>2
  <1>8. \A k \in 1..n : /\ Touched(k)' = Touched(k) /\ HashAt(k)' = HashAt(k)
                        /\ \A s : EventAfter(s, k)' = EventAfter(s, k)
    BY <1>1, <1>2 DEF Touched, HashAt, EventAfter
  <1>9. ASSUME NEW s \in Submissions, NEW m \in 0..n PROVE StatusAt(s, m)' = StatusAt(s, m)
    <2>1. DeliveriesOf(s)' = DeliveriesOf(s) \cap (1..n)
      BY <1>0, <1>1 DEF DeliveriesOf
    <2>2. DeliveriesOf(s)' \cap (1..m) = DeliveriesOf(s) \cap (1..m)
      BY <2>1
    <2>3. DeliveriesOf(s) \subseteq 1..Len(projected)
      BY <1>0 DEF DeliveriesOf
    <2>4. m \in DeliveriesOf(s)' <=> m \in DeliveriesOf(s)
      BY <2>1, <2>3, <1>0
    <2> QED
      BY <2>2, <2>4 DEF StatusAt
  (* the parts of the invariant *)
  <1>10. Types'
    <2>1. submission' \in [Submissions -> Row]
      BY <1>2, <1>3
    <2>2. ASSUME NEW k \in DOMAIN projected'
          PROVE  /\ projected'[k].tx \in DOMAIN sent /\ projected'[k].rows \subseteq Submissions
                 /\ DOMAIN projected'[k].undo \subseteq Submissions
                 /\ \A s \in DOMAIN projected'[k].undo : projected'[k].undo[s] \in Row
      BY <1>0, <1>1, DeliveryType DEF Touched
    <2>3. onChain' \in 0..Len(projected')
      BY <1>0, <1>1, <1>2
    <2>4. external' \in BOOLEAN
      BY <1>2 DEF ExternalAfter
    <2> QED
      BY <1>0, <1>1, <1>2, <2>1, <2>2, <2>3, <2>4 DEF Types, TypeOK
  <1>11. PreparedKept'
    <2>1. ASSUME NEW x \in prepared PROVE Matching(x)' # {}
      <3>1. PICK s \in Submissions : Exists(s) /\ HashOf(s) = x
        BY DEF IInv, PreparedKept, Matching
      <3> QED
        BY <3>1, <1>7 DEF Matching
    <2> QED
      BY <2>1, <1>2 DEF PreparedKept
  <1>12. StatusFollowsChain'
    <2>1. ASSUME NEW s \in Submissions, Exists(s)' PROVE submission'[s].status = StatusAt(s, n)'
      BY <2>1, <1>0, <1>5, <1>7, <1>9
    <2>2. \A s \in Submissions : Exists(s)' => submission'[s].status = StatusAt(s, Len(projected))'
      BY <2>1, <1>1 DEF StatusAt
    <2>3. (Types => (StatusFollowsChain <=>
              \A s \in Submissions : Exists(s) => submission[s].status = StatusAt(s, Len(projected))))'
      BY StatusFollows, PTL
    <2> QED
      BY <2>2, <2>3, <1>10
  <1>13. ReviewOnDelivery'
    <2>1. ASSUME NEW s \in Submissions, submission'[s].review > 0
          PROVE  submission'[s].status \in {"SUBMITTED", "SUPERSEDED"}
      <3>1. submission[s].review > 0
        BY <2>1, <1>3
      <3>2. CASE Touching(s, n) = {}
        BY <3>1, <3>2, <1>3 DEF RowAt, IInv, ReviewOnDelivery
      <3>3. CASE Touching(s, n) # {}
        <4> DEFINE e == Earliest(Touching(s, n))
        <4>1. e \in (n + 1)..Len(projected) /\ s \in Touched(e)
          BY <3>3, <1>0, EarliestTouch
        <4>2. submission'[s].status = projected[e].undo[s].status
          BY <3>3, <1>0, <1>3, RowAtEarliest
        <4> HIDE DEF e
        <4>3. e \in DOMAIN projected
          BY <4>1, <1>0
        <4>4. submission[s].review = projected[e].undo[s].review
          BY <4>1, <1>2 DEF UndoAccepts, ReviewUnchanged, Touched
        <4>5. projected[e].undo[s].status # "DRAFT"
          BY <3>1, <4>1, <4>3, <4>4 DEF IInv, SnapshotStatus
        <4>6. projected[e].undo[s].status \in {"DRAFT", "SUBMITTED", "SUPERSEDED"}
          BY <4>1, <4>3, StatusAtValues DEF IInv, SnapshotStatus
        <4> QED
          BY <4>2, <4>5, <4>6
      <3> QED
        BY <3>2, <3>3
    <2> QED
      BY <2>1 DEF ReviewOnDelivery
  <1>14. RowsDelivered'
    BY <1>1, <1>4, <1>7, <1>8 DEF IInv, RowsDelivered
  <1>15. NextTouches'
    <2>1. ASSUME NEW k \in 1..n, k + 1 \in 1..n PROVE projected[k].rows \subseteq Touched(k + 1)'
      BY <2>1, <1>4, <1>8 DEF IInv, NextTouches
    <2> QED
      BY <2>1, <1>1 DEF NextTouches
  <1>16. SnapshotStatus'
    <2>1. ASSUME NEW k \in 1..n, NEW s \in Touched(k)
          PROVE  /\ projected[k].undo[s].status = StatusAt(s, k - 1)'
                 /\ s \notin projected[k].rows => projected[k].undo[s].status = "SUBMITTED"
                 /\ projected[k].undo[s].review > 0 => projected[k].undo[s].status # "DRAFT"
      <3>1. k - 1 \in 0..n /\ s \in Submissions
        BY <1>4
      <3> QED
        BY <3>1, <1>4, <1>9 DEF IInv, SnapshotStatus
    <2> QED
      BY <2>1, <1>1, <1>8 DEF SnapshotStatus
  <1>17. SnapshotEvent'
    <2>1. ASSUME NEW j \in 1..n, NEW k \in 1..n, k < j, NEW s \in Touched(j) \cap Touched(k),
                 \A i \in (k + 1)..(j - 1) : s \notin Touched(i)'
          PROVE  projected[j].undo[s].event = EventAfter(s, k)
      <3>1. \A i \in (k + 1)..(j - 1) : i \in 1..n
        OBVIOUS
      <3> QED
        BY <2>1, <3>1, <1>4, <1>8 DEF IInv, SnapshotEvent
    <2> QED
      BY SMTT(30), <2>1, <1>1, <1>8 DEF SnapshotEvent
  <1>18. EventFollowsChain'
    <2>1. ASSUME NEW k \in 1..n, NEW s \in Touched(k), Touching(s, k)' = {}
          PROVE  submission'[s].event = EventAfter(s, k)
      <3>1. \A i \in (k + 1)..n : s \notin Touched(i)'
        BY <2>1, <1>1 DEF Touching, Touched
      <3>2. \A i \in (k + 1)..n : s \notin Touched(i)
        BY <3>1, <1>8
      <3>3. k \in DOMAIN projected /\ n \in k..Len(projected) /\ s \in Submissions
        BY <1>0, <1>1, <1>4
      <3> QED
        BY <3>2, <3>3, <1>0, <1>3, RowAtEvent DEF IInv
    <2> QED
      BY <2>1, <1>1, <1>8 DEF EventFollowsChain
  <1>19. ExternalIsLast'
    <2>1. SUFFICES ASSUME external' PROVE projected' # <<>> /\ projected'[n].rows = {}
      BY <1>1 DEF ExternalIsLast
    <2>2. n > 0 /\ Matching(HashAt(n)) = {}
      BY <2>1, <1>2 DEF ExternalAfter
    <2>3. n \in 1..n /\ projected' # <<>>
      BY <2>2, <1>1
    <2>4. ASSUME NEW s \in projected[n].rows PROVE FALSE
      <3>1. s \in Submissions /\ Exists(s) /\ HashOf(s) = HashAt(n)
        BY <2>3, <1>4 DEF IInv, RowsDelivered
      <3> QED
        BY <2>2, <3>1 DEF Matching
    <2> QED
      BY <2>3, <2>4, <1>1
  <1> QED
    BY <1>10, <1>11, <1>12, <1>13, <1>14, <1>15, <1>16, <1>17, <1>18, <1>19 DEF IInv

-----------------------------------------------------------------------------
(* Theorems *)

(* the invariant of the submissions holds always *)
THEOREM InductiveInvariant == Spec => []IInv
  <1>1. IInv /\ [Next]_vars => IInv'
    <2> SUFFICES ASSUME IInv, [Next]_vars PROVE IInv'
      OBVIOUS
    <2>1. CASE ProjectWork
      BY <2>1, ProjectWorkKeeps
    <2>2. CASE HandleReorg
      BY <2>2, HandleReorgKeeps
    <2>3. CASE ~ProjectWork /\ ~HandleReorg
      BY <2>3, OtherStepsQuiet, QuietKeeps DEF IInv
    <2> QED
      BY <2>1, <2>2, <2>3
  <1> QED
    BY <1>1, InitIInv, PTL DEF Spec

(* A delivery the application prepared always has the draft it was computed   *)
(* from: an edit never touches a draft whose hash was prepared.               *)
THEOREM PreparedAlwaysKept == Spec => []PreparedKept
  <1>1. IInv => PreparedKept
    BY DEF IInv
  <1> QED
    BY <1>1, InductiveInvariant, PTL

(* The rows say what the canonical deliveries say, through any sequence of     *)
(* deliveries, resubmissions, reorganisations and undos.                      *)
THEOREM StatusAlwaysFollows == Spec => []StatusFollowsChain
  <1>1. IInv => StatusFollowsChain
    BY DEF IInv
  <1> QED
    BY <1>1, InductiveInvariant, PTL

(* The client is not asked to review a row while the delivery shown is external, *)
(* also after a rebuild.                                                        *)
THEOREM ExternalNeverReviewed == Spec => []ExternalNotReviewed
  <1>1. ASSUME IInv, external, NEW s \in UnderReview PROVE FALSE
    <2>1. s \in Submissions /\ Exists(s) /\ submission[s].status = "SUBMITTED"
      BY <1>1 DEF UnderReview, Exists
    <2>2. submission[s].status = StatusAt(s, Len(projected))
      BY <1>1, <2>1, StatusFollows DEF IInv
    <2>3. Len(projected) \in DeliveriesOf(s)
      BY <2>1, <2>2 DEF StatusAt
    <2> QED
      BY <1>1, <2>3 DEF DeliveriesOf, IInv, ExternalIsLast
  <1>2. IInv => ExternalNotReviewed
    BY <1>1 DEF ExternalNotReviewed
  <1> QED
    BY <1>2, InductiveInvariant, PTL

(* A request for changes is never left on a row the rewind made a draft again. *)
THEOREM ReviewAlwaysOnDelivery == Spec => []ReviewOnDelivery
  <1>1. IInv => ReviewOnDelivery
    BY DEF IInv
  <1> QED
    BY <1>1, InductiveInvariant, PTL

(* undoWork never throws on its own account: while the client has reviewed no *)
(* row of a lost delivery, every check of the rewind passes, whatever was     *)
(* delivered, superseded and delivered again before (undo.ts:68).             *)
THEOREM RewindAlwaysPossible == Spec => []RewindPossible
  <1>1. ASSUME IInv, ~UpToDate, ~LostDeliveryReviewed, NEW k \in (onChain + 1)..Len(projected)
        PROVE  UndoAccepts(k)
    <2>0. Types /\ k \in DOMAIN projected /\ k \in 0..Len(projected) /\ k \in k..Len(projected) /\ k \in Nat
      BY <1>1, Numbers DEF IInv
    <2>1. ASSUME NEW s \in Touched(k)
          PROVE  LET was == projected[k].undo[s]
                     current == RowAt(s, k)
                 IN  /\ ReviewUnchanged(s, was)
                     /\ \/ current.status = "SUBMITTED" /\ current.event = projected[k].tx
                        \/ /\ current.status = "SUPERSEDED" /\ was.status = "SUBMITTED"
                           /\ current.event = was.event
      <3>1. s \in Submissions /\ Exists(s)
        BY <2>0, <1>1, DeliveryType DEF IInv, RowsDelivered
      <3>2. ReviewUnchanged(s, projected[k].undo[s])
        BY <1>1 DEF LostDeliveryReviewed, ReviewUnchanged, Touched
      <3>3. RowAt(s, k).status = StatusAt(s, k)
        BY <1>1, <2>0, <3>1, RowAtStatus DEF IInv
      <3>4. RowAt(s, k).event = EventAfter(s, k)
        <4>1. \A i \in (k + 1)..k : s \notin Touched(i)
          BY <2>0
        <4> QED
          BY <4>1, <1>1, <2>0, RowAtEvent DEF IInv
      <3>5. CASE s \in projected[k].rows
        <4>1. k \in DeliveriesOf(s)
          BY <3>5, <2>0 DEF DeliveriesOf
        <4> QED
          BY <3>2, <3>3, <3>4, <3>5, <4>1 DEF StatusAt, EventAfter
      <3>6. CASE s \notin projected[k].rows
        <4>1. projected[k].undo[s].status = "SUBMITTED" /\ StatusAt(s, k - 1) = "SUBMITTED"
          BY <3>6, <1>1, <2>0 DEF IInv, SnapshotStatus
        <4>2. k - 1 \in DeliveriesOf(s) /\ k \notin DeliveriesOf(s)
          BY <3>6, <4>1, <2>0 DEF StatusAt, DeliveriesOf
        <4>3. k - 1 \in DeliveriesOf(s) \cap (1..k)
          BY <4>2, <2>0, Numbers DEF DeliveriesOf
        <4>4. StatusAt(s, k) = "SUPERSEDED"
          BY <4>2, <4>3 DEF StatusAt
        <4> QED
          BY <3>2, <3>3, <3>4, <3>6, <4>1, <4>4 DEF EventAfter
      <3> QED
        BY <3>5, <3>6
    <2> QED
      BY <2>1 DEF UndoAccepts, Touched
  <1>2. IInv => RewindPossible
    BY <1>1 DEF RewindPossible
  <1> QED
    BY <1>2, InductiveInvariant, PTL

=============================================================================
