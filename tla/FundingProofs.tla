---------------------------- MODULE FundingProofs ----------------------------
(***************************************************************************)
(* What holds of one issue on its way to being funded, for any number of    *)
(* developers, selections and requests: the issue is held, and work is      *)
(* under way, exactly as its reservations say.  The hypotheses of a theorem  *)
(* are what it needs of the transactions that commit into one another: a     *)
(* cancellation nothing commits into (CancelAlone), reorganisations apart    *)
(* from later selections (ReorgsApart), and captures and undos whose issue   *)
(* stays as they read it (CapturesApart, UndosApart).                        *)
(***************************************************************************)
EXTENDS Funding, TLAPS

Issues == [status : IssueStatus, developer : Developers \cup {NoDeveloper}]
Before == [status : ReservationStatus, issue : Issues,
           application : [Developers -> ApplicationStatus]]
Projections == [reservation : Nat, terms : {"none", "matching", "differing"}, before : Before]

Newest == Len(reservation)

Capturing == worker.pc \in {"issue", "applications"}
Projecting == worker.pc \in {"load", "apply"}
Undoing == worker.pc \in {"undo issue", "undo applications", "undo"}

Types ==
    /\ TypeOK
    /\ Len(reservation) <= MaxReservations
    /\ projected \in Seq(Projections)
    /\ \A i \in DOMAIN projected : projected[i].reservation \in Numbers

(* the projection under way is of a reservation whose deposit is not projected *)
WorkerCaptured ==
    /\ worker = Idle \/ Capturing \/ Projecting \/ Undoing
    /\ Capturing \/ Projecting =>
          worker.reservation \in Numbers /\ Unprojected(worker.reservation)
    /\ Capturing => worker.captured \in ReservationStatus \ {"FUNDED"}
    /\ worker.pc = "applications" => worker.issue \in Issues
    /\ Projecting => worker.before \in Before

(* a reservation has one deposit *)
ProjectedOnce ==
    \A i, j \in DOMAIN projected :
        projected[i].reservation = projected[j].reservation => i = j

(* no selection is made while a reservation waits *)
OnlyNewestWaits == WithStatus("AWAITING_FUNDING") \subseteq {Newest}

(* what was captured before the deposit of r agrees with the other reservations *)
IssueAgrees(r, status, captured) ==
    LET others == WithStatus("FUNDED") \ {r}
    IN  /\ status # "FUNDED"
        /\ (captured.status = "AWAITING_FUNDING") <=> (status = "AWAITING_FUNDING")
        /\ (captured.status = "IN_PROGRESS") <=> (others # {})
        /\ \A o \in others : captured.developer = reservation[o].developer

CapturedAgrees(r, before) ==
    /\ IssueAgrees(r, before.status, before.issue)
    /\ WithStatus("FUNDED") \ {r} # {} => before.application[before.issue.developer] = "ACCEPTED"

WorkerAgrees ==
    (Capturing \/ Projecting) /\ worker.reservation = Newest =>
        /\ worker.pc = "applications" => IssueAgrees(Newest, worker.captured, worker.issue)
        /\ Projecting => CapturedAgrees(Newest, worker.before)

LastAgrees ==
    projected # <<>> /\ Undone.reservation = Newest => CapturedAgrees(Newest, Undone.before)

(* only the newest reservation's deposit is reorganised away, and no deposit is *)
(* projected until that is undone                                              *)
DroppedIsNewest ==
    /\ dropped => projected # <<>> /\ Undone.reservation = Newest /\ ~Capturing /\ ~Projecting
    /\ Undoing => dropped

(* an undo that found the issue cancelled found it as it was captured *)
UndoReadsCancelled ==
    worker.pc \in {"undo applications", "undo"} /\ worker.issue.status = "CANCELLED"
        => worker.issue = Undone.before.issue

(* cancelIssue goes on while the issue is as it read it *)
CancelsOpen == Cancel \in request => issue.status = "OPEN"

IInv == /\ Types /\ WorkerCaptured /\ ProjectedOnce /\ OnlyNewestWaits /\ OneActive(reservation)
        /\ WorkerAgrees /\ LastAgrees /\ DroppedIsNewest /\ UndoReadsCancelled /\ CancelsOpen
        /\ HeldExactlyWhileReserved /\ FundedExactlyInProgress

-----------------------------------------------------------------------------
(* Reading the state *)

(* the numbers of the reservations, and what each of them holds *)
LEMMA ReservationFacts ==
  ASSUME Types
  PROVE  /\ Newest \in Nat /\ Numbers = 1..Newest
         /\ \A r \in Numbers : /\ reservation[r] \in [developer : Developers, status : ReservationStatus]
                               /\ reservation[r].developer \in Developers
         /\ issue \in [status : IssueStatus, developer : Developers \cup {NoDeveloper}]
         /\ Len(projected) \in Nat /\ DOMAIN projected = 1..Len(projected)
  <1>1. Newest \in Nat /\ Numbers = 1..Newest
    BY DEF Types, TypeOK, Newest, Numbers
  <1>2. ASSUME NEW r \in Numbers
        PROVE  reservation[r] \in [developer : Developers, status : ReservationStatus]
    <2> DEFINE R == [developer : Developers, status : ReservationStatus]
    <2>1. reservation \in Seq(R)
      BY DEF Types, TypeOK
    <2> HIDE DEF R
    <2>2. reservation[r] \in R
      BY <2>1 DEF Numbers
    <2> QED
      BY <2>2 DEF R
  <1>3. Len(projected) \in Nat /\ DOMAIN projected = 1..Len(projected)
    BY DEF Types
  <1>4. issue \in [status : IssueStatus, developer : Developers \cup {NoDeveloper}]
    BY DEF Types, TypeOK
  <1> QED
    BY <1>1, <1>2, <1>3, <1>4

(* a reservation waits or is paid for exactly when the issue says so *)
LEMMA ActiveReservation ==
  ASSUME IInv, NEW r \in Numbers
  PROVE  /\ reservation[r].status = "AWAITING_FUNDING" =>
               /\ issue.status = "AWAITING_FUNDING" /\ r = Newest
               /\ WithStatus("AWAITING_FUNDING") = {r} /\ WithStatus("FUNDED") = {}
         /\ reservation[r].status = "FUNDED" =>
               /\ issue.status = "IN_PROGRESS"
               /\ WithStatus("FUNDED") = {r} /\ WithStatus("AWAITING_FUNDING") = {}
  <1>1. \A x, y \in Numbers :
            reservation[x].status \in {"AWAITING_FUNDING", "FUNDED"}
              /\ reservation[y].status \in {"AWAITING_FUNDING", "FUNDED"} => x = y
    BY DEF IInv, OneActive, Numbers
  <1>2. CASE reservation[r].status = "AWAITING_FUNDING"
    BY <1>1, <1>2 DEF IInv, WithStatus, OnlyNewestWaits, HeldExactlyWhileReserved
  <1>3. CASE reservation[r].status = "FUNDED"
    BY <1>1, <1>3 DEF IInv, WithStatus, FundedExactlyInProgress
  <1> QED
    BY <1>2, <1>3

(* the first state *)
LEMMA InitIInv == Init => IInv
  <1> SUFFICES ASSUME Init PROVE IInv
    OBVIOUS
  <1>1. /\ reservation = <<>> /\ projected = <<>> /\ worker = Idle /\ dropped = FALSE
        /\ request = {} /\ issue = [status |-> "OPEN", developer |-> NoDeveloper]
        /\ application = [d \in Developers |-> "NONE"]
        /\ deposit = [r \in 1..MaxReservations |-> "none"]
    BY DEF Init
  <1>2. /\ Len(reservation) = 0 /\ DOMAIN reservation = {} /\ DOMAIN projected = {}
        /\ reservation \in Seq([developer : Developers, status : ReservationStatus])
        /\ projected \in Seq(Projections)
    BY <1>1
  <1>3. Types
    <2>1. 0 <= MaxReservations
      BY FundingAssumption
    <2> QED
      BY <1>1, <1>2, <2>1 DEF Types, TypeOK, IssueStatus, ApplicationStatus
  <1>4. \A status : WithStatus(status) = {}
    BY <1>2 DEF WithStatus, Numbers
  <1> QED
    BY <1>1, <1>2, <1>3, <1>4
    DEF IInv, WorkerCaptured, ProjectedOnce, OnlyNewestWaits, OneActive, WorkerAgrees, LastAgrees,
        DroppedIsNewest, UndoReadsCancelled, CancelsOpen, HeldExactlyWhileReserved,
        FundedExactlyInProgress, Idle, Capturing, Projecting, Undoing

-----------------------------------------------------------------------------
(* Steps that change neither the issue nor a reservation nor what is projected *)

Quiet ==
    /\ UNCHANGED <<issue, reservation, projected, dropped, worker>>
    /\ application' \in [Developers -> ApplicationStatus]
    /\ \A d \in Developers : application[d] = "ACCEPTED" => application'[d] = "ACCEPTED"
    /\ deposit' \in [1..MaxReservations -> {"none", "matching", "differing"}]
    /\ Cancel \in request' => issue.status = "OPEN"

(* a step that leaves issue, reservations and projected deposits alone keeps the invariant *)
LEMMA QuietKeeps ==
  ASSUME IInv, Quiet
  PROVE  IInv'
  <1>1. UNCHANGED <<issue, reservation, projected, dropped, worker>>
    BY DEF Quiet
  <1>2. Types'
    BY <1>1 DEF IInv, Types, TypeOK, Quiet, Numbers
  <1>3. \A status : WithStatus(status)' = WithStatus(status)
    BY <1>1 DEF WithStatus, Numbers
  <1>4. /\ WorkerCaptured' /\ ProjectedOnce' /\ OnlyNewestWaits' /\ OneActive(reservation)'
        /\ DroppedIsNewest' /\ UndoReadsCancelled' /\ HeldExactlyWhileReserved'
    BY <1>1, <1>3 DEF IInv, WorkerCaptured, ProjectedOnce, OnlyNewestWaits, OneActive, DroppedIsNewest,
                      UndoReadsCancelled, HeldExactlyWhileReserved, Unprojected, Numbers, Newest, Undone,
                      Capturing, Projecting, Undoing
  <1>5. WorkerAgrees' /\ LastAgrees'
    BY <1>1, <1>3 DEF IInv, WorkerAgrees, LastAgrees, CapturedAgrees, IssueAgrees, Newest, Undone,
                      Capturing, Projecting
  <1>6. CancelsOpen'
    BY <1>1 DEF CancelsOpen, Quiet
  <1>7. FundedExactlyInProgress'
    <2>1. ASSUME NEW r \in WithStatus("FUNDED")
          PROVE  application'[issue.developer] = "ACCEPTED"
      <3>1. issue.developer \in Developers /\ application[issue.developer] = "ACCEPTED"
        BY <2>1, ReservationFacts DEF IInv, FundedExactlyInProgress, WithStatus
      <3> QED
        BY <3>1 DEF Quiet
    <2> QED
      BY <1>1, <1>3, <2>1 DEF IInv, FundedExactlyInProgress
  <1> QED
    BY <1>2, <1>4, <1>5, <1>6, <1>7 DEF IInv

(* the applications, the requests of the web and a payment are such steps *)
LEMMA QuietSteps ==
  ASSUME IInv,
         \/ \E dev \in Developers :
               \/ ApplyToIssue(dev) \/ StoreApplication(dev) \/ WithdrawApplication(dev)
               \/ RejectApplication(dev) \/ StoreRejection(dev) \/ BanDeveloper(dev)
         \/ \E q \in request : RequestFails(q)
         \/ CancelIssue \/ BanClient
         \/ \E r \in Numbers, terms \in {"matching", "differing"} : Pay(r, terms)
  PROVE  Quiet
  <1>1. /\ application \in [Developers -> ApplicationStatus]
        /\ deposit \in [1..MaxReservations -> {"none", "matching", "differing"}]
        /\ (Cancel \in request => issue.status = "OPEN")
    BY DEF IInv, Types, TypeOK, CancelsOpen
  <1>2. ASSUME NEW dev \in Developers,
               \/ ApplyToIssue(dev) \/ StoreApplication(dev) \/ WithdrawApplication(dev)
               \/ RejectApplication(dev) \/ StoreRejection(dev) \/ BanDeveloper(dev)
        PROVE  Quiet
    <2>1. Apply(dev) # Cancel /\ Reject(dev) # Cancel
      BY DEF Apply, Reject, Cancel
    <2>2. CASE ApplyToIssue(dev)
      BY <1>1, <2>1, <2>2 DEF ApplyToIssue, Begin, Quiet, webVars, chainVars
    <2>3. CASE StoreApplication(dev)
      BY <1>1, <2>3 DEF StoreApplication, Quiet, chainVars, ApplicationStatus
    <2>4. CASE WithdrawApplication(dev)
      BY <1>1, <2>4 DEF WithdrawApplication, Quiet, chainVars, ApplicationStatus
    <2>5. CASE RejectApplication(dev)
      BY <1>1, <2>1, <2>5 DEF RejectApplication, Begin, Quiet, webVars, chainVars
    <2>6. CASE StoreRejection(dev)
      BY <1>1, <2>6 DEF StoreRejection, Quiet, chainVars, ApplicationStatus
    <2>7. CASE BanDeveloper(dev)
      BY <1>1, <2>7 DEF BanDeveloper, Quiet, chainVars, ApplicationStatus
    <2> QED
      BY <1>2, <2>2, <2>3, <2>4, <2>5, <2>6, <2>7
  <1>3. ASSUME NEW q \in request, RequestFails(q) PROVE Quiet
    BY <1>1, <1>3 DEF RequestFails, Quiet, webVars, chainVars
  <1>4. CASE CancelIssue
    BY <1>1, <1>4 DEF CancelIssue, Begin, Quiet, webVars, chainVars
  <1>5. CASE BanClient
    BY <1>1, <1>5 DEF BanClient, Begin, Quiet, webVars, chainVars
  <1>6. ASSUME NEW r \in Numbers, NEW terms \in {"matching", "differing"}, Pay(r, terms) PROVE Quiet
    BY <1>1, <1>6 DEF Pay, Quiet, webVars
  <1> QED
    BY <1>2, <1>3, <1>4, <1>5, <1>6

-----------------------------------------------------------------------------
(* Steps that change the status of one reservation *)

SetsStatus(r, status) == reservation' = [reservation EXCEPT ![r].status = status]

(* what such a step changes and what it keeps *)
LEMMA SetsStatusEffect ==
  ASSUME Types, NEW r \in Numbers, NEW status \in ReservationStatus, SetsStatus(r, status)
  PROVE  /\ Numbers' = Numbers /\ Newest' = Newest
         /\ reservation' \in Seq([developer : Developers, status : ReservationStatus])
         /\ Len(reservation') = Len(reservation)
         /\ \A o \in Numbers : /\ reservation'[o].developer = reservation[o].developer
                               /\ o # r => reservation'[o] = reservation[o]
         /\ reservation'[r].status = status
         /\ WithStatus("AWAITING_FUNDING")' = IF status = "AWAITING_FUNDING"
                                              THEN WithStatus("AWAITING_FUNDING") \cup {r}
                                              ELSE WithStatus("AWAITING_FUNDING") \ {r}
         /\ WithStatus("FUNDED")' = IF status = "FUNDED" THEN WithStatus("FUNDED") \cup {r}
                                    ELSE WithStatus("FUNDED") \ {r}
  <1> DEFINE R == [developer : Developers, status : ReservationStatus]
  <1>1. reservation \in Seq(R) /\ Numbers = DOMAIN reservation /\ reservation[r] \in R
    BY ReservationFacts DEF Types, TypeOK, Numbers
  <1>2. [reservation[r] EXCEPT !.status = status] \in R
    BY <1>1
  <1>3. reservation' = [reservation EXCEPT ![r] = [reservation[r] EXCEPT !.status = status]]
    BY DEF SetsStatus
  <1>4. /\ reservation' \in Seq(R) /\ DOMAIN reservation' = DOMAIN reservation
        /\ Len(reservation') = Len(reservation)
        /\ reservation'[r] = [reservation[r] EXCEPT !.status = status]
        /\ \A o \in Numbers : o # r => reservation'[o] = reservation[o]
    <2> DEFINE x == [reservation[r] EXCEPT !.status = status]
    <2>1. x \in R /\ reservation' = [reservation EXCEPT ![r] = x]
      BY <1>2, <1>3
    <2> HIDE DEF x, R
    <2>2. /\ reservation' \in Seq(R) /\ DOMAIN reservation' = DOMAIN reservation
          /\ Len(reservation') = Len(reservation)
          /\ reservation'[r] = x
          /\ \A o \in Numbers : o # r => reservation'[o] = reservation[o]
      BY <1>1, <2>1
    <2> QED
      BY <2>2 DEF x
  <1>5. \A o \in Numbers : reservation'[o].developer = reservation[o].developer
    <2>1. reservation'[r].developer = reservation[r].developer
      BY <1>1, <1>4
    <2> QED
      BY <1>4, <2>1
  <1>6. reservation'[r].status = status
    BY <1>1, <1>4
  <1>7. WithStatus("AWAITING_FUNDING")' = IF status = "AWAITING_FUNDING"
                                          THEN WithStatus("AWAITING_FUNDING") \cup {r}
                                          ELSE WithStatus("AWAITING_FUNDING") \ {r}
    BY <1>1, <1>4, <1>6 DEF WithStatus, Numbers
  <1>8. WithStatus("FUNDED")' = IF status = "FUNDED" THEN WithStatus("FUNDED") \cup {r}
                                ELSE WithStatus("FUNDED") \ {r}
    BY <1>1, <1>4, <1>6 DEF WithStatus, Numbers
  <1>9. Numbers' = Numbers /\ Newest' = Newest
    BY <1>4 DEF Numbers, Newest
  <1> QED
    BY <1>4, <1>5, <1>6, <1>7, <1>8, <1>9

(* a reservation ends without being paid, and the issue opens again *)
LEMMA EndKeeps ==
  ASSUME IInv, NEW r \in Numbers, NEW status \in {"CANCELLED", "EXPIRED"},
         reservation[r].status = "AWAITING_FUNDING",
         SetsStatus(r, status), issue' = Reopened,
         UNCHANGED <<application, request, deposit, projected, dropped, worker>>
  PROVE  IInv'
  <1>0. Types /\ status \in ReservationStatus
    BY DEF IInv, ReservationStatus
  <1>1. /\ issue.status = "AWAITING_FUNDING" /\ r = Newest
        /\ WithStatus("AWAITING_FUNDING") = {r} /\ WithStatus("FUNDED") = {}
    BY ActiveReservation
  <1>2. /\ Numbers' = Numbers /\ Newest' = Newest
        /\ reservation' \in Seq([developer : Developers, status : ReservationStatus])
        /\ Len(reservation') = Len(reservation)
        /\ \A o \in Numbers : /\ reservation'[o].developer = reservation[o].developer
                              /\ o # r => reservation'[o] = reservation[o]
        /\ reservation'[r].status = status
        /\ WithStatus("AWAITING_FUNDING")' = {} /\ WithStatus("FUNDED")' = {}
    BY <1>0, <1>1, SetsStatusEffect
  <1>3. issue' \in [status : IssueStatus, developer : Developers \cup {NoDeveloper}]
        /\ issue'.status = "OPEN"
    BY <1>0, <1>1, ReservationFacts DEF Reopened, IssueStatus
  <1>4. Types'
    BY <1>0, <1>2, <1>3 DEF Types, TypeOK
  <1>5. WorkerCaptured' /\ ProjectedOnce' /\ DroppedIsNewest' /\ UndoReadsCancelled'
    BY <1>2 DEF IInv, WorkerCaptured, ProjectedOnce, DroppedIsNewest, UndoReadsCancelled, Unprojected,
                Undone, Capturing, Projecting, Undoing
  <1>6. OnlyNewestWaits' /\ CancelsOpen'
    BY <1>2, <1>3 DEF OnlyNewestWaits, CancelsOpen
  <1>7. OneActive(reservation)'
    BY <1>2 DEF IInv, OneActive, Numbers
  <1>8. WorkerAgrees' /\ LastAgrees'
    BY <1>1, <1>2 DEF IInv, WorkerAgrees, LastAgrees, CapturedAgrees, IssueAgrees, Undone,
                      Capturing, Projecting
  <1>9. HeldExactlyWhileReserved'
    BY <1>2, <1>3 DEF HeldExactlyWhileReserved
  <1>10. FundedExactlyInProgress'
    <2>1. \A i \in DOMAIN projected : projected[i].reservation \in Numbers /\ projected[i].reservation # r
      BY <1>0 DEF IInv, Types, FundedExactlyInProgress
    <2>2. \A i \in DOMAIN projected : reservation'[projected[i].reservation].status \in {"FUNDED", "MISMATCHED"}
      BY <1>2, <2>1 DEF IInv, FundedExactlyInProgress
    <2> QED
      BY <1>2, <1>3, <2>2 DEF FundedExactlyInProgress
  <1> QED
    BY <1>4, <1>5, <1>6, <1>7, <1>8, <1>9, <1>10 DEF IInv

(* the client cancels a reservation, or it expires *)
LEMMA EndSteps ==
  ASSUME IInv, NEW r \in Numbers, CancelReservation(r) \/ ExpireReservation(r)
  PROVE  IInv'
  <1>1. CASE CancelReservation(r)
    BY <1>1, EndKeeps DEF CancelReservation, SetsStatus, chainVars
  <1>2. CASE ExpireReservation(r)
    <2>1. (WithStatus("AWAITING_FUNDING") \cup WithStatus("FUNDED")) \ {r} = {}
      BY <1>2, ActiveReservation DEF ExpireReservation
    <2> QED
      BY <1>2, <2>1, EndKeeps DEF ExpireReservation, SetsStatus, chainVars
  <1> QED
    BY <1>1, <1>2

-----------------------------------------------------------------------------
(* Selection and cancellation *)

(* a selection makes the newest reservation, of an issue nobody holds *)
LEMMA SelectKeeps ==
  ASSUME IInv, NEW dev \in Developers, SelectDeveloper(dev), ReorgsApart, Cancel \notin request
  PROVE  IInv'
  <1> DEFINE new == [developer |-> dev, status |-> "AWAITING_FUNDING"]
             R == [developer : Developers, status : ReservationStatus]
  <1>0. Types
    BY DEF IInv
  <1>1. /\ Len(reservation) < MaxReservations /\ ~dropped /\ issue.status = "OPEN"
        /\ reservation' = Append(reservation, new) /\ OneActive(reservation')
        /\ issue' = [issue EXCEPT !.status = "AWAITING_FUNDING"]
        /\ UNCHANGED <<application, request, deposit, projected, dropped, worker>>
    BY DEF SelectDeveloper, chainVars
  <1>2. new \in R /\ reservation \in Seq(R) /\ Newest \in Nat
    BY <1>0, ReservationFacts DEF Types, TypeOK, ReservationStatus
  <1>3. new.developer = dev /\ new.status = "AWAITING_FUNDING"
    OBVIOUS
  <1> HIDE DEF new, R
  <1>4. /\ reservation' \in Seq(R) /\ Len(reservation') = Newest + 1
        /\ DOMAIN reservation' = 1..(Newest + 1)
        /\ reservation'[Newest + 1] = new
        /\ \A o \in 1..Newest : reservation'[o] = reservation[o]
    BY <1>1, <1>2 DEF Newest
  <1>5. Numbers = 1..Newest /\ Numbers' = Numbers \cup {Newest + 1} /\ Newest' = Newest + 1
        /\ Newest + 1 \notin Numbers
    BY <1>0, <1>4, ReservationFacts DEF Numbers, Newest
  <1>6. WithStatus("AWAITING_FUNDING") = {} /\ WithStatus("FUNDED") = {}
    BY <1>1 DEF IInv, HeldExactlyWhileReserved, FundedExactlyInProgress
  <1>7. WithStatus("AWAITING_FUNDING")' = {Newest + 1} /\ WithStatus("FUNDED")' = {}
    BY <1>3, <1>4, <1>5, <1>6 DEF WithStatus
  <1>8. /\ issue' \in [status : IssueStatus, developer : Developers \cup {NoDeveloper}]
        /\ issue'.status = "AWAITING_FUNDING"
    BY <1>0, <1>1, ReservationFacts DEF IssueStatus
  <1>9. \A i \in DOMAIN projected : projected[i].reservation \in Numbers
    BY <1>0 DEF Types
  <1>10. Types'
    <2>1. Len(reservation') <= MaxReservations
      BY <1>1, <1>2, <1>4, FundingAssumption DEF Newest
    <2> QED
      BY <1>0, <1>1, <1>4, <1>5, <1>8, <1>9, <2>1 DEF Types, TypeOK, R
  <1>11. WorkerCaptured' /\ ProjectedOnce' /\ UndoReadsCancelled'
    BY <1>1, <1>5 DEF IInv, WorkerCaptured, ProjectedOnce, UndoReadsCancelled, Unprojected, Undone,
                      Capturing, Projecting, Undoing
  <1>12. OnlyNewestWaits' /\ CancelsOpen' /\ HeldExactlyWhileReserved' /\ DroppedIsNewest'
    BY <1>1, <1>5, <1>7, <1>8 DEF IInv, OnlyNewestWaits, CancelsOpen, HeldExactlyWhileReserved,
                                  DroppedIsNewest, Undoing
  <1>13. WorkerAgrees'
    BY <1>1, <1>5 DEF IInv, WorkerCaptured, WorkerAgrees, Capturing, Projecting
  <1>14. LastAgrees'
    <2>1. projected # <<>> => Len(projected) \in DOMAIN projected
      BY <1>0 DEF Types
    <2> QED
      BY <1>1, <1>5, <1>9, <2>1 DEF LastAgrees, Undone
  <1>15. FundedExactlyInProgress'
    <2>1. \A i \in DOMAIN projected : reservation'[projected[i].reservation].status \in {"FUNDED", "MISMATCHED"}
      BY <1>4, <1>5, <1>9 DEF IInv, FundedExactlyInProgress
    <2> QED
      BY <1>1, <1>7, <1>8, <2>1 DEF FundedExactlyInProgress
  <1> QED
    BY <1>1, <1>10, <1>11, <1>12, <1>13, <1>14, <1>15 DEF IInv

(* cancelIssue writes over the issue it read, which is as it was *)
LEMMA CancellationKeeps ==
  ASSUME IInv, StoreCancellation
  PROVE  IInv'
  <1>0. Types
    BY DEF IInv
  <1>1. /\ issue.status = "OPEN"
        /\ issue' = [issue EXCEPT !.status = "CANCELLED"]
        /\ application' = [d \in Developers |->
              IF application[d] = "PENDING" THEN "REJECTED" ELSE application[d]]
        /\ Cancel \notin request'
        /\ UNCHANGED <<reservation, deposit, projected, dropped, worker>>
    BY DEF StoreCancellation, chainVars, IInv, CancelsOpen
  <1>2. /\ issue' \in [status : IssueStatus, developer : Developers \cup {NoDeveloper}]
        /\ issue'.status = "CANCELLED"
    BY <1>0, <1>1, ReservationFacts DEF IssueStatus
  <1>3. application' \in [Developers -> ApplicationStatus]
    BY <1>0, <1>1 DEF Types, TypeOK, ApplicationStatus
  <1>4. Types'
    BY <1>0, <1>1, <1>2, <1>3 DEF Types, TypeOK, Numbers
  <1>5. \A status : WithStatus(status)' = WithStatus(status)
    BY <1>1 DEF WithStatus, Numbers
  <1>6. WithStatus("AWAITING_FUNDING") = {} /\ WithStatus("FUNDED") = {}
    BY <1>1 DEF IInv, HeldExactlyWhileReserved, FundedExactlyInProgress
  <1>7. /\ WorkerCaptured' /\ ProjectedOnce' /\ OnlyNewestWaits' /\ OneActive(reservation)'
        /\ DroppedIsNewest' /\ UndoReadsCancelled' /\ CancelsOpen'
    BY <1>1, <1>5 DEF IInv, WorkerCaptured, ProjectedOnce, OnlyNewestWaits, OneActive, DroppedIsNewest,
                      UndoReadsCancelled, Unprojected, Numbers, Newest, Undone, CancelsOpen,
                      Capturing, Projecting, Undoing
  <1>8. WorkerAgrees' /\ LastAgrees'
    BY <1>1, <1>5 DEF IInv, WorkerAgrees, LastAgrees, CapturedAgrees, IssueAgrees, Newest, Undone,
                      Capturing, Projecting
  <1>9. HeldExactlyWhileReserved' /\ FundedExactlyInProgress'
    BY <1>1, <1>2, <1>5, <1>6 DEF IInv, HeldExactlyWhileReserved, FundedExactlyInProgress
  <1> QED
    BY <1>4, <1>7, <1>8, <1>9 DEF IInv

-----------------------------------------------------------------------------
(* The worker *)

(* a deposit is reorganised away, or the worker begins, reads on or gives up *)
WorkerReads ==
    \/ DropDeposit \/ AbortProjection
    \/ (\E r \in Numbers : CaptureDepositUndo(r)) \/ CaptureIssue \/ CaptureApplications
    \/ LoadReservation
    \/ UndoReservation \/ UndoIssue \/ UndoApplications

(* the invariants of what the worker has read *)
WorkerInv == WorkerCaptured /\ WorkerAgrees /\ DroppedIsNewest /\ UndoReadsCancelled

(* the state as a capture reads it agrees with itself *)
LEMMA StateAgrees ==
  ASSUME IInv, NEW r \in Numbers, reservation[r].status # "FUNDED", r = Newest
  PROVE  IssueAgrees(r, reservation[r].status, issue)
  <1>1. WithStatus("FUNDED") \ {r} = WithStatus("FUNDED")
    BY DEF WithStatus
  <1>2. issue.status = "AWAITING_FUNDING" <=> reservation[r].status = "AWAITING_FUNDING"
    BY DEF IInv, HeldExactlyWhileReserved, OnlyNewestWaits, WithStatus
  <1>3. /\ issue.status = "IN_PROGRESS" <=> WithStatus("FUNDED") # {}
        /\ \A o \in WithStatus("FUNDED") : issue.developer = reservation[o].developer
    BY DEF IInv, FundedExactlyInProgress
  <1> QED
    BY <1>1, <1>2, <1>3 DEF IssueAgrees

(* what the worker has read fits the state after each of these steps *)
LEMMA WorkerReadsFit ==
  ASSUME IInv, ReorgsApart, CapturesApart, WorkerReads,
         UNCHANGED <<issue, application, reservation, request, projected>>
  PROVE  WorkerInv'
  <1>0. Types
    BY DEF IInv
  <1>1. UNCHANGED <<issue, application, reservation, projected>> /\ Numbers' = Numbers /\ Newest' = Newest
        /\ WithStatus("FUNDED")' = WithStatus("FUNDED") /\ Undone' = Undone
        /\ \A r : Unprojected(r)' <=> Unprojected(r)
    BY DEF WithStatus, Numbers, Newest, Undone, Unprojected
  <1>4. CASE DropDeposit \/ AbortProjection
    <2>1. worker' = Idle
      BY <1>4 DEF DropDeposit, AbortProjection
    <2>2. dropped' => projected # <<>> /\ Undone.reservation = Newest
      BY <1>4 DEF DropDeposit, AbortProjection, chainVars, IInv, DroppedIsNewest, Undone, Newest
    <2> QED
      BY <1>1, <2>1, <2>2 DEF WorkerInv, WorkerCaptured, WorkerAgrees, DroppedIsNewest, UndoReadsCancelled,
                              Idle, Capturing, Projecting, Undoing
  <1>5. ASSUME NEW r \in Numbers, CaptureDepositUndo(r) PROVE WorkerInv'
    <2>1. /\ worker'.pc = "issue" /\ worker'.reservation = r
          /\ worker'.captured = reservation[r].status
          /\ Unprojected(r) /\ dropped' = FALSE
      BY <1>0, <1>5 DEF CaptureDepositUndo, chainVars, Types, TypeOK
    <2>2. reservation[r].status \in ReservationStatus \ {"FUNDED"}
      BY <1>0, <2>1, ReservationFacts DEF Unprojected, IInv, FundedExactlyInProgress, WithStatus
    <2> QED
      BY <1>1, <2>1, <2>2 DEF WorkerInv, WorkerCaptured, WorkerAgrees, DroppedIsNewest, UndoReadsCancelled,
                              Capturing, Projecting, Undoing
  <1>6. CASE CaptureIssue
    <2>1. /\ worker.pc = "issue" /\ worker'.pc = "applications" /\ worker'.reservation = worker.reservation
          /\ worker'.captured = worker.captured /\ worker'.issue = issue /\ dropped' = dropped
          /\ reservation[worker.reservation].status = worker.captured
      BY <1>6 DEF CaptureIssue, chainVars
    <2>2. /\ worker.reservation \in Numbers /\ Unprojected(worker.reservation)
          /\ worker.captured \in ReservationStatus \ {"FUNDED"} /\ ~dropped
      BY <2>1 DEF IInv, WorkerCaptured, DroppedIsNewest, Capturing
    <2>3. worker.reservation = Newest => IssueAgrees(Newest, worker.captured, issue)
      BY <2>1, <2>2, StateAgrees
    <2>4. WorkerAgrees'
      BY <1>1, <2>1, <2>3 DEF WorkerAgrees, CapturedAgrees, IssueAgrees, Projecting
    <2>5. issue \in Issues
      BY <1>0, ReservationFacts DEF Issues
    <2> QED
      BY <1>1, <2>1, <2>2, <2>4, <2>5
      DEF WorkerInv, WorkerCaptured, DroppedIsNewest, UndoReadsCancelled,
          Capturing, Projecting, Undoing
  <1>7. CASE CaptureApplications
    <2> DEFINE before == [status |-> worker.captured, issue |-> worker.issue, application |-> application]
    <2>1. /\ worker.pc = "applications" /\ dropped' = dropped
          /\ worker' = [pc |-> "load", reservation |-> worker.reservation, before |-> before]
      BY <1>7 DEF CaptureApplications, chainVars
    <2>2. /\ worker.reservation \in Numbers /\ Unprojected(worker.reservation)
          /\ worker.captured \in ReservationStatus /\ worker.issue \in Issues /\ ~dropped
      BY <2>1 DEF IInv, WorkerCaptured, DroppedIsNewest, Capturing
    <2>3. before \in Before
      BY <1>0, <2>2 DEF Types, TypeOK, Before
    <2>4. before.status = worker.captured /\ before.issue = worker.issue /\ before.application = application
      OBVIOUS
    <2> HIDE DEF before
    <2>5. worker'.pc = "load" /\ worker'.reservation = worker.reservation /\ worker'.before = before
      BY <2>1
    <2>6. worker.reservation = Newest => CapturedAgrees(Newest, before)
      <3>1. worker.reservation = Newest => IssueAgrees(Newest, before.status, before.issue)
        BY <2>1, <2>4 DEF IInv, WorkerAgrees, Capturing
      <3>2. \A o \in WithStatus("FUNDED") : application[reservation[o].developer] = "ACCEPTED"
        BY DEF IInv, FundedExactlyInProgress
      <3> QED
        BY <2>4, <3>1, <3>2 DEF CapturedAgrees, IssueAgrees
    <2>7. WorkerAgrees'
      BY <1>1, <2>5, <2>6 DEF WorkerAgrees, CapturedAgrees, IssueAgrees, Capturing
    <2> QED
      BY <1>1, <2>1, <2>2, <2>3, <2>5, <2>7
      DEF WorkerInv, WorkerCaptured, DroppedIsNewest, UndoReadsCancelled,
          Capturing, Projecting, Undoing
  <1>8. CASE LoadReservation
    <2>1. /\ worker.pc = "load" /\ worker'.pc = "apply" /\ worker'.reservation = worker.reservation
          /\ worker'.before = worker.before /\ dropped' = dropped
      BY <1>8 DEF LoadReservation, chainVars
    <2>2. /\ worker.reservation \in Numbers /\ Unprojected(worker.reservation) /\ worker.before \in Before
          /\ ~dropped /\ (worker.reservation = Newest => CapturedAgrees(Newest, worker.before))
      BY <2>1 DEF IInv, WorkerCaptured, WorkerAgrees, DroppedIsNewest, Projecting
    <2>3. WorkerAgrees'
      BY <1>1, <2>1, <2>2 DEF WorkerAgrees, CapturedAgrees, IssueAgrees, Capturing
    <2> QED
      BY <1>1, <2>1, <2>2, <2>3
      DEF WorkerInv, WorkerCaptured, DroppedIsNewest, UndoReadsCancelled,
          Capturing, Projecting, Undoing
  <1>9. CASE UndoReservation \/ UndoIssue \/ UndoApplications
    <2>1. worker'.pc \in {"undo issue", "undo applications", "undo"} /\ dropped' = dropped
      <3>1. CASE UndoReservation
        BY <3>1 DEF UndoReservation, chainVars
      <3>2. CASE UndoIssue
        BY <3>2 DEF UndoIssue, chainVars
      <3>3. CASE UndoApplications
        BY <3>3 DEF UndoApplications, chainVars
      <3> QED
        BY <1>9, <3>1, <3>2, <3>3
    <2>2. dropped
      BY <1>9 DEF UndoReservation, UndoIssue, UndoApplications, IInv, DroppedIsNewest, Undoing
    <2>3. UndoReadsCancelled'
      <3>1. CASE UndoReservation
        BY <3>1 DEF UndoReservation, UndoReadsCancelled
      <3>2. CASE UndoIssue
        <4>1. IssueUndoable /\ worker'.issue = issue
          BY <3>2 DEF UndoIssue
        <4>2. issue.status = "CANCELLED" => issue = Undone.before.issue
          BY <4>1, <1>0, ReservationFacts DEF IssueUndoable
        <4> QED
          BY <1>1, <4>1, <4>2 DEF UndoReadsCancelled
      <3>3. CASE UndoApplications
        <4>1. worker.pc = "undo applications" /\ worker'.issue = worker.issue
          BY <3>3 DEF UndoApplications
        <4> QED
          BY <1>1, <4>1 DEF IInv, UndoReadsCancelled
      <3> QED
        BY <1>9, <3>1, <3>2, <3>3
    <2> QED
      BY <1>1, <2>1, <2>2, <2>3 DEF IInv, WorkerInv, WorkerCaptured, WorkerAgrees, DroppedIsNewest,
                                    Capturing, Projecting, Undoing
  <1> QED
    BY <1>4, <1>5, <1>6, <1>7, <1>8, <1>9 DEF WorkerReads

(* these steps keep the invariant *)
LEMMA WorkerReadsKeep ==
  ASSUME IInv, ReorgsApart, CapturesApart, WorkerReads
  PROVE  IInv'
  <1>0. Types
    BY DEF IInv
  <1>1. UNCHANGED <<issue, application, reservation, request, projected>>
    BY DEF WorkerReads, DropDeposit, AbortProjection, CaptureDepositUndo, CaptureIssue, CaptureApplications,
           LoadReservation, UndoReservation, UndoIssue, UndoApplications, webVars, chainVars
  <1>2. \A status : WithStatus(status)' = WithStatus(status)
    BY <1>1 DEF WithStatus, Numbers
  <1>3. deposit' \in [1..MaxReservations -> {"none", "matching", "differing"}] /\ dropped' \in BOOLEAN
    <2>1. CASE DropDeposit
      BY <1>0, <2>1 DEF Types, TypeOK, DropDeposit
    <2>2. CASE ~DropDeposit
      <3>1. deposit' = deposit /\ dropped' = dropped
        BY <2>2 DEF WorkerReads, AbortProjection, CaptureDepositUndo, CaptureIssue, CaptureApplications,
                    LoadReservation, UndoReservation, UndoIssue, UndoApplications, chainVars
      <3> QED
        BY <1>0, <3>1 DEF Types, TypeOK
    <2> QED
      BY <2>1, <2>2
  <1>4. Types'
    BY <1>0, <1>1, <1>3 DEF Types, TypeOK, Numbers
  <1>5. /\ ProjectedOnce' /\ OnlyNewestWaits' /\ OneActive(reservation)' /\ CancelsOpen'
        /\ HeldExactlyWhileReserved' /\ FundedExactlyInProgress'
    BY <1>1, <1>2 DEF IInv, ProjectedOnce, OnlyNewestWaits, OneActive, CancelsOpen,
                      HeldExactlyWhileReserved, FundedExactlyInProgress, Newest
  <1>6. LastAgrees'
    BY <1>1, <1>2 DEF IInv, LastAgrees, CapturedAgrees, IssueAgrees, Newest, Undone
  <1>7. WorkerInv'
    BY <1>1, WorkerReadsFit
  <1> QED
    BY <1>4, <1>5, <1>6, <1>7 DEF IInv, WorkerInv

(* what projecting a deposit adds *)
LEMMA ProjectionEffect ==
  ASSUME IInv, worker.pc = "apply", Projection
  PROVE  LET r == worker.reservation
             n == Len(projected)
         IN  /\ r \in Numbers /\ Projecting /\ worker' = Idle /\ ~dropped
             /\ UNCHANGED <<deposit, dropped, request>>
             /\ n \in Nat /\ projected' \in Seq(Projections)
             /\ Len(projected') = n + 1 /\ DOMAIN projected' = 1..(n + 1)
             /\ \A i \in 1..n : projected'[i] = projected[i] /\ projected[i].reservation \in Numbers \ {r}
             /\ projected'[n + 1].reservation = r /\ projected'[n + 1].terms = deposit[r]
             /\ projected'[n + 1].before = worker.before
             /\ ProjectedOnce'
  <1> DEFINE r == worker.reservation
             n == Len(projected)
             new == [reservation |-> r, terms |-> deposit[r], before |-> worker.before]
  <1>0. Types /\ n \in Nat /\ DOMAIN projected = 1..n
    BY ReservationFacts DEF IInv
  <1>1. worker # Idle /\ Projecting
    BY DEF Idle, Projecting
  <1>2. r \in Numbers /\ worker.before \in Before /\ Unprojected(r)
    BY <1>1 DEF IInv, WorkerCaptured
  <1>3. ~dropped
    BY <1>1 DEF IInv, DroppedIsNewest
  <1>4. r \in 1..MaxReservations /\ r \in Nat
    BY <1>0, <1>2, ReservationFacts, FundingAssumption DEF Types, Newest
  <1>5. new \in Projections
    BY <1>0, <1>2, <1>4 DEF Types, TypeOK, Projections
  <1>6. new.reservation = r /\ new.terms = deposit[r] /\ new.before = worker.before
    OBVIOUS
  <1>7. /\ projected' = Append(projected, new) /\ worker' = Idle
        /\ UNCHANGED <<deposit, dropped, request>>
    BY DEF Projection
  <1>8. projected \in Seq(Projections)
    BY <1>0 DEF Types
  <1> HIDE DEF new, r
  <1>9. /\ projected' \in Seq(Projections) /\ Len(projected') = n + 1 /\ DOMAIN projected' = 1..(n + 1)
        /\ \A i \in 1..n : projected'[i] = projected[i]
        /\ projected'[n + 1] = new
    BY <1>5, <1>7, <1>8
  <1>10. \A i \in 1..n : projected[i].reservation \in Numbers \ {r}
    BY <1>0, <1>2 DEF Types, Unprojected
  <1>11. ProjectedOnce'
    BY <1>0, <1>6, <1>9, <1>10 DEF IInv, ProjectedOnce
  <1> QED
    BY <1>0, <1>1, <1>2, <1>3, <1>6, <1>7, <1>9, <1>10, <1>11 DEF r

(* a deposit on the reserved terms is accepted *)
LEMMA AcceptKeeps ==
  ASSUME IInv, AcceptDeposit, Cancel \notin request
  PROVE  IInv'
  <1> DEFINE r == worker.reservation
             n == Len(projected)
  <1>0. Types
    BY DEF IInv
  <1>1. /\ r \in Numbers /\ worker' = Idle /\ ~dropped
        /\ UNCHANGED <<deposit, dropped, request>>
        /\ n \in Nat /\ projected' \in Seq(Projections)
        /\ Len(projected') = n + 1 /\ DOMAIN projected' = 1..(n + 1)
        /\ \A i \in 1..n : projected'[i] = projected[i] /\ projected[i].reservation \in Numbers \ {r}
        /\ projected'[n + 1].reservation = r /\ projected'[n + 1].terms = deposit[r]
        /\ projected'[n + 1].before = worker.before
        /\ ProjectedOnce'
        /\ Projecting
    BY ProjectionEffect DEF AcceptDeposit
  <1>2. /\ deposit[r] = "matching"
        /\ \/ reservation[r].status = "AWAITING_FUNDING"
           \/ issue.status = "OPEN"
    BY DEF AcceptDeposit, Acceptable, Unchanged
  <1>3. /\ SetsStatus(r, "FUNDED") /\ OneActive(reservation)'
        /\ issue' = [status |-> "IN_PROGRESS", developer |-> reservation[r].developer]
        /\ application' = [d \in Developers |->
              CASE d = reservation[r].developer -> "ACCEPTED"
                [] d # reservation[r].developer /\ application[d] = "PENDING" -> "REJECTED"
                [] OTHER -> application[d]]
    BY DEF AcceptDeposit, SetsStatus, OneActive
  <1>4. WithStatus("FUNDED") = {} /\ WithStatus("AWAITING_FUNDING") \subseteq {r}
    <2>1. CASE reservation[r].status = "AWAITING_FUNDING"
      BY <1>1, <2>1, ActiveReservation
    <2>2. CASE issue.status = "OPEN"
      BY <2>2 DEF IInv, HeldExactlyWhileReserved, FundedExactlyInProgress
    <2> QED
      BY <1>2, <2>1, <2>2
  <1> HIDE DEF r, n
  <1>5. /\ Numbers' = Numbers /\ Newest' = Newest
        /\ reservation' \in Seq([developer : Developers, status : ReservationStatus])
        /\ Len(reservation') = Len(reservation)
        /\ \A o \in Numbers : /\ reservation'[o].developer = reservation[o].developer
                              /\ o # r => reservation'[o] = reservation[o]
        /\ reservation'[r].status = "FUNDED"
        /\ WithStatus("AWAITING_FUNDING")' = {} /\ WithStatus("FUNDED")' = {r}
    <2>1. "FUNDED" \in ReservationStatus
      BY DEF ReservationStatus
    <2> QED
      BY <1>0, <1>1, <1>3, <1>4, <2>1, SetsStatusEffect
  <1>6. reservation[r].developer \in Developers
    BY <1>0, <1>1, ReservationFacts
  <1>7. /\ issue'.status = "IN_PROGRESS" /\ issue'.developer = reservation[r].developer
        /\ issue' \in [status : IssueStatus, developer : Developers \cup {NoDeveloper}]
    BY <1>3, <1>6 DEF IssueStatus
  <1>8. /\ application' \in [Developers -> ApplicationStatus]
        /\ application'[reservation[r].developer] = "ACCEPTED"
    <2>1. \A d \in Developers :
             (CASE d = reservation[r].developer -> "ACCEPTED"
                [] d # reservation[r].developer /\ application[d] = "PENDING" -> "REJECTED"
                [] OTHER -> application[d]) \in ApplicationStatus
      BY <1>0 DEF Types, TypeOK, ApplicationStatus
    <2> QED
      BY <1>3, <1>6, <2>1
  <1>9. Types'
    <2>1. \A i \in DOMAIN projected' : projected'[i].reservation \in Numbers
      BY <1>1
    <2> QED
      BY <1>0, <1>1, <1>5, <1>7, <1>8, <2>1 DEF Types, TypeOK
  <1>10. /\ WorkerCaptured' /\ WorkerAgrees' /\ DroppedIsNewest' /\ UndoReadsCancelled' /\ CancelsOpen'
         /\ OnlyNewestWaits' /\ HeldExactlyWhileReserved'
    BY <1>1, <1>5, <1>7 DEF WorkerCaptured, WorkerAgrees, DroppedIsNewest, UndoReadsCancelled, CancelsOpen,
                            OnlyNewestWaits, HeldExactlyWhileReserved, Idle, Capturing, Projecting, Undoing
  <1>11. LastAgrees'
    <2>1. r = Newest => CapturedAgrees(r, worker.before)
      BY <1>1 DEF IInv, WorkerAgrees, r
    <2> QED
      BY <1>1, <1>4, <1>5, <2>1 DEF LastAgrees, Undone, CapturedAgrees, IssueAgrees
  <1>12. FundedExactlyInProgress'
    <2>1. n + 1 \in DOMAIN projected'
      BY <1>1
    <2>2. \A i \in DOMAIN projected' : reservation'[projected'[i].reservation].status \in {"FUNDED", "MISMATCHED"}
      <3>1. ASSUME NEW i \in 1..n
            PROVE  reservation'[projected'[i].reservation].status \in {"FUNDED", "MISMATCHED"}
        <4>1. i \in DOMAIN projected
          BY <1>0, ReservationFacts DEF n
        <4> QED
          BY <1>1, <1>5, <4>1 DEF IInv, FundedExactlyInProgress
      <3> QED
        BY <1>1, <1>5, <3>1
    <2> QED
      BY ZenonT(30), <1>1, <1>2, <1>5, <1>7, <1>8, <2>1, <2>2 DEF FundedExactlyInProgress
  <1> QED
    BY <1>1, <1>3, <1>9, <1>10, <1>11, <1>12 DEF IInv

(* a deposit that does not fit is marked; the issue opens if it waited for it *)
LEMMA MismatchKeeps ==
  ASSUME IInv, MarkMismatch, Cancel \notin request
  PROVE  IInv'
  <1> DEFINE r == worker.reservation
             n == Len(projected)
  <1>0. Types
    BY DEF IInv
  <1>1. /\ r \in Numbers /\ worker' = Idle /\ ~dropped
        /\ UNCHANGED <<deposit, dropped, request>>
        /\ n \in Nat /\ projected' \in Seq(Projections)
        /\ Len(projected') = n + 1 /\ DOMAIN projected' = 1..(n + 1)
        /\ \A i \in 1..n : projected'[i] = projected[i] /\ projected[i].reservation \in Numbers \ {r}
        /\ projected'[n + 1].reservation = r /\ projected'[n + 1].terms = deposit[r]
        /\ projected'[n + 1].before = worker.before
        /\ ProjectedOnce'
        /\ Projecting
    BY ProjectionEffect DEF MarkMismatch
  <1>2. /\ reservation[r].status # "FUNDED"
        /\ SetsStatus(r, "MISMATCHED")
        /\ issue' = IF reservation[r].status = "AWAITING_FUNDING" THEN Reopened ELSE issue
        /\ UNCHANGED application
    BY DEF MarkMismatch, Unchanged, SetsStatus
  <1> HIDE DEF r, n
  <1>3. /\ Numbers' = Numbers /\ Newest' = Newest
        /\ reservation' \in Seq([developer : Developers, status : ReservationStatus])
        /\ Len(reservation') = Len(reservation)
        /\ \A o \in Numbers : /\ reservation'[o].developer = reservation[o].developer
                              /\ o # r => reservation'[o] = reservation[o]
        /\ reservation'[r].status = "MISMATCHED"
        /\ WithStatus("AWAITING_FUNDING")' = WithStatus("AWAITING_FUNDING") \ {r}
        /\ WithStatus("FUNDED")' = WithStatus("FUNDED") \ {r}
    <2>1. "MISMATCHED" \in ReservationStatus
      BY DEF ReservationStatus
    <2> QED
      BY ZenonT(60), <1>0, <1>1, <1>2, <2>1, SetsStatusEffect
  <1>4. WithStatus("FUNDED") \ {r} = WithStatus("FUNDED")
    BY <1>2 DEF WithStatus
  <1>5. issue' \in [status : IssueStatus, developer : Developers \cup {NoDeveloper}]
    BY <1>0, <1>2, ReservationFacts DEF Reopened, IssueStatus
  <1>6. HeldExactlyWhileReserved'
    <2>1. CASE reservation[r].status = "AWAITING_FUNDING"
      <3>1. issue.status = "AWAITING_FUNDING" /\ WithStatus("AWAITING_FUNDING") = {r}
        BY <1>1, <2>1, ActiveReservation
      <3>2. issue'.status = "OPEN" /\ WithStatus("AWAITING_FUNDING")' = {}
        BY <1>0, <1>2, <1>3, <2>1, <3>1, ReservationFacts DEF Reopened, IssueStatus
      <3> QED
        BY <3>2 DEF HeldExactlyWhileReserved
    <2>2. CASE reservation[r].status # "AWAITING_FUNDING"
      <3>1. WithStatus("AWAITING_FUNDING")' = WithStatus("AWAITING_FUNDING") /\ issue' = issue
        BY <1>2, <1>3, <2>2 DEF WithStatus
      <3> QED
        BY <3>1 DEF IInv, HeldExactlyWhileReserved
    <2> QED
      BY <2>1, <2>2
  <1>7. FundedExactlyInProgress'
    <2>1. (issue'.status = "IN_PROGRESS") <=> (issue.status = "IN_PROGRESS")
      BY <1>0, <1>1, <1>2, ActiveReservation, ReservationFacts DEF Reopened, IssueStatus
    <2>2. issue'.developer = issue.developer
      BY <1>0, <1>2, ReservationFacts DEF Reopened
    <2>3. \A i \in DOMAIN projected' : reservation'[projected'[i].reservation].status \in {"FUNDED", "MISMATCHED"}
      <3>1. ASSUME NEW i \in 1..n
            PROVE  reservation'[projected'[i].reservation].status \in {"FUNDED", "MISMATCHED"}
        <4>1. i \in DOMAIN projected
          BY <1>0, ReservationFacts DEF n
        <4> QED
          BY <1>1, <1>3, <4>1 DEF IInv, FundedExactlyInProgress
      <3> QED
        BY <1>1, <1>3, <3>1
    <2>4. \A o \in WithStatus("FUNDED") : \E i \in DOMAIN projected' :
              projected'[i].reservation = o /\ projected'[i].terms = "matching"
      <3>1. DOMAIN projected = 1..n
        BY <1>0, ReservationFacts DEF n
      <3> QED
        BY <1>1, <3>1 DEF IInv, FundedExactlyInProgress
    <2>5. \A o \in WithStatus("FUNDED") : o \in Numbers
      BY DEF WithStatus
    <2> QED
      BY <1>2, <1>3, <1>4, <2>1, <2>2, <2>3, <2>4, <2>5 DEF IInv, FundedExactlyInProgress
  <1>8. Types'
    <2>1. \A i \in DOMAIN projected' : projected'[i].reservation \in Numbers
      BY <1>1
    <2> QED
      BY <1>0, <1>1, <1>2, <1>3, <1>5, <2>1 DEF Types, TypeOK
  <1>9. /\ WorkerCaptured' /\ WorkerAgrees' /\ DroppedIsNewest' /\ UndoReadsCancelled' /\ CancelsOpen'
        /\ OnlyNewestWaits'
    BY <1>1, <1>3 DEF IInv, WorkerCaptured, WorkerAgrees, DroppedIsNewest, UndoReadsCancelled, CancelsOpen,
                      OnlyNewestWaits, Idle, Capturing, Projecting, Undoing
  <1>10. OneActive(reservation)'
    BY <1>3 DEF IInv, OneActive, Numbers
  <1>11. LastAgrees'
    <2>1. r = Newest => CapturedAgrees(r, worker.before)
      BY <1>1 DEF IInv, WorkerAgrees, r
    <2>2. \A o \in WithStatus("FUNDED") : o \in Numbers
      BY DEF WithStatus
    <2> QED
      BY <1>1, <1>3, <1>4, <2>1, <2>2 DEF LastAgrees, Undone, CapturedAgrees, IssueAgrees
  <1> QED
    BY <1>1, <1>6, <1>7, <1>8, <1>9, <1>10, <1>11 DEF IInv

(* a deposit is undone: the other reservations had what its snapshot says *)
LEMMA UndoKeeps ==
  ASSUME IInv, UndoDeposit, Cancel \notin request
  PROVE  IInv'
  <1> DEFINE before == Undone.before
             r == Undone.reservation
             n == Len(projected)
  <1>0. Types
    BY DEF IInv
  <1>1. projected # <<>> /\ r = Newest
    BY DEF UndoDeposit, IInv, DroppedIsNewest, Undoing
  <1>2. /\ n \in Nat /\ n # 0 /\ DOMAIN projected = 1..n /\ n \in DOMAIN projected
    BY <1>0, <1>1, ReservationFacts DEF Types
  <1>3. r \in Numbers /\ before \in Before
    <2>1. Undone \in Projections
      <3> HIDE DEF n
      <3>1. projected \in Seq(Projections)
        BY <1>0 DEF Types
      <3> QED
        BY <1>2, <3>1 DEF Undone, n
    <2>2. r \in Numbers
      BY <1>0, <1>2 DEF Types, Undone
    <2> QED
      BY <2>1, <2>2 DEF Projections
  <1>4. CapturedAgrees(r, before)
    BY <1>1 DEF IInv, LastAgrees
  <1>5. /\ SetsStatus(r, before.status) /\ OneActive(reservation)'
        /\ issue' = before.issue
        /\ application' = [d \in Developers |->
              IF d \in worker.restored THEN before.application[d] ELSE application[d]]
        /\ projected' = SubSeq(projected, 1, n - 1)
        /\ dropped' = FALSE /\ worker' = Idle
        /\ UNCHANGED <<request, deposit>>
    BY DEF UndoDeposit, SetsStatus, OneActive
  <1>6. /\ before.status \in ReservationStatus
        /\ before.issue \in [status : IssueStatus, developer : Developers \cup {NoDeveloper}]
        /\ before.application \in [Developers -> ApplicationStatus]
    BY <1>3 DEF Before, Issues
  <1>7. /\ projected' \in Seq(Projections) /\ Len(projected') = n - 1 /\ DOMAIN projected' = 1..(n - 1)
        /\ \A i \in 1..(n - 1) : i \in DOMAIN projected /\ projected'[i] = projected[i]
    <2>1. projected \in Seq(Projections)
      BY <1>0 DEF Types
    <2> QED
      BY <1>2, <1>5, <2>1
  <1>8. \A i \in 1..(n - 1) : projected[i].reservation \in Numbers \ {r}
    BY <1>0, <1>2 DEF IInv, ProjectedOnce, Types, Undone
  <1> HIDE DEF before, r, n
  <1>9. /\ Numbers' = Numbers /\ Newest' = Newest
        /\ reservation' \in Seq([developer : Developers, status : ReservationStatus])
        /\ Len(reservation') = Len(reservation)
        /\ \A o \in Numbers : /\ reservation'[o].developer = reservation[o].developer
                              /\ o # r => reservation'[o] = reservation[o]
        /\ reservation'[r].status = before.status
        /\ WithStatus("AWAITING_FUNDING")' = IF before.status = "AWAITING_FUNDING"
                                             THEN WithStatus("AWAITING_FUNDING") \cup {r}
                                             ELSE WithStatus("AWAITING_FUNDING") \ {r}
        /\ WithStatus("FUNDED")' = WithStatus("FUNDED") \ {r}
    <2>1. before.status # "FUNDED"
      BY <1>4 DEF CapturedAgrees, IssueAgrees
    <2> QED
      BY <1>0, <1>3, <1>5, <1>6, <2>1, SetsStatusEffect
  <1>10. WithStatus("AWAITING_FUNDING")' = IF before.status = "AWAITING_FUNDING" THEN {r} ELSE {}
    BY <1>1, <1>9 DEF IInv, OnlyNewestWaits
  <1>11. /\ before.issue.status = "AWAITING_FUNDING" <=> before.status = "AWAITING_FUNDING"
         /\ before.issue.status = "IN_PROGRESS" <=> WithStatus("FUNDED")' # {}
         /\ \A o \in WithStatus("FUNDED")' :
               /\ before.issue.developer = reservation[o].developer
               /\ before.application[before.issue.developer] = "ACCEPTED"
    BY <1>4, <1>9 DEF CapturedAgrees, IssueAgrees
  <1>12. application' \in [Developers -> ApplicationStatus]
    BY <1>0, <1>5, <1>6 DEF Types, TypeOK
  <1>13. Types'
    <2>1. \A i \in DOMAIN projected' : projected'[i].reservation \in Numbers
      BY <1>7, <1>8
    <2> QED
      BY <1>0, <1>5, <1>6, <1>7, <1>9, <1>12, <2>1 DEF Types, TypeOK
  <1>14. WorkerCaptured' /\ WorkerAgrees' /\ DroppedIsNewest' /\ UndoReadsCancelled' /\ CancelsOpen'
    BY <1>1, <1>5 DEF WorkerCaptured, WorkerAgrees, DroppedIsNewest, UndoReadsCancelled, CancelsOpen,
                      Idle, Capturing, Projecting, Undoing
  <1>15. OnlyNewestWaits' /\ HeldExactlyWhileReserved'
    BY <1>1, <1>5, <1>9, <1>10, <1>11 DEF OnlyNewestWaits, HeldExactlyWhileReserved
  <1>16. ProjectedOnce'
    BY <1>7 DEF IInv, ProjectedOnce
  <1>17. LastAgrees'
    <2>1. projected' # <<>> => n - 1 \in 1..(n - 1)
      BY <1>2, <1>7
    <2>2. projected' # <<>> => Undone' = projected[n - 1] /\ projected[n - 1].reservation # Newest
      BY <1>1, <1>7, <1>8, <2>1 DEF Undone
    <2> QED
      BY <1>9, <2>2 DEF LastAgrees
  <1>18. FundedExactlyInProgress'
    <2>1. \A i \in DOMAIN projected' : reservation'[projected'[i].reservation].status \in {"FUNDED", "MISMATCHED"}
      BY <1>7, <1>8, <1>9 DEF IInv, FundedExactlyInProgress
    <2>2. ASSUME NEW o \in WithStatus("FUNDED")'
          PROVE  /\ issue'.developer = reservation'[o].developer
                 /\ application'[issue'.developer] = "ACCEPTED"
                 /\ \E i \in DOMAIN projected' :
                       projected'[i].reservation = o /\ projected'[i].terms = "matching"
      <3>1. o \in WithStatus("FUNDED") /\ o # r /\ o \in Numbers
        BY <2>2, <1>9 DEF WithStatus
      <3>2. reservation[o].developer \in Developers
        BY <1>0, <3>1, ReservationFacts
      <3>3. application'[before.issue.developer] = "ACCEPTED"
        <4>1. application[before.issue.developer] = "ACCEPTED"
          BY <2>2, <3>1, <1>9, <1>11 DEF IInv, FundedExactlyInProgress
        <4> QED
          BY <2>2, <3>1, <3>2, <4>1, <1>5, <1>9, <1>11
      <3>4. PICK i \in DOMAIN projected : projected[i].reservation = o /\ projected[i].terms = "matching"
        BY <3>1 DEF IInv, FundedExactlyInProgress
      <3>5. i # n
        BY <3>1, <3>4 DEF r, n, Undone
      <3>6. i \in 1..(n - 1)
        BY <3>5, <1>2
      <3> QED
        BY <2>2, <3>1, <3>3, <3>4, <3>6, <1>5, <1>7, <1>9, <1>11
    <2> QED
      BY <1>5, <1>11, <2>1, <2>2 DEF FundedExactlyInProgress
  <1> QED
    BY <1>5, <1>13, <1>14, <1>15, <1>16, <1>17, <1>18 DEF IInv

-----------------------------------------------------------------------------
(* Theorems *)

(* one step keeps the invariant *)
LEMMA StepKeeps ==
  ASSUME CancelAlone, ReorgsApart, CapturesApart, IInv, [Next]_vars
  PROVE  IInv'
  <1>1. CASE StoreCancellation
    BY <1>1, CancellationKeeps
  <1>2. CASE UNCHANGED vars
    <2>1. Quiet
      BY <1>2 DEF vars, webVars, chainVars, Quiet, IInv, Types, TypeOK, CancelsOpen
    <2> QED
      BY <2>1, QuietKeeps
  <1>3. ASSUME Undisturbed, Web PROVE IInv'
    <2>1. Cancel \notin request
      BY <1>3 DEF Undisturbed
    <2>2. ASSUME NEW dev \in Developers, SelectDeveloper(dev) PROVE IInv'
      BY <2>1, <2>2, SelectKeeps
    <2>3. ASSUME NEW r \in Numbers, CancelReservation(r) PROVE IInv'
      BY <2>3, EndSteps
    <2> QED
      BY <1>3, <2>2, <2>3, QuietSteps, QuietKeeps DEF Web
  <1>4. ASSUME Undisturbed, Chain PROVE IInv'
    BY <1>4, QuietSteps, QuietKeeps, WorkerReadsKeep DEF Chain, WorkerReads
  <1>5. ASSUME Undisturbed, Worker PROVE IInv'
    <2>1. Cancel \notin request
      BY <1>5 DEF Undisturbed
    <2> QED
      BY <1>5, <2>1, EndSteps, WorkerReadsKeep, AcceptKeeps, MismatchKeeps, UndoKeeps
      DEF Worker, WorkerReads
  <1> QED
    BY <1>1, <1>2, <1>3, <1>4, <1>5 DEF Next

(* The invariant of the funding of an issue holds always.                     *)
THEOREM InductiveInvariant ==
  ASSUME CancelAlone, ReorgsApart, CapturesApart
  PROVE  Spec => []IInv
  <1>1. IInv /\ [Next]_vars => IInv'
    BY StepKeeps
  <1> QED
    BY <1>1, InitIInv, PTL DEF Spec

(* The issue is held exactly while a reservation waits for its deposit,       *)
(* through any selections, cancellations, expiries and undone deposits.       *)
THEOREM AlwaysHeldExactly ==
  ASSUME CancelAlone, ReorgsApart, CapturesApart
  PROVE  Spec => []HeldExactlyWhileReserved
  <1>1. IInv => HeldExactlyWhileReserved
    BY DEF IInv
  <1> QED
    BY <1>1, InductiveInvariant, PTL

(* Work is under way exactly when one deposit on the reserved terms has been   *)
(* accepted, for the developer whose reservation was paid.                    *)
THEOREM AlwaysFundedExactly ==
  ASSUME CancelAlone, ReorgsApart, CapturesApart
  PROVE  Spec => []FundedExactlyInProgress
  <1>1. IInv => FundedExactlyInProgress
    BY DEF IInv
  <1> QED
    BY <1>1, InductiveInvariant, PTL

(* A cancelled issue stays cancelled, whatever becomes of late deposits.       *)
THEOREM CancelledStays ==
  ASSUME CancelAlone, ReorgsApart, CapturesApart, UndosApart
  PROVE  Spec => CancelledForGood
  <1>1. ASSUME IInv, issue.status = "CANCELLED", [Next]_vars, Cancel \notin request, UndosApart
        PROVE  issue'.status = "CANCELLED"
    <2>0. WithStatus("AWAITING_FUNDING") = {} /\ Types
      BY <1>1 DEF IInv, HeldExactlyWhileReserved
    <2>1. CASE issue' = issue
      BY <1>1, <2>1
    <2>2. \A r \in Numbers : reservation[r].status # "AWAITING_FUNDING"
      BY <2>0 DEF WithStatus
    <2>3. Reopened = issue
      <3>1. issue \in [status : IssueStatus, developer : Developers \cup {NoDeveloper}]
        BY <2>0, ReservationFacts
      <3> QED
        BY <3>1, <1>1 DEF Reopened
    <2>4. ~AcceptDeposit
      <3>1. worker.pc = "apply" => worker.reservation \in Numbers
        BY <1>1 DEF IInv, WorkerCaptured, Projecting
      <3> QED
        BY <1>1, <2>2, <3>1 DEF AcceptDeposit, Acceptable, Unchanged
    <2>5. CASE UndoDeposit
      <3>1. worker.pc = "undo" /\ issue = worker.issue /\ issue' = Undone.before.issue
        BY <1>1, <2>5 DEF UndoDeposit
      <3>2. worker.issue = Undone.before.issue
        BY <1>1, <3>1 DEF IInv, UndoReadsCancelled
      <3> QED
        BY <1>1, <3>1, <3>2
    <2>6. CASE MarkMismatch
      BY <1>1, <2>3, <2>6 DEF MarkMismatch
    <2>7. ASSUME NEW r \in Numbers, CancelReservation(r) \/ ExpireReservation(r) PROVE FALSE
      BY <2>2, <2>7 DEF CancelReservation, ExpireReservation
    <2>8. ~StoreCancellation /\ \A dev \in Developers : ~SelectDeveloper(dev)
      BY <1>1 DEF StoreCancellation, SelectDeveloper
    <2> QED
      BY <1>1, <2>1, <2>4, <2>5, <2>6, <2>7, <2>8
      DEF Next, Web, Chain, Worker, vars, webVars, chainVars, ApplyToIssue, StoreApplication,
          WithdrawApplication, RejectApplication, StoreRejection, BanDeveloper, RequestFails,
          CancelIssue, BanClient, Pay, DropDeposit, CaptureDepositUndo, CaptureIssue, CaptureApplications,
          LoadReservation, AbortProjection, UndoReservation, UndoIssue, UndoApplications
  <1>2. ASSUME IInv, Cancel \in request PROVE issue.status # "CANCELLED"
    BY <1>2 DEF IInv, CancelsOpen
  <1>3. IInv /\ [Next]_vars => [issue.status = "CANCELLED" => issue'.status = "CANCELLED"]_vars
    BY <1>1, <1>2
  <1> QED
    BY <1>3, InductiveInvariant, PTL DEF Spec, CancelledForGood

=============================================================================
