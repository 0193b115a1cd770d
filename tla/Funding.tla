------------------------------- MODULE Funding -------------------------------
(***************************************************************************)
(* The way of one issue from open to funded, between the web application    *)
(* (the client and the developers) and the worker (deposits seen on chain,  *)
(* expiry of reservations).  Both write the same rows at READ COMMITTED, so *)
(* a handler that reads and then writes is split where others can commit in *)
(* between; a conditional update is one step.                               *)
(*                                                                         *)
(* Reservations are numbered in the order they are made; the number stands  *)
(* for the reservation and for its escrow key.                              *)
(***************************************************************************)
EXTENDS Integers, Sequences, FiniteSets

CONSTANTS
    Developers, NoDeveloper,
    MaxReservations,    \* bound on the selections of this issue
    MaxRequests,        \* bound on the web requests between their read and their write
    CancelAlone,        \* TRUE: nothing commits between the two steps of cancelIssue, or
                        \* of a ban of the client
    ReorgsApart,        \* TRUE: only the newest reservation's deposit is reorganised
                        \* away, and no selection is made until that is undone
    CapturesApart,      \* TRUE: a capture goes no further if the reservation was cancelled
                        \* or expired between its reads of the reservation and the issue
    UndosApart          \* TRUE: an undo goes no further if the issue changed between its
                        \* read of the issue and its write

ASSUME FundingAssumption ==
    /\ NoDeveloper \notin Developers
    /\ MaxReservations \in Nat /\ MaxRequests \in Nat
    /\ CancelAlone \in BOOLEAN /\ ReorgsApart \in BOOLEAN
    /\ CapturesApart \in BOOLEAN /\ UndosApart \in BOOLEAN

VARIABLES
    issue,          \* issues: status and developer
    application,    \* applications, by developer
    reservation,    \* funding_reservations
    request,        \* web requests between their read and their write
    deposit,        \* external: what the chain holds under each escrow key
    projected,      \* Deposited events applied, with the snapshot taken before each
    dropped,        \* the last of them is no longer on the chain
    worker          \* what the transaction projecting or undoing a deposit has read

webVars == <<issue, application, reservation>>
chainVars == <<deposit, projected, dropped>>
vars == <<webVars, request, chainVars, worker>>

IssueStatus == {"OPEN", "AWAITING_FUNDING", "IN_PROGRESS", "CANCELLED"}
ApplicationStatus == {"NONE", "PENDING", "WITHDRAWN", "REJECTED", "ACCEPTED"}
ReservationStatus == {"AWAITING_FUNDING", "FUNDED", "EXPIRED", "CANCELLED", "MISMATCHED"}

Idle == [pc |-> "idle"]
Cancel == [op |-> "cancel"]
Apply(dev) == [op |-> "apply", developer |-> dev]
Reject(dev) == [op |-> "reject", developer |-> dev]

(* a handler goes on from its read to its write *)
Begin(q) ==
    /\ Cardinality(request) < MaxRequests
    /\ request' = request \cup {q}

Numbers == DOMAIN reservation
WithStatus(status) == {r \in Numbers : reservation[r].status = status}

(* the partial unique index funding_reservations_one_active_per_issue *)
OneActive(reservations) ==
    \A i, j \in DOMAIN reservations :
        {reservations[i].status, reservations[j].status} \subseteq {"AWAITING_FUNDING", "FUNDED"}
            => i = j

-----------------------------------------------------------------------------
(* Applications *)

ApplyToIssue(dev) ==
    /\ issue.status = "OPEN"
    /\ application[dev] \in {"NONE", "WITHDRAWN"}
    /\ Begin(Apply(dev))
    /\ UNCHANGED <<webVars, chainVars, worker>>

(* serializable, but no cycle forms with a reader of the issue that commits  *)
(* in between: only a change of the same application makes it fail           *)
StoreApplication(dev) ==
    /\ Apply(dev) \in request
    /\ application[dev] \in {"NONE", "WITHDRAWN"}
    /\ application' = [application EXCEPT ![dev] = "PENDING"]
    /\ request' = request \ {Apply(dev)}
    /\ UNCHANGED <<issue, reservation, chainVars, worker>>

WithdrawApplication(dev) ==
    /\ application[dev] = "PENDING"
    /\ application' = [application EXCEPT ![dev] = "WITHDRAWN"]
    /\ UNCHANGED <<issue, reservation, request, chainVars, worker>>

RejectApplication(dev) ==
    /\ application[dev] # "NONE"
    /\ issue.status = "OPEN"
    /\ Begin(Reject(dev))
    /\ UNCHANGED <<webVars, chainVars, worker>>

StoreRejection(dev) ==
    /\ Reject(dev) \in request
    /\ application[dev] = "PENDING"
    /\ application' = [application EXCEPT ![dev] = "REJECTED"]
    /\ request' = request \ {Reject(dev)}
    /\ UNCHANGED <<issue, reservation, chainVars, worker>>

(* banUser of a developer, whatever became of the issue: one conditional update *)
BanDeveloper(dev) ==
    /\ application[dev] = "PENDING"
    /\ application' = [application EXCEPT ![dev] = "REJECTED"]
    /\ UNCHANGED <<issue, reservation, request, chainVars, worker>>

(* the conditional update of a request matches no row, or its process ends *)
RequestFails(q) ==
    /\ q \in request
    /\ request' = request \ {q}
    /\ UNCHANGED <<webVars, chainVars, worker>>

-----------------------------------------------------------------------------
(* Selection.  selectDeveloper is serializable and writes the issue it read: *)
(* one step.                                                                 *)

SelectDeveloper(dev) ==
    /\ Len(reservation) < MaxReservations /\ (ReorgsApart => ~dropped)
    /\ issue.status = "OPEN"
    /\ application[dev] = "PENDING"
    /\ reservation' = Append(reservation, [developer |-> dev, status |-> "AWAITING_FUNDING"])
    /\ OneActive(reservation')
    /\ issue' = [issue EXCEPT !.status = "AWAITING_FUNDING"]
    /\ UNCHANGED <<application, request, chainVars, worker>>

(* the issue update of cancelReservation, expireReservations and markMismatch *)
Reopened == [issue EXCEPT !.status = IF @ = "AWAITING_FUNDING" THEN "OPEN" ELSE @]

CancelReservation(r) ==
    /\ reservation[r].status = "AWAITING_FUNDING"
    /\ reservation' = [reservation EXCEPT ![r].status = "CANCELLED"]
    /\ issue' = Reopened
    /\ UNCHANGED <<application, request, chainVars, worker>>

(* the worker's job; expiresAt may pass at any time *)
ExpireReservation(r) ==
    /\ reservation[r].status = "AWAITING_FUNDING"
    /\ reservation' = [reservation EXCEPT ![r].status = "EXPIRED"]
    /\ issue' = IF (WithStatus("AWAITING_FUNDING") \cup WithStatus("FUNDED")) \ {r} = {}
                THEN Reopened ELSE issue
    /\ UNCHANGED <<application, request, chainVars, worker>>

(* cancelIssue checks the status it read, then updates unconditionally *)
CancelIssue ==
    /\ issue.status = "OPEN"
    /\ Begin(Cancel)
    /\ UNCHANGED <<webVars, chainVars, worker>>

(* banUser of the client does the same to the open issues it finds *)
BanClient ==
    /\ issue.status = "OPEN"
    /\ Begin(Cancel)
    /\ UNCHANGED <<webVars, chainVars, worker>>

StoreCancellation ==
    /\ Cancel \in request
    /\ issue' = [issue EXCEPT !.status = "CANCELLED"]
    /\ application' = [d \in Developers |->
          IF application[d] = "PENDING" THEN "REJECTED" ELSE application[d]]
    /\ request' = request \ {Cancel}
    /\ UNCHANGED <<reservation, chainVars, worker>>

-----------------------------------------------------------------------------
(* External: the chain.  The client's wallet may deposit under an escrow key *)
(* at any time after the selection, on the reserved terms or on others.      *)

Pay(r, terms) ==
    /\ deposit[r] = "none"
    /\ deposit' = [deposit EXCEPT ![r] = terms]
    /\ UNCHANGED <<webVars, request, projected, dropped, worker>>

(* a reorganisation drops the deposit projected last (FINALITY = latest); one   *)
(* that comes while a deposit is projected loses that deposit's block as well,  *)
(* and the projection sees none of it: it is taken to come afterwards           *)
DropDeposit ==
    /\ worker = Idle
    /\ projected # <<>> /\ ~dropped
    /\ LET r == projected[Len(projected)].reservation
       IN  /\ ReorgsApart => r = Len(reservation)
           /\ deposit' = [deposit EXCEPT ![r] = "none"]
    /\ dropped' = TRUE
    /\ UNCHANGED <<webVars, request, projected, worker>>

-----------------------------------------------------------------------------
(* The worker projects a deposit: one transaction, whose statements each read *)
(* what is committed by then                                                  *)

Unprojected(r) == \A i \in DOMAIN projected : projected[i].reservation # r

(* captureDepositUndo reads the reservation, *)
CaptureDepositUndo(r) ==
    /\ worker = Idle /\ ~dropped
    /\ deposit[r] # "none" /\ Unprojected(r)
    /\ worker' = [pc |-> "issue", reservation |-> r, captured |-> reservation[r].status]
    /\ UNCHANGED <<webVars, request, chainVars>>

(* then its issue, *)
CaptureIssue ==
    /\ worker.pc = "issue"
    /\ CapturesApart => reservation[worker.reservation].status = worker.captured
    /\ worker' = [pc |-> "applications", reservation |-> worker.reservation,
                  captured |-> worker.captured, issue |-> issue]
    /\ UNCHANGED <<webVars, request, chainVars>>

(* then the applications *)
CaptureApplications ==
    /\ worker.pc = "applications"
    /\ worker' = [pc |-> "load", reservation |-> worker.reservation,
                  before |-> [status |-> worker.captured, issue |-> worker.issue,
                              application |-> application]]
    /\ UNCHANGED <<webVars, request, chainVars>>

(* applyFunded reads the reservation and the issue; the update of either branch *)
(* finds the reservation as it was read, so it was so when the issue was read   *)
LoadReservation ==
    /\ worker.pc = "load"
    /\ worker' = [pc |-> "apply", reservation |-> worker.reservation, before |-> worker.before,
                  status |-> reservation[worker.reservation].status,
                  issueStatus |-> issue.status]
    /\ UNCHANGED <<webVars, request, chainVars>>

(* Mutants: the terms are not compared; a late deposit is always welcome *)
AcceptableWhateverTerms ==
    worker.status = "AWAITING_FUNDING" \/ worker.issueStatus = "OPEN"

AcceptableHoweverLate == deposit[worker.reservation] = "matching"

Acceptable ==
    /\ deposit[worker.reservation] = "matching"
    /\ worker.status = "AWAITING_FUNDING" \/ worker.issueStatus = "OPEN"

Unchanged == /\ reservation[worker.reservation].status = worker.status
             /\ worker.status # "FUNDED"

Projection ==
    /\ projected' = Append(projected,
          [reservation |-> worker.reservation, terms |-> deposit[worker.reservation],
           before |-> worker.before])
    /\ worker' = Idle
    /\ UNCHANGED <<deposit, dropped, request>>

AcceptDeposit ==
    /\ worker.pc = "apply" /\ deposit[worker.reservation] # "none"
    /\ Acceptable
    /\ Unchanged /\ issue.status = worker.issueStatus
    /\ LET r == worker.reservation
           dev == reservation[r].developer
       IN  /\ reservation' = [reservation EXCEPT ![r].status = "FUNDED"]
           /\ OneActive(reservation')
           /\ issue' = [status |-> "IN_PROGRESS", developer |-> dev]
           /\ application' = [d \in Developers |->
                 CASE d = dev -> "ACCEPTED"
                   [] d # dev /\ application[d] = "PENDING" -> "REJECTED"
                   [] OTHER -> application[d]]
    /\ Projection

(* Mutant: a late deposit reopens the issue too *)
MarkMismatchReopening ==
    /\ worker.pc = "apply" /\ deposit[worker.reservation] # "none"
    /\ ~Acceptable
    /\ Unchanged
    /\ reservation' = [reservation EXCEPT ![worker.reservation].status = "MISMATCHED"]
    /\ issue' = Reopened
    /\ UNCHANGED application
    /\ Projection

MarkMismatch ==
    /\ worker.pc = "apply" /\ deposit[worker.reservation] # "none"
    /\ ~Acceptable
    /\ Unchanged
    /\ reservation' = [reservation EXCEPT ![worker.reservation].status = "MISMATCHED"]
    /\ issue' = IF worker.status = "AWAITING_FUNDING" THEN Reopened ELSE issue
    /\ UNCHANGED application
    /\ Projection

(* the transaction throws and is retried by a later tick *)
AbortProjection ==
    /\ worker # Idle
    /\ worker' = Idle
    /\ UNCHANGED <<webVars, request, chainVars>>

-----------------------------------------------------------------------------
(* undoDeposit, in the transaction of handleReorg: it reads and checks the     *)
(* reservation, the issue and the applications, and writes over what it found *)

Undone == projected[Len(projected)]

UndoReservation ==
    /\ worker = Idle /\ dropped
    /\ LET status == reservation[Undone.reservation].status
       IN  /\ status \in {"FUNDED", "MISMATCHED", Undone.before.status}
           /\ worker' = [pc |-> "undo issue", status |-> status]
    /\ UNCHANGED <<webVars, request, chainVars>>

(* the issue is as it was before the projection, or as the projection left it *)
IssueUndoable ==
    LET before == Undone.before.issue
    IN  \/ issue = before
        \/ /\ worker.status = "FUNDED"
           /\ issue = [status |-> "IN_PROGRESS",
                       developer |-> reservation[Undone.reservation].developer]
        \/ /\ worker.status = "MISMATCHED"
           /\ issue = [before EXCEPT !.status = "OPEN"]

UndoIssue ==
    /\ worker.pc = "undo issue"
    /\ IssueUndoable
    /\ worker' = [pc |-> "undo applications", issue |-> issue]
    /\ UNCHANGED <<webVars, request, chainVars>>

(* the applications that are not as they were, all of them changed by the      *)
(* projection, are restored.  They are separate rows: one step stands for all *)
UndoApplications ==
    /\ worker.pc = "undo applications"
    /\ LET before == Undone.before.application
           changed == {d \in Developers : before[d] \notin {"NONE", application[d]}}
       IN  /\ \A d \in changed :
                 /\ before[d] = "PENDING"
                 /\ application[d] = IF d = reservation[Undone.reservation].developer
                                     THEN "ACCEPTED" ELSE "REJECTED"
           /\ worker' = [pc |-> "undo", issue |-> worker.issue, restored |-> changed]
    /\ UNCHANGED <<webVars, request, chainVars>>

UndoDeposit ==
    /\ worker.pc = "undo"
    /\ UndosApart => issue = worker.issue
    /\ LET before == Undone.before
       IN  /\ reservation' = [reservation EXCEPT ![Undone.reservation].status = before.status]
           /\ OneActive(reservation')
           /\ issue' = before.issue
           /\ application' = [d \in Developers |->
                 IF d \in worker.restored THEN before.application[d] ELSE application[d]]
    /\ projected' = SubSeq(projected, 1, Len(projected) - 1)
    /\ dropped' = FALSE /\ worker' = Idle
    /\ UNCHANGED <<request, deposit>>

-----------------------------------------------------------------------------

Init ==
    /\ issue = [status |-> "OPEN", developer |-> NoDeveloper]
    /\ application = [d \in Developers |-> "NONE"]
    /\ reservation = <<>>
    /\ request = {}
    /\ deposit = [r \in 1..MaxReservations |-> "none"]
    /\ projected = <<>> /\ dropped = FALSE
    /\ worker = Idle

Web ==
    \/ \E dev \in Developers :
          \/ ApplyToIssue(dev) \/ StoreApplication(dev) \/ WithdrawApplication(dev)
          \/ RejectApplication(dev) \/ StoreRejection(dev)
          \/ SelectDeveloper(dev) \/ BanDeveloper(dev)
    \/ \E q \in request : RequestFails(q)
    \/ \E r \in Numbers : CancelReservation(r)
    \/ CancelIssue \/ BanClient

Chain ==
    \/ \E r \in Numbers, terms \in {"matching", "differing"} : Pay(r, terms)
    \/ DropDeposit

Worker ==
    \/ \E r \in Numbers : ExpireReservation(r) \/ CaptureDepositUndo(r)
    \/ CaptureIssue \/ CaptureApplications
    \/ LoadReservation \/ AcceptDeposit \/ MarkMismatch \/ AbortProjection
    \/ UndoReservation \/ UndoIssue \/ UndoApplications \/ UndoDeposit

Undisturbed == CancelAlone => Cancel \notin request

Next ==
    \/ Undisturbed /\ (Web \/ Chain \/ Worker)
    \/ StoreCancellation

Spec == Init /\ [][Next]_vars

(* the scheduler runs the expiry job every 30 s and the indexer every 4 s,   *)
(* and a started cancelIssue goes on                                         *)
Fairness ==
    /\ WF_vars(Undisturbed /\ \E r \in Numbers : ExpireReservation(r))
    /\ WF_vars(Undisturbed /\ \E r \in Numbers : CaptureDepositUndo(r))
    /\ WF_vars(Undisturbed /\ (CaptureIssue \/ CaptureApplications \/ LoadReservation))
    /\ WF_vars(Undisturbed /\ (AcceptDeposit \/ MarkMismatch))
    /\ WF_vars(Undisturbed /\ (UndoReservation \/ UndoIssue \/ UndoApplications \/ UndoDeposit))
    /\ WF_vars(StoreCancellation)

LiveSpec == Spec /\ Fairness

-----------------------------------------------------------------------------

TypeOK ==
    /\ issue \in [status : IssueStatus, developer : Developers \cup {NoDeveloper}]
    /\ application \in [Developers -> ApplicationStatus]
    /\ reservation \in Seq([developer : Developers, status : ReservationStatus])
    /\ deposit \in [1..MaxReservations -> {"none", "matching", "differing"}]
    /\ dropped \in BOOLEAN

(* The issue is held exactly while a reservation waits for its deposit: no    *)
(* order of selections, cancellations, expiries, late or differing deposits   *)
(* and undone deposits leaves it held for nobody, or open while somebody may  *)
(* still pay (selectDeveloper, expireReservations, markMismatch).             *)
HeldExactlyWhileReserved ==
    (issue.status = "AWAITING_FUNDING") = (WithStatus("AWAITING_FUNDING") # {})

(* Work is under way exactly when one deposit on the reserved terms has been  *)
(* accepted, for the developer whose reservation was paid; every other        *)
(* deposit is on record as mismatched (acceptDeposit, undoDeposit).           *)
FundedExactlyInProgress ==
    /\ (issue.status = "IN_PROGRESS") = (WithStatus("FUNDED") # {})
    /\ \A r \in WithStatus("FUNDED") :
          /\ issue.developer = reservation[r].developer
          /\ application[issue.developer] = "ACCEPTED"
          /\ \E i \in DOMAIN projected :
                projected[i].reservation = r /\ projected[i].terms = "matching"
    /\ \A i \in DOMAIN projected :
          reservation[projected[i].reservation].status \in {"FUNDED", "MISMATCHED"}

(* Action property: an issue the client has cancelled stays cancelled, even   *)
(* if a deposit for one of its reservations arrives or vanishes afterwards.   *)
CancelledForGood == [][issue.status = "CANCELLED" => issue'.status = "CANCELLED"]_vars

(* Liveness: an issue is not held forever; the deposit, the client or the     *)
(* expiry job ends the wait (QD-16).                                          *)
HoldEnds == issue.status = "AWAITING_FUNDING" ~> issue.status # "AWAITING_FUNDING"

(* cancelIssue: only an open issue can be cancelled, one that has been funded *)
(* must end through the escrow (its error message).                           *)
FundedNotCancelled == WithStatus("FUNDED") # {} => issue.status # "CANCELLED"

=============================================================================
