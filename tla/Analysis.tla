------------------------------- MODULE Analysis -------------------------------
(***************************************************************************)
(* analyzeDispute: administrators let a language model write a report about *)
(* a dispute.  A request claims the dispute's row for LEASE, asks the       *)
(* configured providers in turn under one deadline, and writes its report   *)
(* or its failure only while the row still carries its own claim.  A        *)
(* request may die at any point, and the indexer may delete the row under   *)
(* it (undoDispute) and create another one.                                 *)
(*                                                                         *)
(* startedAt is read and written in one step.  The timer of the deadline is *)
(* taken to fire on time; what follows it may take any time.                *)
(***************************************************************************)
EXTENDS Integers

CONSTANTS
    Requests,       \* calls of analyzeDispute
    NoOne,          \* none of them
    Providers,      \* number of providers configured
    TIMEOUT,        \* of the whole provider chain
    LEASE,          \* after which another request may take over
    MaxTime, MaxRows    \* bounds on the clock and on the rows created

ASSUME AnalysisAssumption ==
    /\ NoOne \notin Requests
    /\ Providers \in Nat \ {0}
    /\ TIMEOUT \in Nat /\ LEASE \in Nat /\ TIMEOUT < LEASE
    /\ MaxTime \in Nat /\ MaxRows \in Nat

VARIABLES
    clock,
    row,        \* the row of disputes: id (0 if there is none), aiStatus, aiStartedAt, aiReport
    rows,       \* ids used so far
    pc,         \* where each call is,
    about,      \* the dispute it read,
    since,      \* its startedAt
    provider,   \* and the provider it asks
    aiLog,      \* status of the call's row in AILog
    written     \* history: the calls whose report was stored

call == <<about, since, provider>>
vars == <<clock, row, rows, pc, call, aiLog, written>>

None == "none"
Unset == -1

-----------------------------------------------------------------------------

(* the report is known by the call that wrote it *)
NewRow(id) == [id |-> id, status |-> None, startedAt |-> Unset, report |-> NoOne]

(* Mutant: whoever is there when the answer comes *)
HeldByAnyone(r) ==
    row.id = about[r] /\ row.status = "ANALYZING"

(* the where clause of the final updates *)
HeldBy(r) ==
    /\ row.id = about[r]
    /\ row.status = "ANALYZING" /\ row.startedAt = since[r]

Goto(r, next) == pc' = [pc EXCEPT ![r] = next]

(* the dispute and its evidence are read *)
Read(r) ==
    /\ pc[r] = "idle"
    /\ row.id # 0
    /\ Goto(r, "read")
    /\ about' = [about EXCEPT ![r] = row.id]
    /\ UNCHANGED <<clock, row, rows, since, provider, aiLog, written>>

(* Mutant: a claim is taken over at once *)
MayClaimAlways(r) == row.id = about[r]

MayClaim(r) ==
    /\ row.id = about[r]
    /\ \/ row.status # "ANALYZING"
       \/ row.startedAt + LEASE <= clock

Claim(r) ==
    /\ pc[r] = "read"
    /\ IF MayClaim(r)
       THEN /\ row' = [row EXCEPT !.status = "ANALYZING", !.startedAt = clock]
            /\ since' = [since EXCEPT ![r] = clock]
            /\ Goto(r, "asking")
       ELSE Goto(r, "refused") /\ UNCHANGED <<row, since>>
    /\ UNCHANGED <<clock, rows, about, provider, aiLog, written>>

Deadline(r) == since[r] + TIMEOUT

(* completeAI: an HTTP error, an empty completion, or the abort at the deadline *)
ProviderFails(r) ==
    /\ pc[r] = "asking"
    /\ IF provider[r] < Providers /\ clock < Deadline(r)
       THEN provider' = [provider EXCEPT ![r] = @ + 1] /\ UNCHANGED pc
       ELSE Goto(r, "failing") /\ UNCHANGED provider
    /\ UNCHANGED <<clock, row, rows, about, since, aiLog, written>>

(* a completion, whose report has the expected format or not *)
ProviderAnswers(r) ==
    /\ pc[r] = "asking"
    /\ clock < Deadline(r)
    /\ \E next \in {"storing", "failing"} : Goto(r, next)
    /\ UNCHANGED <<clock, row, rows, call, aiLog, written>>

Report(r) == [row EXCEPT !.status = "COMPLETED", !.report = r, !.startedAt = Unset]

(* Mutant: the count of the update is not looked at *)
StoreUnchecked(r) ==
    /\ pc[r] = "storing"
    /\ IF HeldBy(r)
       THEN row' = Report(r) /\ written' = written \cup {r}
       ELSE UNCHANGED <<row, written>>
    /\ Goto(r, "stored")
    /\ UNCHANGED <<clock, rows, call, aiLog>>

Store(r) ==
    /\ pc[r] = "storing"
    /\ IF HeldBy(r)
       THEN row' = Report(r) /\ written' = written \cup {r} /\ Goto(r, "stored")
       ELSE Goto(r, "failing") /\ UNCHANGED <<row, written>>
    /\ UNCHANGED <<clock, rows, call, aiLog>>

(* the catch clause *)
Fail(r) ==
    /\ pc[r] = "failing"
    /\ row' = IF HeldBy(r) THEN [row EXCEPT !.status = "FAILED", !.startedAt = Unset] ELSE row
    /\ Goto(r, "failed")
    /\ UNCHANGED <<clock, rows, call, aiLog, written>>

(* the finally clause *)
Log(r) ==
    /\ pc[r] \in {"stored", "failed"}
    /\ aiLog' = [aiLog EXCEPT ![r] =
          IF pc[r] = "failed" THEN "ERROR" ELSE IF provider[r] = 1 THEN "SUCCESS" ELSE "FALLBACK"]
    /\ Goto(r, "done")
    /\ UNCHANGED <<clock, row, rows, call, written>>

(* the process ends *)
Crash(r) ==
    /\ pc[r] \in {"read", "asking", "storing", "failing", "stored", "failed"}
    /\ Goto(r, "crashed")
    /\ UNCHANGED <<clock, row, rows, call, aiLog, written>>

(* the indexer: undoDispute deletes the row, applyDispute creates one *)
UndoRaised ==
    /\ row.id # 0
    /\ row' = NewRow(0)
    /\ UNCHANGED <<clock, rows, pc, call, aiLog, written>>

Raise ==
    /\ row.id = 0 /\ rows < MaxRows
    /\ row' = NewRow(rows + 1) /\ rows' = rows + 1
    /\ UNCHANGED <<clock, pc, call, aiLog, written>>

Tick ==
    /\ clock < MaxTime
    /\ \A r \in Requests : pc[r] = "asking" => clock < Deadline(r)
    /\ clock' = clock + 1
    /\ UNCHANGED <<row, rows, pc, call, aiLog, written>>

-----------------------------------------------------------------------------

Init ==
    /\ clock = 0
    /\ row = NewRow(0) /\ rows = 0
    /\ pc = [r \in Requests |-> "idle"] /\ about = [r \in Requests |-> 0]
    /\ since = [r \in Requests |-> Unset] /\ provider = [r \in Requests |-> 1]
    /\ aiLog = [r \in Requests |-> None] /\ written = {}

Step(r) ==
    \/ Read(r) \/ Claim(r)
    \/ ProviderFails(r) \/ ProviderAnswers(r)
    \/ Store(r) \/ Fail(r) \/ Log(r) \/ Crash(r)

Next == (\E r \in Requests : Step(r)) \/ UndoRaised \/ Raise \/ Tick

Spec == Init /\ [][Next]_vars

-----------------------------------------------------------------------------

Running == {"asking", "storing", "failing"}
Statuses == {None, "ANALYZING", "COMPLETED", "FAILED"}
Times == Nat \cup {Unset}

TypeOK ==
    /\ clock \in Nat /\ rows \in Nat
    /\ row \in [id : Nat, status : Statuses, startedAt : Times, report : Requests \cup {NoOne}]
    /\ pc \in [Requests -> Running \cup {"idle", "read", "refused", "stored", "failed", "done", "crashed"}]
    /\ about \in [Requests -> Nat] /\ since \in [Requests -> Times]
    /\ provider \in [Requests -> 1..Providers]
    /\ aiLog \in [Requests -> {None, "SUCCESS", "FALLBACK", "ERROR"}]
    /\ written \subseteq Requests

(* Two requests never wait for the model about the same dispute: the chain's   *)
(* deadline ends before a claim can be taken over, whatever dies in between.   *)
OneAsksAtATime ==
    \A r, q \in Requests :
        pc[r] = "asking" /\ pc[q] = "asking" /\ about[r] = about[q] => r = q

(* A late answer never replaces the report of a later claim, nor one about an  *)
(* earlier row of the issue: reports of a row come in the order of the claims. *)
ReportsInOrder ==
    [][row'.id = row.id /\ row'.report # row.report /\ row.report # NoOne
         => since[row'.report] >= since[row.report]]_vars

(* The log of a call says SUCCESS or FALLBACK exactly when the call itself     *)
(* wrote its report: no discarded answer is counted as an analysis.            *)
LogTellsReport ==
    \A r \in Requests : aiLog[r] # None => (aiLog[r] = "ERROR" <=> r \notin written)

=============================================================================
