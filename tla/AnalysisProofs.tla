--------------------------- MODULE AnalysisProofs ---------------------------
(***************************************************************************)
(* Analysis for any number of requests and providers, any rows and times.   *)
(*                                                                         *)
(* OneAsksAtATime is not inductive.  What carries it is the lease: a call   *)
(* that runs and whose lease is not over holds the row (Held), so two calls *)
(* on the same row claimed it at least LEASE apart (Apart), and the chain's *)
(* deadline, shorter than the lease, does the rest.                         *)
(***************************************************************************)
EXTENDS Analysis, TLAPS

Runs(r) == pc[r] \in Running
Same(q) ==
    /\ pc'[q] = pc[q] /\ about'[q] = about[q] /\ since'[q] = since[q]
    /\ aiLog'[q] = aiLog[q] /\ (q \in written' <=> q \in written)

(* what a row of the table and a call know of the time and of each other *)
RowSound ==
    /\ row.id <= rows
    /\ row.status = "ANALYZING" => row.startedAt \in Nat /\ row.startedAt <= clock

CallSound ==
    \A r \in Requests :
        /\ about[r] <= rows
        /\ pc[r] # "idle" => about[r] >= 1
        /\ Runs(r) => since[r] \in Nat /\ since[r] <= clock
        /\ pc[r] = "asking" => clock <= Deadline(r)

(* what a call has written and logged *)
LogSound ==
    \A r \in Requests :
        /\ r \in written => pc[r] \in {"stored", "done", "crashed"}
        /\ pc[r] = "stored" => r \in written
        /\ aiLog[r] # None => pc[r] = "done" /\ (aiLog[r] = "ERROR" <=> r \notin written)

(* a call within its lease holds the row *)
Held ==
    \A r \in Requests :
        Runs(r) /\ about[r] = row.id /\ clock < since[r] + LEASE
            => row.status = "ANALYZING" /\ row.startedAt = since[r]

(* two calls that run about the same row claimed it LEASE apart *)
Apart ==
    \A r, q \in Requests :
        r # q /\ Runs(r) /\ Runs(q) /\ about[r] = about[q]
            => \/ since[r] + LEASE <= since[q]
               \/ since[q] + LEASE <= since[r]

(* the report of the row is older than the claim that stands *)
ReportSound ==
    row.report # NoOne =>
        /\ ~ Runs(row.report) /\ pc[row.report] \notin {"idle", "read"}
        /\ row.status = "ANALYZING" => since[row.report] <= row.startedAt
        /\ since[row.report] \in Nat /\ since[row.report] <= clock

IInv == TypeOK /\ RowSound /\ CallSound /\ Held /\ Apart /\ ReportSound /\ LogSound

-----------------------------------------------------------------------------

(* the invariant holds at the start *)
LEMMA InitIInv == Init => IInv
BY AnalysisAssumption
DEF Init, IInv, TypeOK, LogSound, RowSound, CallSound, Held, Apart, ReportSound, Runs, Running, NewRow,
    Statuses, Times, None, Unset, Deadline

(* the step of a call leaves every other call as it was *)
LEMMA StepFrame ==
    ASSUME IInv, NEW r \in Requests, Step(r)
    PROVE  /\ \A q \in Requests : q # r => Same(q)
           /\ about'[r] = about[r] \/ (pc[r] = "idle" /\ about'[r] = row.id)
           /\ clock' = clock /\ rows' = rows /\ row'.id = row.id
<1>. USE DEF IInv, TypeOK, Same, call
<1>1. CASE Read(r)
  BY <1>1 DEF Read, Goto
<1>2. CASE Claim(r)
  <2>1. CASE MayClaim(r)
    BY <1>2, <2>1 DEF Claim, Goto
  <2>2. CASE ~ MayClaim(r)
    BY <1>2, <2>2 DEF Claim, Goto
  <2> QED
    BY <2>1, <2>2
<1>3. CASE ProviderFails(r) \/ ProviderAnswers(r) \/ Crash(r)
  BY <1>3 DEF ProviderFails, ProviderAnswers, Crash, Goto
<1>4. CASE Store(r) \/ Fail(r) \/ Log(r)
  <2>1. row'.id = row.id /\ clock' = clock /\ rows' = rows
    <3>1. \/ row' = [row EXCEPT !.status = "COMPLETED", !.report = r, !.startedAt = Unset]
          \/ row' = [row EXCEPT !.status = "FAILED", !.startedAt = Unset]
          \/ row' = row
      BY <1>4 DEF Store, Report, Fail, Log
    <3> QED
      BY <1>4, <3>1 DEF Store, Fail, Log
  <2>2. about' = about /\ since' = since /\ \A q \in Requests : q # r => pc'[q] = pc[q]
    BY <1>4 DEF Store, Fail, Log, Goto
  <2>3. \A q \in Requests : q # r => aiLog'[q] = aiLog[q]
    BY <1>4 DEF Store, Fail, Log
  <2>4. written' = written \/ written' = written \cup {r}
    BY <1>4 DEF Store, Fail, Log
  <2> QED
    BY <2>1, <2>2, <2>3, <2>4
<1> QED
  BY <1>1, <1>2, <1>3, <1>4 DEF Step

(* every step keeps the types *)
LEMMA TypeStep == IInv /\ [Next]_vars => TypeOK'
<1> SUFFICES ASSUME IInv, [Next]_vars PROVE TypeOK'
  OBVIOUS
<1>. USE AnalysisAssumption DEF IInv, TypeOK, Running, Statuses, Times, None, Unset, call
<1>1. ASSUME NEW r \in Requests, Read(r) PROVE TypeOK'
  BY <1>1 DEF Read, Goto
<1>2. ASSUME NEW r \in Requests, Claim(r) PROVE TypeOK'
  <2>1. row' \in [id : Nat, status : Statuses, startedAt : Times, report : Requests \cup {NoOne}]
    <3>1. row' = row \/ row' = [row EXCEPT !.status = "ANALYZING", !.startedAt = clock]
      BY <1>2 DEF Claim
    <3> QED
      BY <3>1
  <2>2. pc' \in [Requests -> Running \cup {"idle", "read", "refused", "stored", "failed", "done", "crashed"}]
    BY <1>2 DEF Claim, Goto
  <2>3. since' \in [Requests -> Times]
    BY <1>2 DEF Claim
  <2> QED
    BY <1>2, <2>1, <2>2, <2>3 DEF Claim
<1>3. ASSUME NEW r \in Requests, ProviderFails(r) PROVE TypeOK'
  BY <1>3 DEF ProviderFails, Goto
<1>4. ASSUME NEW r \in Requests, ProviderAnswers(r) PROVE TypeOK'
  BY <1>4 DEF ProviderAnswers, Goto
<1>5. ASSUME NEW r \in Requests, Store(r) PROVE TypeOK'
  <2>1. row' = row \/ row' = Report(r)
    BY <1>5 DEF Store
  <2>2. row' \in [id : Nat, status : Statuses, startedAt : Times, report : Requests \cup {NoOne}]
    BY <2>1 DEF Report
  <2> QED
    BY <1>5, <2>2 DEF Store, Goto
<1>6. ASSUME NEW r \in Requests, Fail(r) PROVE TypeOK'
  BY <1>6 DEF Fail, Goto
<1>7. ASSUME NEW r \in Requests, Crash(r) PROVE TypeOK'
  BY <1>7 DEF Crash, Goto
<1>l. ASSUME NEW r \in Requests, Log(r) PROVE TypeOK'
  BY <1>l DEF Log, Goto
<1>8. CASE UndoRaised \/ Raise \/ Tick
  BY <1>8 DEF UndoRaised, Raise, Tick, NewRow
<1>9. CASE UNCHANGED vars
  BY <1>9 DEF vars
<1> QED
  BY <1>1, <1>2, <1>3, <1>4, <1>5, <1>6, <1>7, <1>l, <1>8, <1>9 DEF Next, Step

(* a step of a request keeps each log row true of the call it tells of *)
LEMMA LogStep == ASSUME IInv, NEW r \in Requests, Step(r) PROVE LogSound'
<1>. USE DEF IInv, TypeOK, Same, call, LogSound
<1>1. \A q \in Requests : q # r => Same(q)
  BY StepFrame
<1>2. CASE Read(r) \/ Claim(r) \/ ProviderFails(r) \/ ProviderAnswers(r) \/ Fail(r) \/ Crash(r)
  <2>1. /\ pc[r] \notin {"done", "crashed"} /\ pc'[r] # "stored"
        /\ pc[r] = "stored" => pc'[r] = "crashed"
        /\ UNCHANGED <<aiLog, written>>
    BY <1>2 DEF Read, Claim, ProviderFails, ProviderAnswers, Fail, Crash, Goto
  <2> QED
    BY <1>1, <2>1
<1>3. CASE Store(r)
  <2>1. pc[r] = "storing" /\ aiLog' = aiLog
    BY <1>3 DEF Store
  <2>2. CASE HeldBy(r)
    BY <1>1, <1>3, <2>1, <2>2 DEF Store, Goto
  <2>3. CASE ~ HeldBy(r)
    BY <1>1, <1>3, <2>1, <2>3 DEF Store, Goto
  <2> QED
    BY <2>2, <2>3
<1>4. CASE Log(r)
  <2>1. pc'[r] = "done" /\ written' = written /\ pc[r] \in {"stored", "failed"}
    BY <1>4 DEF Log, Goto
  <2>2. (aiLog'[r] = "ERROR") <=> (pc[r] = "failed")
    BY <1>4 DEF Log
  <2> QED
    BY <1>1, <2>1, <2>2
<1> QED
  BY <1>2, <1>3, <1>4 DEF Step

(* a step of a call that claims, or neither runs anew nor touches the row,     *)
(* or lets go of the row it holds                                              *)
LEMMA StepIInv ==
    ASSUME IInv, NEW r \in Requests, Step(r), TypeOK', LogSound' PROVE IInv'
<1>. USE AnalysisAssumption DEF IInv, TypeOK, call, Same
<1>f. /\ \A q \in Requests : q # r => Same(q)
      /\ clock' = clock /\ rows' = rows /\ row'.id = row.id
  BY StepFrame
<1>1. ASSUME Claim(r), MayClaim(r) PROVE IInv'
  <2>. USE <1>f
  <2>1. /\ row' = [row EXCEPT !.status = "ANALYZING", !.startedAt = clock]
        /\ since' = [since EXCEPT ![r] = clock] /\ pc' = [pc EXCEPT ![r] = "asking"]
        /\ pc[r] = "read" /\ about[r] = row.id /\ UNCHANGED about
    BY <1>1 DEF Claim, MayClaim, Goto
  <2>2. /\ pc'[r] = "asking" /\ since'[r] = clock /\ about'[r] = row.id
        /\ row'.status = "ANALYZING" /\ row'.startedAt = clock /\ row'.report = row.report
    BY <2>1
  <2>3. ASSUME NEW q \in Requests, q # r, Runs(q), about[q] = row.id
        PROVE  since[q] \in Nat /\ since[q] + LEASE <= clock
    BY <1>1, <2>3 DEF CallSound, Held, MayClaim
  <2>4. RowSound' /\ CallSound'
    BY <2>1, <2>2 DEF RowSound, CallSound, Runs, Running, Deadline
  <2>5. Held'
    BY <2>1, <2>2, <2>3 DEF Held, Runs, Running
  <2>6. Apart'
    BY <2>1, <2>2, <2>3 DEF Apart, Runs, Running
  <2>7. ReportSound'
    BY <2>1, <2>2 DEF ReportSound, Runs, Running
  <2> QED
    BY <2>4, <2>5, <2>6, <2>7
<1>2. ASSUME since'[r] = since[r], UNCHANGED row,
             Runs(r)' => Runs(r), pc'[r] = "asking" => pc[r] = "asking",
             pc'[r] # "idle", pc'[r] = "read" => pc[r] = "idle"
      PROVE  IInv'
  <2>. USE <1>f, <1>2
  <2>1. /\ about'[r] <= rows /\ (pc'[r] # "idle" => about'[r] >= 1)
        /\ Runs(r)' => about'[r] = about[r]
    <3>1. Runs(r) => pc[r] # "idle"
      BY DEF Runs, Running
    <3>2. about'[r] = about[r] \/ (pc[r] = "idle" /\ about'[r] = row.id)
      BY StepFrame
    <3>3. pc[r] = "idle" => about'[r] >= 1
      BY DEF Step, Read, Claim, ProviderFails, ProviderAnswers, Store, Fail, Log, Crash
    <3> QED
      BY <3>1, <3>2, <3>3 DEF RowSound, CallSound
  <2>2. RowSound' /\ CallSound'
    BY <2>1 DEF RowSound, CallSound, Runs, Deadline
  <2>3. Held' /\ Apart'
    BY <2>1 DEF Held, Apart, Runs
  <2>4. ReportSound'
    <3>1. pc'[r] \in {"idle", "read"} => pc[r] \in {"idle", "read"}
      OBVIOUS
    <3> QED
      BY <3>1 DEF ReportSound, Runs
  <2> QED
    BY <2>2, <2>3, <2>4
<1>3. ASSUME HeldBy(r), pc[r] \in Running, pc'[r] \in {"stored", "failed"},
             about'[r] = about[r], since'[r] = since[r],
             row'.status # "ANALYZING",
             row'.report = row.report \/ row'.report = r
      PROVE  IInv'
  <2>. USE <1>f, <1>3
  <2>1. ~ Runs(r)'
    BY Zenon DEF Runs, Running
  <2>2. RowSound' /\ CallSound'
    <3>1. RowSound'
      BY DEF RowSound
    <3>2. about[r] <= rows /\ about[r] >= 1 /\ pc'[r] \notin {"idle", "asking"}
      BY DEF CallSound, Running
    <3>3. CallSound'
      BY <2>1, <3>2 DEF CallSound, Runs, Deadline
    <3> QED
      BY <3>1, <3>3
  <2>3. ASSUME NEW q \in Requests, Runs(q)', about'[q] = row'.id
        PROVE  ~ (clock' < since'[q] + LEASE)
    <3>1. q # r /\ Runs(q) /\ Runs(r) /\ about[q] = about[r]
      BY <2>1, <2>3 DEF Runs, HeldBy
    <3>2. since[q] \in Nat /\ since[r] \in Nat /\ since[r] <= clock
      BY <3>1 DEF CallSound
    <3>3. SUFFICES ASSUME clock < since[q] + LEASE PROVE FALSE
      BY <3>1
    <3>4. row.startedAt = since[q] /\ row.startedAt = since[r]
      BY <3>1, <3>3 DEF Held, HeldBy
    <3>5. since[r] + LEASE <= since[q] \/ since[q] + LEASE <= since[r]
      BY <3>1 DEF Apart
    <3>6. since[r] = since[q]
      BY <3>4
    <3> QED
      BY <3>2, <3>5, <3>6
  <2>4. Held'
    BY <2>3 DEF Held, Runs
  <2>5. Apart'
    BY <2>1 DEF Apart, Runs
  <2>6. ReportSound'
    <3>1. since[r] \in Nat /\ since[r] <= clock
      BY DEF CallSound, Runs, Running
    <3>2. row'.status # "ANALYZING" /\ pc'[r] \notin {"idle", "read"}
      OBVIOUS
    <3> QED
      BY <2>1, <3>1, <3>2 DEF ReportSound, Runs
  <2> QED
    BY <2>2, <2>4, <2>5, <2>6
<1>4. CASE Read(r)
  <2> QED
    BY <1>2, <1>4 DEF Read, Goto, CallSound, Runs, Running
<1>5. CASE Claim(r)
  <2>1. CASE ~ MayClaim(r)
    BY <1>2, <1>5, <2>1 DEF Claim, Goto, CallSound, Runs, Running
  <2> QED
    BY <1>1, <1>5, <2>1
<1>6. CASE ProviderFails(r) \/ ProviderAnswers(r) \/ Log(r) \/ Crash(r)
  <2>1. UNCHANGED row /\ since'[r] = since[r]
    BY <1>6 DEF ProviderFails, ProviderAnswers, Log, Crash
  <2>2. /\ pc'[r] \in Running => pc[r] = "asking"
        /\ pc'[r] = "asking" => pc[r] = "asking"
        /\ pc'[r] \notin {"idle", "read"}
    BY <1>6 DEF ProviderFails, ProviderAnswers, Log, Crash, Goto, Running
  <2> QED
    BY <1>2, <2>1, <2>2 DEF Runs, Running
<1>7. CASE Store(r)
  <2>1. CASE HeldBy(r)
    <3>1. row' = Report(r) /\ pc' = [pc EXCEPT ![r] = "stored"] /\ UNCHANGED call /\ pc[r] = "storing"
      BY <1>7, <2>1 DEF Store, Goto
    <3>2. row'.status # "ANALYZING" /\ row'.report = r
      BY <3>1 DEF Report
    <3>3. /\ pc'[r] = "stored" /\ about'[r] = about[r]
          /\ since'[r] = since[r] /\ pc[r] \in Running
      BY <3>1 DEF Running
    <3> QED
      BY <1>3, <2>1, <3>2, <3>3
  <2>2. CASE ~ HeldBy(r)
    <3>1. pc' = [pc EXCEPT ![r] = "failing"] /\ UNCHANGED call /\ pc[r] = "storing" /\ UNCHANGED row
      BY <1>7, <2>2 DEF Store, Goto
    <3> QED
      BY <1>2, <3>1 DEF Runs, Running
  <2> QED
    BY <2>1, <2>2
<1>8. CASE Fail(r)
  <2>1. pc' = [pc EXCEPT ![r] = "failed"] /\ UNCHANGED call /\ pc[r] = "failing"
    BY <1>8 DEF Fail, Goto
  <2>2. /\ pc'[r] = "failed" /\ about'[r] = about[r]
        /\ since'[r] = since[r] /\ pc[r] \in Running
    BY <2>1 DEF Running
  <2>3. CASE HeldBy(r)
    <3>1. row' = [row EXCEPT !.status = "FAILED", !.startedAt = Unset]
      BY <1>8, <2>3 DEF Fail
    <3>2. row'.status # "ANALYZING" /\ row'.report = row.report
      BY <3>1
    <3> QED
      BY <1>3, <2>2, <2>3, <3>2
  <2>4. CASE ~ HeldBy(r)
    BY <1>2, <1>8, <2>1, <2>2, <2>4 DEF Fail, Runs, Running
  <2> QED
    BY <2>3, <2>4
<1> QED
  BY <1>4, <1>5, <1>6, <1>7, <1>8 DEF Step

(* every step keeps the invariant *)
LEMMA NextIInv == IInv /\ [Next]_vars => IInv'
<1> SUFFICES ASSUME IInv, [Next]_vars PROVE IInv'
  OBVIOUS
<1>t. TypeOK'
  BY TypeStep
<1>1. ASSUME NEW r \in Requests, Step(r) PROVE IInv'
  BY <1>1, <1>t, StepIInv, LogStep
<1>2. CASE UndoRaised \/ Raise
  <2>1. /\ row' = NewRow(row'.id) /\ UNCHANGED <<clock, pc, call, aiLog, written>>
        /\ row'.id <= rows' /\ rows <= rows' /\ row'.id \in {0, rows + 1}
    BY <1>2 DEF UndoRaised, Raise, NewRow, IInv, TypeOK
  <2>2. row'.status = None /\ row'.report = NoOne
    BY <2>1 DEF NewRow
  <2>3. \A r \in Requests : pc[r] # "idle" => about[r] # row'.id
    BY <2>1 DEF IInv, TypeOK, CallSound
  <2>4. \A r \in Requests : Runs(r) => pc[r] # "idle"
    BY DEF Runs, Running
  <2>5. RowSound' /\ CallSound' /\ ReportSound'
    <3>1. RowSound' /\ ReportSound'
      BY <2>1, <2>2 DEF RowSound, ReportSound, Runs, None
    <3>2. \A r \in Requests : about[r] <= rows'
      BY <2>1, <1>t DEF IInv, TypeOK, CallSound
    <3>3. CallSound'
      BY <2>1, <3>2 DEF IInv, CallSound, Runs, Deadline, call
    <3> QED
      BY <3>1, <3>3
  <2>7. LogSound'
    BY <2>1 DEF IInv, LogSound
  <2>6. Held' /\ Apart'
    BY <2>1, <2>3, <2>4 DEF IInv, Held, Apart, Runs, call
  <2> QED
    BY <1>t, <2>5, <2>6, <2>7 DEF IInv
<1>3. CASE Tick
  BY <1>3, <1>t, AnalysisAssumption
  DEF Tick, IInv, TypeOK, RowSound, CallSound, Held, Apart, ReportSound, LogSound, Runs, Running, Deadline, call
<1>4. CASE UNCHANGED vars
  BY <1>4 DEF vars, IInv, TypeOK, RowSound, CallSound, Held, Apart, ReportSound, LogSound, Runs, Deadline, call
<1> QED
  BY <1>1, <1>2, <1>3, <1>4 DEF Next

(* the invariant holds always *)
LEMMA SpecIInv == Spec => []IInv
BY InitIInv, NextIInv, PTL DEF Spec

-----------------------------------------------------------------------------

(* Types, with the provider within the chain that buildProviders returns. *)
THEOREM TypeCorrect == Spec => []TypeOK
<1>1. IInv => TypeOK
  BY DEF IInv
<1> QED
  BY <1>1, SpecIInv, PTL

(* Two requests never wait for the model about the same dispute (the claim of   *)
(* analyzeDispute, the deadline of completeAI), provided TIMEOUT < LEASE.       *)
THEOREM AskingAlone == Spec => []OneAsksAtATime
<1>1. IInv => OneAsksAtATime
  <2> SUFFICES ASSUME IInv, NEW r \in Requests, NEW q \in Requests, r # q,
                      pc[r] = "asking", pc[q] = "asking",
                      about[r] = about[q]
               PROVE  FALSE
    BY DEF OneAsksAtATime
  <2>1. Runs(r) /\ Runs(q)
    BY DEF Runs, Running
  <2>2. /\ since[r] \in Nat /\ since[r] <= clock
        /\ since[q] \in Nat /\ since[q] <= clock
        /\ clock <= since[r] + TIMEOUT /\ clock <= since[q] + TIMEOUT
    BY <2>1 DEF IInv, CallSound, Deadline
  <2> QED
    BY <2>1, <2>2, AnalysisAssumption DEF IInv, TypeOK, Apart
<1> QED
  BY <1>1, SpecIInv, PTL

(* No late answer replaces the report of a later claim (the where clause of     *)
(* the final update, which carries the claim's own time).                       *)
THEOREM ReportsOrdered == Spec => ReportsInOrder
<1>1. IInv /\ [Next]_vars
        => [row'.id = row.id /\ row'.report # row.report /\ row.report # NoOne
              => since[row'.report] >= since[row.report]]_vars
  <2> SUFFICES ASSUME IInv, Next, row'.id = row.id, row'.report # row.report, row.report # NoOne
               PROVE  since[row'.report] >= since[row.report]
    OBVIOUS
  <2>1. ~ UndoRaised /\ ~ Raise /\ ~ Tick
    BY DEF UndoRaised, Raise, Tick, NewRow, IInv, TypeOK
  <2>2. PICK r \in Requests : Step(r)
    BY <2>1 DEF Next
  <2>3. Store(r) /\ HeldBy(r) /\ row'.report = r
    BY <2>2 DEF IInv, TypeOK, Step, Read, Claim, ProviderFails, ProviderAnswers, Store, Report, Fail, Log, Crash
  <2>4. row.status = "ANALYZING" /\ row.startedAt = since[r]
    BY <2>3 DEF HeldBy
  <2>5. row.report \in Requests /\ since[row.report] <= row.startedAt
    BY <2>4 DEF IInv, TypeOK, ReportSound
  <2>6. row.startedAt \in Nat /\ since[row.report] \in Nat
    BY <2>4 DEF IInv, RowSound, ReportSound
  <2> QED
    BY <2>3, <2>4, <2>5, <2>6
<1> QED
  BY <1>1, SpecIInv, PTL DEF Spec, ReportsInOrder

(* The log of a call says that it wrote a report exactly when it did (the       *)
(* finally clause against the count of the update).                             *)
THEOREM LogTrue == Spec => []LogTellsReport
<1>1. IInv => LogTellsReport
  BY DEF IInv, LogSound, LogTellsReport
<1> QED
  BY <1>1, SpecIInv, PTL

=============================================================================
