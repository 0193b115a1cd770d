---------------------------- MODULE IntentsProofs ----------------------------
(***************************************************************************)
(* What holds of transaction intents for any set of intents, any finality   *)
(* and any batch: a call of the escrow is CONFIRMED only with a canonical   *)
(* event, what ended stays ended, and a call whose event is canonical is    *)
(* not given up where transactions are final in time and end as they did.   *)
(***************************************************************************)
EXTENDS Intents, TLAPS

(* a transaction in a block has been included at least once *)
IncludedHasFork == \A i \in Intents : tx[i].state = "included" => tx[i].fork # 0

(* the receipts job only looks at intents that have not ended *)
ReadsOpen ==
    worker # Idle =>
        worker.read.status \in {"AWAITING_SIGNATURE", "SUBMITTED", "PENDING_SAFE_HEAD"}

(* confirmedByEventId goes with the status *)
EventOnlyWhenConfirmed ==
    \A i \in Intents : intent[i].byEvent => intent[i].status = "CONFIRMED"

IInv == /\ TypeOK /\ IncludedHasFork /\ ReadsOpen
        /\ EventOnlyWhenConfirmed /\ ConfirmedOnEvent

-----------------------------------------------------------------------------

(* the invariant holds at the start *)
LEMMA InitIInv == Init => IInv
  BY DEF Init, IInv, TypeOK, IncludedHasFork, ReadsOpen, EventOnlyWhenConfirmed,
         ConfirmedOnEvent, Unsent, Statuses, Outcomes

(* a transaction taken into a block has its type and an inclusion to its name *)
LEMMA IncludedType ==
  ASSUME TypeOK, NEW i \in Intents, NEW block \in Nat, NEW outcome \in Outcomes
  PROVE  /\ Included(i, block, outcome) \in
              [state : {"unsent", "pending", "included", "gone"},
               block : Nat, fork : Nat, outcome : Outcomes]
         /\ Included(i, block, outcome).fork # 0
  BY DEF TypeOK, Included

(* confirming rows keeps their type *)
LEMMA ConfirmType ==
  ASSUME TypeOK, NEW is
  PROVE  Confirm(is) \in [Intents -> [status : Statuses, hasHash : BOOLEAN, byEvent : BOOLEAN]]
  BY DEF TypeOK, Confirm, Statuses

(* what nextIntentState returns is not CONFIRMED, unless that is what it read *)
LEMMA ReceiptDoesNotConfirm ==
  ASSUME NEW i, NEW read, NEW receipt,
         NextIntentState(i, read, receipt) # read.status
  PROVE  NextIntentState(i, read, receipt) \in
            {"EXPIRED", "DROPPED", "FAILED", "PENDING_SAFE_HEAD"}
  BY DEF NextIntentState

(* the writes of the job that reads receipts *)
LEMMA UpdateIntentStep ==
  ASSUME TypeOK, ReadsOpen, UpdateIntent, NEW i \in Intents, intent'[i] # intent[i]
  PROVE  /\ intent'[i].byEvent = intent[i].byEvent
         /\ intent'[i].hasHash = intent[i].hasHash
         /\ intent'[i].status \in Statuses
         /\ i \notin Approvals => intent'[i].status # "CONFIRMED"
         /\ intent[i].status \notin {"FAILED", "EXPIRED", "DROPPED", "CONFIRMED"}
  <1> DEFINE j == worker.intent
             stands == ApprovalStands(j, worker.receipt)
             received == NextIntentState(j, worker.read, worker.receipt)
             next == IF stands THEN "CONFIRMED" ELSE received
  <1>1. /\ intent' = IF next # worker.read.status /\ StatusUnchanged(j, worker.read)
                     THEN [intent EXCEPT ![j].status = next] ELSE intent
    BY DEF UpdateIntent
  <1>2. /\ next # worker.read.status
        /\ intent[j].status = worker.read.status
        /\ intent' = [intent EXCEPT ![j].status = next]
    BY <1>1 DEF StatusUnchanged
  <1>3. i = j
    BY <1>2 DEF TypeOK
  <1>4. /\ intent'[i].status = next
        /\ intent'[i].byEvent = intent[i].byEvent
        /\ intent'[i].hasHash = intent[i].hasHash
    BY <1>2, <1>3 DEF TypeOK
  <1>5. ~stands => next \in {"EXPIRED", "DROPPED", "FAILED", "PENDING_SAFE_HEAD"}
    BY <1>2, ReceiptDoesNotConfirm
  <1>6. stands => j \in Approvals
    BY DEF ApprovalStands
  <1>7. next \in Statuses
    BY <1>5 DEF Statuses
  <1>8. i \notin Approvals => next # "CONFIRMED"
    BY <1>3, <1>5, <1>6
  <1>9. intent[i].status \notin {"FAILED", "EXPIRED", "DROPPED", "CONFIRMED"}
    <2>1. worker # Idle
      BY DEF UpdateIntent, Idle
    <2>2. QED
      BY <1>2, <1>3, <2>1 DEF ReadsOpen
  <1>10. QED
    BY <1>4, <1>7, <1>8, <1>9

(* every step keeps the types *)
LEMMA NextTypeOK == TypeOK /\ [Next]_vars => TypeOK'
  <1> SUFFICES ASSUME TypeOK, [Next]_vars PROVE TypeOK'
    OBVIOUS
  <1>1. ASSUME NEW i \in Intents, User(i) \/ ExpiryPasses(i) \/ DropTimePasses(i)
        PROVE  TypeOK'
    <2>1. CASE CreatePreparedCall(i)
      BY ZenonT(30), <2>1 DEF CreatePreparedCall, TypeOK, Statuses, timeVars, chainVars
    <2>2. CASE SendTransaction(i)
      BY <2>2 DEF SendTransaction, TypeOK, timeVars
    <2>3. CASE RecordTransactionSubmitted(i)
      <3>1. intent' \in [Intents -> [status : Statuses, hasHash : BOOLEAN, byEvent : BOOLEAN]]
        BY ZenonT(30), <2>3 DEF RecordTransactionSubmitted, TypeOK, Statuses
      <3>2. recorded' \in Seq(Intents)
        BY <2>3 DEF RecordTransactionSubmitted, TypeOK
      <3>3. QED
        BY <2>3, <3>1, <3>2 DEF RecordTransactionSubmitted, TypeOK, timeVars, chainVars
    <2>4. CASE ExpiryPasses(i)
      BY <2>4 DEF ExpiryPasses, TypeOK, chainVars
    <2>5. CASE DropTimePasses(i)
      BY <2>5 DEF DropTimePasses, TypeOK, chainVars
    <2>6. QED
      BY <1>1, <2>1, <2>2, <2>3, <2>4, <2>5 DEF User
  <1>2. ASSUME NEW i \in Intents, NEW outcome \in Outcomes, Include(i, outcome)
        PROVE  TypeOK'
    <2>1. head + 1 \in Nat
      BY DEF TypeOK
    <2>2. Included(i, head + 1, outcome) \in
             [state : {"unsent", "pending", "included", "gone"},
              block : Nat, fork : Nat, outcome : Outcomes]
      BY <2>1, IncludedType
    <2>3. /\ tx' = [tx EXCEPT ![i] = Included(i, head + 1, outcome)]
          /\ head' = head + 1
          /\ UNCHANGED <<intent, recorded, late, waited, row, worker, safe>>
      BY <1>2 DEF Include, timeVars
    <2>4. QED
      BY <2>1, <2>2, <2>3 DEF TypeOK
  <1>3. ASSUME NEW i \in Intents, Vanish(i)
        PROVE  TypeOK'
    BY <1>3 DEF Vanish, TypeOK, timeVars
  <1>4. CASE EmptyBlock
    BY <1>4 DEF EmptyBlock, TypeOK, timeVars
  <1>5. CASE AdvanceSafe
    BY <1>5 DEF AdvanceSafe, TypeOK, timeVars
  <1>6. ASSUME NEW n \in 0..MaxHeight, Reorganise(n)
        PROVE  TypeOK'
    <2> DEFINE Kind == [state : {"unsent", "pending", "included", "gone"},
                        block : Nat, fork : Nat, outcome : Outcomes]
               lost == {i \in Intents : tx[i].state = "included" /\ tx[i].block > n}
    <2>1. PICK kept \in SUBSET {i \in lost : tx[i].fork < MaxForks} :
            tx' = [i \in Intents |->
                     CASE i \in kept -> Included(i, tx[i].block, tx[i].outcome)
                       [] i \in lost \ kept -> [tx[i] EXCEPT !.state = "pending"]
                       [] OTHER -> tx[i]]
      BY <1>6 DEF Reorganise
    <2>2. ASSUME NEW i \in Intents PROVE tx'[i] \in Kind
      <3>1. tx[i] \in Kind /\ tx[i].block \in Nat /\ tx[i].outcome \in Outcomes
        BY DEF TypeOK
      <3>2. Included(i, tx[i].block, tx[i].outcome) \in Kind
        BY <3>1, IncludedType
      <3>3. [tx[i] EXCEPT !.state = "pending"] \in Kind
        BY <3>1
      <3>4. QED
        BY <2>1, <3>1, <3>2, <3>3
    <2>3. tx' \in [Intents -> Kind]
      BY <2>1, <2>2
    <2>4. QED
      BY <1>6, <2>3 DEF Reorganise, TypeOK, timeVars
  <1>7. ASSUME NEW i \in Intents, ProjectEvent(i)
        PROVE  TypeOK'
    BY <1>7, ConfirmType DEF ProjectEvent, TypeOK, timeVars, chainVars
  <1>8. CASE HandleReorg
    BY <1>8 DEF HandleReorg, Unconfirm, TypeOK, Statuses, timeVars, chainVars
  <1>9. CASE ReconcileIndexedIntents
    BY <1>9, ConfirmType DEF ReconcileIndexedIntents, TypeOK, timeVars, chainVars
  <1>10. CASE (\E i \in Intents : SelectIntent(i)) \/ GetReceipt \/ Abort
    BY <1>10 DEF SelectIntent, GetReceipt, Abort, TypeOK, timeVars, chainVars
  <1>11. CASE UpdateIntent
    <2> DEFINE Row == [status : Statuses, hasHash : BOOLEAN, byEvent : BOOLEAN]
    <2>1. \A i \in Intents : intent[i] \in Row
      BY DEF TypeOK
    <2>2. intent' \in [Intents -> Row]
      <3> DEFINE next == IF ApprovalStands(worker.intent, worker.receipt) THEN "CONFIRMED"
                         ELSE NextIntentState(worker.intent, worker.read, worker.receipt)
      <3>1. CASE intent' = intent
        BY <3>1 DEF TypeOK
      <3>2. CASE intent' # intent
        <4>1. /\ next # worker.read.status
              /\ intent' = [intent EXCEPT ![worker.intent].status = next]
          BY <1>11, <3>2 DEF UpdateIntent
        <4>2. next \in Statuses
          BY <4>1, ReceiptDoesNotConfirm DEF Statuses
        <4>3. QED
          BY ZenonT(30), <4>1, <4>2 DEF TypeOK
      <3>3. QED
        BY <3>1, <3>2
    <2>3. QED
      BY <1>11, <2>2 DEF UpdateIntent, TypeOK, timeVars, chainVars
  <1>12. CASE UNCHANGED vars
    BY <1>12 DEF vars, TypeOK
  <1>13. QED
    BY <1>1, <1>2, <1>3, <1>4, <1>5, <1>6, <1>7, <1>8, <1>9, <1>10, <1>11, <1>12
       DEF Next, Chain, Job

(* the chain includes transactions by incrementing their fork *)
LEMMA NextIncludedHasFork ==
  TypeOK /\ IncludedHasFork /\ [Next]_vars => IncludedHasFork'
  <1> SUFFICES ASSUME TypeOK, IncludedHasFork, [Next]_vars,
                      NEW i \in Intents, tx'[i].state = "included"
               PROVE  tx'[i].fork # 0
    BY DEF IncludedHasFork
  <1>1. CASE tx'[i] = tx[i]
    BY <1>1 DEF IncludedHasFork
  <1>2. ASSUME NEW j \in Intents, SendTransaction(j) \/ Vanish(j)
        PROVE  tx'[i].fork # 0
    BY <1>2 DEF SendTransaction, Vanish, TypeOK, IncludedHasFork
  <1>3. ASSUME NEW j \in Intents, NEW outcome \in Outcomes, Include(j, outcome)
        PROVE  tx'[i].fork # 0
    BY <1>3 DEF Include, Included, TypeOK, IncludedHasFork
  <1>4. ASSUME NEW n \in 0..MaxHeight, Reorganise(n)
        PROVE  tx'[i].fork # 0
    BY <1>4 DEF Reorganise, Included, TypeOK, IncludedHasFork
  <1>5. tx' = tx \/ (\E j \in Intents : SendTransaction(j) \/ Vanish(j))
                 \/ (\E j \in Intents, outcome \in Outcomes : Include(j, outcome))
                 \/ (\E n \in 0..MaxHeight : Reorganise(n))
    BY DEF Next, User, Chain, Job, vars, chainVars, CreatePreparedCall,
           RecordTransactionSubmitted, ExpiryPasses, DropTimePasses, EmptyBlock, AdvanceSafe,
           ProjectEvent, HandleReorg, ReconcileIndexedIntents, SelectIntent, GetReceipt,
           UpdateIntent, Abort
  <1>6. QED
    BY <1>1, <1>2, <1>3, <1>4, <1>5

(* the job only selects intents that have not ended *)
LEMMA NextReadsOpen ==
  TypeOK /\ ReadsOpen /\ [Next]_vars => ReadsOpen'
  <1> SUFFICES ASSUME TypeOK, ReadsOpen, [Next]_vars PROVE ReadsOpen'
    OBVIOUS
  <1>1. CASE worker' = worker
    BY <1>1 DEF ReadsOpen
  <1>2. CASE \E i \in Intents : SelectIntent(i)
    BY <1>2 DEF SelectIntent, ReadsOpen
  <1>3. CASE GetReceipt
    <2>1. worker # Idle
      BY <1>3 DEF GetReceipt, Idle
    <2>2. worker'.read = worker.read
      BY <1>3 DEF GetReceipt
    <2>3. QED
      BY <2>1, <2>2 DEF ReadsOpen
  <1>4. CASE UpdateIntent \/ Abort
    BY <1>4 DEF UpdateIntent, Abort, ReadsOpen
  <1>5. worker' = worker \/ (\E i \in Intents : SelectIntent(i)) \/ GetReceipt
           \/ UpdateIntent \/ Abort
    BY DEF Next, User, Chain, Job, vars, CreatePreparedCall, SendTransaction,
           RecordTransactionSubmitted, ExpiryPasses, DropTimePasses, Include, Vanish,
           EmptyBlock, AdvanceSafe, Reorganise, ProjectEvent, HandleReorg,
           ReconcileIndexedIntents
  <1>6. QED
    BY <1>1, <1>2, <1>3, <1>4, <1>5

(* a batch holds recorded calls that have not ended *)
LEMMA ConfirmableLive ==
  ASSUME TypeOK, NEW i \in Confirmable
  PROVE  intent[i].status \in Live /\ i \notin Approvals /\ row[i] # 0
  BY DEF Confirmable, Batch, Candidate

(* the changes of an intent other than those of the receipts job *)
Prepares(i) ==
    /\ intent[i].status \in {"NONE", "AWAITING_SIGNATURE"}
    /\ intent'[i].status \in {"AWAITING_SIGNATURE", "SUBMITTED"}
    /\ intent'[i].byEvent = intent[i].byEvent

Confirms(i) ==
    /\ intent[i].status \in Live
    /\ intent'[i].status = "CONFIRMED" /\ intent'[i].byEvent /\ row'[i] # 0

TakesBack(i) ==
    /\ intent[i].byEvent /\ row[i] # 0 /\ row'[i] = 0
    /\ intent'[i].status = "SUBMITTED" /\ ~intent'[i].byEvent

(* a row changes by a preparation, the indexer or the job *)
LEMMA IntentStep ==
  ASSUME IInv, [Next]_vars, NEW i \in Intents, intent'[i] # intent[i]
  PROVE  Prepares(i) \/ Confirms(i) \/ TakesBack(i) \/ UpdateIntent
  <1>1. ASSUME NEW j \in Intents, User(j) PROVE Prepares(i)
    BY <1>1 DEF Prepares, User, CreatePreparedCall, SendTransaction, RecordTransactionSubmitted,
                IInv, TypeOK
  <1>2. ASSUME NEW j \in Intents, ProjectEvent(j) PROVE Confirms(i)
    <2>1. /\ intent[i].status \in Live /\ i = j
          /\ intent'[i].status = "CONFIRMED" /\ intent'[i].byEvent
      BY <1>2 DEF ProjectEvent, Confirm, IInv, TypeOK
    <2>2. row'[i] # 0
      BY <1>2, <2>1 DEF ProjectEvent, HasEvent, IInv, TypeOK, IncludedHasFork
    <2>3. QED
      BY <2>1, <2>2 DEF Confirms
  <1>3. ASSUME HandleReorg PROVE TakesBack(i)
    <2>1. /\ intent[i].byEvent /\ i \in StaleRows
          /\ intent'[i].status = "SUBMITTED" /\ ~intent'[i].byEvent
      BY <1>3 DEF HandleReorg, Unconfirm, IInv, TypeOK
    <2>2. row'[i] = 0 /\ row[i] # 0
      BY <1>3, <2>1 DEF HandleReorg, StaleRows, IInv, TypeOK
    <2>3. QED
      BY <2>1, <2>2 DEF TakesBack
  <1>4. ASSUME ReconcileIndexedIntents PROVE Confirms(i)
    <2>1. /\ i \in Confirmable /\ row' = row
          /\ intent'[i].status = "CONFIRMED" /\ intent'[i].byEvent
      BY <1>4 DEF ReconcileIndexedIntents, Confirm, IInv, TypeOK
    <2>2. QED
      BY <2>1, ConfirmableLive DEF Confirms, IInv
  <1>5. (\E j \in Intents : User(j) \/ ProjectEvent(j)) \/ HandleReorg
           \/ ReconcileIndexedIntents \/ UpdateIntent
    BY DEF Next, Chain, Job, vars, ExpiryPasses, DropTimePasses, Include, Vanish,
           EmptyBlock, AdvanceSafe, Reorganise, SelectIntent, GetReceipt, Abort
  <1>6. QED
    BY <1>1, <1>2, <1>3, <1>4, <1>5

(* an event row goes away only in a reorganisation that lost its block *)
LEMMA RowStep ==
  ASSUME IInv, [Next]_vars, NEW i \in Intents, row[i] # 0, row'[i] = 0
  PROVE  HandleReorg /\ i \in StaleRows
  <1>1. ASSUME NEW j \in Intents, ProjectEvent(j) PROVE FALSE
    BY <1>1 DEF ProjectEvent, HasEvent, IInv, TypeOK, IncludedHasFork
  <1>2. row' = row \/ (\E j \in Intents : ProjectEvent(j)) \/ HandleReorg
    BY DEF Next, User, Chain, Job, vars, CreatePreparedCall, SendTransaction,
           RecordTransactionSubmitted, ExpiryPasses, DropTimePasses, Include, Vanish,
           EmptyBlock, AdvanceSafe, Reorganise, ReconcileIndexedIntents, SelectIntent,
           GetReceipt, UpdateIntent, Abort
  <1>3. QED
    BY <1>1, <1>2 DEF HandleReorg, IInv, TypeOK

(* every step keeps CONFIRMED on a canonical event *)
LEMMA NextConfirmedOnEvent == IInv /\ [Next]_vars => ConfirmedOnEvent'
  <1> SUFFICES ASSUME IInv, [Next]_vars, NEW i \in Intents \ Approvals,
                      intent'[i].status = "CONFIRMED"
               PROVE  intent'[i].byEvent /\ row'[i] # 0
    BY DEF ConfirmedOnEvent
  <1>1. CASE intent'[i] # intent[i]
    <2>1. CASE UpdateIntent
      BY <1>1, <2>1, UpdateIntentStep DEF IInv
    <2>2. CASE ~UpdateIntent
      BY <1>1, <2>2, IntentStep DEF Prepares, Confirms, TakesBack
    <2>3. QED
      BY <2>1, <2>2
  <1>2. CASE intent'[i] = intent[i]
    <2>1. intent[i].byEvent /\ row[i] # 0
      BY <1>2 DEF IInv, ConfirmedOnEvent
    <2>2. row'[i] # 0
      <3> SUFFICES ASSUME row'[i] = 0 PROVE FALSE
        OBVIOUS
      <3>1. HandleReorg /\ i \in StaleRows
        BY <2>1, RowStep
      <3>2. intent'[i].status = "SUBMITTED"
        BY <2>1, <3>1 DEF HandleReorg, Unconfirm, IInv, TypeOK
      <3>3. QED
        BY <3>2
    <2>3. QED
      BY <1>2, <2>1, <2>2
  <1>3. QED
    BY <1>1, <1>2

(* every step keeps the confirming event with the status *)
LEMMA NextEventOnlyWhenConfirmed == IInv /\ [Next]_vars => EventOnlyWhenConfirmed'
  <1> SUFFICES ASSUME IInv, [Next]_vars, NEW i \in Intents, intent'[i].byEvent
               PROVE  intent'[i].status = "CONFIRMED"
    BY DEF EventOnlyWhenConfirmed
  <1>1. CASE intent'[i] = intent[i]
    BY <1>1 DEF IInv, EventOnlyWhenConfirmed
  <1>2. CASE intent'[i] # intent[i] /\ UpdateIntent
    BY <1>2, UpdateIntentStep DEF IInv, EventOnlyWhenConfirmed
  <1>3. CASE intent'[i] # intent[i] /\ ~UpdateIntent
    BY <1>3, IntentStep DEF Prepares, Confirms, TakesBack, IInv, EventOnlyWhenConfirmed
  <1>4. QED
    BY <1>1, <1>2, <1>3

-----------------------------------------------------------------------------

(* Every state of the intents' tables and of the chain has its type.          *)
THEOREM IntentsTyped == Spec => []TypeOK
  <1>1. Init => TypeOK
    BY InitIInv DEF IInv
  <1>2. QED
    BY <1>1, NextTypeOK, PTL DEF Spec

(* the invariant holds always *)
LEMMA InductiveInvariant == Spec => []IInv
  <1>1. IInv /\ [Next]_vars => IInv'
    BY NextTypeOK, NextIncludedHasFork, NextReadsOpen, NextConfirmedOnEvent,
       NextEventOnlyWhenConfirmed DEF IInv
  <1>2. QED
    BY <1>1, InitIInv, PTL DEF Spec

(* For any set of intents and either finality: a call of the escrow is shown  *)
(* as CONFIRMED only while the event that confirmed it is canonical, whatever *)
(* receipts the job reads late and however often the chain reorganises.       *)
THEOREM ConfirmedMeansEvent == Spec => []ConfirmedOnEvent
  BY InductiveInvariant, PTL DEF IInv

(* FAILED, EXPIRED and DROPPED are final; CONFIRMED is left only for SUBMITTED *)
(* and only when the reorganisation handler takes the event back.             *)
THEOREM EndsOnceHolds == Spec => EndsOnce
  <1>1. ASSUME IInv, [Next]_vars, NEW i \in Intents, intent'[i] # intent[i],
               intent[i].status \in {"FAILED", "EXPIRED", "DROPPED", "CONFIRMED"}
        PROVE  TakesBack(i) /\ intent[i].status = "CONFIRMED"
    <2>1. ~UpdateIntent
      BY <1>1, UpdateIntentStep DEF IInv
    <2>2. Prepares(i) \/ Confirms(i) \/ TakesBack(i)
      BY <1>1, <2>1, IntentStep
    <2>3. TakesBack(i)
      BY <1>1, <2>2 DEF Live, Prepares, Confirms
    <2>4. intent[i].status = "CONFIRMED"
      BY <1>1, <2>3 DEF TakesBack, IInv, EventOnlyWhenConfirmed
    <2>5. QED
      BY <2>3, <2>4
  <1>2. IInv /\ [Next]_vars
          => [\A i \in Intents :
                /\ intent[i].status \in {"FAILED", "EXPIRED", "DROPPED"} => intent'[i] = intent[i]
                /\ intent[i].status = "CONFIRMED" /\ intent'[i] # intent[i]
                      => intent'[i].status = "SUBMITTED" /\ row'[i] = 0]_vars
    BY <1>1 DEF TakesBack
  <1>3. QED
    BY <1>2, InductiveInvariant, PTL DEF Spec, EndsOnce

-----------------------------------------------------------------------------
(* A call with a canonical event is not given up.  What the receipts job       *)
(* writes is true of the chain when it writes it, although it read before:     *)
(* the five parts say why for each of its three parties.                       *)

(* the browser records a hash once, and an intent that expired never had one  *)
HashRecorded ==
    \A i \in Intents :
        intent[i].hasHash <=> intent[i].status \notin {"NONE", "AWAITING_SIGNATURE", "EXPIRED"}

(* the job read a hash exactly of the intents whose receipt may matter        *)
WorkerRead ==
    worker # Idle =>
        /\ worker.pc \in {"receipt", "update"} /\ worker.intent \in Intents
        /\ worker.read.hasHash <=> worker.read.status \in Live

(* what was waited for long enough is in a block no reorganisation takes back *)
WaitedFinal ==
    \A i \in waited : tx[i].state = "included" /\ tx[i].block <= safe

(* a receipt belongs to a recorded hash, one that failed stays true of the     *)
(* transaction, and one that is missing is not of an intent that has waited   *)
ReceiptTrue ==
    worker.pc = "update" =>
        /\ worker.receipt.found => worker.read.hasHash
        /\ worker.receipt.found /\ ~worker.receipt.ok
              => tx[worker.intent].fork # 0 /\ tx[worker.intent].outcome = "reverted"
        /\ ~worker.receipt.found /\ worker.read.status = "SUBMITTED"
              => worker.intent \notin waited

(* DROPPED is never written, and FAILED only of a transaction that reverted   *)
EndedTruly ==
    \A i \in Intents :
        /\ intent[i].status # "DROPPED"
        /\ intent[i].status = "FAILED" => tx[i].fork # 0 /\ tx[i].outcome = "reverted"

TruthInv == /\ IInv /\ HashRecorded /\ WorkerRead /\ WaitedFinal
            /\ ReceiptTrue /\ EndedTruly

(* what a step may do to a transaction that has been included: with stable     *)
(* outcomes it keeps its outcome, and in a safe block it is left alone         *)
LEMMA TransactionStep ==
  ASSUME TypeOK, [Next]_vars, NEW i \in Intents
  PROVE  /\ StableOutcome /\ tx[i].fork # 0
               => tx'[i].fork # 0 /\ tx'[i].outcome = tx[i].outcome
         /\ tx[i].state = "included" /\ tx[i].block <= safe => tx'[i] = tx[i]
         /\ safe <= safe'
  <1> DEFINE Goal == /\ StableOutcome /\ tx[i].fork # 0
                           => tx'[i].fork # 0 /\ tx'[i].outcome = tx[i].outcome
                     /\ tx[i].state = "included" /\ tx[i].block <= safe => tx'[i] = tx[i]
  <1>1. ASSUME tx' = tx PROVE Goal
    BY <1>1
  <1>2. ASSUME NEW j \in Intents, SendTransaction(j) \/ Vanish(j) PROVE Goal
    <2>1. CASE i = j
      BY <1>2, <2>1 DEF SendTransaction, Vanish, TypeOK
    <2>2. CASE i # j
      BY <1>2, <2>2 DEF SendTransaction, Vanish, TypeOK
    <2>3. QED
      BY <2>1, <2>2
  <1>3. ASSUME NEW j \in Intents, NEW outcome \in Outcomes, Include(j, outcome) PROVE Goal
    <2>1. CASE i = j
      BY <1>3, <2>1 DEF Include, Included, MayEndAs, TypeOK
    <2>2. CASE i # j
      BY <1>3, <2>2 DEF Include, TypeOK
    <2>3. QED
      BY <2>1, <2>2
  <1>4. ASSUME NEW n \in 0..MaxHeight, Reorganise(n) PROVE Goal
    <2> DEFINE lost == {k \in Intents : tx[k].state = "included" /\ tx[k].block > n}
    <2>1. PICK kept \in SUBSET {k \in lost : tx[k].fork < MaxForks} :
            tx' = [k \in Intents |->
                     CASE k \in kept -> Included(k, tx[k].block, tx[k].outcome)
                       [] k \in lost \ kept -> [tx[k] EXCEPT !.state = "pending"]
                       [] OTHER -> tx[k]]
      BY <1>4 DEF Reorganise
    <2>2. tx[i].fork \in Nat /\ tx[i].block \in Nat /\ safe \in Nat /\ n >= safe
      BY <1>4 DEF Reorganise, TypeOK
    <2>3. CASE i \in lost
      <3>1. ~(tx[i].block <= safe)
        BY <2>2, <2>3
      <3>2. tx'[i].fork = tx[i].fork + 1 \/ tx'[i].fork = tx[i].fork
        BY <2>1, <2>3 DEF Included, TypeOK
      <3>3. tx'[i].outcome = tx[i].outcome
        BY <2>1, <2>3 DEF Included, TypeOK
      <3>4. QED
        BY <2>2, <3>1, <3>2, <3>3
    <2>4. CASE i \notin lost
      <3>1. tx'[i] = tx[i]
        BY <2>1, <2>4
      <3>2. QED
        BY <3>1
    <2>5. QED
      BY <2>3, <2>4
  <1>5. /\ tx' = tx \/ (\E j \in Intents : SendTransaction(j) \/ Vanish(j))
                  \/ (\E j \in Intents, outcome \in Outcomes : Include(j, outcome))
                  \/ (\E n \in 0..MaxHeight : Reorganise(n))
        /\ safe' = safe \/ safe' = safe + 1
    BY DEF Next, User, Chain, Job, vars, chainVars, CreatePreparedCall, SendTransaction,
           RecordTransactionSubmitted, ExpiryPasses, DropTimePasses, Include, Vanish,
           EmptyBlock, AdvanceSafe, Reorganise, ProjectEvent, HandleReorg,
           ReconcileIndexedIntents, SelectIntent, GetReceipt, UpdateIntent, Abort
  <1>6. QED
    BY <1>1, <1>2, <1>3, <1>4, <1>5 DEF TypeOK

(* the writes of the receipts job, by the status it read *)
LEMMA UpdateIntentWrites ==
  ASSUME TypeOK, ReadsOpen, UpdateIntent, NEW i \in Intents, intent'[i] # intent[i]
  PROVE  /\ i = worker.intent /\ intent[i].status = worker.read.status
         /\ intent'[i].hasHash = intent[i].hasHash
         /\ intent'[i].status \in {"CONFIRMED", "EXPIRED", "DROPPED", "FAILED", "PENDING_SAFE_HEAD"}
         /\ intent'[i].status = "EXPIRED" => intent[i].status = "AWAITING_SIGNATURE"
         /\ intent'[i].status = "DROPPED"
               => /\ intent[i].status = "SUBMITTED" /\ ~worker.receipt.found /\ i \in waited
         /\ intent'[i].status = "FAILED"
               => intent[i].status = "SUBMITTED" /\ worker.receipt.found /\ ~worker.receipt.ok
         /\ intent'[i].status = "PENDING_SAFE_HEAD" => intent[i].status = "SUBMITTED"
         /\ intent'[i].status = "CONFIRMED" => i \in Approvals /\ worker.receipt.found
  <1> DEFINE stands == ApprovalStands(worker.intent, worker.receipt)
             received == NextIntentState(worker.intent, worker.read, worker.receipt)
             next == IF stands THEN "CONFIRMED" ELSE received
  <1>1. intent' = IF next # worker.read.status /\ StatusUnchanged(worker.intent, worker.read)
                  THEN [intent EXCEPT ![worker.intent].status = next] ELSE intent
    BY DEF UpdateIntent
  <1>2. /\ next # worker.read.status
        /\ intent[worker.intent].status = worker.read.status
        /\ intent' = [intent EXCEPT ![worker.intent].status = next]
    BY <1>1 DEF StatusUnchanged
  <1>3. i = worker.intent
    BY <1>2 DEF TypeOK
  <1>4. intent'[i].status = next /\ intent'[i].hasHash = intent[i].hasHash
    BY <1>2, <1>3 DEF TypeOK
  <1>5. CASE stands
    BY <1>2, <1>3, <1>4, <1>5 DEF ApprovalStands
  <1>6. CASE ~stands
    BY <1>2, <1>3, <1>4, <1>6 DEF NextIntentState
  <1>7. QED
    BY <1>5, <1>6

(* every step keeps a recorded hash and the status together *)
LEMMA NextHashRecorded == TruthInv /\ [Next]_vars => HashRecorded'
  <1> SUFFICES ASSUME TruthInv, [Next]_vars, NEW i \in Intents
               PROVE  intent'[i].hasHash
                        <=> intent'[i].status \notin {"NONE", "AWAITING_SIGNATURE", "EXPIRED"}
    BY DEF HashRecorded
  <1> DEFINE Goal == intent'[i].hasHash
                        <=> intent'[i].status \notin {"NONE", "AWAITING_SIGNATURE", "EXPIRED"}
  <1>1. intent[i].hasHash <=> intent[i].status \notin {"NONE", "AWAITING_SIGNATURE", "EXPIRED"}
    BY DEF TruthInv, HashRecorded
  <1>2. CASE intent'[i] = intent[i]
    BY <1>1, <1>2
  <1>3. ASSUME NEW j \in Intents, User(j), intent'[i] # intent[i] PROVE Goal
    BY ZenonT(60), <1>1, <1>3 DEF User, CreatePreparedCall, SendTransaction, RecordTransactionSubmitted,
                      TruthInv, IInv, TypeOK
  <1>4. ASSUME NEW j \in Intents, ProjectEvent(j), intent'[i] # intent[i] PROVE Goal
    BY <1>1, <1>4 DEF ProjectEvent, Confirm, Live, TruthInv, IInv, TypeOK
  <1>5. ASSUME HandleReorg, intent'[i] # intent[i] PROVE Goal
    BY <1>1, <1>5 DEF HandleReorg, Unconfirm, EventOnlyWhenConfirmed, TruthInv, IInv, TypeOK
  <1>6. ASSUME ReconcileIndexedIntents, intent'[i] # intent[i] PROVE Goal
    <2>1. /\ i \in Confirmable
          /\ intent'[i].status = "CONFIRMED" /\ intent'[i].hasHash = intent[i].hasHash
      BY <1>6 DEF ReconcileIndexedIntents, Confirm, TruthInv, IInv, TypeOK
    <2>2. QED
      BY <1>1, <2>1, ConfirmableLive DEF Live, TruthInv, IInv
  <1>7. ASSUME UpdateIntent, intent'[i] # intent[i] PROVE Goal
    <2>1. worker.pc = "update" /\ worker # Idle
      BY <1>7 DEF UpdateIntent, Idle
    <2>2. worker.receipt.found => worker.read.status \in Live
      BY <2>1 DEF TruthInv, ReceiptTrue, WorkerRead
    <2>3. TypeOK /\ ReadsOpen
      BY DEF TruthInv, IInv
    <2>4. QED
      BY <1>1, <1>7, <2>2, <2>3, UpdateIntentWrites DEF Live
  <1>8. (\E j \in Intents : User(j) \/ ProjectEvent(j)) \/ HandleReorg
           \/ ReconcileIndexedIntents \/ UpdateIntent \/ intent' = intent
    BY DEF Next, Chain, Job, vars, ExpiryPasses, DropTimePasses, Include, Vanish,
           EmptyBlock, AdvanceSafe, Reorganise, SelectIntent, GetReceipt, Abort
  <1>9. QED
    BY <1>2, <1>3, <1>4, <1>5, <1>6, <1>7, <1>8

(* the steps of the receipts job, seen from what it has read *)
LEMMA WorkerStep ==
  ASSUME [Next]_vars
  PROVE  worker' = worker \/ (\E i \in Intents : SelectIntent(i)) \/ GetReceipt
            \/ worker' = Idle
  BY DEF Next, User, Chain, Job, vars, CreatePreparedCall, SendTransaction,
         RecordTransactionSubmitted, ExpiryPasses, DropTimePasses, Include, Vanish,
         EmptyBlock, AdvanceSafe, Reorganise, ProjectEvent, HandleReorg,
         ReconcileIndexedIntents, UpdateIntent, Abort

(* the job reads a hash exactly of the intents whose receipt may matter *)
LEMMA NextWorkerRead == TruthInv /\ [Next]_vars => WorkerRead'
  <1> SUFFICES ASSUME TruthInv, [Next]_vars PROVE WorkerRead'
    OBVIOUS
  <1>1. CASE worker' = worker
    BY <1>1 DEF TruthInv, WorkerRead
  <1>2. ASSUME NEW i \in Intents, SelectIntent(i) PROVE WorkerRead'
    BY <1>2 DEF SelectIntent, WorkerRead, HashRecorded, Live, TruthInv
  <1>3. CASE GetReceipt
    <2>1. worker # Idle
      BY <1>3 DEF GetReceipt, Idle
    <2>2. worker'.pc = "update" /\ worker'.intent = worker.intent /\ worker'.read = worker.read
      BY <1>3 DEF GetReceipt
    <2>3. QED
      BY <2>1, <2>2 DEF TruthInv, WorkerRead
  <1>4. CASE worker' = Idle
    BY <1>4 DEF WorkerRead
  <1>5. QED
    BY <1>1, <1>2, <1>3, <1>4, WorkerStep

(* what has waited long enough in a step: for prompt inclusions, only what is  *)
(* final and what the job is not looking at                                   *)
LEMMA WaitedStep ==
  ASSUME Prompt, [Next]_vars, NEW i \in waited', i \notin waited
  PROVE  /\ tx[i].state = "included" /\ tx[i].block <= safe /\ tx' = tx /\ safe' = safe
         /\ i \notin Examined /\ worker' = worker
  <1>1. ASSUME NEW j \in Intents, DropTimePasses(j)
        PROVE  /\ tx[j].state = "included" /\ tx[j].block <= safe /\ tx' = tx /\ safe' = safe
               /\ j \notin Examined /\ worker' = worker /\ waited' = waited \cup {j}
    BY <1>1 DEF DropTimePasses, chainVars
  <1>2. waited' = waited \/ (\E j \in Intents : DropTimePasses(j))
    BY DEF Next, User, Chain, Job, vars, timeVars, CreatePreparedCall, SendTransaction,
           RecordTransactionSubmitted, ExpiryPasses, Include, Vanish, EmptyBlock,
           AdvanceSafe, Reorganise, ProjectEvent, HandleReorg, ReconcileIndexedIntents,
           SelectIntent, GetReceipt, UpdateIntent, Abort
  <1>3. QED
    BY <1>1, <1>2

(* an intent that waited long enough stays in a block below the safe one *)
LEMMA NextWaitedFinal ==
  ASSUME Prompt
  PROVE  TruthInv /\ [Next]_vars => WaitedFinal'
  <1> SUFFICES ASSUME TruthInv, [Next]_vars, NEW i \in waited'
               PROVE  tx'[i].state = "included" /\ tx'[i].block <= safe'
    BY DEF WaitedFinal
  <1>1. CASE i \in waited
    <2>1. i \in Intents /\ tx[i].state = "included" /\ tx[i].block <= safe
      BY <1>1 DEF TruthInv, IInv, TypeOK, WaitedFinal
    <2>2. tx'[i] = tx[i] /\ safe <= safe'
      BY <2>1, TransactionStep DEF TruthInv, IInv
    <2>3. tx[i].block \in Nat /\ safe \in Nat /\ safe' \in Nat
      BY <2>1, NextTypeOK DEF TruthInv, IInv, TypeOK
    <2>4. QED
      BY <2>1, <2>2, <2>3
  <1>2. CASE i \notin waited
    BY <1>2, WaitedStep
  <1>3. QED
    BY <1>1, <1>2

(* a receipt the job holds tells how its transaction ended *)
LEMMA NextReceiptTrue ==
  ASSUME Prompt, StableOutcome
  PROVE  TruthInv /\ [Next]_vars => ReceiptTrue'
  <1> SUFFICES ASSUME TruthInv, [Next]_vars, worker'.pc = "update"
               PROVE  /\ worker'.receipt.found => worker'.read.hasHash
                      /\ worker'.receipt.found /\ ~worker'.receipt.ok
                            => /\ tx'[worker'.intent].fork # 0
                               /\ tx'[worker'.intent].outcome = "reverted"
                      /\ ~worker'.receipt.found /\ worker'.read.status = "SUBMITTED"
                            => worker'.intent \notin waited'
    BY DEF ReceiptTrue
  <1>0. TypeOK
    BY DEF TruthInv, IInv
  <1>1. CASE worker' = worker
    <2>1. worker # Idle
      BY <1>1 DEF Idle
    <2>2. worker.intent \in Intents
      BY <2>1 DEF TruthInv, WorkerRead
    <2>3. tx[worker.intent].fork # 0
             => /\ tx'[worker.intent].fork # 0
                /\ tx'[worker.intent].outcome = tx[worker.intent].outcome
      BY <1>0, <2>2, TransactionStep
    <2>4. worker.intent \notin waited => worker.intent \notin waited'
      BY <2>1, WaitedStep DEF Examined
    <2>5. QED
      BY <1>1, <2>3, <2>4 DEF TruthInv, ReceiptTrue
  <1>2. CASE GetReceipt
    <2>1. worker # Idle
      BY <1>2 DEF GetReceipt, Idle
    <2> DEFINE i == worker.intent
               seen == worker.read.hasHash /\ tx[i].state = "included"
    <2>2. /\ worker'.intent = i /\ worker'.read = worker.read
          /\ worker'.receipt = IF seen THEN [found |-> TRUE, block |-> tx[i].block,
                                             ok |-> tx[i].outcome # "reverted"]
                               ELSE NoReceipt
          /\ tx' = tx /\ waited' = waited
      BY <1>2 DEF GetReceipt, timeVars, chainVars
    <2>3. i \in Intents
      BY <2>1 DEF TruthInv, WorkerRead
    <2>4. CASE seen
      <3> DEFINE succeeded == tx[i].outcome # "reverted"
      <3>1. tx[i].fork # 0
        BY <2>3, <2>4 DEF TruthInv, IInv, IncludedHasFork
      <3>2. worker'.receipt = [found |-> TRUE, block |-> tx[i].block, ok |-> succeeded]
        BY <2>2, <2>4
      <3>3. worker'.receipt.found /\ (worker'.receipt.ok <=> succeeded)
        <4>1. worker'.receipt.found = TRUE /\ worker'.receipt.ok = succeeded
          <5> HIDE DEF succeeded
          <5>1. QED
            BY <3>2
        <4>2. QED
          BY <4>1
      <3>4. QED
        BY <2>2, <2>4, <3>1, <3>3
    <2>5. CASE ~seen
      <3>1. ~worker'.receipt.found
        BY <2>2, <2>5 DEF NoReceipt
      <3>2. worker.read.status = "SUBMITTED" => tx[i].state # "included"
        BY <2>1, <2>5 DEF TruthInv, WorkerRead, Live
      <3>3. tx[i].state # "included" => i \notin waited
        BY DEF TruthInv, WaitedFinal
      <3>4. QED
        BY <2>2, <3>1, <3>2, <3>3
    <2>6. QED
      BY <2>4, <2>5
  <1>3. CASE (\E i \in Intents : SelectIntent(i)) \/ worker' = Idle
    BY <1>3 DEF SelectIntent, Idle
  <1>4. QED
    BY <1>1, <1>2, <1>3, WorkerStep

(* the job writes FAILED only of a transaction that reverted, and never DROPPED *)
LEMMA NextEndedTruly ==
  ASSUME StableOutcome
  PROVE  TruthInv /\ [Next]_vars => EndedTruly'
  <1> SUFFICES ASSUME TruthInv, [Next]_vars, NEW i \in Intents
               PROVE  /\ intent'[i].status # "DROPPED"
                      /\ intent'[i].status = "FAILED"
                            => tx'[i].fork # 0 /\ tx'[i].outcome = "reverted"
    BY DEF EndedTruly
  <1>0. TypeOK /\ ReadsOpen /\ IInv
    BY DEF TruthInv, IInv
  <1>1. tx[i].fork # 0 => tx'[i].fork # 0 /\ tx'[i].outcome = tx[i].outcome
    BY <1>0, TransactionStep
  <1>2. CASE intent'[i] = intent[i]
    BY <1>1, <1>2 DEF TruthInv, EndedTruly
  <1>3. CASE intent'[i] # intent[i] /\ UpdateIntent
    <2>1. worker.pc = "update"
      BY <1>3 DEF UpdateIntent
    <2>2. /\ i = worker.intent /\ intent[i].status = worker.read.status
          /\ intent'[i].status = "DROPPED"
               => /\ intent[i].status = "SUBMITTED" /\ ~worker.receipt.found /\ i \in waited
          /\ intent'[i].status = "FAILED"
               => intent[i].status = "SUBMITTED" /\ worker.receipt.found /\ ~worker.receipt.ok
      BY <1>0, <1>3, UpdateIntentWrites
    <2>3. QED
      BY <1>1, <2>1, <2>2 DEF TruthInv, ReceiptTrue
  <1>4. CASE intent'[i] # intent[i] /\ ~UpdateIntent
    BY <1>0, <1>4, IntentStep DEF Prepares, Confirms, TakesBack
  <1>5. QED
    BY <1>2, <1>3, <1>4

(* what the job knows of a transaction is always true *)
LEMMA InductiveTruth ==
  ASSUME Prompt, StableOutcome
  PROVE  Spec => []TruthInv
  <1>1. Init => TruthInv
    <2>1. Init => HashRecorded /\ WorkerRead /\ WaitedFinal /\ ReceiptTrue /\ EndedTruly
      BY DEF Init, HashRecorded, WorkerRead, WaitedFinal, ReceiptTrue, EndedTruly, Idle
    <2>2. QED
      BY <2>1, InitIInv DEF TruthInv
  <1>2. IInv /\ [Next]_vars => IInv'
    BY NextTypeOK, NextIncludedHasFork, NextReadsOpen, NextConfirmedOnEvent,
       NextEventOnlyWhenConfirmed DEF IInv
  <1>3. TruthInv /\ [Next]_vars => TruthInv'
    BY <1>2, NextHashRecorded, NextWorkerRead, NextWaitedFinal, NextReceiptTrue,
       NextEndedTruly DEF TruthInv
  <1>4. QED
    BY <1>1, <1>3, PTL DEF Spec

(* While a recorded transaction is final before the job waits no longer for    *)
(* its receipt and an inclusion has the outcome of the one before, whatever     *)
(* the browser, the job and the indexer interleave: a call whose hash was       *)
(* recorded and whose event is canonical is still waited for or CONFIRMED.      *)
THEOREM EventNeverGivenUp ==
  ASSUME Prompt, StableOutcome
  PROVE  Spec => []EventNotGivenUp
  <1>1. TruthInv => EventNotGivenUp
    <2> SUFFICES ASSUME TruthInv, NEW i \in Intents,
                        intent[i].hasHash, tx[i].outcome = "done"
                 PROVE  intent[i].status \in Live \cup {"CONFIRMED"}
      BY DEF EventNotGivenUp
    <2>1. intent[i].status \notin {"NONE", "AWAITING_SIGNATURE", "EXPIRED"}
      BY DEF TruthInv, HashRecorded
    <2>2. intent[i].status \notin {"FAILED", "DROPPED"}
      BY DEF TruthInv, EndedTruly
    <2>3. intent[i].status \in Statuses
      BY DEF TruthInv, IInv, TypeOK
    <2>4. QED
      BY <2>1, <2>2, <2>3 DEF Statuses, Live
  <1>2. QED
    BY <1>1, InductiveTruth, PTL

=============================================================================
