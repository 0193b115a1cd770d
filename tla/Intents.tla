------------------------------- MODULE Intents -------------------------------
(***************************************************************************)
(* The life of a transaction intent: a call prepared by the server, sent by *)
(* the user's wallet, its hash recorded by the browser, its receipt read by *)
(* the worker's intents job and its event projected by the indexer.  The    *)
(* four parties do not wait for each other, and a reorganisation may take   *)
(* back what each of them has seen.                                         *)
(*                                                                         *)
(* An intent stands for its call, its transaction and the one event the     *)
(* call emits; "fork" tells the inclusions of one transaction apart, as the *)
(* hash of the block does.  How the indexer finds events is in Indexer.     *)
(***************************************************************************)
EXTENDS Integers, Sequences, FiniteSets

CONSTANTS
    Intents,
    Approvals,      \* intents whose method is "approve": a call to the token
    Finality,       \* "safe" or "latest" (FINALITY)
    BatchSize,      \* rows reconcileIndexedIntents takes at a time (200)
    Prompt,         \* TRUE: a recorded transaction is in a final block before the
                    \* intents job reads its receipt 30 minutes later
    StableOutcome,  \* TRUE: a transaction included again has the outcome it had
    MaxHeight, MaxForks     \* bounds on the environment

ASSUME IntentsAssumption ==
    /\ Approvals \subseteq Intents
    /\ Finality \in {"safe", "latest"}
    /\ BatchSize \in Nat \ {0}
    /\ Prompt \in BOOLEAN /\ StableOutcome \in BOOLEAN
    /\ MaxHeight \in Nat /\ MaxForks \in Nat

VARIABLES
    intent,     \* transaction_intents: status, hash recorded, event that confirmed it
    recorded,   \* intents with a hash, in the order of submittedAt
    late,       \* intents past expiresAt
    waited,     \* intents submitted INTENT_DROP_AFTER_MS ago
    row,        \* chain_events: the inclusion whose event is canonical, 0 for none
    worker,     \* what the intents job has read of the intent it looks at
    tx,         \* external: the intent's transaction
    head, safe  \* external: heights of the node's chain and of its safe block

timeVars == <<late, waited>>
chainVars == <<tx, head, safe>>
vars == <<intent, recorded, late, waited, row, worker, tx, head, safe>>

Statuses == {"NONE", "AWAITING_SIGNATURE", "SUBMITTED", "PENDING_SAFE_HEAD",
             "CONFIRMED", "FAILED", "EXPIRED", "DROPPED"}
Live == {"SUBMITTED", "PENDING_SAFE_HEAD"}

(* done: the event fits what was prepared; refused: a deposit that applyFunded *)
(* marks as a mismatch, so no projection of the issue has its key              *)
Outcomes == {"done", "refused", "reverted"}

Unsent == [state |-> "unsent", block |-> 0, fork |-> 0, outcome |-> "reverted"]
Idle == [pc |-> "idle"]
NoReceipt == [found |-> FALSE]

(* what the intents job has read but not written *)
Examined == IF worker = Idle THEN {} ELSE {worker.intent}

SafeHead == IF Finality = "latest" THEN head ELSE safe

HasEvent(i) == /\ i \notin Approvals
               /\ tx[i].state = "included" /\ tx[i].outcome # "reverted"

-----------------------------------------------------------------------------
(* The web application and the wallet *)

(* createPreparedCall, or the approve intent of prepareEscrowDeposit *)
CreatePreparedCall(i) ==
    /\ intent[i].status = "NONE"
    /\ intent' = [intent EXCEPT ![i].status = "AWAITING_SIGNATURE"]
    /\ UNCHANGED <<recorded, timeVars, row, worker, chainVars>>

(* sendPreparedCalls; the wallet does not look at expiresAt *)
SendTransaction(i) ==
    /\ intent[i].status # "NONE"
    /\ tx[i].state = "unsent"
    /\ tx' = [tx EXCEPT ![i].state = "pending"]
    /\ UNCHANGED <<intent, recorded, timeVars, row, worker, head, safe>>

(* the browser may be closed before this *)
RecordTransactionSubmitted(i) ==
    /\ tx[i].state # "unsent"
    /\ intent[i].status = "AWAITING_SIGNATURE" /\ i \notin late
    /\ intent' = [intent EXCEPT ![i].status = "SUBMITTED", ![i].hasHash = TRUE]
    /\ recorded' = Append(recorded, i)
    /\ UNCHANGED <<timeVars, row, worker, chainVars>>

ExpiryPasses(i) ==
    /\ intent[i].status # "NONE" /\ i \notin late
    /\ late' = late \cup {i}
    /\ UNCHANGED <<intent, recorded, waited, row, worker, chainVars>>

DropTimePasses(i) ==
    /\ intent[i].hasHash /\ i \notin waited
    /\ Prompt => /\ tx[i].state = "included" /\ tx[i].block <= safe
                 /\ i \notin Examined
    /\ waited' = waited \cup {i}
    /\ UNCHANGED <<intent, recorded, late, row, worker, chainVars>>

-----------------------------------------------------------------------------
(* External: the chain *)

MayEndAs(i, outcome) ==
    /\ StableOutcome /\ tx[i].fork > 0 => outcome = tx[i].outcome
    /\ i \in Approvals => outcome # "refused"

Included(i, block, outcome) ==
    [state |-> "included", block |-> block, fork |-> tx[i].fork + 1, outcome |-> outcome]

Include(i, outcome) ==
    /\ head < MaxHeight /\ tx[i].state = "pending" /\ tx[i].fork < MaxForks
    /\ MayEndAs(i, outcome)
    /\ tx' = [tx EXCEPT ![i] = Included(i, head + 1, outcome)]
    /\ head' = head + 1
    /\ UNCHANGED <<intent, recorded, timeVars, row, worker, safe>>

EmptyBlock ==
    /\ head < MaxHeight
    /\ head' = head + 1
    /\ UNCHANGED <<intent, recorded, timeVars, row, worker, tx, safe>>

(* replaced by another transaction of the same nonce, or evicted *)
Vanish(i) ==
    /\ tx[i].state = "pending"
    /\ tx' = [tx EXCEPT ![i].state = "gone"]
    /\ UNCHANGED <<intent, recorded, timeVars, row, worker, head, safe>>

(* the node switches to a fork of the same height that leaves the chain after *)
(* block n; a transaction of the lost blocks is included there or is pending  *)
Reorganise(n) ==
    /\ n >= safe /\ n < head
    /\ LET lost == {i \in Intents : tx[i].state = "included" /\ tx[i].block > n}
       IN  /\ lost # {}
           /\ \E kept \in SUBSET {i \in lost : tx[i].fork < MaxForks} :
                tx' = [i \in Intents |->
                         CASE i \in kept -> Included(i, tx[i].block, tx[i].outcome)
                           [] i \in lost \ kept -> [tx[i] EXCEPT !.state = "pending"]
                           [] OTHER -> tx[i]]
    /\ UNCHANGED <<intent, recorded, timeVars, row, worker, head, safe>>

AdvanceSafe ==
    /\ safe < head
    /\ safe' = safe + 1
    /\ UNCHANGED <<intent, recorded, timeVars, row, worker, tx, head>>

-----------------------------------------------------------------------------
(* The indexer, as far as intents go *)

Confirm(is) == [i \in Intents |-> IF i \in is
                                  THEN [intent[i] EXCEPT !.status = "CONFIRMED", !.byEvent = TRUE]
                                  ELSE intent[i]]

(* projectLog with its effect: confirmed in the transaction of the event *)
ProjectEvent(i) ==
    /\ HasEvent(i) /\ tx[i].block <= SafeHead
    /\ row[i] = 0
    /\ row' = [row EXCEPT ![i] = tx[i].fork]
    /\ intent' = Confirm({j \in {i} : intent[j].status \in Live /\ tx[j].outcome = "done"})
    /\ UNCHANGED <<recorded, timeVars, worker, chainVars>>

StaleRows == {i \in Intents : row[i] # 0 /\ ~(HasEvent(i) /\ tx[i].fork = row[i])}

(* Mutant: the status of the snapshot taken when the event was projected is  *)
(* put back, although the hash was recorded since                             *)
UnconfirmToSnapshot(is) ==
    [i \in Intents |-> IF i \in is /\ intent[i].byEvent
                       THEN [intent[i] EXCEPT !.status = "AWAITING_SIGNATURE", !.byEvent = FALSE]
                       ELSE intent[i]]

Unconfirm(is) ==
    [i \in Intents |-> IF i \in is /\ intent[i].byEvent
                       THEN [intent[i] EXCEPT !.status = "SUBMITTED", !.byEvent = FALSE]
                       ELSE intent[i]]

(* handleReorg; the undo functions find no intent confirmed by the event left *)
HandleReorg ==
    /\ StaleRows # {}
    /\ row' = [i \in Intents |-> IF i \in StaleRows THEN 0 ELSE row[i]]
    /\ intent' = Unconfirm(StaleRows)
    /\ UNCHANGED <<recorded, timeVars, worker, chainVars>>

-----------------------------------------------------------------------------
(* The intents job: reconcileIndexedIntents, then reconcileIntents *)

(* Mutant: a hash whose receipt was found first is not looked at again *)
CandidateSubmitted(n) == intent[recorded[n]].status = "SUBMITTED" /\ recorded[n] \notin Approvals

Candidate(n) == intent[recorded[n]].status \in Live /\ recorded[n] \notin Approvals

(* take: 200, orderBy submittedAt *)
Batch == {recorded[n] : n \in {m \in DOMAIN recorded :
             Candidate(m) /\ Cardinality({k \in 1..(m - 1) : Candidate(k)}) < BatchSize}}

(* Mutant: the event need not be canonical any more *)
ConfirmableByAnyRow == {i \in Batch : tx[i].fork > 0 /\ tx[i].outcome = "done"}

(* of the batch, those with a canonical event that is theirs *)
Confirmable == {i \in Batch : row[i] # 0 /\ tx[i].outcome = "done"}

(* one transaction, under the lock of the checkpoint *)
ReconcileIndexedIntents ==
    /\ Confirmable # {}
    /\ intent' = Confirm(Confirmable)
    /\ UNCHANGED <<recorded, timeVars, row, worker, chainVars>>

(* the findMany of reconcileIntents *)
SelectIntent(i) ==
    /\ worker = Idle
    /\ \/ intent[i].status \in {"AWAITING_SIGNATURE", "SUBMITTED"}
       \/ intent[i].status = "PENDING_SAFE_HEAD" /\ i \in Approvals
    /\ worker' = [pc |-> "receipt", intent |-> i, read |-> intent[i]]
    /\ UNCHANGED <<intent, recorded, timeVars, row, chainVars>>

GetReceipt ==
    /\ worker.pc = "receipt"
    /\ LET i == worker.intent
       IN  worker' = [pc |-> "update", intent |-> i, read |-> worker.read,
                      receipt |-> IF worker.read.hasHash /\ tx[i].state = "included"
                                  THEN [found |-> TRUE, block |-> tx[i].block,
                                        ok |-> tx[i].outcome # "reverted"]
                                  ELSE NoReceipt]
    /\ UNCHANGED <<intent, recorded, timeVars, row, chainVars>>

(* nextIntentState; a receipt does not confirm a call of the escrow *)
NextIntentState(i, read, receipt) ==
    CASE read.status = "AWAITING_SIGNATURE" /\ i \in late -> "EXPIRED"
      [] read.status = "SUBMITTED" /\ ~receipt.found /\ i \in waited -> "DROPPED"
      [] read.status = "SUBMITTED" /\ receipt.found /\ ~receipt.ok -> "FAILED"
      [] read.status = "SUBMITTED" /\ receipt.found /\ receipt.ok -> "PENDING_SAFE_HEAD"
      [] OTHER -> read.status

(* reads the safe head only now, for an approval that succeeded *)
ApprovalStands(i, receipt) ==
    i \in Approvals /\ receipt.found /\ receipt.ok /\ receipt.block <= SafeHead

(* Mutant: the update does not look at the status again *)
StatusUnchangedIgnored(i, read) == TRUE

(* the condition of the updateMany *)
StatusUnchanged(i, read) == intent[i].status = read.status

UpdateIntent ==
    /\ worker.pc = "update"
    /\ LET i == worker.intent
           next == IF ApprovalStands(i, worker.receipt) THEN "CONFIRMED"
                   ELSE NextIntentState(i, worker.read, worker.receipt)
       IN  intent' = IF next # worker.read.status /\ StatusUnchanged(i, worker.read)
                     THEN [intent EXCEPT ![i].status = next] ELSE intent
    /\ worker' = Idle
    /\ UNCHANGED <<recorded, timeVars, row, chainVars>>

(* the job throws or its process ends *)
Abort ==
    /\ worker # Idle
    /\ worker' = Idle
    /\ UNCHANGED <<intent, recorded, timeVars, row, chainVars>>

-----------------------------------------------------------------------------

Init ==
    /\ intent = [i \in Intents |-> [status |-> "NONE", hasHash |-> FALSE, byEvent |-> FALSE]]
    /\ recorded = <<>>
    /\ late = {} /\ waited = {}
    /\ row = [i \in Intents |-> 0]
    /\ worker = Idle
    /\ tx = [i \in Intents |-> Unsent]
    /\ head = 0 /\ safe = 0

User(i) == CreatePreparedCall(i) \/ SendTransaction(i) \/ RecordTransactionSubmitted(i)

Chain ==
    \/ \E i \in Intents : (\E outcome \in Outcomes : Include(i, outcome)) \/ Vanish(i)
    \/ EmptyBlock \/ AdvanceSafe
    \/ \E n \in 0..MaxHeight : Reorganise(n)

Job == ReconcileIndexedIntents \/ (\E i \in Intents : SelectIntent(i))
       \/ GetReceipt \/ UpdateIntent \/ Abort

Next ==
    \/ \E i \in Intents : User(i) \/ ExpiryPasses(i) \/ DropTimePasses(i)
    \/ Chain
    \/ (\E i \in Intents : ProjectEvent(i)) \/ HandleReorg
    \/ Job

Spec == Init /\ [][Next]_vars

(* Time passes; the indexer runs every 4 s, the intents job every 15 s over    *)
(* all rows it finds; a step of it that may succeed does so sooner or later.   *)
Fairness ==
    /\ \A i \in Intents : WF_vars(ExpiryPasses(i)) /\ WF_vars(DropTimePasses(i))
    /\ \A i \in Intents : WF_vars(ProjectEvent(i)) /\ SF_vars(SelectIntent(i))
    /\ WF_vars(HandleReorg) /\ WF_vars(ReconcileIndexedIntents)
    /\ SF_vars(GetReceipt) /\ SF_vars(UpdateIntent)

LiveSpec == Spec /\ Fairness

(* the part of it that late hashes need: reconcileIndexedIntents is run again  *)
ReconciledSpec == Spec /\ WF_vars(ReconcileIndexedIntents)

-----------------------------------------------------------------------------

TypeOK ==
    /\ intent \in [Intents -> [status : Statuses, hasHash : BOOLEAN, byEvent : BOOLEAN]]
    /\ recorded \in Seq(Intents)
    /\ late \subseteq Intents /\ waited \subseteq Intents
    /\ row \in [Intents -> Nat]
    /\ tx \in [Intents -> [state : {"unsent", "pending", "included", "gone"},
                           block : Nat, fork : Nat, outcome : Outcomes]]
    /\ head \in Nat /\ safe \in Nat

(* A call of the escrow is shown as confirmed exactly as long as a canonical  *)
(* event says so: neither a receipt (nextIntentState) nor a reorganisation    *)
(* (reorg.ts:74) leaves an intent CONFIRMED without one.                      *)
ConfirmedOnEvent ==
    \A i \in Intents \ Approvals :
        intent[i].status = "CONFIRMED" => intent[i].byEvent /\ row[i] # 0

(* While receipts tell the truth in the end (Prompt, StableOutcome), a call     *)
(* whose hash was recorded and whose event is canonical is never given up: the *)
(* receipt the job read before the projection does not overwrite what the      *)
(* projection wrote (intents.ts:115).                                          *)
EventNotGivenUp ==
    \A i \in Intents :
        intent[i].hasHash /\ row[i] # 0 /\ tx[i].outcome = "done"
            => intent[i].status \in Live \cup {"CONFIRMED"}

(* What ended stays ended, and a confirmation is taken back only by the       *)
(* transaction that finds its event non-canonical.                            *)
EndsOnce ==
    [][\A i \in Intents :
          /\ intent[i].status \in {"FAILED", "EXPIRED", "DROPPED"} => intent'[i] = intent[i]
          /\ intent[i].status = "CONFIRMED" /\ intent'[i] # intent[i]
                => intent'[i].status = "SUBMITTED" /\ row'[i] = 0]_vars

(* Liveness: a recorded call whose event is canonical becomes CONFIRMED, also *)
(* when its hash was recorded after the event was projected, provided a batch *)
(* holds all rows.                                                            *)
LateHashConfirms ==
    \A i \in Intents :
        (row[i] # 0 /\ tx[i].outcome = "done" /\ intent[i].status \in Live)
            ~> (row[i] = 0 \/ intent[i].status = "CONFIRMED")

(* Liveness: no recorded hash is waited for forever without a receipt: the    *)
(* intent leaves SUBMITTED (intents.ts:72-83).                                *)
SubmittedMovesOn == \A i \in Intents : []<>(intent[i].status # "SUBMITTED")

(* The schema's comment on CONFIRMED, "Set only by the applier after the event *)
(* is folded, never from a receipt": no intent is confirmed without an event.  *)
ConfirmedOnlyByApplier ==
    \A i \in Intents : intent[i].status = "CONFIRMED" => intent[i].byEvent

(* The test "approval confirms only a successful receipt addressed to its     *)
(* token at or below finality": an approval shown as confirmed is on chain,   *)
(* at or below the safe block.                                                *)
ApprovalAtOrBelowFinality ==
    \A i \in Approvals :
        intent[i].status = "CONFIRMED"
            => tx[i].state = "included" /\ tx[i].outcome = "done" /\ tx[i].block <= safe

=============================================================================
