------------------------------- MODULE Delivery -------------------------------
(***************************************************************************)
(* The submissions of one funded issue: drafts the developer edits, the      *)
(* delivery hashes prepared from them for submitWork, the deliveries on       *)
(* chain, what the indexer makes of them and takes back when the chain is     *)
(* reorganised, and the client's requests for changes.                        *)
(*                                                                         *)
(* A manifest names its submission, so a delivery hash is a submission and a  *)
(* content.  The deadline of a delivery is left out: the web application      *)
(* reads the clock before its transaction, so a call may commit later, and    *)
(* the chain may refuse any transaction.                                      *)
(***************************************************************************)
EXTENDS Integers, Sequences, FiniteSets

CONSTANTS
    Submissions,    \* identifiers randomUUID may give
    Contents,       \* what a draft may say
    Foreign,        \* a delivery hash no draft has
    MaxTx, MaxReviews
                    \* bounds on deliveries sent and on reviews of a row

ASSUME DeliveryAssumption ==
    /\ Contents # {} /\ Foreign \notin Submissions \X Contents
    /\ MaxTx \in Nat /\ MaxReviews \in Nat

VARIABLES
    submission, \* submissions: status, content, onChainEventId, reviews so far
    prepared,   \* delivery hashes of the issue's submitWork intents
    funded,     \* the projection's phase is FUNDED
    external,   \* escrow_projections.externalDelivery
    projected,  \* canonical WorkSubmitted rows: transaction, row updated, undo snapshot
    onChain,    \* how many of them are still on the node's chain
    sent,       \* external: hashes of the submitWork transactions sent
    chain,      \* external: those included, in order
    final       \* external: how many of them cannot be reorganised out

webVars == <<submission, prepared>>
chainVars == <<sent, chain, final>>
vars == <<submission, prepared, funded, external, projected, onChain, sent, chain, final>>

Statuses == {"NONE", "DRAFT", "SUBMITTED", "SUPERSEDED"}
Hashes == Submissions \X Contents
NoRow == [status |-> "NONE", content |-> CHOOSE c \in Contents : TRUE, event |-> 0, review |-> 0]

Exists(s) == submission[s].status # "NONE"
HashOf(s) == <<s, submission[s].content>>

(* submission.findFirst by delivery hash *)
Matching(h) == {s \in Submissions : Exists(s) /\ HashOf(s) = h}
UnderReview == {s \in Submissions : submission[s].status = "SUBMITTED"}

UpToDate == onChain = Len(projected)

-----------------------------------------------------------------------------
(* The web application *)

Draft(content) == [status |-> "DRAFT", content |-> content, event |-> 0, review |-> 0]

(* createSubmissionDraft without submissionId, or with one whose hash is prepared: *)
(* the prepared draft stays as it is                                             *)
CreateDraft(s, content) ==
    /\ funded /\ ~Exists(s)
    /\ submission' = [submission EXCEPT ![s] = Draft(content)]
    /\ UNCHANGED <<prepared, funded, external, projected, onChain, chainVars>>

(* Mutant: a draft is edited in place although its hash was prepared *)
EditableAnyDraft(s) == submission[s].status = "DRAFT"

Editable(s) == submission[s].status = "DRAFT" /\ HashOf(s) \notin prepared

EditDraft(s, content) ==
    /\ funded /\ Editable(s)
    /\ submission' = [submission EXCEPT ![s].content = content]
    /\ UNCHANGED <<prepared, funded, external, projected, onChain, chainVars>>

PrepareSubmitWork(s) ==
    /\ funded /\ submission[s].status = "DRAFT"
    /\ prepared' = prepared \cup {HashOf(s)}
    /\ UNCHANGED <<submission, funded, external, projected, onChain, chainVars>>

HashAt(n) == sent[projected[n].tx]

Reviewable(s) ==
    /\ funded /\ s \in UnderReview
    /\ projected # <<>> /\ HashAt(Len(projected)) = HashOf(s)

RequestChanges(s) ==
    /\ Reviewable(s) /\ submission[s].review < MaxReviews
    /\ submission' = [submission EXCEPT ![s].review = @ + 1]
    /\ UNCHANGED <<prepared, funded, external, projected, onChain, chainVars>>

-----------------------------------------------------------------------------
(* External: the chain.  A transaction that was reorganised out may come back, *)
(* with the same event identity (chain, contract, transaction, log).           *)

(* a hash that was prepared, that of a draft which may still be edited, or another *)
SubmitWork(h) ==
    /\ Len(sent) < MaxTx
    /\ h \in prepared \cup {Foreign} \cup {HashOf(s) : s \in {d \in Submissions : Exists(d)}}
    /\ sent' = Append(sent, h)
    /\ UNCHANGED <<webVars, funded, external, projected, onChain, chain, final>>

Included == {chain[n] : n \in DOMAIN chain}

Include(t) ==
    /\ t \in DOMAIN sent \ Included
    /\ chain' = Append(chain, t)
    /\ UNCHANGED <<webVars, funded, external, projected, onChain, sent, final>>

Reorganise(n) ==
    /\ n >= final /\ n < Len(chain)
    /\ chain' = SubSeq(chain, 1, n)
    /\ onChain' = IF n < onChain THEN n ELSE onChain
    /\ UNCHANGED <<webVars, funded, external, projected, sent, final>>

Finalise ==
    /\ final < Len(chain)
    /\ final' = final + 1
    /\ UNCHANGED <<webVars, funded, external, projected, onChain, sent, chain>>

-----------------------------------------------------------------------------
(* The indexer *)

(* captureWorkUndo: rows under review and the row that matches *)
Captured(h) == UnderReview \cup Matching(h)
Snapshot(h) == [s \in Captured(h) |-> submission[s]]

(* applyWorkSubmitted; the row it matches may have any status *)
ApplyWorkSubmitted(h, t) ==
    [s \in Submissions |->
        IF s \in Matching(h) THEN [submission[s] EXCEPT !.status = "SUBMITTED", !.event = t]
        ELSE IF s \in UnderReview THEN [submission[s] EXCEPT !.status = "SUPERSEDED"]
        ELSE submission[s]]

(* projectLog of a WorkSubmitted; chain_events keeps the snapshot *)
ProjectWork ==
    /\ funded /\ UpToDate /\ onChain < Len(chain)
    /\ LET t == chain[onChain + 1]
           h == sent[t]
       IN  /\ submission' = ApplyWorkSubmitted(h, t)
           /\ external' = (Matching(h) = {})
           /\ projected' = Append(projected, [tx |-> t, rows |-> Matching(h), undo |-> Snapshot(h)])
    /\ onChain' = onChain + 1
    /\ UNCHANGED <<prepared, funded, chainVars>>

(* an event of another kind takes the escrow out of FUNDED, or is undone *)
PhaseChanges ==
    /\ funded' = ~funded
    /\ UNCHANGED <<webVars, external, projected, onChain, chainVars>>

(* the projections after the first n that touched s *)
Touching(s, n) == {k \in (n + 1)..Len(projected) : s \in DOMAIN projected[k].undo}

Earliest(ks) == CHOOSE k \in ks : \A j \in ks : k <= j

(* Mutant: only the last snapshot is put back *)
RowAtLatest(s, n) ==
    IF Touching(s, n) = {} THEN submission[s]
    ELSE LET was == projected[CHOOSE k \in Touching(s, n) : \A j \in Touching(s, n) : j <= k].undo[s]
         IN  [submission[s] EXCEPT !.status = was.status, !.event = was.event]

(* row s once every projection after the first n is undone, newest first *)
RowAt(s, n) ==
    IF Touching(s, n) = {} THEN submission[s]
    ELSE LET was == projected[Earliest(Touching(s, n))].undo[s]
         IN  [submission[s] EXCEPT !.status = was.status, !.event = was.event]

(* Mutant: the client's review is not looked at *)
ReviewUnchangedIgnored(s, was) == TRUE

ReviewUnchanged(s, was) == submission[s].review = was.review

(* Mutant: a row the delivery superseded makes the undo throw *)
UndoAcceptsTargetOnly(k) ==
    \A s \in DOMAIN projected[k].undo :
        /\ ReviewUnchanged(s, projected[k].undo[s])
        /\ RowAt(s, k).status = "SUBMITTED" /\ RowAt(s, k).event = projected[k].tx

(* the checks of undoWork when it comes to projection k *)
UndoAccepts(k) ==
    \A s \in DOMAIN projected[k].undo :
        LET was == projected[k].undo[s]
            current == RowAt(s, k)
        IN  /\ ReviewUnchanged(s, was)
            /\ \/ current.status = "SUBMITTED" /\ current.event = projected[k].tx
               \/ current.status = "SUPERSEDED" /\ was.status = "SUBMITTED"
                  /\ current.event = was.event

(* Mutant: the rebuild leaves the flag of the last delivery projected *)
ExternalAfterKept(n) == external

(* rebuildEscrowProjection looks for a matching row again *)
ExternalAfter(n) == n > 0 /\ Matching(HashAt(n)) = {}

Rewound == SubSeq(projected, 1, onChain)

(* handleReorg: one transaction, which fails as a whole when one undo throws *)
HandleReorg ==
    /\ ~UpToDate
    /\ \A k \in (onChain + 1)..Len(projected) : UndoAccepts(k)
    /\ submission' = [s \in Submissions |-> RowAt(s, onChain)]
    /\ external' = ExternalAfter(onChain)
    /\ projected' = Rewound
    /\ UNCHANGED <<prepared, funded, onChain, chainVars>>

-----------------------------------------------------------------------------

Init ==
    /\ submission = [s \in Submissions |-> NoRow]
    /\ prepared = {}
    /\ funded = TRUE /\ external = FALSE
    /\ projected = <<>> /\ onChain = 0
    /\ sent = <<>> /\ chain = <<>> /\ final = 0

Web(s) == (\E c \in Contents : CreateDraft(s, c) \/ EditDraft(s, c))
          \/ PrepareSubmitWork(s) \/ RequestChanges(s)

Chain == (\E h \in Hashes \cup {Foreign} : SubmitWork(h)) \/ (\E t \in 1..MaxTx : Include(t))
         \/ (\E n \in 0..MaxTx : Reorganise(n)) \/ Finalise

Indexer == ProjectWork \/ HandleReorg \/ PhaseChanges

Next == (\E s \in Submissions : Web(s)) \/ Chain \/ Indexer

Spec == Init /\ [][Next]_vars

(* the indexer's tick comes every INDEXER_POLL_MS *)
LiveSpec == Spec /\ WF_vars(HandleReorg)

-----------------------------------------------------------------------------

Row == [status : Statuses, content : Contents, event : Nat, review : Nat]

TypeOK ==
    /\ submission \in [Submissions -> Row]
    /\ prepared \subseteq Hashes
    /\ funded \in BOOLEAN /\ external \in BOOLEAN
    /\ DOMAIN projected = 1..Len(projected)
    /\ \A n \in DOMAIN projected :
          /\ projected[n].tx \in DOMAIN sent /\ projected[n].rows \subseteq Submissions
          /\ DOMAIN projected[n].undo \subseteq Submissions
          /\ \A s \in DOMAIN projected[n].undo : projected[n].undo[s] \in Row
    /\ sent \in Seq(Hashes \cup {Foreign})
    /\ chain \in Seq(1..MaxTx)
    /\ onChain \in 0..Len(projected) /\ final \in 0..Len(chain)

(* A delivery hash that was prepared, and so may be sent at any later moment,  *)
(* always has the draft it was computed from (draft.module.ts:79): a delivery  *)
(* the application prepared is never taken for an external one.                *)
PreparedKept == \A h \in prepared : Matching(h) # {}

DeliveriesOf(s) == {n \in DOMAIN projected : s \in projected[n].rows}

(* After any deliveries, resubmissions, reorganisations and undos, the rows     *)
(* say what the canonical events say: the row of the last one is under review,  *)
(* a row delivered earlier is superseded, any other is a draft.                *)
StatusFollowsChain ==
    \A s \in Submissions : Exists(s) =>
        submission[s].status =
            CASE DeliveriesOf(s) = {} -> "DRAFT"
              [] Len(projected) \in DeliveriesOf(s) -> "SUBMITTED"
              [] OTHER -> "SUPERSEDED"

(* A delivery shown as external has no row under review, also after a rebuild  *)
(* computed the flag again (rebuild.ts:37): the client is not asked to review  *)
(* an earlier row for it.                                                      *)
ExternalNotReviewed == external => UnderReview = {}

(* A request for changes is never left on a row the rewind made a draft again:  *)
(* undoWork stops instead (undo.ts:68).                                        *)
ReviewOnDelivery ==
    \A s \in Submissions : submission[s].review > 0
        => submission[s].status \in {"SUBMITTED", "SUPERSEDED"}

(* the client's review of a row changed since a lost delivery was projected *)
LostDeliveryReviewed ==
    \E k \in (onChain + 1)..Len(projected) : \E s \in DOMAIN projected[k].undo :
        submission[s].review # projected[k].undo[s].review

(* Liveness: the only check of undoWork that can hold up a rewind is the one    *)
(* meant to, that the client reviewed a row since (undo.ts:68).                *)
RewindCompletes == ~UpToDate ~> (UpToDate \/ LostDeliveryReviewed)

=============================================================================
