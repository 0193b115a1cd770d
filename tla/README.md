# Bloody-Roar in TLA+

Bloody-Roar is a bounty marketplace whose principals are held by a Solidity escrow. A client posts
an issue, selects a developer, deposits USDC into the contract, and the contract alone decides,
from deliveries, settlements, rulings and deadlines, who may claim what. A worker follows the
contract's events and keeps the database that the web application shows and acts on. These modules
model that core, check it with TLC on small instances and prove part of it with TLAPS for every
instance. Paths below are relative to the repository root.

## 1. The system

| Component | State | Operations | Hard behaviour |
| --- | --- | --- | --- |
| Escrow contract, `apps/contracts/contracts/BloodyRoarEscrow.sol` | escrow, settlement and dispute records, `claimable`, two running totals, the token balance | `deposit` ... `claim`, one resolution per escrow through `_resolve` | windows that must meet to the second; silent parties; rounding; overlapping payees |
| Roles and pause, same file :494-546 | owner, arbiter, fee recipient, each with a pending successor; pause flag | propose, accept, pause | handovers interleave; roles change during a bounty |
| Shared arithmetic and fold, `packages/shared/src` | none (pure) | `splitPayout`, `foldEscrowEvent` | must draw every line where the contract draws it |
| Indexer, `apps/worker/src/indexer` | `chain_events`, `escrow_projections`, `projection_checkpoints` | scan, handle a reorganisation, replay | reorganisations between RPC calls, refused ranges, crashes, two workers |
| Effects, `apps/worker/src/effects`, `indexer/undo.ts` | issues, reservations, balances, submissions, disputes, proposals, rulings | one per event, with an undo snapshot | undo after others changed the rows; one throw stops the indexer |
| Issues, applications, reservations, `apps/web/src/graphql/modules/{issue,application,escrow}` | rows at READ COMMITTED | apply, withdraw, reject, select, cancel, expire, ban | read-then-write handlers, late and differing deposits |
| Intents, `escrow/intent.module.ts`, `apps/worker/src/reconciler/intents.ts` | `transaction_intents` | prepare, record the hash, expire, confirm, drop | wallet, browser, job and indexer do not wait for each other |
| Submissions, `modules/submission` | `submissions`, reviews | draft, prepare, deliver, request changes | a draft edited while its hash is signed; deliveries taken back |
| Dispute rows, `modules/dispute`, `effects/dispute.ts`, `resolved.ts` | `disputes`, `settlement_proposals`, `ruling_records`, `evidence_manifests` | one per event; evidence saved before it is announced | snapshots taken at different events, undone in the reverse order |
| Availability, `apps/web/src/lib/escrow`, prepare mutations, `jobs/deadlines.ts` | none of its own but notices sent | show an action, prepare a call, tell of a deadline | the contract's windows drawn a second and a third time |
| AI analysis of disputes, `modules/dispute/dispute.module.ts`, `apps/web/src/ai` | a claim with a lease on the dispute row, `AILog` | claim, ask providers in turn, store | a lease that expires under its owner; rows deleted meanwhile |
| Runtime, `apps/worker/src/runtime` | advisory lock, timers | polling | lost lock |
| Authentication, chat, uploads, user interface, deployment | | | not modelled, section 6 |

The contract emits one event per call; the indexer reads them with `eth_getLogs`, folds them into a
projection per escrow and applies effects to other tables in the same transaction; the reconciler
compares projection and contract at the safe head. The web application writes issues, applications,
reservations, drafts and intents in its own transactions, so the worker and the web race on the same
rows. Users' wallets call the contract directly, with calls the application prepared or others.

What makes each correct: the contract divides a principal once, among the payees fixed at deposit,
with an outcome its process allows, and never strands it; the fold accepts every sequence of the
contract and ends in its state; the indexer's projection is the fold of exactly the chain it has
caught up with; the rows of other tables are those the canonical events alone would have given; an
intent is confirmed exactly while its event is canonical; a user is shown, and given to sign, exactly
what the contract would accept. `PROJECT.json` lists every component with its status, and under
"hazards" what is hard to test, line by line.

## 2. Modules

| Module | Models | Composition |
| --- | --- | --- |
| `EscrowRoles` | the three roles and the pause switch | |
| `Payout` | `Math.mulDiv` by basis points and the three shares of `_resolve` | |
| `BloodyRoarEscrow` | the whole contract | EXTENDS `EscrowRoles`, `Payout` |
| `EscrowPromise` | abstract: a principal is held, divided once, withdrawn | |
| `EscrowRefinement` | the refinement mapping of the contract to the promise | INSTANCE `EscrowPromise` |
| `EscrowAccounts` | the contract's books: sums over escrows and addresses | EXTENDS `BloodyRoarEscrow` |
| `MCEscrow` | instances of the contract, fairness | EXTENDS `EscrowRefinement`, `EscrowAccounts` |
| `EscrowFold` | `foldEscrowEvent`: its checks and its next state | |
| `EscrowMirror`, `MCMirror` | contract and fold side by side, balances, the reconciler's view | EXTENDS `BloodyRoarEscrow`, INSTANCE `EscrowFold` |
| `Indexer` | scanner, reorg handler, replay, over an external node | |
| `Funding`, `MCFunding` | one issue from open to funded, web and worker | |
| `Intents` | an intent between wallet, browser, intents job, indexer and chain | |
| `Delivery` | drafts, deliveries, reviews and their undo | |
| `Disputes` | the rows kept of an escrow from funded to paid, and their undo | |
| `Availability`, `MCAvailability` | prepare mutations, what is shown, the deadline job, over an index that lags | EXTENDS `BloodyRoarEscrow`, `MCEscrow` |
| `Analysis` | `analyzeDispute`: lease, provider chain, final update, log | |
| `EscrowProofs`, `MirrorProofs`, `IndexerProofs`, `FundingProofs`, `IntentsProofs`, `DeliveryProofs`, `DisputesProofs`, `AnalysisProofs` | theorems, section 4 | each EXTENDS the modules it is about: `EscrowProofs` those of the contract, `MirrorProofs` also `Availability` |

How state and actions correspond to the code:

- **Contract.** A variable per storage mapping or counter; `balance` is the token balance the
  contract's own calls produce, `paid` and `resolved` are the `Claimed` and `EscrowResolved` logs.
  One action per external function; `require`s and custom errors are conjuncts, so a revert is a
  disabled action. `Resolve` is `_resolve`, checked subtraction included, and ends with
  `_assertSolvent`. `finalizeRuling` is two actions, one per phase it serves. `Tick` moves
  `block.timestamp`; any number of calls share a timestamp.
- **Fold.** `Acceptable` gathers the checks of every `case`, `Folded` the state after it,
  `ResolutionPossible` and `ResolutionTerms` are `resolutionTerms`. A throw is the value `Rejected`.
- **Indexer.** A worker's tick is split at its RPC calls (`DetectReorg`, `CollectStale`,
  `ReadTarget`, `GetLogs`, `GetBlocks`) and its transactions (`Rewind`, `CommitScan`). What it read
  is in `worker[w]`; a crash or an error (`Abort`) forgets it. `lockCheckpoint` is
  `CheckpointUnchanged`. `effects` are the rows of other tables, and each event row keeps the
  snapshot its undo puts back.
- **Funding.** A handler that reads, then writes, is two actions with its request in `request`; a
  conditional `updateMany` or a serializable transaction that writes the row it read is one.
  The worker's transactions read at READ COMMITTED too, so their statements are steps between which
  others commit: `captureDepositUndo` reads the reservation (`CaptureDepositUndo`), the issue
  (`CaptureIssue`) and the applications (`CaptureApplications`), `applyFunded` reads again
  (`LoadReservation`) and writes (`AcceptDeposit`, `MarkMismatch`); `undoDeposit` reads and checks the
  reservation, the issue and the applications (`UndoReservation`, `UndoIssue`, `UndoApplications`) and
  writes them back unconditionally (`UndoDeposit`). A throw is `AbortProjection`.
- **Intents.** A transaction, its call and the one event it emits are one name; `fork` counts its
  inclusions, as block hashes do. `recorded` is the order of `submittedAt`. `reconcileIntents` is
  split at its reads: `SelectIntent` (the row), `GetReceipt`, `UpdateIntent` (the safe head and the
  conditional update). `reconcileIndexedIntents`, under the checkpoint's lock, is one action.
- **Delivery.** A delivery hash is a submission and a content, since the manifest names its
  submission. `projected` holds the canonical `WorkSubmitted` rows with the snapshot of
  `captureWorkUndo`; `RowAt` and `UndoAccepts` are the repeated `undoWork` of a rewind, which is one
  transaction and fails as a whole.
- **Disputes.** `MayFollow` is the contract, reduced to the order of its events and their shares;
  `Accepts` gathers the throws of the effects, `Apply` what they write, `Undo` what is put back, with
  `Stuck` for a throw. Every event goes through both. Evidence is a map from the hashes of manifests
  to the event each is attached to: `Attach` moves the manifest with an event's hash onto the event,
  whichever party saved it and whatever it was attached to, and an event with another hash attaches
  nothing; `Detached` puts it back where the snapshot had it. `CreateEvidenceManifest` may save at any
  time: its window is checked before the files are stored, no lock is held in between, and an escrow
  begins in the phase FUNDED, where both parties pass the check.
- **Availability.** `indexed` is the projection, any number of events old. `Prepared` has the checks
  of each prepare mutation, `AvailableActions` and `ViewerCapabilities` what is shown, `Accepts` and
  `AcceptsExit` whether the contract's own action is enabled. `told` has the notices by the key they
  are stored under.
- **Analysis.** One program counter per request. `Claim` is the conditional update that takes the
  lease, `HeldBy` the where clause of the updates that end it, `Log` the finally clause; `UndoRaised`
  and `Raise` are the indexer deleting and creating the row.

## 3. Runs

| Run | Instance | Shows |
| --- | --- | --- |
| `escrow_lifecycle` | one bounty and its projection, time to 13, calls until 6, shares 0, 33 %, 100 % and one above, the client's, developer's, arbiter's and owner's token accounts refusing | `TypeOK`, `PrincipalFullyAllocated`, `OutcomeMatchesProcess`, `WindowsMeet`, `NoStranding`, `TermsFrozen`; `FoldAcceptsChain`, `ProjectionMatchesChain`, `BalancesMatchChain` |
| `escrow_accounting` | two bounties, clients and developers that overlap with each other and with the old and the new fee recipient | `FullyBacked`, `TotalsMatch`, `CreditsFollowResolutions`, and the refinement `KeepsPromise` |
| `escrow_handover` | one bounty, every role handed over, deposits paused, two recipients refusing transfers | `RolesDistinct`, `EventuallyResolved`, `CreditsGetPaid` |
| `indexer` | one worker, both finalities, two events, three blocks high and five mined, ticks that fail anywhere, a replay under safe, reorganisations between ticks under latest | `CaughtUpMeansAgreement`, `EffectsFollowProjection`, `CatchesUp` |
| `funding` | two developers, two selections | `HeldExactlyWhileReserved`, `FundedExactlyInProgress`, `CancelledForGood` |
| `intents` | an escrow call and an approval, two blocks, two inclusions of each | `ConfirmedOnEvent`, `EventNotGivenUp`, `EndsOnce`, `LateHashConfirms` |
| `delivery` | two drafts of two contents and a foreign hash, two deliveries, one review of each row | `PreparedKept`, `StatusFollowsChain`, `ExternalNotReviewed`, `ReviewOnDelivery`, `RewindCompletes` |
| `disputes` | every course of up to six events, any suffix taken back and replaced, shares 0 and half, one manifest | `RowsFollowEvents`, `NeverStuck`, `ShownAsDecided` |
| `availability` | one bounty, windows of one and two seconds, calls until 2 and time to 4, an index any number of events behind | `PreparedExactlyAccepted`, `ShownExactlyPrepared`, `OpenExitTold` |
| `analysis` | three requests, two providers, a deadline of 1 and a lease of 2, a row deleted and created again | `OneAsksAtATime`, `LogTellsReport`, `ReportsInOrder` |
| `indexer_midtick`, `funding_cancel` | the assumption of a passing run dropped | violations, section 5 |

What each property says stands above its definition. The deepest ones: `OutcomeMatchesProcess` tells
from the dispute's record alone which resolution its history calls for; `WindowsMeet` and
`NoStranding` say that in the second in which an actor's window ends anybody's exit opens, and that
after the last deadline anybody can end it; `ProjectionMatchesChain` compares two implementations of one state machine;
`CaughtUpMeansAgreement` relates a cursor to a chain that changed while it was written;
`RowsFollowEvents` compares rows after any history of undo and redo with those of an indexer that saw
the canonical events only; `PreparedExactlyAccepted` is an equivalence of two sets of guards, in both
directions.

Bounds and why they suffice. In `escrow_lifecycle` all discretionary calls happen up to `Horizon`,
late enough for each to fall before, on and after the boundary of the window it is about, and time
runs on until the longest dispute has passed its last deadline. The periods are small but differ
where their order matters (evidence shorter than stall). Amounts were chosen so that both divisions
leave a remainder. Two escrows are enough for sums and overwritten credits, two events of one escrow
for order and repetition, a fork two blocks deep for undoing in order, two selections for a late
deposit against a newer hold, two deliveries for one that supersedes the other and is taken back, six
events for a dispute that is challenged, ruled on again and resolved or for one with a settlement
opened before it, one manifest for the two events that may carry its hash (a manifest is a row of its
own, touched by events with its hash only), three requests for a claim taken over twice. In
`availability` the windows are as short as they can be while evidence stays shorter than stall: an
off-by-one shows at their ends, and settlements
are proposed on one share only, which neither the application nor the contract looks at when one is
accepted. `CHECK_DEADLOCK FALSE` is set where the bounds (clock, blocks mined, selections,
transactions, requests) end the behaviour.

Symmetry: escrow ids in `escrow_accounting` and developers in `funding`. Neither run checks
liveness.

Fairness, where a run has it:

- `escrow_handover`: timestamps advance, and a permissionless exit or a claim that stays possible is
  eventually made by somebody (anyone may call them, including the payee); no party, no arbiter and no
  owner is obliged to do anything.
- `indexer`: the job runs every 4 s, so a step that is possible again and again is taken (strong
  fairness, since a failing tick starts over), an unfinished tick ends, and the safe block follows
  the head.
- `intents`: `reconcileIndexedIntents` is run again, every 15 s (weak fairness of that action alone).
- `delivery`: the indexer's tick, which handles a reorganisation first, is run again.
- `availability`: blocks are mined, the worker indexes and runs its deadline job (every 60 s); nobody is obliged to call the contract.

Configurations beside these, each checked with `tlc -config X.cfg M`: `indexer_workers` (two workers,
one of which lost its lock; holds), `intents_live` (every submitted intent moves on, with the whole
job fair; holds), and those that section 5 tells of.

## 4. Proofs

All for every value of the constants under their ASSUMEs: `AddrAssumption`, `BpsAssumption`,
`EscrowAssumption` (amounts are positive, shares natural, periods positive, the evidence period
shorter than the stall period, the fee at most the whole), `MirrorAssumption` (the fold's null and its
throw are values of their own), `IndexerAssumption` (an
empty block is no event, ranges and the reorg window are not empty), `FundingAssumption` and
`DeliveryAssumption` (the values for no developer and for a foreign hash are none of the others),
`IntentsAssumption`, `DisputesAssumption`
(shares are parts of a positive whole, "none" is the hash of no manifest), `AnalysisAssumption` (the
chain of providers times out before the lease ends, as the timeouts of `model-router.ts` do against the five minutes of
`dispute.module.ts:192`). The bounds of the runs are constants too, so the theorems hold for any
number of escrows, events, forks, workers, selections and deliveries. What a theorem assumes beyond that stands
in its statement, and in the table.

| Module | Theorems | Assumes besides |
| --- | --- | --- |
| `EscrowProofs` | `MulBpsBounds`, `SharesAllocatePrincipal`, `FullRefundIsFree`, `TypeCorrect`, `AlwaysFullyBacked`, `TermsAlwaysFrozen`, `AlwaysFullyAllocated`, `OutcomeAlwaysMatchesProcess`, `RolesAlwaysDistinct`, `ContractKeepsPromise`; `TotalsAlwaysMatch`, `CreditsAlwaysFollow`, `NothingEverStrands` | nothing; finitely many escrows and addresses (on a chain they are) |
| `MirrorProofs` | `FoldAlwaysAccepts`, `ProjectionAlwaysMatches`, `BalancesAlwaysMatch`, `WindowsAlwaysMeet`, `ShownAlwaysPrepared`; `CallsAlwaysPrepared` | nothing; finitely many escrows and addresses |
| `IndexerProofs` | `AlwaysIndexerInv`, `AlwaysAgreement`, `AlwaysEffectsFollow` | `Deployment` |
| `FundingProofs` | `InductiveInvariant`, `AlwaysHeldExactly`, `AlwaysFundedExactly`; `CancelledStays` | `CancelAlone`, `ReorgsApart`, `CapturesApart`; also `UndosApart` |
| `IntentsProofs` | `IntentsTyped`, `ConfirmedMeansEvent`, `EndsOnceHolds`; `EventNeverGivenUp` | nothing; `Prompt`, `StableOutcome` |
| `DeliveryProofs` | `InductiveInvariant`, `PreparedAlwaysKept`, `StatusAlwaysFollows`, `ExternalNeverReviewed`, `ReviewAlwaysOnDelivery`, `RewindAlwaysPossible` | |
| `DisputesProofs` | `InductiveInvariant`, `RowsAlwaysFollow`, `NeverGetsStuck`; `TypeCorrect`, `AlwaysShownAsDecided` | nothing; `SavesApart` |
| `AnalysisProofs` | `TypeCorrect`, `AskingAlone`, `ReportsOrdered`, `LogTrue` | |

`Deployment`, `CancelAlone`, `ReorgsApart`, `CapturesApart`, `UndosApart`, `SavesApart`, `Prompt` and
`StableOutcome` are the assumptions the runs make too; section 5 says what each means. `Deployment` asks
nothing where the finality is safe; where it is latest, `QuietTicks` and no replay. Nothing in the code
enforces the ones about funding and evidence: they name the interleavings in which a lost update or a
mixed snapshot breaks the property, and section 5 shows each. The code relies on the last two (an intent
is given up 30 minutes after its hash was recorded, and nothing looks at it again).

The arguments:

- **The division.** Three natural parts that add up to the principal, whatever the rounding, from two
  lemmas on multiplication and division.
- **The contract.** The inductive invariant is `Inv == TypeOK /\ PhaseMarksExistence /\ FullyBacked`.
  `PhaseMarksExistence` (an escrow is in phase NONE exactly when its client is unset) is needed because
  the modifiers test the client while `_resolve` tests the phase. The proofs go over `StepCases`: all
  calls that resolve are one case (`ResolvingCalls`), all dispute calls another. On top of `Inv`:
  `TermsFrozen` step by step, `PrincipalFullyAllocated` from the division, and
  `OutcomeMatchesProcess`, whose strengthening `Course` says for each phase which dispute fields are
  set and how their times are ordered against the windows. `RolesAlwaysDistinct` is proved of
  `RolesSpec`, whose steps are the contract's `Governance`.
- **The promise.** `deposit` is a `Hold`, every resolving call a `Divide`, `claim` a `Withdraw`,
  everything else stutters.
- **The books.** `BooksInv` adds to `Inv` the two properties themselves and `DealsComplete` (an escrow
  that exists has all its payees, one that does not has no amount), without which a sum over all ids
  would count what was never deposited. The sums are folds over sets; that a sum does not
  depend on the order it picks elements in is proved by well-founded induction on finite subsets
  (`TotalRemove`), and from it that one changed term changes the sum by as much (`TotalChange`).
  Three payees may be one address or overlap in pairs: the shares are credited one after the other
  (`TotalCredited`). `NothingEverStrands` states with the guards what `NoStranding` states with
  ENABLED: past the longest course of a dispute (`LongDisputeExits`, from `Course`) an exit open to
  anyone is due, and neither the checked subtraction nor `_assertSolvent` can stop it, since
  the totals are the sums they stand for.
- **The mirror.** `MirrorInv` adds to `Inv` that time has begun, that the projection is typed and
  equals the view of the contract's records, and `Marks`: which dispute fields are set in which phase.
  `Marks` is what makes the fold's checks, which look at its own record, follow from the contract's
  guards. Lemmas `Fold...` fold one event on the view of a record, lemmas `...Mirrored` do one call
  each; one case covers all calls that resolve, whose terms the fold computes again and compares.
- **The indexer.** `IndexerInv` says that stored events were on some fork, each hash used once
  (`NodeOK`, `RowsOK`); that projection, effects and every undo snapshot list the canonical events, or
  those before the snapshot's, by block (`Listed`); that a cursor with no hash is at the start or under
  safe (`CursorOK`); that up to some block stored events and chain are the same and beyond it nothing
  stored is on the chain, and that the cursor is not beyond it unless its hash tells (`Fork`); and that
  what a worker has read is still so (`Reads`). The last part is where workers interleave: one about to
  rewind has read what is still stored (`Fresh`), or another's transaction came first and this one's
  will be refused, or mark and undo what is marked and undone already (`Spent`, `Repeats`), which
  changes no table because the last snapshot it puts back lists the same events. A set is listed in one
  way only (`ListUnique`), so the two sides of `EffectsFollowProjection` are equal. What the recursive
  functions of scan and rewind compute is proved by induction on a set of naturals
  (`NatSetInduction`), not on an operator.
- **Availability.** `WebInv` says what the projections of an index have in common however old they are
  (`Known`: fields that are typed, parties that differ); a case for each phase then compares what is
  shown with what can be prepared. For `CallsAlwaysPrepared` a call is split in what its guard says and what
  it performs; a guard holds of the senders the contract lets act, and where a call resolves the
  checked subtraction passes because a principal is part of the total (`PrincipalInTotal`).
- **Funding.** The invariant says when issue, reservations, deposits and the worker agree, among it
  that at most one reservation is active or funded (`OneActive`), that only the newest waits, that what
  the worker captured in its successive reads goes together and is still so where its writes rely on it
  (`WorkerCaptured`, `WorkerAgrees`), and what undoing the newest deposit puts back (`LastAgrees`).
  TLC finds `FundedExactlyInProgress` to hold without `CapturesApart` as well, in the instance of
  `funding`; the theorem assumes it because the invariant it rests on does not.
- **Intents.** The intent the job has read but not written was still open (`ReadsOpen`), so that
  its conditional update never writes over an end or a confirmation, and a confirming event goes with
  the status. For `EventNotGivenUp`, `TruthInv` says that what the job holds is true of the chain when
  it writes, although it read before: a receipt found failed stays failed, one that is missing is not of
  an intent that has waited.
- **Deliveries.** A row's status is a function of the canonical deliveries (`StatusFollowsChain`), and so is
  what each snapshot holds; the undo of a lost delivery therefore finds the row as its snapshot's event
  left it, unless the client reviewed it. `RewindAlwaysPossible` is the safety that the liveness
  `RewindCompletes` rests on.
- **Dispute rows.** The invariant holds of every prefix of the projected events, not only of all of them:
  each snapshot is the rows that the events before it gave (`Linked`), and those rows and the contract
  agree on the open proposal, the rulings, the dispute and the balances (`Agrees`). `Undone`: an effect
  followed by its undo is the identity on rows an event was accepted on. `StillAgrees` and
  `EffectPasses`: from rows that agree, an event the contract lets happen is accepted and leaves rows
  that agree. `RowsAreFold` and `RewoundRows` unfold the two recursive functions with the snapshots as
  witnesses, by the least number for which they would differ. Where a manifest hangs is a function of
  the events projected: after the first n of them, on the last that carries its hash and found it saved
  (`Hangs`; there is one such place, `HangsOnce`). `EvidenceHangs` says so of the manifests and of what
  each snapshot holds of them; an event moves one manifest (`AttachHangs`), and undoing it moves that
  one back to where the events before it had it (`DetachedHangs`, `RewoundHangs`).
- **Analysis.** A running request within its lease holds the row (`Held`), two that run about one row
  claimed it a lease apart (`Apart`), and the stored report is older than the claim that stands
  (`ReportSound`).

Only model-checked:

- liveness (`EventuallyResolved`, `CreditsGetPaid`, `CatchesUp`, `LateHashConfirms`,
  `RewindCompletes`, `OpenExitTold`): out of the prover's reach;
- `WindowsMeet`, `NoStranding` and `PreparedExactlyAccepted` as they stand, since they say with ENABLED
  that a call is possible. `WindowsAlwaysMeet`, `NothingEverStrands` and `CallsAlwaysPrepared` say the
  same with the guards. That the guards are those of the actions is proved in the last of them; TLC
  checks the ENABLED forms.

## 5. What the violated runs show

Each is a place where the code does something else than a document, comment or test of the repository
says; `PROJECT.json` quotes the lines under "findings".

| Configuration (module) | Violated | What happens |
| --- | --- | --- |
| `indexer_midtick` (`Indexer`) | `CaughtUpMeansAgreement` | With `FINALITY=latest`, `scanOnce` reads logs, then the hash of the last block. A reorganisation in between leaves the cursor on the new fork's hash with the old fork's (empty) logs, and the new fork's event is never read. |
| `indexer_replay` (`Indexer`) | `CaughtUpMeansAgreement` | After `requestReplay` the checkpoint has no hash; with `FINALITY=latest` a reorganisation below it before the next scan is never noticed. |
| `funding_cancel` (`Funding`) | `FundedNotCancelled` | `cancelIssue` reads OPEN and later updates unconditionally; a selection and a deposit in between end as a cancelled issue with money in escrow, on which `applyResolved` throws. |
| `funding_capture` (`Funding`) | `HeldExactlyWhileReserved` | `cancelReservation` or the expiry job commits between the reads of the reservation and of the issue in `captureDepositUndo`: the snapshot has an active reservation and an open issue. The late deposit is accepted, reorganised away, and undone to just that. |
| `funding_overwrite` (`Funding`) | `CancelledForGood` | `undoDeposit` reads the issue without a lock and writes it back unconditionally: a `cancelIssue` or a ban of the client that commits in between is overwritten, and the cancelled issue is open again. |
| `funding_undo` (`Funding`) | `HoldEnds` | The snapshot of a late deposit may say AWAITING_FUNDING on behalf of a newer reservation. When that one ends, the deposit is accepted and is then reorganised away, the issue goes back to AWAITING_FUNDING with no reservation left to expire. |
| `intents_schema` (`Intents`) | `ConfirmedOnlyByApplier` | An approval is CONFIRMED from its receipt; the schema says this never happens. |
| `intents_approval` (`Intents`) | `ApprovalAtOrBelowFinality` | The receipt of an approval is read before the safe head: a reorganisation in between confirms one that is on no block. |
| `intents_batch` (`Intents`) | `LateHashConfirms` | Rows that can never match an event fill the batch of the 200 oldest (here 1), and a hash recorded late behind them is never confirmed. |
| `disputes_settled` (`Disputes`) | `DisputeResolvedOnChain` | A dispute that ends by settlement keeps the status it had. |
| `disputes_payout` (`Disputes`) | `ProjectionFollowsEvents` | The rebuild after a reorganised `EscrowResolved` leaves the amounts paid in the projection of an escrow that is open again. |
| `disputes_saved` (`Disputes`) | `AttachedToStanding` | A manifest saved after an event's snapshot was taken and before its evidence is attached is attached, but no snapshot knows it: after a reorganisation it stays attached to the lost event and to the dispute that was deleted. |
| `deadlines_early` (`MCAvailability`) | `NoticeMeansOpen` | The notice of a missed delivery is due in the second of the deadline, when `submitWork` is still accepted. |
| `deadlines_once` (`MCAvailability`) | `EveryMilestoneTold` | The second ARBITER_STALL milestone of an escrow has the key of the first and is not told of, when an index behind the chain let the first be told. |

The first and the third are runs of the project, the others are kept as configurations.

The passing runs state the assumptions these drop: `QuietTicks` (no reorganisation within a tick
under finality latest), no replay under finality latest, `CancelAlone`, `ReorgsApart` (only the
newest reservation's deposit is reorganised away, and it is undone before the next selection),
`CapturesApart` (a reservation is not cancelled and does not expire between a capture's reads of it and
of its issue), `UndosApart` (the issue does not change between an undo's read and its write of it),
`SavesApart` (no manifest is saved between a projection's snapshot of the manifests and its update of
them), `Prompt` (a recorded transaction is in a final block before the job gives it up after 30 minutes) and
`StableOutcome` (a transaction included again ends as it did), a batch that holds all rows.

## 6. Abstractions and what is left out

- Contract: direct token transfers to the contract are ignored (they only add to `balance`); the
  upper bound that `deposit` sets on a deadline against overflow (`:238`) is left out, as times are
  natural numbers here; a
  token account either accepts or refuses transfers (`Refusing`); string ids are model values;
  argument checks for zero hashes are the sets the arguments come from. In `escrow_lifecycle` and
  `availability` governance is frozen, in `escrow_accounting` only the fee recipient is handed over.
- Mirror: an event is folded at once (the fold depends on nothing else); of `applyResolved` only the
  credits.
- Indexer: one log per block, events of one escrow; a block number is a position; the safe head and
  the logs are read together, as are the hashes of a range; a fork has the height of the branch it
  replaces and is at most `ReorgWindow` deep (a deeper one is a documented limit, `reorg.ts:9`); a
  replay starts at a block the scanner has reached (the code accepts later ones, which skip blocks);
  undo functions do not throw here, their throws are in `Delivery` and `Disputes`.
- Funding: escrow keys are reservation numbers; a deposit's terms match or differ; expiry may come
  at any time after selection; the applications an undo restores are checked and restored together,
  though they are separate rows; a deposit is taken off the chain while the
  worker is between two events; edits, drafts and expiry dates of an issue
  are left out; the deadline and criteria checks of `selectDeveloper` are inputs that succeed.
  `banUser` is two actions, what it does as a client and what it does as a developer.
- Intents: one event per call; the argument checks of the prepare mutations are in `Availability`.
  Two inclusions stand for any number.
- Delivery: the deadline is left out (the web reads its clock before the transaction, and the chain
  may refuse); another event may take the escrow out of FUNDED and back at any time. A rewind over a
  row that the client reviewed since stops on purpose (`undo.ts:68`, `docs/plan/parallel/reports/CODEX.md:434`), and
  `RewindCompletes` allows for it.
- Disputes: the principal is in units, the fee in `EscrowMirror`; an event's position stands for its
  transaction; no second escrow shares the balances; party rows exist, as registration precedes any
  prepared call (the throws of `dispute.ts:31` and `:49` for a wallet that belongs to no user are left
  out). The ruling of a resolution is looked up by its decision hash, the latest by block time
  (`resolved.ts:43`); here the last ruling is taken, so two rulings with one hash in one second, a tie
  that the code leaves to the database, are decided by their order. Since a manifest is found by its
  hash alone, an event of the other party that repeats the hash moves it; the model does the same.
- Availability: the escrow is one linked to an issue. A projection of a foreign or mismatched deposit
  has none: every prepare mutation refuses it (`release.module.ts:56`) though the contract would accept
  the call, and the deadline job passes it over (`deadlines.ts:96`), so nobody is told of its exits.
  The deadline job's clock is `block.timestamp`; nobody claims, as a claim changes no escrow.
- Analysis: the timer of the chain fires on time; `aiRateLimit`, prompts and the format of answers are
  left out.

Not modelled, and why:

- Authentication: one-use login challenges, deleted by a single conditional statement; the rest is
  cryptography and cookies.
- Chat and realtime: messages pushed to browsers that refetch when they reconnect; no escrow state.
- Notifications, reputation, reviews, analytics: rows written once or summaries read by nobody's
  guard. Cleanup is a sweep of expired rows, contract configuration a comparison at start, alerts a
  web request.
- Uploads, GitHub webhooks, RPC transport, log decoding: input and output.
- The wallet client and user interface: any order of calls by anybody is already in the model of the
  contract, and what is shown comes from `availableActions`.
- Mock tokens, deployment, seeds, demo and test scripts, generated types.

Most lines of the repository are in the last two groups: pages and components, generated GraphQL and
contract types, seeds and scripts hold no protocol state. What has concurrency, time, money or undo
is a small part of the code, and it is that part which the modules cover.

## 7. Plan

Done, in this order: the contract and its roles; the promise and the refinement; the fold and the
mirror; the indexer; funding; proofs about the contract; intents; deliveries; dispute rows;
availability and deadlines; analysis; proofs about the mirror, intents and analysis; proofs about the
contract's books, deliveries, funding, intents given up, and dispute rows; proofs about the indexer and
availability.

Left: one module that joins the throws of undo, now in `Delivery` and `Disputes`, to the indexer's
tick.
