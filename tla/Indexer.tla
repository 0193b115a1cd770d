------------------------------- MODULE Indexer -------------------------------
(***************************************************************************)
(* apps/worker/src/indexer: the scanner, the reorg handler and the replay   *)
(* command that keep the projection of an escrow equal to what the chain    *)
(* says.  The node's chain moves on between any two RPC calls; a worker     *)
(* that lost its advisory lock may still be running beside its successor.   *)
(*                                                                         *)
(* An event stands for one log of one escrow, at most one per block, so a   *)
(* block number is its position.  Folding is abstracted to the sequence of  *)
(* events folded, rejecting a repeated one; EscrowFold has the real fold.   *)
(***************************************************************************)
EXTENDS Integers, Sequences, FiniteSets, SequencesExt

CONSTANTS
    Workers,        \* worker processes
    Events,         \* logs of the escrow, identified by (txHash, logIndex)
    NoEvent,        \* a block without one
    Finalities,     \* the values of FINALITY: "safe", "latest"
    RangeSize,      \* INDEXER_RANGE_SIZE
    ReorgWindow,    \* INDEXER_REORG_WINDOW
    Replayed,       \* the values of FINALITY with which the operator replays
    QuietTicks,     \* TRUE: with finality latest, the chain does not reorganise during
                    \* a worker's tick
    MaxHeight, MaxMined, MaxReplays     \* bounds on the environment

ASSUME IndexerAssumption ==
    /\ NoEvent \notin Events
    /\ Finalities \subseteq {"safe", "latest"} /\ Replayed \subseteq Finalities
    /\ {RangeSize, ReorgWindow} \subseteq Nat \ {0}
    /\ QuietTicks \in BOOLEAN
    /\ {MaxHeight, MaxMined, MaxReplays} \subseteq Nat

VARIABLES
    finality,   \* FINALITY, fixed when the worker is deployed
    chain,      \* external: the node's canonical blocks above the deploy block
    safe,       \* external: height of the node's safe block
    mined,      \* external: blocks mined so far on any fork; a block's hash
    rows,       \* chain_events, by event
    projection, \* escrow_projections: the events folded into it, in order
    effects,    \* the effects standing on other tables, in the order applied
    checkpoint, \* projection_checkpoints
    worker,     \* what each worker has read since its tick began
    replays     \* replays requested so far

chainVars == <<finality, chain, safe, mined>>
dbVars == <<rows, projection, effects, checkpoint>>
vars == <<chainVars, dbVars, worker, replays>>

Hash == 0..MaxMined     \* 0 is the block before the deploy block
Unset == -1             \* lastCanonicalBlockHash = ""

NoRow == [block |-> 0, hash |-> 0, canonical |-> FALSE, undo |-> <<>>]
Idle == [pc |-> "idle"]

-----------------------------------------------------------------------------
(* External: the node *)

HashAt(n) == IF n \in DOMAIN chain THEN chain[n].hash ELSE 0
EventsOn(c) == {c[n].event : n \in DOMAIN c} \ {NoEvent}
SafeHead == IF finality = "latest" THEN Len(chain) ELSE safe

MayReorganise ==
    QuietTicks /\ finality = "latest" => \A w \in Workers : worker[w] = Idle

Mine(event) ==
    /\ Len(chain) < MaxHeight /\ mined < MaxMined
    /\ event \notin EventsOn(chain)
    /\ chain' = Append(chain, [hash |-> mined + 1, event |-> event])
    /\ mined' = mined + 1
    /\ UNCHANGED <<finality, safe, dbVars, worker, replays>>

(* The node switches to a fork of the same height that leaves the chain     *)
(* after block n; events of the abandoned blocks may return, move or vanish *)
Reorganise(n, moved) ==
    /\ MayReorganise
    /\ n >= safe /\ n + ReorgWindow >= Len(chain)
    /\ mined + Len(moved) <= MaxMined
    /\ Len(moved) = Len(chain) - n
    /\ \A i, j \in DOMAIN moved :
          moved[i] # NoEvent => /\ moved[i] \notin EventsOn(SubSeq(chain, 1, n))
                                /\ i # j => moved[i] # moved[j]
    /\ chain' = SubSeq(chain, 1, n)
                \o [i \in DOMAIN moved |-> [hash |-> mined + i, event |-> moved[i]]]
    /\ mined' = mined + Len(moved)
    /\ UNCHANGED <<finality, safe, dbVars, worker, replays>>

AdvanceSafe ==
    /\ finality = "safe"
    /\ safe < Len(chain)
    /\ safe' = safe + 1
    /\ UNCHANGED <<finality, chain, mined, dbVars, worker, replays>>

-----------------------------------------------------------------------------
(* The database *)

(* the members of S by ascending key *)
Ordered(S, key) ==
    CHOOSE s \in SetToSeqs(S) : \A i, j \in DOMAIN s : i < j => key[s[i]] <= key[s[j]]

BlockOf(r) == [ev \in Events |-> r[ev].block]

CanonicalRows(r, blocks) == {ev \in Events : r[ev].canonical /\ r[ev].block \in blocks}

(* canonical history in block order *)
History(r, blocks) == Ordered(CanonicalRows(r, blocks), BlockOf(r))

(* lockCheckpoint(tx, config, expected): the transaction goes on only if the *)
(* checkpoint is still the one the worker started from                       *)
CheckpointUnchanged(w) == checkpoint = worker[w].expected

(* Mutant: a replayed event is refused *)
ProjectLogOnce(db, log) ==
    LET history == History(db.rows, 0..(log.block - 1))
    IN  IF db.failed \/ db.rows[log.event].canonical THEN [db EXCEPT !.failed = TRUE]
        ELSE [rows |-> [db.rows EXCEPT ![log.event] =
                           [block |-> log.block, hash |-> log.hash, canonical |-> TRUE,
                            undo |-> db.effects]],
              projection |-> Append(history, log.event),
              effects |-> Append(db.effects, log.event),
              failed |-> FALSE]

(* projectLog on the tables db, for a log of the scanned range *)
ProjectLog(db, log) ==
    LET existing == db.rows[log.event]
        history == History(db.rows, 0..(log.block - 1))
    IN  IF db.failed \/ (existing.canonical /\ existing.hash = log.hash) THEN db
        ELSE IF log.event \in ToSet(history) THEN [db EXCEPT !.failed = TRUE]
        ELSE [rows |-> [db.rows EXCEPT ![log.event] =
                           [block |-> log.block, hash |-> log.hash, canonical |-> TRUE,
                            undo |-> db.effects]],
              projection |-> Append(history, log.event),
              effects |-> Append(db.effects, log.event),
              failed |-> FALSE]

(* the logs of a scan, one after the other *)
ProjectLogs(db, logs) ==
    LET after[n \in 0..Len(logs)] == IF n = 0 THEN db ELSE ProjectLog(after[n - 1], logs[n])
    IN  after[Len(logs)]

(* undoDeposit, undoWork, ...: put back the snapshot taken before the event.  *)
(* Changes made by others since, on which they throw, are not modelled here.  *)
UndoEvent(db, ev) == [db EXCEPT !.effects = db.rows[ev].undo]

UndoEvents(db, evs) ==
    LET after[n \in 0..Len(evs)] == IF n = 0 THEN db ELSE UndoEvent(after[n - 1], evs[n])
    IN  after[Len(evs)]

Tables == [rows |-> rows, projection |-> projection, effects |-> effects, failed |-> FALSE]

StoreTables(db) ==
    /\ rows' = db.rows
    /\ projection' = db.projection
    /\ effects' = db.effects

-----------------------------------------------------------------------------
(* handleReorg *)

(* canonical events beyond the cursor, left by a rewind or a replay *)
AheadMismatch ==
    \E ev \in CanonicalRows(rows, (checkpoint.lastScanned + 1)..MaxHeight) :
        rows[ev].hash # HashAt(rows[ev].block)

(* Mutant: only a chain shorter than the cursor is a reorganisation *)
CheckpointBeyondHead == checkpoint.lastScanned > Len(chain)

CheckpointMismatch ==
    checkpoint.hash # Unset /\ checkpoint.hash # HashAt(checkpoint.lastScanned)

RewindTarget(last) == IF last > ReorgWindow THEN last - ReorgWindow ELSE 0

(* the tick begins: compare stored hashes with the node's *)
DetectReorg(w) ==
    /\ worker[w] = Idle
    /\ worker' = [worker EXCEPT ![w] =
          IF CheckpointMismatch \/ AheadMismatch
          THEN [pc |-> "candidates", expected |-> checkpoint]
          ELSE [pc |-> "scan"]]
    /\ UNCHANGED <<chainVars, dbVars, replays>>

(* read the canonical events above the target and the node's hash of each *)
CollectStale(w) ==
    /\ worker[w].pc = "candidates"
    /\ LET target == RewindTarget(worker[w].expected.lastScanned)
           stale == {ev \in CanonicalRows(rows, (target + 1)..MaxHeight) :
                        rows[ev].hash # HashAt(rows[ev].block)}
       IN  worker' = [worker EXCEPT ![w] =
              [pc |-> "target", expected |-> @.expected, target |-> target, stale |-> stale]]
    /\ UNCHANGED <<chainVars, dbVars, replays>>

ReadTarget(w) ==
    /\ worker[w].pc = "target"
    /\ worker' = [worker EXCEPT ![w] =
          [pc |-> "rewind", expected |-> @.expected, target |-> @.target, stale |-> @.stale,
           targetHash |-> HashAt(@.target)]]
    /\ UNCHANGED <<chainVars, dbVars, replays>>

(* Mutant: snapshots are put back in chain order *)
EarliestFirst(stale) == Ordered(stale, BlockOf(rows))

LatestFirst(stale) == Reverse(Ordered(stale, BlockOf(rows)))

(* one transaction: mark, undo latest first, rebuild, move the cursor back *)
Rewind(w) ==
    /\ worker[w].pc = "rewind"
    /\ CheckpointUnchanged(w)
    /\ LET stale == worker[w].stale
           marked == [ev \in Events |-> IF ev \in stale
                                        THEN [rows[ev] EXCEPT !.canonical = FALSE] ELSE rows[ev]]
           undone == UndoEvents([Tables EXCEPT !.rows = marked], LatestFirst(stale))
       IN  StoreTables([undone EXCEPT !.projection =
              IF stale = {} THEN @ ELSE History(marked, 1..MaxHeight)])
    /\ checkpoint' = [checkpoint EXCEPT !.lastScanned = worker[w].target,
                                        !.hash = worker[w].targetHash]
    /\ worker' = [worker EXCEPT ![w] = [pc |-> "scan"]]
    /\ UNCHANGED <<chainVars, replays>>

-----------------------------------------------------------------------------
(* scanOnce *)

BlocksWithEvent(from, to) == {n \in from..to : chain[n].event # NoEvent}

LogsBetween(from, to) ==
    LET blocks == Ordered(BlocksWithEvent(from, to), [n \in from..to |-> n])
    IN  [i \in DOMAIN blocks |->
            [event |-> chain[blocks[i]].event, block |-> blocks[i], hash |-> HashAt(blocks[i])]]

NothingToScan(w) ==
    /\ worker[w].pc = "scan"
    /\ SafeHead <= checkpoint.lastScanned
    /\ worker' = [worker EXCEPT ![w] = Idle]
    /\ UNCHANGED <<chainVars, dbVars, replays>>

(* eth_getLogs; the node may refuse a range, and a smaller one is asked for *)
GetLogs(w, to) ==
    /\ worker[w].pc = "scan"
    /\ to \in (checkpoint.lastScanned + 1)..SafeHead
    /\ to <= checkpoint.lastScanned + RangeSize
    /\ worker' = [worker EXCEPT ![w] =
          [pc |-> "blocks", expected |-> checkpoint, to |-> to, safe |-> SafeHead,
           logs |-> LogsBetween(checkpoint.lastScanned + 1, to)]]
    /\ UNCHANGED <<chainVars, dbVars, replays>>

(* eth_getBlockByNumber of the last block, and of each log's block, whose    *)
(* hash must be the one the log names                                        *)
GetBlocks(w) ==
    /\ worker[w].pc = "blocks"
    /\ \A i \in DOMAIN worker[w].logs :
          worker[w].logs[i].hash = HashAt(worker[w].logs[i].block)
    /\ worker' = [worker EXCEPT ![w] =
          [pc |-> "commit", expected |-> @.expected, to |-> @.to, safe |-> @.safe,
           logs |-> @.logs, toHash |-> HashAt(@.to)]]
    /\ UNCHANGED <<chainVars, dbVars, replays>>

(* one transaction: project the logs and move the cursor *)
CommitScan(w) ==
    /\ worker[w].pc = "commit"
    /\ CheckpointUnchanged(w)
    /\ LET db == ProjectLogs(Tables, worker[w].logs)
       IN  ~db.failed /\ StoreTables(db)
    /\ checkpoint' =
          [lastScanned |-> worker[w].to, hash |-> worker[w].toHash,
           replay |-> checkpoint.replay /\ worker[w].to # worker[w].safe]
    /\ worker' = [worker EXCEPT ![w] = Idle]
    /\ UNCHANGED <<chainVars, replays>>

(* an RPC error, a failed check or transaction, or a crash: the next tick    *)
(* starts over from the database                                             *)
Abort(w) ==
    /\ worker[w] # Idle
    /\ worker' = [worker EXCEPT ![w] = Idle]
    /\ UNCHANGED <<chainVars, dbVars, replays>>

-----------------------------------------------------------------------------
(* requestReplay: the operator's command, one transaction.  The code accepts *)
(* any block above the deploy block; Next assumes one the scanner has reached *)

RequestReplay(from) ==
    /\ replays < MaxReplays /\ finality \in Replayed
    /\ projection' = IF CanonicalRows(rows, from..MaxHeight) = {} THEN projection
                     ELSE History(rows, 1..MaxHeight)
    /\ checkpoint' = [lastScanned |-> from - 1, hash |-> Unset, replay |-> TRUE]
    /\ replays' = replays + 1
    /\ UNCHANGED <<chainVars, rows, effects, worker>>

-----------------------------------------------------------------------------

Init ==
    /\ finality \in Finalities
    /\ chain = <<>> /\ safe = 0 /\ mined = 0
    /\ rows = [ev \in Events |-> NoRow]
    /\ projection = <<>> /\ effects = <<>>
    /\ checkpoint = [lastScanned |-> 0, hash |-> Unset, replay |-> FALSE]
    /\ worker = [w \in Workers |-> Idle]
    /\ replays = 0

Node ==
    \/ \E event \in Events \cup {NoEvent} : Mine(event)
    \/ \E n \in 0..(Len(chain) - 1) :
          \E moved \in [1..(Len(chain) - n) -> Events \cup {NoEvent}] : Reorganise(n, moved)
    \/ AdvanceSafe

WorkerStep(w) ==
    \/ DetectReorg(w) \/ CollectStale(w) \/ ReadTarget(w) \/ Rewind(w)
    \/ NothingToScan(w) \/ (\E to \in 1..MaxHeight : GetLogs(w, to))
    \/ GetBlocks(w) \/ CommitScan(w)

Next ==
    \/ Node
    \/ \E w \in Workers : WorkerStep(w) \/ Abort(w)
    \/ \E from \in 1..(checkpoint.lastScanned + 1) : RequestReplay(from)

Spec == Init /\ [][Next]_vars

-----------------------------------------------------------------------------

TypeOK ==
    /\ finality \in Finalities
    /\ chain \in Seq([hash : Hash, event : Events \cup {NoEvent}])
    /\ safe \in 0..MaxHeight /\ mined \in Hash /\ replays \in 0..MaxReplays
    /\ rows \in [Events -> [block : 0..MaxHeight, hash : Hash, canonical : BOOLEAN,
                            undo : Seq(Events)]]
    /\ projection \in Seq(Events) /\ effects \in Seq(Events)
    /\ checkpoint \in [lastScanned : 0..MaxHeight, hash : Hash \cup {Unset}, replay : BOOLEAN]

(* what the chain says about the escrow up to block n *)
ChainHistory(n) ==
    LET logs == LogsBetween(1, n) IN [i \in DOMAIN logs |-> logs[i].event]

(* the scanner has read up to the safe head and stands on the node's chain   *)
CaughtUp ==
    /\ checkpoint.hash # Unset
    /\ checkpoint.lastScanned = SafeHead
    /\ checkpoint.hash = HashAt(SafeHead)

(* A cursor that has caught up has lost and invented nothing: the projection  *)
(* is the fold of exactly the events on the node's chain, in chain order, and *)
(* exactly those are canonical, after any scans, range refusals, rewinds,     *)
(* replays, crashes and conflicts of two workers (scanner.ts, reorg.ts).      *)
CaughtUpMeansAgreement ==
    CaughtUp =>
        /\ projection = ChainHistory(SafeHead)
        /\ CanonicalRows(rows, 1..MaxHeight) = EventsOn(SubSeq(chain, 1, SafeHead))

(* The effects on issues, balances and proposals stand exactly for the events *)
(* in the projection, in its order: none is applied twice, left behind by a   *)
(* rewind, or brought back by a snapshot taken too early (reorg.ts, undo.ts). *)
EffectsFollowProjection == effects = projection

(* Liveness: once the chain comes to rest the cursor reaches the safe head    *)
(* and the projection is that of the chain for good, although ticks fail,     *)
(* processes restart and an operator replays.                                 *)
CatchesUp == <>[](/\ checkpoint.lastScanned = SafeHead
                  /\ projection = ChainHistory(SafeHead))

(* An RPC call or a transaction that may succeed does so sooner or later      *)
(* (the job runs every 4 s), and a tick that cannot go on ends in an error.   *)
Fairness ==
    /\ WF_vars(AdvanceSafe)
    /\ \A w \in Workers :
         /\ WF_vars(Abort(w))
         /\ SF_vars(DetectReorg(w)) /\ SF_vars(CollectStale(w)) /\ SF_vars(ReadTarget(w))
         /\ SF_vars(Rewind(w)) /\ SF_vars(NothingToScan(w))
         /\ SF_vars(\E to \in 1..MaxHeight : GetLogs(w, to))
         /\ SF_vars(GetBlocks(w)) /\ SF_vars(CommitScan(w))

LiveSpec == Spec /\ Fairness

=============================================================================
