--------------------------- MODULE EscrowRefinement ---------------------------
(***************************************************************************)
(* BloodyRoarEscrow implements EscrowPromise: phases collapse to a stage,   *)
(* the escrow record to the deal it stands for.                             *)
(***************************************************************************)
EXTENDS BloodyRoarEscrow

StageOf(e) == CASE escrow[e].phase = "NONE" -> "absent"
                [] escrow[e].phase = "RESOLVED" -> "divided"
                [] OTHER -> "held"

DealOf(e) == [client |-> escrow[e].client, developer |-> escrow[e].developer,
              feeRecipient |-> escrow[e].feeRecipient, amount |-> escrow[e].amount]

Promise == INSTANCE EscrowPromise WITH
             stage <- [e \in Ids |-> StageOf(e)],
             deal <- [e \in Ids |-> DealOf(e)],
             owed <- claimable,
             custody <- balance

(* Every behaviour of the contract, whatever the interleaving of settlements, *)
(* disputes, timeouts, role handovers and claims, is one the promise allows:  *)
(* a principal is divided once, among the payees of its deposit, with the fee *)
(* on the developer's part, and credits leave only to their owner.            *)
KeepsPromise == Promise!PromiseSpec

=============================================================================
