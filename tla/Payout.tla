-------------------------------- MODULE Payout --------------------------------
(***************************************************************************)
(* How a principal is divided when an escrow is resolved, as the contract   *)
(* computes it (_resolve) and as the off-chain code recomputes it           *)
(* (packages/shared/src/money.ts).  Amounts are in USDC base units and all  *)
(* divisions round down.                                                    *)
(***************************************************************************)
EXTENDS Integers

CONSTANTS
    MAX_BPS,            \* 10_000
    PLATFORM_FEE_BPS    \* 250

ASSUME BpsAssumption ==
    /\ MAX_BPS \in Nat \ {0}
    /\ PLATFORM_FEE_BPS \in 0..MAX_BPS

(* Math.mulDiv(x, bps, MAX_BPS) *)
MulBps(x, bps) == (x * bps) \div MAX_BPS

(* Mutant: the fee charged on the whole principal *)
SharesFeeOnPrincipal(amount, clientBps) ==
    LET clientAmount == MulBps(amount, clientBps)
        platformFee  == MulBps(amount, PLATFORM_FEE_BPS)
    IN  [clientAmount    |-> clientAmount,
         developerAmount |-> amount - clientAmount - platformFee,
         platformFee     |-> platformFee]

(* _resolve: the fee applies to the developer's gross share only, and the    *)
(* developer's net is what is left of the principal.                         *)
Shares(amount, clientBps) ==
    LET clientAmount == MulBps(amount, clientBps)
        platformFee  == MulBps(amount - clientAmount, PLATFORM_FEE_BPS)
    IN  [clientAmount    |-> clientAmount,
         developerAmount |-> amount - clientAmount - platformFee,
         platformFee     |-> platformFee]

=============================================================================
