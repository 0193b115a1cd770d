---------------------------- MODULE EscrowPromise ----------------------------
(***************************************************************************)
(* What the escrow promises to a client, a developer and the platform,      *)
(* without phases, windows, disputes or settlements: a principal is held    *)
(* for three payees named when it is deposited, is divided among them once, *)
(* and what each is owed leaves custody to that payee only.                 *)
(***************************************************************************)
EXTENDS Payout

CONSTANTS Ids, Addr, NoAddr

VARIABLES
    stage,      \* "absent", "held" or "divided", for each id
    deal,       \* the principal of each id and its payees
    owed,       \* what each address may withdraw
    custody     \* USDC in the contract

promiseVars == <<stage, deal, owed, custody>>

NoDeal == [client |-> NoAddr, developer |-> NoAddr, feeRecipient |-> NoAddr, amount |-> 0]

PromiseInit ==
    /\ stage = [e \in Ids |-> "absent"]
    /\ deal = [e \in Ids |-> NoDeal]
    /\ owed = [a \in Addr |-> 0]
    /\ custody = 0

Hold(e) ==
    /\ stage[e] = "absent"
    /\ stage' = [stage EXCEPT ![e] = "held"]
    /\ LET x == deal'[e] IN
         /\ deal' = [deal EXCEPT ![e] = x]
         /\ {x.client, x.developer, x.feeRecipient} \subseteq Addr
         /\ x.client # x.developer
         /\ x.amount > 0
         /\ custody' = custody + x.amount
    /\ UNCHANGED owed

(* credits to payee a of deal x when the client's part is clientAmount *)
Part(a, x, clientAmount) ==
    LET fee == MulBps(x.amount - clientAmount, PLATFORM_FEE_BPS) IN
    (IF a = x.client THEN clientAmount ELSE 0)
    + (IF a = x.developer THEN x.amount - clientAmount - fee ELSE 0)
    + (IF a = x.feeRecipient THEN fee ELSE 0)

Divide(e) ==
    /\ stage[e] = "held"
    /\ stage' = [stage EXCEPT ![e] = "divided"]
    /\ \E clientAmount \in 0..deal[e].amount :
         owed' = [a \in Addr |-> owed[a] + Part(a, deal[e], clientAmount)]
    /\ UNCHANGED <<deal, custody>>

Withdraw(a) ==
    /\ owed[a] > 0
    /\ owed' = [owed EXCEPT ![a] = 0]
    /\ custody' = custody - owed[a]
    /\ UNCHANGED <<stage, deal>>

PromiseNext ==
    \/ \E e \in Ids : Hold(e) \/ Divide(e)
    \/ \E a \in Addr : Withdraw(a)

PromiseSpec == PromiseInit /\ [][PromiseNext]_promiseVars

=============================================================================
