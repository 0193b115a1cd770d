---------------------------- MODULE EscrowAccounts ----------------------------
(***************************************************************************)
(* The books of BloodyRoarEscrow: what its running totals and its credits   *)
(* must add up to over all escrows and all addresses.                       *)
(***************************************************************************)
EXTENDS BloodyRoarEscrow, FiniteSetsExt

(* the sum of f over S *)
Total(f, S) == MapThenSumSet(LAMBDA x : f[x], S)

Held == [e \in Ids |-> IF escrow[e].phase = "RESOLVED" THEN 0 ELSE escrow[e].amount]

(* The contract's running totals are the sums they stand for: no order of     *)
(* deposits, resolutions and claims loses or double-counts a unit, so the     *)
(* checked subtractions never revert a legitimate call (accountedBalance).    *)
TotalsMatch ==
    /\ totalUnresolvedPrincipal = Total(Held, Ids)
    /\ totalClaimable = Total(claimable, Addr)

ResolvedFor(a, party) ==
    {e \in Ids : escrow[e].phase = "RESOLVED" /\ escrow[e][party] = a}

Allocated(share) == [e \in Ids |-> resolved[e][share]]

(* Each address has been credited, in all, exactly its shares of the resolved *)
(* escrows: as client, as developer and as fee recipient at deposit time,     *)
(* added up when it plays several of these parts (claimable, claim).          *)
CreditsFollowResolutions ==
    \A a \in Addr :
        claimable[a] + paid[a]
          = Total(Allocated("clientAmount"), ResolvedFor(a, "client"))
            + Total(Allocated("developerAmount"), ResolvedFor(a, "developer"))
            + Total(Allocated("platformFee"), ResolvedFor(a, "feeRecipient"))

=============================================================================
