---------------------------- MODULE LedgerService ----------------------------
(***************************************************************************)
(* What the balance ledger promises its callers: a request either fails    *)
(* without a trace or takes effect in one step.  BalanceLedger is shown to *)
(* implement it.                                                           *)
(*                                                                         *)
(* Two guards are weaker than the documentation asks, because the code     *)
(* gives no more under concurrency: Transfer does not require the balance  *)
(* to cover the debit, and RedeemCode does not require the code to be      *)
(* unused (see TransfersAreCovered and CodesCreditOnce in BalanceLedger).  *)
(***************************************************************************)
EXTENDS LedgerData

VARIABLES
    tables,   \* balance accounts, gift codes and redemption codes
    posted    \* balance_transactions, summed by userId and relatedId

\* Adds the amounts of a request's ledger rows; change maps keys to amounts.
Post(change) ==
    posted' = [k \in Row |-> posted[k] + IF k \in DOMAIN change THEN change[k] ELSE 0]

Recharge(q) ==
    /\ q.op = "recharge"
    /\ tables' = [tables EXCEPT ![q.user] = Balance(@) + q.amount]
    /\ Post([k \in {q.user} |-> q.amount])

CreateGift(q) ==
    /\ q.op = "createGift"
    /\ tables[q.user] # NoRow /\ tables[q.user] >= TotalDebit(q)
    /\ \E g \in Gift :
        /\ tables[g] = NoRow
        /\ tables' = [tables EXCEPT
             ![q.user] = @ - TotalDebit(q),
             ![g] = [state |-> "active", owner |-> q.user, amount |-> q.amount,
                     fee |-> Share(q.amount, q.feePercent), refundPercent |-> q.refundPercent]]
        /\ Post([k \in {q.user, g} |-> -TotalDebit(q)])

\* An active gift code is redeemed by another user or cancelled by its owner.
SettleGift(q) ==
    LET gift == tables[q.target]
        redeem == q.op = "redeemGift"
        paid == IF redeem THEN gift.amount ELSE Refund(gift)
    IN  /\ q.op \in {"redeemGift", "cancelGift"}
        /\ gift # NoRow /\ gift.state = "active" /\ (gift.owner = q.user <=> ~redeem)
        /\ tables' = [tables EXCEPT
             ![q.user] = Balance(@) + paid,
             ![q.target].state = IF redeem THEN "redeemed" ELSE "cancelled"]
        /\ Post([k \in {q.user, q.target} |-> paid])

Transfer(q) ==
    /\ q.op = "transfer"
    /\ tables[q.user] # NoRow
    /\ tables' = [tables EXCEPT ![q.user] = @ - TotalDebit(q),
                               ![q.target] = Balance(@) + q.amount]
    /\ Post([k \in {q.user, q.target} |->
                IF k = q.user THEN -TotalDebit(q) ELSE q.amount])

RedeemCode(q) ==
    LET code == tables[q.target]
    IN  /\ q.op = "redeemCode"
        /\ code # NoRow
        /\ tables' = [tables EXCEPT ![q.user] = Balance(@) + code.amount,
                                   ![q.target].usedBy = q.user]
        /\ Post([k \in {q.user, q.target} |-> code.amount])

DeleteCode(q) ==
    /\ q.op = "deleteCode"
    /\ tables' = [tables EXCEPT ![q.target] = NoRow]
    /\ UNCHANGED posted

Init ==
    /\ tables = Opening
    /\ posted = [k \in Row |-> OpeningPosted(k)]

Next ==
    \E q \in Request :
        \/ Recharge(q) \/ CreateGift(q) \/ SettleGift(q)
        \/ Transfer(q) \/ RedeemCode(q) \/ DeleteCode(q)

Spec == Init /\ [][Next]_<<tables, posted>>
=============================================================================
