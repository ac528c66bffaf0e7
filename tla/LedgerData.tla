----------------------------- MODULE LedgerData ------------------------------
(***************************************************************************)
(* The rows and the amounts of the balance ledger, shared by the service   *)
(* specification (LedgerService) and the transactions (BalanceLedger).     *)
(*                                                                         *)
(* Money is counted in units of 0.0001, the precision of the DECIMAL       *)
(* columns and of round4; fees are whole percents.                         *)
(***************************************************************************)
EXTENDS Integers, Tables

CONSTANTS
    User,      \* owners of balance accounts, ordered as their ids are
    Gift,      \* ids of balance_gift_codes
    Code,      \* ids of redemption_codes
    Nobody,    \* usedBy of an unused redemption code
    Request,   \* the requests clients may send
    Opening    \* the tables before the first request

Percent == 0..100

\* round4(amount * percent / 100) on amounts counted in units of 0.0001.
Share(amount, percent) == (amount * percent + 50) \div 100

GiftVersion == [state : {"active", "redeemed", "cancelled"}, owner : User,
                amount : Nat, fee : Nat, refundPercent : Percent]

CodeVersion == [usedBy : User \cup {Nobody}, amount : Nat]

TotalDebit(q) == q.amount + Share(q.amount, q.feePercent)

Refund(gift) == gift.amount + Share(gift.fee, gift.refundPercent)

\* A missing account counts as an empty one.
Balance(account) == IF account = NoRow THEN 0 ELSE account

Op == {"recharge", "createGift", "redeemGift", "cancelGift", "transfer",
       "redeemCode", "deleteCode"}

\* A request: target is the gift or redemption code it names, or the recipient
\* of a transfer; the two percents are the billing configuration it read.
RequestType == [op : Op, user : User, target : Row \cup {NoRow}, amount : Int,
                feePercent : Percent, refundPercent : Percent]

WellFormed(q) ==
    /\ q.op \in {"redeemGift", "cancelGift"} => q.target \in Gift
    /\ q.op \in {"redeemCode", "deleteCode"} => q.target \in Code
    /\ q.op = "transfer" => q.target \in User \ {q.user}
    /\ q.op \in {"recharge", "createGift"} => q.target \notin Row
    /\ q.op \in {"createGift", "transfer"} => q.amount \in Nat \ {0}

ASSUME LedgerAssumption ==
    /\ User \subseteq Nat
    /\ Gift \cap Nat = {} /\ Code \cap Nat = {} /\ Gift \cap Code = {}
    /\ Row = User \cup Gift \cup Code
    /\ NoRow \notin Int \cup GiftVersion \cup CodeVersion
    /\ Nobody \notin User
    /\ Request \subseteq RequestType
    /\ \A q \in Request : WellFormed(q)
    /\ DOMAIN Opening = Row
    /\ \A u \in User : Opening[u] \in Int \cup {NoRow}
    /\ \A g \in Gift : Opening[g] \in GiftVersion \cup {NoRow}
    /\ \A c \in Code : Opening[c] \in CodeVersion \cup {NoRow}

\* What the ledger rows that name a gift code sum to: the debit of its creation,
\* and the one payment that settled it.
GiftSum(gift) ==
    IF gift = NoRow THEN 0
    ELSE (CASE gift.state = "active" -> 0
            [] gift.state = "redeemed" -> gift.amount
            [] gift.state = "cancelled" -> Refund(gift))
         - (gift.amount + gift.fee)

CodeSum(code) == IF code = NoRow \/ code.usedBy = Nobody THEN 0 ELSE code.amount

OpeningPosted(k) ==
    CASE k \in User -> 0
      [] k \in Gift -> GiftSum(Opening[k])
      [] k \in Code -> CodeSum(Opening[k])
=============================================================================
