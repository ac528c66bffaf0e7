--------------------------- MODULE MCBalanceLedger ---------------------------
(***************************************************************************)
(* Small instances of BalanceLedger.  User 3 starts without an account;    *)
(* g1 is an active gift code of user 1, the others are free ids; c1 is an  *)
(* unused redemption code.  Percents that round show up at these amounts:  *)
(* a fee of 50% on 3 units is 2, and 50% of that fee is 1.                 *)
(***************************************************************************)
EXTENDS BalanceLedger, TLC

CONSTANTS g1, g2, g3, g4, c1

MCUser == {1, 2, 3}
MCGift == {g1, g2, g3, g4}
MCCode == {c1}
MCRow == MCUser \cup MCGift \cup MCCode

ActiveGift == [state |-> "active", owner |-> 1, amount |-> 3, fee |-> 2, refundPercent |-> 50]

MCOpening == [r \in MCRow |->
    CASE r = 1 -> 5
      [] r = 2 -> 6
      [] r = g1 -> ActiveGift
      [] r = c1 -> [usedBy |-> Nobody, amount |-> 4]
      [] OTHER -> NoRow]

Ask(op, user, target, amount) ==
    [op |-> op, user |-> user, target |-> target, amount |-> amount,
     feePercent |-> 50, refundPercent |-> 50]

MCRequest ==
    { Ask("createGift", 1, NoRow, 3), Ask("redeemGift", 2, g1, 0), Ask("cancelGift", 1, g1, 0),
      Ask("transfer", 1, 2, 2), Ask("transfer", 2, 1, 2), Ask("transfer", 2, 3, 1),
      Ask("recharge", 3, NoRow, 2),
      Ask("redeemCode", 2, c1, 0), Ask("deleteCode", 1, c1, 0) }

\* The requests of the two runs that show a documented promise broken.
TransferRequest == { Ask("transfer", 1, 2, 2), Ask("transfer", 1, 3, 2) }
CodeRequest == { Ask("redeemCode", 1, c1, 0), Ask("redeemCode", 2, c1, 0) }
=============================================================================
