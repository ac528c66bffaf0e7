-------------------------- MODULE MCUsageSettlement --------------------------
(***************************************************************************)
(* Small instances of UsageSettlement.  Users 1 and 2 provide each other's *)
(* channels; user 3 has a pass and no balance account.  Token t2 is        *)
(* composed of t1, and both belong to user 1.                              *)
(***************************************************************************)
EXTENDS UsageSettlement, TLC

CONSTANTS t1, t2, t3, t4, r1, r2, p1, p2, p3, u1, u2, u3

MCUser == {u1, u2, u3}
MCToken == {t1, t2, t3, t4}
MCRequestId == {r1, r2}
MCPass == {p1, p2, p3}
MCRow == (MCToken \X MCRequestId) \cup MCToken \cup MCUser \cup MCPass

MCPasses == (u1 :> <<p2, p1>>) @@ (u2 :> <<>>) @@ (u3 :> <<p3>>)
MCPassUnit == (p1 :> "token") @@ (p2 :> "amount") @@ (p3 :> "amount")
MCDailyQuota == (p1 :> NoLimit) @@ (p2 :> 3) @@ (p3 :> NoLimit)

Quota(n) == [remaining |-> n, used |-> 0, window |-> 0]

MCOpening == [r \in MCRow |->
    CASE r = u1 -> 4 [] r = u2 -> 5
      [] r \in MCToken -> [requests |-> 0, quota |-> 0]
      [] r = p1 -> Quota(1) [] r = p2 -> Quota(7) [] r = p3 -> Quota(2)
      [] OTHER -> NoRow]

Charge(user, path, id, cost, tokens, provider) ==
    [op |-> "charge", user |-> user, path |-> path, id |-> id, cost |-> cost,
     tokens |-> tokens, provider |-> provider]
Record(user, path, id, tokens) ==
    [op |-> "record", user |-> user, path |-> path, id |-> id, cost |-> 0,
     tokens |-> tokens, provider |-> NoProvider]

Direct == Charge(u1, <<t1>>, r1, 7, 2, u2)
Composed == Charge(u1, <<t2, t1>>, r2, 5, 2, u3)
Opposite == Charge(u2, <<t3>>, r2, 5, 1, u1)
Uncovered == Charge(u3, <<t4>>, r1, 4, 1, NoProvider)
Failed == Record(u1, <<t1>>, r1, 1)

MCBill == {Direct, Composed, Opposite, Uncovered, Failed}

Symmetry == Permutations(Session)
=============================================================================
