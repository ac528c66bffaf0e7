---------------------------- MODULE MCMonthlyPass ----------------------------
(***************************************************************************)
(* Small instances of MonthlyPass.  User u1 has a balance account and a    *)
(* pass of each template; user u2 has neither.  Template t1 costs 3, t2 is *)
(* free; a user may hold two passes of t1 and one of t2.                   *)
(***************************************************************************)
EXTENDS MonthlyPass, TLC

CONSTANTS u1, u2, t1, t2, p1, p2

MCUser == {u1, u2}
MCTemplate == {t1, t2}
MCPassId == {p1, p2} \cup Session
MCRow == MCPassId \cup MCUser \cup MCTemplate
MCPrice == (t1 :> 3) @@ (t2 :> 0)
MCLimit == (t1 :> 2) @@ (t2 :> 1)

Granted(template, status, total, used) ==
    [user |-> u1, template |-> template, status |-> status,
     total |-> total, used |-> used, remaining |-> total - used]

MCOpening == [r \in MCRow |->
    CASE r = u1 -> 5
      [] r = p1 -> Granted(t1, 1, 4, 1)
      [] r = p2 -> Granted(t2, 0, 3, 3)
      [] r \in MCTemplate -> "template"
      [] OTHER -> NoRow]

Consumption(pass, quota) == [op |-> "consume", pass |-> pass, quota |-> quota]
Edit(pass, total, status) ==
    [op |-> "update", pass |-> pass, total |-> total, status |-> status]
Deletion(pass) == [op |-> "delete", pass |-> pass]
Extension(user, template) ==
    [op |-> "extend", user |-> user, template |-> template, quota |-> 2]
Assignment(user, template) ==
    [op |-> "assign", user |-> user, template |-> template, quota |-> 2]
Claim(user, template) ==
    [op |-> "purchase", user |-> user, template |-> template, quota |-> 4]

Writes ==
    {Consumption(p1, 2), Consumption(p1, 3), Edit(p1, 6, Keep), Edit(p1, 2, 1), Edit(p1, Keep, 0),
     Edit(p2, Keep, 1), Edit(p1, Keep, -1), Deletion(p1), Extension(u1, t1), Extension(u2, t2)}
Claims == {Claim(u1, t1), Claim(u1, t2), Claim(u2, t2), Claim(u2, t1)}
Guarded == Writes \cup Claims \cup {Assignment(u1, t1), Assignment(u2, t2)}

Symmetry == Permutations(Session)
=============================================================================
