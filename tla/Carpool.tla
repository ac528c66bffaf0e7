------------------------------- MODULE Carpool -------------------------------
(***************************************************************************)
(* Carpool orders (services/billing/carpool.service.ts): friends share the *)
(* price and the quota of one package.  A member confirms a share, which   *)
(* records a reservation but takes no money; submission captures all the   *)
(* reservations at once, a failed order refunds them, a fulfilled one      *)
(* hands every member a monthly pass and a relay token.                    *)
(*                                                                         *)
(* Every operation is one Serializable transaction, in which InnoDB locks  *)
(* what is read, so it is one step here; invite() and the expiry scan read *)
(* outside of it and are two.  A transaction that aborts changes nothing.  *)
(* Ratios count from 0 to Whole, in the code hundred with six decimals.    *)
(***************************************************************************)
EXTENDS Integers, Sequences, FiniteSets, SequencesExt, FiniteSetsExt, Functions

CONSTANTS Users, Orders,
          Whole,        \* HUNDRED, in units of a ratio's last decimal
          Ratios,       \* bound: ratios an owner types for custom shares
          Price,        \* salePrice of an order's snapshot
          Quota,        \* totalQuota of it
          MaxMembers,   \* maxMembers of it
          Opening,      \* balance every user starts with
          MaxInvites,   \* bound: invitations issued for an order
          MaxChanges,   \* bound: allocations an owner saves
          MaxSpent,     \* bound: what a user spends elsewhere
          None

ASSUME CarpoolAssumption ==
    /\ Whole \in Nat \ {0} /\ Ratios \subseteq 0 .. Whole
    /\ Price \in Nat /\ Quota \in Nat /\ Opening \in Nat
    /\ MaxMembers \in Nat \ {0} /\ MaxInvites \in Nat /\ MaxChanges \in Nat /\ MaxSpent \in Nat
    /\ IsFiniteSet(Users) /\ IsFiniteSet(Orders) /\ None \notin Users
    (* However many share equally, rounding leaves the last of them no negative ratio. *)
    /\ Cardinality(Users) * (Cardinality(Users) - 1) <= 2 * Whole

VARIABLES order,        \* the order rows
          seats,        \* users of the member rows, by createTime
          member,       \* the member rows
          reservation,  \* the reservation of a member row
          balance,      \* balance accounts
          paid,         \* carpool_capture rows less carpool_refund rows
          passes,       \* monthly passes and tokens created for a member
          invites,      \* invitations not used yet, and all issued
          inviting,     \* orders an invite() has read and not written for
          spent         \* what a user spent elsewhere

vars == <<order, seats, member, reservation, balance, paid, passes, invites, inviting, spent>>
money == <<balance, paid, passes, spent>>

OrderStates == {"none", "open", "submitted", "accepted", "fulfilled", "failed", "cancelled", "expired"}
MemberStates == {"none", "pending", "confirmed", "left", "delivered"}
NoShare == [pay |-> 0, quota |-> 0, payable |-> 0, final |-> 0]

Init == /\ order = [o \in Orders |-> [state |-> "none", owner |-> None, mode |-> "equal",
                                      due |-> FALSE, changes |-> 0]]
        /\ seats = [o \in Orders |-> <<>>]
        /\ member = [o \in Orders |-> [u \in Users |-> [state |-> "none", share |-> NoShare]]]
        /\ reservation = [o \in Orders |-> [u \in Users |-> [state |-> "none", amount |-> 0]]]
        /\ balance = [u \in Users |-> Opening]
        /\ paid = [o \in Orders |-> [u \in Users |-> 0]]
        /\ passes = [o \in Orders |-> [u \in Users |-> 0]]
        /\ invites = [o \in Orders |-> [unused |-> 0, issued |-> 0]]
        /\ inviting = {}
        /\ spent = [u \in Users |-> 0]

-----------------------------------------------------------------------------
(* Shares *)

RoundedDiv(a, b) == (2 * a + b) \div (2 * b)      \* ROUND_HALF_UP

Active(row) == row.state \notin {"none", "left"}
Members(o) == {u \in Users : Active(member[o][u])}
(* Mutant: only the deadline is looked at. *)
EnsureInTime(o) == ~order[o].due

EnsureOpen(o) == order[o].state = "open" /\ ~order[o].due

Share(p, q) == [pay |-> p, quota |-> q,
                payable |-> RoundedDiv(Price * p, Whole),
                final |-> RoundedDiv(Quota * q, Whole)]

(* rebalanceEqual: the last active member, by createTime, gets what is left. *)
EqualRatio(n, last) == LET each == RoundedDiv(Whole, n)
                       IN  IF last THEN Whole - (n - 1) * each ELSE each
EqualShares(rows, line) ==
    LET here == {u \in Users : Active(rows[u])}
        last == line[Max({i \in DOMAIN line : line[i] \in here})]
        ratio(u) == EqualRatio(Cardinality(here), u = last)
    IN  [u \in Users |-> IF Active(rows[u])
                         THEN [state |-> "pending", share |-> Share(ratio(u), ratio(u))]
                         ELSE rows[u]]

(* releaseReservations and resetConfirmations *)
Released(o) == [u \in Users |-> IF reservation[o][u].state = "reserved"
                                THEN [reservation[o][u] EXCEPT !.state = "released"]
                                ELSE reservation[o][u]]
(* Mutant: confirmations outlive a change of shares. *)
PendingKept(rows) == rows

Pending(rows) == [u \in Users |-> IF Active(rows[u]) THEN [rows[u] EXCEPT !.state = "pending"]
                                  ELSE rows[u]]

(* The member rows after somebody joined or left. *)
Reshare(o, rows, line) ==
    /\ member' = [member EXCEPT ![o] = IF order[o].mode = "equal" THEN EqualShares(rows, line)
                                       ELSE Pending(rows)]
    /\ reservation' = [reservation EXCEPT ![o] = Released(o)]
    /\ seats' = [seats EXCEPT ![o] = line]

-----------------------------------------------------------------------------
(* The order before it is submitted *)

CreateOrder(o, u) ==
    /\ order[o].state = "none"
    /\ order' = [order EXCEPT ![o].state = "open", ![o].owner = u]
    /\ seats' = [seats EXCEPT ![o] = <<u>>]
    /\ member' = [member EXCEPT ![o] =
                    EqualShares([@ EXCEPT ![u].state = "pending"], <<u>>)]
    /\ UNCHANGED <<reservation, money, invites, inviting>>

(* invite() looks at the order first and writes afterwards. *)
ReadForInvite(o) == /\ EnsureOpen(o) /\ o \notin inviting
                    /\ invites[o].issued < MaxInvites
                    /\ inviting' = inviting \cup {o}
                    /\ UNCHANGED <<order, seats, member, reservation, money, invites>>

Invite(o) == /\ o \in inviting
             /\ inviting' = inviting \ {o}
             /\ invites' = [invites EXCEPT ![o].unused = @ + 1, ![o].issued = @ + 1]
             /\ UNCHANGED <<order, seats, member, reservation, money>>

InviteExpires(o) == /\ invites[o].unused > 0
                    /\ invites' = [invites EXCEPT ![o].unused = @ - 1]
                    /\ UNCHANGED <<order, seats, member, reservation, money, inviting>>

(* A user who had left comes back on the old row. *)
AcceptInvite(o, u) ==
    LET known == member[o][u].state # "none"
        rows == [member[o] EXCEPT ![u].state = "pending"]
    IN  /\ invites[o].unused > 0
        /\ EnsureOpen(o)
        /\ ~known => Cardinality(Members(o)) < MaxMembers
        /\ member[o][u].state \in {"none", "left"}
        /\ invites' = [invites EXCEPT ![o].unused = @ - 1]
        /\ Reshare(o, rows, IF known THEN seats[o] ELSE Append(seats[o], u))
        /\ UNCHANGED <<order, money, inviting>>

Allocate(o, mode, p, q) ==
    /\ EnsureOpen(o)
    /\ order[o].changes < MaxChanges
    /\ order' = [order EXCEPT ![o].mode = mode, ![o].changes = @ + 1]
    /\ reservation' = [reservation EXCEPT ![o] = Released(o)]
    /\ \/ /\ mode = "equal"
          /\ member' = [member EXCEPT ![o] = EqualShares(@, seats[o])]
       \/ /\ mode = "custom"
          /\ SumFunction(p) = Whole /\ SumFunction(q) = Whole
          /\ member' = [member EXCEPT ![o] =
                [u \in Users |-> IF u \in Members(o)
                                 THEN [state |-> "pending", share |-> Share(p[u], q[u])]
                                 ELSE @[u]]]
    /\ UNCHANGED <<seats, money, invites, inviting>>

Confirm(o, u) ==
    LET amount == member[o][u].share.payable
    IN  /\ EnsureOpen(o)
        /\ member[o][u].state = "pending"
        /\ balance[u] >= amount
        /\ member' = [member EXCEPT ![o][u].state = "confirmed"]
        /\ reservation' = [reservation EXCEPT ![o][u] = [state |-> "reserved", amount |-> amount]]
        /\ UNCHANGED <<order, seats, money, invites, inviting>>

Leave(o, u) ==
    /\ EnsureOpen(o)
    /\ u # order[o].owner /\ member[o][u].state = "pending"
    /\ Reshare(o, [member[o] EXCEPT ![u].state = "left"], seats[o])
    /\ UNCHANGED <<order, money, invites, inviting>>

Close(o, state) == /\ order' = [order EXCEPT ![o].state = state]
                   /\ reservation' = [reservation EXCEPT ![o] = Released(o)]
                   /\ UNCHANGED <<seats, member, money, invites, inviting>>

Cancel(o) == EnsureOpen(o) /\ Close(o, "cancelled")

DeadlinePasses(o) == /\ order[o].state = "open" /\ ~order[o].due
                     /\ order' = [order EXCEPT ![o].due = TRUE]
                     /\ UNCHANGED <<seats, member, reservation, money, invites, inviting>>

(* Mutant: an order with money reserved is passed over. *)
ExpireUnreserved(o) == /\ order[o].state = "open" /\ order[o].due
                       /\ \A u \in Users : reservation[o][u].state # "reserved"
                       /\ Close(o, "expired")

(* expireDueOrders: what the scan found is looked at again. *)
Expire(o) == order[o].state = "open" /\ order[o].due /\ Close(o, "expired")

-----------------------------------------------------------------------------
(* Money *)

AllConfirmed(o) == \A u \in Members(o) : /\ member[o][u].state = "confirmed"
                                        /\ reservation[o][u].state = "reserved"
RatiosAddUp(o) ==
    /\ MapThenSumSet(LAMBDA u : member[o][u].share.pay, Members(o)) = Whole
    /\ MapThenSumSet(LAMBDA u : member[o][u].share.quota, Members(o)) = Whole
(* Mutant: the balance seen at confirmation is trusted. *)
CoveredOnce(o) == TRUE

Covered(o) == \A u \in Members(o) : balance[u] >= reservation[o][u].amount

Submit(o) ==
    /\ EnsureOpen(o)
    /\ AllConfirmed(o) /\ RatiosAddUp(o) /\ Covered(o)
    /\ balance' = [u \in Users |-> IF u \in Members(o) THEN balance[u] - reservation[o][u].amount
                                   ELSE balance[u]]
    /\ paid' = [paid EXCEPT ![o] = [u \in Users |-> IF u \in Members(o)
                                       THEN @[u] + reservation[o][u].amount ELSE @[u]]]
    /\ reservation' = [reservation EXCEPT ![o] = [u \in Users |-> IF u \in Members(o)
                                       THEN [@[u] EXCEPT !.state = "captured"] ELSE @[u]]]
    /\ order' = [order EXCEPT ![o].state = "submitted"]
    /\ UNCHANGED <<seats, member, passes, spent, invites, inviting>>

Accept(o) == /\ order[o].state = "submitted"
             /\ order' = [order EXCEPT ![o].state = "accepted"]
             /\ UNCHANGED <<seats, member, reservation, money, invites, inviting>>

(* Mutant: a delivered order is delivered again. *)
FulfillAgain(o) ==
    /\ order[o].state \in {"accepted", "fulfilled"}
    /\ passes' = [passes EXCEPT ![o] = [u \in Users |-> IF u \in Members(o) THEN @[u] + 1 ELSE @[u]]]
    /\ \A u \in Users : passes[o][u] < 2
    /\ member' = [member EXCEPT ![o] = [u \in Users |-> IF u \in Members(o)
                                     THEN [@[u] EXCEPT !.state = "delivered"] ELSE @[u]]]
    /\ order' = [order EXCEPT ![o].state = "fulfilled"]
    /\ UNCHANGED <<seats, reservation, balance, paid, spent, invites, inviting>>

Fulfill(o) ==
    /\ order[o].state = "accepted"
    /\ passes' = [passes EXCEPT ![o] = [u \in Users |-> IF u \in Members(o) THEN @[u] + 1 ELSE @[u]]]
    /\ member' = [member EXCEPT ![o] = [u \in Users |-> IF u \in Members(o)
                                     THEN [@[u] EXCEPT !.state = "delivered"] ELSE @[u]]]
    /\ order' = [order EXCEPT ![o].state = "fulfilled"]
    /\ UNCHANGED <<seats, reservation, balance, paid, spent, invites, inviting>>

(* Mutant: only what is still reserved is given back. *)
RefundableReserved(o) == {u \in Members(o) : reservation[o][u].state = "reserved"}

Refundable(o) == {u \in Members(o) : reservation[o][u].state = "captured"}
FailOrder(o) ==
    /\ order[o].state \in {"submitted", "accepted"}
    /\ balance' = [u \in Users |-> IF u \in Refundable(o) THEN balance[u] + reservation[o][u].amount
                                   ELSE balance[u]]
    /\ paid' = [paid EXCEPT ![o] = [u \in Users |-> IF u \in Refundable(o)
                                       THEN @[u] - reservation[o][u].amount ELSE @[u]]]
    /\ reservation' = [reservation EXCEPT ![o] = [u \in Users |-> IF u \in Refundable(o)
                                       THEN [@[u] EXCEPT !.state = "refunded"] ELSE @[u]]]
    /\ order' = [order EXCEPT ![o].state = "failed"]
    /\ UNCHANGED <<seats, member, passes, spent, invites, inviting>>

(* The user pays for something else; a reservation does not keep it back. *)
SpendElsewhere(u) == /\ balance[u] > 0 /\ spent[u] < MaxSpent
                     /\ balance' = [balance EXCEPT ![u] = @ - 1]
                     /\ spent' = [spent EXCEPT ![u] = @ + 1]
                     /\ UNCHANGED <<order, seats, member, reservation, paid, passes, invites, inviting>>

-----------------------------------------------------------------------------

Next == \/ \E o \in Orders :
             \/ \E u \in Users : CreateOrder(o, u) \/ AcceptInvite(o, u) \/ Confirm(o, u) \/ Leave(o, u)
             \/ Allocate(o, "equal", <<>>, <<>>)
             \/ \E p, q \in [Members(o) -> Ratios] : Allocate(o, "custom", p, q)
             \/ ReadForInvite(o) \/ Invite(o) \/ InviteExpires(o)
             \/ Cancel(o) \/ DeadlinePasses(o) \/ Expire(o)
             \/ Submit(o) \/ Accept(o) \/ Fulfill(o) \/ FailOrder(o)
        \/ \E u \in Users : SpendElsewhere(u)

Spec == Init /\ [][Next]_vars

(* The scheduler runs every minute, on whichever process has its lock. *)
FairSpec == Spec /\ \A o \in Orders : WF_vars(Expire(o))

-----------------------------------------------------------------------------
(* Properties *)

(* While the order is open a member is confirmed exactly if a reservation of
   the present share is held: nobody is charged a share they did not see. *)
ConfirmedIsReserved ==
    \A o \in Orders, u \in Users : order[o].state = "open" =>
        /\ member[o][u].state = "confirmed" <=> reservation[o][u].state = "reserved"
        /\ member[o][u].state = "confirmed" => reservation[o][u].amount = member[o][u].share.payable

(* A user has paid the share while the order is on its way or delivered, and
   nothing otherwise; nothing stays reserved of an order that is not open. *)
MoneyFollowsOrder ==
    \A o \in Orders, u \in Users :
        /\ paid[o][u] = IF /\ order[o].state \in {"submitted", "accepted", "fulfilled"}
                           /\ u \in Members(o)
                        THEN member[o][u].share.payable ELSE 0
        /\ order[o].state # "open" => reservation[o][u].state # "reserved"

(* What left an account is in a captured share or was spent elsewhere, and
   capturing never takes more than there is, whatever else was reserved. *)
Conserved ==
    \A u \in Users :
        /\ balance[u] = Opening - spent[u] - SumFunction([o \in Orders |-> paid[o][u]])
        /\ balance[u] >= 0

(* One pass for each who paid, when and only when the order is fulfilled. *)
DeliveredOnce ==
    \A o \in Orders, u \in Users :
        passes[o][u] = IF order[o].state = "fulfilled" /\ u \in Members(o) THEN 1 ELSE 0

(* From the submission on nobody joins, leaves or gets another share, however
   late an invitation or an allocation arrives. *)
SharesFrozen ==
    [][\A o \in Orders : order[o].state \notin {"none", "open"} =>
         /\ seats'[o] = seats[o]
         /\ \A u \in Users : /\ member'[o][u].share = member[o][u].share
                             /\ Active(member'[o][u]) <=> Active(member[o][u])]_vars

(* An order whose deadline has passed does not stay open. *)
DueExpires == \A o \in Orders : order[o].due ~> order[o].state # "open"
=============================================================================
