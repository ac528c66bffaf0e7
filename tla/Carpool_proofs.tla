---------------------------- MODULE Carpool_proofs ----------------------------
(***************************************************************************)
(* Proofs about Carpool, for any number of users, orders, seats and        *)
(* changes, and any price, quota and ratios.                               *)
(***************************************************************************)
EXTENDS Carpool, Sums

Shares == [pay : Nat, quota : Nat, payable : Nat, final : Nat]
MemberRow == [state : MemberStates, share : Shares]
Reservation == [state : {"none", "reserved", "released", "captured", "refunded"}, amount : Nat]

OrderRow == [state : OrderStates, owner : Users \cup {None}, mode : {"equal", "custom"},
             due : BOOLEAN, changes : Int]

RowTypes ==
    /\ order \in [Orders -> OrderRow]
    /\ member \in [Orders -> [Users -> MemberRow]]
    /\ reservation \in [Orders -> [Users -> Reservation]]
    /\ paid \in [Orders -> [Users -> Int]]
    /\ passes \in [Orders -> [Users -> Int]]

(* What a submitted order will give back is what it took. *)
CapturedIsShare ==
    \A o \in Orders, u \in Users :
        order[o].state \in {"submitted", "accepted"} /\ u \in Members(o) =>
            /\ reservation[o][u].state = "captured"
            /\ reservation[o][u].amount = member[o][u].share.payable

CarpoolInv == /\ RowTypes
              /\ ConfirmedIsReserved
              /\ MoneyFollowsOrder
              /\ CapturedIsShare
              /\ DeliveredOnce

-----------------------------------------------------------------------------
(* The helpers *)

\* A row whose state alone is assigned.
LEMMA RowState ==
    ASSUME NEW row \in MemberRow, NEW s \in MemberStates
    PROVE  /\ [row EXCEPT !.state = s] \in MemberRow
           /\ [row EXCEPT !.state = s].state = s
           /\ [row EXCEPT !.state = s].share = row.share
BY DEF MemberRow

\* Rows of which one is assigned a state.
LEMMA RowsState ==
    ASSUME NEW rows \in [Users -> MemberRow], NEW u \in Users, NEW s \in MemberStates
    PROVE  [rows EXCEPT ![u].state = s] \in [Users -> MemberRow]
<1>1. [rows EXCEPT ![u].state = s] = [rows EXCEPT ![u] = [rows[u] EXCEPT !.state = s]]
    OBVIOUS
<1>2. rows[u] \in MemberRow
    OBVIOUS
<1> QED BY <1>1, <1>2, RowState

\* An order of which the state alone is assigned.
LEMMA OrderState ==
    ASSUME RowTypes, NEW o \in Orders, NEW s \in OrderStates,
           order' = [order EXCEPT ![o].state = s]
    PROVE  /\ order' \in [Orders -> OrderRow]
           /\ order'[o].state = s
           /\ \A x \in Orders : x # o => order'[x] = order[x]
<1>1. order' = [order EXCEPT ![o] = [order[o] EXCEPT !.state = s]]
    BY DEF RowTypes
<1>2. [order[o] EXCEPT !.state = s] \in OrderRow /\ [order[o] EXCEPT !.state = s].state = s
    BY DEF RowTypes, OrderRow
<1> QED BY <1>1, <1>2 DEF RowTypes

\* An order of which the allocation mode is assigned.
LEMMA OrderMode ==
    ASSUME NEW row \in OrderRow, NEW mode \in {"equal", "custom"}
    PROVE  LET new == [row EXCEPT !.mode = mode, !.changes = row.changes + 1]
           IN  new \in OrderRow /\ new.state = row.state
<1>1. row.changes + 1 \in Int
    BY DEF OrderRow
<1> QED BY <1>1 DEF OrderRow

\* A share computed from ratios is not negative.
LEMMA ShareType == ASSUME NEW p \in Nat, NEW q \in Nat PROVE Share(p, q) \in Shares
<1>1. ASSUME NEW a \in Nat PROVE RoundedDiv(a, Whole) \in Nat
    <2>1. 2 * a + Whole \in Nat /\ 2 * Whole \in Nat \ {0}
        BY CarpoolAssumption
    <2> QED BY <2>1 DEF RoundedDiv
<1>2. Price * p \in Nat /\ Quota * q \in Nat
    BY CarpoolAssumption
<1> QED BY <1>1, <1>2 DEF Share, Shares

\* The parts of the whole are not negative, that of the last member either: the
\* others' have been rounded up by at most a half each.
LEMMA RatioType ==
    ASSUME NEW n \in 1 .. Cardinality(Users), NEW last
    PROVE  EqualRatio(n, last) \in Nat
<1> DEFINE c == Cardinality(Users)
           each == RoundedDiv(Whole, n)
<1>0. c \in Nat /\ n \in Nat \ {0} /\ n <= c /\ Whole \in Nat
    BY CarpoolAssumption, FS_CardinalityType
<1>1. c * (c - 1) <= 2 * Whole
    BY CarpoolAssumption
<1> HIDE DEF c
<1>2. n * (n - 1) <= 2 * Whole
    <2>1. n * (n - 1) <= c * (n - 1)
        BY <1>0
    <2>2. c * (n - 1) <= c * (c - 1)
        BY <1>0
    <2> QED BY <1>0, <1>1, <2>1, <2>2
<1>3. each \in Nat /\ (2 * n) * each <= 2 * Whole + n
    <2>1. 2 * Whole + n \in Nat /\ 2 * n \in Nat \ {0}
        BY <1>0
    <2> QED BY <2>1 DEF RoundedDiv
<1> HIDE DEF each
<1>4. (n - 1) * each <= Whole
    <2> SUFFICES ASSUME (n - 1) * each >= Whole + 1 PROVE FALSE
        BY <1>0, <1>3
    <2> DEFINE m == (n - 1) * each
    <2>1. m \in Nat
        BY <1>0, <1>3
    <2>2. (n - 1) * ((2 * n) * each) <= (n - 1) * (2 * Whole + n)
        BY <1>0, <1>3
    <2>3. (n - 1) * ((2 * n) * each) = (2 * n) * m
        BY <1>0, <1>3
    <2>4. (n - 1) * (2 * Whole + n) = (2 * n) * Whole - 2 * Whole + n * (n - 1)
        BY <1>0
    <2> HIDE DEF m
    <2>5. (2 * n) * m <= (2 * n) * Whole
        BY <1>0, <1>2, <2>1, <2>2, <2>3, <2>4
    <2>6. (2 * n) * m >= (2 * n) * (Whole + 1)
        BY <1>0, <2>1 DEF m
    <2> QED BY <1>0, <2>1, <2>5, <2>6
<1>5. (n - 1) * each \in Nat
    BY <1>0, <1>3
<1> QED BY <1>0, <1>3, <1>4, <1>5 DEF EqualRatio, each

\* rebalanceEqual leaves no member confirmed and takes nobody in or out.
LEMMA EqualSharesReset ==
    ASSUME NEW rows \in [Users -> MemberRow], NEW line
    PROVE  /\ EqualShares(rows, line) \in [Users -> MemberRow]
           /\ \A u \in Users : /\ EqualShares(rows, line)[u].state \in {"none", "left", "pending"}
                               /\ Active(EqualShares(rows, line)[u]) <=> Active(rows[u])
<1> DEFINE here == {u \in Users : Active(rows[u])}
           final == line[Max({i \in DOMAIN line : line[i] \in here})]
           ratio(u) == EqualRatio(Cardinality(here), u = final)
<1>1. EqualShares(rows, line) =
        [u \in Users |-> IF Active(rows[u])
                         THEN [state |-> "pending", share |-> Share(ratio(u), ratio(u))]
                         ELSE rows[u]]
    BY DEF EqualShares
<1>2. ASSUME NEW u \in here PROVE Cardinality(here) \in 1 .. Cardinality(Users)
    <2>1. IsFiniteSet(here) /\ Cardinality(here) <= Cardinality(Users)
        BY CarpoolAssumption, FS_Subset
    <2>2. Cardinality(here) \in Nat /\ Cardinality(Users) \in Nat /\ Cardinality(here) # 0
        BY <2>1, CarpoolAssumption, FS_CardinalityType, FS_EmptySet
    <2> QED BY <2>1, <2>2
<1>3. ASSUME NEW u \in here PROVE Share(ratio(u), ratio(u)) \in Shares
    <2> HIDE DEF here, final
    <2>1. ratio(u) \in Nat
        BY <1>2, RatioType
    <2> QED BY <2>1, ShareType
<1>4. \A u \in Users : ~Active(rows[u]) => rows[u].state \in {"none", "left"}
    BY DEF Active
<1> HIDE DEF ratio
<1> QED BY <1>1, <1>3, <1>4 DEF MemberRow, MemberStates, Active

\* resetConfirmations leaves no member confirmed and takes nobody in or out.
LEMMA PendingReset ==
    ASSUME NEW rows \in [Users -> MemberRow]
    PROVE  /\ Pending(rows) \in [Users -> MemberRow]
           /\ \A u \in Users : /\ Pending(rows)[u].state \in {"none", "left", "pending"}
                               /\ Active(Pending(rows)[u]) <=> Active(rows[u])
                               /\ Pending(rows)[u].share = rows[u].share
BY DEF Pending, MemberRow, MemberStates, Active

\* releaseReservations leaves nothing reserved.
LEMMA ReleasedAll ==
    ASSUME RowTypes, NEW o \in Orders
    PROVE  /\ Released(o) \in [Users -> Reservation]
           /\ \A u \in Users : Released(o)[u].state # "reserved"
<1>1. ASSUME NEW r \in Reservation
      PROVE  /\ [r EXCEPT !.state = "released"] \in Reservation
             /\ [r EXCEPT !.state = "released"].state = "released"
    BY DEF Reservation
<1>2. \A u \in Users : reservation[o][u] \in Reservation
    BY DEF RowTypes
<1> QED BY <1>1, <1>2 DEF Released

-----------------------------------------------------------------------------
(* The invariant *)

\* The initial state satisfies the invariant.
LEMMA InitCarpool == Init => CarpoolInv
<1> SUFFICES ASSUME Init PROVE CarpoolInv
    OBVIOUS
<1>1. NoShare \in Shares
    BY DEF NoShare, Shares
<1>2. RowTypes
    BY <1>1 DEF Init, RowTypes, OrderRow, OrderStates, MemberRow, MemberStates, Reservation
<1>3. ConfirmedIsReserved /\ MoneyFollowsOrder /\ CapturedIsShare /\ DeliveredOnce
    BY DEF Init, ConfirmedIsReserved, MoneyFollowsOrder, CapturedIsShare, DeliveredOnce
<1> QED BY <1>2, <1>3 DEF CarpoolInv

\* An order that is created, or changed while it is open, so that nobody is
\* confirmed and nothing reserved any more keeps the invariant.
LEMMA ResetKeeps ==
    ASSUME CarpoolInv, NEW o \in Orders,
           order[o].state \in {"none", "open"},
           order' \in [Orders -> OrderRow],
           \A x \in Orders : x # o => order'[x] = order[x],
           order'[o].state = "open",
           NEW rows \in [Users -> MemberRow], \A u \in Users : rows[u].state # "confirmed",
           member' = [member EXCEPT ![o] = rows],
           NEW held \in [Users -> Reservation], \A u \in Users : held[u].state # "reserved",
           reservation' = [reservation EXCEPT ![o] = held],
           UNCHANGED <<paid, passes>>
    PROVE  CarpoolInv'
<1>0. RowTypes
    BY DEF CarpoolInv
<1>1. RowTypes'
    BY <1>0 DEF RowTypes
<1>2. /\ member'[o] = rows /\ reservation'[o] = held
      /\ \A x \in Orders : x # o => /\ member'[x] = member[x]
                                    /\ reservation'[x] = reservation[x]
    BY <1>0 DEF RowTypes
<1>3. ASSUME NEW x \in Orders, x # o PROVE Members(x)' = Members(x)
    BY <1>2, <1>3 DEF Members, Active
<1>4. ConfirmedIsReserved'
    BY <1>2 DEF CarpoolInv, ConfirmedIsReserved
<1>5. MoneyFollowsOrder'
    BY <1>2, <1>3 DEF CarpoolInv, MoneyFollowsOrder
<1>6. CapturedIsShare'
    BY <1>2, <1>3 DEF CarpoolInv, CapturedIsShare
<1>7. DeliveredOnce'
    BY <1>2, <1>3 DEF CarpoolInv, DeliveredOnce
<1> QED BY <1>1, <1>4, <1>5, <1>6, <1>7 DEF CarpoolInv
\* The step relation keeps the invariant.
LEMMA StepCarpool == CarpoolInv /\ [Next]_vars => CarpoolInv'
<1> SUFFICES ASSUME CarpoolInv, [Next]_vars PROVE CarpoolInv'
    OBVIOUS
<1>0. RowTypes
    BY DEF CarpoolInv
<1>1. ASSUME NEW o \in Orders, NEW u \in Users, CreateOrder(o, u) PROVE CarpoolInv'
    <2> DEFINE rows == EqualShares([member[o] EXCEPT ![u].state = "pending"], <<u>>)
    <2>1. [member[o] EXCEPT ![u].state = "pending"] \in [Users -> MemberRow]
        BY <1>0, RowsState DEF RowTypes, MemberStates
    <2>2. rows \in [Users -> MemberRow] /\ \A v \in Users : rows[v].state # "confirmed"
        BY <2>1, EqualSharesReset
    <2>3. member' = [member EXCEPT ![o] = rows]
        BY <1>1, <1>0 DEF CreateOrder, RowTypes
    <2>4. /\ order' \in [Orders -> OrderRow] /\ order'[o].state = "open"
          /\ \A x \in Orders : x # o => order'[x] = order[x]
        <3>1. order' = [order EXCEPT ![o] = [order[o] EXCEPT !.state = "open", !.owner = u]]
            BY <1>0, <1>1 DEF CreateOrder, RowTypes
        <3>2. /\ [order[o] EXCEPT !.state = "open", !.owner = u] \in OrderRow
              /\ [order[o] EXCEPT !.state = "open", !.owner = u].state = "open"
            BY <1>0 DEF RowTypes, OrderRow, OrderStates
        <3> QED BY <1>0, <3>1, <3>2 DEF RowTypes
    <2>5. reservation[o] \in [Users -> Reservation] /\ reservation' = [reservation EXCEPT ![o] = reservation[o]]
        BY <1>0, <1>1 DEF CreateOrder, RowTypes
    <2>6. \A v \in Users : reservation[o][v].state # "reserved"
        BY <1>1 DEF CarpoolInv, MoneyFollowsOrder, CreateOrder
    <2>7. order[o].state = "none" /\ UNCHANGED <<paid, passes>>
        BY <1>1 DEF CreateOrder, money
    <2> HIDE DEF rows
    <2> QED BY <2>2, <2>3, <2>4, <2>5, <2>6, <2>7, ResetKeeps
<1>2. ASSUME NEW o \in Orders, NEW rows \in [Users -> MemberRow], NEW line,
             Reshare(o, rows, line), order[o].state = "open", UNCHANGED <<order, money>>
      PROVE  CarpoolInv'
    <2> DEFINE new == IF order[o].mode = "equal" THEN EqualShares(rows, line) ELSE Pending(rows)
    <2>1. new \in [Users -> MemberRow] /\ \A v \in Users : new[v].state # "confirmed"
        BY EqualSharesReset, PendingReset
    <2>2. /\ member' = [member EXCEPT ![o] = new]
          /\ reservation' = [reservation EXCEPT ![o] = Released(o)]
        BY <1>2 DEF Reshare
    <2>3. order' \in [Orders -> OrderRow] /\ UNCHANGED <<order, paid, passes>>
        BY <1>0, <1>2 DEF RowTypes, money
    <2> HIDE DEF new
    <2> QED BY <1>0, <1>2, <2>1, <2>2, <2>3, ReleasedAll, ResetKeeps
<1>3. ASSUME NEW o \in Orders, NEW u \in Users, AcceptInvite(o, u) PROVE CarpoolInv'
    <2>1. [member[o] EXCEPT ![u].state = "pending"] \in [Users -> MemberRow]
        BY <1>0, RowsState DEF RowTypes, MemberStates
    <2> QED BY <1>2, <1>3, <2>1 DEF AcceptInvite, EnsureOpen
<1>4. ASSUME NEW o \in Orders, NEW u \in Users, Leave(o, u) PROVE CarpoolInv'
    <2>1. [member[o] EXCEPT ![u].state = "left"] \in [Users -> MemberRow]
        BY <1>0, RowsState DEF RowTypes, MemberStates
    <2> QED BY <1>2, <1>4, <2>1 DEF Leave, EnsureOpen
<1>5. ASSUME NEW o \in Orders, NEW mode \in {"equal", "custom"}, NEW p, NEW q,
             mode = "custom" => p \in [Members(o) -> Ratios] /\ q \in [Members(o) -> Ratios],
             Allocate(o, mode, p, q)
      PROVE  CarpoolInv'
    <2> DEFINE shared == [u \in Users |-> IF u \in Members(o)
                              THEN [state |-> "pending", share |-> Share(p[u], q[u])]
                              ELSE member[o][u]]
    <2>1. /\ order' \in [Orders -> OrderRow] /\ order'[o].state = "open" /\ order[o].state = "open"
          /\ \A x \in Orders : x # o => order'[x] = order[x]
        <3> DEFINE row == [order[o] EXCEPT !.mode = mode, !.changes = order[o].changes + 1]
        <3>1. order' = [order EXCEPT ![o] = row] /\ order[o].state = "open"
            BY <1>0, <1>5 DEF Allocate, EnsureOpen, RowTypes
        <3>2. row \in OrderRow /\ row.state = order[o].state
            <4>1. order[o] \in OrderRow
                BY <1>0 DEF RowTypes
            <4> QED BY <4>1, OrderMode
        <3> QED BY <1>0, <3>1, <3>2 DEF RowTypes
    <2>2. member[o] \in [Users -> MemberRow]
        BY <1>0 DEF RowTypes
    <2>3. PICK rows \in [Users -> MemberRow] : /\ member' = [member EXCEPT ![o] = rows]
                                               /\ \A v \in Users : rows[v].state # "confirmed"
        <3>1. CASE mode = "equal"
            <4>1. member' = [member EXCEPT ![o] = EqualShares(member[o], seats[o])]
                BY <1>0, <1>5, <3>1 DEF Allocate, RowTypes
            <4> QED BY <2>2, <4>1, EqualSharesReset
        <3>2. CASE mode = "custom"
            <4>1. member' = [member EXCEPT ![o] = shared]
                BY <1>0, <1>5, <3>2 DEF Allocate, RowTypes
            <4>2. ASSUME NEW u \in Members(o) PROVE Share(p[u], q[u]) \in Shares
                <5>1. p[u] \in Ratios /\ q[u] \in Ratios
                    BY <1>5, <3>2
                <5>2. \A r \in Ratios : r \in Nat
                    BY CarpoolAssumption
                <5> QED BY <5>1, <5>2, ShareType
            <4>3. \A v \in Users \ Members(o) : member[o][v].state \in {"none", "left"}
                BY DEF Members, Active
            <4>4. shared \in [Users -> MemberRow] /\ \A v \in Users : shared[v].state # "confirmed"
                BY <2>2, <4>2, <4>3 DEF MemberRow, MemberStates
            <4> QED BY <4>1, <4>4
        <3> QED BY <3>1, <3>2
    <2>4. reservation' = [reservation EXCEPT ![o] = Released(o)] /\ UNCHANGED <<paid, passes>>
        BY <1>5 DEF Allocate, money
    <2> QED BY <1>0, <2>1, <2>3, <2>4, ReleasedAll, ResetKeeps
<1>6. ASSUME NEW o \in Orders, NEW u \in Users, Confirm(o, u) PROVE CarpoolInv'
    <2> DEFINE amount == member[o][u].share.payable
    <2>1. amount \in Nat /\ order[o].state = "open"
        BY <1>0, <1>6 DEF RowTypes, MemberRow, Shares, Confirm, EnsureOpen
    <2>2. /\ member' = [member EXCEPT ![o] = [member[o] EXCEPT ![u] = [member[o][u] EXCEPT !.state = "confirmed"]]]
          /\ reservation' = [reservation EXCEPT ![o] = [reservation[o] EXCEPT ![u] =
                                                 [state |-> "reserved", amount |-> amount]]]
          /\ UNCHANGED <<order, paid, passes>>
        BY <1>0, <1>6 DEF Confirm, RowTypes, money
    <2> DEFINE row == [member[o][u] EXCEPT !.state = "confirmed"]
    <2>3. row \in MemberRow /\ row.state = "confirmed" /\ row.share = member[o][u].share
        <3>1. member[o][u] \in MemberRow /\ "confirmed" \in MemberStates
            BY <1>0 DEF RowTypes, MemberStates
        <3> QED BY <3>1, RowState
    <2>4. [state |-> "reserved", amount |-> amount] \in Reservation
        BY <2>1 DEF Reservation
    <2>5. /\ member'[o][u] = row /\ reservation'[o][u] = [state |-> "reserved", amount |-> amount]
          /\ \A x \in Orders, v \in Users : x # o \/ v # u => /\ member'[x][v] = member[x][v]
                                                              /\ reservation'[x][v] = reservation[x][v]
        BY <1>0, <2>2 DEF RowTypes
    <2>6. RowTypes'
        BY <1>0, <2>2, <2>3, <2>4 DEF RowTypes
    <2> HIDE DEF row
    <2>7. ConfirmedIsReserved'
        BY <2>1, <2>2, <2>3, <2>5 DEF CarpoolInv, ConfirmedIsReserved
    <2>8. ASSUME NEW x \in Orders, x # o PROVE Members(x)' = Members(x)
        BY <2>5, <2>8 DEF Members, Active
    <2>9. MoneyFollowsOrder' /\ CapturedIsShare' /\ DeliveredOnce'
        BY <2>1, <2>2, <2>5, <2>8
           DEF CarpoolInv, MoneyFollowsOrder, CapturedIsShare, DeliveredOnce
    <2> QED BY <2>6, <2>7, <2>9 DEF CarpoolInv
<1>7. ASSUME NEW o \in Orders, NEW state \in {"cancelled", "expired"},
             order[o].state = "open", Close(o, state)
      PROVE  CarpoolInv'
    <2>1. /\ order' \in [Orders -> OrderRow] /\ order'[o].state = state
          /\ \A x \in Orders : x # o => order'[x] = order[x]
        BY <1>0, <1>7, OrderState DEF Close, OrderStates
    <2>2. /\ reservation' = [reservation EXCEPT ![o] = Released(o)]
          /\ UNCHANGED <<member, paid, passes>>
        BY <1>7 DEF Close, money
    <2>3. /\ reservation' \in [Orders -> [Users -> Reservation]]
          /\ \A u \in Users : reservation'[o][u].state # "reserved"
          /\ \A x \in Orders : x # o => reservation'[x] = reservation[x]
        BY <1>0, <2>2, ReleasedAll DEF RowTypes
    <2>4. \A x \in Orders : Members(x)' = Members(x)
        BY <2>2 DEF Members
    <2>5. RowTypes'
        BY <1>0, <2>1, <2>2, <2>3 DEF RowTypes
    <2>6. ConfirmedIsReserved'
        BY <1>7, <2>1, <2>2, <2>3 DEF CarpoolInv, ConfirmedIsReserved
    <2>7. MoneyFollowsOrder'
        BY <1>7, <2>1, <2>2, <2>3, <2>4 DEF CarpoolInv, MoneyFollowsOrder
    <2>8. CapturedIsShare'
        BY <1>7, <2>1, <2>2, <2>3, <2>4 DEF CarpoolInv, CapturedIsShare
    <2>9. DeliveredOnce'
        BY <1>7, <2>1, <2>2, <2>4 DEF CarpoolInv, DeliveredOnce
    <2> QED BY <2>5, <2>6, <2>7, <2>8, <2>9 DEF CarpoolInv
<1>8. ASSUME NEW o \in Orders, DeadlinePasses(o) PROVE CarpoolInv'
    <2>1. /\ order' = [order EXCEPT ![o] = [order[o] EXCEPT !.due = TRUE]]
          /\ UNCHANGED <<member, reservation, paid, passes>>
        BY <1>0, <1>8 DEF DeadlinePasses, RowTypes, money
    <2>2. [order[o] EXCEPT !.due = TRUE] \in OrderRow /\ [order[o] EXCEPT !.due = TRUE].state = order[o].state
        BY <1>0 DEF RowTypes, OrderRow
    <2>3. \A x \in Orders : order'[x].state = order[x].state /\ Members(x)' = Members(x)
        BY <1>0, <2>1, <2>2 DEF RowTypes, Members
    <2>4. RowTypes'
        BY <1>0, <2>1, <2>2 DEF RowTypes
    <2>5. ConfirmedIsReserved' /\ MoneyFollowsOrder' /\ CapturedIsShare' /\ DeliveredOnce'
        BY <2>1, <2>3
           DEF CarpoolInv, ConfirmedIsReserved, MoneyFollowsOrder, CapturedIsShare, DeliveredOnce
    <2> QED BY <2>4, <2>5 DEF CarpoolInv
<1>9. ASSUME NEW o \in Orders, Submit(o) PROVE CarpoolInv'
    <2>1. /\ order' \in [Orders -> OrderRow] /\ order'[o].state = "submitted" /\ order[o].state = "open"
          /\ \A x \in Orders : x # o => order'[x] = order[x]
        BY <1>0, <1>9, OrderState DEF Submit, EnsureOpen, OrderStates
    <2>2. UNCHANGED <<member, passes>> /\ \A x \in Orders : Members(x)' = Members(x)
        BY <1>9 DEF Submit, Members
    <2>3. \A u \in Users : reservation[o][u] \in Reservation /\ paid[o][u] \in Int
        BY <1>0 DEF RowTypes
    <2>4. \A u \in Users : /\ paid[o][u] = 0
                           /\ u \in Members(o) => /\ reservation[o][u].state = "reserved"
                                                  /\ reservation[o][u].amount = member[o][u].share.payable
                           /\ u \notin Members(o) => reservation[o][u].state # "reserved"
        BY <1>9, <2>1 DEF CarpoolInv, MoneyFollowsOrder, ConfirmedIsReserved, Submit, AllConfirmed, Members, Active
    <2> DEFINE captured(u) == [reservation[o][u] EXCEPT !.state = "captured"]
    <2>5. \A u \in Users : /\ captured(u) \in Reservation
                           /\ captured(u).state = "captured"
                           /\ captured(u).amount = reservation[o][u].amount
        BY <2>3 DEF Reservation
    <2> HIDE DEF captured
    <2>6. /\ reservation' = [reservation EXCEPT ![o] =
                  [u \in Users |-> IF u \in Members(o) THEN captured(u) ELSE reservation[o][u]]]
          /\ paid' = [paid EXCEPT ![o] =
                  [u \in Users |-> IF u \in Members(o) THEN paid[o][u] + reservation[o][u].amount
                                   ELSE paid[o][u]]]
        BY <1>0, <1>9 DEF Submit, RowTypes, captured
    <2>7. reservation' \in [Orders -> [Users -> Reservation]]
        BY <1>0, <2>3, <2>5, <2>6 DEF RowTypes
    <2>8. \A u \in Users : paid[o][u] + reservation[o][u].amount \in Int
        BY <2>3 DEF Reservation
    <2>9. paid' \in [Orders -> [Users -> Int]]
        BY <1>0, <2>3, <2>6, <2>8 DEF RowTypes
    <2>10. RowTypes'
        BY <1>0, <2>1, <2>2, <2>7, <2>9 DEF RowTypes
    <2>11. /\ \A x \in Orders : x # o => reservation'[x] = reservation[x] /\ paid'[x] = paid[x]
           /\ \A u \in Users : IF u \in Members(o)
                               THEN reservation'[o][u] = captured(u) /\ paid'[o][u] = member[o][u].share.payable
                               ELSE reservation'[o][u] = reservation[o][u] /\ paid'[o][u] = 0
        <3>1. \A u \in Users : u \in Members(o) => 0 + reservation[o][u].amount = member[o][u].share.payable
            BY <2>3, <2>4 DEF Reservation
        <3> QED BY <1>0, <2>4, <2>6, <3>1 DEF RowTypes
    <2>12. ConfirmedIsReserved'
        BY <2>1, <2>2, <2>11 DEF CarpoolInv, ConfirmedIsReserved
    <2>13. MoneyFollowsOrder'
        BY <2>1, <2>2, <2>4, <2>5, <2>11 DEF CarpoolInv, MoneyFollowsOrder
    <2>14. CapturedIsShare' /\ DeliveredOnce'
        BY <2>1, <2>2, <2>4, <2>5, <2>11 DEF CarpoolInv, CapturedIsShare, DeliveredOnce
    <2> QED BY <2>10, <2>12, <2>13, <2>14 DEF CarpoolInv
<1>10. ASSUME NEW o \in Orders, Accept(o) PROVE CarpoolInv'
    <2>1. /\ order' \in [Orders -> OrderRow] /\ order'[o].state = "accepted" /\ order[o].state = "submitted"
          /\ \A x \in Orders : x # o => order'[x] = order[x]
        BY <1>0, <1>10, OrderState DEF Accept, OrderStates
    <2>2. /\ UNCHANGED <<member, reservation, paid, passes>>
          /\ \A x \in Orders : Members(x)' = Members(x)
        BY <1>10 DEF Accept, Members, money
    <2>3. RowTypes'
        BY <1>0, <2>1, <2>2 DEF RowTypes
    <2>4. ConfirmedIsReserved' /\ MoneyFollowsOrder' /\ CapturedIsShare' /\ DeliveredOnce'
        BY <2>1, <2>2
           DEF CarpoolInv, ConfirmedIsReserved, MoneyFollowsOrder, CapturedIsShare, DeliveredOnce
    <2> QED BY <2>3, <2>4 DEF CarpoolInv
<1>11. ASSUME NEW o \in Orders, Fulfill(o) PROVE CarpoolInv'
    <2>1. /\ order' \in [Orders -> OrderRow] /\ order'[o].state = "fulfilled" /\ order[o].state = "accepted"
          /\ \A x \in Orders : x # o => order'[x] = order[x]
        BY <1>0, <1>11, OrderState DEF Fulfill, OrderStates
    <2> DEFINE delivered(u) == [member[o][u] EXCEPT !.state = "delivered"]
    <2>2. \A u \in Users : /\ delivered(u) \in MemberRow
                           /\ delivered(u).state = "delivered"
                           /\ delivered(u).share = member[o][u].share
        <3>1. \A u \in Users : member[o][u] \in MemberRow /\ "delivered" \in MemberStates
            BY <1>0 DEF RowTypes, MemberStates
        <3> QED BY <3>1, RowState
    <2> HIDE DEF delivered
    <2>3. /\ member' = [member EXCEPT ![o] =
                  [u \in Users |-> IF u \in Members(o) THEN delivered(u) ELSE member[o][u]]]
          /\ passes' = [passes EXCEPT ![o] =
                  [u \in Users |-> IF u \in Members(o) THEN passes[o][u] + 1 ELSE passes[o][u]]]
          /\ UNCHANGED <<reservation, paid>>
        BY <1>0, <1>11 DEF Fulfill, RowTypes, delivered
    <2>4. \A u \in Users : passes[o][u] = 0
        BY <2>1 DEF CarpoolInv, DeliveredOnce
    <2>5. /\ \A u \in Users : /\ member'[o][u] = IF u \in Members(o) THEN delivered(u) ELSE member[o][u]
                              /\ passes'[o][u] = IF u \in Members(o) THEN 1 ELSE 0
          /\ \A x \in Orders : x # o => member'[x] = member[x] /\ passes'[x] = passes[x]
        BY <1>0, <2>3, <2>4 DEF RowTypes
    <2>6. \A x \in Orders : Members(x)' = Members(x)
        BY <2>2, <2>5 DEF Members, Active
    <2>7. member' \in [Orders -> [Users -> MemberRow]]
        BY <1>0, <2>2, <2>3 DEF RowTypes
    <2>8. passes' \in [Orders -> [Users -> Int]]
        BY <1>0, <2>3 DEF RowTypes
    <2>9. RowTypes'
        BY <1>0, <2>1, <2>3, <2>7, <2>8 DEF RowTypes
    <2>10. \A u \in Users : member'[o][u].share = member[o][u].share
        BY <2>2, <2>5
    <2>11. ConfirmedIsReserved'
        BY <2>1, <2>3, <2>5 DEF CarpoolInv, ConfirmedIsReserved
    <2>12. MoneyFollowsOrder'
        BY <2>1, <2>3, <2>5, <2>6, <2>10 DEF CarpoolInv, MoneyFollowsOrder
    <2>13. CapturedIsShare' /\ DeliveredOnce'
        BY <2>1, <2>3, <2>5, <2>6 DEF CarpoolInv, CapturedIsShare, DeliveredOnce
    <2> QED BY <2>9, <2>11, <2>12, <2>13 DEF CarpoolInv
<1>12. ASSUME NEW o \in Orders, FailOrder(o) PROVE CarpoolInv'
    <2>1. /\ order' \in [Orders -> OrderRow] /\ order'[o].state = "failed"
          /\ order[o].state \in {"submitted", "accepted"}
          /\ \A x \in Orders : x # o => order'[x] = order[x]
        BY <1>0, <1>12, OrderState DEF FailOrder, OrderStates
    <2>2. UNCHANGED <<member, passes>> /\ \A x \in Orders : Members(x)' = Members(x)
        BY <1>12 DEF FailOrder, Members
    <2>3. \A u \in Users : reservation[o][u] \in Reservation /\ paid[o][u] \in Int
        BY <1>0 DEF RowTypes
    <2>4. /\ Refundable(o) = Members(o)
          /\ \A u \in Users : /\ paid[o][u] = IF u \in Members(o) THEN reservation[o][u].amount ELSE 0
                              /\ reservation[o][u].state # "reserved"
        BY <2>1 DEF CarpoolInv, CapturedIsShare, MoneyFollowsOrder, Refundable, Members
    <2> DEFINE refunded(u) == [reservation[o][u] EXCEPT !.state = "refunded"]
    <2>5. \A u \in Users : refunded(u) \in Reservation /\ refunded(u).state = "refunded"
        BY <2>3 DEF Reservation
    <2> HIDE DEF refunded
    <2>6. /\ reservation' = [reservation EXCEPT ![o] =
                  [u \in Users |-> IF u \in Members(o) THEN refunded(u) ELSE reservation[o][u]]]
          /\ paid' = [paid EXCEPT ![o] =
                  [u \in Users |-> IF u \in Members(o) THEN paid[o][u] - reservation[o][u].amount
                                   ELSE paid[o][u]]]
        BY <1>0, <1>12, <2>4 DEF FailOrder, RowTypes, refunded
    <2>7. \A u \in Users : paid[o][u] - reservation[o][u].amount \in Int
        BY <2>3 DEF Reservation
    <2>8. reservation' \in [Orders -> [Users -> Reservation]] /\ paid' \in [Orders -> [Users -> Int]]
        BY <1>0, <2>3, <2>5, <2>6, <2>7 DEF RowTypes
    <2>9. RowTypes'
        BY <1>0, <2>1, <2>2, <2>8 DEF RowTypes
    <2>10. \A u \in Users : u \in Members(o) => paid[o][u] - reservation[o][u].amount = 0
        BY <2>3, <2>4 DEF Reservation
    <2>11. /\ \A x \in Orders : x # o => reservation'[x] = reservation[x] /\ paid'[x] = paid[x]
           /\ \A u \in Users : paid'[o][u] = 0 /\ reservation'[o][u].state # "reserved"
        BY <1>0, <2>4, <2>5, <2>6, <2>10 DEF RowTypes
    <2>12. ConfirmedIsReserved' /\ MoneyFollowsOrder'
        BY <2>1, <2>2, <2>11 DEF CarpoolInv, ConfirmedIsReserved, MoneyFollowsOrder
    <2>13. CapturedIsShare' /\ DeliveredOnce'
        BY <2>1, <2>2, <2>11 DEF CarpoolInv, CapturedIsShare, DeliveredOnce
    <2> QED BY <2>9, <2>12, <2>13 DEF CarpoolInv
<1>13. ASSUME UNCHANGED <<order, member, reservation, paid, passes>> PROVE CarpoolInv'
    BY <1>13 DEF CarpoolInv, RowTypes, ConfirmedIsReserved, MoneyFollowsOrder, CapturedIsShare,
                 DeliveredOnce, Members
<1>14. ASSUME NEW o \in Orders,
              ReadForInvite(o) \/ Invite(o) \/ InviteExpires(o) \/ Cancel(o) \/ Expire(o)
       PROVE  CarpoolInv'
    BY <1>7, <1>13, <1>14 DEF ReadForInvite, Invite, InviteExpires, Cancel, Expire, EnsureOpen, money
<1>15. ASSUME NEW u \in Users, SpendElsewhere(u) PROVE CarpoolInv'
    BY <1>13, <1>15 DEF SpendElsewhere
<1>16. CASE UNCHANGED vars
    BY <1>13, <1>16 DEF vars
<1>17. ASSUME NEW o \in Orders, Allocate(o, "equal", <<>>, <<>>) PROVE CarpoolInv'
    BY <1>5, <1>17
<1>18. ASSUME NEW o \in Orders, NEW p \in [Members(o) -> Ratios], NEW q \in [Members(o) -> Ratios],
              Allocate(o, "custom", p, q)
       PROVE  CarpoolInv'
    BY <1>5, <1>18
<1> QED BY <1>1, <1>3, <1>4, <1>6, <1>8, <1>9, <1>10, <1>11, <1>12, <1>14, <1>15, <1>16, <1>17, <1>18
       DEF Next

-----------------------------------------------------------------------------
(* The theorems *)

\* The invariant holds in every state.
THEOREM CarpoolInvariant == Spec => []CarpoolInv
BY InitCarpool, StepCarpool, PTL DEF Spec

\* While an order is open, a member is confirmed exactly if a reservation of
\* the present share is held, whatever joins, departures and allocations do.
THEOREM ConfirmedHolds == Spec => []ConfirmedIsReserved
<1>1. CarpoolInv => ConfirmedIsReserved
    BY DEF CarpoolInv
<1> QED BY <1>1, CarpoolInvariant, PTL

\* A share is paid exactly while the order is on its way or delivered.
THEOREM MoneyHolds == Spec => []MoneyFollowsOrder
<1>1. CarpoolInv => MoneyFollowsOrder
    BY DEF CarpoolInv
<1> QED BY <1>1, CarpoolInvariant, PTL

\* A fulfilled order gives each of its members one pass, any other order none.
THEOREM DeliveryHolds == Spec => []DeliveredOnce
<1>1. CarpoolInv => DeliveredOnce
    BY DEF CarpoolInv
<1> QED BY <1>1, CarpoolInvariant, PTL

LinesOfOrders == DOMAIN seats = Orders

\* Every order keeps its line of members.
LEMMA LinesKept == Spec => []LinesOfOrders
<1>1. Init => LinesOfOrders
    BY DEF Init, LinesOfOrders
<1>2. LinesOfOrders /\ [Next]_vars => LinesOfOrders'
    <2> SUFFICES ASSUME LinesOfOrders, [Next]_vars PROVE LinesOfOrders'
        OBVIOUS
    <2>1. CASE \/ UNCHANGED vars
               \/ \E u \in Users : SpendElsewhere(u)
        BY <2>1 DEF vars, SpendElsewhere, LinesOfOrders
    <2>2. ASSUME NEW o \in Orders, NEW u \in Users, CreateOrder(o, u) \/ AcceptInvite(o, u) \/ Leave(o, u)
          PROVE  LinesOfOrders'
        BY <2>2 DEF CreateOrder, AcceptInvite, Leave, Reshare, LinesOfOrders
    <2>3. ASSUME NEW o \in Orders,
                 \/ \E u \in Users : Confirm(o, u)
                 \/ Allocate(o, "equal", <<>>, <<>>)
                 \/ \E p, r \in [Members(o) -> Ratios] : Allocate(o, "custom", p, r)
                 \/ ReadForInvite(o) \/ Invite(o) \/ InviteExpires(o)
          PROVE  LinesOfOrders'
        BY <2>3 DEF Confirm, Allocate, ReadForInvite, Invite, InviteExpires, LinesOfOrders
    <2>4. ASSUME NEW o \in Orders,
                 \/ Cancel(o) \/ DeadlinePasses(o) \/ Expire(o)
                 \/ Submit(o) \/ Accept(o) \/ Fulfill(o) \/ FailOrder(o)
          PROVE  LinesOfOrders'
        BY <2>4 DEF Cancel, Expire, Close, DeadlinePasses, Submit, Accept, Fulfill, FailOrder,
                    LinesOfOrders
    <2> QED BY <2>1, <2>2, <2>3, <2>4, Zenon DEF Next
<1> QED BY <1>1, <1>2, PTL DEF Spec

\* From the submission on, no step changes who takes part or with what share.
THEOREM FrozenHolds == Spec => SharesFrozen
<1> DEFINE Late(o) == order[o].state \notin {"none", "open"}
           Kept(o) == /\ seats'[o] = seats[o]
                      /\ \A u \in Users : /\ member'[o][u].share = member[o][u].share
                                          /\ Active(member'[o][u]) <=> Active(member[o][u])
           A == \A o \in Orders : Late(o) => Kept(o)
<1>1. ASSUME RowTypes, LinesOfOrders, [Next]_vars PROVE A
    <2>1. ASSUME NEW o \in Orders, NEW rows, NEW line, order[o].state \in {"none", "open"},
                 seats' = [seats EXCEPT ![o] = line], member' = [member EXCEPT ![o] = rows]
          PROVE  A
        BY <1>1, <2>1 DEF RowTypes, LinesOfOrders
    <2>0. ASSUME NEW o \in Orders, NEW rows, NEW line, order[o].state = "open", Reshare(o, rows, line)
          PROVE  A
        BY <2>0, <2>1 DEF Reshare
    <2>2. ASSUME NEW o \in Orders, NEW u \in Users, CreateOrder(o, u) \/ AcceptInvite(o, u) \/ Leave(o, u)
          PROVE  A
        <3>1. CASE CreateOrder(o, u)
            <4>1. member' = [member EXCEPT ![o] =
                                EqualShares([member[o] EXCEPT ![u].state = "pending"], <<u>>)]
                BY <3>1, <1>1 DEF CreateOrder, RowTypes
            <4> QED BY <3>1, <4>1, <2>1 DEF CreateOrder
        <3>2. CASE AcceptInvite(o, u)
            BY <3>2, <2>0 DEF AcceptInvite, EnsureOpen
        <3>3. CASE Leave(o, u)
            BY <3>3, <2>0 DEF Leave, EnsureOpen
        <3> QED BY <2>2, <3>1, <3>2, <3>3
    <2>3. ASSUME NEW o \in Orders, NEW u \in Users, Confirm(o, u) PROVE A
        <3>1. order[o].state = "open" /\ UNCHANGED seats
            BY <2>3 DEF Confirm, EnsureOpen
        <3>2. \A x \in Orders : x # o => member'[x] = member[x]
            BY <1>1, <2>3 DEF Confirm, RowTypes
        <3> QED BY <3>1, <3>2
    <2>4. ASSUME NEW o \in Orders, NEW mode, NEW p, NEW q, Allocate(o, mode, p, q) PROVE A
        <3>1. order[o].state = "open" /\ UNCHANGED seats
            BY <2>4 DEF Allocate, EnsureOpen
        <3>2. \A x \in Orders : x # o => member'[x] = member[x]
            BY <1>1, <2>4 DEF Allocate, RowTypes
        <3> QED BY <3>1, <3>2
    <2>5. CASE UNCHANGED <<seats, member>>
        BY <2>5
    <2>6. CASE \E o \in Orders : \/ ReadForInvite(o) \/ Invite(o) \/ InviteExpires(o)
                                 \/ Cancel(o) \/ Expire(o) \/ DeadlinePasses(o)
                                 \/ Submit(o) \/ Accept(o) \/ FailOrder(o)
        BY <2>5, <2>6 DEF ReadForInvite, Invite, InviteExpires, Cancel, Expire, Close,
                          DeadlinePasses, Submit, Accept, FailOrder
    <2>7. ASSUME NEW o \in Orders, Fulfill(o) PROVE A
        <3> DEFINE delivered(u) == [member[o][u] EXCEPT !.state = "delivered"]
        <3>1. \A u \in Users : /\ delivered(u).state = "delivered"
                               /\ delivered(u).share = member[o][u].share
            <4>1. \A u \in Users : member[o][u] \in MemberRow /\ "delivered" \in MemberStates
                BY <1>1 DEF RowTypes, MemberStates
            <4> QED BY <4>1, RowState
        <3> HIDE DEF delivered
        <3>2. member' = [member EXCEPT ![o] =
                  [u \in Users |-> IF u \in Members(o) THEN delivered(u) ELSE member[o][u]]]
            BY <1>1, <2>7 DEF Fulfill, RowTypes, delivered
        <3>3. /\ \A u \in Users : member'[o][u] = IF u \in Members(o) THEN delivered(u) ELSE member[o][u]
              /\ \A x \in Orders : x # o => member'[x] = member[x]
            BY <1>1, <3>2 DEF RowTypes
        <3>4. seats' = seats
            BY <2>7 DEF Fulfill
        <3> QED BY <3>1, <3>3, <3>4 DEF Members, Active
    <2>8. CASE \E u \in Users : SpendElsewhere(u)
        BY <2>5, <2>8 DEF SpendElsewhere
    <2> QED BY <1>1, <2>2, <2>3, <2>4, <2>5, <2>6, <2>7, <2>8 DEF Next, vars
<1>2. CarpoolInv /\ LinesOfOrders /\ [Next]_vars => [A]_vars
    BY <1>1 DEF CarpoolInv
<1> HIDE DEF A
<1>3. Spec => [][A]_vars
    BY <1>2, CarpoolInvariant, LinesKept, PTL DEF Spec
<1> QED BY <1>3 DEF A, SharesFrozen

AccountTypes == balance \in [Users -> Int] /\ spent \in [Users -> Int]

PaidBy(u) == [o \in Orders |-> paid[o][u]]

\* The capture or the refund of an order moves what it adds to paid out of the account.
LEMMA OrderMoves ==
    ASSUME RowTypes, AccountTypes, Conserved, UNCHANGED spent,
           NEW o \in Orders, NEW amount \in [Users -> Int],
           balance' = [u \in Users |-> balance[u] - amount[u]],
           paid' = [paid EXCEPT ![o] = [u \in Users |-> paid[o][u] + amount[u]]],
           \A u \in Users : balance'[u] >= 0
    PROVE  AccountTypes' /\ Conserved'
<1>1. AccountTypes'
    BY DEF AccountTypes
<1>2. ASSUME NEW u \in Users
      PROVE  balance'[u] = Opening - spent'[u] - SumFunction(PaidBy(u)')
    <2> DEFINE f == PaidBy(u)
               g == [x \in Orders |-> paid'[x][u]]
    <2>1. /\ \A x \in Orders : f[x] \in Int /\ g[x] \in Int
          /\ \A x \in Orders : x # o => f[x] = g[x]
          /\ g[o] = f[o] + amount[u]
          /\ DOMAIN f = Orders /\ DOMAIN g = Orders
        BY DEF RowTypes, PaidBy
    <2> HIDE DEF f, g
    <2>2. SumFunctionOnSet(g, Orders) = SumFunctionOnSet(f, Orders) - f[o] + g[o]
        BY <2>1, SumChange, CarpoolAssumption
    <2>3. SumFunctionOnSet(f, Orders) \in Int
        BY <2>1, SumInt, CarpoolAssumption
    <2>4. balance[u] = Opening - spent[u] - SumFunctionOnSet(f, Orders)
        BY <2>1 DEF Conserved, SumFunction, f, PaidBy
    <2>5. SumFunction(g) = SumFunctionOnSet(f, Orders) + amount[u]
        BY <2>1, <2>2, <2>3 DEF SumFunction
    <2>6. SumFunction(PaidBy(u)') = SumFunction(g)
        BY DEF g, PaidBy
    <2>7. balance'[u] = balance[u] - amount[u] /\ spent'[u] = spent[u]
        OBVIOUS
    <2>8. spent[u] \in Int /\ Opening \in Int /\ amount[u] \in Int
        BY CarpoolAssumption DEF AccountTypes
    <2> QED BY <2>3, <2>4, <2>5, <2>6, <2>7, <2>8
<1> QED BY <1>1, <1>2 DEF Conserved, PaidBy

\* No capture overdraws an account, and captures, refunds and other expenses account
\* for every change of a balance.
THEOREM ConservedHolds == Spec => []Conserved
<1>1. Init => AccountTypes /\ Conserved
    <2> SUFFICES ASSUME Init PROVE AccountTypes /\ Conserved
        OBVIOUS
    <2>1. AccountTypes
        BY CarpoolAssumption DEF Init, AccountTypes
    <2>2. ASSUME NEW u \in Users PROVE SumFunction(PaidBy(u)) = 0
        <3> DEFINE f == PaidBy(u)
                   zero == [o \in Orders |-> 0]
        <3>1. f = zero
            BY DEF Init, PaidBy
        <3>2. SumFunction(zero) = SumFunctionOnSet(zero, Orders)
            BY DEF SumFunction
        <3> HIDE DEF f
        <3>3. SumFunctionOnSet(zero, Orders) = 0
            BY SumZero, CarpoolAssumption
        <3> QED BY <3>1, <3>2, <3>3 DEF f
    <2>3. \A u \in Users : balance[u] = Opening /\ spent[u] = 0
        BY DEF Init
    <2> QED BY <2>1, <2>2, <2>3, CarpoolAssumption DEF Conserved, PaidBy
<1>2. CarpoolInv /\ AccountTypes /\ Conserved /\ [Next]_vars => AccountTypes' /\ Conserved'
    <2> SUFFICES ASSUME CarpoolInv, AccountTypes, Conserved, [Next]_vars
                 PROVE  AccountTypes' /\ Conserved'
        OBVIOUS
    <2>0. RowTypes
        BY DEF CarpoolInv
    <2>00. \A v \in Users : balance[v] >= 0
        <3>1. \A v \in Users : balance[v] = Opening - spent[v] - SumFunction(PaidBy(v)) /\ balance[v] >= 0
            BY DEF Conserved, PaidBy
        <3> QED BY <3>1
    <2>1. CASE UNCHANGED <<balance, paid, spent>>
        BY <2>1 DEF AccountTypes, Conserved
    <2>2. ASSUME NEW u \in Users, SpendElsewhere(u) PROVE AccountTypes' /\ Conserved'
        <3>1. AccountTypes'
            BY <2>2 DEF SpendElsewhere, AccountTypes
        <3>2. ASSUME NEW v \in Users PROVE SumFunction(PaidBy(v)) \in Int
            <4> DEFINE f == PaidBy(v)
            <4>1. DOMAIN f = Orders /\ \A o \in Orders : f[o] \in Int
                BY <2>0 DEF RowTypes, PaidBy
            <4> HIDE DEF f
            <4>2. SumFunction(f) \in Int
                BY <4>1, SumInt, CarpoolAssumption DEF SumFunction
            <4> QED BY <4>2 DEF f
        <3>3. \A v \in Users : SumFunction(PaidBy(v)') = SumFunction(PaidBy(v))
            BY <2>2 DEF SpendElsewhere, PaidBy
        <3>4. \A v \in Users : balance[v] = Opening - spent[v] - SumFunction(PaidBy(v)) /\ balance[v] >= 0
            BY DEF Conserved, PaidBy
        <3>5. ASSUME NEW v \in Users
              PROVE  balance'[v] = Opening - spent'[v] - SumFunction(PaidBy(v)') /\ balance'[v] >= 0
            <4>1. \/ balance'[v] = balance[v] /\ spent'[v] = spent[v]
                  \/ balance[v] > 0 /\ balance'[v] = balance[v] - 1 /\ spent'[v] = spent[v] + 1
                BY <2>2 DEF SpendElsewhere, AccountTypes
            <4>2. Opening \in Int /\ balance[v] \in Int /\ spent[v] \in Int /\ SumFunction(PaidBy(v)) \in Int
                BY <3>2, CarpoolAssumption DEF AccountTypes
            <4> QED BY <3>3, <3>4, <4>1, <4>2
        <3> QED BY <3>1, <3>5 DEF Conserved, PaidBy
    <2>3. ASSUME NEW o \in Orders, Submit(o) PROVE AccountTypes' /\ Conserved'
        <3> DEFINE amount == [u \in Users |-> IF u \in Members(o) THEN reservation[o][u].amount ELSE 0]
        <3>1. amount \in [Users -> Int]
            BY <2>0 DEF RowTypes, Reservation
        <3>2. balance' = [u \in Users |-> balance[u] - amount[u]]
            BY <2>3 DEF Submit, AccountTypes
        <3>3. paid' = [paid EXCEPT ![o] = [u \in Users |-> paid[o][u] + amount[u]]]
            <4>1. paid' = [paid EXCEPT ![o] = [u \in Users |->
                        IF u \in Members(o) THEN paid[o][u] + reservation[o][u].amount ELSE paid[o][u]]]
                BY <2>3, <2>0 DEF Submit, RowTypes
            <4>2. \A u \in Users : paid[o][u] \in Int
                BY <2>0 DEF RowTypes
            <4>3. \A u \in Users : paid[o][u] + amount[u] =
                    IF u \in Members(o) THEN paid[o][u] + reservation[o][u].amount ELSE paid[o][u]
                BY <4>2
            <4> HIDE DEF amount
            <4>4. [u \in Users |-> paid[o][u] + amount[u]] = [u \in Users |->
                    IF u \in Members(o) THEN paid[o][u] + reservation[o][u].amount ELSE paid[o][u]]
                BY <4>3
            <4> QED BY <4>1, <4>4
        <3>4. ASSUME NEW u \in Users PROVE balance'[u] >= 0
            <4>0. balance[u] >= 0
                BY <2>00
            <4>1. balance[u] \in Int /\ reservation[o][u].amount \in Int
                <5>1. reservation[o][u] \in Reservation
                    BY <2>0 DEF RowTypes
                <5> QED BY <5>1 DEF Reservation, AccountTypes
            <4>2. u \in Members(o) => balance[u] >= reservation[o][u].amount
                BY <2>3 DEF Submit, Covered
            <4> QED BY <3>2, <4>0, <4>1, <4>2
        <3>5. UNCHANGED spent
            BY <2>3 DEF Submit
        <3> HIDE DEF amount
        <3> QED BY <2>0, <3>1, <3>2, <3>3, <3>4, <3>5, OrderMoves
    <2>4. ASSUME NEW o \in Orders, FailOrder(o) PROVE AccountTypes' /\ Conserved'
        <3> DEFINE amount == [u \in Users |-> IF u \in Refundable(o) THEN 0 - reservation[o][u].amount ELSE 0]
        <3>1. amount \in [Users -> Int]
            BY <2>0 DEF RowTypes, Reservation
        <3>2. balance' = [u \in Users |-> balance[u] - amount[u]]
            BY <2>0, <2>4 DEF FailOrder, AccountTypes, RowTypes, Reservation
        <3>3. paid' = [paid EXCEPT ![o] = [u \in Users |-> paid[o][u] + amount[u]]]
            <4>1. paid' = [paid EXCEPT ![o] = [u \in Users |->
                        IF u \in Refundable(o) THEN paid[o][u] - reservation[o][u].amount ELSE paid[o][u]]]
                BY <2>4, <2>0 DEF FailOrder, RowTypes
            <4>2. \A u \in Users : paid[o][u] \in Int /\ reservation[o][u].amount \in Int
                BY <2>0 DEF RowTypes, Reservation
            <4>3. \A u \in Users : paid[o][u] + amount[u] =
                    IF u \in Refundable(o) THEN paid[o][u] - reservation[o][u].amount ELSE paid[o][u]
                BY <4>2
            <4> HIDE DEF amount
            <4>4. [u \in Users |-> paid[o][u] + amount[u]] = [u \in Users |->
                    IF u \in Refundable(o) THEN paid[o][u] - reservation[o][u].amount ELSE paid[o][u]]
                BY <4>3
            <4> QED BY <4>1, <4>4
        <3>4. ASSUME NEW u \in Users PROVE balance'[u] >= 0
            <4>0. balance[u] >= 0
                BY <2>00
            <4>1. balance[u] \in Int /\ reservation[o][u].amount \in Nat
                <5>1. reservation[o][u] \in Reservation
                    BY <2>0 DEF RowTypes
                <5> QED BY <5>1 DEF Reservation, AccountTypes
            <4> QED BY <3>2, <4>0, <4>1
        <3>5. UNCHANGED spent
            BY <2>4 DEF FailOrder
        <3> HIDE DEF amount
        <3> QED BY <2>0, <3>1, <3>2, <3>3, <3>4, <3>5, OrderMoves
    <2>5. \/ UNCHANGED <<balance, paid, spent>>
          \/ \E o \in Orders : Submit(o) \/ FailOrder(o)
          \/ \E u \in Users : SpendElsewhere(u)
        <3>1. \A o \in Orders, u \in Users :
                  CreateOrder(o, u) \/ AcceptInvite(o, u) \/ Confirm(o, u) \/ Leave(o, u)
                    => UNCHANGED <<balance, paid, spent>>
            BY DEF CreateOrder, AcceptInvite, Confirm, Leave, money
        <3>2. \A o \in Orders : \A mode, p, q :
                  Allocate(o, mode, p, q) => UNCHANGED <<balance, paid, spent>>
            BY DEF Allocate, money
        <3>3. \A o \in Orders :
                  (\/ ReadForInvite(o) \/ Invite(o) \/ InviteExpires(o) \/ Cancel(o)
                   \/ DeadlinePasses(o) \/ Expire(o) \/ Accept(o) \/ Fulfill(o))
                    => UNCHANGED <<balance, paid, spent>>
            BY DEF ReadForInvite, Invite, InviteExpires, Cancel, Close, DeadlinePasses, Expire,
                   Accept, Fulfill, money
        <3>4. CASE UNCHANGED vars
            BY <3>4 DEF vars
        <3>5. CASE Next
            <4> HIDE DEF Conserved, AccountTypes
            <4>1. CASE \E u \in Users : SpendElsewhere(u)
                BY <4>1
            <4>2. CASE \E o \in Orders :
                    \/ \E u \in Users :
                         CreateOrder(o, u) \/ AcceptInvite(o, u) \/ Confirm(o, u) \/ Leave(o, u)
                    \/ \E mode, p, q : Allocate(o, mode, p, q)
                    \/ ReadForInvite(o) \/ Invite(o) \/ InviteExpires(o)
                    \/ Cancel(o) \/ DeadlinePasses(o) \/ Expire(o)
                    \/ Submit(o) \/ Accept(o) \/ Fulfill(o) \/ FailOrder(o)
                <5>1. PICK o \in Orders :
                        \/ \E u \in Users :
                             CreateOrder(o, u) \/ AcceptInvite(o, u) \/ Confirm(o, u) \/ Leave(o, u)
                        \/ \E mode, p, q : Allocate(o, mode, p, q)
                        \/ ReadForInvite(o) \/ Invite(o) \/ InviteExpires(o)
                        \/ Cancel(o) \/ DeadlinePasses(o) \/ Expire(o)
                        \/ Submit(o) \/ Accept(o) \/ Fulfill(o) \/ FailOrder(o)
                    BY <4>2
                <5> QED BY <3>1, <3>2, <3>3, <5>1
            <4> QED BY <3>5, <4>1, <4>2, Zenon DEF Next
        <3> QED BY <3>4, <3>5
    <2> QED BY <2>1, <2>2, <2>3, <2>4, <2>5
<1> QED BY <1>1, <1>2, CarpoolInvariant, PTL DEF Spec
=============================================================================
