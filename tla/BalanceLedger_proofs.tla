------------------------ MODULE BalanceLedger_proofs -------------------------
(***************************************************************************)
(* Proofs about BalanceLedger for any number of sessions, users, codes and *)
(* requests.  LedgerInv is inductive: a step of session s keeps what it    *)
(* says of s (one lemma per statement) and, since s can only touch rows it *)
(* has locked, what it says of every other session (lemma OtherSessions).  *)
(***************************************************************************)
EXTENDS BalanceLedger, TLAPS

-----------------------------------------------------------------------------
\* Amounts

\* A percentage of an amount, rounded, is an amount (round4).
LEMMA ShareNat ==
    ASSUME NEW a \in Nat, NEW p \in Percent
    PROVE  Share(a, p) \in Nat
<1>1. a * p \in Nat
    BY DEF Percent
<1>2. DEFINE n == a * p + 50
<1>3. n \in Nat
    BY <1>1
<1>4. n \div 100 \in Nat
    <2> HIDE DEF n
    <2> QED BY <1>3
<1> QED BY <1>4 DEF Share

\* What a cancelled code pays back is an amount (cancelGiftCode).
LEMMA RefundNat ==
    ASSUME NEW gift \in GiftVersion
    PROVE  Refund(gift) \in Nat
<1>1. gift.amount \in Nat /\ gift.fee \in Nat /\ gift.refundPercent \in Percent
    BY DEF GiftVersion
<1>2. Share(gift.fee, gift.refundPercent) \in Nat
    BY <1>1, ShareNat
<1> QED BY <1>1, <1>2 DEF Refund

\* What a guarded request debits is an amount.
LEMMA TotalDebitNat ==
    ASSUME NEW q \in Request, Guarded(q)
    PROVE  TotalDebit(q) \in Nat
<1>1. q.amount \in Nat /\ q.feePercent \in Percent
    BY LedgerAssumption DEF RequestType, WellFormed, Guarded
<1>2. Share(q.amount, q.feePercent) \in Nat
    BY <1>1, ShareNat
<1> QED BY <1>1, <1>2 DEF TotalDebit

-----------------------------------------------------------------------------
\* The assumptions on the constants, in the form the proofs use them.

\* What the constants are to each other: tables are disjoint, markers are no versions.
LEMMA ConstantFacts ==
    /\ User \subseteq Row /\ Gift \subseteq Row /\ Code \subseteq Row
    /\ Row = User \cup Gift \cup Code
    /\ \A u \in User : u \in Nat /\ u \notin Gift /\ u \notin Code
    /\ \A g \in Gift : g \notin Code
    /\ \A x \in Int \cup GiftVersion \cup CodeVersion : x # NoRow /\ x # Clean
    /\ NoRow # Clean
    /\ Free \notin Session
BY LedgerAssumption, SessionAssumption, TxAssumption

\* What a request of each operation names, and that the accounts it locks are accounts.
LEMMA RequestFacts ==
    ASSUME NEW q \in Request
    PROVE  /\ q.op \in Op /\ q.user \in User /\ q.amount \in Int
           /\ q.op \in {"redeemGift", "cancelGift"} => q.target \in Gift
           /\ q.op \in {"redeemCode", "deleteCode"} => q.target \in Code
           /\ q.op = "transfer" => q.target \in User /\ q.target # q.user
           /\ q.op \in {"recharge", "createGift"} => q.target \notin Row
           /\ q.op \in {"createGift", "transfer"} => q.amount \in Nat
           /\ FirstLocked(q) \in User /\ SecondLocked(q) \in User
           /\ Upserted(q) \in User
<1>1. q \in RequestType /\ WellFormed(q)
    BY LedgerAssumption
<1>2. q.op \in Op /\ q.user \in User /\ q.amount \in Int
    BY <1>1 DEF RequestType
<1>3. q.op = "transfer" => q.target \in User /\ q.target # q.user
    BY <1>1 DEF WellFormed
<1>4. FirstLocked(q) \in User /\ SecondLocked(q) \in User /\ Upserted(q) \in User
    BY <1>2, <1>3 DEF FirstLocked, SecondLocked, Upserted
<1>5. q.op \in {"recharge", "createGift"} => q.target \notin Row
    BY <1>1 DEF WellFormed
<1>6. q.op \in {"createGift", "transfer"} => q.amount \in Nat
    BY <1>1 DEF WellFormed
<1>7. q.op \in {"redeemGift", "cancelGift"} => q.target \in Gift
    BY <1>1 DEF WellFormed
<1>8. q.op \in {"redeemCode", "deleteCode"} => q.target \in Code
    BY <1>1 DEF WellFormed
<1> QED BY <1>2, <1>3, <1>4, <1>5, <1>6, <1>7, <1>8

SessionInv(s) ==
    /\ StatementFitsRequest(s) /\ AccountsHeld(s)
    /\ AccountsApplied(s) /\ GiftsClaimed(s)

\* The amount a session is about to book is a number: the code it claimed is
\* among its drafts.
LEMMA DeltaInt ==
    ASSUME TypeOK, NEW s \in Session, StatementFitsRequest(s), GiftsClaimed(s),
           pc[s] \in {"mutate", "credit", "commit"}
    PROVE  DeltaOf(s) \in Int
<1> DEFINE q == req[s]
<1>1. q \in Request /\ q.op # "deleteCode"
    BY DEF TypeOK, StatementFitsRequest
<1>2. CASE q.op = "recharge"
    BY <1>1, <1>2, RequestFacts DEF DeltaOf, Delta, Guarded, Claims
<1>3. CASE Guarded(q)
    <2>1. TotalDebit(q) \in Nat
        BY <1>1, <1>3, TotalDebitNat
    <2> QED BY <1>3, <2>1 DEF DeltaOf, Delta, Guarded
<1>4. CASE Claims(q)
    <2>1. pc[s] # "credit"
        BY <1>4 DEF StatementFitsRequest, Claims
    <2>2. draft[s][q.target] # Clean
        BY <1>4, <2>1 DEF GiftsClaimed, AfterClaim
    <2>3. Seen(s, q.target) = draft[s][q.target]
        BY <2>2 DEF Seen
    <2>4. CASE q.op = "redeemCode"
        <3>1. draft[s][q.target] \in CodeVersion
            BY <1>1, <2>2, <2>4, RequestFacts DEF TypeOK
        <3> QED BY <3>1, <2>3, <2>4 DEF DeltaOf, Delta, Claims, Guarded, CodeVersion
    <2>5. CASE q.op \in {"redeemGift", "cancelGift"}
        <3>1. draft[s][q.target] \in GiftVersion
            BY <1>1, <2>2, <2>5, RequestFacts DEF TypeOK
        <3>2. Refund(draft[s][q.target]) \in Nat /\ draft[s][q.target].amount \in Nat
            BY <3>1, RefundNat DEF GiftVersion
        <3> QED BY <3>2, <2>3, <2>5 DEF DeltaOf, Delta, Claims, Guarded
    <2> QED BY <1>4, <2>4, <2>5 DEF Claims
<1> QED BY <1>1, <1>2, <1>3, <1>4, RequestFacts DEF Op, Guarded, Claims

\* What a session has added to a balance so far is a number.
LEMMA AppliedInt ==
    ASSUME TypeOK, NEW s \in Session, StatementFitsRequest(s), GiftsClaimed(s), NEW u \in User
    PROVE  Applied(s, u) \in Int
<1>1. req[s] \in Request
    BY DEF TypeOK
<1>2. CASE pc[s] \in {"credit", "commit"}
    BY <1>1, <1>2, DeltaInt, RequestFacts DEF Applied, PostedBy
<1> QED BY <1>2 DEF Applied

\* A step that leaves alone a session and the rows it has locked keeps what the
\* invariant says of that session, whatever else it does.
LEMMA OtherSessions ==
    ASSUME LedgerInv, NEW t \in Session, TypeOK', req' = req,
           pc'[t] = pc[t], draft'[t] = draft[t], view'[t] = view[t],
           \A r \in Row : locks[r] = t => locks'[r] = t /\ committed'[r] = committed[r]
    PROVE  SessionInv(t)'
<1> DEFINE q == req[t]
<1>0. TypeOK /\ DraftsLocked /\ SessionInv(t) /\ q \in Request
    BY DEF LedgerInv, SessionInv, TypeOK
<1>1. StatementFitsRequest(t)'
    BY <1>0 DEF SessionInv, StatementFitsRequest, Claims
<1>2. \A r \in Row : Held(t, r) => Held(t, r)'
    BY DEF Held, Stored
<1>3. FirstLocked(q) \in Row /\ SecondLocked(q) \in Row
    BY <1>0, RequestFacts, ConstantFacts
<1>4. AccountsHeld(t)'
    BY <1>0, <1>2, <1>3 DEF SessionInv, AccountsHeld
<1>5. GiftsClaimed(t)'
    <2>1. \A g \in Gift : draft[t][g] # Clean => committed'[g] = committed[g]
        BY <1>0, ConstantFacts DEF DraftsLocked
    <2> QED BY <1>0, <2>1 DEF SessionInv, GiftsClaimed, Claims
<1>6. \A u \in User : Applied(t, u)' = Applied(t, u)
    <2>1. CASE pc[t] \in {"commit", "credit"} /\ Claims(q)
        <3>1. draft[t][q.target] # Clean
            BY <1>0, <2>1 DEF SessionInv, GiftsClaimed, StatementFitsRequest, AfterClaim, Claims
        <3>2. Seen(t, q.target)' = Seen(t, q.target)
            BY <3>1 DEF Seen
        <3> QED BY <2>1, <3>2 DEF Applied, PostedBy, DeltaOf
    <2>2. CASE pc[t] \in {"commit", "credit"} /\ ~Claims(q)
        BY <2>2 DEF Applied, PostedBy, DeltaOf
    <2>3. CASE pc[t] \notin {"commit", "credit"}
        BY <2>3 DEF Applied
    <2> QED BY <2>1, <2>2, <2>3
<1>7. AccountsApplied(t)'
    <2> SUFFICES ASSUME NEW u \in User
                 PROVE  Balance(Stored(t, u))' = Balance(committed[u])' + Applied(t, u)'
        BY DEF AccountsApplied
    <2>1. Balance(Stored(t, u)) = Balance(committed[u]) + Applied(t, u)
        BY <1>0 DEF SessionInv, AccountsApplied
    <2>2. CASE draft[t][u] # Clean
        <3>1. committed'[u] = committed[u]
            BY <1>0, <2>2, ConstantFacts DEF DraftsLocked
        <3> QED BY <2>1, <2>2, <3>1, <1>6 DEF Stored
    <2>3. CASE draft[t][u] = Clean
        <3>1. Applied(t, u) \in Int
            BY <1>0, AppliedInt DEF SessionInv
        <3>2. Balance(committed[u]) \in Int /\ Balance(committed'[u]) \in Int
            BY <1>0, TypeOK' DEF TypeOK, Balance
        <3>3. Applied(t, u) = 0
            BY <2>1, <2>3, <3>1, <3>2 DEF Stored
        <3> QED BY <2>3, <3>2, <3>3, <1>6 DEF Stored
    <2> QED BY <2>2, <2>3
<1> QED BY <1>1, <1>4, <1>5, <1>7 DEF SessionInv

-----------------------------------------------------------------------------
\* The step of a session, put together: what is left to show of a statement is
\* the types and what the invariant says of the session itself.

\* A step touches the variables of session s only.
OnlyOf(s) ==
    \A t \in Session \ {s} : pc'[t] = pc[t] /\ draft'[t] = draft[t] /\ view'[t] = view[t]

\* A step of s keeps the invariant if it keeps it for s and leaves alone every row
\* that another session has locked.
LEMMA StepKeepsInv ==
    ASSUME LedgerInv, NEW s \in Session, OnlyOf(s), req' = req,
           TypeOK', DraftsLocked', SessionInv(s)', BalancesMatchLedger', GiftsSettleOnce',
           \A r \in Row : locks[r] \in Session \ {s} =>
                            locks'[r] = locks[r] /\ committed'[r] = committed[r]
    PROVE  LedgerInv'
<1>1. ASSUME NEW t \in Session
      PROVE  SessionInv(t)'
    <2>1. CASE t = s
        BY <2>1
    <2>2. CASE t # s
        BY <2>2, OtherSessions DEF OnlyOf
    <2> QED BY <2>1, <2>2
<1> QED BY <1>1 DEF LedgerInv, SessionInv

\* A statement that commits nothing and takes at most free locks.
LEMMA StatementKeepsInv ==
    ASSUME LedgerInv, NEW s \in Session, OnlyOf(s), UNCHANGED <<committed, req, posted>>,
           TypeOK', SessionInv(s)',
           \A r \in Row : \/ locks'[r] = locks[r]
                          \/ LockIsFree(s, r) /\ locks'[r] = s,
           \A r \in Row : draft'[s][r] # Clean => locks'[r] = s
    PROVE  LedgerInv'
<1>1. DraftsLocked'
    BY ConstantFacts DEF LedgerInv, DraftsLocked, OnlyOf, LockIsFree
<1>2. BalancesMatchLedger' /\ GiftsSettleOnce'
    BY DEF LedgerInv, BalancesMatchLedger, GiftsSettleOnce
<1>3. \A r \in Row : locks[r] \in Session \ {s} => locks'[r] = locks[r]
    BY ConstantFacts DEF LockIsFree
<1> QED BY <1>1, <1>2, <1>3, StepKeepsInv

\* Fixing the view of a session keeps the types.
LEMMA ViewType ==
    ASSUME TypeOK, NEW s \in Session, FixView(s)
    PROVE  /\ DOMAIN view' = Session
           /\ \A t \in Session \ {s} : view'[t] = view[t]
           /\ \A t \in Session : view'[t] # NoView =>
                /\ DOMAIN view'[t] = Row
                /\ \A u \in User : view'[t][u] \in Int \cup {NoRow}
                /\ \A g \in Gift : view'[t][g] \in GiftVersion \cup {NoRow}
                /\ \A c \in Code : view'[t][c] \in CodeVersion \cup {NoRow}
<1>1. DOMAIN view' = Session /\ view'[s] = ViewOf(s)
    BY DEF TypeOK, FixView
<1>2. \A t \in Session \ {s} : view'[t] = view[t]
    BY DEF TypeOK, FixView
<1>3. ASSUME NEW t \in Session, view'[t] # NoView
      PROVE  /\ DOMAIN view'[t] = Row
             /\ \A u \in User : view'[t][u] \in Int \cup {NoRow}
             /\ \A g \in Gift : view'[t][g] \in GiftVersion \cup {NoRow}
             /\ \A c \in Code : view'[t][c] \in CodeVersion \cup {NoRow}
    <2>1. CASE t = s /\ view[s] = NoView
        BY <1>1, <2>1 DEF TypeOK, ViewOf
    <2>2. CASE t # s \/ view[s] # NoView
        <3>1. view'[t] = view[t]
            BY <1>1, <1>2, <2>2 DEF ViewOf
        <3> QED BY <1>3, <3>1 DEF TypeOK
    <2> QED BY <2>1, <2>2
<1> QED BY <1>1, <1>2, <1>3

\* What a write of a session changes, and that a well-typed version keeps the types.
LEMMA WriteType ==
    ASSUME TypeOK, NEW s \in Session, NEW r \in Row, NEW v, Write(s, r, v),
           r \in User => v \in Int, r \in Gift => v \in GiftVersion,
           r \in Code => v \in CodeVersion
    PROVE  /\ DOMAIN draft' = Session
           /\ draft'[s][r] = v
           /\ \A k \in Row \ {r} : draft'[s][k] = draft[s][k]
           /\ \A t \in Session \ {s} : draft'[t] = draft[t]
           /\ \A t \in Session :
                /\ DOMAIN draft'[t] = Row
                /\ \A u \in User : draft'[t][u] \in Int \cup {Clean}
                /\ \A g \in Gift : draft'[t][g] \in GiftVersion \cup {Clean}
                /\ \A c \in Code : draft'[t][c] \in CodeVersion \cup {Clean}
<1>1. DOMAIN draft = Session /\ DOMAIN draft[s] = Row
    BY DEF TypeOK
<1>2. draft'[s] = [draft[s] EXCEPT ![r] = v] /\ DOMAIN draft' = Session
    BY <1>1 DEF Write
<1>3. \A t \in Session \ {s} : draft'[t] = draft[t]
    BY <1>1 DEF Write
<1>4. draft'[s][r] = v /\ (\A k \in Row \ {r} : draft'[s][k] = draft[s][k]) /\ DOMAIN draft'[s] = Row
    BY <1>1, <1>2
<1>5. ASSUME NEW t \in Session
      PROVE  /\ DOMAIN draft'[t] = Row
             /\ \A u \in User : draft'[t][u] \in Int \cup {Clean}
             /\ \A g \in Gift : draft'[t][g] \in GiftVersion \cup {Clean}
             /\ \A c \in Code : draft'[t][c] \in CodeVersion \cup {Clean}
    <2>1. CASE t = s
        BY <1>4, <2>1, ConstantFacts DEF TypeOK
    <2>2. CASE t # s
        BY <1>3, <2>2 DEF TypeOK
    <2> QED BY <2>1, <2>2
<1> QED BY <1>2, <1>3, <1>4, <1>5

\* What the end of a transaction leaves, by commit or by rollback.
LEMMA EndTxType ==
    ASSUME TypeOK, NEW s \in Session, EndTx(s)
    PROVE  /\ DOMAIN view' = Session /\ DOMAIN draft' = Session
           /\ view'[s] = NoView /\ draft'[s] = [r \in Row |-> Clean]
           /\ \A t \in Session \ {s} : draft'[t] = draft[t] /\ view'[t] = view[t]
           /\ locks' \in [Row -> Session \cup {Free}]
           /\ \A r \in Row : locks'[r] = IF locks[r] = s THEN Free ELSE locks[r]
           /\ \A t \in Session :
                /\ DOMAIN draft'[t] = Row
                /\ \A u \in User : draft'[t][u] \in Int \cup {Clean}
                /\ \A g \in Gift : draft'[t][g] \in GiftVersion \cup {Clean}
                /\ \A c \in Code : draft'[t][c] \in CodeVersion \cup {Clean}
                /\ view'[t] # NoView =>
                    /\ DOMAIN view'[t] = Row
                    /\ \A u \in User : view'[t][u] \in Int \cup {NoRow}
                    /\ \A g \in Gift : view'[t][g] \in GiftVersion \cup {NoRow}
                    /\ \A c \in Code : view'[t][c] \in CodeVersion \cup {NoRow}
<1>1. DOMAIN view' = Session /\ view'[s] = NoView /\ \A t \in Session \ {s} : view'[t] = view[t]
    BY DEF TypeOK, EndTx
<1>2. DOMAIN draft' = Session /\ draft'[s] = [r \in Row |-> Clean]
      /\ \A t \in Session \ {s} : draft'[t] = draft[t]
    BY DEF TypeOK, EndTx
<1>3. locks' = [r \in Row |-> IF locks[r] = s THEN Free ELSE locks[r]]
    BY DEF EndTx
<1>4. locks' \in [Row -> Session \cup {Free}]
    BY <1>3 DEF TypeOK
<1>5. ASSUME NEW t \in Session
      PROVE  /\ DOMAIN draft'[t] = Row
             /\ \A u \in User : draft'[t][u] \in Int \cup {Clean}
             /\ \A g \in Gift : draft'[t][g] \in GiftVersion \cup {Clean}
             /\ \A c \in Code : draft'[t][c] \in CodeVersion \cup {Clean}
             /\ view'[t] # NoView =>
                 /\ DOMAIN view'[t] = Row
                 /\ \A u \in User : view'[t][u] \in Int \cup {NoRow}
                 /\ \A g \in Gift : view'[t][g] \in GiftVersion \cup {NoRow}
                 /\ \A c \in Code : view'[t][c] \in CodeVersion \cup {NoRow}
    <2>1. CASE t = s
        BY <1>1, <1>2, <2>1, ConstantFacts
    <2>2. CASE t # s
        BY <1>1, <1>2, <2>2 DEF TypeOK
    <2> QED BY <2>1, <2>2
<1> QED BY <1>1, <1>2, <1>3, <1>4, <1>5

-----------------------------------------------------------------------------
\* One lemma per statement: a step of session s.

\* Rolling back a transaction, by an error or by being cut off, keeps the invariant.
LEMMA ThrowKeepsInv ==
    ASSUME LedgerInv, NEW s \in Session, Throw(s)
    PROVE  LedgerInv'
<1>0. TypeOK /\ req[s] \in Request
    BY DEF LedgerInv, TypeOK
<1>a. EndTx(s) /\ UNCHANGED <<committed, req, posted>> /\ pc' = [pc EXCEPT ![s] = "failed"]
    BY DEF Throw, RollbackTx, Goto
<1>1. OnlyOf(s)
    BY <1>0, <1>a, EndTxType DEF OnlyOf, TypeOK
<1>2. /\ pc'[s] = "failed" /\ draft'[s] = [r \in Row |-> Clean]
      /\ UNCHANGED <<committed, req, posted>>
      /\ \A r \in Row : locks'[r] = IF locks[r] = s THEN Free ELSE locks[r]
    BY <1>0, <1>a, EndTxType DEF TypeOK
<1>3. TypeOK'
    BY <1>0, <1>a, EndTxType DEF TypeOK
<1>4. DraftsLocked'
    BY <1>1, <1>2 DEF LedgerInv, DraftsLocked, OnlyOf
<1>5. SessionInv(s)'
    <2>1. StatementFitsRequest(s)' /\ AccountsHeld(s)'
        BY <1>2 DEF StatementFitsRequest, AccountsHeld
    <2>2. \A r \in Row : draft'[s][r] = Clean
        BY <1>2
    <2>3. GiftsClaimed(s)'
        BY <1>2, <2>2, ConstantFacts DEF GiftsClaimed, AfterClaim
    <2>4. \A u \in User : Applied(s, u)' = 0 /\ Stored(s, u)' = committed'[u]
        BY <1>2, <2>2, ConstantFacts DEF Applied, Stored
    <2>5. \A u \in User : Balance(committed'[u]) \in Int
        BY <1>3 DEF TypeOK, Balance
    <2>6. AccountsApplied(s)'
        BY <2>4, <2>5 DEF AccountsApplied
    <2> QED BY <2>1, <2>3, <2>6 DEF SessionInv
<1>6. BalancesMatchLedger' /\ GiftsSettleOnce'
    BY <1>2 DEF LedgerInv, BalancesMatchLedger, GiftsSettleOnce
<1>7. \A r \in Row : locks[r] \in Session \ {s} => locks'[r] = locks[r] /\ committed'[r] = committed[r]
    BY <1>2
<1> QED BY <1>1, <1>2, <1>3, <1>4, <1>5, <1>6, <1>7, StepKeepsInv

\* The read of a gift or redemption code keeps the invariant.
LEMMA ReadCodeKeepsInv ==
    ASSUME LedgerInv, NEW s \in Session, ReadCode(s)
    PROVE  LedgerInv'
<1>1. CASE Throw(s)
    BY <1>1, ThrowKeepsInv
<1>2. CASE ~Throw(s)
    <2>0. TypeOK /\ SessionInv(s) /\ req[s] \in Request
        BY DEF LedgerInv, SessionInv, TypeOK
    <2>1. /\ pc[s] = "read" /\ FixView(s) /\ pc' = [pc EXCEPT ![s] = "claim"]
          /\ UNCHANGED <<committed, draft, locks, req, posted>>
        BY <1>2 DEF ReadCode, Goto
    <2>2. TypeOK'
        BY <2>0, <2>1, ViewType DEF TypeOK
    <2>3. OnlyOf(s) /\ pc'[s] = "claim"
        BY <2>0, <2>1, ViewType DEF OnlyOf, TypeOK
    <2>4. SessionInv(s)'
        BY <2>0, <2>1, <2>3 DEF SessionInv, StatementFitsRequest, AccountsHeld,
                AccountsApplied, GiftsClaimed, Applied, Stored, AfterClaim
    <2>5. \A r \in Row : draft'[s][r] # Clean => locks'[r] = s
        BY <2>1 DEF LedgerInv, DraftsLocked
    <2> QED BY <2>1, <2>2, <2>3, <2>4, <2>5, StatementKeepsInv
<1> QED BY <1>1, <1>2

\* The conditional claim of a gift code keeps the invariant: the version it finds
\* active is the committed one, and is locked from then on.
LEMMA ClaimGiftKeepsInv ==
    ASSUME LedgerInv, NEW s \in Session, ClaimGift(s)
    PROVE  LedgerInv'
<1> DEFINE q == req[s]
           gift == Stored(s, q.target)
           claimed == IF q.op = "redeemGift" THEN "redeemed" ELSE "cancelled"
<1>1. CASE Throw(s)
    BY <1>1, ThrowKeepsInv
<1>2. CASE ~Throw(s)
    <2>0. TypeOK /\ SessionInv(s) /\ q \in Request
        BY DEF LedgerInv, SessionInv, TypeOK
    <2>1. /\ pc[s] = "claim" /\ q.op \in {"redeemGift", "cancelGift"}
          /\ LockIsFree(s, q.target) /\ TakeLock(s, q.target)
          /\ gift # NoRow /\ gift.state = "active"
          /\ Write(s, q.target, [gift EXCEPT !.state = claimed])
          /\ pc' = [pc EXCEPT ![s] = "upsert"]
          /\ UNCHANGED <<committed, view, req, posted>>
        BY <1>2 DEF ClaimGift, Claimable, ClaimedState, Goto
    <2>2. q.target \in Gift /\ q.target \in Row /\ Claims(q)
        BY <2>0, <2>1, RequestFacts, ConstantFacts DEF Claims
    <2>3. gift = committed[q.target]
        \* a claim already made would not be on an active code
        BY <2>0, <2>1, <2>2 DEF SessionInv, GiftsClaimed, ClaimedState, Stored, TypeOK, GiftVersion
    <2>4. gift \in GiftVersion /\ [gift EXCEPT !.state = claimed] \in GiftVersion
        <3>1. q.target \in Gift
            BY <2>0, <2>1, RequestFacts
        <3>2. gift \in GiftVersion
            BY <2>0, <2>1, <2>3, <3>1 DEF TypeOK, GiftVersion
        <3>3. claimed \in {"redeemed", "cancelled"}
            BY <2>1
        <3> HIDE DEF gift, claimed, q
        <3> QED BY <3>2, <3>3 DEF GiftVersion
    <2> DEFINE after == [gift EXCEPT !.state = claimed]
    <2>5. /\ DOMAIN draft' = Session /\ draft'[s][q.target] = after
          /\ \A k \in Row \ {q.target} : draft'[s][k] = draft[s][k]
          /\ \A t \in Session \ {s} : draft'[t] = draft[t]
          /\ \A t \in Session :
               /\ DOMAIN draft'[t] = Row
               /\ \A u \in User : draft'[t][u] \in Int \cup {Clean}
               /\ \A g \in Gift : draft'[t][g] \in GiftVersion \cup {Clean}
               /\ \A c \in Code : draft'[t][c] \in CodeVersion \cup {Clean}
        <3> HIDE DEF after
        <3>1. Write(s, q.target, after) /\ after \in GiftVersion
            BY <2>1, <2>4 DEF after
        <3> QED BY <2>0, <2>2, <3>1, WriteType, ConstantFacts
    <2>6. pc'[s] = "upsert" /\ (\A t \in Session \ {s} : pc'[t] = pc[t])
        BY <2>0, <2>1 DEF TypeOK
    <2>7. locks'[q.target] = s /\ \A k \in Row \ {q.target} : locks'[k] = locks[k]
        BY <2>0, <2>1, <2>2 DEF TypeOK, TakeLock
    <2>8. TypeOK'
        BY <2>0, <2>1, <2>2, <2>5, <2>6 DEF TypeOK, TakeLock
    <2>9. OnlyOf(s)
        BY <2>1, <2>5, <2>6 DEF OnlyOf
    <2>10. StatementFitsRequest(s)' /\ AccountsHeld(s)'
        BY <2>1, <2>6 DEF StatementFitsRequest, AccountsHeld
    <2>11. AccountsApplied(s)'
        BY <2>0, <2>1, <2>2, <2>5, <2>6, ConstantFacts
            DEF SessionInv, AccountsApplied, Applied, Stored
    <2>12. GiftsClaimed(s)'
        BY <2>0, <2>1, <2>2, <2>3, <2>4, <2>5, <2>6, ConstantFacts
            DEF SessionInv, GiftsClaimed, ClaimedState, AfterClaim
    <2>13. \A r \in Row : draft'[s][r] # Clean => locks'[r] = s
        BY <2>5, <2>7 DEF LedgerInv, DraftsLocked
    <2>14. \A r \in Row : locks'[r] = locks[r] \/ (LockIsFree(s, r) /\ locks'[r] = s)
        BY <2>1, <2>7
    <2> QED BY <2>1, <2>8, <2>9, <2>10, <2>11, <2>12, <2>13, <2>14, StatementKeepsInv DEF SessionInv
<1> QED BY <1>1, <1>2

\* Marking a redemption code as used keeps the invariant.
LEMMA UseCodeKeepsInv ==
    ASSUME LedgerInv, NEW s \in Session, UseCode(s)
    PROVE  LedgerInv'
<1> DEFINE q == req[s]
           code == Stored(s, q.target)
           after == [code EXCEPT !.usedBy = q.user]
<1>1. CASE Throw(s)
    BY <1>1, ThrowKeepsInv
<1>2. CASE ~Throw(s)
    <2>0. TypeOK /\ SessionInv(s) /\ q \in Request
        BY DEF LedgerInv, SessionInv, TypeOK
    <2>1. /\ pc[s] = "claim" /\ q.op = "redeemCode"
          /\ LockIsFree(s, q.target) /\ TakeLock(s, q.target)
          /\ code # NoRow
          /\ Write(s, q.target, after)
          /\ pc' = [pc EXCEPT ![s] = "upsert"]
          /\ UNCHANGED <<committed, view, req, posted>>
        BY <1>2 DEF UseCode, Goto
    <2>2. q.target \in Code /\ q.target \in Row /\ q.user \in User /\ Claims(q)
        BY <2>0, <2>1, RequestFacts, ConstantFacts DEF Claims
    <2>3. code \in CodeVersion
        BY <2>0, <2>1, <2>2 DEF Stored, TypeOK
    <2>4. after \in CodeVersion
        BY <2>2, <2>3 DEF CodeVersion
    <2>5. /\ DOMAIN draft' = Session /\ draft'[s][q.target] = after
          /\ \A k \in Row \ {q.target} : draft'[s][k] = draft[s][k]
          /\ \A t \in Session \ {s} : draft'[t] = draft[t]
          /\ \A t \in Session :
               /\ DOMAIN draft'[t] = Row
               /\ \A u \in User : draft'[t][u] \in Int \cup {Clean}
               /\ \A g \in Gift : draft'[t][g] \in GiftVersion \cup {Clean}
               /\ \A c \in Code : draft'[t][c] \in CodeVersion \cup {Clean}
        <3> HIDE DEF after
        <3> QED BY <2>0, <2>1, <2>2, <2>4, WriteType, ConstantFacts
    <2>6. pc'[s] = "upsert" /\ (\A t \in Session \ {s} : pc'[t] = pc[t])
        BY <2>0, <2>1 DEF TypeOK
    <2>7. locks'[q.target] = s /\ \A k \in Row \ {q.target} : locks'[k] = locks[k]
        BY <2>0, <2>1, <2>2 DEF TypeOK, TakeLock
    <2>8. TypeOK'
        BY <2>0, <2>1, <2>2, <2>5, <2>6 DEF TypeOK, TakeLock
    <2>9. OnlyOf(s)
        BY <2>1, <2>5, <2>6 DEF OnlyOf
    <2>10. StatementFitsRequest(s)' /\ AccountsHeld(s)'
        BY <2>1, <2>6 DEF StatementFitsRequest, AccountsHeld
    <2>11. AccountsApplied(s)'
        BY <2>0, <2>1, <2>2, <2>5, <2>6, ConstantFacts
            DEF SessionInv, AccountsApplied, Applied, Stored
    <2>12. GiftsClaimed(s)'
        BY <2>0, <2>1, <2>2, <2>4, <2>5, <2>6, ConstantFacts
            DEF SessionInv, GiftsClaimed, AfterClaim
    <2>13. \A r \in Row : draft'[s][r] # Clean => locks'[r] = s
        BY <2>5, <2>7 DEF LedgerInv, DraftsLocked
    <2>14. \A r \in Row : locks'[r] = locks[r] \/ (LockIsFree(s, r) /\ locks'[r] = s)
        BY <2>1, <2>7
    <2> QED BY <2>1, <2>8, <2>9, <2>10, <2>11, <2>12, <2>13, <2>14, StatementKeepsInv DEF SessionInv
<1> QED BY <1>1, <1>2

\* The read of an upsert keeps the invariant.
LEMMA UpsertReadKeepsInv ==
    ASSUME LedgerInv, NEW s \in Session, UpsertRead(s)
    PROVE  LedgerInv'
<1>0. TypeOK /\ SessionInv(s) /\ req[s] \in Request
    BY DEF LedgerInv, SessionInv, TypeOK
<1>1. /\ pc[s] = "upsert" /\ FixView(s)
      /\ pc' = [pc EXCEPT ![s] = IF Seen(s, Upserted(req[s])) = NoRow THEN "insert" ELSE "lock"]
      /\ UNCHANGED <<committed, draft, locks, req, posted>>
    BY DEF UpsertRead, Goto
<1>2. TypeOK'
    BY <1>0, <1>1, ViewType DEF TypeOK
<1>3. OnlyOf(s) /\ pc'[s] \in {"insert", "lock"}
    BY <1>0, <1>1, ViewType DEF OnlyOf, TypeOK
<1>4. SessionInv(s)'
    BY <1>0, <1>1, <1>3 DEF SessionInv, StatementFitsRequest, AccountsHeld,
            AccountsApplied, GiftsClaimed, Applied, Stored, AfterClaim
<1>5. \A r \in Row : draft'[s][r] # Clean => locks'[r] = s
    BY <1>1 DEF LedgerInv, DraftsLocked
<1> QED BY <1>1, <1>2, <1>3, <1>4, <1>5, StatementKeepsInv

\* The insert of an empty account keeps the invariant.
LEMMA UpsertInsertKeepsInv ==
    ASSUME LedgerInv, NEW s \in Session, UpsertInsert(s)
    PROVE  LedgerInv'
<1> DEFINE q == req[s]
           account == Upserted(q)
<1>1. CASE Throw(s)
    BY <1>1, ThrowKeepsInv
<1>2. CASE ~Throw(s)
    <2>0. TypeOK /\ SessionInv(s) /\ q \in Request
        BY DEF LedgerInv, SessionInv, TypeOK
    <2>1. /\ pc[s] = "insert"
          /\ LockIsFree(s, account) /\ TakeLock(s, account)
          /\ Stored(s, account) = NoRow
          /\ Write(s, account, 0)
          /\ pc' = [pc EXCEPT ![s] = "lock"]
          /\ UNCHANGED <<committed, view, req, posted>>
        BY <1>2 DEF UpsertInsert, Goto
    <2>2. account \in User /\ account \in Row
        BY <2>0, RequestFacts, ConstantFacts
    <2>5. /\ DOMAIN draft' = Session /\ draft'[s][account] = 0
          /\ \A k \in Row \ {account} : draft'[s][k] = draft[s][k]
          /\ \A t \in Session \ {s} : draft'[t] = draft[t]
          /\ \A t \in Session :
               /\ DOMAIN draft'[t] = Row
               /\ \A u \in User : draft'[t][u] \in Int \cup {Clean}
               /\ \A g \in Gift : draft'[t][g] \in GiftVersion \cup {Clean}
               /\ \A c \in Code : draft'[t][c] \in CodeVersion \cup {Clean}
        BY <2>0, <2>1, <2>2, WriteType, ConstantFacts
    <2>6. pc'[s] = "lock" /\ (\A t \in Session \ {s} : pc'[t] = pc[t])
        BY <2>0, <2>1 DEF TypeOK
    <2>7. locks'[account] = s /\ \A k \in Row \ {account} : locks'[k] = locks[k]
        BY <2>0, <2>1, <2>2 DEF TypeOK, TakeLock
    <2>8. TypeOK'
        BY <2>0, <2>1, <2>2, <2>5, <2>6 DEF TypeOK, TakeLock
    <2>9. OnlyOf(s)
        BY <2>1, <2>5, <2>6 DEF OnlyOf
    <2>10. StatementFitsRequest(s)' /\ AccountsHeld(s)'
        BY <2>0, <2>1, <2>6 DEF SessionInv, StatementFitsRequest, AccountsHeld
    <2>11. AccountsApplied(s)'
        <3>1. \A u \in User : Balance(Stored(s, u))' = Balance(Stored(s, u))
            BY <2>1, <2>2, <2>5, ConstantFacts DEF Stored, Balance
        <3> QED BY <2>0, <2>1, <2>6, <3>1 DEF SessionInv, AccountsApplied, Applied
    <2>12. GiftsClaimed(s)'
        <3>1. \A g \in Gift : draft'[s][g] = draft[s][g]
            BY <2>2, <2>5, ConstantFacts
        <3>2. Claims(q) => q.target \in Row /\ q.target # account
            BY <2>0, <2>2, RequestFacts, ConstantFacts DEF Claims
        <3> QED BY <2>0, <2>1, <2>5, <2>6, <3>1, <3>2 DEF SessionInv, GiftsClaimed, AfterClaim, Claims
    <2>13. \A r \in Row : draft'[s][r] # Clean => locks'[r] = s
        BY <2>5, <2>7 DEF LedgerInv, DraftsLocked
    <2>14. \A r \in Row : locks'[r] = locks[r] \/ (LockIsFree(s, r) /\ locks'[r] = s)
        BY <2>1, <2>7
    <2> QED BY <2>1, <2>8, <2>9, <2>10, <2>11, <2>12, <2>13, <2>14, StatementKeepsInv DEF SessionInv
<1> QED BY <1>1, <1>2

\* SELECT ... FOR UPDATE keeps the invariant: the account is held once it succeeds.
LEMMA LockAccountKeepsInv ==
    ASSUME LedgerInv, NEW s \in Session, LockAccount(s)
    PROVE  LedgerInv'
<1> DEFINE q == req[s]
           second == pc[s] = "lockSecond"
           account == IF second THEN SecondLocked(q) ELSE FirstLocked(q)
           next == IF q.op = "transfer" /\ ~second THEN "lockSecond" ELSE "mutate"
<1>1. CASE Throw(s)
    BY <1>1, ThrowKeepsInv
<1>2. CASE ~Throw(s)
    <2>0. TypeOK /\ SessionInv(s) /\ q \in Request
        BY DEF LedgerInv, SessionInv, TypeOK
    <2>1. /\ pc[s] \in {"lock", "lockSecond"}
          /\ LockIsFree(s, account) /\ TakeLock(s, account)
          /\ Stored(s, account) # NoRow
          /\ pc' = [pc EXCEPT ![s] = next]
          /\ UNCHANGED <<committed, view, draft, req, posted>>
        BY <1>2 DEF LockAccount, Goto
    <2>2. PICK a \in User : a = account /\ a \in Row
        BY <2>0, RequestFacts, ConstantFacts
    <2>3. pc'[s] = next /\ (\A t \in Session \ {s} : pc'[t] = pc[t])
        BY <2>0, <2>1 DEF TypeOK
    <2>4. locks'[a] = s /\ \A k \in Row \ {a} : locks'[k] = locks[k]
        BY <2>0, <2>1, <2>2 DEF TypeOK, TakeLock
    <2>5. TypeOK'
        BY <2>0, <2>1, <2>2 DEF TypeOK, TakeLock
    <2>6. OnlyOf(s)
        BY <2>1, <2>3 DEF OnlyOf
    <2>7. StatementFitsRequest(s)'
        BY <2>0, <2>1, <2>3 DEF SessionInv, StatementFitsRequest
    <2>8. AccountsHeld(s)'
        <3>1. Held(s, a)'
            BY <2>1, <2>2, <2>4 DEF Held, Stored
        <3>2. \A r \in Row : Held(s, r) => Held(s, r)'
            BY <2>1, <2>4 DEF Held, Stored
        <3>3. FirstLocked(q) \in Row /\ SecondLocked(q) \in Row
            BY <2>0, RequestFacts, ConstantFacts
        <3>4. CASE next = "lockSecond"
            BY <2>1, <2>2, <2>3, <3>1, <3>4 DEF AccountsHeld
        <3>5. CASE next = "mutate" /\ q.op = "transfer"
            BY <2>0, <2>1, <2>2, <2>3, <3>1, <3>2, <3>3, <3>5 DEF SessionInv, AccountsHeld
        <3>6. CASE next = "mutate" /\ q.op # "transfer"
            <4>1. FirstLocked(q) = a /\ SecondLocked(q) = a
                BY <2>2, <3>6 DEF FirstLocked, SecondLocked
            <4> QED BY <2>1, <2>3, <3>1, <3>6, <4>1 DEF AccountsHeld
        <3> QED BY <3>4, <3>5, <3>6
    <2>9. AccountsApplied(s)'
        BY <2>0, <2>1, <2>3 DEF SessionInv, AccountsApplied, Applied, Stored
    <2>10. GiftsClaimed(s)'
        <3>1. pc[s] = "lockSecond" => ~Claims(q)
            BY <2>0 DEF SessionInv, StatementFitsRequest, Claims
        <3> QED BY <2>0, <2>1, <2>3, <3>1 DEF SessionInv, GiftsClaimed, AfterClaim
    <2>11. \A r \in Row : draft'[s][r] # Clean => locks'[r] = s
        BY <2>1, <2>2, <2>4 DEF LedgerInv, DraftsLocked
    <2>12. \A r \in Row : locks'[r] = locks[r] \/ (LockIsFree(s, r) /\ locks'[r] = s)
        BY <2>1, <2>2, <2>4
    <2> QED BY <2>1, <2>5, <2>6, <2>7, <2>8, <2>9, <2>10, <2>11, <2>12, StatementKeepsInv DEF SessionInv
<1> QED BY <1>1, <1>2

\* The first balance update of a request keeps the invariant: it adds, to the latest
\* version of a locked account, what the ledger row will say.
LEMMA MutateAccountKeepsInv ==
    ASSUME LedgerInv, NEW s \in Session, MutateAccount(s)
    PROVE  LedgerInv'
<1> DEFINE q == req[s]
           after == Stored(s, q.user) + DeltaOf(s)
           next == IF q.op = "transfer" THEN "credit" ELSE "commit"
<1>1. CASE Throw(s)
    BY <1>1, ThrowKeepsInv
<1>2. CASE ~Throw(s)
    <2>0. TypeOK /\ SessionInv(s) /\ q \in Request
        BY DEF LedgerInv, SessionInv, TypeOK
    <2>1. /\ pc[s] = "mutate" /\ FixView(s)
          /\ Write(s, q.user, after)
          /\ pc' = [pc EXCEPT ![s] = next]
          /\ UNCHANGED <<committed, locks, req, posted>>
        BY <1>2 DEF MutateAccount, Incremented, Goto
    <2>2. q.user \in User /\ q.user \in Row
        BY <2>0, RequestFacts, ConstantFacts
    <2>3. DeltaOf(s) \in Int
        BY <2>0, <2>1, DeltaInt DEF SessionInv
    <2>4. Held(s, FirstLocked(q)) /\ Held(s, SecondLocked(q))
        BY <2>0, <2>1 DEF SessionInv, AccountsHeld
    <2>5. locks[q.user] = s /\ Stored(s, q.user) # NoRow
        <3>1. q.user \in {FirstLocked(q), SecondLocked(q)}
            <4>1. q.op = "transfer" => q.target \in Nat /\ q.user \in Nat
                BY <2>0, RequestFacts, ConstantFacts
            <4> QED BY <4>1 DEF FirstLocked, SecondLocked
        <3> QED BY <2>4, <3>1 DEF Held
    <2>6. Stored(s, q.user) \in Int
        BY <2>0, <2>2, <2>5 DEF Stored, TypeOK
    <2>7. after \in Int
        BY <2>3, <2>6
    <2>8. /\ DOMAIN draft' = Session /\ draft'[s][q.user] = after
          /\ \A k \in Row \ {q.user} : draft'[s][k] = draft[s][k]
          /\ \A t \in Session \ {s} : draft'[t] = draft[t]
          /\ \A t \in Session :
               /\ DOMAIN draft'[t] = Row
               /\ \A u \in User : draft'[t][u] \in Int \cup {Clean}
               /\ \A g \in Gift : draft'[t][g] \in GiftVersion \cup {Clean}
               /\ \A c \in Code : draft'[t][c] \in CodeVersion \cup {Clean}
        <3> HIDE DEF after
        <3> QED BY <2>0, <2>1, <2>2, <2>7, WriteType, ConstantFacts
    <2>9. pc'[s] = next /\ (\A t \in Session \ {s} : pc'[t] = pc[t])
        BY <2>0, <2>1 DEF TypeOK
    <2>10. TypeOK'
        BY <2>0, <2>1, <2>8, <2>9, ViewType DEF TypeOK
    <2>11. OnlyOf(s)
        BY <2>0, <2>1, <2>8, <2>9, ViewType DEF OnlyOf
    <2>12. StatementFitsRequest(s)'
        BY <2>0, <2>1, <2>9 DEF SessionInv, StatementFitsRequest
    <2>13. AccountsHeld(s)'
        <3>1. \A r \in Row : Held(s, r) => Held(s, r)'
            BY <2>1, <2>7, <2>8, ConstantFacts DEF Held, Stored
        <3>2. FirstLocked(q) \in Row /\ SecondLocked(q) \in Row
            BY <2>0, RequestFacts, ConstantFacts
        <3> QED BY <2>1, <2>4, <2>9, <3>1, <3>2 DEF AccountsHeld
    <2>14. DeltaOf(s)' = DeltaOf(s)
        <3>1. CASE Claims(q)
            <4>1. q.target \in Row /\ q.target # q.user
                BY <2>0, <3>1, RequestFacts, ConstantFacts DEF Claims
            <4>2. draft[s][q.target] # Clean
                BY <2>0, <2>1, <3>1 DEF SessionInv, GiftsClaimed, AfterClaim
            <4>3. Seen(s, q.target)' = Seen(s, q.target)
                BY <2>1, <2>8, <4>1, <4>2 DEF Seen
            <4> QED BY <2>1, <4>3 DEF DeltaOf
        <3>2. CASE ~Claims(q)
            BY <2>1, <3>2 DEF DeltaOf
        <3> QED BY <3>1, <3>2
    <2>15. AccountsApplied(s)'
        <3> SUFFICES ASSUME NEW u \in User
                     PROVE  Balance(Stored(s, u))' = Balance(committed[u])' + Applied(s, u)'
            BY DEF AccountsApplied
        <3>1. Balance(Stored(s, u)) = Balance(committed[u])
            <4>1. Balance(Stored(s, u)) = Balance(committed[u]) + 0
                BY <2>0, <2>1 DEF SessionInv, AccountsApplied, Applied
            <4>2. Balance(committed[u]) \in Int
                BY <2>0 DEF TypeOK, Balance
            <4> QED BY <4>1, <4>2
        <3>2. CASE u = q.user
            <4>1. Stored(s, u)' = after
                BY <2>7, <2>8, <3>2, ConstantFacts DEF Stored
            <4>2. Applied(s, u)' = DeltaOf(s)
                BY <2>0, <2>1, <2>9, <2>14, <3>2, RequestFacts, ConstantFacts DEF Applied, PostedBy, Claims
            <4>3. Balance(Stored(s, u)) = Stored(s, u)
                BY <2>5, <3>2 DEF Balance
            <4> QED BY <2>1, <2>7, <3>1, <3>2, <4>1, <4>2, <4>3, ConstantFacts DEF Balance
        <3>3. CASE u # q.user
            <4>1. Stored(s, u)' = Stored(s, u)
                BY <2>1, <2>8, <3>3, ConstantFacts DEF Stored
            <4>2. Applied(s, u)' = 0
                <5>1. q.op = "transfer" => next = "credit"
                    OBVIOUS
                <5>2. q.target = u => q.op = "transfer"
                    BY <2>0, RequestFacts, ConstantFacts DEF SessionInv, StatementFitsRequest, Op
                <5> QED BY <2>1, <2>9, <3>3, <5>1, <5>2 DEF Applied, PostedBy
            <4>3. Balance(committed[u]) \in Int
                BY <2>0 DEF TypeOK, Balance
            <4> QED BY <2>1, <3>1, <4>1, <4>2, <4>3
        <3> QED BY <3>2, <3>3
    <2>16. GiftsClaimed(s)'
        <3>1. \A g \in Gift : draft'[s][g] = draft[s][g]
            BY <2>2, <2>8, ConstantFacts
        <3>2. Claims(q) => q.target \in Row /\ q.target # q.user
            BY <2>0, <2>2, RequestFacts, ConstantFacts DEF Claims
        <3> QED BY <2>0, <2>1, <2>8, <2>9, <3>1, <3>2 DEF SessionInv, GiftsClaimed, AfterClaim, Claims
    <2>17. \A r \in Row : draft'[s][r] # Clean => locks'[r] = s
        BY <2>1, <2>5, <2>8 DEF LedgerInv, DraftsLocked
    <2> QED BY <2>1, <2>10, <2>11, <2>12, <2>13, <2>15, <2>16, <2>17, StatementKeepsInv DEF SessionInv
<1> QED BY <1>1, <1>2

\* The second balance update of a transfer keeps the invariant.
LEMMA CreditRecipientKeepsInv ==
    ASSUME LedgerInv, NEW s \in Session, CreditRecipient(s)
    PROVE  LedgerInv'
<1> DEFINE q == req[s]
           after == Stored(s, q.target) + q.amount
<1>0. TypeOK /\ SessionInv(s) /\ q \in Request
    BY DEF LedgerInv, SessionInv, TypeOK
<1>1. /\ pc[s] = "credit" /\ Write(s, q.target, after)
      /\ pc' = [pc EXCEPT ![s] = "commit"]
      /\ UNCHANGED <<committed, view, locks, req, posted>>
    BY DEF CreditRecipient, Goto
<1>2. q.op = "transfer"
    BY <1>0, <1>1 DEF SessionInv, StatementFitsRequest
<1>3. /\ q.target \in User /\ q.target # q.user /\ q.user \in User /\ q.amount \in Int
      /\ q.target \in Row /\ q.target \in Nat /\ q.user \in Nat /\ ~Claims(q)
    BY <1>0, <1>2, RequestFacts, ConstantFacts DEF Claims
<1>4. Held(s, FirstLocked(q)) /\ Held(s, SecondLocked(q))
    BY <1>0, <1>1 DEF SessionInv, AccountsHeld
<1>5. locks[q.target] = s /\ Stored(s, q.target) # NoRow
    <2>1. q.target \in {FirstLocked(q), SecondLocked(q)}
        BY <1>2, <1>3 DEF FirstLocked, SecondLocked
    <2> QED BY <1>4, <2>1 DEF Held
<1>6. Stored(s, q.target) \in Int
    BY <1>0, <1>3, <1>5 DEF Stored, TypeOK
<1>7. after \in Int
    BY <1>3, <1>6
<1>8. /\ DOMAIN draft' = Session /\ draft'[s][q.target] = after
      /\ \A k \in Row \ {q.target} : draft'[s][k] = draft[s][k]
      /\ \A t \in Session \ {s} : draft'[t] = draft[t]
      /\ \A t \in Session :
           /\ DOMAIN draft'[t] = Row
           /\ \A u \in User : draft'[t][u] \in Int \cup {Clean}
           /\ \A g \in Gift : draft'[t][g] \in GiftVersion \cup {Clean}
           /\ \A c \in Code : draft'[t][c] \in CodeVersion \cup {Clean}
    <2> HIDE DEF after
    <2> QED BY <1>0, <1>1, <1>3, <1>7, WriteType, ConstantFacts
<1>9. pc'[s] = "commit" /\ (\A t \in Session \ {s} : pc'[t] = pc[t])
    BY <1>0, <1>1 DEF TypeOK
<1>10. TypeOK'
    BY <1>0, <1>1, <1>8, <1>9 DEF TypeOK
<1>11. OnlyOf(s)
    BY <1>1, <1>8, <1>9 DEF OnlyOf
<1>12. StatementFitsRequest(s)'
    BY <1>1, <1>2, <1>9 DEF StatementFitsRequest
<1>13. AccountsHeld(s)'
    <2>1. \A r \in Row : Held(s, r) => Held(s, r)'
        BY <1>1, <1>7, <1>8, ConstantFacts DEF Held, Stored
    <2>2. FirstLocked(q) \in Row /\ SecondLocked(q) \in Row
        BY <1>0, RequestFacts, ConstantFacts
    <2> QED BY <1>1, <1>4, <1>9, <2>1, <2>2 DEF AccountsHeld
<1>14. \A k \in Row : PostedBy(s, k)' = PostedBy(s, k)
    BY <1>1, <1>3 DEF PostedBy, DeltaOf
<1>15. AccountsApplied(s)'
    <2> SUFFICES ASSUME NEW u \in User
                 PROVE  Balance(Stored(s, u))' = Balance(committed[u])' + Applied(s, u)'
        BY DEF AccountsApplied
    <2>1. Balance(Stored(s, u)) = Balance(committed[u]) + Applied(s, u)
        BY <1>0 DEF SessionInv, AccountsApplied
    <2>2. Applied(s, u)' = PostedBy(s, u)
        BY <1>9, <1>14, ConstantFacts DEF Applied
    <2>3. CASE u = q.target
        <3>1. Stored(s, u)' = after
            BY <1>7, <1>8, <2>3, ConstantFacts DEF Stored
        <3>2. Applied(s, u) = 0
            BY <1>1, <1>3, <2>3 DEF Applied
        <3>3. PostedBy(s, u) = q.amount
            BY <1>2, <1>3, <2>3 DEF PostedBy
        <3>4. Balance(Stored(s, u)) = Stored(s, u) /\ Balance(after) = after
            BY <1>5, <1>7, <2>3, ConstantFacts DEF Balance
        <3>5. Balance(committed[u]) \in Int
            BY <1>0 DEF TypeOK, Balance
        <3>6. Stored(s, u) = Balance(committed[u])
            BY <2>1, <3>2, <3>4, <3>5
        <3> QED BY <1>1, <2>2, <2>3, <3>1, <3>3, <3>4, <3>6
    <2>4. CASE u # q.target
        <3>1. Stored(s, u)' = Stored(s, u)
            BY <1>1, <1>8, <2>4, ConstantFacts DEF Stored
        <3>2. Applied(s, u) = PostedBy(s, u)
            BY <1>1, <1>3, <2>4 DEF Applied, PostedBy
        <3> QED BY <1>1, <2>1, <2>2, <3>1, <3>2
    <2> QED BY <2>3, <2>4
<1>16. GiftsClaimed(s)'
    <2>1. \A g \in Gift : draft'[s][g] = draft[s][g]
        BY <1>3, <1>8, ConstantFacts
    <2> QED BY <1>0, <1>1, <1>3, <2>1 DEF SessionInv, GiftsClaimed, Claims
<1>17. \A r \in Row : draft'[s][r] # Clean => locks'[r] = s
    BY <1>1, <1>5, <1>8 DEF LedgerInv, DraftsLocked
<1>18. \A r \in Row : locks'[r] = locks[r]
    BY <1>1
<1> QED BY <1>1, <1>10, <1>11, <1>12, <1>13, <1>15, <1>16, <1>17, <1>18, StatementKeepsInv DEF SessionInv

\* A session that has ended satisfies what the invariant says of it.
LEMMA EndedSession ==
    ASSUME TypeOK', NEW s \in Session, pc'[s] \in {"done", "failed"},
           draft'[s] = [r \in Row |-> Clean]
    PROVE  SessionInv(s)'
<1>1. StatementFitsRequest(s)' /\ AccountsHeld(s)'
    BY DEF StatementFitsRequest, AccountsHeld
<1>2. \A r \in Row : draft'[s][r] = Clean
    OBVIOUS
<1>3. GiftsClaimed(s)'
    BY <1>2, ConstantFacts DEF GiftsClaimed, AfterClaim
<1>4. \A u \in User : Applied(s, u)' = 0 /\ Stored(s, u)' = committed'[u]
    BY <1>2, ConstantFacts DEF Applied, Stored
<1>5. \A u \in User : Balance(committed'[u]) \in Int
    BY DEF TypeOK, Balance
<1>6. AccountsApplied(s)'
    BY <1>4, <1>5 DEF AccountsApplied
<1> QED BY <1>1, <1>3, <1>6 DEF SessionInv

\* What a commit publishes of the rows of each table.
LEMMA StoredType ==
    ASSUME TypeOK, NEW s \in Session
    PROVE  /\ \A u \in User : Stored(s, u) \in Int \cup {NoRow}
           /\ \A g \in Gift : Stored(s, g) \in GiftVersion \cup {NoRow}
           /\ \A c \in Code : Stored(s, c) \in CodeVersion \cup {NoRow}
BY DEF TypeOK, Stored

\* A commit keeps the invariant: the balances and the code it publishes move by what
\* its ledger rows say.
LEMMA CommitKeepsInv ==
    ASSUME LedgerInv, NEW s \in Session, Commit(s)
    PROVE  LedgerInv'
<1> DEFINE q == req[s]
<1>0. TypeOK /\ DraftsLocked /\ SessionInv(s) /\ q \in Request
    BY DEF LedgerInv, SessionInv, TypeOK
<1>1. /\ pc[s] = "commit" /\ q.op # "createGift" /\ EndTx(s)
      /\ posted' = [k \in Row |-> posted[k] + PostedBy(s, k)]
      /\ pc' = [pc EXCEPT ![s] = "done"] /\ req' = req
    BY DEF Commit, CommitTx, Goto
<1>2. DOMAIN committed' = Row /\ \A r \in Row : committed'[r] = Stored(s, r)
    BY DEF Commit, CommitTx
<1>3. DeltaOf(s) \in Int
    BY <1>0, <1>1, DeltaInt DEF SessionInv
<1>4. \A k \in Row : PostedBy(s, k) \in Int
    BY <1>0, <1>3, RequestFacts DEF PostedBy
<1>5. posted' \in [Row -> Int] /\ \A k \in Row : posted'[k] = posted[k] + PostedBy(s, k)
    BY <1>0, <1>1, <1>4 DEF TypeOK
<1>6. pc'[s] = "done" /\ (\A t \in Session \ {s} : pc'[t] = pc[t])
    BY <1>0, <1>1 DEF TypeOK
<1>7. TypeOK'
    <2>1. /\ \A u \in User : committed'[u] \in Int \cup {NoRow}
          /\ \A g \in Gift : committed'[g] \in GiftVersion \cup {NoRow}
          /\ \A c \in Code : committed'[c] \in CodeVersion \cup {NoRow}
        BY <1>0, <1>2, StoredType, ConstantFacts
    <2>2. pc' \in [Session -> {"read", "claim", "upsert", "insert", "lock", "lockSecond",
                               "mutate", "credit", "commit", "delete", "done", "failed"}]
        BY <1>0, <1>1 DEF TypeOK
    <2>3. req' \in [Session -> Request]
        BY <1>0, <1>1 DEF TypeOK
    <2> QED BY <1>0, <1>1, <1>2, <1>5, <2>1, <2>2, <2>3, EndTxType DEF TypeOK
<1>8. OnlyOf(s)
    BY <1>0, <1>1, <1>6, EndTxType DEF OnlyOf
<1>9. SessionInv(s)'
    BY <1>0, <1>1, <1>6, <1>7, EndTxType, EndedSession
<1>10. DraftsLocked'
    <2>1. \A r \in Row : draft'[s][r] = Clean
        BY <1>0, <1>1, EndTxType
    <2> QED BY <1>0, <1>1, <1>8, <2>1, EndTxType DEF DraftsLocked, OnlyOf
<1>11. \A r \in Row : locks[r] \in Session \ {s} => locks'[r] = locks[r] /\ committed'[r] = committed[r]
    BY <1>0, <1>1, <1>2, EndTxType DEF DraftsLocked, Stored
<1>12. BalancesMatchLedger'
    <2> SUFFICES ASSUME NEW u \in User
                 PROVE  Balance(committed'[u]) = Balance(Opening[u]) + posted'[u]
        BY DEF BalancesMatchLedger
    <2>1. Balance(committed[u]) = Balance(Opening[u]) + posted[u]
        BY DEF LedgerInv, BalancesMatchLedger
    <2>2. Balance(Stored(s, u)) = Balance(committed[u]) + PostedBy(s, u)
        BY <1>0, <1>1 DEF SessionInv, AccountsApplied, Applied
    <2>3. u \in Row /\ posted[u] \in Int /\ PostedBy(s, u) \in Int /\ Balance(Opening[u]) \in Int
        BY <1>0, <1>4, ConstantFacts, LedgerAssumption DEF TypeOK, Balance
    <2> QED BY <1>2, <1>5, <2>1, <2>2, <2>3
<1>13. GiftsSettleOnce'
    <2> SUFFICES ASSUME NEW g \in Gift
                 PROVE  posted'[g] = GiftSum(committed'[g])
        BY DEF GiftsSettleOnce
    <2>1. posted[g] = GiftSum(committed[g]) /\ posted[g] \in Int /\ g \in Row /\ g \notin User
        BY <1>0, ConstantFacts DEF LedgerInv, GiftsSettleOnce, TypeOK
    <2>2. q.user # g /\ (q.op = "transfer" => q.target # g)
        BY <1>0, <2>1, RequestFacts
    <2>3. CASE draft[s][g] = Clean
        <3>1. ~(Claims(q) /\ q.target = g)
            BY <1>0, <1>1, <2>3 DEF SessionInv, GiftsClaimed, AfterClaim
        <3>2. PostedBy(s, g) = 0
            BY <2>2, <3>1 DEF PostedBy
        <3> QED BY <1>2, <1>5, <2>1, <2>3, <3>2 DEF Stored
    <2>4. CASE draft[s][g] # Clean
        <3> DEFINE old == committed[g]
                   new == draft[s][g]
        <3>1. /\ q.op \in {"redeemGift", "cancelGift"} /\ q.target = g
              /\ old # NoRow /\ old.state = "active"
              /\ new = [old EXCEPT !.state = IF q.op = "redeemGift" THEN "redeemed" ELSE "cancelled"]
            BY <1>0, <2>4 DEF SessionInv, GiftsClaimed, ClaimedState
        <3>2. old \in GiftVersion /\ new \in GiftVersion
            BY <1>0, <2>4, <3>1 DEF TypeOK
        <3>3. /\ new.amount = old.amount /\ new.fee = old.fee
              /\ new.refundPercent = old.refundPercent
              /\ new.state = IF q.op = "redeemGift" THEN "redeemed" ELSE "cancelled"
            BY <3>1, <3>2 DEF GiftVersion
        <3>4. old.amount \in Int /\ old.fee \in Int /\ Refund(new) \in Int
            BY <3>2, RefundNat DEF GiftVersion
        <3>5. PostedBy(s, g) = Delta(q, new)
            BY <2>2, <2>4, <3>1 DEF PostedBy, DeltaOf, Claims, Seen
        <3>6. Delta(q, new) = IF q.op = "redeemGift" THEN old.amount ELSE Refund(new)
            BY <3>1, <3>3 DEF Delta, Guarded
        <3>7. GiftSum(old) = 0 - (old.amount + old.fee)
            BY <3>1 DEF GiftSum
        <3>8. new # NoRow
            BY <3>2, ConstantFacts
        <3>9. GiftSum(new) = Delta(q, new) - (old.amount + old.fee)
            BY <3>1, <3>3, <3>6, <3>8 DEF GiftSum
        <3>10. posted'[g] = GiftSum(old) + Delta(q, new) /\ committed'[g] = new
            BY <1>2, <1>5, <2>1, <2>4, <3>5 DEF Stored
        <3>11. Delta(q, new) \in Int
            BY <3>4, <3>6
        <3> HIDE DEF old, new
        <3> QED BY <3>4, <3>7, <3>9, <3>10, <3>11
    <2> QED BY <2>3, <2>4
<1> QED BY <1>1, <1>7, <1>8, <1>9, <1>10, <1>11, <1>12, <1>13, StepKeepsInv

\* The commit that inserts a new gift code keeps the invariant.
LEMMA CommitGiftKeepsInv ==
    ASSUME LedgerInv, NEW s \in Session, CommitGift(s)
    PROVE  LedgerInv'
<1> DEFINE q == req[s]
           gift == [state |-> "active", owner |-> q.user, amount |-> q.amount,
                    fee |-> Share(q.amount, q.feePercent), refundPercent |-> q.refundPercent]
           debit == TotalDebit(q)
<1>0. TypeOK /\ DraftsLocked /\ SessionInv(s) /\ q \in Request
    BY DEF LedgerInv, SessionInv, TypeOK
<1>1. PICK g \in Gift :
        /\ committed[g] = NoRow /\ locks[g] = Free
        /\ CommitTx(s, [r \in {g} |-> gift])
        /\ posted' = [k \in Row |-> posted[k] + IF k \in {g, q.user} THEN -debit ELSE 0]
    BY DEF CommitGift
<1>2. /\ pc[s] = "commit" /\ q.op = "createGift" /\ EndTx(s)
      /\ pc' = [pc EXCEPT ![s] = "done"] /\ req' = req
    BY <1>1 DEF CommitGift, CommitTx, Goto
<1>3. /\ q.user \in User /\ q.amount \in Nat /\ q.target \notin Row
      /\ q.feePercent \in Percent /\ q.refundPercent \in Percent
    BY <1>0, <1>2, RequestFacts, LedgerAssumption DEF RequestType
<1>4. gift \in GiftVersion
    BY <1>3, ShareNat DEF GiftVersion
<1>5. debit \in Nat /\ debit = gift.amount + gift.fee
    BY <1>0, <1>2, TotalDebitNat DEF TotalDebit, Guarded
<1>6. g \in Row /\ g \notin User /\ g \notin Code
    BY ConstantFacts
<1>7. /\ DOMAIN committed' = Row /\ committed'[g] = gift
      /\ \A r \in Row \ {g} : committed'[r] = Stored(s, r)
    BY <1>1, <1>6 DEF CommitTx
<1>8. /\ posted' \in [Row -> Int] /\ posted'[g] = posted[g] - debit
      /\ posted'[q.user] = posted[q.user] - debit
      /\ \A k \in Row \ {g, q.user} : posted'[k] = posted[k]
    <2> HIDE DEF debit
    <2> QED BY <1>0, <1>1, <1>3, <1>5, <1>6, ConstantFacts DEF TypeOK
<1>9. pc'[s] = "done" /\ (\A t \in Session \ {s} : pc'[t] = pc[t])
    BY <1>0, <1>2 DEF TypeOK
<1>10. TypeOK'
    <2>1. /\ \A u \in User : committed'[u] \in Int \cup {NoRow}
          /\ \A c \in Code : committed'[c] \in CodeVersion \cup {NoRow}
        BY <1>0, <1>6, <1>7, StoredType, ConstantFacts
    <2>2. \A h \in Gift : committed'[h] \in GiftVersion \cup {NoRow}
        <3> HIDE DEF gift
        <3> QED BY <1>0, <1>4, <1>7, StoredType, ConstantFacts
    <2>3. pc' \in [Session -> {"read", "claim", "upsert", "insert", "lock", "lockSecond",
                               "mutate", "credit", "commit", "delete", "done", "failed"}]
        BY <1>0, <1>2 DEF TypeOK
    <2>4. req' \in [Session -> Request]
        BY <1>0, <1>2 DEF TypeOK
    <2> QED BY <1>0, <1>2, <1>7, <1>8, <2>1, <2>2, <2>3, <2>4, EndTxType DEF TypeOK
<1>11. OnlyOf(s)
    BY <1>0, <1>2, <1>9, EndTxType DEF OnlyOf
<1>12. SessionInv(s)'
    BY <1>0, <1>2, <1>9, <1>10, EndTxType, EndedSession
<1>13. DraftsLocked'
    <2>1. \A r \in Row : draft'[s][r] = Clean
        BY <1>0, <1>2, EndTxType
    <2> QED BY <1>0, <1>2, <1>11, <2>1, EndTxType DEF DraftsLocked, OnlyOf
<1>14. \A r \in Row : locks[r] \in Session \ {s} => locks'[r] = locks[r] /\ committed'[r] = committed[r]
    <2>1. ASSUME NEW r \in Row, locks[r] \in Session \ {s}
          PROVE  locks'[r] = locks[r] /\ committed'[r] = committed[r]
        <3>1. r # g
            BY <1>1, <2>1, ConstantFacts
        <3>2. draft[s][r] = Clean
            BY <1>0, <2>1 DEF DraftsLocked
        <3> QED BY <1>0, <1>2, <1>7, <2>1, <3>1, <3>2, EndTxType DEF Stored
    <2> QED BY <2>1
<1>15. BalancesMatchLedger'
    <2> SUFFICES ASSUME NEW u \in User
                 PROVE  Balance(committed'[u]) = Balance(Opening[u]) + posted'[u]
        BY DEF BalancesMatchLedger
    <2>1. Balance(committed[u]) = Balance(Opening[u]) + posted[u]
        BY DEF LedgerInv, BalancesMatchLedger
    <2>2. Balance(Stored(s, u)) = Balance(committed[u]) + PostedBy(s, u)
        BY <1>0, <1>2 DEF SessionInv, AccountsApplied, Applied
    <2>3. PostedBy(s, u) = IF u = q.user THEN -debit ELSE 0
        BY <1>2, <1>3, ConstantFacts DEF PostedBy, DeltaOf, Delta, Claims, Guarded
    <2>4. u \in Row /\ u # g /\ posted[u] \in Int /\ Balance(Opening[u]) \in Int
        BY <1>0, <1>6, ConstantFacts, LedgerAssumption DEF TypeOK, Balance
    <2>5. committed'[u] = Stored(s, u)
        BY <1>7, <2>4
    <2> HIDE DEF debit
    <2>6. CASE u = q.user
        BY <1>5, <1>8, <2>1, <2>2, <2>3, <2>4, <2>5, <2>6
    <2>7. CASE u # q.user
        BY <1>8, <2>1, <2>2, <2>3, <2>4, <2>5, <2>7
    <2> QED BY <2>6, <2>7
<1>16. GiftsSettleOnce'
    <2> SUFFICES ASSUME NEW h \in Gift
                 PROVE  posted'[h] = GiftSum(committed'[h])
        BY DEF GiftsSettleOnce
    <2>1. posted[h] = GiftSum(committed[h]) /\ h \in Row /\ h # q.user
        BY <1>3, ConstantFacts DEF LedgerInv, GiftsSettleOnce
    <2>2. CASE h = g
        <3>1. posted[g] = 0
            BY <1>1, <2>1, <2>2 DEF GiftSum
        <3>2. gift # NoRow
            BY <1>4, ConstantFacts
        <3>3. GiftSum(gift) = 0 - (gift.amount + gift.fee)
            BY <3>2 DEF GiftSum
        <3> HIDE DEF gift, debit
        <3> QED BY <1>5, <1>7, <1>8, <2>2, <3>1, <3>3
    <2>3. CASE h # g
        <3>1. draft[s][h] = Clean
            BY <1>0, <1>2 DEF SessionInv, GiftsClaimed
        <3> QED BY <1>7, <1>8, <2>1, <2>3, <3>1 DEF Stored
    <2> QED BY <2>2, <2>3
<1> QED BY <1>2, <1>10, <1>11, <1>12, <1>13, <1>14, <1>15, <1>16, StepKeepsInv

\* Deleting a redemption code keeps the invariant.
LEMMA DeleteCodeKeepsInv ==
    ASSUME LedgerInv, NEW s \in Session, DeleteCode(s)
    PROVE  LedgerInv'
<1> DEFINE code == req[s].target
<1>0. TypeOK /\ DraftsLocked /\ SessionInv(s) /\ req[s] \in Request
    BY DEF LedgerInv, SessionInv, TypeOK
<1>1. PICK next \in {"done", "failed"} : pc' = [pc EXCEPT ![s] = next]
    BY DEF DeleteCode, Goto
<1>2. /\ pc[s] = "delete" /\ locks[code] = Free
      /\ committed' = [committed EXCEPT ![code] = NoRow]
      /\ UNCHANGED <<view, draft, locks, req, posted>>
    BY DEF DeleteCode
<1>3. code \in Code /\ code \notin User /\ code \notin Gift
    BY <1>0, <1>2, RequestFacts, ConstantFacts DEF SessionInv, StatementFitsRequest
<1>4. /\ DOMAIN committed' = Row /\ committed'[code] = NoRow
      /\ \A r \in Row \ {code} : committed'[r] = committed[r]
    BY <1>0, <1>2, <1>3, ConstantFacts DEF TypeOK
<1>5. pc'[s] = next /\ (\A t \in Session \ {s} : pc'[t] = pc[t])
    BY <1>0, <1>1 DEF TypeOK
<1>6. TypeOK'
    <2>1. pc' \in [Session -> {"read", "claim", "upsert", "insert", "lock", "lockSecond",
                               "mutate", "credit", "commit", "delete", "done", "failed"}]
        BY <1>0, <1>1 DEF TypeOK
    <2> QED BY <1>0, <1>2, <1>3, <1>4, <2>1, ConstantFacts DEF TypeOK
<1>7. OnlyOf(s) /\ DraftsLocked'
    BY <1>0, <1>2, <1>5 DEF OnlyOf, DraftsLocked
<1>8. \A r \in Row : locks[r] \in Session => locks'[r] = locks[r] /\ committed'[r] = committed[r]
    BY <1>2, <1>4, ConstantFacts
<1>9. \A r \in User \cup Gift : committed'[r] = committed[r]
    BY <1>3, <1>4, ConstantFacts
<1>10. SessionInv(s)'
    <2>1. StatementFitsRequest(s)' /\ AccountsHeld(s)'
        BY <1>5 DEF StatementFitsRequest, AccountsHeld
    <2>2. GiftsClaimed(s)'
        BY <1>0, <1>2, <1>5, <1>9 DEF SessionInv, GiftsClaimed, AfterClaim
    <2>3. \A u \in User : Applied(s, u)' = 0 /\ Applied(s, u) = 0
        BY <1>2, <1>5 DEF Applied
    <2>4. \A u \in User : Stored(s, u)' = Stored(s, u)
        BY <1>2, <1>9 DEF Stored
    <2>5. AccountsApplied(s)'
        BY <1>0, <1>9, <2>3, <2>4 DEF SessionInv, AccountsApplied
    <2> QED BY <2>1, <2>2, <2>5 DEF SessionInv
<1>11. BalancesMatchLedger' /\ GiftsSettleOnce'
    BY <1>2, <1>9 DEF LedgerInv, BalancesMatchLedger, GiftsSettleOnce
<1> QED BY <1>2, <1>6, <1>7, <1>8, <1>10, <1>11, StepKeepsInv

-----------------------------------------------------------------------------
\* The invariant

\* LedgerInv holds before the first statement of any request.
LEMMA InitHasInv ==
    ASSUME Init
    PROVE  LedgerInv
<1>1. /\ committed = Opening /\ view = [s \in Session |-> NoView]
      /\ draft = [s \in Session |-> [r \in Row |-> Clean]]
      /\ locks = [r \in Row |-> Free] /\ req \in [Session -> Request]
      /\ pc = [s \in Session |-> FirstStatement(req[s])]
      /\ posted = [k \in Row |-> OpeningPosted(k)]
    BY DEF Init, TxInit
<1>2. \A u \in User : OpeningPosted(u) = 0
    BY ConstantFacts DEF OpeningPosted
<1>3. \A g \in Gift : OpeningPosted(g) = GiftSum(Opening[g]) /\ GiftSum(Opening[g]) \in Int
    <2>1. ASSUME NEW g \in Gift PROVE OpeningPosted(g) = GiftSum(Opening[g])
        BY ConstantFacts DEF OpeningPosted
    <2>2. ASSUME NEW gift \in GiftVersion PROVE GiftSum(gift) \in Int
        <3>1. gift.amount \in Nat /\ gift.fee \in Nat /\ gift.state \in {"active", "redeemed", "cancelled"}
            BY DEF GiftVersion
        <3> QED BY <3>1, RefundNat DEF GiftSum
    <2>3. GiftSum(NoRow) = 0
        BY DEF GiftSum
    <2> QED BY <2>1, <2>2, <2>3, LedgerAssumption
<1>4. \A c \in Code : OpeningPosted(c) \in Int
    BY LedgerAssumption, ConstantFacts DEF OpeningPosted, CodeSum, CodeVersion
<1>5. posted \in [Row -> Int]
    BY <1>1, <1>2, <1>3, <1>4, ConstantFacts
<1>6. \A s \in Session : pc[s] = FirstStatement(req[s]) /\ req[s] \in Request
    BY <1>1
<1>7. \A s \in Session : pc[s] \in {"upsert", "lock", "delete", "read"}
    BY <1>6 DEF FirstStatement
<1>8. TypeOK
    <2>1. /\ DOMAIN committed = Row
          /\ \A u \in User : committed[u] \in Int \cup {NoRow}
          /\ \A g \in Gift : committed[g] \in GiftVersion \cup {NoRow}
          /\ \A c \in Code : committed[c] \in CodeVersion \cup {NoRow}
        BY <1>1, LedgerAssumption
    <2>2. locks \in [Row -> Session \cup {Free}]
        BY <1>1
    <2>3. \A s \in Session : view[s] = NoView /\ draft[s] = [r \in Row |-> Clean]
        BY <1>1
    <2> QED BY <1>1, <1>5, <1>7, <2>1, <2>2, <2>3, ConstantFacts DEF TypeOK
<1>9. DraftsLocked
    BY <1>1 DEF DraftsLocked
<1>10. ASSUME NEW s \in Session
       PROVE  SessionInv(s)
    <2>0. req[s] \in Request /\ req[s].op \in Op
        BY <1>6, RequestFacts
    <2>1. StatementFitsRequest(s) /\ AccountsHeld(s)
        BY <1>6, <1>7, <2>0 DEF StatementFitsRequest, AccountsHeld, FirstStatement, Claims, Op
    <2>2. \A r \in Row : draft[s][r] = Clean
        BY <1>1
    <2>3. pc[s] \in {"upsert", "lock"} => ~Claims(req[s])
        BY <1>6 DEF FirstStatement, Claims
    <2>4. GiftsClaimed(s)
        BY <1>7, <2>2, <2>3, ConstantFacts DEF GiftsClaimed, AfterClaim
    <2>5. \A u \in User : Applied(s, u) = 0 /\ Stored(s, u) = committed[u]
        BY <1>7, <2>2, ConstantFacts DEF Applied, Stored
    <2>6. \A u \in User : Balance(committed[u]) \in Int
        BY <1>8 DEF TypeOK, Balance
    <2>7. AccountsApplied(s)
        BY <2>5, <2>6 DEF AccountsApplied
    <2> QED BY <2>1, <2>4, <2>7 DEF SessionInv
<1>11. BalancesMatchLedger
    <2>1. \A u \in User : Balance(Opening[u]) \in Int
        BY LedgerAssumption DEF Balance
    <2> QED BY <1>1, <1>2, <2>1, ConstantFacts DEF BalancesMatchLedger
<1>12. GiftsSettleOnce
    BY <1>1, <1>3, ConstantFacts DEF GiftsSettleOnce
<1> QED BY <1>8, <1>9, <1>10, <1>11, <1>12 DEF LedgerInv, SessionInv

\* A step that changes nothing keeps the invariant.
LEMMA StutterKeepsInv ==
    ASSUME LedgerInv, UNCHANGED vars
    PROVE  LedgerInv'
<1> SUFFICES ASSUME UNCHANGED <<committed, view, draft, locks, pc, req, posted>>
             PROVE  LedgerInv'
    BY DEF vars, txVars
<1>1. TypeOK'
    BY DEF LedgerInv, TypeOK
<1>2. ASSUME NEW t \in Session
      PROVE  SessionInv(t)'
    BY <1>1, OtherSessions
<1>3. DraftsLocked' /\ BalancesMatchLedger' /\ GiftsSettleOnce'
    BY DEF LedgerInv, DraftsLocked, BalancesMatchLedger, GiftsSettleOnce
<1> QED BY <1>1, <1>2, <1>3 DEF LedgerInv, SessionInv

\* LedgerInv is an invariant of the ledger's transactions, with any number of
\* concurrent requests interleaved and cut off at any statement.
THEOREM LedgerInvariant == Spec => []LedgerInv
<1>1. Init => LedgerInv
    BY InitHasInv
<1>2. LedgerInv /\ [Next]_vars => LedgerInv'
    <2> SUFFICES ASSUME LedgerInv, [Next]_vars
                 PROVE  LedgerInv'
        OBVIOUS
    <2>1. CASE UNCHANGED vars
        BY <2>1, StutterKeepsInv
    <2>2. CASE Next
        <3>1. PICK s \in Session : Statement(s) \/ Abort(s)
            BY <2>2 DEF Next
        <3>2. CASE ReadCode(s)
            BY <3>2, ReadCodeKeepsInv
        <3>3. CASE ClaimGift(s)
            BY <3>3, ClaimGiftKeepsInv
        <3>4. CASE UseCode(s)
            BY <3>4, UseCodeKeepsInv
        <3>5. CASE UpsertRead(s)
            BY <3>5, UpsertReadKeepsInv
        <3>6. CASE UpsertInsert(s)
            BY <3>6, UpsertInsertKeepsInv
        <3>7. CASE LockAccount(s)
            BY <3>7, LockAccountKeepsInv
        <3>8. CASE MutateAccount(s)
            BY <3>8, MutateAccountKeepsInv
        <3>9. CASE CreditRecipient(s)
            BY <3>9, CreditRecipientKeepsInv
        <3>10. CASE Commit(s)
            BY <3>10, CommitKeepsInv
        <3>11. CASE CommitGift(s)
            BY <3>11, CommitGiftKeepsInv
        <3>12. CASE DeleteCode(s)
            BY <3>12, DeleteCodeKeepsInv
        <3>13. CASE Abort(s)
            BY <3>13, ThrowKeepsInv DEF Abort
        <3> QED BY <3>1, <3>2, <3>3, <3>4, <3>5, <3>6, <3>7, <3>8, <3>9, <3>10, <3>11,
                   <3>12, <3>13 DEF Statement
    <2> QED BY <2>1, <2>2
<1> QED BY <1>1, <1>2, PTL DEF Spec

\* Every variable keeps its type, row by row of each table.
THEOREM TypeCorrect == Spec => []TypeOK
<1>1. LedgerInv => TypeOK
    BY DEF LedgerInv
<1> QED BY <1>1, LedgerInvariant, PTL

\* Every committed balance is its opening value plus the sum of the rows of
\* balance_transactions of its user: no interleaving of the transactions of
\* applyBalanceAccountMutation loses or doubles an update.
THEOREM BalancesAlwaysMatch == Spec => []BalancesMatchLedger
<1>1. LedgerInv => BalancesMatchLedger
    BY DEF LedgerInv
<1> QED BY <1>1, LedgerInvariant, PTL

\* A gift code is debited once when created and paid out at most once, however
\* redeemGiftCode and cancelGiftCode race for it.
THEOREM GiftsAlwaysSettleOnce == Spec => []GiftsSettleOnce
<1>1. LedgerInv => GiftsSettleOnce
    BY DEF LedgerInv
<1> QED BY <1>1, LedgerInvariant, PTL
-----------------------------------------------------------------------------
\* The cover of a gift code

\* createGiftCode reads the account for the first time once it holds its lock, so
\* the balance it checks is the latest, and the one it commits is not negative.
CoverInv ==
    \A s \in Session : req[s].op = "createGift" =>
        /\ pc[s] \in {"lock", "mutate"} => view[s] = NoView
        /\ pc[s] = "commit" => draft[s][req[s].user] \in Nat

\* A step of a session changes what the session itself knows and nothing of the others.
LEMMA StepIsLocal ==
    ASSUME TypeOK, NEW s \in Session, Statement(s) \/ Abort(s)
    PROVE  OnlyOf(s) /\ req' = req
<1>1. CASE Throw(s)
    BY <1>1, EndTxType DEF Throw, RollbackTx, Goto, OnlyOf, TypeOK
<1>2. CASE ReadCode(s) \/ UpsertRead(s)
    BY <1>1, <1>2, ViewType DEF ReadCode, UpsertRead, Goto, OnlyOf, TypeOK
<1>3. CASE ClaimGift(s)
    BY <1>1, <1>3 DEF ClaimGift, Write, Goto, OnlyOf, TypeOK
<1>4. CASE UseCode(s)
    BY <1>1, <1>4 DEF UseCode, Write, Goto, OnlyOf, TypeOK
<1>5. CASE UpsertInsert(s)
    BY <1>1, <1>5 DEF UpsertInsert, Write, Goto, OnlyOf, TypeOK
<1>6. CASE LockAccount(s)
    BY <1>1, <1>6 DEF LockAccount, Goto, OnlyOf, TypeOK
<1>7. CASE MutateAccount(s)
    BY <1>1, <1>7, ViewType DEF MutateAccount, Write, Goto, OnlyOf, TypeOK
<1>8. CASE CreditRecipient(s)
    BY <1>8 DEF CreditRecipient, Write, Goto, OnlyOf, TypeOK
<1>9. CASE Commit(s)
    BY <1>9, EndTxType DEF Commit, CommitTx, Goto, OnlyOf, TypeOK
<1>10. CASE CommitGift(s)
    BY <1>10, EndTxType DEF CommitGift, CommitTx, Goto, OnlyOf, TypeOK
<1>11. CASE DeleteCode(s)
    BY <1>11 DEF DeleteCode, Goto, OnlyOf, TypeOK
<1> QED BY <1>1, <1>2, <1>3, <1>4, <1>5, <1>6, <1>7, <1>8, <1>9, <1>10, <1>11
        DEF Statement, Abort

\* What a step of a request that creates a gift code can be.
LEMMA CreateGiftSteps ==
    ASSUME LedgerInv, NEW s \in Session, req[s].op = "createGift", Statement(s) \/ Abort(s)
    PROVE  Throw(s) \/ LockAccount(s) \/ MutateAccount(s) \/ CommitGift(s)
<1>1. StatementFitsRequest(s)
    BY DEF LedgerInv
<1> QED BY <1>1 DEF Statement, Abort, StatementFitsRequest, Claims, ReadCode, ClaimGift, UseCode,
            UpsertRead, UpsertInsert, CreditRecipient, Commit, DeleteCode

\* What the cover rests on holds of the session that takes the step.
LEMMA CoverStep ==
    ASSUME LedgerInv, CoverInv, NEW s \in Session, req[s].op = "createGift",
           Statement(s) \/ Abort(s)
    PROVE  /\ pc'[s] \in {"lock", "mutate"} => view'[s] = NoView
           /\ pc'[s] = "commit" => draft'[s][req[s].user] \in Nat
<1> DEFINE q == req[s]
<1>0. TypeOK /\ SessionInv(s) /\ q \in Request
    BY DEF LedgerInv, SessionInv, TypeOK
<1>1. CASE Throw(s)
    BY <1>0, <1>1 DEF Throw, Goto, TypeOK
<1>2. CASE LockAccount(s) /\ ~Throw(s)
    <2>1. pc[s] = "lock" /\ view' = view /\ pc'[s] # "commit"
        BY <1>0, <1>2 DEF LockAccount, Goto, SessionInv, StatementFitsRequest, TypeOK
    <2> QED BY <2>1 DEF CoverInv
<1>3. CASE MutateAccount(s) /\ ~Throw(s)
    <2>1. /\ pc[s] = "mutate" /\ pc'[s] = "commit"
          /\ Seen(s, q.user) # NoRow /\ Seen(s, q.user) + DeltaOf(s) >= 0
          /\ Write(s, q.user, Incremented(s))
        BY <1>0, <1>3 DEF MutateAccount, Goto, Guarded, TypeOK
    <2>2. Seen(s, q.user) = Stored(s, q.user)
        BY <2>1 DEF CoverInv, Seen, Stored, ViewOf
    <2>3. q.user \in User /\ q.user \in Row
        BY <1>0, RequestFacts, ConstantFacts
    <2>4. Stored(s, q.user) \in Int /\ DeltaOf(s) \in Int
        BY <1>0, <2>1, <2>2, <2>3, StoredType, DeltaInt DEF SessionInv
    <2>5. Incremented(s) \in Nat
        BY <2>1, <2>2, <2>4 DEF Incremented
    <2>6. draft'[s][q.user] = Incremented(s)
        BY <1>0, <2>1, <2>3 DEF Write, TypeOK
    <2> QED BY <2>1, <2>5, <2>6
<1>4. CASE CommitGift(s)
    BY <1>0, <1>4 DEF CommitGift, Goto, TypeOK
<1> QED BY <1>1, <1>2, <1>3, <1>4, CreateGiftSteps

\* The view of a session that creates a gift code is never older than its lock.
LEMMA CoverInvariant == Spec => []CoverInv
<1>1. Init => CoverInv
    BY DEF Init, TxInit, CoverInv, FirstStatement
<1>2. LedgerInv /\ CoverInv /\ [Next]_vars => CoverInv'
    <2> SUFFICES ASSUME LedgerInv, CoverInv, [Next]_vars, NEW t \in Session, req'[t].op = "createGift"
                 PROVE  /\ pc'[t] \in {"lock", "mutate"} => view'[t] = NoView
                        /\ pc'[t] = "commit" => draft'[t][req'[t].user] \in Nat
        BY DEF CoverInv
    <2>1. CASE UNCHANGED vars
        BY <2>1 DEF CoverInv, vars, txVars
    <2>2. CASE Next
        <3>1. PICK s \in Session : Statement(s) \/ Abort(s)
            BY <2>2 DEF Next
        <3>2. OnlyOf(s) /\ req' = req
            BY <3>1, StepIsLocal DEF LedgerInv
        <3>3. CASE t = s
            BY <3>1, <3>2, <3>3, CoverStep
        <3>4. CASE t # s
            BY <3>2, <3>4 DEF OnlyOf, CoverInv
        <3> QED BY <3>3, <3>4
    <2> QED BY <2>1, <2>2
<1> QED BY <1>1, <1>2, LedgerInvariant, PTL DEF Spec

\* Creating a gift code never leaves the account overdrawn, whatever commits while
\* the request runs (minimumBalance of createGiftCode).
THEOREM GiftsAlwaysCovered == Spec => GiftsAreCovered
<1>1. LedgerInv /\ CoverInv /\ [Next]_vars =>
        [\A s \in Session : pc[s] = "commit" /\ pc'[s] = "done" /\ req[s].op = "createGift"
            => committed'[req[s].user] >= 0]_vars
    <2> SUFFICES ASSUME LedgerInv, CoverInv, Next, NEW s \in Session,
                        pc[s] = "commit", pc'[s] = "done", req[s].op = "createGift"
                 PROVE  committed'[req[s].user] >= 0
        OBVIOUS
    <2> DEFINE q == req[s]
    <2>0. TypeOK /\ q \in Request
        BY DEF LedgerInv, TypeOK
    <2>1. PICK t \in Session : Statement(t) \/ Abort(t)
        BY DEF Next
    <2>2. t = s
        BY <2>0, <2>1, StepIsLocal DEF OnlyOf
    <2>3. CommitGift(s)
        <3>1. ~Throw(s)
            BY <2>0 DEF Throw, Goto, TypeOK
        <3> QED BY <2>1, <2>2, <3>1, CreateGiftSteps DEF LockAccount, MutateAccount
    <2> DEFINE gift == [state |-> "active", owner |-> q.user, amount |-> q.amount,
                        fee |-> Share(q.amount, q.feePercent), refundPercent |-> q.refundPercent]
    <2>4. PICK g \in Gift : CommitTx(s, [r \in {g} |-> gift])
        BY <2>3 DEF CommitGift
    <2>5. q.user \in User /\ q.user \in Row /\ q.user # g
        BY <2>0, RequestFacts, ConstantFacts
    <2>6. committed'[q.user] = Stored(s, q.user)
        BY <2>4, <2>5 DEF CommitTx
    <2>7. Stored(s, q.user) \in Nat
        BY <2>5, ConstantFacts DEF CoverInv, Stored
    <2> QED BY <2>6, <2>7
<1> QED BY <1>1, LedgerInvariant, CoverInvariant, PTL DEF Spec, GiftsAreCovered

-----------------------------------------------------------------------------
(***************************************************************************)
(* BalanceLedger implements LedgerService, for any number of sessions,     *)
(* users, codes and requests: a commit is the step of the service for its  *)
(* request, and no other statement changes what the service shows.         *)
(***************************************************************************)

SettlesGift(q) == q.op \in {"redeemGift", "cancelGift"}

\* What a session has written of accounts and codes, beside what LedgerInv says, and
\* what it knows of the gift code it has read.
RowsDrafted(s) ==
    LET q == req[s]
    IN  /\ pc[s] = "read" => view[s] = NoView /\ \A r \in Row : draft[s][r] = Clean
        /\ \A u \in User : draft[s][u] # Clean =>
             /\ u \in {q.user, Upserted(q)}
             /\ committed[u] = NoRow => u = Upserted(q) /\ q.op # "createGift"
        /\ \A c \in Code : draft[s][c] # Clean =>
             /\ q.op = "redeemCode" /\ q.target = c
             /\ committed[c] # NoRow /\ draft[s][c] = [committed[c] EXCEPT !.usedBy = q.user]
        /\ pc[s] \in {"claim"} \cup AfterClaim /\ SettlesGift(q) =>
             /\ committed[q.target] # NoRow
             /\ committed[q.target].owner = q.user <=> q.op = "cancelGift"

RefinementInv == LedgerInv /\ CoverInv /\ \A s \in Session : RowsDrafted(s)

-----------------------------------------------------------------------------
\* What a step of a session publishes

\* A step changes no row that another session has locked, and no gift code loses its
\* owner.
LEMMA CommittedKept ==
    ASSUME LedgerInv, NEW s \in Session, Statement(s) \/ Abort(s)
    PROVE  /\ \A r \in Row : locks[r] \in Session \ {s} => committed'[r] = committed[r]
           /\ \A g \in Gift : committed[g] # NoRow =>
                committed'[g] # NoRow /\ committed'[g].owner = committed[g].owner
<1>0. TypeOK /\ DraftsLocked /\ GiftsClaimed(s) /\ req[s] \in Request /\ StatementFitsRequest(s)
    BY DEF LedgerInv, TypeOK
<1>1. CASE committed' = committed
    BY <1>1
<1>2. ASSUME NEW g \in Gift, committed[g] # NoRow
      PROVE  Stored(s, g) # NoRow /\ Stored(s, g).owner = committed[g].owner
    <2>1. committed[g] \in GiftVersion
        BY <1>0, <1>2 DEF TypeOK
    <2>2. CASE draft[s][g] = Clean
        BY <1>2, <2>2 DEF Stored
    <2>3. CASE draft[s][g] # Clean
        <3>1. draft[s][g] = [committed[g] EXCEPT !.state = ClaimedState(req[s])]
            BY <1>0, <2>3 DEF GiftsClaimed
        <3>2. draft[s][g] \in GiftVersion
            BY <1>0, <2>3 DEF TypeOK
        <3> QED BY <2>1, <2>3, <3>1, <3>2, ConstantFacts DEF Stored, GiftVersion
    <2> QED BY <2>2, <2>3
<1>3. \A r \in Row : locks[r] \in Session \ {s} => Stored(s, r) = committed[r]
    BY <1>0 DEF DraftsLocked, Stored
<1>4. CASE Commit(s)
    <2>1. committed' = [r \in Row |-> Stored(s, r)]
        BY <1>4 DEF Commit, CommitTx
    <2> QED BY <1>2, <1>3, <2>1, ConstantFacts
<1>5. CASE CommitGift(s)
    <2>1. PICK g \in Gift :
            /\ committed[g] = NoRow /\ locks[g] = Free
            /\ \E new : committed' = [r \in Row |-> IF r \in {g} THEN new ELSE Stored(s, r)]
        BY <1>5 DEF CommitGift, CommitTx
    <2>2. \A r \in Row \ {g} : committed'[r] = Stored(s, r)
        BY <2>1
    <2> QED BY <1>2, <1>3, <2>1, <2>2, ConstantFacts
<1>6. CASE DeleteCode(s)
    <2>1. req[s].target \in Code /\ locks[req[s].target] = Free
        BY <1>0, <1>6, RequestFacts DEF DeleteCode, StatementFitsRequest
    <2>2. \A r \in Row \ {req[s].target} : committed'[r] = committed[r]
        BY <1>0, <1>6 DEF DeleteCode, TypeOK
    <2> QED BY <2>1, <2>2, ConstantFacts
<1>7. Throw(s) => committed' = committed
    BY DEF Throw, RollbackTx
<1> QED BY <1>1, <1>4, <1>5, <1>6, <1>7 DEF Statement, Abort, ReadCode, ClaimGift, UseCode,
        UpsertRead, UpsertInsert, LockAccount, MutateAccount, CreditRecipient

\* So what another session has written and knows stays as it is.
LEMMA OthersDrafted ==
    ASSUME LedgerInv, NEW s \in Session, Statement(s) \/ Abort(s),
           NEW t \in Session \ {s}, RowsDrafted(t)
    PROVE  RowsDrafted(t)'
<1>1. pc'[t] = pc[t] /\ draft'[t] = draft[t] /\ view'[t] = view[t] /\ req' = req
    BY StepIsLocal DEF LedgerInv, OnlyOf
<1>2. \A r \in Row : draft[t][r] # Clean => committed'[r] = committed[r]
    BY CommittedKept DEF LedgerInv, DraftsLocked
<1>3. \A g \in Gift : committed[g] # NoRow =>
         committed'[g] # NoRow /\ committed'[g].owner = committed[g].owner
    BY CommittedKept
<1>4. SettlesGift(req[t]) => req[t].target \in Gift
    BY RequestFacts DEF LedgerInv, TypeOK, SettlesGift
<1>5. User \subseteq Row /\ Code \subseteq Row
    BY ConstantFacts
<1> QED BY <1>1, <1>2, <1>3, <1>4, <1>5 DEF RowsDrafted

-----------------------------------------------------------------------------
\* What the session itself has written

\* The end of a transaction leaves nothing written.
LEMMA EndKeepsDrafted ==
    ASSUME LedgerInv, NEW s \in Session, EndTx(s), pc'[s] \in {"done", "failed"}
    PROVE  RowsDrafted(s)'
<1>1. \A r \in Row : draft'[s][r] = Clean
    BY EndTxType DEF LedgerInv
<1> QED BY <1>1, ConstantFacts DEF RowsDrafted, AfterClaim

\* A statement that writes nothing of s and commits nothing.
LEMMA QuietDrafted ==
    ASSUME LedgerInv, NEW s \in Session, RowsDrafted(s), req' = req,
           committed' = committed, draft' = draft, pc'[s] # "read",
           pc'[s] \in {"claim"} \cup AfterClaim => pc[s] \in {"claim"} \cup AfterClaim
    PROVE  RowsDrafted(s)'
BY DEF RowsDrafted

LEMMA ReadCodeDrafted ==
    ASSUME LedgerInv, NEW s \in Session, RowsDrafted(s), ReadCode(s), ~Throw(s)
    PROVE  RowsDrafted(s)'
<1> DEFINE q == req[s]
<1>0. TypeOK /\ q \in Request /\ StatementFitsRequest(s)
    BY DEF LedgerInv, TypeOK
<1>1. /\ pc[s] = "read" /\ pc'[s] = "claim" /\ Usable(q, Seen(s, q.target))
      /\ UNCHANGED <<committed, draft, locks, req, posted>>
    BY <1>0 DEF ReadCode, Goto, TypeOK
<1>2. q.target \in Row
    BY <1>0, <1>1, RequestFacts, ConstantFacts DEF StatementFitsRequest, Claims
<1>3. Seen(s, q.target) = committed[q.target]
    BY <1>1, <1>2 DEF RowsDrafted, Seen, ViewOf
<1>4. SettlesGift(q) =>
        /\ committed[q.target] # NoRow
        /\ committed[q.target].owner = q.user <=> q.op = "cancelGift"
    BY <1>1, <1>3 DEF Usable, SettlesGift
<1>5. \A r \in Row : draft'[s][r] = Clean
    BY <1>1 DEF RowsDrafted
<1>6. User \subseteq Row /\ Code \subseteq Row
    BY ConstantFacts
<1> QED BY <1>1, <1>4, <1>5, <1>6 DEF RowsDrafted

\* The rows of s but for one are as they were.
LEMMA WriteDrafted ==
    ASSUME LedgerInv, NEW s \in Session, RowsDrafted(s), NEW r \in Row, NEW v, Write(s, r, v),
           req' = req, committed' = committed, pc'[s] # "read",
           pc'[s] \in {"claim"} \cup AfterClaim => pc[s] \in {"claim"} \cup AfterClaim,
           r \in User =>
             /\ r \in {req[s].user, Upserted(req[s])}
             /\ committed[r] = NoRow => r = Upserted(req[s]) /\ req[s].op # "createGift",
           r \in Code =>
             /\ req[s].op = "redeemCode" /\ req[s].target = r /\ committed[r] # NoRow
             /\ v = [committed[r] EXCEPT !.usedBy = req[s].user]
    PROVE  RowsDrafted(s)'
<1>1. /\ draft'[s][r] = v
      /\ \A k \in Row \ {r} : draft'[s][k] = draft[s][k]
    BY DEF LedgerInv, TypeOK, Write
<1>2. User \subseteq Row /\ Code \subseteq Row
    BY ConstantFacts
<1> QED BY <1>1, <1>2 DEF RowsDrafted

LEMMA ClaimDrafted ==
    ASSUME LedgerInv, NEW s \in Session, RowsDrafted(s), ClaimGift(s) \/ UseCode(s), ~Throw(s)
    PROVE  RowsDrafted(s)'
<1> DEFINE q == req[s]
           row == Stored(s, q.target)
<1>0. TypeOK /\ q \in Request
    BY DEF LedgerInv, TypeOK
<1>1. pc[s] = "claim" /\ pc'[s] = "upsert" /\ UNCHANGED <<committed, view, req, posted>>
    BY <1>0 DEF ClaimGift, UseCode, Goto, TypeOK
<1>2. CASE ClaimGift(s)
    <2>1. q.target \in Gift /\ Write(s, q.target, [row EXCEPT !.state = ClaimedState(q)])
        BY <1>0, <1>2, RequestFacts DEF ClaimGift
    <2>2. q.target \in Row /\ q.target \notin User /\ q.target \notin Code
        BY <2>1, ConstantFacts
    <2> QED BY <1>1, <2>1, <2>2, WriteDrafted
<1>3. CASE UseCode(s)
    <2>1. /\ q.op = "redeemCode" /\ q.target \in Code /\ row # NoRow
          /\ Write(s, q.target, [row EXCEPT !.usedBy = q.user])
        BY <1>0, <1>3, RequestFacts DEF UseCode
    <2>2. q.target \in Row /\ q.target \notin User
        BY <2>1, ConstantFacts
    <2>3. /\ committed[q.target] # NoRow
          /\ [row EXCEPT !.usedBy = q.user] = [committed[q.target] EXCEPT !.usedBy = q.user]
        <3>1. CASE draft[s][q.target] = Clean
            BY <2>1, <3>1 DEF Stored
        <3>2. CASE draft[s][q.target] # Clean
            <4>1. /\ committed[q.target] # NoRow
                  /\ row = [committed[q.target] EXCEPT !.usedBy = q.user]
                BY <2>1, <3>2 DEF Stored, RowsDrafted
            <4>2. committed[q.target] \in CodeVersion
                BY <1>0, <2>1, <4>1 DEF TypeOK
            <4> QED BY <4>1, <4>2 DEF CodeVersion
        <3> QED BY <3>1, <3>2
    <2> QED BY <1>1, <2>1, <2>2, <2>3, WriteDrafted
<1> QED BY <1>2, <1>3

LEMMA AccountDrafted ==
    ASSUME LedgerInv, NEW s \in Session, RowsDrafted(s),
           UpsertInsert(s) \/ MutateAccount(s) \/ CreditRecipient(s), ~Throw(s)
    PROVE  RowsDrafted(s)'
<1> DEFINE q == req[s]
<1>0. TypeOK /\ q \in Request /\ StatementFitsRequest(s) /\ AccountsHeld(s)
    BY DEF LedgerInv, TypeOK
<1>1. q.user \in User /\ Upserted(q) \in User
    BY <1>0, RequestFacts
<1>2. CASE UpsertInsert(s)
    <2>1. /\ pc[s] = "insert" /\ pc'[s] = "lock" /\ UNCHANGED <<committed, req>>
          /\ Write(s, Upserted(q), 0)
        BY <1>0, <1>2 DEF UpsertInsert, Goto, TypeOK
    <2>2. q.op # "createGift"
        BY <1>0, <2>1 DEF StatementFitsRequest
    <2> QED BY <1>1, <2>1, <2>2, WriteDrafted, ConstantFacts DEF AfterClaim
<1>3. CASE MutateAccount(s)
    <2>1. /\ pc[s] = "mutate" /\ pc'[s] \in {"credit", "commit"} /\ UNCHANGED <<committed, req>>
          /\ Write(s, q.user, Incremented(s))
        BY <1>0, <1>3 DEF MutateAccount, Goto, TypeOK
    <2>2. Stored(s, q.user) # NoRow
        <3>1. q.user \in {FirstLocked(q), SecondLocked(q)}
            BY DEF FirstLocked, SecondLocked
        <3> QED BY <1>0, <2>1, <3>1 DEF AccountsHeld, Held
    <2>3. committed[q.user] = NoRow => q.user = Upserted(q) /\ q.op # "createGift"
        BY <1>1, <2>2 DEF Stored, RowsDrafted
    <2> HIDE DEF q
    <2> QED BY <1>1, <2>1, <2>3, WriteDrafted, ConstantFacts DEF AfterClaim, q
<1>4. CASE CreditRecipient(s)
    <2>1. /\ pc[s] = "credit" /\ pc'[s] = "commit" /\ UNCHANGED <<committed, req>>
          /\ Write(s, q.target, Stored(s, q.target) + q.amount)
        BY <1>0, <1>4 DEF CreditRecipient, Goto, TypeOK
    <2>2. q.op = "transfer" /\ q.target = Upserted(q)
        BY <1>0, <2>1 DEF StatementFitsRequest, Upserted
    <2>3. q.target \in User /\ q.target \in Row /\ q.target \notin Code
        BY <1>1, <2>2, ConstantFacts
    <2>4. RowsDrafted(s)' 
        <3> DEFINE v == Stored(s, q.target) + q.amount
        <3>1. /\ draft'[s][q.target] = v
              /\ \A k \in Row \ {q.target} : draft'[s][k] = draft[s][k]
            BY <1>0, <2>1, <2>3 DEF TypeOK, Write
        <3> QED BY <2>1, <2>2, <2>3, <3>1, ConstantFacts DEF RowsDrafted, SettlesGift
    <2> QED BY <2>4
<1> QED BY <1>2, <1>3, <1>4

\* Deleting a redemption code disturbs nothing that its session has written.
LEMMA DeleteDrafted ==
    ASSUME LedgerInv, NEW s \in Session, RowsDrafted(s), DeleteCode(s)
    PROVE  RowsDrafted(s)'
<1> DEFINE q == req[s]
<1>0. TypeOK /\ q \in Request /\ StatementFitsRequest(s)
    BY DEF LedgerInv, TypeOK
<1>1. /\ pc[s] = "delete" /\ pc'[s] \in {"done", "failed"} /\ draft' = draft /\ req' = req
      /\ committed' = [committed EXCEPT ![q.target] = NoRow]
    BY <1>0 DEF DeleteCode, Goto, TypeOK
<1>2. q.op = "deleteCode" /\ q.target \in Code
    BY <1>0, <1>1, RequestFacts DEF StatementFitsRequest
<1>3. \A u \in User : committed'[u] = committed[u]
    BY <1>0, <1>1, <1>2, ConstantFacts DEF TypeOK
<1> QED BY <1>1, <1>2, <1>3 DEF RowsDrafted, AfterClaim

\* Every step keeps what it says of its session.
LEMMA StepDrafted ==
    ASSUME LedgerInv, NEW s \in Session, RowsDrafted(s), Statement(s) \/ Abort(s)
    PROVE  RowsDrafted(s)'
<1>0. TypeOK
    BY DEF LedgerInv
<1>1. CASE Throw(s)
    BY <1>0, <1>1, EndKeepsDrafted DEF Throw, RollbackTx, Goto, TypeOK
<1>2. CASE Commit(s) \/ CommitGift(s)
    BY <1>0, <1>2, EndKeepsDrafted DEF Commit, CommitGift, CommitTx, Goto, TypeOK
<1>3. CASE UpsertRead(s)
    <2>1. /\ pc[s] = "upsert" /\ pc'[s] \in {"insert", "lock"}
          /\ UNCHANGED <<committed, draft, req>>
        BY <1>0, <1>3 DEF UpsertRead, Goto, TypeOK
    <2> QED BY <2>1, QuietDrafted DEF AfterClaim
<1>4. CASE LockAccount(s) /\ ~Throw(s)
    <2>1. /\ pc[s] \in {"lock", "lockSecond"} /\ pc'[s] \in {"lockSecond", "mutate"}
          /\ pc[s] = "lockSecond" => req[s].op = "transfer"
          /\ UNCHANGED <<committed, draft, req>>
        BY <1>0, <1>4 DEF LockAccount, Goto, TypeOK, LedgerInv, StatementFitsRequest
    <2>2. CASE pc[s] = "lock"
        BY <2>1, <2>2, QuietDrafted DEF AfterClaim
    <2>3. CASE pc[s] = "lockSecond"
        BY <2>1, <2>3 DEF RowsDrafted, SettlesGift
    <2> QED BY <2>1, <2>2, <2>3
<1> QED BY <1>1, <1>2, <1>3, <1>4, ReadCodeDrafted, ClaimDrafted, AccountDrafted, DeleteDrafted
        DEF Statement, Abort

\* What a session has written at every statement is an invariant.
LEMMA RefinementInvariant == Spec => []RefinementInv
<1>1. Init => \A s \in Session : RowsDrafted(s)
    <2> SUFFICES ASSUME Init, NEW s \in Session PROVE RowsDrafted(s)
        OBVIOUS
    <2>1. view[s] = NoView /\ \A r \in Row : draft[s][r] = Clean
        BY DEF Init, TxInit
    <2>2. pc[s] \in {"claim"} \cup AfterClaim => ~SettlesGift(req[s])
        BY DEF Init, FirstStatement, AfterClaim, SettlesGift
    <2> QED BY <2>1, <2>2, ConstantFacts DEF RowsDrafted
<1>2. LedgerInv /\ (\A s \in Session : RowsDrafted(s)) /\ [Next]_vars
        => (\A s \in Session : RowsDrafted(s))'
    <2> SUFFICES ASSUME LedgerInv, \A s \in Session : RowsDrafted(s), [Next]_vars,
                        NEW t \in Session
                 PROVE  RowsDrafted(t)'
        OBVIOUS
    <2>1. CASE UNCHANGED vars
        BY <2>1 DEF vars, txVars, RowsDrafted
    <2>2. CASE Next
        <3>1. PICK s \in Session : Statement(s) \/ Abort(s)
            BY <2>2 DEF Next
        <3>2. CASE t = s BY <3>1, <3>2, StepDrafted
        <3>3. CASE t # s BY <3>1, <3>3, OthersDrafted
        <3> QED BY <3>2, <3>3
    <2> QED BY <2>1, <2>2
<1> QED BY <1>1, <1>2, LedgerInvariant, CoverInvariant, PTL DEF Spec, RefinementInv

-----------------------------------------------------------------------------
\* The refinement

\* The amounts of the service are those of the transactions.
LEMMA SameAmounts ==
    /\ \A q \in Request : Service!TotalDebit(q) = TotalDebit(q)
    /\ \A gift \in GiftVersion : Service!Refund(gift) = Refund(gift)
    /\ \A x : Service!Balance(x) = Balance(x)
    /\ \A a, p : Service!Share(a, p) = Share(a, p)
BY DEF Service!TotalDebit, TotalDebit, Service!Refund, Refund, Service!Balance, Balance,
       Service!Share, Share

\* The tables before and after a commit, row by row.
LEMMA PublishedRows ==
    ASSUME RefinementInv, NEW s \in Session, pc[s] = "commit"
    PROVE  LET q == req[s]
           IN  /\ \A u \in User \ {q.user, Upserted(q)} : Stored(s, u) = committed[u]
               /\ \A u \in {q.user, Upserted(q)} :
                    Stored(s, u) = Balance(committed[u]) + PostedBy(s, u)
               /\ \A r \in Gift \cup Code : ~(Claims(q) /\ r = q.target) => Stored(s, r) = committed[r]
               /\ SettlesGift(q) =>
                    /\ committed[q.target] # NoRow /\ committed[q.target].state = "active"
                    /\ Stored(s, q.target) = [committed[q.target] EXCEPT !.state = ClaimedState(q)]
               /\ q.op = "redeemCode" =>
                    /\ committed[q.target] # NoRow
                    /\ Stored(s, q.target) = [committed[q.target] EXCEPT !.usedBy = q.user]
<1> DEFINE q == req[s]
<1>0. TypeOK /\ SessionInv(s) /\ RowsDrafted(s) /\ q \in Request
    BY DEF RefinementInv, LedgerInv, SessionInv, TypeOK
<1>1. \A u \in User \ {q.user, Upserted(q)} : Stored(s, u) = committed[u]
    BY <1>0 DEF RowsDrafted, Stored
<1>2. ASSUME NEW u \in {q.user, Upserted(q)}
      PROVE  Stored(s, u) = Balance(committed[u]) + PostedBy(s, u)
    <2>1. u \in User
        BY <1>0, RequestFacts
    <2>2. u \in {FirstLocked(q), SecondLocked(q)}
        BY DEF Upserted, FirstLocked, SecondLocked
    <2>3. Stored(s, u) # NoRow
        BY <1>0, <2>2 DEF SessionInv, AccountsHeld, Held
    <2>4. Balance(Stored(s, u)) = Balance(committed[u]) + PostedBy(s, u)
        BY <1>0, <2>1 DEF SessionInv, AccountsApplied, Applied
    <2> QED BY <2>3, <2>4 DEF Balance
<1>3. ASSUME NEW r \in Gift \cup Code, ~(Claims(q) /\ r = q.target)
      PROVE  Stored(s, r) = committed[r]
    <2>1. draft[s][r] = Clean
        BY <1>0, <1>3 DEF SessionInv, GiftsClaimed, RowsDrafted, Claims
    <2> QED BY <2>1 DEF Stored
<1>4. Claims(q) => draft[s][q.target] # Clean /\ Stored(s, q.target) = draft[s][q.target]
    BY <1>0 DEF SessionInv, GiftsClaimed, AfterClaim, Stored
<1>5. SettlesGift(q) => Claims(q) /\ q.target \in Gift
    BY <1>0, RequestFacts DEF SettlesGift, Claims
<1>6. q.op = "redeemCode" => Claims(q) /\ q.target \in Code
    BY <1>0, RequestFacts DEF Claims
<1>7. SettlesGift(q) =>
        /\ committed[q.target] # NoRow /\ committed[q.target].state = "active"
        /\ Stored(s, q.target) = [committed[q.target] EXCEPT !.state = ClaimedState(q)]
    BY <1>0, <1>4, <1>5 DEF SessionInv, GiftsClaimed
<1>8. q.op = "redeemCode" =>
        /\ committed[q.target] # NoRow
        /\ Stored(s, q.target) = [committed[q.target] EXCEPT !.usedBy = q.user]
    BY <1>0, <1>4, <1>6 DEF RowsDrafted
<1> QED BY <1>1, <1>2, <1>3, <1>7, <1>8

\* What the ledger rows of a request add, key by key.
LEMMA PostedRows ==
    ASSUME NEW s \in Session, req[s] \in Request, NEW k
    PROVE  LET q == req[s]
           IN  /\ k = q.user => PostedBy(s, k) = DeltaOf(s)
               /\ k # q.user /\ k = q.target /\ q.op = "transfer" => PostedBy(s, k) = q.amount
               /\ k # q.user /\ k = q.target /\ Claims(q) => PostedBy(s, k) = DeltaOf(s)
               /\ k # q.user /\ ~(k = q.target /\ (q.op = "transfer" \/ Claims(q)))
                    => PostedBy(s, k) = 0
<1> DEFINE q == req[s]
<1>1. CASE k = q.user
    <2>1. ~(k = q.target /\ (q.op = "transfer" \/ Claims(q)))
        BY <1>1, RequestFacts, ConstantFacts DEF Claims
    <2>2. PostedBy(s, k) = DeltaOf(s)
        BY <1>1, <2>1 DEF PostedBy
    <2> QED BY <1>1, <2>2
<1>2. CASE k # q.user /\ k = q.target /\ q.op = "transfer"
    <2>1. ~Claims(q)
        BY <1>2 DEF Claims
    <2>2. PostedBy(s, k) = q.amount
        BY <1>2, <2>1 DEF PostedBy
    <2> QED BY <1>2, <2>1, <2>2
<1>3. CASE k # q.user /\ k = q.target /\ Claims(q)
    <2>1. q.op # "transfer"
        BY <1>3 DEF Claims
    <2>2. PostedBy(s, k) = DeltaOf(s)
        BY <1>3, <2>1 DEF PostedBy
    <2> QED BY <1>3, <2>1, <2>2
<1>4. CASE k # q.user /\ ~(k = q.target /\ (q.op = "transfer" \/ Claims(q)))
    <2>1. PostedBy(s, k) = 0
        BY <1>4 DEF PostedBy
    <2> QED BY <1>4, <2>1
<1> QED BY <1>1, <1>2, <1>3, <1>4

\* What a request adds to the balance of its user.
LEMMA DeltaOfRequest ==
    ASSUME NEW s \in Session
    PROVE  LET q == req[s]
           IN  /\ q.op = "recharge" => DeltaOf(s) = q.amount
               /\ Guarded(q) => DeltaOf(s) = -TotalDebit(q)
               /\ q.op = "cancelGift" => DeltaOf(s) = Refund(Seen(s, q.target))
               /\ q.op \in {"redeemGift", "redeemCode"} => DeltaOf(s) = Seen(s, q.target).amount
<1> DEFINE q == req[s]
<1>1. q.op = "recharge" => DeltaOf(s) = q.amount
    BY DEF DeltaOf, Delta, Guarded, Claims
<1>2. Guarded(q) => DeltaOf(s) = -TotalDebit(q)
    BY DEF DeltaOf, Delta, Guarded, Claims
<1>3. q.op = "cancelGift" => DeltaOf(s) = Refund(Seen(s, q.target))
    BY DEF DeltaOf, Delta, Guarded, Claims
<1>4. q.op \in {"redeemGift", "redeemCode"} => DeltaOf(s) = Seen(s, q.target).amount
    BY DEF DeltaOf, Delta, Guarded, Claims
<1> QED BY <1>1, <1>2, <1>3, <1>4

\* A commit is one step of the service.
LEMMA CommitIsAtomic ==
    ASSUME RefinementInv, NEW s \in Session, Commit(s)
    PROVE  Service!Next
<1> DEFINE q == req[s]
<1>0. /\ TypeOK /\ SessionInv(s) /\ RowsDrafted(s) /\ q \in Request
      /\ pc[s] = "commit" /\ q.op # "createGift" /\ q.op # "deleteCode"
    BY DEF RefinementInv, LedgerInv, SessionInv, TypeOK, Commit, StatementFitsRequest
<1>1. /\ committed' = [r \in Row |-> Stored(s, r)] /\ DOMAIN committed = Row
      /\ posted' = [k \in Row |-> posted[k] + PostedBy(s, k)]
    BY <1>0 DEF Commit, CommitTx, TypeOK
<1>2. q.user \in User /\ Upserted(q) \in User /\ q.op \in Op
    BY <1>0, RequestFacts
<1>3. CASE q.op = "recharge"
    <2>1. Upserted(q) = q.user /\ ~Claims(q) /\ q.target \notin Row
        BY <1>0, <1>3, RequestFacts DEF Upserted, Claims
    <2>2. \A k \in Row : PostedBy(s, k) = IF k = q.user THEN q.amount ELSE 0
        BY <1>0, <1>3, <2>1, PostedRows, DeltaOfRequest
    <2>3. \A r \in Row : Stored(s, r) = IF r = q.user THEN Balance(committed[r]) + q.amount
                                                     ELSE committed[r]
        BY <1>0, <1>2, <2>1, <2>2, PublishedRows, ConstantFacts
    <2>4. committed' = [committed EXCEPT ![q.user] = Service!Balance(@) + q.amount]
        BY <1>1, <2>3, SameAmounts
    <2>5. Service!Post([k \in {q.user} |-> q.amount])
        BY <1>1, <2>2 DEF Service!Post
    <2> QED BY <1>0, <1>3, <2>4, <2>5 DEF Service!Next, Service!Recharge
<1>4. CASE q.op = "transfer"
    <2>1. /\ Upserted(q) = q.target /\ q.target \in User /\ q.target # q.user /\ ~Claims(q)
          /\ Guarded(q)
        BY <1>0, <1>4, RequestFacts DEF Upserted, Claims, Guarded
    <2>2. committed[q.user] # NoRow
        <3>1. Stored(s, q.user) # NoRow
            <4>1. q.user \in {FirstLocked(q), SecondLocked(q)}
                BY DEF FirstLocked, SecondLocked
            <4> QED BY <1>0, <4>1 DEF SessionInv, AccountsHeld, Held
        <3> QED BY <1>0, <1>2, <2>1, <3>1 DEF RowsDrafted, Stored
    <2>3. committed[q.user] \in Int /\ TotalDebit(q) \in Nat
        BY <1>0, <1>2, <2>1, <2>2, TotalDebitNat DEF TypeOK
    <2>4. /\ Stored(s, q.user) = committed[q.user] - TotalDebit(q)
          /\ Stored(s, q.target) = Balance(committed[q.target]) + q.amount
          /\ \A r \in Row \ {q.user, q.target} : Stored(s, r) = committed[r]
        <3>1. /\ Stored(s, q.user) = Balance(committed[q.user]) + PostedBy(s, q.user)
              /\ Stored(s, q.target) = Balance(committed[q.target]) + PostedBy(s, q.target)
            BY <1>0, <2>1, PublishedRows
        <3>2. PostedBy(s, q.user) = -TotalDebit(q) /\ PostedBy(s, q.target) = q.amount
            BY <1>0, <1>4, <2>1, PostedRows, DeltaOfRequest
        <3>3. Balance(committed[q.user]) = committed[q.user]
            BY <2>2 DEF Balance
        <3>4. \A r \in Row \ {q.user, q.target} : Stored(s, r) = committed[r]
            BY <1>0, <2>1, PublishedRows, ConstantFacts
        <3> QED BY <2>3, <3>1, <3>2, <3>3, <3>4
    <2>5. committed' = [committed EXCEPT ![q.user] = @ - Service!TotalDebit(q),
                                         ![q.target] = Service!Balance(@) + q.amount]
        BY <1>0, <1>1, <2>1, <2>4, SameAmounts
    <2>6. Service!Post([k \in {q.user, q.target} |->
                          IF k = q.user THEN -Service!TotalDebit(q) ELSE q.amount])
        <3>1. \A k \in Row : posted'[k] = posted[k] +
                (IF k \in {q.user, q.target} THEN IF k = q.user THEN -TotalDebit(q) ELSE q.amount ELSE 0)
            BY <1>0, <1>1, <1>4, <2>1, PostedRows, DeltaOfRequest
        <3> QED BY <1>0, <1>1, <3>1, SameAmounts DEF Service!Post
    <2> QED BY <1>0, <1>4, <2>2, <2>5, <2>6 DEF Service!Next, Service!Transfer
<1>5. CASE q.op = "redeemCode"
    <2>1. Upserted(q) = q.user /\ q.target \in Code /\ q.target # q.user /\ Claims(q)
        BY <1>0, <1>5, RequestFacts, ConstantFacts DEF Upserted, Claims
    <2> DEFINE code == committed[q.target]
    <2>2. code # NoRow /\ Stored(s, q.target) = [code EXCEPT !.usedBy = q.user]
        BY <1>0, <1>5, PublishedRows
    <2>3. code \in CodeVersion
        BY <1>0, <2>1, <2>2 DEF TypeOK
    <2>4. Seen(s, q.target).amount = code.amount
        <3>1. Seen(s, q.target) = Stored(s, q.target)
            BY <1>0, <2>1 DEF SessionInv, GiftsClaimed, AfterClaim, Seen, Stored
        <3> QED BY <2>2, <2>3, <3>1 DEF CodeVersion
    <2> HIDE DEF code
    <2>5. \A k \in Row : PostedBy(s, k) = IF k \in {q.user, q.target} THEN code.amount ELSE 0
        BY <1>0, <1>5, <2>1, <2>4, PostedRows, DeltaOfRequest
    <2>6. /\ Stored(s, q.user) = Balance(committed[q.user]) + code.amount
          /\ \A r \in Row \ {q.user, q.target} : Stored(s, r) = committed[r]
        <3>1. Stored(s, q.user) = Balance(committed[q.user]) + PostedBy(s, q.user)
            BY <1>0, PublishedRows
        <3>2. \A r \in Row \ {q.user, q.target} : Stored(s, r) = committed[r]
            BY <1>0, <2>1, PublishedRows, ConstantFacts
        <3> QED BY <1>2, <2>5, <3>1, <3>2, ConstantFacts
    <2>7. committed' = [committed EXCEPT ![q.user] = Service!Balance(@) + code.amount,
                                         ![q.target].usedBy = q.user]
        BY <1>1, <1>2, <2>1, <2>2, <2>6, SameAmounts, ConstantFacts DEF code
    <2>8. Service!Post([k \in {q.user, q.target} |-> code.amount])
        BY <1>1, <2>5 DEF Service!Post
    <2> QED BY <1>0, <1>5, <2>2, <2>7, <2>8 DEF Service!Next, Service!RedeemCode, code
<1>6. CASE SettlesGift(q)
    <2>1. Upserted(q) = q.user /\ q.target \in Gift /\ q.target # q.user /\ Claims(q)
        BY <1>0, <1>6, RequestFacts, ConstantFacts DEF Upserted, Claims, SettlesGift
    <2> DEFINE gift == committed[q.target]
               paid == IF q.op = "redeemGift" THEN gift.amount ELSE Service!Refund(gift)
    <2>2. /\ gift # NoRow /\ gift.state = "active"
          /\ Stored(s, q.target) = [gift EXCEPT !.state = ClaimedState(q)]
        BY <1>0, <1>6, PublishedRows
    <2>3. gift \in GiftVersion
        BY <1>0, <2>1, <2>2 DEF TypeOK
    <2>4. gift.owner = q.user <=> q.op = "cancelGift"
        BY <1>0, <1>6 DEF RowsDrafted, AfterClaim
    <2>5. DeltaOf(s) = paid
        <3>1. Seen(s, q.target) = Stored(s, q.target)
            BY <1>0, <2>1 DEF SessionInv, GiftsClaimed, AfterClaim, Seen, Stored
        <3>2. /\ Seen(s, q.target).amount = gift.amount
              /\ Refund(Seen(s, q.target)) = Refund(gift)
            BY <2>2, <2>3, <3>1 DEF GiftVersion, Refund
        <3>3. Service!Refund(gift) = Refund(gift)
            BY <2>3, SameAmounts
        <3> QED BY <1>6, <3>2, <3>3, DeltaOfRequest DEF SettlesGift
    <2> HIDE DEF paid
    <2>6. \A k \in Row : PostedBy(s, k) = IF k \in {q.user, q.target} THEN paid ELSE 0
        BY <1>0, <1>6, <2>1, <2>5, PostedRows DEF SettlesGift
    <2>7. /\ Stored(s, q.user) = Balance(committed[q.user]) + paid
          /\ \A r \in Row \ {q.user, q.target} : Stored(s, r) = committed[r]
        <3>1. Stored(s, q.user) = Balance(committed[q.user]) + PostedBy(s, q.user)
            BY <1>0, PublishedRows
        <3>2. \A r \in Row \ {q.user, q.target} : Stored(s, r) = committed[r]
            BY <1>0, <2>1, PublishedRows, ConstantFacts
        <3> QED BY <1>2, <2>6, <3>1, <3>2, ConstantFacts
    <2>8. committed' = [committed EXCEPT ![q.user] = Service!Balance(@) + paid,
                                         ![q.target].state = ClaimedState(q)]
        BY <1>1, <1>2, <2>1, <2>2, <2>7, SameAmounts, ConstantFacts
    <2>9. Service!Post([k \in {q.user, q.target} |-> paid])
        BY <1>1, <2>6 DEF Service!Post
    <2>10. Service!SettleGift(q)
        BY <1>6, <2>2, <2>4, <2>8, <2>9 DEF Service!SettleGift, SettlesGift, ClaimedState, paid
    <2> QED BY <1>0, <2>10 DEF Service!Next
<1> QED BY <1>0, <1>2, <1>3, <1>4, <1>5, <1>6 DEF Op, SettlesGift

\* The commit of a new gift code is one step of the service, and covered.
LEMMA CommitGiftIsAtomic ==
    ASSUME RefinementInv, NEW s \in Session, CommitGift(s)
    PROVE  Service!Next
<1> DEFINE q == req[s]
           gift == [state |-> "active", owner |-> q.user, amount |-> q.amount,
                    fee |-> Share(q.amount, q.feePercent), refundPercent |-> q.refundPercent]
<1>0. /\ TypeOK /\ SessionInv(s) /\ RowsDrafted(s) /\ q \in Request
      /\ pc[s] = "commit" /\ q.op = "createGift"
    BY DEF RefinementInv, LedgerInv, SessionInv, TypeOK, CommitGift
<1>1. PICK g \in Gift :
        /\ committed[g] = NoRow /\ CommitTx(s, [r \in {g} |-> gift])
        /\ posted' = [k \in Row |-> posted[k] + IF k \in {g, q.user} THEN -TotalDebit(q) ELSE 0]
    BY DEF CommitGift
<1>2. committed' = [r \in Row |-> IF r \in {g} THEN gift ELSE Stored(s, r)]
    BY <1>1 DEF CommitTx
<1>3. /\ Upserted(q) = q.user /\ ~Claims(q) /\ Guarded(q) /\ q.user \in User
      /\ DOMAIN committed = Row
    BY <1>0, RequestFacts DEF Upserted, Claims, Guarded, TypeOK
<1> HIDE DEF gift
<1>4. committed[q.user] # NoRow
    <2>1. Stored(s, q.user) # NoRow
        <3>1. q.user = FirstLocked(q)
            BY <1>0 DEF FirstLocked
        <3> QED BY <1>0, <3>1 DEF SessionInv, AccountsHeld, Held
    <2> QED BY <1>0, <1>3, <2>1 DEF RowsDrafted, Stored
<1>5. committed[q.user] \in Int /\ TotalDebit(q) \in Nat
    BY <1>0, <1>3, <1>4, TotalDebitNat DEF TypeOK
<1>6. Stored(s, q.user) = committed[q.user] - TotalDebit(q)
    <2>1. Stored(s, q.user) = Balance(committed[q.user]) + PostedBy(s, q.user)
        BY <1>0, PublishedRows
    <2>2. PostedBy(s, q.user) = -TotalDebit(q)
        BY <1>0, <1>3, PostedRows, DeltaOfRequest
    <2> QED BY <1>4, <1>5, <2>1, <2>2 DEF Balance
<1>7. committed[q.user] >= TotalDebit(q)
    <2>1. Stored(s, q.user) \in Nat
        BY <1>0, <1>3, ConstantFacts DEF RefinementInv, CoverInv, Stored
    <2> QED BY <1>5, <1>6, <2>1
<1>8. \A r \in Row \ {q.user, g} : Stored(s, r) = committed[r]
    BY <1>0, <1>3, PublishedRows, ConstantFacts
<1>9. committed' = [committed EXCEPT ![q.user] = @ - TotalDebit(q), ![g] = gift]
    BY <1>2, <1>3, <1>6, <1>8, ConstantFacts
<1>10. Service!TotalDebit(q) = TotalDebit(q) /\ Service!Share(q.amount, q.feePercent) = Share(q.amount, q.feePercent)
    BY <1>0, SameAmounts
<1>11. Service!Post([k \in {q.user, g} |-> -TotalDebit(q)])
    BY <1>1 DEF Service!Post
<1> QED BY <1>0, <1>1, <1>4, <1>7, <1>9, <1>10, <1>11 DEF Service!Next, Service!CreateGift, gift

\* Every committed request is one atomic step of the service, and nothing else shows:
\* no partial effect, no effect of a request that failed or was cut off, none computed
\* from the leftovers of another.  The transactions of store/billing implement
\* LedgerService for any number of sessions, users, codes and requests.
THEOREM LedgerImplementsService == Spec => ImplementsService
<1>1. Init => Service!Init
    <2>1. \A k : Service!OpeningPosted(k) = OpeningPosted(k)
        BY DEF Service!OpeningPosted, OpeningPosted, Service!GiftSum, GiftSum, Service!Refund,
               Refund, Service!Share, Share, Service!CodeSum, CodeSum
    <2> QED BY <2>1 DEF Init, TxInit, Service!Init
<1>2. RefinementInv /\ [Next]_vars => [Service!Next]_<<committed, posted>>
    <2> SUFFICES ASSUME RefinementInv, Next, ~UNCHANGED <<committed, posted>>
                 PROVE  Service!Next
        BY DEF vars, txVars
    <2>1. PICK s \in Session : Statement(s) \/ Abort(s)
        BY DEF Next
    <2>2. CASE Commit(s) BY <2>2, CommitIsAtomic
    <2>3. CASE CommitGift(s) BY <2>3, CommitGiftIsAtomic
    <2>4. CASE DeleteCode(s)
        <3>1. req[s] \in Request /\ req[s].op = "deleteCode"
            BY <2>4 DEF RefinementInv, LedgerInv, TypeOK, StatementFitsRequest, DeleteCode
        <3> QED BY <2>4, <3>1 DEF DeleteCode, Service!Next, Service!DeleteCode
    <2>5. ~Throw(s)
        BY DEF Throw, RollbackTx
    <2> QED BY <2>1, <2>2, <2>3, <2>4, <2>5 DEF Statement, Abort, ReadCode, ClaimGift, UseCode,
            UpsertRead, UpsertInsert, LockAccount, MutateAccount, CreditRecipient
<1> QED BY <1>1, <1>2, RefinementInvariant, PTL DEF Spec, ImplementsService, Service!Spec
=============================================================================
