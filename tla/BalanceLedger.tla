---------------------------- MODULE BalanceLedger ----------------------------
(***************************************************************************)
(* The balance ledger: every transaction of the repositories under         *)
(* store/billing that moves money between balance accounts, gift codes and *)
(* redemption codes.  A session is one HTTP request; it runs the           *)
(* statements of its transaction one at a time, so the statements of       *)
(* concurrent requests interleave, and it may be cut off anywhere.         *)
(*                                                                         *)
(* Expiry and the request checks made before the transaction opens can     *)
(* only refuse a request, which Abort covers.                              *)
(***************************************************************************)
EXTENDS LedgerData, MySqlTx

VARIABLES
    pc,        \* the next statement of every session
    req,       \* the request of every session
    posted     \* balance_transactions: the sum of amounts by userId, and by
               \* relatedId for gift and redemption codes

vars == <<txVars, pc, req, posted>>

ASSUME SessionAssumption ==
    /\ Clean \notin Int \cup {NoRow} \cup GiftVersion \cup CodeVersion
    /\ NoView \notin [Row -> Int \cup {NoRow} \cup GiftVersion \cup CodeVersion]

-----------------------------------------------------------------------------
\* Reading a request

Claims(q) == q.op \in {"redeemGift", "cancelGift", "redeemCode"}

\* createIfMissing of the mutation, for the account that upsert works on.
Upserted(q) == IF q.op = "transfer" THEN q.target ELSE q.user

\* minimumBalance: 0
Guarded(q) == q.op \in {"createGift", "transfer"}

\* Mutant: createGiftCode creates a missing account, as createTransfer does.
UpsertsBeforeGift(q) ==
    CASE q.op \in {"recharge", "transfer", "createGift"} -> "upsert"
      [] q.op = "deleteCode" -> "delete"
      [] OTHER -> "read"

FirstStatement(q) ==
    CASE q.op \in {"recharge", "transfer"} -> "upsert"
      [] q.op = "createGift" -> "lock"
      [] q.op = "deleteCode" -> "delete"
      [] OTHER -> "read"

\* Mutant: the accounts in the order of the parameters.
SenderFirst(q) == q.user

\* lockBalanceAccounts sorts by user id; every other operation locks one account.
FirstLocked(q) ==
    IF q.op = "transfer" /\ q.target < q.user THEN q.target ELSE q.user
SecondLocked(q) ==
    IF q.op = "transfer" /\ FirstLocked(q) = q.user THEN q.target ELSE q.user

\* balanceDelta of the user's account; code is the gift or redemption code read.
Delta(q, code) ==
    CASE q.op = "recharge" -> q.amount
      [] Guarded(q) -> -TotalDebit(q)
      [] q.op = "cancelGift" -> Refund(code)
      [] OTHER -> code.amount

DeltaOf(s) == Delta(req[s], IF Claims(req[s]) THEN Seen(s, req[s].target) ELSE NoRow)

Goto(s, statement) == pc' = [pc EXCEPT ![s] = statement]

\* Mutant: the callback returns where it should throw, and the transaction commits.
ReturnEarly(s) ==
    /\ CommitTx(s, <<>>)
    /\ Goto(s, "failed")
    /\ UNCHANGED <<req, posted>>

\* An error thrown inside the transaction callback.
Throw(s) ==
    /\ RollbackTx(s)
    /\ Goto(s, "failed")
    /\ UNCHANGED <<req, posted>>

-----------------------------------------------------------------------------
\* Statements

\* May the request use the code it read?
Usable(q, code) ==
    /\ code # NoRow
    /\ CASE q.op = "redeemGift" -> code.state = "active" /\ code.owner # q.user
         [] q.op = "cancelGift" -> code.state = "active" /\ code.owner = q.user
         [] q.op = "redeemCode" -> code.usedBy = Nobody

\* findUnique of the gift or redemption code and the checks on what it returned.
ReadCode(s) ==
    /\ pc[s] = "read"
    /\ IF Usable(req[s], Seen(s, req[s].target))
       THEN /\ FixView(s)
            /\ Goto(s, "claim")
            /\ UNCHANGED <<committed, draft, locks, req, posted>>
       ELSE Throw(s)

\* Mutant: a claim by id alone.
AnyGift(gift) == gift # NoRow

\* The condition of the claim, state: "active", and the state it writes.
Claimable(gift) == gift # NoRow /\ gift.state = "active"
ClaimedState(q) == IF q.op = "redeemGift" THEN "redeemed" ELSE "cancelled"

\* updateMany, and the check of its count.
ClaimGift(s) ==
    LET q == req[s]
        gift == Stored(s, q.target)
    IN  /\ pc[s] = "claim" /\ q.op \in {"redeemGift", "cancelGift"}
        /\ LockIsFree(s, q.target)
        /\ IF Claimable(gift)
           THEN /\ TakeLock(s, q.target)
                /\ Write(s, q.target, [gift EXCEPT !.state = ClaimedState(q)])
                /\ Goto(s, "upsert")
                /\ UNCHANGED <<committed, view, req, posted>>
           ELSE Throw(s)

\* update ... where id: the claim of a redemption code has no condition on usedBy.
UseCode(s) ==
    LET q == req[s]
        code == Stored(s, q.target)
    IN  /\ pc[s] = "claim" /\ q.op = "redeemCode"
        /\ LockIsFree(s, q.target)
        /\ IF code # NoRow
           THEN /\ TakeLock(s, q.target)
                /\ Write(s, q.target, [code EXCEPT !.usedBy = q.user])
                /\ Goto(s, "upsert")
                /\ UNCHANGED <<committed, view, req, posted>>
           ELSE Throw(s)

\* The SELECT with which Prisma starts an upsert on MySQL.
UpsertRead(s) ==
    /\ pc[s] = "upsert"
    /\ FixView(s)
    /\ Goto(s, IF Seen(s, Upserted(req[s])) = NoRow THEN "insert" ELSE "lock")
    /\ UNCHANGED <<committed, draft, locks, req, posted>>

\* The INSERT of an upsert that found nothing; a duplicate key aborts.
UpsertInsert(s) ==
    LET account == Upserted(req[s])
    IN  /\ pc[s] = "insert"
        /\ LockIsFree(s, account)
        /\ IF Stored(s, account) = NoRow
           THEN /\ TakeLock(s, account)
                /\ Write(s, account, 0)
                /\ Goto(s, "lock")
                /\ UNCHANGED <<committed, view, req, posted>>
           ELSE Throw(s)

\* SELECT id ... FOR UPDATE, one row at a time in the order of the user ids.  A
\* row that does not exist cannot be locked, and the read that follows finds
\* none either, so the mutation returns null and the callback throws.
LockAccount(s) ==
    LET second == pc[s] = "lockSecond"
        account == IF second THEN SecondLocked(req[s]) ELSE FirstLocked(req[s])
    IN  /\ pc[s] \in {"lock", "lockSecond"}
        /\ LockIsFree(s, account)
        /\ IF Stored(s, account) # NoRow
           THEN /\ TakeLock(s, account)
                /\ Goto(s, IF req[s].op = "transfer" /\ ~second THEN "lockSecond" ELSE "mutate")
                /\ UNCHANGED <<committed, view, draft, req, posted>>
           ELSE Throw(s)

\* Mutant: the update writes the balance computed from the account that was read.
WrittenFromRead(s) == Seen(s, req[s].user) + DeltaOf(s)

\* The update increments the latest version of the balance, not the one read.
Incremented(s) == Stored(s, req[s].user) + DeltaOf(s)

\* applyBalanceAccountMutation after its lock: findUnique, the minimum balance,
\* and the update.
MutateAccount(s) ==
    LET q == req[s]
        account == Seen(s, q.user)
    IN  /\ pc[s] = "mutate"
        /\ IF account # NoRow /\ (Guarded(q) => account + DeltaOf(s) >= 0)
           THEN /\ FixView(s)
                /\ Write(s, q.user, Incremented(s))
                /\ Goto(s, IF q.op = "transfer" THEN "credit" ELSE "commit")
                /\ UNCHANGED <<committed, locks, req, posted>>
           ELSE Throw(s)

\* The second mutation of createTransfer; the recipient exists since the upsert.
CreditRecipient(s) ==
    LET recipient == req[s].target
    IN  /\ pc[s] = "credit"
        /\ Write(s, recipient, Stored(s, recipient) + req[s].amount)
        /\ Goto(s, "commit")
        /\ UNCHANGED <<committed, view, locks, req, posted>>

\* What the balance_transactions rows of the request add to the sum of key k.
PostedBy(s, k) ==
    CASE k = req[s].user -> DeltaOf(s)
      [] k = req[s].target /\ req[s].op = "transfer" -> req[s].amount
      [] k = req[s].target /\ Claims(req[s]) -> DeltaOf(s)
      [] OTHER -> 0

\* The insert of the ledger rows and the commit.
Commit(s) ==
    /\ pc[s] = "commit" /\ req[s].op # "createGift"
    /\ CommitTx(s, <<>>)
    /\ posted' = [k \in Row |-> posted[k] + PostedBy(s, k)]
    /\ Goto(s, "done")
    /\ UNCHANGED req

\* createGiftCode also inserts the code, under an id nobody has used.
CommitGift(s) ==
    LET q == req[s]
        gift == [state |-> "active", owner |-> q.user, amount |-> q.amount,
                 fee |-> Share(q.amount, q.feePercent), refundPercent |-> q.refundPercent]
    IN  /\ pc[s] = "commit" /\ q.op = "createGift"
        /\ \E g \in Gift :
             /\ committed[g] = NoRow /\ locks[g] = Free
             /\ CommitTx(s, [r \in {g} |-> gift])
             /\ posted' = [k \in Row |-> posted[k] + IF k \in {g, q.user} THEN -TotalDebit(q) ELSE 0]
        /\ Goto(s, "done")
        /\ UNCHANGED req

\* deleteById: one statement, one transaction.
DeleteCode(s) ==
    LET code == req[s].target
    IN  /\ pc[s] = "delete"
        /\ locks[code] = Free
        /\ committed' = [committed EXCEPT ![code] = NoRow]
        /\ Goto(s, IF committed[code] = NoRow THEN "failed" ELSE "done")
        /\ UNCHANGED <<view, draft, locks, req, posted>>

\* A timeout of the interactive transaction, a deadlock victim, an expired code,
\* a lost connection, a crash of the server.
Abort(s) ==
    /\ pc[s] \notin {"done", "failed"}
    /\ Throw(s)

-----------------------------------------------------------------------------

Init ==
    /\ TxInit(Opening)
    /\ req \in [Session -> Request]
    /\ pc = [s \in Session |-> FirstStatement(req[s])]
    /\ posted = [k \in Row |-> OpeningPosted(k)]

Statement(s) ==
    \/ ReadCode(s) \/ ClaimGift(s) \/ UseCode(s)
    \/ UpsertRead(s) \/ UpsertInsert(s)
    \/ LockAccount(s) \/ MutateAccount(s) \/ CreditRecipient(s)
    \/ Commit(s) \/ CommitGift(s) \/ DeleteCode(s)

Next == \E s \in Session : Statement(s) \/ Abort(s)

Spec == Init /\ [][Next]_vars

\* Every request that has started goes on to its next statement; InnoDB grants a
\* lock that stays free.  Nothing makes an Abort happen.
FairSpec == Spec /\ \A s \in Session : WF_vars(Statement(s))

-----------------------------------------------------------------------------
\* Properties

\* Every variable has its type, row by row of each table.
TypeOK ==
    /\ pc \in [Session -> {"read", "claim", "upsert", "insert", "lock", "lockSecond",
                           "mutate", "credit", "commit", "delete", "done", "failed"}]
    /\ req \in [Session -> Request]
    /\ posted \in [Row -> Int]
    /\ locks \in [Row -> Session \cup {Free}]
    /\ DOMAIN committed = Row /\ DOMAIN view = Session /\ DOMAIN draft = Session
    /\ \A u \in User : committed[u] \in Int \cup {NoRow}
    /\ \A g \in Gift : committed[g] \in GiftVersion \cup {NoRow}
    /\ \A c \in Code : committed[c] \in CodeVersion \cup {NoRow}
    /\ \A s \in Session :
         /\ DOMAIN draft[s] = Row
         /\ \A u \in User : draft[s][u] \in Int \cup {Clean}
         /\ \A g \in Gift : draft[s][g] \in GiftVersion \cup {Clean}
         /\ \A c \in Code : draft[s][c] \in CodeVersion \cup {Clean}
         /\ view[s] # NoView =>
              /\ DOMAIN view[s] = Row
              /\ \A u \in User : view[s][u] \in Int \cup {NoRow}
              /\ \A g \in Gift : view[s][g] \in GiftVersion \cup {NoRow}
              /\ \A c \in Code : view[s][c] \in CodeVersion \cup {NoRow}

\* No balance update is lost or doubled: whatever the interleaving and wherever
\* requests are cut off, every balance is its opening value plus the sum of the
\* balance_transactions rows of its user (balance-account-mutation.ts:28-31).
BalancesMatchLedger ==
    \A u \in User : Balance(committed[u]) = Balance(Opening[u]) + posted[u]

\* A gift code is paid out once: the ledger rows that name a gift code sum to the
\* debit of its creation while it is active, to minus its fee once redeemed, and
\* to the kept part of the fee once cancelled, however redeemers and the creator
\* race (the conditional claims of redeemGiftCode and cancelGiftCode).
GiftsSettleOnce == \A g \in Gift : posted[g] = GiftSum(committed[g])

\* Creating a gift code never overdraws the account, whatever commits while the
\* request runs (the minimumBalance check of createGiftCode).
GiftsAreCovered ==
    [][\A s \in Session :
        pc[s] = "commit" /\ pc'[s] = "done" /\ req[s].op = "createGift"
            => committed'[req[s].user] >= 0]_vars

\* "Your balance must cover the recipient amount plus the fee": a committed direct
\* transfer leaves the sender's account at zero or above.
TransfersAreCovered ==
    [][\A s \in Session :
        pc[s] = "commit" /\ pc'[s] = "done" /\ req[s].op = "transfer"
            => committed'[req[s].user] >= 0]_vars

\* "Missing, redeemed, cancelled, or expired codes cannot be used": the ledger
\* rows that name a redemption code never sum to more than its amount.
CodesCreditOnce ==
    \A c \in Code : Opening[c] # NoRow => posted[c] <= Opening[c].amount

\* Does every account exist that a request would otherwise create?
AccountsExist ==
    \A s \in Session :
        Opening[IF req[s].op = "transfer" THEN req[s].target ELSE req[s].user] # NoRow

\* The lock order (a code before an account, accounts by user id) leaves no cycle
\* of waiting requests while every account exists: every request ends, even if
\* no timeout or deadlock victim ever cuts one off.
RequestsEnd == \A s \in Session : AccountsExist => <>(pc[s] \in {"done", "failed"})

-----------------------------------------------------------------------------
\* The inductive invariant of the proofs: what a session knows, and what it has
\* written, at each of its statements.

AfterClaim == {"upsert", "insert", "lock", "mutate", "commit"}

StatementFitsRequest(s) ==
    LET op == req[s].op
    IN  /\ pc[s] \in {"read", "claim"} => Claims(req[s])
        /\ pc[s] \in {"upsert", "insert"} => op \notin {"createGift", "deleteCode"}
        /\ pc[s] \in {"lock", "mutate", "commit"} => op # "deleteCode"
        /\ pc[s] \in {"lockSecond", "credit"} => op = "transfer"
        /\ pc[s] = "delete" => op = "deleteCode"

Held(s, r) == locks[r] = s /\ Stored(s, r) # NoRow

\* The accounts a session is about to update are locked and exist.
AccountsHeld(s) ==
    /\ pc[s] = "lockSecond" => Held(s, FirstLocked(req[s]))
    /\ pc[s] \in {"mutate", "credit", "commit"} =>
         Held(s, FirstLocked(req[s])) /\ Held(s, SecondLocked(req[s]))

\* What the statements so far have added to the balance of u.
Applied(s, u) ==
    IF pc[s] = "commit" \/ (pc[s] = "credit" /\ u = req[s].user) THEN PostedBy(s, u) ELSE 0

AccountsApplied(s) ==
    \A u \in User : Balance(Stored(s, u)) = Balance(committed[u]) + Applied(s, u)

\* A draft of a gift code is the claim of its session on a code still active.
GiftsClaimed(s) ==
    LET q == req[s]
    IN  /\ \A g \in Gift : draft[s][g] # Clean =>
             /\ q.op \in {"redeemGift", "cancelGift"} /\ q.target = g
             /\ committed[g] # NoRow /\ committed[g].state = "active"
             /\ draft[s][g] = [committed[g] EXCEPT !.state = ClaimedState(q)]
        /\ pc[s] \in AfterClaim /\ Claims(q) => draft[s][q.target] # Clean

DraftsLocked == \A s \in Session, r \in Row : draft[s][r] # Clean => locks[r] = s

LedgerInv ==
    /\ TypeOK /\ DraftsLocked
    /\ \A s \in Session :
         /\ StatementFitsRequest(s) /\ AccountsHeld(s)
         /\ AccountsApplied(s) /\ GiftsClaimed(s)
    /\ BalancesMatchLedger /\ GiftsSettleOnce

-----------------------------------------------------------------------------
\* Every committed request is one atomic step of the service: no partial effect,
\* no effect of a request that failed, none computed from another's leftovers.
Service == INSTANCE LedgerService WITH tables <- committed
ImplementsService == Service!Spec
=============================================================================
