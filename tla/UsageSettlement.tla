--------------------------- MODULE UsageSettlement ---------------------------
(***************************************************************************)
(* The settlement of relayed requests: chargeUsage and the transactions of *)
(* RelayProxyRepository it runs under the user's billing lock, statement   *)
(* by statement, with their retries, beside the transactions that only     *)
(* record a usage and take no lock.                                        *)
(*                                                                         *)
(* Every caller of chargeUsage passes balanceChargeMode "allow-negative".  *)
(* Amounts are counted in units of 0.0001; a duration or a token count is  *)
(* modelled only where it decides a branch.                                *)
(***************************************************************************)
EXTENDS Integers, FiniteSetsExt, Functions, SequencesExt, MySqlTx, DistributedLock

CONSTANTS
    User,          \* owners of balance accounts
    Token,         \* relay tokens
    RequestId,     \* request ids of one token
    Pass,          \* monthly passes
    Passes,        \* the enabled passes of every user that cover the request, by endAt
    PassUnit,      \* quotaUnit of a pass: "amount", "request" or "token"
    DailyQuota,    \* dailyQuota of a pass, or NoLimit
    NoLimit,
    NoProvider,    \* the channel of a request has no provider with a realtime share
    CommissionPercent,
    Bill,          \* the usages to settle or record
    Opening,       \* the tables before the first of them
    MaxAttempts    \* RELAY_TRANSACTION_MAX_ATTEMPTS

VARIABLES
    bill,      \* the usage of every session
    stage,     \* where a session is in chargeUsage
    at,        \* the next statement of its transaction
    tries,     \* the transactions it has lost to a write conflict
    plan,      \* monthlyPassAllocationPlan and remainingCost of its transaction
    outcome,   \* what it returned or threw
    usage,     \* the relay_usage rows of charged requests with their coverage
    posted     \* balance_transactions: the sum of amounts by userId

vars == <<txVars, lockVars, bill, stage, at, tries, plan, outcome, usage, posted>>
session == <<bill, stage, at, tries, plan, outcome>>
tables == <<txVars, usage, posted>>

Logical == Token \X RequestId

\* The rows of relay_logical_requests, relay tokens and monthly passes.
RequestVersion == [counted : BOOLEAN, settled : BOOLEAN]
TokenVersion == [requests : Int, quota : Int]
PassVersion == [remaining : Int, used : Int, window : Int]
Version == RequestVersion \cup TokenVersion \cup PassVersion \cup Int \cup {NoRow}

ASSUME SettlementAssumption ==
    /\ Task = Session /\ LockKey = User
    /\ Row = Logical \cup Token \cup User \cup Pass
    /\ Logical \cap (Token \cup User \cup Pass) = {}
    /\ Token \cap (User \cup Pass) = {} /\ User \cap Pass = {}
    /\ IsFiniteSet(RequestId) /\ NoProvider \notin User
    /\ CommissionPercent \in Nat /\ MaxAttempts \in Nat \ {0}
    /\ NoRow \notin Int \cup RequestVersion
    /\ Clean \notin Version /\ NoView \notin [Row -> Version]
    /\ Passes \in [User -> Seq(Pass)] /\ PassUnit \in [Pass -> {"amount", "request", "token"}]
    /\ DailyQuota \in [Pass -> Int \cup {NoLimit}]
    /\ \A b \in Bill :
         /\ b.op \in {"charge", "record"} /\ b.user \in User /\ b.id \in RequestId
         /\ b.path \in Seq(Token) /\ b.path # <<>> /\ IsInjective(b.path)
         /\ b.cost \in Nat /\ b.tokens \in Nat /\ b.provider \in User \cup {NoProvider}
    (* A request that is there has been counted, once. *)
    /\ DOMAIN Opening = Row
    /\ \A q \in Logical : Opening[q] # NoRow => Opening[q] \in RequestVersion /\ Opening[q].counted
    /\ \A t \in Token :
         /\ Opening[t] \in TokenVersion
         /\ Opening[t].requests = Cardinality({i \in RequestId : Opening[<<t, i>>] # NoRow})
    /\ \A u \in User : Opening[u] \in Int \cup {NoRow}
    /\ \A p \in Pass : Opening[p] \in PassVersion /\ Opening[p].remaining >= 0

-----------------------------------------------------------------------------
\* The statements of a transaction

\* ensureLogicalRequest: the upsert as SELECT and INSERT, the count claim, and
\* the request counter of the token.
Ensure(t, id) ==
    << [do |-> "find", row |-> <<t, id>>], [do |-> "insert", row |-> <<t, id>>],
       [do |-> "count", row |-> <<t, id>>], [do |-> "tally", row |-> t] >>

\* attributeUsage: five statements for each ancestor of the leaf.
Attribute(b) ==
    [k \in 1 .. 5 * (Len(b.path) - 1) |->
        LET t == b.path[1 + ((k - 1) \div 5)]
        IN  (Ensure(t, b.id) \o <<[do |-> "spend", row |-> t]>>)[1 + ((k - 1) % 5)]]

Root(b) == Head(b.path)
Leaf(b) == Last(b.path)

Program == [b \in Bill |->
    IF b.op = "record" THEN Ensure(Leaf(b), b.id) \o Attribute(b)
    ELSE Ensure(Root(b), b.id) \o <<[do |-> "claim", row |-> <<Root(b), b.id>>]>>
         \o Ensure(Leaf(b), b.id)
         \o << [do |-> "plan", row |-> b.user], [do |-> "lock", row |-> b.user],
               [do |-> "cover", row |-> b.user], [do |-> "debit", row |-> b.user],
               [do |-> "findPayee", row |-> b.provider],
               [do |-> "insertPayee", row |-> b.provider],
               [do |-> "pay", row |-> b.provider], [do |-> "spend", row |-> Leaf(b)] >>
         \o Attribute(b)]

Finished(s) == at[s] > Len(Program[bill[s]])
Doing(s) == IF stage[s] = "work" /\ ~Finished(s) THEN Program[bill[s]][at[s]].do ELSE "none"
Target(s) == Program[bill[s]][at[s]].row

Advance(s, n) ==
    /\ at' = [at EXCEPT ![s] = at[s] + n]
    /\ UNCHANGED <<bill, stage, tries, outcome>>

NoPlan == [left |-> 0, covered |-> 0, parts |-> <<>>, next |-> 1]

\* The callback has returned or thrown.
Leave(s, result) ==
    /\ stage' = [stage EXCEPT ![s] = "release"]
    /\ outcome' = [outcome EXCEPT ![s] = result]
    /\ UNCHANGED <<bill, at, tries, plan>>

\* An error other than a write conflict is rethrown.
Throw(s, result) ==
    /\ RollbackTx(s)
    /\ Leave(s, result)
    /\ UNCHANGED <<usage, posted>>

\* P2034, or P2002 on the logical request: the whole transaction runs again, unless
\* this was the last attempt.
Retry(s) ==
    IF tries[s] = MaxAttempts - 1 THEN Throw(s, "contended")
    ELSE /\ RollbackTx(s)
         /\ tries' = [tries EXCEPT ![s] = @ + 1]
         /\ at' = [at EXCEPT ![s] = 1]
         /\ plan' = [plan EXCEPT ![s] = NoPlan]
         /\ UNCHANGED <<bill, stage, outcome, usage, posted>>

\* A return before the end: the transaction commits what it has written so far.
ReturnEarly(s, result) ==
    /\ CommitTx(s, <<>>)
    /\ Leave(s, result)
    /\ UNCHANGED <<usage, posted>>

-----------------------------------------------------------------------------
\* The pass allocation, a pure function of the passes read

\* Quota of the pass that is left, also in its daily window.
Available(p, pass) ==
    LET inWindow == DailyQuota[p] - pass.window
    IN  IF DailyQuota[p] = NoLimit \/ inWindow > pass.remaining THEN pass.remaining
        ELSE inWindow

\* Math.round(a / b) for naturals
RoundedQuotient(a, b) == (2 * a + b) \div (2 * b)

Least(a, b) == IF a < b THEN a ELSE b

\* What one pass contributes to a cost of left units: consumedQuota and coveredAmount.
Contribution(unit, available, left, tokens) ==
    LET units == IF tokens > 1 THEN tokens ELSE 1
        covers == Least(units, available)
        paid == Least(left, available)
    IN  IF available <= 0 THEN [quota |-> 0, covered |-> 0]
        ELSE CASE unit = "request" -> [quota |-> 1, covered |-> left]
               [] unit = "token" -> [quota |-> covers, covered |-> RoundedQuotient(left * covers, units)]
               [] OTHER -> [quota |-> paid, covered |-> paid]

\* One turn of the loop over the passes.
AllocateFrom(p, b, seen, acc) ==
    LET c == Contribution(PassUnit[p], Available(p, seen[p]), acc.left, b.tokens)
    IN  IF acc.left = 0 \/ c.covered = 0 THEN acc
        ELSE [acc EXCEPT !.left = @ - c.covered, !.covered = @ + c.covered,
                         !.parts = Append(@, [pass |-> p, quota |-> c.quota])]

\* The passes in the order of the query.
Allocate(b, seen) ==
    FoldLeft(LAMBDA acc, p : AllocateFrom(p, b, seen, acc),
             [NoPlan EXCEPT !.left = b.cost], Passes[b.user])

\* round4(grossAmount * commissionPercent / 100) of the channel's realtime provider
Commission(s) ==
    IF bill[s].provider = NoProvider THEN 0
    ELSE RoundedQuotient(plan[s].left * CommissionPercent, 100)

-----------------------------------------------------------------------------
\* Statements

\* The SELECT of the upsert.
Find(s) ==
    /\ Doing(s) \in {"find", "findPayee"}
    /\ IF Doing(s) = "findPayee" /\ Commission(s) = 0
       THEN Advance(s, 3) /\ UNCHANGED view
       ELSE /\ FixView(s)
            /\ Advance(s, IF Seen(s, Target(s)) = NoRow THEN 1 ELSE 2)
    /\ UNCHANGED <<committed, draft, locks, lockVars, plan, usage, posted>>

\* The INSERT of the upsert of a logical request; a duplicate key is retried.
InsertRequest(s) ==
    /\ Doing(s) = "insert"
    /\ LockIsFree(s, Target(s))
    /\ IF Stored(s, Target(s)) = NoRow
       THEN /\ TakeLock(s, Target(s))
            /\ Write(s, Target(s), [counted |-> FALSE, settled |-> FALSE])
            /\ Advance(s, 1)
            /\ UNCHANGED <<committed, view, lockVars, plan, usage, posted>>
       ELSE Retry(s) /\ UNCHANGED lockVars

\* Mutant: the counter of the token moves with every upsert.
AlwaysCounts(request) == FALSE

\* countedAt: null in the condition of the claim
AlreadyCounted(request) == request.counted

\* updateMany of countedAt.  It locks the row it examines, whether it matches or not.
ClaimCount(s) ==
    LET request == Stored(s, Target(s))
    IN  /\ Doing(s) = "count"
        /\ LockIsFree(s, Target(s))
        /\ TakeLock(s, Target(s))
        /\ IF AlreadyCounted(request) THEN Advance(s, 2) /\ UNCHANGED draft
           ELSE /\ Write(s, Target(s), [request EXCEPT !.counted = TRUE])
                /\ Advance(s, 1)
        /\ UNCHANGED <<committed, view, lockVars, plan, usage, posted>>

\* requestCount: increment 1
Tally(s) ==
    /\ Doing(s) = "tally"
    /\ LockIsFree(s, Target(s))
    /\ TakeLock(s, Target(s))
    /\ Write(s, Target(s), [Stored(s, Target(s)) EXCEPT !.requests = @ + 1])
    /\ Advance(s, 1)
    /\ UNCHANGED <<committed, view, lockVars, plan, usage, posted>>

\* Mutant: a claim by id alone.
AnyRequest(request) == TRUE

\* settledAt: null in the condition of the claim
Unsettled(request) == ~request.settled

\* updateMany of settledAt and the check of its count; ClaimCount has locked the row.
ClaimSettlement(s) ==
    LET request == Stored(s, Target(s))
    IN  /\ Doing(s) = "claim"
        /\ IF Unsettled(request)
           THEN /\ Write(s, Target(s), [request EXCEPT !.settled = TRUE])
                /\ Advance(s, 1)
                /\ UNCHANGED <<committed, view, locks, plan, usage, posted>>
           ELSE ReturnEarly(s, "applied")
        /\ UNCHANGED lockVars

\* The queries for passes and their usage, and the loop that allocates the cost.
PlanCoverage(s) ==
    /\ Doing(s) = "plan"
    /\ FixView(s)
    /\ plan' = [plan EXCEPT ![s] = Allocate(bill[s], [p \in Pass |-> Seen(s, p)])]
    /\ Advance(s, 1)
    /\ UNCHANGED <<committed, draft, locks, lockVars, usage, posted>>

\* lockBalanceAccount, and the early return when there is no account to charge.
LockAccount(s) ==
    LET account == Target(s)
    IN  /\ Doing(s) = "lock"
        /\ LockIsFree(s, account)
        /\ IF plan[s].left > 0 /\ Seen(s, account) = NoRow
           THEN ReturnEarly(s, "skipped")
           ELSE /\ IF Stored(s, account) = NoRow THEN UNCHANGED locks ELSE TakeLock(s, account)
                /\ Advance(s, 1)
                /\ UNCHANGED <<committed, view, draft, plan, usage, posted>>
        /\ UNCHANGED lockVars

\* Mutant: an update by id alone.
AnyQuota(pass, part) == TRUE

\* remainingQuota: gte in the condition of the update
StillCovers(pass, part) == pass.remaining >= part.quota

\* One turn of the loop over the plan: updateMany of the pass, the check of its
\* count, and its usage row.
CoverByPass(s) ==
    /\ Doing(s) = "cover"
    /\ IF plan[s].next > Len(plan[s].parts)
       THEN Advance(s, 1) /\ UNCHANGED <<txVars, plan, usage, posted>>
       ELSE LET part == plan[s].parts[plan[s].next]
                pass == Stored(s, part.pass)
            IN  /\ LockIsFree(s, part.pass)
                /\ IF StillCovers(pass, part)
                   THEN /\ TakeLock(s, part.pass)
                        /\ Write(s, part.pass,
                                 [remaining |-> pass.remaining - part.quota,
                                  used |-> pass.used + part.quota,
                                  window |-> pass.window + part.quota])
                        /\ plan' = [plan EXCEPT ![s].next = @ + 1]
                        /\ UNCHANGED <<committed, view, bill, stage, at, tries, outcome, usage, posted>>
                   ELSE Throw(s, "conflict")
    /\ UNCHANGED lockVars

\* Mutant: the balance is computed from the account that was read.
FromRead(s) == Seen(s, bill[s].user) - plan[s].left

\* balance: increment of a negative amount
Debited(s) == Stored(s, bill[s].user) - plan[s].left

\* applyBalanceAccountMutation of the payer, whose account is locked.
Debit(s) ==
    /\ Doing(s) = "debit"
    /\ IF plan[s].left = 0 THEN UNCHANGED draft ELSE Write(s, Target(s), Debited(s))
    /\ Advance(s, 1)
    /\ UNCHANGED <<committed, view, locks, lockVars, plan, usage, posted>>

\* The INSERT of the payee's account; its duplicate key is not a write conflict.
InsertPayee(s) ==
    /\ Doing(s) = "insertPayee"
    /\ LockIsFree(s, Target(s))
    /\ IF Stored(s, Target(s)) = NoRow
       THEN /\ TakeLock(s, Target(s))
            /\ Write(s, Target(s), 0)
            /\ Advance(s, 1)
            /\ UNCHANGED <<committed, view, plan, usage, posted>>
       ELSE Throw(s, "failed")
    /\ UNCHANGED lockVars

\* settleProviderEarnings of the earning just recorded: the payee's account is
\* locked and credited.
Pay(s) ==
    /\ Doing(s) = "pay"
    /\ LockIsFree(s, Target(s))
    /\ TakeLock(s, Target(s))
    /\ Write(s, Target(s), Stored(s, Target(s)) + Commission(s))
    /\ Advance(s, 1)
    /\ UNCHANGED <<committed, view, lockVars, plan, usage, posted>>

\* usedQuota: increment; a usage without cost and tokens leaves the ancestors alone.
Spend(s) ==
    LET quota == plan[s].covered + plan[s].left
    IN  /\ Doing(s) = "spend"
        /\ IF quota = 0 /\ bill[s].tokens = 0 /\ Target(s) # Leaf(bill[s])
           THEN UNCHANGED <<draft, locks>>
           ELSE /\ LockIsFree(s, Target(s))
                /\ TakeLock(s, Target(s))
                /\ Write(s, Target(s), [Stored(s, Target(s)) EXCEPT !.quota = @ + quota])
        /\ Advance(s, 1)
        /\ UNCHANGED <<committed, view, lockVars, plan, usage, posted>>

UsageRow(s) ==
    [session |-> s, user |-> bill[s].user, path |-> bill[s].path, id |-> bill[s].id,
     charged |-> plan[s].left, covered |-> plan[s].covered, parts |-> plan[s].parts]

\* The end of the callback and the commit, with the rows it inserted.
Commit(s) ==
    /\ stage[s] = "work" /\ Finished(s)
    /\ CommitTx(s, <<>>)
    /\ IF bill[s].op = "record" THEN UNCHANGED <<usage, posted>>
       ELSE /\ usage' = usage \cup {UsageRow(s)}
            /\ posted' = [u \in User |-> posted[u]
                            - (IF u = bill[s].user THEN plan[s].left ELSE 0)
                            + (IF u = bill[s].provider THEN Commission(s) ELSE 0)]
    /\ Leave(s, "applied")
    /\ UNCHANGED lockVars

\* The rows the next statement locks.
Wanted(s) ==
    IF Doing(s) \in {"none", "find", "findPayee", "plan"} THEN {}
    ELSE IF Doing(s) = "cover"
    THEN {plan[s].parts[i].pass : i \in DOMAIN plan[s].parts \cap {plan[s].next}}
    ELSE {Target(s)}

\* InnoDB rolls back a transaction that waits for a lock as a deadlock victim.
Victim(s) ==
    /\ \E r \in Wanted(s) : ~LockIsFree(s, r)
    /\ Retry(s)
    /\ UNCHANGED lockVars

\* The interactive transaction times out, or its connection is lost.
Abort(s) ==
    /\ stage[s] = "work"
    /\ Throw(s, "failed")
    /\ UNCHANGED lockVars

-----------------------------------------------------------------------------
\* chargeUsage around the transaction

\* acquire of the billing lock
AcquireBilling(s) ==
    LET user == bill[s].user
    IN  /\ stage[s] = "acquire"
        /\ Acquired(s, user) \/ BackendUnavailable(s, user) \/ AcquireTimesOut(s, user)
        /\ IF handle'[s] = "refused"
           THEN /\ stage' = [stage EXCEPT ![s] = "over"]
                /\ outcome' = [outcome EXCEPT ![s] = "failed"]
           ELSE stage' = [stage EXCEPT ![s] = "work"] /\ UNCHANGED outcome
        /\ UNCHANGED <<tables, bill, at, tries, plan>>

\* The finally block of runWithLock; a session that only records has no handle.
ReleaseBilling(s) ==
    /\ stage[s] = "release"
    /\ Release(s, bill[s].user)
    /\ stage' = [stage EXCEPT ![s] = "over"]
    /\ UNCHANGED <<tables, bill, at, tries, plan, outcome>>

LapseBilling(u) == Lapse(u) /\ UNCHANGED <<tables, session>>

-----------------------------------------------------------------------------

Init ==
    /\ TxInit(Opening) /\ LockInit
    /\ bill \in [Session -> Bill]
    /\ stage = [s \in Session |-> IF bill[s].op = "charge" THEN "acquire" ELSE "work"]
    /\ at = [s \in Session |-> 1]
    /\ tries = [s \in Session |-> 0]
    /\ plan = [s \in Session |-> NoPlan]
    /\ outcome = [s \in Session |-> "none"]
    /\ usage = {}
    /\ posted = [u \in User |-> 0]

Statement(s) ==
    \/ Find(s) \/ InsertRequest(s) \/ ClaimCount(s) \/ Tally(s)
    \/ ClaimSettlement(s) \/ PlanCoverage(s) \/ LockAccount(s) \/ CoverByPass(s)
    \/ Debit(s) \/ InsertPayee(s) \/ Pay(s) \/ Spend(s) \/ Commit(s)
    \/ AcquireBilling(s) \/ ReleaseBilling(s)

Next ==
    \/ \E s \in Session : Statement(s) \/ Victim(s) \/ Abort(s)
    \/ \E u \in User : LapseBilling(u)

Spec == Init /\ [][Next]_vars

-----------------------------------------------------------------------------
\* Properties

\* A logical request is charged once, however often and by however many processes it
\* is finalized, also without the billing lock (the settledAt claim of
\* finalizeChargedUsage).
ChargedOnce ==
    \A v, w \in usage : Root(v) = Root(w) /\ v.id = w.id => v = w

\* A request is never marked counted or settled and left out of what its token
\* shows: requestCount is the number of logical requests of the token, and usedQuota
\* the cost of the charged usages that name it on their path.
TokensMatchUsage ==
    \A t \in Token :
        /\ committed[t].requests =
             Cardinality({i \in RequestId : committed[<<t, i>>] # NoRow})
        /\ committed[t].quota = Opening[t].quota +
             SumFunction([w \in usage |->
                             IF Contains(w.path, t) THEN w.charged + w.covered ELSE 0])

\* A missing account counts as an empty one.
Worth(account) == IF account = NoRow THEN 0 ELSE account

\* No balance update is lost or doubled by concurrent settlements of payers and
\* payees: every balance is its opening value plus its balance_transactions rows.
BalancesMatchLedger ==
    \A u \in User : Worth(committed[u]) = Worth(Opening[u]) + posted[u]

\* What a usage took from a pass.
TakenBy(w, p) ==
    SumFunction([i \in DOMAIN w.parts |-> IF w.parts[i].pass = p THEN w.parts[i].quota ELSE 0])

\* A pass is never overdrawn, and the quota it has lost is what its usage rows took,
\* even when settlements of one user run side by side.
PassesMatchUsage ==
    \A p \in Pass :
        LET taken == SumFunction([w \in usage |-> TakenBy(w, p)])
        IN  /\ committed[p].remaining >= 0
            /\ committed[p].remaining = Opening[p].remaining - taken
            /\ committed[p].used = Opening[p].used + taken

\* A task that outlasts its lock does no harm to the next one when it ends: a key is
\* deleted by the task whose token it holds, or by its TTL, and by nothing else.
OnlyOwnerFrees ==
    [][\A u \in User :
        owner[u] # Unowned /\ owner'[u] # owner[u]
            => handle'[owner[u]] = "none" \/ LapseBilling(u)]_vars

=============================================================================
