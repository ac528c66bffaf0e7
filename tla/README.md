# Quyan AppServer: specifications and proofs

TLA+ specifications of the concurrent core of the backend (`src/apps/backend`), the TLC
runs that check them on small instances, and TLAPS proofs about them for instances of any
size. Paths below are relative to `src/apps/backend/src/`.

Run TLC on the MC modules (`tlc -config BalanceLedger.cfg MCBalanceLedger`) and
TLAPS on the `_proofs` modules (`tlapm BalanceLedger_proofs.tla`).

1. [The system](#1-the-system)
2. [Modules](#2-modules)
3. [Runs](#3-runs)
4. [Proofs](#4-proofs)
5. [Where the code and its documentation disagree](#5-where-the-code-and-its-documentation-disagree)
6. [Not modelled](#6-not-modelled)
7. [Plan](#7-plan)

## 1. The system

The repository is a multi-tenant application server: an AI API relay with billing, and
around it accounts, IAM, tickets, articles, a developer platform, a remote terminal and an
agent runtime. The backend is a set of identical Node.js processes (`main.ts`, `app.ts`).
They share a MySQL database, through Prisma, and a Redis server. Inside one process, code
is interleaved only at an `await`. Between processes, what orders two requests is a row
lock or a condition in MySQL, or a script or a `SET NX` in Redis. That is where the hard
behaviour is, and what the specifications are about.

| Component | State it keeps | Operations | Hard behaviour | What makes it correct |
|---|---|---|---|---|
| Balance ledger (`store/billing/balance-*`, `redemption-code.repository.ts`) | accounts, gift codes, redemption codes, ledger rows (MySQL) | recharge, create / redeem / cancel a gift code, transfer, redeem / delete a code | consistent reads mixed with locking reads, two accounts per transfer, races for one code, aborts | balances equal their ledger rows, a code pays once, a guarded debit is covered, no deadlock, all or nothing |
| Relay concurrency pool (`services/relay/relay-concurrency.service.ts`) | slot keys, waiter keys, head and tail of a queue (Redis) | acquire, heartbeat, release, cancel | lost replies, lapsing leases, late releases, crashes in the queue | at most maxConcurrency live holders, first come first served, no waiter lost, the queue never blocks |
| Channel probe lock (`services/relay/relay-channel-probe-lock.service.ts`) | readers, queued writers, active writer (Redis) | withRead, withWrite, withQueueWrite, renewal | the same, and fail-open readers, a renewal in two steps, keys whose TTLs differ | one probe at a time, no locked request beside it, no starvation of probes |
| Redis client (`services/infrastructure/redis.service.ts`) | circuit state of one process | every Redis call | a late answer that closes a circuit opened since, an operation that outlasts the open period | failures open it, one operation per open period probes, it closes again |
| Distributed lock (`services/infrastructure/distributed-lock.service.ts`) | one key per lock | acquire, release, run with lock | lapse of a lock that is not extended, fail-open | a key is freed by its owner or its TTL only |
| Settlement of usage (`store/relay/relay-proxy.repository.ts`, `services/billing/usage-charge.service.ts`) | usage rows, countedAt and settledAt claims, pass quotas, balances, token counters | charge, record, retry on write conflict | early return inside a transaction, retries, two billers of one request, a lock that lapses or fails open | charged once; balances, passes and tokens agree with the usage rows |
| Monthly passes (`store/billing/monthly-pass*`, `services/billing/monthly-pass.service.ts`) | passes with total, used and remaining quota | purchase, assign, extend, edit, delete, consume | read before the transaction, count then insert, consumption beside an edit | quota adds up, purchase limit kept, each request one atomic step |
| Carpool orders (`services/billing/carpool.service.ts`) | orders, members, shares, reservations, captures | create, invite, join, allocate, confirm, leave, submit, accept, fulfil, fail, expire | a confirmed share that changes, money gone since the reservation, late calls, expiry | a member pays the share confirmed, once, and gets it back or one pass |
| Provider settlement (`store/relay/provider-earning-settlement.ts`, claims) | earnings, settlements | accrue, claim, settle | scheduler against claim | an earning is paid once |
| AI resource guard (`services/infrastructure/ai-resource.service.ts`, `middleware/ai-resource-guard.ts`) | active leases, waiters, tickets of one process | admit, wait, release, hop, sample, drain, stop | abort between grant and continuation, shared leases, pressure, shutdown | no slot leaks, none is idle while somebody waits, order of arrival, every request ends |
| Channel health and planning (`services/relay/relay-channel-health.service.ts`, `relay-attempt-planner.service.ts`) | health windows, cooldowns | record an attempt, rank candidates | duplicated and late records | one attempt counts once |
| Probe runs (`services/relay/relay-channel-probe.service.ts`) | runs and rounds | create, claim, execute, finish | nested probe locks, crash of a runner | one active run per slot |
| Agent runtime (`services/agent/agent-runtime.gateway.ts`, `store/agent/agent.repository.ts`) | sockets and pending requests of a process, the lease in the machine row, tasks, events | hello, heartbeat, request, response, disconnect, delete, append | every await, reconnects to another process, cleanup against a newer hello, a user disabled meanwhile | an old connection is fenced, a request waits for an open socket only, every caller is settled once, the row tells who is online |
| Remote terminal (`modules/remote-terminal`) | device and browser sessions | register, open, relay, close | reconnects, half-closed sessions | no session outlives its device |
| IAM (`iam/evaluator`) | none | evaluate policies | order of statements, wildcards | an explicit deny wins |
| Auth, OAuth, developer platform, rate limits, notifications, support, content, lifecycle | rows in MySQL, counters in Redis | create, read, update, delete; one-use codes | little | as stated in their tests |

The parts meet in a relayed request: the AI resource guard admits it into the process, the
concurrency pool gives it a slot, the planner picks channels, the probe lock keeps
calibration probes off the chosen channel during the upstream call, and the settlement
charges it through the ledger under a distributed lock. Each of the Redis parts goes
through the circuit of the Redis client, which answers null when Redis is not reachable.
Passes and carpool orders put money and quota where the settlement finds them.
The hazards of each part are listed, with the line where they bite, in `PROJECT.json`.

## 2. Modules

| Module | What it is |
|---|---|
| `Tables` | the rows of the tables, and the absent row |
| `MySqlTx` | transactions of InnoDB at REPEATABLE READ, as the repositories use them |
| `LedgerData` | rows, amounts and requests of the ledger |
| `LedgerService` | abstract specification: every request is one atomic step |
| `BalanceLedger` | the transactions of the repositories, statement by statement |
| `BalanceLedger_proofs` | its theorems, and the proof that it implements `LedgerService` |
| `RelayConcurrency` | the concurrency pool |
| `AgentGateway` | the gateway of agent machines with the leases in their rows |
| `Leases_proofs` | the theorems of these two, in which a lease decides who may act |
| `ProbeLock` | the probe lock of one channel |
| `RedisCircuit` | the circuit breaker around every Redis operation |
| `ProbeLock_proofs` | the theorems of these two, in which few are let through: probes of a channel, probes of Redis |
| `DistributedLock` | a lock in Redis with a TTL, used by the next one |
| `UsageSettlement`, `UsageSettlement_proofs` | the settlement of usage, on `MySqlTx` and under `DistributedLock`, and its theorems |
| `PassService` | abstract specification of the monthly passes: every request is one atomic step |
| `MonthlyPass`, `MonthlyPass_proofs` | their transactions, statement by statement, on `MySqlTx`, the theorem on the quota, and the proofs that they implement `PassService` and keep the purchase limit |
| `Carpool`, `Carpool_proofs` | carpool orders and their theorems |
| `AIResource`, `AIResource_proofs` | the admission of AI requests to a process and its theorems |
| `Sums` | lemmas on sums over finite sets, for the proofs about money and quota |
| `MC...` | instances for TLC |

### The ledger

`MySqlTx` models code outside the repository. A transaction has a view, fixed by its first
consistent read (`findUnique`), drafts of the rows it wrote, and exclusive row locks that
it keeps to its end. A locking statement (`SELECT ... FOR UPDATE`, `UPDATE`, `INSERT`)
works on the latest committed version, a consistent read on the view, both on the
transaction's own drafts first. `BalanceLedger` composes it with the requests:

| Action | Statement |
|---|---|
| `ReadCode` | `findUnique` of a gift or redemption code and the checks on it |
| `ClaimGift` | `updateMany ... where state: "active"` and the check of its count |
| `UseCode` | `update` of a redemption code by id |
| `UpsertRead`, `UpsertInsert` | the upsert of a missing account; on MySQL Prisma runs it as a SELECT and an INSERT (see the comment at `store/relay/relay-proxy.repository.ts:41`) |
| `LockAccount` | one row of `lockBalanceAccount(s)`, in the order of the user ids |
| `MutateAccount`, `CreditRecipient` | `applyBalanceAccountMutation`: read, minimum balance, increment |
| `Commit`, `CommitGift` | the insert of the ledger rows (and of a gift code) and the commit |
| `DeleteCode` | `deleteById` |
| `Abort` | anything that ends a transaction from outside, at any statement |

A session is one request and runs once. Checks before the transaction (expiry, amounts,
self-transfer) only ever refuse a request; they are constraints on `Request` or are covered
by `Abort`. A row that does not exist cannot be locked: `LockAccount` on it leads to the
null that the callback turns into an error. `posted` is the sum of the
`balance_transactions` rows by user and by code. Money is counted in units of 0.0001, and
fee percents are whole numbers 0..100 as `config.schema` has them, so `Share` is `round4`
exactly. The range of the DECIMAL columns is not modelled, nor are gap locks, the columns
totalRecharged and totalUsed, or balanceBefore and balanceAfter of the ledger rows (for
display only).

`LedgerService` has one atomic action per kind of request. `ImplementsService` says that
`BalanceLedger`, with `tables <- committed`, implements it: no partial effect, no effect
of a failed request, no effect computed from another request's leftovers. Two guards of
`LedgerService` are as weak as the code makes them; section 5 says why.

### The concurrency pool

A client is one relayed request and its name is its owner token. `pc` follows `acquire`:

| pc | Where the client is |
|---|---|
| `start` | before its first command |
| `queued` | has a ticket, polls every 100 ms |
| `holding` | has a slot and sends heartbeats |
| `undo` | was given a slot after an abort, gives it back |
| `cancel`, `finally` | before the cancellation that precedes the throw; the one in `finally` |
| `over` | released, thrown or crashed |

Each script is one action: `AcquireDirect` (queue disabled), `Reserve`, the three answers
of a poll `TryAdmitted`, `TryWait`, `TryStale`, then `Cancel` and `GiveBack`. `Answered`
says what every caller has to live with: the reply arrives, or it is lost after the script
has run and the client sees null. `Unreachable` is a command that never runs. A command is
not replayed (`config/redis.ts` sets `autoResendUnfulfilledCommands: false`). `FallSilent`
is a client that stalls, or whose renewals fail, for a whole TTL; it may go on later with
what it believes it holds. Keys of clients at work do not expire: the heartbeat renews a
slot every third of its TTL, and the TTL of a waiter key is longer than the queue timeout.

The script takes the lowest free slot; slots are interchangeable in the model. `FirstWaiting`
is the loop that advances the head, stated by what it finds. `maxConcurrency` does not
change during a run.

### The probe lock

User requests to a channel are readers, calibration probes are writers. Clients come back
for ever, each time with a new token (`Again`), so that starvation can be seen. `readers`,
`queue`, `registered` and `active` are the four kinds of Redis keys. The write queue is
modelled as the scripts leave it, with the sweep in `Kept`. A renewal of a reader is two
commands, `CheckLease` and `ExtendLease`, and a release can fall between them. A client
that sees null runs its upstream call without the lock if it is a reader (`unlocked`) and
fails if it is a writer, as documented in `withRead`.

Time is abstract. A lease of a client that renews it does not run out, with one exception:
the readers key has a TTL of its own (`volatile`), which renewals do not extend, so it may
end under the readers in `Long`, whose upstream call may outlast it. `Long` is a parameter;
the properties say what holds for the others. A writer's registration has a TTL of at
least its deadline plus 5 s, or 90 s. The queue key has the TTL of its last reservation.

### The settlement of usage

`chargeUsage` takes the billing lock of the user and runs `finalizeChargedUsage`; usage
without a charge is recorded by transactions that take no lock. `Program` is the list of
statements of a transaction, in the order of the code, and `at` the next one:

| Action | Statement |
|---|---|
| `Find`, `InsertRequest` | the upsert of the logical request, or of a payee's account |
| `ClaimCount`, `Tally` | `updateMany` of `countedAt`, and the request counter of the token |
| `ClaimSettlement` | `updateMany` of `settledAt`; a second finalization returns here |
| `PlanCoverage` | the queries for passes and the loop that spreads the cost over them |
| `LockAccount` | `lockBalanceAccount`, and the return when there is no account |
| `CoverByPass` | one turn of the loop over the plan: `updateMany` with `remainingQuota: gte` |
| `Debit`, `InsertPayee`, `Pay` | the charge, and the realtime share of the channel's provider |
| `Spend` | `usedQuota` of the leaf token and of its ancestors |
| `Commit` | the end of the callback with the rows it inserts |
| `Victim`, `Abort` | a waiting transaction is rolled back and retried; a transaction is cut off |
| `AcquireBilling`, `ReleaseBilling`, `LapseBilling` | the lock around it (`DistributedLock`) |

`Retry` is the loop over `RELAY_TRANSACTION_MAX_ATTEMPTS`; the backoff is time and left
out. A token composed of others is a path, from the token of the request to the leaf that
is used. `Allocate` is the pass allocation as a pure function of the passes read.
`DistributedLock` lets a command be carried out, be lost, or be carried out and its reply
be lost, and lets a task outlast its key, each under a constant.

### Monthly passes

An administrative write reads the pass first (`ReadPass`, `FindLatest`) and writes later
(`WritePass`), with values computed from what it read. Under IAM enforcement (`Enforced`)
its transaction locks the template or the pass and compares a revision in between
(`LockTemplate`, `LockPass`). A purchase locks the buyer's account (`LockBuyer`), counts
the passes (`CountPasses`), charges (`Charge`) and inserts with its commit. The quota a
settlement takes is the `consume` request, with the condition of its `updateMany`. In
`PassService` each of these is one step; `ImplementsService` maps its tables to the
committed rows.

### Carpool orders

One action per operation of `CarpoolService`, since each is one Serializable transaction;
`invite` reads before it writes (`ReadForInvite`, `Invite`), and the expiry scan looks
again at what it found (`Expire`). `seats` is the order of the member rows by createTime,
which decides who gets the remainder of an equal split; a user who left comes back on the
old row. Ratios and shares are rounded as `round6` rounds them, with a coarser unit.
`SpendElsewhere` is every other use of the balance: a reservation holds nothing back.

### The AI resource guard

One process, one callback at a time. `ArriveByHop`, `Arrive` and `StartJob` ask for a lease;
`Drain` is shared by every callback that ends in a call of `drain`: `FinishLease`, `Sample`,
`Reconfigure`. A waiter that is granted a lease continues in a later callback (`Continue`),
and `Abort` may fall between. A lease counts its references: the guard's, one for each hop,
one for `withAIWork` (`BeginWork`, `EndWork`). `Stop` is the shutdown. It does not keep the
end of a probe run from starting the next one (`services/relay/relay-channel-probe.service.ts:2679`):
`StartJobLate` is such a start, whose `tryAcquire` finds no timer, samples, and sets a timer
going again (`phase` becomes "resumed"), after which jobs start as before.

### The Redis circuit

An operation is sent in one step (`Send`, the synchronous part of `executeWithCircuit`) and
ends in another (`Succeed`, `Fail`). Time passes in ticks, and an operation lasts at most
`Longest` of them. Nothing relates `Longest` to `OpenTicks`, the open period:
`commandTimeout` (3 s, `config/redis.ts:40`) bounds one command, an operation may be a loop
of commands (`services/infrastructure/redis.service.ts:412-434`), and the period may be set
down to 1 s (`config/env/infrastructure.ts:43`). `Gated` callers ask
`isRedisAvailable` first. Its effect on the parts above is the null answer of their
`Answered` and `Unreachable`.

### The agent gateway

A connection runs the operations queued behind its `tail` one after the other. `pc` says
which database call the one at the head awaits: `connect`, `check`, `ready` of a hello,
`active` and then `beat` of a heartbeat, `write` of a request. `Start` is its synchronous
head, `Execute` the moment the statement takes effect in the database, `Resume` the moment
the answer is back on the event loop; closings, timers, requests and other connections come
between. `Disconnect` is `disconnect()` up to its await, `Offline` the rest of it. A failed
database call (`DatabaseFails`) may have taken effect or not.

The lease is the `updateTime` of the row, which every accepted transition moves. Only whether
two leases are equal matters to the code, and `nextRuntimeLease`
(`store/agent/agent.repository.ts:58`) gives a time the row never had; here it is the next
number. `runtimeMachineScope` also asks for a machine that is not deleted and a user and
account owner who are not disabled: `HasLease` is the lease, `Enabled` the rest, `Current`
both. The user and the account owner of a machine are one status in its row (`user`), which
`DisableUser` and `EnableUser` change and which touches neither row nor sockets; a user who
is enabled again is "restored", so that properties can speak of users who never were
disabled. `holder` is history, the connection whose hello took the row last, and `stale`
whether an operation asked when its lease was already lost.

A caller of `request()` is followed through `result`: its request is queued on a connection,
then written and registered (`pending`), then answered, timed out, or failed by a write or a
disconnect. `Request` may find the socket gone or the queue full, the operation in the queue
the map of pending requests full.

## 3. Runs

| Run | Instance | Shows |
|---|---|---|
| `ledger` | 3 sessions, 3 users (one without an account), 4 gift codes, 1 redemption code, 9 requests; 339 k states | no lost update (`BalancesMatchLedger`), a gift code settles once (`GiftsSettleOnce`), creating one is covered (`GiftsAreCovered`), each commit is one atomic step (`ImplementsService`), no cycle of row locks (`RequestsEnd`) |
| `ledger_codes`, `ledger_transfers` | 2 sessions, one redemption code; two transfers of one sender | violations, section 5 |
| `concurrency` | 2 queued clients and a direct one, 2 slots; 90 k states | live holders keep their slots and live waiters their place (`HoldersKeepSlots`, `WaitersKeepTheirPlace`), first come first served (`AdmittedInOrder`), the queue never blocks for good (`WaitersLeave`) |
| `probe` | a short and a long reader, 2 writers; 284 k states | one probe at a time (`SoleProbe`), no locked short request beside it (`ProbeExcludesReaders`), no probe starves (`WritersLeave`) |
| `settlement` | every pair out of 5 usages: direct, composed, with opposite payer and provider, without an account, recorded only; 2 attempts; the lock lapses and fails open; 379 k states | a request is charged once (`ChargedOnce`); balances, passes and tokens agree with the usage rows (`BalancesMatchLedger`, `PassesMatchUsage`, `TokensMatchUsage`); a late release frees nobody else's lock (`OnlyOwnerFrees`) |
| `passes` | 3 sessions out of 16 requests, 2 users, 2 templates with limits 2 and 1, one of them free, IAM enforced; 149 k states | edits and extensions lose no use (`QuotaAddsUp`), the purchase limit holds (`WithinLimit`), each commit is one step of `PassService` |
| `passes_edit` | the administrative requests and consumptions, IAM not enforced | violation, section 5 |
| `carpool` | 3 users, one order, equal and custom shares, 2 invitations, money spent elsewhere; 729 k states | what a member confirmed is what is reserved (`ConfirmedIsReserved`) and paid (`MoneyFollowsOrder`), one pass each (`DeliveredOnce`), no account overdrawn (`Conserved`), no late change (`SharesFrozen`), due orders close (`DueExpires`) |
| `ai` | 2 requests and a probe run, 2 tickets, limit 1 or 2, shutdown and a start after it; 87 k states | no slot leaks (`SlotsAreHeld`) or idles (`NoIdleSlot`), hops are one-use and one at a time (`HopsAreOwned`), order of arrival (`AdmissionInOrder`), every request ends (`RequestsEnd`) |
| `circuit` | 4 callers, threshold 3, 2 ticks open, operations of up to 5; 98 k states | failures open the circuit (`FailuresOpen`), one operation per open period probes (`ProbesApart`), it closes for good when Redis is back (`Recovers`) |
| `agent` | 2 connections, of one machine to one or 2 processes or of 2 machines that may claim one agent id, 3 frames, a request, one mishap; 902 k states | requests wait for open sockets only (`PendingIsOpen`), an old connection is fenced (`StaleIsFenced`), it does not take the machine from a newer one (`LeaseHolderIsOnline`), a machine that is gone is not online (`GoneIsNotOnline`), an answer is the addressee's and settles once (`AnsweredByTarget`), no caller is forgotten (`CallersAccounted`) |

Why the bounds are enough to be interesting:

- Ledger: the races are between the two sides of a code, or two or three transactions on
  one or two accounts; three sessions have every pair at once and a third that commits
  between the steps of the other two. The amounts make fees and refunds round.
- Pool: a holder, a head and one that takes slots past the queue, while crashes and lost
  replies leave tickets and slots behind. The tail stops at the number of clients.
- Probe lock: two writers race for one active key and evict each other; the reader that
  may outlast its key and the one that may not see both. Clients come back for ever.
- Settlement: usages meet in pairs, with themselves too: a repeat of a request, two requests
  of a user (one pass, one account), a payer who is the other's payee, a token path that
  is charged and recorded, a payee whose account one inserts. The first pass has a daily
  window, the second is counted in tokens and too small for both.
- Passes: a third session commits between the read and the write of the second. User 2 has
  no account, one pass is disabled and used up, both limits leave one place.
- Carpool: three members make the equal shares uneven; one who leaves can return; owners
  switch between equal and custom shares once (`MaxChanges`). A second order is not needed
  for a reservation that is not covered, since money is also spent elsewhere (`MaxSpent`).
- AI guard: the limit changes below and above what is in use; a second ticket replaces the
  first.
- Circuit: all callers but one can fail together and reach the threshold. An operation may
  last two open periods and a tick, so three probes can be in flight at once, a probe
  can end in a later period than its own, and one period can end under another's probe.
- Agent gateway: `Attachable` connects the second connection to the same process or another
  for the first's machine, or to the same process for a second machine, whose remote may
  claim the first's agent id (`Claims`): two serving connections in one process, a
  reconnection there, one elsewhere. The request is for the first machine (`Targets`), and
  the second connection may answer it. A mishap (`MaxMishaps`) is a database failure, a crash,
  a deletion of the first machine (`Touchable`) or its user disabled and enabled again; one
  meets three frames (`MaxFrames`) anywhere, as two hellos and a heartbeat or an answer.

Deadlock checking is off where requests, orders or connections end. The probe lock and the
circuit never end and are checked for deadlock.

Fairness:

- `RequestsEnd` of the ledger: a session goes on to its next statement when it can (WF of
  `Statement`): a server that is up runs the callback on, and InnoDB grants a lock that
  stays free. No fairness on `Abort`: neither timeouts nor deadlock detection help. It is
  claimed for requests whose accounts exist (`AccountsExist`); section 6 says why.
- `WaitersLeave`, `WritersLeave`: a client that polls gets an answer to a poll that would
  admit or dismiss it, calls end, and TTLs of dead keys run out. Give-ups, crashes and lost
  replies may happen or not; that no client ever reaches its deadline is allowed, so the
  properties are about the queues and not about timeouts.
- `RequestsEnd` of the AI guard: resolved promises continue, timers fire, responses and work
  end (WF of `Proceed`). None on samples: memory may stay short for ever.
- `Recovers`: time goes on, an operation ends, and a caller that does not ask
  `isRedisAvailable` keeps calling. Without such a caller the property is false: an open
  circuit is probed only by an operation. The pool, the probe lock and the distributed lock
  ask; the check of every authenticated request (`middleware/auth/auth_guard.ts:296`), the
  heartbeats and the releases do not.
- `DueExpires`: the scan runs every minute on some process and comes to each order it finds
  (WF of `Expire` for each order). An order whose transaction always fails would hold up
  those behind it; that is not modelled.
- Settlement, passes and the agent gateway claim safety only. Settlements that wait for
  each other are ended by InnoDB's deadlock detection and retried.

Each property of a passing run has a mutant of the code that breaks it (the definitions
marked "Mutant" in the modules, and `PROJECT.json`): a balance written from the value read,
a claim without its condition, locks in parameter order, a `SET` without `NX`, an owner
token not compared, a head moved too far, a revision not compared, a confirmation that
survives a change of shares, a socket not looked at again after an await, a cleanup that
does not wait for the operation in flight.

## 4. Proofs

TLAPS checks these for any number of sessions, users, codes, requests, clients, slots,
orders, callers, connections and machines, from the named assumptions on the constants
(`LedgerAssumption`, `TxAssumption`, `SessionAssumption`, `PoolAssumption`, `LockAssumption`,
`SettlementAssumption`, `CarpoolAssumption`, `PassAssumption`, `AIAssumption`,
`CircuitAssumption`, `GatewayAssumption`): disjointness of identifiers and markers, finite
sets where something is counted or summed, well-formed requests, numbers that are numbers.
Few theorems have a hypothesis of their own, and each says why: those on passes need IAM
enforcement, the probe lock keeps its full promise if `Long = {}`, and the corollary
`ShortProbesAreAlone` of the circuit is about operations shorter than the open period.
Every invariant named below was checked by TLC on an instance of its run before its proof.

- **Ledger** (`BalanceLedger_proofs`). `BalancesMatchLedger` is not inductive: that a commit
  adds what it posts depends on what the session has drafted, and that rests on nobody else
  writing a locked row. `LedgerInv` says for each session and statement which accounts are
  locked and exist, how far its drafts are from the committed balances, and which gift code
  it has claimed; and that drafts are locked. One lemma per statement shows that its session
  keeps this; `OtherSessions` shows once that a step of one session leaves what is said of
  the others alone. Proved: `TypeOK`, `BalancesMatchLedger`, `GiftsSettleOnce`, and the
  action property `GiftsAreCovered`. The last rests on `createGiftCode` taking its view
  after its lock.
- **Ledger refinement** (`BalanceLedger_proofs`). `LedgerInv` bounds what a session has
  drafted; to map its commit to one step of `LedgerService` one must know exactly what it
  has drafted, row by row. `RowsDrafted` says which increments and which state of a code the
  drafts amount to at each statement, `RefinementInv` joins it with `LedgerInv` and
  `CoverInv`, and `CommitIsAtomic` shows that the table a commit publishes is the one the
  service's operation computes. Every other statement stutters. Proved: `ImplementsService`.
- **Pool** (`Leases_proofs`). `ConcurrencyInv` adds to the two safety invariants
  that no waiter key lies behind the head, that a ticket is given once and its key names
  its client, and that a holder has a slot. Proved: `TypeOK`, `HoldersKeepSlots`,
  `WaitersKeepTheirPlace` and the action property `AdmittedInOrder`.
- **Probe lock** (`ProbeLock_proofs`). `ProbeInv` adds that a live probe is the owner under
  the active key and a live short request a member of the readers key. Most steps put no one
  to work and touch no key of anyone at work, which one lemma (`NoNewWork`) covers; the two
  admissions are proved by themselves. Proved: `SoleProbe`, `ProbeExcludesReaders`, and that
  the lock keeps its full promise if `Long = {}`.
- **Circuit** (`ProbeLock_proofs`). `FailuresOpen` is inductive with the types and needs
  nothing else (`CountInv`). `ProbesApart` is not: the half-open state clears the probe flag
  when it ends, and a probe of the time before may still be under way. `ProbesAge` says that
  while the circuit is open every probe has been under way at least as long as the circuit
  has been open; when it half-opens again, each is at least an open period older than the
  new one, and from then on they age together. Proved: `FailuresOpen` and `ProbesApart`, for
  any durations, and from it `ShortProbesAreAlone`: if operations end within the open period
  there is one probe at most.
- **Settlement** (`UsageSettlement_proofs`). Sessions interleave statement by statement, and
  the properties speak of sums over all committed usage rows. `SettlementInv` says of each
  session, by the position in its `Program`, what it has drafted: the request rows it
  claimed (`RequestsWritten`, `RequestClaimed`), the counters it moved (`CountersWritten`),
  where it stands in the plan of passes (`PlanFollowed`, `PassesWritten`), the accounts and
  token quotas it changed (`AccountsWritten`, `QuotasWritten`); that drafts are of locked
  rows, so that nobody else commits them; and of the rows, that every usage belongs to a
  settled request. Then a commit publishes exactly what its usage row is worth, and a rolled
  back transaction nothing. One lemma per statement; `MiddleKeeps`, `AsideKeeps` and
  `ContinueKeeps` hold what they share. The billing lock is not used: whether it lapses,
  fails open or is never taken, the conditions in the database suffice. Proved:
  `ChargedOnce`, `TokensMatchUsage`, `BalancesMatchLedger`, `PassesMatchUsage`, and the
  action property `OnlyOwnerFrees` of the lock itself, for any token tree, passes and prices.
- **Sums** (`Sums`). The sums above are `SumFunctionOnSet`, a recursive function chosen by
  its equation. `Sums` shows that it exists on every finite set and how one element changes
  the sum. Induction is by the well-foundedness of the strict subsets of a finite set, in
  the form "a set of subsets closed under ... is all of them", which needs no operator as a
  parameter.
- **Carpool** (`Carpool_proofs`). `MoneyFollowsOrder` needs the past of an order: what is
  captured is what was reserved, what was reserved is the share confirmed, and a fulfilled
  order has delivered nothing before. `CarpoolInv` is the conjunction of the row types,
  `ConfirmedIsReserved`, `MoneyFollowsOrder`, `DeliveredOnce` and `CapturedIsShare` (while
  an order is on its way its members' reservations are captured at their shares). The steps
  that change shares all reset confirmations and release reservations, which `ResetKeeps`
  proves once, for joining, leaving and allocating in either mode. Proved: the three safety
  invariants and the action property `SharesFrozen`, for any number of members, any ratios
  and prices. `Conserved` is proved on top of it: a capture or a refund moves the same
  amounts between `balance` and `paid` of one order (`OrderMoves`), and only after each
  account was found to cover its share. Shares have to be non-negative for that, which
  rounding endangers: an equal split gives the last member what the others' rounded ratios
  leave. `CarpoolAssumption` therefore bounds the users who take part by
  n (n - 1) <= 2 Whole, which is 1414 for the 10^6 units of `round6`; a template has at most
  100 seats (`api/schema/billing/carpool.schema.ts:12`).
- **Passes** (`MonthlyPass_proofs`). `QuotaAddsUp` under IAM enforcement. An administrative
  write is computed from a row read before its transaction, so that it adds up says nothing
  yet of the row it replaces. `PassInv` says for each session that what it has drafted of a
  pass is sound, and the pass locked; that from the guard to the update the row that was
  read is locked and unchanged (`GuardHolds`); and that the id of a pass to come is free.
  `StepOf` is what a step of one session leaves alone, and `OthersKeep` shows once that it
  suffices for the others. Without enforcement there is no guard, and the property fails
  (`passes_edit`).
- **Pass refinement** (`MonthlyPass_proofs`). Also under enforcement. `RefinementInv` adds
  to `PassInv` why a request may still be carried out as it commits: the pass it found is the
  one of the request (`FoundFits`), the template it counts against is locked from the guard
  on and the count still holds (`SourceLocked`, `RoomKept`: whoever adds a pass of a template
  holds its lock), and what it has written is exactly its request (`AboutToCommit`).
  `PassesKept` is what a step does to the passes as the other sessions see it. The id set
  `PassId` is finite, so that passes can be counted. Proved: `ImplementsService` and the
  action property `WithinLimit`, for any prices and limits.
- **AI guard** (`AIResource_proofs`). `AIInv` ties the three places that count references:
  `refs` of a lease is the number of guards, hops and pieces of work that use it, `active`
  the number of leases with a reference, `childActive` the hop that is served. It adds that
  the queue holds each waiting request once, that a ticket names a live lease and was used
  at most once, and that nobody waits while a slot is free and memory is not short. The last
  is the guarantee of `drain`: each callback that frees a slot, raises the limit or ends the
  pressure calls it, and one lemma says what a call of it leaves. Proved: `SlotsAreHeld`,
  `NoIdleSlot`, `HopsAreOwned` and the action property `AdmissionInOrder`, for any limits,
  also while they are changed, and through the shutdown.
- **Agent gateway** (`Leases_proofs`). `GatewayInv` has two parts. What an old answer,
  heartbeat or cleanup may still do depends on the lease it carries; `LeaseInv` says what a
  lease is worth. Leases in the row only grow, an identity or an answer under way is never
  newer than the row, and as long as it is the newest it names the agent and the row is
  online (`Lease`). A connection whose lease was lost gets no for an answer from then on
  (`Fenced`), also when the user is disabled and enabled in between. Only the connection that
  took the machine last has its newest lease, and while it is open it keeps the row or is
  about to learn that it does (`HolderSound`, `Keeps`). An online machine of a user who never
  was disabled has, while nothing failed, a connection that has not been cleaned up and
  carries or is being granted the newest lease (`OnlineIsHeld`). Operations run in the order
  of their queue and only a hello runs without an identity (`Orderly`), and a request waits
  for the open socket it was written to (`PendingIsOpen`, `WaitsForTarget`). `CallersInv` is
  about the callers: a request stands in one queue at most, once (`Once`), somebody waits for
  it (`Known`), and what is still queued is not registered (`Unwritten`), with
  `CallersAccounted`. Statements (`Execute`) move the row, answers (`Resume`) the memory of a
  process, and each lemma deals with one of them. Proved: `PendingIsOpen`, `StaleIsFenced`,
  `LeaseHolderIsOnline`, `GoneIsNotOnline`, `CallersAccounted` and the action property
  `AnsweredByTarget`, for any number of processes, connections, machines and mishaps.

Only model-checked: liveness (`RequestsEnd`, `WaitersLeave`, `WritersLeave`, `Recovers`,
`DueExpires`), since fairness is out of the prover's reach; and that `queue` of `ProbeLock`
is a sequence of writers (`SelectSeq` has no theorem in the library). Of the
fold that `Allocate` is, the proofs need and show only that it returns a plan: parts of
passes, and a rest that is not negative.

## 5. Where the code and its documentation disagree

Three runs end in a counterexample to something the documentation says.

1. **A redemption code can be credited twice** (`ledger_codes`). `redeem` checks `usedBy` on
   a consistent read and marks the code with an update by id alone
   (`store/billing/redemption-code.repository.ts:43-54`). Two requests that both read the
   unused code both commit. Gift codes claim with a condition and are not exposed.
2. **A direct transfer can overdraw the sender** (`ledger_transfers`). The upsert of the
   recipient fixes the transaction's view before the sender's row is locked, so the minimum
   balance is checked on the balance before a transfer it waited for
   (`store/billing/balance-transfer.repository.ts:229`). `createGiftCode` has no upsert and
   is not exposed.
3. **An edit of a pass gives back quota that was used meanwhile** (`passes_edit`). Without
   IAM enforcement, which is the default, an edit or a batch extension writes the remaining
   quota it computed from an earlier read (`services/billing/monthly-pass.service.ts:1820,
   2010`). Under enforcement the revision is compared and the run `passes` finds nothing.

Eight more show in the models; each was seen as a counterexample and is stated here, without
a run of its own:

4. **Queued probes lose their place.** The sweep of expired writers compares sequence numbers
   with a time in milliseconds and empties the queue at each reservation
   (`services/infrastructure/redis.service.ts:920`; `Kept` of `ProbeLock`), against "Queue
   score preserves writer FIFO order" (line 911). The dropped probe fails as if timed out.
5. **A probe can run beside a long user request.** Renewing a reader does not renew the TTL of
   the readers key (`redis.service.ts:892, 1024`). `ProbeExcludesEveryReader` is the promise;
   it fails for readers in `Long`, and theorem `ExcludesEveryShortReader` shows that nothing
   else opens the lock.
6. **A settlement that returns `applied: false` commits its claim**
   (`store/relay/relay-proxy.repository.ts:432`): the payer has no account, nothing was
   charged, and the next callback is told `applied: true` (line 268), although an
   "already-settled callback is successful but has no *additional* financial effects" (line
   267).
7. **A socket is registered after its own disconnect** (`services/agent/agent-runtime.gateway.ts:91`):
   `closed` is read before the lease is asked for and not after. Nothing removes the entry
   until the machine says hello again.
8. **A carpool order can take more members than it has seats**
   (`services/billing/carpool.service.ts:513`): the limit is tested for users without a row,
   and one who left comes back into an order that filled up meanwhile. `AcceptInvite` models
   it; carpools.md:25 of the documentation says a full order cannot be joined.
9. **The purchase limit of a free pass rests on an account**
   (`store/billing/monthly-pass.repository.ts:280`): without IAM enforcement two claims of a
   user without a balance account lock nothing in common and both count before either
   inserts, against monthly-pass-purchase.md:9, 24.
10. **The machine of a disabled user stays online.** When a user or the account owner is
   disabled or deleted (`store/users/platform-user-update.repository.ts:211`,
   `platform-user-delete.repository.ts:107`) nobody touches the user's machines. The next
   frame is refused and the socket closed, but the cleanup names the user's status too
   (`store/agent/agent.repository.ts:50-56, 517-522`), matches no row and leaves it online
   with no connection. `GoneIsNotOnline` therefore speaks of users who never were disabled;
   without that condition it fails.
11. **Several operations may probe Redis at once** (`services/infrastructure/redis.service.ts`,
   "half-open probe already in flight, operation skipped"). A probe that outlasts the open
   period does not hold back the next: another operation fails, the circuit opens and
   half-opens again, and the flag of the first is gone. What holds is one new probe per open
   period (`ProbesApart`). With the defaults (30 s, commands of 3 s) it takes a scan of many
   commands; with a period of 1 s one slow command does it.

## 6. Not modelled

- Ledger: `clampMinimumBalance` and `requireActive` of the mutation, the guarded
  (Serializable) path of `recharge`, and the callers of the mutation in OJ usage and
  developer products. `RequestsEnd` is not claimed when a recipient has no account: the
  INSERT of the upsert locks it before the sorted locks, and InnoDB's deadlock detection has
  to abort one of two such transfers.
- Pool: changes of `maxConcurrency` at runtime, and `getStatus`, which only reads.
- Probe lock: locks on several channels nested by their callers, which sort them.
- Settlement: the charge modes strict and skip-when-non-positive, which no caller of
  `chargeUsage` passes; notifications after the commit; foreign-key locks; the limit of the
  daily quota under a lock that holds; `extend` of the distributed lock, which nobody calls.
- Passes: templates and their queries, quota windows, validity dates, changes of the quota
  unit, and the IAM checks themselves.
- Carpool: templates, queries, IAM guards, the backfill of legacy deadlines, and scheduled
  or manual settlement of provider earnings, which is a component of its own.
- AI guard: metrics, parsing of the configuration, checks on the content of a request.
- Redis: counters, caches and key scans.
- Agent gateway: `send`, heartbeats that name another agent id, frame sizes and rates,
  `close` of the whole gateway, workspaces other than `ready`, and of the repository tasks,
  approvals and events.
- Components with status `not_modelled` in `PROJECT.json`. HTTP, streaming, request
  transformation, the frontend, the command line and the documentation site are I/O or
  clients of the backend and are not candidates; they are most of the repository's lines.

## 7. Plan

Done: ledger, concurrency pool, probe lock, settlement with its lock, passes, carpool, AI
guard, Redis circuit, agent gateway; every safety property of a passing run is proved as
well. Next, in order:

1. Theorems: that `queue` of the probe lock holds writers; an abstract specification of the
   settlement, in which each callback is one step, and its refinement.
2. Scheduled and manual settlement of provider earnings: claims in a Serializable
   transaction against the scheduler.
3. Tasks and events of the agent runtime: `appendEvent` on `MySqlTx`.
4. Channel health: de-duplicated attempts; pure functions with reference definitions for
   IAM evaluation and the ranking of candidates.
