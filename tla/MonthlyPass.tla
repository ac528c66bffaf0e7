----------------------------- MODULE MonthlyPass -----------------------------
(***************************************************************************)
(* The transactions that grant, change and use monthly passes, statement   *)
(* by statement: purchases by users, assignments, batch extensions, edits  *)
(* and deletions by administrators, and the quota a settlement takes.      *)
(*                                                                         *)
(* Enforced is iamAuthorizationMode "enforce".  Administrative writes and  *)
(* purchases then carry a guard: their transaction is serializable, locks  *)
(* its sources and refuses when they changed since they were read.  In     *)
(* modes "legacy" (the default) and "shadow" there is no guard.            *)
(***************************************************************************)
EXTENDS Integers, FiniteSets, MySqlTx

CONSTANTS
    User, Template, PassId, Price, Limit, NoLimit, Request, Keep, Opening,   \* see PassService
    Enforced    \* iamAuthorizationMode is "enforce"

VARIABLES
    req,     \* the request of every session
    pc,      \* its next statement
    found    \* the pass an administrative write has read before its transaction

vars == <<txVars, req, pc, found>>

Service == INSTANCE PassService WITH table <- committed

Live(row) == Service!Live(row)

PassRow == [user : User, template : Template, status : Int,
            total : Int, used : Int, remaining : Int]

WellFormed(q) ==
    /\ q.op \in {"consume", "update", "delete", "extend", "assign", "purchase"}
    /\ q.op \in {"consume", "update", "delete"} => q.pass \in PassId
    /\ q.op \in {"extend", "assign", "purchase"} => q.user \in User /\ q.template \in Template
    /\ q.op \in {"consume", "extend", "assign", "purchase"} => q.quota \in Int
    /\ q.op = "update" => q.total \in Int \cup {Keep} /\ q.status \in Int \cup {Keep}

\* The ids of the passes to come are the sessions; each table is finite.
ASSUME PassAssumption ==
    /\ Row = PassId \cup User \cup Template /\ PassId \cap (User \cup Template) = {}
    /\ \A t \in Template : Price[t] \in Nat /\ Limit[t] \in Nat \cup {NoLimit}
    /\ Enforced \in BOOLEAN
    /\ \A q \in Request : WellFormed(q)
    /\ IsFiniteSet(PassId)
    /\ NoRow \notin PassRow /\ Clean \notin Int \cup PassRow
    /\ DOMAIN Opening = Row
    /\ \A u \in User : Opening[u] \in Int \cup {NoRow}
    /\ \A p \in PassId : Opening[p] # NoRow =>
         Opening[p] \in PassRow /\ Opening[p].remaining = Opening[p].total - Opening[p].used
    /\ Session \subseteq {p \in PassId : Opening[p] = NoRow}

Nothing == [pass |-> NoRow, row |-> NoRow]

\* The first statement of a request, and of a transaction after the read before it.
OpensWith(q) ==
    CASE q.op = "consume" -> "write"
      [] q.op \in {"update", "delete", "extend"} -> "read"
      [] q.op = "assign" -> IF Enforced THEN "template" ELSE "commit"
      [] q.op = "purchase" -> IF Enforced THEN "template" ELSE "account"

Goto(s, statement) ==
    /\ pc' = [pc EXCEPT ![s] = statement]
    /\ UNCHANGED req

\* An error thrown before or inside the transaction.
Throw(s) ==
    /\ RollbackTx(s)
    /\ Goto(s, "failed")
    /\ UNCHANGED found

Changed(s) == IF req[s].op = "consume" THEN req[s].pass ELSE found[s].pass

-----------------------------------------------------------------------------
\* Administrative writes

\* updateUserPass refuses a total below the usage it has read.
Acceptable(q, pass) ==
    /\ Live(pass)
    /\ q.op = "update" => Service!Merged(q.total, pass.total) >= pass.used

\* findUserPassById, in a statement of its own.
ReadPass(s) ==
    LET p == req[s].pass
        pass == committed[p]
    IN  /\ pc[s] = "read" /\ req[s].op \in {"update", "delete"}
        /\ IF Acceptable(req[s], pass)
           THEN /\ found' = [found EXCEPT ![s] = [pass |-> p, row |-> pass]]
                /\ Goto(s, IF Enforced THEN "pass" ELSE "write")
                /\ UNCHANGED txVars
           ELSE Throw(s)

\* findLatestUserPassByUserAndTemplate.  Dates are not modelled: the latest pass may
\* be any of them, and may end before the start of the request.
FindLatest(s) ==
    /\ pc[s] = "read" /\ req[s].op = "extend"
    /\ \/ /\ \E p \in Service!CountedIn(committed, req[s]) :
               found' = [found EXCEPT ![s] = [pass |-> p, row |-> committed[p]]]
          /\ Goto(s, IF Enforced THEN "template" ELSE "write")
       \/ /\ Goto(s, IF Enforced THEN "template" ELSE "commit")
          /\ UNCHANGED found
    /\ UNCHANGED txVars

\* Mutant: a guard that does not lock the template.
TemplateUnlocked(s) ==
    /\ pc[s] = "template"
    /\ Goto(s, IF found[s] # Nothing THEN "pass"
               ELSE IF req[s].op = "purchase" THEN "account" ELSE "commit")
    /\ UNCHANGED <<txVars, found>>

\* SELECT ... FOR UPDATE of the template in the guards of creations and purchases.
LockTemplate(s) ==
    /\ pc[s] = "template"
    /\ LockIsFree(s, req[s].template)
    /\ TakeLock(s, req[s].template)
    /\ Goto(s, IF found[s] # Nothing THEN "pass"
               ELSE IF req[s].op = "purchase" THEN "account" ELSE "commit")
    /\ UNCHANGED <<committed, view, draft, found>>

\* Mutant: a guard that looks only whether the pass was deleted.
StillThere(pass, read) == Live(pass)

\* monthlyPassAssignmentRevision(current) === guard.target.revision
SameRevision(pass, read) == pass = read

\* The guard of an administrative write: the row is locked and compared.
LockPass(s) ==
    LET p == found[s].pass
    IN  /\ pc[s] = "pass"
        /\ LockIsFree(s, p)
        /\ IF SameRevision(Stored(s, p), found[s].row)
           THEN /\ TakeLock(s, p)
                /\ Goto(s, "write")
                /\ UNCHANGED <<committed, view, draft, found>>
           ELSE Throw(s)

\* The data of the update: what a request leaves undefined stays as it is, but the
\* remaining quota is always written, computed from what was read.
Written(s, pass) ==
    LET q == req[s]
        read == found[s].row
    IN  CASE q.op = "consume" ->
               [pass EXCEPT !.used = @ + q.quota, !.remaining = @ - q.quota]
          [] q.op = "update" ->
               [pass EXCEPT !.total = Service!Merged(q.total, @),
                            !.remaining = Service!Merged(q.total, read.total) - read.used,
                            !.status = Service!Merged(q.status, @)]
          [] q.op = "delete" -> [pass EXCEPT !.status = Service!Deleted]
          [] q.op = "extend" ->
               [pass EXCEPT !.total = read.total + q.quota,
                            !.remaining = read.remaining + q.quota]

\* The condition of the settlement's updateMany; the others update by id alone.
Updatable(q, pass) ==
    q.op = "consume" => Live(pass) /\ pass.status = Service!Enabled /\ pass.remaining >= q.quota

\* update, or updateMany and the check of its count.
WritePass(s) ==
    LET p == Changed(s)
        pass == Stored(s, p)
    IN  /\ pc[s] = "write"
        /\ LockIsFree(s, p)
        /\ IF Updatable(req[s], pass)
           THEN /\ TakeLock(s, p)
                /\ Write(s, p, Written(s, pass))
                /\ Goto(s, "commit")
                /\ UNCHANGED <<committed, view, found>>
           ELSE Throw(s)

-----------------------------------------------------------------------------
\* Purchases

\* SELECT ... FOR UPDATE of the balance account: it fixes no view, and locks nothing
\* when there is no account.
LockBuyer(s) ==
    LET account == req[s].user
    IN  /\ pc[s] = "account"
        /\ LockIsFree(s, account)
        /\ IF Stored(s, account) = NoRow THEN UNCHANGED locks ELSE TakeLock(s, account)
        /\ Goto(s, "count")
        /\ UNCHANGED <<committed, view, draft, found>>

\* What a find of the transaction returns; a serializable transaction reads the
\* latest versions.
FoundBy(s) == [r \in Row |-> IF Enforced THEN Stored(s, r) ELSE Seen(s, r)]

\* The count, and the check of the limit.
CountPasses(s) ==
    /\ pc[s] = "count"
    /\ IF Service!Room(FoundBy(s), req[s])
       THEN /\ IF Limit[req[s].template] = NoLimit THEN UNCHANGED view ELSE FixView(s)
            /\ Goto(s, "charge")
            /\ UNCHANGED <<committed, draft, locks, found>>
       ELSE Throw(s)

\* chargePurchase: applyBalanceAccountMutation with minimumBalance 0.
Charge(s) ==
    LET user == req[s].user
        price == Price[req[s].template]
        account == FoundBy(s)[user]
    IN  /\ pc[s] = "charge"
        /\ LockIsFree(s, user)
        /\ IF price = 0
           THEN Goto(s, "commit") /\ UNCHANGED <<txVars, found>>
           ELSE IF account # NoRow /\ account >= price
           THEN /\ FixView(s)
                /\ TakeLock(s, user)
                /\ Write(s, user, Stored(s, user) - price)
                /\ Goto(s, "commit")
                /\ UNCHANGED <<committed, found>>
           ELSE Throw(s)

-----------------------------------------------------------------------------

\* Does the transaction insert a pass?  Its id is the name of the session.
Inserts(s) ==
    \/ req[s].op \in {"assign", "purchase"}
    \/ req[s].op = "extend" /\ found[s] = Nothing

\* The insert of a new pass, and the commit.
Commit(s) ==
    /\ pc[s] = "commit"
    /\ CommitTx(s, [r \in (IF Inserts(s) THEN {s} ELSE {}) |-> Service!NewPass(req[s])])
    /\ Goto(s, "done")
    /\ UNCHANGED found

\* A timeout, a deadlock victim, a denial, a lost connection.
Abort(s) ==
    /\ pc[s] \notin {"done", "failed"}
    /\ Throw(s)

Init ==
    /\ TxInit(Opening)
    /\ req \in [Session -> Request]
    /\ pc = [s \in Session |-> OpensWith(req[s])]
    /\ found = [s \in Session |-> Nothing]

Next ==
    \E s \in Session :
        \/ ReadPass(s) \/ FindLatest(s) \/ LockTemplate(s) \/ LockPass(s) \/ WritePass(s)
        \/ LockBuyer(s) \/ CountPasses(s) \/ Charge(s) \/ Commit(s) \/ Abort(s)

Spec == Init /\ [][Next]_vars

-----------------------------------------------------------------------------
\* Properties

\* "Remaining quota becomes new total minus used quota", and "used quota stays
\* unchanged, while total and remaining quotas increase": edits and extensions by
\* administrators never give back or take away quota that a settlement uses at the
\* same time (updateUserPass, assignUserPassBatch, finalizeChargedUsage).
QuotaAddsUp ==
    \A p \in PassId :
        committed[p] # NoRow => committed[p].remaining = committed[p].total - committed[p].used

\* A purchase leaves its user with no more passes of the template than its limit
\* allows, however many purchases and assignments run (purchaseUserPass).
WithinLimit ==
    [][\A s \in Session :
        /\ pc[s] = "commit" /\ pc'[s] = "done" /\ req[s].op = "purchase"
        /\ Limit[req[s].template] # NoLimit
        => Cardinality(Service!CountedIn(committed', req[s])) <= Limit[req[s].template]]_vars

\* Every committed request is one atomic step of the service: a purchase debits its
\* price together with the one pass it grants, no write undoes another, and no
\* deleted pass comes back.
ImplementsService == Service!Spec
=============================================================================
