----------------------------- MODULE PassService -----------------------------
(***************************************************************************)
(* What the monthly passes promise: every request either leaves no trace   *)
(* or works in one step on the passes and the balance as they are then.    *)
(* MonthlyPass is shown to implement it.                                   *)
(***************************************************************************)
EXTENDS Integers, FiniteSets, Tables

CONSTANTS
    User,       \* owners of balance accounts and passes
    Template,   \* monthly pass templates, none of which changes
    PassId,     \* the passes there are and the ids of those to come
    Price,      \* purchaseAmount of every template
    Limit,      \* purchaseLimitPerUser of every template, or NoLimit
    NoLimit,
    Request,    \* the requests that may be made
    Keep,       \* a field that a request leaves undefined
    Opening     \* the tables before the first of them

VARIABLE table   \* balance accounts, templates and passes

Deleted == -1
Enabled == 1

\* A pass that was not deleted.
Live(row) == row # NoRow /\ row.status # Deleted

Merged(given, current) == IF given = Keep THEN current ELSE given

NewPass(q) ==
    [user |-> q.user, template |-> q.template, status |-> Enabled,
     total |-> q.quota, used |-> 0, remaining |-> q.quota]

\* The passes that count for the purchase limit, of the rows of a table.
CountedIn(rows, q) ==
    {p \in PassId : Live(rows[p]) /\ rows[p].user = q.user /\ rows[p].template = q.template}

Room(rows, q) ==
    Limit[q.template] # NoLimit => Cardinality(CountedIn(rows, q)) < Limit[q.template]

-----------------------------------------------------------------------------

Consume(q) ==
    LET pass == table[q.pass]
    IN  /\ q.op = "consume"
        /\ Live(pass) /\ pass.status = Enabled /\ pass.remaining >= q.quota
        /\ table' = [table EXCEPT ![q.pass].used = @ + q.quota,
                                 ![q.pass].remaining = @ - q.quota]

Update(q) ==
    LET pass == table[q.pass]
        total == Merged(q.total, pass.total)
    IN  /\ q.op = "update"
        /\ Live(pass) /\ total >= pass.used
        /\ table' = [table EXCEPT
             ![q.pass] = [pass EXCEPT !.total = total, !.remaining = total - pass.used,
                                      !.status = Merged(q.status, @)]]

Delete(q) ==
    /\ q.op = "delete"
    /\ Live(table[q.pass])
    /\ table' = [table EXCEPT ![q.pass].status = Deleted]

Extend(q) ==
    /\ q.op = "extend"
    /\ \E p \in CountedIn(table, q) :
         table' = [table EXCEPT ![p].total = @ + q.quota, ![p].remaining = @ + q.quota]

\* A batch that finds no pass to extend assigns a new one.
Assign(q) ==
    /\ q.op \in {"assign", "extend"}
    /\ \E p \in PassId :
         table[p] = NoRow /\ table' = [table EXCEPT ![p] = NewPass(q)]

Purchase(q) ==
    LET price == Price[q.template]
        charged == price > 0
    IN  /\ q.op = "purchase"
        /\ Room(table, q)
        /\ charged => table[q.user] # NoRow /\ table[q.user] >= price
        /\ \E p \in PassId :
             /\ table[p] = NoRow
             /\ table' = [table EXCEPT ![q.user] = IF charged THEN @ - price ELSE @,
                                       ![p] = NewPass(q)]

Init == table = Opening

Next ==
    \E q \in Request :
        \/ Consume(q) \/ Update(q) \/ Delete(q)
        \/ Extend(q) \/ Assign(q) \/ Purchase(q)

Spec == Init /\ [][Next]_table
=============================================================================
