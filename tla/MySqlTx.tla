------------------------------- MODULE MySqlTx -------------------------------
(***************************************************************************)
(* The transactions the repositories run through prisma.$transaction on    *)
(* MySQL/InnoDB at the default isolation level, REPEATABLE READ.  This is  *)
(* code outside the repository (Prisma, InnoDB), modelled from how the     *)
(* repositories rely on it:                                                *)
(*                                                                         *)
(*   - the first consistent read of a transaction (find...) fixes the view *)
(*     that every later consistent read of that transaction uses;          *)
(*   - a locking statement (SELECT ... FOR UPDATE, UPDATE, INSERT) sees    *)
(*     the latest committed version instead, after waiting for the row's   *)
(*     exclusive lock;                                                     *)
(*   - a transaction reads its own uncommitted versions;                   *)
(*   - locks are kept until commit or rollback, and a commit publishes all *)
(*     the transaction's versions at once.                                 *)
(***************************************************************************)
EXTENDS Tables

CONSTANTS
    Session,   \* the concurrent transactions
    Clean,     \* a transaction has no uncommitted version of a row
    Free,      \* nobody holds the lock of a row
    NoView     \* a transaction has not done a consistent read yet

VARIABLES
    committed,   \* the latest committed version of every row
    view,        \* the consistent-read view of every transaction
    draft,       \* the uncommitted versions every transaction wrote
    locks        \* the transaction that holds the exclusive lock of a row

txVars == <<committed, view, draft, locks>>

ASSUME TxAssumption == Free \notin Session

-----------------------------------------------------------------------------

\* The version a locking statement of transaction s works on.
Stored(s, r) == IF draft[s][r] = Clean THEN committed[r] ELSE draft[s][r]

\* The view s has, or would get by reading now.
ViewOf(s) == IF view[s] = NoView THEN committed ELSE view[s]

\* The version a consistent read of s returns.
Seen(s, r) == IF draft[s][r] = Clean THEN ViewOf(s)[r] ELSE draft[s][r]

FixView(s) == view' = [view EXCEPT ![s] = ViewOf(s)]

LockIsFree(s, r) == locks[r] \in {Free, s}

TakeLock(s, r) == locks' = [locks EXCEPT ![r] = s]

Write(s, r, v) == draft' = [draft EXCEPT ![s][r] = v]

\* What every transaction leaves behind when it ends, either way.
EndTx(s) ==
    /\ view' = [view EXCEPT ![s] = NoView]
    /\ draft' = [draft EXCEPT ![s] = [r \in Row |-> Clean]]
    /\ locks' = [r \in Row |-> IF locks[r] = s THEN Free ELSE locks[r]]

RollbackTx(s) == EndTx(s) /\ UNCHANGED committed

\* Publishes the versions of s; ins maps the rows inserted by the last
\* statements of the transaction to their versions.
CommitTx(s, ins) ==
    /\ committed' = [r \in Row |-> IF r \in DOMAIN ins THEN ins[r] ELSE Stored(s, r)]
    /\ EndTx(s)

TxInit(opening) ==
    /\ committed = opening
    /\ view = [s \in Session |-> NoView]
    /\ draft = [s \in Session |-> [r \in Row |-> Clean]]
    /\ locks = [r \in Row |-> Free]
=============================================================================
