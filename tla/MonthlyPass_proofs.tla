-------------------------- MODULE MonthlyPass_proofs --------------------------
(***************************************************************************)
(* Proofs about MonthlyPass under IAM enforcement, for any number of       *)
(* sessions, users, templates and passes.  An administrative write is      *)
(* computed from a row read before its transaction; that no use is lost    *)
(* rests on the guard: from LockPass on the row is locked and still the    *)
(* one that was read.                                                      *)
(***************************************************************************)
EXTENDS MonthlyPass, FiniteSetTheorems, TLAPS

\* A pass whose quota adds up.
SoundRow == {row \in PassRow : row.remaining = row.total - row.used}

Administrative == {"update", "delete", "extend"}

Tabular ==
    /\ DOMAIN committed = Row /\ DOMAIN view = Session /\ DOMAIN draft = Session
    /\ \A s \in Session : DOMAIN draft[s] = Row
    /\ DOMAIN locks = Row
    /\ req \in [Session -> Request] /\ DOMAIN pc = Session /\ DOMAIN found = Session

CommittedSound == \A p \in PassId : committed[p] # NoRow => committed[p] \in SoundRow

\* What a session has written of a pass is sound, and the pass is there and locked;
\* only a session about to commit has written one.
DraftSound(s) ==
    \A p \in PassId : draft[s][p] # Clean =>
        /\ pc[s] = "commit" /\ draft[s][p] \in SoundRow
        /\ locks[p] = s /\ committed[p] # NoRow

\* The pass found before the transaction was a sound row and is a row for ever.
FoundSound(s) ==
    found[s] # Nothing =>
        /\ req[s].op \in Administrative
        /\ found[s].pass \in PassId /\ found[s].row \in SoundRow
        /\ committed[found[s].pass] # NoRow

\* Between the guard and the update the row that was read is locked and unchanged;
\* only a purchase comes to the account.
GuardHolds(s) ==
    /\ pc[s] \in {"account", "count", "charge"} => req[s].op = "purchase"
    /\ pc[s] = "pass" => found[s] # Nothing
    /\ pc[s] = "write" /\ req[s].op # "consume" =>
         /\ found[s] # Nothing
         /\ locks[found[s].pass] = s /\ committed[found[s].pass] = found[s].row

\* The pass a session will insert is not there before it commits.
IdIsFree(s) == pc[s] # "done" => committed[s] = NoRow

SessionInv(s) == DraftSound(s) /\ FoundSound(s) /\ GuardHolds(s) /\ IdIsFree(s)

PassInv ==
    /\ Tabular /\ CommittedSound
    /\ \A s \in Session : SessionInv(s)

-----------------------------------------------------------------------------
\* The constants

LEMMA RowFacts ==
    /\ NoRow \notin SoundRow
    /\ PassId \subseteq Row /\ User \subseteq Row /\ Template \subseteq Row
    /\ \A p \in PassId : p \notin User /\ p \notin Template
    /\ Session \subseteq PassId
    /\ Free \notin Session
BY PassAssumption, TxAssumption DEF SoundRow

LEMMA RequestFacts ==
    ASSUME NEW q \in Request
    PROVE  /\ q.op \in {"consume", "update", "delete", "extend", "assign", "purchase"}
           /\ q.op \in {"consume", "update", "delete"} => q.pass \in PassId
           /\ q.op \in {"extend", "assign", "purchase"} => q.user \in User /\ q.template \in Template
           /\ q.op \in {"consume", "extend", "assign", "purchase"} => q.quota \in Int
           /\ q.op = "update" => q.total \in Int \cup {Keep} /\ q.status \in Int \cup {Keep}
BY PassAssumption DEF WellFormed

\* A row with the fields of a pass, whose quota adds up, is sound.
LEMMA SoundFromFields ==
    ASSUME NEW u \in User, NEW t \in Template, NEW st \in Int,
           NEW total \in Int, NEW used \in Int, NEW remaining \in Int,
           remaining = total - used
    PROVE  [user |-> u, template |-> t, status |-> st,
            total |-> total, used |-> used, remaining |-> remaining] \in SoundRow
BY DEF SoundRow, PassRow

\* A new pass has all of its quota left.
LEMMA NewPassSound ==
    ASSUME NEW q \in Request, q.op \in {"extend", "assign", "purchase"}
    PROVE  Service!NewPass(q) \in SoundRow
BY RequestFacts DEF SoundRow, PassRow, Service!NewPass, Service!Enabled

\* A write keeps the quota of its pass adding up if it is computed from the row it
\* changes (updateUserPass, deleteUserPass, assignUserPassBatch, finalizeChargedUsage).
LEMMA WrittenSound ==
    ASSUME NEW s, req[s] \in Request, NEW pass \in SoundRow,
           req[s].op \in Administrative \cup {"consume"},
           req[s].op # "consume" => found[s].row = pass
    PROVE  Written(s, pass) \in SoundRow
<1> DEFINE q == req[s]
<1>1. pass \in PassRow /\ pass.remaining = pass.total - pass.used
    BY DEF SoundRow
<1>2. /\ pass.user \in User /\ pass.template \in Template /\ pass.status \in Int
      /\ pass.total \in Int /\ pass.used \in Int /\ pass.remaining \in Int
    BY <1>1 DEF PassRow
<1> DEFINE row(st, total, used, remaining) ==
        [user |-> pass.user, template |-> pass.template, status |-> st,
         total |-> total, used |-> used, remaining |-> remaining]
<1>3. CASE q.op = "consume"
    <2>1. q.quota \in Int
        BY <1>3, RequestFacts
    <2>2. Written(s, pass) =
            row(pass.status, pass.total, pass.used + q.quota, pass.remaining - q.quota)
        <3>1. Written(s, pass) =
                [pass EXCEPT !.used = @ + q.quota, !.remaining = @ - q.quota]
            BY <1>3 DEF Written
        <3> QED BY <3>1, <1>1 DEF PassRow
    <2>3. pass.remaining - q.quota = pass.total - (pass.used + q.quota)
        BY <2>1, <1>1, <1>2
    <2> QED BY <2>1, <2>2, <2>3, <1>2, SoundFromFields
<1>4. CASE q.op = "update"
    <2> DEFINE total == Service!Merged(q.total, pass.total)
               status == Service!Merged(q.status, pass.status)
    <2>1. q.total \in Int \cup {Keep} /\ q.status \in Int \cup {Keep}
        BY <1>4, RequestFacts
    <2>2. total \in Int /\ status \in Int
        BY <2>1, <1>2 DEF Service!Merged
    <2>3. Written(s, pass) = [pass EXCEPT !.total = total, !.remaining = total - pass.used,
                                          !.status = status]
        BY <1>4 DEF Written
    <2> HIDE DEF total, status
    <2>4. Written(s, pass) = row(status, total, pass.used, total - pass.used)
        BY <2>3, <1>1 DEF PassRow
    <2>5. row(status, total, pass.used, total - pass.used) \in SoundRow
        BY <2>2, <1>2, SoundFromFields
    <2> QED BY <2>4, <2>5
<1>5. CASE q.op = "delete"
    <2>1. Written(s, pass) = row(-1, pass.total, pass.used, pass.remaining)
        <3>1. Written(s, pass) =
                [pass EXCEPT !.status = -1]
            BY <1>5 DEF Written, Service!Deleted
        <3> QED BY <3>1, <1>1 DEF PassRow
    <2> QED BY <2>1, <1>1, <1>2, SoundFromFields
<1>6. CASE q.op = "extend"
    <2> DEFINE total == pass.total + q.quota
               remaining == pass.remaining + q.quota
    <2>1. q.quota \in Int
        BY <1>6, RequestFacts
    <2>2. total \in Int /\ remaining \in Int /\ remaining = total - pass.used
        BY <2>1, <1>1, <1>2
    <2>3. Written(s, pass) = [pass EXCEPT !.total = total, !.remaining = remaining]
        BY <1>6 DEF Written
    <2> HIDE DEF total, remaining
    <2>4. Written(s, pass) = row(pass.status, total, pass.used, remaining)
        BY <2>3, <1>1 DEF PassRow
    <2>5. row(pass.status, total, pass.used, remaining) \in SoundRow
        BY <2>2, <1>2, SoundFromFields
    <2> QED BY <2>4, <2>5
<1> QED BY <1>3, <1>4, <1>5, <1>6 DEF Administrative

-----------------------------------------------------------------------------
\* The other sessions

\* What a step of s leaves alone, whatever it does.
StepOf(s) ==
    /\ req' = req
    /\ \A t \in Session \ {s} : pc'[t] = pc[t] /\ found'[t] = found[t] /\ draft'[t] = draft[t]
    /\ \A p \in PassId :
         /\ locks[p] \in Session \ {s} => locks'[p] = locks[p]
         /\ locks[p] \in Session \ {s} /\ committed[p] # NoRow => committed'[p] = committed[p]
         /\ committed[p] # NoRow => committed'[p] # NoRow
    /\ \A t \in Session \ {s} : committed[t] = NoRow => committed'[t] = NoRow

\* No step of a session breaks what another one relies on.
LEMMA OthersKeep ==
    ASSUME PassInv, NEW s \in Session, StepOf(s), NEW t \in Session \ {s}
    PROVE  SessionInv(t)'
<1> SessionInv(t)
    BY DEF PassInv
<1> USE DEF StepOf, SessionInv
<1>1. DraftSound(t)'
    BY DEF DraftSound
<1>2. FoundSound(t)'
    BY DEF FoundSound
<1>3. GuardHolds(t)'
    BY DEF GuardHolds, FoundSound, Nothing
<1>4. IdIsFree(t)'
    BY DEF IdIsFree
<1> QED BY <1>1, <1>2, <1>3, <1>4

\* So the invariant is kept by a step of s that keeps the part of s.
LEMMA StepKeeps ==
    ASSUME PassInv, NEW s \in Session, StepOf(s),
           Tabular', CommittedSound', SessionInv(s)'
    PROVE  PassInv'
<1>1. \A t \in Session : SessionInv(t)'
    <2> TAKE t \in Session
    <2>1. CASE t = s BY <2>1
    <2>2. CASE t # s BY <2>2, OthersKeep
    <2> QED BY <2>1, <2>2
<1> QED BY <1>1 DEF PassInv

\* A request is one of those that may be made.
LEMMA SessionRequest ==
    ASSUME PassInv, NEW s \in Session PROVE req[s] \in Request
BY DEF PassInv, Tabular

\* The initial state satisfies the invariant.
LEMMA InitPasses == ASSUME Enforced PROVE Init => PassInv
<1> SUFFICES ASSUME Init PROVE PassInv
    OBVIOUS
<1>1. Tabular
    BY PassAssumption DEF Init, TxInit, Tabular
<1>2. CommittedSound
    BY PassAssumption DEF Init, TxInit, CommittedSound, SoundRow
<1>3. ASSUME NEW s \in Session PROVE SessionInv(s)
    <2>1. req[s] \in Request /\ pc[s] = OpensWith(req[s]) /\ found[s] = Nothing
        BY DEF Init
    <2>2. pc[s] # "pass" /\ (pc[s] = "write" => req[s].op = "consume")
         /\ (pc[s] \in {"account", "count", "charge"} => req[s].op = "purchase")
        BY <2>1, RequestFacts DEF OpensWith
    <2>3. DraftSound(s)
        BY RowFacts DEF Init, TxInit, DraftSound
    <2>4. committed[s] = NoRow
        BY PassAssumption DEF Init, TxInit
    <2> QED BY <2>1, <2>2, <2>3, <2>4 DEF SessionInv, FoundSound, GuardHolds, IdIsFree
<1> QED BY <1>1, <1>2, <1>3 DEF PassInv

-----------------------------------------------------------------------------
\* The steps

\* A session that has not written a pass yet takes a lock or reads.
LEMMA QuietStep ==
    ASSUME PassInv, NEW s \in Session, NEW statement, Goto(s, statement),
           pc[s] \notin {"commit", "done"},
           UNCHANGED <<committed, draft>>, DOMAIN view' = Session, DOMAIN locks' = Row,
           DOMAIN found' = Session, \A t \in Session \ {s} : found'[t] = found[t],
           \A p \in PassId : locks[p] \in Session \ {s} => locks'[p] = locks[p],
           FoundSound(s)', GuardHolds(s)'
    PROVE  PassInv'
<1>1. StepOf(s)
    BY DEF StepOf, Goto
<1>2. Tabular' /\ CommittedSound'
    BY DEF PassInv, Tabular, CommittedSound, Goto
<1>3. DraftSound(s)' /\ IdIsFree(s)'
    BY DEF PassInv, SessionInv, DraftSound, IdIsFree
<1> QED BY <1>1, <1>2, <1>3, StepKeeps DEF SessionInv

\* A lock that was free or its own is taken from nobody.
LEMMA LockTaken ==
    ASSUME Tabular, NEW s \in Session, NEW r, LockIsFree(s, r), TakeLock(s, r)
    PROVE  /\ DOMAIN locks' = Row
           /\ r \in Row => locks'[r] = s
           /\ \A p \in Row : locks[p] \in Session \ {s} => locks'[p] = locks[p]
BY RowFacts DEF Tabular, LockIsFree, TakeLock

\* The end of a transaction gives up its own versions and locks alone.
LEMMA Ended ==
    ASSUME Tabular, NEW s \in Session, EndTx(s)
    PROVE  /\ DOMAIN view' = Session /\ DOMAIN draft' = Session /\ DOMAIN locks' = Row
           /\ \A t \in Session : DOMAIN draft'[t] = Row
           /\ \A r \in Row : draft'[s][r] = Clean
           /\ \A t \in Session \ {s} : draft'[t] = draft[t]
           /\ \A r \in Row : locks[r] \in Session \ {s} => locks'[r] = locks[r]
BY DEF Tabular, EndTx

\* A rollback keeps the invariant.
LEMMA ThrowKeeps ==
    ASSUME PassInv, NEW s \in Session, Throw(s), pc[s] # "done"
    PROVE  PassInv'
<1>1. Tabular
    BY DEF PassInv
<1>2. EndTx(s) /\ committed' = committed /\ found' = found /\ req' = req
    BY DEF Throw, RollbackTx, Goto
<1>3. pc' = [pc EXCEPT ![s] = "failed"]
    BY DEF Throw, Goto
<1>4. StepOf(s)
    BY <1>1, <1>2, <1>3, Ended, RowFacts DEF StepOf
<1>5. Tabular'
    BY <1>1, <1>2, <1>3, Ended DEF Tabular
<1>6. CommittedSound'
    BY <1>2 DEF PassInv, CommittedSound
<1>7. DraftSound(s)'
    BY <1>1, <1>2, Ended, RowFacts DEF DraftSound
<1>8. pc'[s] = "failed" /\ SessionInv(s)
    BY <1>1, <1>3 DEF Tabular, PassInv
<1>9. FoundSound(s)' /\ GuardHolds(s)' /\ IdIsFree(s)'
    BY <1>2, <1>8 DEF SessionInv, FoundSound, GuardHolds, IdIsFree
<1> QED BY <1>4, <1>5, <1>6, <1>7, <1>9, StepKeeps DEF SessionInv

\* The reads before an administrative write find sound rows.
LEMMA ReadPassKeeps ==
    ASSUME PassInv, Enforced, NEW s \in Session, ReadPass(s) PROVE PassInv'
<1> DEFINE p == req[s].pass
           pass == committed[p]
<1>1. CASE Acceptable(req[s], pass)
    <2>1. /\ Live(pass) /\ req[s].op \in {"update", "delete"}
          /\ found' = [found EXCEPT ![s] = [pass |-> p, row |-> pass]]
          /\ Goto(s, "pass") /\ UNCHANGED txVars /\ pc[s] = "read"
        BY <1>1 DEF ReadPass, Acceptable
    <2>2. p \in PassId /\ pass # NoRow
        BY <2>1, SessionRequest, RequestFacts DEF Live, Service!Live
    <2>3. pass \in SoundRow
        BY <2>2 DEF PassInv, CommittedSound
    <2>4. found'[s] = [pass |-> p, row |-> pass] /\ pc'[s] = "pass" /\ req' = req
        BY <2>1 DEF PassInv, Tabular, Goto
    <2>5. found'[s] # Nothing
        BY <2>2, <2>4 DEF Nothing
    <2>6. FoundSound(s)'
        BY <2>1, <2>2, <2>3, <2>4 DEF FoundSound, Administrative, txVars
    <2>7. GuardHolds(s)'
        BY <2>4, <2>5 DEF GuardHolds
    <2> QED BY <2>1, <2>6, <2>7, QuietStep DEF PassInv, Tabular, txVars
<1>2. CASE ~Acceptable(req[s], pass)
    BY <1>2, ThrowKeeps DEF ReadPass
<1> QED BY <1>1, <1>2

LEMMA FindLatestKeeps ==
    ASSUME PassInv, Enforced, NEW s \in Session, FindLatest(s) PROVE PassInv'
<1>1. pc[s] = "read" /\ req[s].op = "extend" /\ Goto(s, "template") /\ UNCHANGED txVars
    BY DEF FindLatest
<1>2. pc'[s] = "template" /\ req' = req
    BY <1>1 DEF PassInv, Tabular, Goto
<1>3. GuardHolds(s)'
    BY <1>2 DEF GuardHolds
<1>4. CASE UNCHANGED found
    <2>1. FoundSound(s)'
        BY <1>1, <1>2, <1>4 DEF PassInv, SessionInv, FoundSound, txVars
    <2> QED BY <1>1, <1>3, <1>4, <2>1, QuietStep DEF PassInv, Tabular, txVars
<1>5. ASSUME NEW p \in Service!CountedIn(committed, req[s]),
             found' = [found EXCEPT ![s] = [pass |-> p, row |-> committed[p]]]
      PROVE  PassInv'
    <2>1. p \in PassId /\ committed[p] # NoRow
        BY <1>5 DEF Service!CountedIn, Service!Live
    <2>2. committed[p] \in SoundRow
        BY <2>1 DEF PassInv, CommittedSound
    <2>3. found'[s] = [pass |-> p, row |-> committed[p]]
        BY <1>5 DEF PassInv, Tabular
    <2>4. FoundSound(s)'
        BY <1>1, <1>2, <2>1, <2>2, <2>3 DEF FoundSound, Administrative, txVars
    <2> QED BY <1>1, <1>3, <1>5, <2>4, QuietStep DEF PassInv, Tabular, txVars
<1> QED BY <1>4, <1>5 DEF FindLatest

\* The locks of a template and of an account are not locks of passes.
LEMMA LockTemplateKeeps ==
    ASSUME PassInv, Enforced, NEW s \in Session, LockTemplate(s) PROVE PassInv'
<1> DEFINE statement == IF found[s] # Nothing THEN "pass"
                        ELSE IF req[s].op = "purchase" THEN "account" ELSE "commit"
<1>1. /\ pc[s] = "template" /\ Goto(s, statement) /\ UNCHANGED <<committed, view, draft, found>>
      /\ LockIsFree(s, req[s].template) /\ TakeLock(s, req[s].template)
    BY DEF LockTemplate
<1>2. /\ statement # "write"
      /\ statement = "pass" => found[s] # Nothing
      /\ statement \notin {"count", "charge"}
      /\ statement = "account" => req[s].op = "purchase"
    OBVIOUS
<1> HIDE DEF statement
<1>3. pc'[s] = statement /\ req' = req
    BY <1>1 DEF PassInv, Tabular, Goto
<1>4. GuardHolds(s)'
    BY <1>1, <1>2, <1>3 DEF GuardHolds
<1>5. FoundSound(s)'
    BY <1>1, <1>3 DEF PassInv, SessionInv, FoundSound
<1>6. /\ DOMAIN locks' = Row
      /\ \A p \in PassId : locks[p] \in Session \ {s} => locks'[p] = locks[p]
    BY <1>1, LockTaken, RowFacts DEF PassInv
<1> QED BY <1>1, <1>4, <1>5, <1>6, QuietStep DEF PassInv, Tabular

\* From the guard on the row is locked and the one that was read.
LEMMA LockPassKeeps ==
    ASSUME PassInv, Enforced, NEW s \in Session, LockPass(s) PROVE PassInv'
<1> DEFINE p == found[s].pass
<1>1. pc[s] = "pass" /\ LockIsFree(s, p)
    BY DEF LockPass
<1>2. CASE SameRevision(Stored(s, p), found[s].row)
    <2>1. /\ TakeLock(s, p) /\ Goto(s, "write") /\ UNCHANGED <<committed, view, draft, found>>
        BY <1>2 DEF LockPass
    <2>2. found[s] # Nothing /\ p \in PassId
        BY <1>1 DEF PassInv, SessionInv, GuardHolds, FoundSound
    <2>3. p \in Row /\ draft[s][p] = Clean
        BY <1>1, <2>2, RowFacts DEF PassInv, SessionInv, DraftSound
    <2>4. committed[p] = found[s].row
        BY <1>2, <2>3 DEF SameRevision, Stored
    <2>5. /\ DOMAIN locks' = Row /\ locks'[p] = s
          /\ \A r \in PassId : locks[r] \in Session \ {s} => locks'[r] = locks[r]
        BY <1>1, <2>1, <2>3, LockTaken, RowFacts DEF PassInv
    <2>6. pc'[s] = "write" /\ req' = req
        BY <2>1 DEF PassInv, Tabular, Goto
    <2>7. GuardHolds(s)'
        BY <2>1, <2>2, <2>4, <2>5, <2>6 DEF GuardHolds
    <2>8. FoundSound(s)'
        BY <2>1, <2>6 DEF PassInv, SessionInv, FoundSound
    <2> QED BY <1>1, <2>1, <2>5, <2>7, <2>8, QuietStep DEF PassInv, Tabular
<1>3. CASE ~SameRevision(Stored(s, p), found[s].row)
    BY <1>1, <1>3, ThrowKeeps DEF LockPass
<1> QED BY <1>2, <1>3

\* What is written is computed from the row it replaces.
LEMMA WritePassKeeps ==
    ASSUME PassInv, Enforced, NEW s \in Session, WritePass(s) PROVE PassInv'
<1> DEFINE p == Changed(s)
           pass == Stored(s, p)
           new == Written(s, pass)
<1>1. pc[s] = "write" /\ LockIsFree(s, p)
    BY DEF WritePass
<1>2. CASE Updatable(req[s], pass)
    <2>1. /\ TakeLock(s, p) /\ Write(s, p, new) /\ Goto(s, "commit")
          /\ UNCHANGED <<committed, view, found>>
        BY <1>2 DEF WritePass
    <2>2. req[s] \in Request
        BY SessionRequest
    <2>3. p \in PassId /\ committed[p] # NoRow /\ draft[s][p] = Clean
          /\ req[s].op \in Administrative \cup {"consume"}
          /\ (req[s].op # "consume" => found[s].row = committed[p])
        <3>1. \A r \in PassId : draft[s][r] = Clean
            BY <1>1 DEF PassInv, SessionInv, DraftSound
        <3>2. CASE req[s].op = "consume"
            <4>1. p = req[s].pass /\ p \in PassId
                BY <2>2, <3>2, RequestFacts DEF Changed
            <4>2. pass # NoRow /\ pass = committed[p]
                BY <1>2, <3>1, <3>2, <4>1 DEF Updatable, Live, Service!Live, Stored
            <4> QED BY <3>1, <3>2, <4>1, <4>2
        <3>3. CASE req[s].op # "consume"
            <4>1. p = found[s].pass /\ found[s] # Nothing /\ committed[p] = found[s].row
                BY <1>1, <3>3 DEF Changed, PassInv, SessionInv, GuardHolds
            <4> QED BY <3>1, <3>3, <4>1 DEF PassInv, SessionInv, FoundSound
        <3> QED BY <3>2, <3>3
    <2>4. pass = committed[p] /\ pass \in SoundRow
        BY <2>3 DEF Stored, PassInv, CommittedSound
    <2>5. new \in SoundRow
        BY <2>2, <2>3, <2>4, WrittenSound
    <2> HIDE DEF p, pass, new
    <2>6. p \in Row
        BY <2>3, RowFacts
    <2>7. /\ DOMAIN locks' = Row /\ locks'[p] = s
          /\ \A r \in PassId : locks[r] \in Session \ {s} => locks'[r] = locks[r]
        BY <1>1, <2>1, <2>6, LockTaken, RowFacts DEF PassInv
    <2>8. draft' = [draft EXCEPT ![s][p] = new]
        BY <2>1 DEF Write
    <2>9. pc'[s] = "commit" /\ req' = req /\ \A t \in Session \ {s} : pc'[t] = pc[t]
        BY <2>1 DEF PassInv, Tabular, Goto
    <2>10. StepOf(s)
        BY <2>1, <2>7, <2>8, <2>9 DEF StepOf
    <2>11. Tabular'
        BY <2>1, <2>7, <2>8 DEF PassInv, Tabular, Goto
    <2>12. CommittedSound'
        BY <2>1 DEF PassInv, CommittedSound
    <2>13. DraftSound(s)'
        <3> SUFFICES ASSUME NEW r \in PassId, draft'[s][r] # Clean
                     PROVE  draft'[s][r] \in SoundRow /\ locks'[r] = s /\ committed[r] # NoRow
            BY <2>1, <2>9 DEF DraftSound
        <3>1. CASE r = p
            BY <2>3, <2>5, <2>6, <2>7, <2>8, <3>1 DEF PassInv, Tabular
        <3>2. CASE r # p
            <4>1. draft'[s][r] = draft[s][r]
                BY <2>6, <2>8, <3>2, RowFacts DEF PassInv, Tabular
            <4> QED BY <1>1, <4>1 DEF PassInv, SessionInv, DraftSound
        <3> QED BY <3>1, <3>2
    <2>14. FoundSound(s)' /\ GuardHolds(s)' /\ IdIsFree(s)'
        BY <1>1, <2>1, <2>9 DEF PassInv, SessionInv, FoundSound, GuardHolds, IdIsFree
    <2> QED BY <2>10, <2>11, <2>12, <2>13, <2>14, StepKeeps DEF SessionInv
<1>3. CASE ~Updatable(req[s], pass)
    BY <1>1, <1>3, ThrowKeeps DEF WritePass
<1> QED BY <1>2, <1>3

LEMMA LockBuyerKeeps ==
    ASSUME PassInv, Enforced, NEW s \in Session, LockBuyer(s) PROVE PassInv'
<1> DEFINE account == req[s].user
<1>1. /\ pc[s] = "account" /\ Goto(s, "count") /\ UNCHANGED <<committed, view, draft, found>>
      /\ LockIsFree(s, account)
      /\ UNCHANGED locks \/ TakeLock(s, account)
    BY DEF LockBuyer
<1>2. pc'[s] = "count" /\ req' = req
    BY <1>1 DEF PassInv, Tabular, Goto
<1>3. FoundSound(s)' /\ GuardHolds(s)'
    BY <1>1, <1>2 DEF PassInv, SessionInv, FoundSound, GuardHolds
<1>4. /\ DOMAIN locks' = Row
      /\ \A p \in PassId : locks[p] \in Session \ {s} => locks'[p] = locks[p]
    <2>1. CASE UNCHANGED locks BY <2>1 DEF PassInv, Tabular
    <2>2. CASE TakeLock(s, account) BY <1>1, <2>2, LockTaken, RowFacts DEF PassInv
    <2> QED BY <1>1, <2>1, <2>2
<1> QED BY <1>1, <1>3, <1>4, QuietStep DEF PassInv, Tabular

LEMMA CountPassesKeeps ==
    ASSUME PassInv, Enforced, NEW s \in Session, CountPasses(s) PROVE PassInv'
<1>1. pc[s] = "count"
    BY DEF CountPasses
<1>2. CASE Throw(s)
    BY <1>1, <1>2, ThrowKeeps
<1>3. CASE ~Throw(s)
    <2>1. /\ Goto(s, "charge") /\ UNCHANGED <<committed, draft, locks, found>>
          /\ UNCHANGED view \/ FixView(s)
        BY <1>3 DEF CountPasses
    <2>2. pc'[s] = "charge" /\ req' = req
        BY <2>1 DEF PassInv, Tabular, Goto
    <2>3. DOMAIN view' = Session
        BY <2>1 DEF PassInv, Tabular, FixView
    <2>4. FoundSound(s)' /\ GuardHolds(s)'
        BY <1>1, <2>1, <2>2 DEF PassInv, SessionInv, FoundSound, GuardHolds
    <2> QED BY <1>1, <2>1, <2>3, <2>4, QuietStep DEF PassInv, Tabular
<1> QED BY <1>2, <1>3

\* A charge writes the account of its user, which is no pass.
LEMMA ChargeKeeps ==
    ASSUME PassInv, Enforced, NEW s \in Session, Charge(s) PROVE PassInv'
<1> DEFINE user == req[s].user
           balance == Stored(s, user) - Price[req[s].template]
<1>1. pc[s] = "charge" /\ LockIsFree(s, user)
    BY DEF Charge
<1>2. CASE Throw(s)
    BY <1>1, <1>2, ThrowKeeps
<1>3. CASE Goto(s, "commit") /\ UNCHANGED <<txVars, found>>
    <2>1. pc'[s] = "commit" /\ req' = req
        BY <1>3 DEF PassInv, Tabular, Goto
    <2>2. FoundSound(s)' /\ GuardHolds(s)'
        BY <1>3, <2>1 DEF PassInv, SessionInv, FoundSound, GuardHolds, txVars
    <2> QED BY <1>1, <1>3, <2>2, QuietStep DEF PassInv, Tabular, txVars
<1>4. CASE /\ FixView(s) /\ TakeLock(s, user) /\ Write(s, user, balance)
           /\ Goto(s, "commit") /\ UNCHANGED <<committed, found>>
    <2> HIDE DEF balance
    <2>1. pc'[s] = "commit" /\ req' = req /\ \A t \in Session \ {s} : pc'[t] = pc[t]
        BY <1>4 DEF PassInv, Tabular, Goto
    <2>2. /\ DOMAIN locks' = Row
          /\ \A p \in PassId : locks[p] \in Session \ {s} => locks'[p] = locks[p]
        BY <1>1, <1>4, LockTaken, RowFacts DEF PassInv
    <2>3. draft' = [draft EXCEPT ![s][user] = balance]
        BY <1>4 DEF Write
    <2>4. StepOf(s)
        BY <1>4, <2>1, <2>2, <2>3 DEF StepOf
    <2>5. Tabular' /\ CommittedSound'
        BY <1>4, <2>2, <2>3 DEF PassInv, Tabular, CommittedSound, Goto, FixView
    <2>6. user \notin PassId
        BY <1>1, SessionRequest, RequestFacts, RowFacts DEF PassInv, SessionInv, GuardHolds
    <2>7. DraftSound(s)'
        <3>1. \A p \in PassId : draft'[s][p] = draft[s][p]
            BY <2>3, <2>6, RowFacts DEF PassInv, Tabular
        <3> QED BY <1>1, <3>1 DEF PassInv, SessionInv, DraftSound
    <2>8. FoundSound(s)' /\ GuardHolds(s)' /\ IdIsFree(s)'
        BY <1>1, <1>4, <2>1 DEF PassInv, SessionInv, FoundSound, GuardHolds, IdIsFree
    <2> QED BY <2>4, <2>5, <2>7, <2>8, StepKeeps DEF SessionInv
<1> QED BY <1>2, <1>3, <1>4 DEF Charge

\* A commit publishes sound rows, and a new pass under an id that was free.
LEMMA CommitKeeps ==
    ASSUME PassInv, Enforced, NEW s \in Session, Commit(s) PROVE PassInv'
<1> DEFINE inserted == [r \in (IF Inserts(s) THEN {s} ELSE {}) |-> Service!NewPass(req[s])]
<1>1. /\ pc[s] = "commit" /\ found' = found /\ req' = req /\ EndTx(s)
      /\ pc' = [pc EXCEPT ![s] = "done"]
      /\ committed' = [r \in Row |-> IF r \in DOMAIN inserted THEN inserted[r] ELSE Stored(s, r)]
    BY DEF Commit, CommitTx, Goto
<1>2. DOMAIN inserted = (IF Inserts(s) THEN {s} ELSE {})
    OBVIOUS
<1>3. Inserts(s) => inserted[s] \in SoundRow
    <2>1. Inserts(s) => req[s].op \in {"extend", "assign", "purchase"}
        BY DEF Inserts
    <2> QED BY <1>2, <2>1, SessionRequest, NewPassSound
<1> HIDE DEF inserted
<1>4. ASSUME NEW p \in PassId
      PROVE  /\ p = s /\ Inserts(s) => committed'[p] \in SoundRow
             /\ (p = s /\ Inserts(s)) \/ draft[s][p] # Clean \/ committed'[p] = committed[p]
             /\ committed[p] # NoRow => committed'[p] # NoRow
             /\ committed'[p] # NoRow => committed'[p] \in SoundRow
    <2>1. p \in Row
        BY RowFacts
    <2>2. CASE p = s /\ Inserts(s)
        <3>1. committed'[p] = inserted[s]
            BY <1>1, <1>2, <2>1, <2>2
        <3> QED BY <1>3, <2>2, <3>1, RowFacts
    <2>3. CASE ~(p = s /\ Inserts(s))
        <3>1. committed'[p] = Stored(s, p)
            BY <1>1, <1>2, <2>1, <2>3
        <3>2. CASE draft[s][p] = Clean
            BY <2>3, <3>1, <3>2 DEF Stored, PassInv, CommittedSound
        <3>3. CASE draft[s][p] # Clean
            <4>1. committed'[p] \in SoundRow
                BY <3>1, <3>3 DEF Stored, PassInv, SessionInv, DraftSound
            <4> QED BY <2>3, <3>3, <4>1, RowFacts
        <3> QED BY <3>2, <3>3
    <2> QED BY <2>2, <2>3
<1>5. Tabular
    BY DEF PassInv
<1>6. StepOf(s)
    <2>1. \A t \in Session \ {s} : pc'[t] = pc[t] /\ found'[t] = found[t] /\ draft'[t] = draft[t]
        BY <1>1, <1>5, Ended DEF Tabular
    <2>2. ASSUME NEW p \in PassId, locks[p] \in Session \ {s}
          PROVE  /\ locks'[p] = locks[p]
                 /\ committed[p] # NoRow => committed'[p] = committed[p]
        <3>1. locks'[p] = locks[p]
            BY <1>1, <1>5, <2>2, Ended, RowFacts
        <3>2. draft[s][p] = Clean
            BY <2>2 DEF PassInv, SessionInv, DraftSound
        <3>3. p = s => committed[p] = NoRow
            BY <1>1 DEF PassInv, SessionInv, IdIsFree
        <3> QED BY <1>4, <3>1, <3>2, <3>3
    <2>3. ASSUME NEW t \in Session \ {s}, committed[t] = NoRow PROVE committed'[t] = NoRow
        <3>1. t \in PassId
            BY RowFacts
        <3>2. draft[s][t] = Clean
            BY <2>3, <3>1 DEF PassInv, SessionInv, DraftSound
        <3> QED BY <1>4, <2>3, <3>1, <3>2
    <2> QED BY <1>1, <1>4, <2>1, <2>2, <2>3 DEF StepOf
<1>7. Tabular'
    BY <1>1, <1>5, Ended DEF Tabular
<1>8. CommittedSound'
    BY <1>4 DEF CommittedSound
<1>9. DraftSound(s)'
    BY <1>1, <1>5, Ended, RowFacts DEF DraftSound
<1>10. pc'[s] = "done" /\ SessionInv(s)
    BY <1>1, <1>5 DEF Tabular, PassInv
<1>11. FoundSound(s)' /\ GuardHolds(s)' /\ IdIsFree(s)'
    BY <1>1, <1>4, <1>10 DEF SessionInv, FoundSound, GuardHolds, IdIsFree
<1> QED BY <1>6, <1>7, <1>8, <1>9, <1>11, StepKeeps DEF SessionInv

-----------------------------------------------------------------------------

\* Every step keeps the invariant.
LEMMA NextKeeps == ASSUME PassInv, Enforced, [Next]_vars PROVE PassInv'
<1>1. CASE Next
    <2>1. PICK s \in Session :
            \/ ReadPass(s) \/ FindLatest(s) \/ LockTemplate(s) \/ LockPass(s) \/ WritePass(s)
            \/ LockBuyer(s) \/ CountPasses(s) \/ Charge(s) \/ Commit(s) \/ Abort(s)
        BY <1>1 DEF Next
    <2>2. CASE Abort(s)
        BY <2>2, ThrowKeeps DEF Abort
    <2> QED BY <2>1, <2>2, ReadPassKeeps, FindLatestKeeps, LockTemplateKeeps, LockPassKeeps,
               WritePassKeeps, LockBuyerKeeps, CountPassesKeeps, ChargeKeeps, CommitKeeps
<1>2. CASE UNCHANGED vars
    BY <1>2 DEF vars, txVars, PassInv, Tabular, CommittedSound, SessionInv, DraftSound,
                FoundSound, GuardHolds, IdIsFree
<1> QED BY <1>1, <1>2

\* Under IAM enforcement the remaining quota of every pass is always its total minus
\* what was used: no edit or extension by an administrator loses a use that a
\* settlement commits at the same time (updateUserPass, assignUserPassBatch,
\* deleteUserPass, finalizeChargedUsage), for any number of sessions, users and passes.
THEOREM QuotaHolds == ASSUME Enforced PROVE Spec => []QuotaAddsUp
<1>1. Init => PassInv
    BY InitPasses
<1>2. PassInv /\ [Next]_vars => PassInv'
    BY NextKeeps
<1>3. PassInv => QuotaAddsUp
    BY DEF PassInv, CommittedSound, SoundRow, QuotaAddsUp
<1> QED BY <1>1, <1>2, <1>3, PTL DEF Spec

-----------------------------------------------------------------------------
(***************************************************************************)
(* Under IAM enforcement MonthlyPass implements PassService and keeps the  *)
(* purchase limit, for any number of sessions, users, templates and        *)
(* passes.  PassInv says what is sound; here is added what a session has   *)
(* written and why its request may still be carried out as it commits.     *)
(***************************************************************************)

Creating == {"extend", "assign", "purchase"}

AllClean(s) == \A r \in Row : draft[s][r] = Clean
CleanBut(s, k) == \A r \in Row \ {k} : draft[s][r] = Clean

\* A request that changes a pass, and one that grants a pass without a charge.
Changes(s) == req[s].op = "consume" \/ (req[s].op \in Administrative /\ found[s] # Nothing)
Grants(s) == req[s].op = "assign" \/ (req[s].op = "extend" /\ found[s] = Nothing)

\* The pass that was found is the one of the request and could be changed.
FoundFits(s) ==
    LET q == req[s]
        row == found[s].row
    IN  found[s] # Nothing =>
          /\ Live(row)
          /\ q.op \in {"update", "delete"} => found[s].pass = q.pass /\ Acceptable(q, row)
          /\ q.op = "extend" => row.user = q.user /\ row.template = q.template

\* A creation has locked its template from the guard on, and a purchase that has
\* counted may still be made.
SourceLocked(s) ==
    LET q == req[s]
    IN  /\ pc[s] = "template" => q.op \in Creating
        /\ q.op \in Creating /\ pc[s] \notin {"read", "template", "done", "failed"} =>
             locks[q.template] = s
        /\ q.op = "purchase" /\ pc[s] \in {"charge", "commit"} => Service!Room(committed, q)

\* What a session about to commit has written.
PassChanged(s) ==
    LET p == Changed(s)
    IN  /\ p \in PassId /\ committed[p] \in SoundRow /\ locks[p] = s
        /\ Updatable(req[s], committed[p]) /\ Live(committed[p])
        /\ req[s].op # "consume" => committed[p] = found[s].row
        /\ draft[s][p] = Written(s, committed[p]) /\ CleanBut(s, p)

PriceCharged(s) ==
    LET user == req[s].user
        price == Price[req[s].template]
    IN  /\ CleanBut(s, user)
        /\ price = 0 => draft[s][user] = Clean
        /\ price # 0 => /\ committed[user] # NoRow /\ committed[user] >= price
                        /\ draft[s][user] = committed[user] - price /\ locks[user] = s

AboutToCommit(s) ==
    /\ pc[s] # "commit" => AllClean(s)
    /\ pc[s] = "commit" =>
         /\ Changes(s) \/ Grants(s) \/ req[s].op = "purchase"
         /\ Changes(s) => PassChanged(s)
         /\ Grants(s) => AllClean(s)
         /\ req[s].op = "purchase" => PriceCharged(s)

SessionFits(s) == FoundFits(s) /\ SourceLocked(s) /\ AboutToCommit(s)

AccountsTyped == \A u \in User : committed[u] \in Int \cup {NoRow}

RefinementInv ==
    PassInv /\ AccountsTyped /\ \A s \in Session : SessionFits(s)

Step(s) ==
    \/ ReadPass(s) \/ FindLatest(s) \/ LockTemplate(s) \/ LockPass(s) \/ WritePass(s)
    \/ LockBuyer(s) \/ CountPasses(s) \/ Charge(s) \/ Commit(s) \/ Abort(s)

-----------------------------------------------------------------------------
\* What a step of a session leaves alone

\* The other sessions keep their variables and their locks.
LEMMA StepIsLocal ==
    ASSUME Tabular, NEW s \in Session, Step(s)
    PROVE  /\ req' = req
           /\ \A t \in Session \ {s} : pc'[t] = pc[t] /\ found'[t] = found[t] /\ draft'[t] = draft[t]
           /\ \A r \in Row : locks[r] \in Session \ {s} => locks'[r] = locks[r]
<1>1. CASE Throw(s)
    <2>1. EndTx(s) /\ req' = req /\ found' = found /\ pc' = [pc EXCEPT ![s] = "failed"]
        BY <1>1 DEF Throw, RollbackTx, Goto
    <2> QED BY <2>1, Ended DEF Tabular
<1>2. CASE Commit(s)
    <2>1. EndTx(s) /\ req' = req /\ found' = found /\ pc' = [pc EXCEPT ![s] = "done"]
        BY <1>2 DEF Commit, CommitTx, Goto
    <2> QED BY <2>1, Ended DEF Tabular
<1>3. CASE (ReadPass(s) \/ FindLatest(s)) /\ ~Throw(s)
    BY <1>3 DEF ReadPass, FindLatest, Goto, txVars, Tabular
<1>4. CASE LockTemplate(s)
    <2>1. /\ LockIsFree(s, req[s].template) /\ TakeLock(s, req[s].template)
          /\ UNCHANGED <<draft, found, req>> /\ \E x : pc' = [pc EXCEPT ![s] = x]
        BY <1>4 DEF LockTemplate, Goto
    <2> QED BY <2>1, LockTaken DEF Tabular
<1>5. CASE LockPass(s) /\ ~Throw(s)
    <2>1. /\ LockIsFree(s, found[s].pass) /\ TakeLock(s, found[s].pass)
          /\ UNCHANGED <<draft, found, req>> /\ \E x : pc' = [pc EXCEPT ![s] = x]
        BY <1>5 DEF LockPass, Goto
    <2> QED BY <2>1, LockTaken DEF Tabular
<1>6. CASE WritePass(s) /\ ~Throw(s)
    <2>1. /\ LockIsFree(s, Changed(s)) /\ TakeLock(s, Changed(s))
          /\ UNCHANGED <<found, req>> /\ pc' = [pc EXCEPT ![s] = "commit"]
          /\ \A t \in Session \ {s} : draft'[t] = draft[t]
        BY <1>6 DEF WritePass, Goto, Write, Tabular
    <2> QED BY <2>1, LockTaken DEF Tabular
<1>7. CASE LockBuyer(s)
    <2>1. /\ LockIsFree(s, req[s].user) /\ (UNCHANGED locks \/ TakeLock(s, req[s].user))
          /\ UNCHANGED <<draft, found, req>> /\ pc' = [pc EXCEPT ![s] = "count"]
        BY <1>7 DEF LockBuyer, Goto
    <2> QED BY <2>1, LockTaken DEF Tabular
<1>8. CASE CountPasses(s) /\ ~Throw(s)
    BY <1>8 DEF CountPasses, Goto, Tabular
<1>9. CASE Charge(s) /\ ~Throw(s)
    <2>1. /\ LockIsFree(s, req[s].user) /\ (UNCHANGED locks \/ TakeLock(s, req[s].user))
          /\ UNCHANGED <<found, req>> /\ pc' = [pc EXCEPT ![s] = "commit"]
          /\ \A t \in Session \ {s} : draft'[t] = draft[t]
        BY <1>9 DEF Charge, Goto, Write, txVars, Tabular
    <2> QED BY <2>1, LockTaken DEF Tabular
<1> QED BY <1>1, <1>2, <1>3, <1>4, <1>5, <1>6, <1>7, <1>8, <1>9 DEF Step, Abort

\* Only a commit publishes.
LEMMA OnlyCommitPublishes ==
    ASSUME NEW s \in Session, Step(s), ~Commit(s)
    PROVE  committed' = committed
BY DEF Step, Abort, Throw, RollbackTx, ReadPass, FindLatest, LockTemplate, LockPass, WritePass,
       LockBuyer, CountPasses, Charge, txVars

\* No write gives a pass to another user or template.
LEMMA WrittenIdentity ==
    ASSUME NEW s, NEW pass \in SoundRow, req[s].op \in Administrative \cup {"consume"}
    PROVE  Written(s, pass).user = pass.user /\ Written(s, pass).template = pass.template
<1> DEFINE q == req[s]
           read == found[s].row
<1>0. pass \in PassRow
    BY DEF SoundRow
<1>1. CASE q.op = "consume"
    <2>1. Written(s, pass) = [pass EXCEPT !.used = @ + q.quota, !.remaining = @ - q.quota]
        BY <1>1 DEF Written
    <2> QED BY <1>0, <2>1 DEF PassRow
<1>2. CASE q.op = "update"
    <2>1. Written(s, pass) = [pass EXCEPT !.total = Service!Merged(q.total, @),
                                 !.remaining = Service!Merged(q.total, read.total) - read.used,
                                 !.status = Service!Merged(q.status, @)]
        BY <1>2 DEF Written
    <2> QED BY <1>0, <2>1 DEF PassRow
<1>3. CASE q.op = "delete"
    <2>1. Written(s, pass) = [pass EXCEPT !.status = Service!Deleted]
        BY <1>3 DEF Written
    <2> QED BY <1>0, <2>1 DEF PassRow
<1>4. CASE q.op = "extend"
    <2>1. Written(s, pass) = [pass EXCEPT !.total = read.total + q.quota,
                                          !.remaining = read.remaining + q.quota]
        BY <1>4 DEF Written
    <2> QED BY <1>0, <2>1 DEF PassRow
<1> QED BY <1>1, <1>2, <1>3, <1>4 DEF Administrative

\* A request that commits changes one pass, or grants one under a free id.
LEMMA Published ==
    ASSUME PassInv, NEW s \in Session, SessionFits(s), Commit(s)
    PROVE  /\ committed' = [r \in Row |-> IF r = s /\ Inserts(s) THEN Service!NewPass(req[s])
                                                                ELSE Stored(s, r)]
           /\ committed[s] = NoRow /\ s \in PassId
           /\ Inserts(s) <=> ~Changes(s)
           /\ Changes(s) => /\ req[s].op \in Administrative \cup {"consume"}
                            /\ PassChanged(s) /\ Stored(s, Changed(s)) = Written(s, committed[Changed(s)])
                            /\ \A r \in Row \ {Changed(s)} : Stored(s, r) = committed[r]
           /\ ~Changes(s) => /\ \A p \in PassId : Stored(s, p) = committed[p]
                             /\ req[s].op \in Creating /\ locks[req[s].template] = s
<1>1. pc[s] = "commit"
    BY DEF Commit
<1>2. committed' = [r \in Row |-> IF r = s /\ Inserts(s) THEN Service!NewPass(req[s])
                                                      ELSE Stored(s, r)]
    BY DEF Commit, CommitTx
<1>3. committed[s] = NoRow /\ s \in PassId
    BY <1>1, RowFacts DEF PassInv, SessionInv, IdIsFree
<1>4. Changes(s) \/ Grants(s) \/ req[s].op = "purchase"
    BY <1>1 DEF SessionFits, AboutToCommit
<1>5. Inserts(s) <=> ~Changes(s)
    BY <1>4 DEF Inserts, Changes, Grants, Administrative
<1>6. ASSUME Changes(s)
      PROVE  /\ req[s].op \in Administrative \cup {"consume"}
             /\ PassChanged(s) /\ Stored(s, Changed(s)) = Written(s, committed[Changed(s)])
             /\ \A r \in Row \ {Changed(s)} : Stored(s, r) = committed[r]
    <2>1. PassChanged(s) /\ req[s].op \in Administrative \cup {"consume"}
        BY <1>1, <1>6 DEF SessionFits, AboutToCommit, Changes
    <2>2. Written(s, committed[Changed(s)]) \in SoundRow
        BY <2>1, SessionRequest, WrittenSound DEF PassChanged
    <2>3. Written(s, committed[Changed(s)]) # Clean
        BY <2>2, PassAssumption DEF SoundRow
    <2> QED BY <2>1, <2>3 DEF PassChanged, CleanBut, Stored
<1>7. ASSUME ~Changes(s)
      PROVE  /\ \A p \in PassId : Stored(s, p) = committed[p]
             /\ req[s].op \in Creating /\ locks[req[s].template] = s
    <2>1. req[s].op \in Creating
        BY <1>4, <1>7 DEF Grants, Creating
    <2>2. locks[req[s].template] = s
        BY <1>1, <2>1 DEF SessionFits, SourceLocked
    <2>3. \A p \in PassId : draft[s][p] = Clean
        <3>1. CASE Grants(s)
            BY <1>1, <3>1, RowFacts DEF SessionFits, AboutToCommit, AllClean
        <3>2. CASE req[s].op = "purchase"
            <4>1. req[s].user \in User
                BY <3>2, SessionRequest, RequestFacts
            <4> QED BY <1>1, <3>2, <4>1, RowFacts DEF SessionFits, AboutToCommit, PriceCharged, CleanBut
        <3> QED BY <1>4, <1>7, <3>1, <3>2
    <2> QED BY <2>1, <2>2, <2>3 DEF Stored
<1> QED BY <1>2, <1>3, <1>5, <1>6, <1>7

\* What a step does to the passes, seen by another session: no row that it has locked
\* changes; a pass keeps its user and template and comes back from no deletion; and a
\* new pass is one its maker holds the template of.
LEMMA PassesKept ==
    ASSUME PassInv, NEW s \in Session, SessionFits(s), Step(s)
    PROVE  /\ \A r \in Row : locks[r] \in Session \ {s} /\ committed[r] # NoRow =>
                committed'[r] = committed[r]
           /\ \A p \in PassId : committed[p] # NoRow /\ Live(committed'[p]) =>
                /\ Live(committed[p])
                /\ committed'[p].user = committed[p].user
                /\ committed'[p].template = committed[p].template
           /\ \A p \in PassId : committed[p] = NoRow /\ committed'[p] # NoRow =>
                /\ p = s /\ committed'[p].user = req[s].user
                /\ committed'[p].template = req[s].template /\ locks[req[s].template] = s
<1>1. CASE ~Commit(s)
    BY <1>1, OnlyCommitPublishes
<1>2. CASE Commit(s) /\ Changes(s)
    <2> DEFINE c == Changed(s)
    <2>1. /\ \A r \in Row \ {c} : committed'[r] = committed[r]
          /\ c \in PassId /\ c \in Row /\ committed'[c] = Written(s, committed[c])
          /\ committed[c] \in SoundRow /\ Live(committed[c]) /\ locks[c] = s
        BY <1>2, Published, RowFacts DEF PassChanged
    <2>2. /\ committed'[c].user = committed[c].user
          /\ committed'[c].template = committed[c].template
        BY <1>2, <2>1, Published, WrittenIdentity
    <2> HIDE DEF c
    <2>3. committed[c] # NoRow
        BY <2>1, RowFacts
    <2> QED BY <2>1, <2>2, <2>3, RowFacts
<1>3. CASE Commit(s) /\ ~Changes(s)
    <2>1. \A r \in Row \ {s} : committed'[r] = Stored(s, r)
        BY <1>3, Published
    <2>2. /\ \A p \in PassId \ {s} : committed'[p] = committed[p]
          /\ s \in PassId /\ committed[s] = NoRow /\ locks[req[s].template] = s
          /\ committed'[s] = Service!NewPass(req[s])
        BY <1>3, <2>1, Published, RowFacts
    <2>3. /\ committed'[s].user = req[s].user
          /\ committed'[s].template = req[s].template
        BY <2>2 DEF Service!NewPass
    <2>4. \A r \in Row : locks[r] \in Session \ {s} => draft[s][r] = Clean
        <3>1. CASE Grants(s)
            BY <1>3, <3>1 DEF SessionFits, AboutToCommit, AllClean, Commit
        <3>2. CASE req[s].op = "purchase"
            <4>1. PriceCharged(s) /\ req[s].user \in Row
                BY <1>3, <3>2, SessionRequest, RequestFacts, RowFacts
                    DEF SessionFits, AboutToCommit, Commit
            <4> QED BY <4>1 DEF PriceCharged, CleanBut
        <3> QED BY <1>3, <3>1, <3>2 DEF SessionFits, AboutToCommit, Commit
    <2>5. \A r \in Row : locks[r] \in Session \ {s} /\ committed[r] # NoRow =>
                committed'[r] = committed[r]
        BY <2>1, <2>2, <2>4 DEF Stored
    <2> QED BY <2>2, <2>3, <2>5
<1> QED BY <1>1, <1>2, <1>3

-----------------------------------------------------------------------------
\* The other sessions

\* The cardinality of the instance is that of the sets.
LEMMA SameCardinality == ASSUME NEW S PROVE Service!Cardinality(S) = Cardinality(S)
BY DEF Service!Cardinality, Cardinality

\* While a session holds its template no other one adds a pass to what it has counted.
LEMMA RoomKept ==
    ASSUME PassInv, NEW s \in Session, SessionFits(s), Step(s), NEW t \in Session \ {s},
           req[t].op \in Creating, locks[req[t].template] = t, Service!Room(committed, req[t])
    PROVE  Service!Room(committed', req[t])
<1> DEFINE q == req[t]
           before == Service!CountedIn(committed, q)
           after == Service!CountedIn(committed', q)
<1>1. q.template \in Template
    BY SessionRequest, RequestFacts DEF Creating
<1>2. after \subseteq before
    <2> SUFFICES ASSUME NEW p \in PassId, Live(committed'[p]),
                        committed'[p].user = q.user, committed'[p].template = q.template
                 PROVE  p \in before
        BY DEF Service!CountedIn, Live
    <2>1. CASE committed[p] # NoRow
        BY <2>1, PassesKept DEF Service!CountedIn, Live
    <2>2. CASE committed[p] = NoRow
        <3>1. committed'[p] # NoRow
            BY DEF Live, Service!Live
        <3>2. committed'[p].template = req[s].template /\ locks[req[s].template] = s
            BY <2>2, <3>1, PassesKept
        <3> QED BY <3>2
    <2> QED BY <2>1, <2>2
<1>3. IsFiniteSet(before)
    <2>1. before \subseteq PassId
        BY DEF Service!CountedIn
    <2> QED BY <2>1, PassAssumption, FS_Subset
<1>4. /\ Cardinality(after) \in Nat /\ Cardinality(before) \in Nat
      /\ Cardinality(after) <= Cardinality(before)
    BY <1>2, <1>3, FS_Subset, FS_CardinalityType
<1>5. Limit[q.template] \in Nat \cup {NoLimit}
    BY <1>1, PassAssumption
<1>6. Limit[q.template] # NoLimit => Cardinality(before) < Limit[q.template]
    BY SameCardinality DEF Service!Room
<1> HIDE DEF before, after
<1>7. Limit[q.template] # NoLimit => Cardinality(after) < Limit[q.template]
    BY <1>4, <1>5, <1>6
<1> QED BY <1>7, SameCardinality DEF Service!Room, after

\* No step of a session undoes what another one has prepared.
LEMMA OthersFit ==
    ASSUME PassInv, NEW s \in Session, SessionFits(s), Step(s), NEW t \in Session \ {s},
           SessionFits(t)
    PROVE  SessionFits(t)'
<1>1. /\ req' = req /\ pc'[t] = pc[t] /\ found'[t] = found[t] /\ draft'[t] = draft[t]
      /\ \A r \in Row : locks[r] = t => locks'[r] = t
    BY StepIsLocal DEF PassInv
<1>2. \A r \in Row : locks[r] = t /\ committed[r] # NoRow => committed'[r] = committed[r]
    BY PassesKept
<1>3. FoundFits(t)'
    BY <1>1 DEF SessionFits, FoundFits, Acceptable, Live, Service!Live, Service!Merged
<1>4. SourceLocked(t)'
    <2>1. req[t].op \in Creating => req[t].template \in Row
        BY SessionRequest, RequestFacts, RowFacts DEF Creating
    <2>2. req[t].op = "purchase" /\ pc[t] \in {"charge", "commit"} =>
              Service!Room(committed', req[t])
        BY RoomKept DEF SessionFits, SourceLocked, Creating
    <2> QED BY <1>1, <2>1, <2>2 DEF SessionFits, SourceLocked
<1>5. AboutToCommit(t)'
    <2>1. AllClean(t) => AllClean(t)'
        BY <1>1 DEF AllClean
    <2>2. ASSUME PassChanged(t) PROVE PassChanged(t)'
        <3> DEFINE p == Changed(t)
        <3>1. p \in Row /\ committed[p] # NoRow /\ locks[p] = t
            BY <2>2, RowFacts DEF PassChanged
        <3>2. committed'[p] = committed[p] /\ locks'[p] = t
            BY <1>1, <1>2, <3>1
        <3>3. Changed(t)' = p /\ Written(t, committed[p])' = Written(t, committed'[p])
            BY <1>1 DEF Changed, Written
        <3> QED BY <1>1, <2>2, <3>2, <3>3 DEF PassChanged, CleanBut, Updatable, Live, Service!Live
    <2>3. ASSUME PriceCharged(t), req[t].op = "purchase" PROVE PriceCharged(t)'
        <3>1. req[t].user \in Row
            BY <2>3, SessionRequest, RequestFacts, RowFacts
        <3> QED BY <1>1, <1>2, <2>3, <3>1 DEF PriceCharged, CleanBut
    <2>4. (Changes(t)' <=> Changes(t)) /\ (Grants(t)' <=> Grants(t))
        BY <1>1 DEF Changes, Grants
    <2> QED BY <1>1, <2>1, <2>2, <2>3, <2>4 DEF SessionFits, AboutToCommit
<1> QED BY <1>3, <1>4, <1>5 DEF SessionFits

-----------------------------------------------------------------------------
\* The steps

\* A session keeps what it has locked until its transaction ends.
LEMMA OwnLocksKept ==
    ASSUME Tabular, NEW s \in Session, NEW r, UNCHANGED locks \/ TakeLock(s, r), NEW k \in Row,
           locks[k] = s
    PROVE  locks'[k] = s
BY DEF Tabular, TakeLock

\* After its transaction a session has written and locked nothing.
LEMMA EndFits ==
    ASSUME Tabular, NEW s \in Session, FoundFits(s), EndTx(s), UNCHANGED <<req, found>>,
           pc'[s] \in {"done", "failed"}
    PROVE  SessionFits(s)'
<1>1. FoundFits(s)'
    BY DEF FoundFits, Acceptable, Live, Service!Live, Service!Merged
<1>2. SourceLocked(s)'
    BY DEF SourceLocked
<1>3. AboutToCommit(s)'
    BY Ended DEF AboutToCommit, AllClean
<1> QED BY <1>1, <1>2, <1>3 DEF SessionFits

LEMMA ThrowFits ==
    ASSUME RefinementInv, NEW s \in Session, Throw(s) PROVE SessionFits(s)'
<1>1. EndTx(s) /\ UNCHANGED <<req, found>> /\ pc' = [pc EXCEPT ![s] = "failed"]
    BY DEF Throw, RollbackTx, Goto
<1>2. Tabular /\ FoundFits(s)
    BY DEF RefinementInv, PassInv, SessionFits
<1>3. pc'[s] = "failed"
    BY <1>1, <1>2 DEF Tabular
<1> QED BY <1>1, <1>2, <1>3, EndFits

LEMMA CommitFits ==
    ASSUME RefinementInv, NEW s \in Session, Commit(s) PROVE SessionFits(s)'
<1>1. EndTx(s) /\ UNCHANGED <<req, found>> /\ pc' = [pc EXCEPT ![s] = "done"]
    BY DEF Commit, CommitTx, Goto
<1>2. Tabular /\ FoundFits(s)
    BY DEF RefinementInv, PassInv, SessionFits
<1>3. pc'[s] = "done"
    BY <1>1, <1>2 DEF Tabular
<1> QED BY <1>1, <1>2, <1>3, EndFits

\* A session that neither writes nor comes to its commit.
LEMMA QuietFits ==
    ASSUME RefinementInv, NEW s \in Session, NEW r, UNCHANGED locks \/ TakeLock(s, r),
           UNCHANGED <<committed, draft, req>>, pc[s] \notin {"commit", "done", "failed"},
           pc'[s] \in {"template", "pass", "write", "account", "count", "charge"},
           FoundFits(s)', pc'[s] = "template" => req[s].op \in Creating,
           /\ req[s].op \in Creating /\ pc'[s] # "template"
           => pc[s] \notin {"read", "template"} \/ locks'[req[s].template] = s,
           req[s].op = "purchase" /\ pc'[s] = "charge" => Service!Room(committed, req[s])
    PROVE  SessionFits(s)'
<1>1. AllClean(s)'
    BY DEF RefinementInv, SessionFits, AboutToCommit, AllClean
<1>2. AboutToCommit(s)'
    BY <1>1 DEF AboutToCommit
<1>3. ASSUME req[s].op \in Creating, pc'[s] # "template" PROVE locks'[req[s].template] = s
    <2>1. CASE locks'[req[s].template] = s
        BY <2>1
    <2>2. CASE pc[s] \notin {"read", "template"}
        <3>1. locks[req[s].template] = s /\ Tabular
            BY <1>3, <2>2 DEF RefinementInv, SessionFits, SourceLocked, PassInv
        <3>2. req[s].template \in Row
            BY <1>3, SessionRequest, RequestFacts, RowFacts DEF Creating, RefinementInv
        <3> QED BY <3>1, <3>2, OwnLocksKept
    <2> QED BY <1>3, <2>1, <2>2
<1>4. SourceLocked(s)'
    BY <1>3 DEF SourceLocked
<1> QED BY <1>2, <1>4 DEF SessionFits

LEMMA ReadPassFits ==
    ASSUME RefinementInv, Enforced, NEW s \in Session, ReadPass(s) PROVE SessionFits(s)'
<1> DEFINE p == req[s].pass
           pass == committed[p]
<1>1. CASE Acceptable(req[s], pass)
    <2>1. /\ req[s].op \in {"update", "delete"} /\ pc[s] = "read"
          /\ found' = [found EXCEPT ![s] = [pass |-> p, row |-> pass]]
          /\ Goto(s, "pass") /\ UNCHANGED txVars
        BY <1>1 DEF ReadPass
    <2>2. found'[s] = [pass |-> p, row |-> pass] /\ pc'[s] = "pass" /\ req' = req
        BY <2>1 DEF RefinementInv, PassInv, Tabular, Goto
    <2>3. Acceptable(req[s], pass) => Live(pass)
        BY DEF Acceptable
    <2>4. FoundFits(s)'
        BY <1>1, <2>1, <2>2, <2>3 DEF FoundFits, Acceptable, Live, Service!Live, Service!Merged
    <2>5. req[s].op \notin Creating
        BY <2>1 DEF Creating
    <2> QED BY <2>1, <2>2, <2>4, <2>5, QuietFits DEF txVars
<1>2. CASE ~Acceptable(req[s], pass)
    BY <1>2, ThrowFits DEF ReadPass
<1> QED BY <1>1, <1>2

LEMMA FindLatestFits ==
    ASSUME RefinementInv, Enforced, NEW s \in Session, FindLatest(s) PROVE SessionFits(s)'
<1>1. pc[s] = "read" /\ req[s].op = "extend" /\ Goto(s, "template") /\ UNCHANGED txVars
    BY DEF FindLatest
<1>2. pc'[s] = "template" /\ req' = req
    BY <1>1 DEF RefinementInv, PassInv, Tabular, Goto
<1>3. FoundFits(s)'
    <2>1. CASE UNCHANGED found
        BY <1>2, <2>1 DEF RefinementInv, SessionFits, FoundFits, Acceptable, Live, Service!Live,
                          Service!Merged
    <2>2. ASSUME NEW p \in Service!CountedIn(committed, req[s]),
                 found' = [found EXCEPT ![s] = [pass |-> p, row |-> committed[p]]]
          PROVE  FoundFits(s)'
        <3>1. found'[s] = [pass |-> p, row |-> committed[p]]
            BY <2>2 DEF RefinementInv, PassInv, Tabular
        <3>2. /\ Service!Live(committed[p])
              /\ committed[p].user = req[s].user /\ committed[p].template = req[s].template
            BY DEF Service!CountedIn
        <3> QED BY <1>1, <1>2, <3>1, <3>2 DEF FoundFits, Live, Service!Live
    <2> QED BY <2>1, <2>2 DEF FindLatest
<1> QED BY <1>1, <1>2, <1>3, QuietFits DEF Creating, txVars

\* A creation without a charge commits next, and has written nothing yet.
LEMMA LockTemplateFits ==
    ASSUME RefinementInv, Enforced, NEW s \in Session, LockTemplate(s) PROVE SessionFits(s)'
<1> DEFINE statement == IF found[s] # Nothing THEN "pass"
                        ELSE IF req[s].op = "purchase" THEN "account" ELSE "commit"
<1>1. /\ pc[s] = "template" /\ Goto(s, statement) /\ UNCHANGED <<committed, view, draft, found>>
      /\ TakeLock(s, req[s].template)
    BY DEF LockTemplate
<1>2. req[s].op \in Creating /\ AllClean(s)
    BY <1>1 DEF RefinementInv, SessionFits, SourceLocked, AboutToCommit
<1>3. statement \in {"pass", "account"}
      \/ (statement = "commit" /\ req[s].op \in {"extend", "assign"} /\ found[s] = Nothing)
    BY <1>2 DEF Creating
<1> HIDE DEF statement
<1>4. pc'[s] = statement /\ req' = req
    BY <1>1 DEF RefinementInv, PassInv, Tabular, Goto
<1>5. FoundFits(s)'
    BY <1>1, <1>4 DEF RefinementInv, SessionFits, FoundFits, Acceptable, Live, Service!Live,
                      Service!Merged
<1>6. locks'[req[s].template] = s
    <2>1. req[s].template \in Row
        BY <1>2, SessionRequest, RequestFacts, RowFacts DEF Creating, RefinementInv
    <2> QED BY <1>1, <2>1 DEF RefinementInv, PassInv, Tabular, TakeLock
<1>7. CASE statement \in {"pass", "account"}
    BY <1>1, <1>2, <1>4, <1>5, <1>6, <1>7, QuietFits
<1>8. CASE statement = "commit"
    <2>1. SourceLocked(s)'
        BY <1>3, <1>4, <1>6, <1>8 DEF SourceLocked
    <2>2. AllClean(s)'
        BY <1>1, <1>2 DEF AllClean
    <2>3. Grants(s)' /\ ~Changes(s)' /\ req[s].op # "purchase"
        BY <1>1, <1>3, <1>4, <1>8 DEF Grants, Changes, Administrative
    <2>4. AboutToCommit(s)'
        BY <1>4, <1>8, <2>2, <2>3 DEF AboutToCommit
    <2> QED BY <1>5, <2>1, <2>4 DEF SessionFits
<1> QED BY <1>3, <1>7, <1>8

LEMMA LockPassFits ==
    ASSUME RefinementInv, Enforced, NEW s \in Session, LockPass(s) PROVE SessionFits(s)'
<1> DEFINE p == found[s].pass
<1>1. pc[s] = "pass"
    BY DEF LockPass
<1>2. CASE Throw(s)
    BY <1>2, ThrowFits
<1>3. CASE TakeLock(s, p) /\ Goto(s, "write") /\ UNCHANGED <<committed, view, draft, found>>
    <2>1. pc'[s] = "write" /\ req' = req
        BY <1>3 DEF RefinementInv, PassInv, Tabular, Goto
    <2>2. FoundFits(s)'
        BY <1>3, <2>1 DEF RefinementInv, SessionFits, FoundFits, Acceptable, Live,
                          Service!Live, Service!Merged
    <2> QED BY <1>1, <1>3, <2>1, <2>2, QuietFits
<1> QED BY <1>2, <1>3 DEF LockPass

LEMMA LockBuyerFits ==
    ASSUME RefinementInv, Enforced, NEW s \in Session, LockBuyer(s) PROVE SessionFits(s)'
<1>1. /\ pc[s] = "account" /\ Goto(s, "count") /\ UNCHANGED <<committed, view, draft, found>>
      /\ UNCHANGED locks \/ TakeLock(s, req[s].user)
    BY DEF LockBuyer
<1>2. pc'[s] = "count" /\ req' = req
    BY <1>1 DEF RefinementInv, PassInv, Tabular, Goto
<1>3. FoundFits(s)'
    BY <1>1, <1>2 DEF RefinementInv, SessionFits, FoundFits, Acceptable, Live, Service!Live,
                      Service!Merged
<1> QED BY <1>1, <1>2, <1>3, QuietFits

\* A serializable count sees the latest passes.
LEMMA CountPassesFits ==
    ASSUME RefinementInv, Enforced, NEW s \in Session, CountPasses(s) PROVE SessionFits(s)'
<1>1. pc[s] = "count"
    BY DEF CountPasses
<1>2. CASE Throw(s)
    BY <1>2, ThrowFits
<1>3. CASE ~Throw(s)
    <2>1. /\ Goto(s, "charge") /\ UNCHANGED <<committed, draft, locks, found>>
          /\ Service!Room(FoundBy(s), req[s])
        BY <1>3 DEF CountPasses
    <2>2. pc'[s] = "charge" /\ req' = req
        BY <2>1 DEF RefinementInv, PassInv, Tabular, Goto
    <2>3. FoundFits(s)'
        BY <2>1, <2>2 DEF RefinementInv, SessionFits, FoundFits, Acceptable, Live,
                          Service!Live, Service!Merged
    <2>4. \A r \in Row : FoundBy(s)[r] = committed[r]
        BY <1>1 DEF RefinementInv, SessionFits, AboutToCommit, AllClean, FoundBy, Stored
    <2>5. Service!CountedIn(FoundBy(s), req[s]) = Service!CountedIn(committed, req[s])
        BY <2>4, RowFacts DEF Service!CountedIn
    <2>6. Service!Room(committed, req[s])
        BY <2>1, <2>5 DEF Service!Room
    <2> QED BY <1>1, <2>1, <2>2, <2>3, <2>6, QuietFits
<1> QED BY <1>2, <1>3

\* What is written is computed from the row that is replaced, for the request it is of.
LEMMA WritePassFits ==
    ASSUME RefinementInv, Enforced, NEW s \in Session, WritePass(s) PROVE SessionFits(s)'
<1> DEFINE p == Changed(s)
           pass == Stored(s, p)
           new == Written(s, pass)
<1>1. pc[s] = "write"
    BY DEF WritePass
<1>2. CASE Throw(s)
    BY <1>2, ThrowFits
<1>3. CASE ~Throw(s)
    <2>1. /\ TakeLock(s, p) /\ Write(s, p, new) /\ Goto(s, "commit")
          /\ UNCHANGED <<committed, view, found>> /\ Updatable(req[s], pass)
        BY <1>3 DEF WritePass
    <2>2. AllClean(s)
        BY <1>1 DEF RefinementInv, SessionFits, AboutToCommit
    <2>3. /\ p \in PassId /\ Live(committed[p])
          /\ req[s].op = "consume" \/ req[s].op \in Administrative
          /\ req[s].op # "consume" => committed[p] = found[s].row /\ found[s] # Nothing
        <3>1. CASE req[s].op = "consume"
            <4>1. p = req[s].pass /\ p \in PassId
                BY <3>1, SessionRequest, RequestFacts DEF Changed, RefinementInv
            <4> QED BY <2>1, <2>2, <3>1, <4>1, RowFacts DEF AllClean, Stored, Updatable
        <3>2. CASE req[s].op # "consume"
            <4>1. p = found[s].pass /\ found[s] # Nothing /\ committed[p] = found[s].row
                BY <1>1, <3>2 DEF Changed, RefinementInv, PassInv, SessionInv, GuardHolds
            <4> QED BY <3>2, <4>1
                    DEF RefinementInv, PassInv, SessionInv, FoundSound, SessionFits, FoundFits
        <3> QED BY <3>1, <3>2
    <2>4. p \in Row /\ pass = committed[p] /\ pass \in SoundRow
        BY <2>2, <2>3, RowFacts
           DEF AllClean, Stored, Live, Service!Live, RefinementInv, PassInv, CommittedSound
    <2> HIDE DEF p, pass, new
    <2>5. pc'[s] = "commit" /\ req' = req /\ locks'[p] = s
        BY <2>1, <2>4 DEF RefinementInv, PassInv, Tabular, Goto, TakeLock
    <2>6. draft'[s][p] = new /\ \A r \in Row \ {p} : draft'[s][r] = Clean
        BY <2>1, <2>2, <2>4 DEF RefinementInv, PassInv, Tabular, Write, AllClean
    <2>7. Changed(s)' = p /\ new = Written(s, committed[Changed(s)])'
        <3>1. Changed(s)' = p
            BY <2>1, <2>5 DEF Changed, p
        <3>2. Written(s, committed[Changed(s)])' = Written(s, committed'[Changed(s)'])
            BY <2>1, <2>5 DEF Written
        <3> QED BY <2>1, <2>4, <3>1, <3>2 DEF new
    <2>8. PassChanged(s)'
        <3>1. committed'[p] = pass /\ req'[s] = req[s] /\ found'[s] = found[s]
            BY <2>1, <2>4, <2>5
        <3>2. Updatable(req[s], pass) /\ Live(pass)
            BY <2>1, <2>3, <2>4
        <3>3. Updatable(req'[s], committed'[p]) /\ Live(committed'[p])
            BY <3>1, <3>2
        <3>4. Live(committed[Changed(s)])' <=> Live(committed'[p])
            BY <2>7 DEF Live, Service!Live
        <3>5. Updatable(req[s], committed[Changed(s)])' <=> Updatable(req'[s], committed'[p])
            BY <2>7 DEF Updatable, Live, Service!Live
        <3> QED BY <2>3, <2>4, <2>5, <2>6, <2>7, <3>1, <3>3, <3>4, <3>5 DEF PassChanged, CleanBut
    <2>9. Changes(s)' /\ ~Grants(s)' /\ req'[s].op # "purchase"
        BY <2>1, <2>3, <2>5 DEF Changes, Grants, Administrative
    <2>10. AboutToCommit(s)'
        BY <2>5, <2>8, <2>9 DEF AboutToCommit
    <2>11. FoundFits(s)'
        BY <2>1, <2>5 DEF RefinementInv, SessionFits, FoundFits, Acceptable, Live,
                          Service!Live, Service!Merged
    <2>12. SourceLocked(s)'
        <3>1. ASSUME req[s].op \in Creating PROVE locks'[req[s].template] = s
            <4>1. locks[req[s].template] = s /\ Tabular
                BY <1>1, <3>1 DEF RefinementInv, SessionFits, SourceLocked, PassInv
            <4>2. req[s].template \in Row
                BY <3>1, SessionRequest, RequestFacts, RowFacts DEF Creating, RefinementInv
            <4> QED BY <2>1, <4>1, <4>2, OwnLocksKept
        <3> QED BY <2>5, <2>9, <3>1 DEF SourceLocked
    <2> QED BY <2>10, <2>11, <2>12 DEF SessionFits
<1> QED BY <1>2, <1>3

\* The price is taken from the account as it is, which is then locked.
LEMMA ChargeFits ==
    ASSUME RefinementInv, Enforced, NEW s \in Session, Charge(s) PROVE SessionFits(s)'
<1> DEFINE user == req[s].user
           price == Price[req[s].template]
           balance == Stored(s, user) - price
<1>1. pc[s] = "charge"
    BY DEF Charge
<1>2. req[s].op = "purchase" /\ AllClean(s) /\ Tabular
    BY <1>1 DEF RefinementInv, PassInv, SessionInv, GuardHolds, SessionFits, AboutToCommit
<1>3. user \in Row /\ req[s].template \in Row
    BY <1>2, SessionRequest, RequestFacts, RowFacts DEF RefinementInv
<1>4. CASE Throw(s)
    BY <1>4, ThrowFits
<1>5. ASSUME Goto(s, "commit"), UNCHANGED <<committed, found>>,
             UNCHANGED locks \/ TakeLock(s, user), PriceCharged(s)'
      PROVE  SessionFits(s)'
    <2>1. pc'[s] = "commit" /\ req' = req
        BY <1>5 DEF RefinementInv, PassInv, Tabular, Goto
    <2>2. FoundFits(s)'
        BY <1>5, <2>1 DEF RefinementInv, SessionFits, FoundFits, Acceptable, Live,
                          Service!Live, Service!Merged
    <2>3. locks'[req[s].template] = s /\ Service!Room(committed', req[s])
        <3>1. locks[req[s].template] = s /\ Service!Room(committed, req[s])
            BY <1>1, <1>2 DEF RefinementInv, SessionFits, SourceLocked, Creating
        <3>2. committed' = committed
            BY <1>5
        <3> QED BY <1>2, <1>3, <1>5, <3>1, <3>2, OwnLocksKept
    <2>4. SourceLocked(s)'
        BY <2>1, <2>3 DEF SourceLocked
    <2>5. ~Changes(s)' /\ ~Grants(s)'
        BY <1>2, <2>1 DEF Changes, Grants, Administrative
    <2>6. AboutToCommit(s)'
        BY <1>2, <1>5, <2>1, <2>5 DEF AboutToCommit
    <2> QED BY <2>2, <2>4, <2>6 DEF SessionFits
<1>6. CASE price = 0 /\ Goto(s, "commit") /\ UNCHANGED <<txVars, found>>
    <2>1. PriceCharged(s)'
        BY <1>2, <1>3, <1>6 DEF PriceCharged, CleanBut, AllClean, Goto, txVars
    <2> QED BY <1>5, <1>6, <2>1 DEF txVars
<1>7. CASE /\ price # 0 /\ FoundBy(s)[user] # NoRow /\ FoundBy(s)[user] >= price
           /\ TakeLock(s, user) /\ Write(s, user, balance)
           /\ Goto(s, "commit") /\ UNCHANGED <<committed, found>>
    <2>1. FoundBy(s)[user] = committed[user] /\ Stored(s, user) = committed[user]
        BY <1>2, <1>3 DEF FoundBy, Stored, AllClean
    <2>2. locks'[user] = s
        BY <1>2, <1>3, <1>7 DEF Tabular, TakeLock
    <2>3. draft'[s][user] = committed[user] - price /\ \A r \in Row \ {user} : draft'[s][r] = Clean
        BY <1>2, <1>3, <1>7, <2>1 DEF Tabular, Write, AllClean
    <2>4. req' = req
        BY <1>7 DEF Goto
    <2>5. PriceCharged(s)'
        BY <1>7, <2>1, <2>2, <2>3, <2>4 DEF PriceCharged, CleanBut
    <2> QED BY <1>5, <1>7, <2>5
<1> QED BY <1>4, <1>6, <1>7 DEF Charge

\* Accounts stay balances.
LEMMA AccountsKept ==
    ASSUME RefinementInv, NEW s \in Session, Step(s) PROVE AccountsTyped'
<1>1. CASE ~Commit(s)
    BY <1>1, OnlyCommitPublishes DEF RefinementInv, AccountsTyped
<1>2. CASE Commit(s)
    <2> SUFFICES ASSUME NEW u \in User PROVE committed'[u] \in Int \cup {NoRow}
        BY DEF AccountsTyped
    <2>0. PassInv /\ SessionFits(s) /\ pc[s] = "commit"
        BY <1>2 DEF RefinementInv, Commit
    <2>1. u \in Row /\ u \notin PassId /\ committed[u] \in Int \cup {NoRow}
        BY RowFacts DEF RefinementInv, AccountsTyped
    <2>2. u # s
        BY <2>1, RowFacts
    <2>3. committed'[u] = Stored(s, u)
        BY <1>2, <2>0, <2>1, <2>2, Published
    <2>4. CASE Changes(s)
        BY <1>2, <2>0, <2>1, <2>3, <2>4, Published DEF PassChanged
    <2>5. CASE Grants(s)
        BY <2>0, <2>1, <2>3, <2>5 DEF SessionFits, AboutToCommit, AllClean, Stored
    <2>6. CASE req[s].op = "purchase"
        <3>1. PriceCharged(s)
            BY <2>0, <2>6 DEF SessionFits, AboutToCommit
        <3>2. CASE u = req[s].user
            <4>1. req[s].user \in User /\ Price[req[s].template] \in Nat
                BY <2>0, <2>6, SessionRequest, RequestFacts, PassAssumption
            <4>2. Price[req[s].template] = 0 \/ draft[s][u] \in Int
                BY <2>1, <3>1, <3>2, <4>1 DEF PriceCharged
            <4> QED BY <2>1, <2>3, <3>1, <3>2, <4>2 DEF PriceCharged, Stored
        <3>3. CASE u # req[s].user
            BY <2>1, <2>3, <3>1, <3>3 DEF PriceCharged, CleanBut, Stored
        <3> QED BY <3>2, <3>3
    <2> QED BY <2>0, <2>4, <2>5, <2>6 DEF SessionFits, AboutToCommit
<1> QED BY <1>1, <1>2

LEMMA InitFits == ASSUME Enforced PROVE Init => RefinementInv
<1> SUFFICES ASSUME Init PROVE RefinementInv
    OBVIOUS
<1>1. PassInv
    BY InitPasses
<1>2. AccountsTyped
    BY PassAssumption DEF Init, TxInit, AccountsTyped
<1>3. ASSUME NEW s \in Session PROVE SessionFits(s)
    <2>1. req[s] \in Request /\ pc[s] = OpensWith(req[s]) /\ found[s] = Nothing
        BY DEF Init
    <2>2. /\ pc[s] \in {"write", "read", "template"}
          /\ pc[s] = "template" => req[s].op \in Creating
          /\ req[s].op \in Creating => pc[s] \in {"read", "template"}
        <3>1. CASE req[s].op = "consume"
            BY <2>1, <3>1 DEF OpensWith, Creating
        <3>2. CASE req[s].op \in {"update", "delete", "extend"}
            BY <2>1, <3>2 DEF OpensWith
        <3>3. CASE req[s].op \in {"assign", "purchase"}
            BY <2>1, <3>3 DEF OpensWith, Creating
        <3> QED BY <2>1, <3>1, <3>2, <3>3, RequestFacts
    <2>3. AllClean(s)
        BY DEF Init, TxInit, AllClean
    <2> QED BY <2>1, <2>2, <2>3 DEF SessionFits, FoundFits, SourceLocked, AboutToCommit
<1> QED BY <1>1, <1>2, <1>3 DEF RefinementInv

LEMMA NextFits == ASSUME RefinementInv, Enforced, [Next]_vars PROVE RefinementInv'
<1>1. PassInv'
    BY NextKeeps DEF RefinementInv
<1>2. CASE Next
    <2>1. PICK s \in Session : Step(s)
        BY <1>2 DEF Next, Step
    <2>2. SessionFits(s)'
        BY <2>1, ReadPassFits, FindLatestFits, LockTemplateFits, LockPassFits, WritePassFits,
           LockBuyerFits, CountPassesFits, ChargeFits, CommitFits, ThrowFits DEF Step, Abort
    <2>3. ASSUME NEW t \in Session PROVE SessionFits(t)'
        BY <2>1, <2>2, OthersFit DEF RefinementInv
    <2> QED BY <1>1, <2>1, <2>3, AccountsKept DEF RefinementInv
<1>3. CASE UNCHANGED vars
    <2>1. /\ committed' = committed /\ draft' = draft /\ locks' = locks
          /\ req' = req /\ pc' = pc /\ found' = found
        BY <1>3 DEF vars, txVars
    <2>2. AccountsTyped'
        BY <2>1 DEF RefinementInv, AccountsTyped
    <2>3. ASSUME NEW s \in Session PROVE SessionFits(s)'
        <3>1. FoundFits(s)'
            BY <2>1 DEF RefinementInv, SessionFits, FoundFits, Acceptable, Live,
                        Service!Live, Service!Merged
        <3>2. SourceLocked(s)'
            BY <2>1 DEF RefinementInv, SessionFits, SourceLocked
        <3>3. Written(s, committed[Changed(s)])' = Written(s, committed[Changed(s)])
              /\ Changed(s)' = Changed(s)
            BY <2>1 DEF Written, Changed
        <3>4. PassChanged(s) => PassChanged(s)'
            BY <2>1, <3>3 DEF PassChanged, CleanBut, Updatable, Live, Service!Live
        <3>5. PriceCharged(s) => PriceCharged(s)'
            BY <2>1 DEF PriceCharged, CleanBut
        <3>6. AboutToCommit(s)'
            BY <2>1, <3>4, <3>5 DEF RefinementInv, SessionFits, AboutToCommit, AllClean,
                                    Changes, Grants
        <3> QED BY <3>1, <3>2, <3>6 DEF SessionFits
    <2> QED BY <1>1, <2>2, <2>3 DEF RefinementInv
<1> QED BY <1>2, <1>3

-----------------------------------------------------------------------------
\* The refinement

\* A commit of a change is the step of the service.
LEMMA ChangeIsStep ==
    ASSUME RefinementInv, NEW s \in Session, Commit(s), Changes(s)
    PROVE  Service!Next
<1> DEFINE q == req[s]
           p == Changed(s)
           pass == committed[p]
<1>1. /\ PassInv /\ SessionFits(s) /\ q \in Request
    BY SessionRequest DEF RefinementInv
<1>2. /\ PassChanged(s) /\ Stored(s, p) = Written(s, pass)
      /\ \A r \in Row \ {p} : Stored(s, r) = committed[r]
      /\ ~Inserts(s) /\ committed' = [r \in Row |-> Stored(s, r)]
    BY <1>1, Published
<1>3. /\ p \in Row /\ pass \in SoundRow /\ Live(pass) /\ Updatable(q, pass)
      /\ q.op # "consume" => found[s] # Nothing /\ pass = found[s].row /\ p = found[s].pass
    BY <1>2, RowFacts DEF PassChanged, Changes, Changed
<1>4. DOMAIN committed = Row
    BY <1>1 DEF PassInv, Tabular
<1>5. committed' = [committed EXCEPT ![p] = Written(s, pass)]
    BY <1>2, <1>3, <1>4
<1>6. CASE q.op = "consume"
    <2>1. p = q.pass
        BY <1>6 DEF Changed
    <2>2. Written(s, pass) = [pass EXCEPT !.used = @ + q.quota, !.remaining = @ - q.quota]
        BY <1>6 DEF Written
    <2> HIDE DEF p
    <2>3. committed' = [committed EXCEPT ![p].used = @ + q.quota,
                                         ![p].remaining = @ - q.quota]
        BY <1>3, <1>4, <1>5, <2>2
    <2>4. Service!Consume(q)
        BY <1>3, <1>6, <2>1, <2>3 DEF Service!Consume, Updatable, Live
    <2> QED BY <1>1, <2>4 DEF Service!Next
<1>7. CASE q.op = "update"
    <2>1. p = q.pass /\ Acceptable(q, pass)
        BY <1>1, <1>3, <1>7 DEF SessionFits, FoundFits
    <2>2. Written(s, pass) = [pass EXCEPT !.total = Service!Merged(q.total, pass.total),
                                 !.remaining = Service!Merged(q.total, pass.total) - pass.used,
                                 !.status = Service!Merged(q.status, @)]
        BY <1>3, <1>7 DEF Written
    <2>3. Service!Update(q)
        BY <1>3, <1>5, <1>7, <2>1, <2>2 DEF Service!Update, Acceptable, Live
    <2> QED BY <1>1, <2>3 DEF Service!Next
<1>8. CASE q.op = "delete"
    <2>1. p = q.pass
        BY <1>1, <1>3, <1>8 DEF SessionFits, FoundFits
    <2>2. Written(s, pass) = [pass EXCEPT !.status = Service!Deleted]
        BY <1>8 DEF Written
    <2>3. Service!Delete(q)
        BY <1>3, <1>5, <1>8, <2>1, <2>2 DEF Service!Delete, Live
    <2> QED BY <1>1, <2>3 DEF Service!Next
<1>9. CASE q.op = "extend"
    <2>1. p \in Service!CountedIn(committed, q)
        BY <1>1, <1>2, <1>3, <1>9
           DEF SessionFits, FoundFits, Service!CountedIn, Live, PassChanged
    <2>2. Written(s, pass) = [pass EXCEPT !.total = @ + q.quota, !.remaining = @ + q.quota]
        BY <1>3, <1>9 DEF Written
    <2> HIDE DEF p
    <2>3. committed' = [committed EXCEPT ![p].total = @ + q.quota,
                                         ![p].remaining = @ + q.quota]
        BY <1>3, <1>4, <1>5, <2>2
    <2>4. Service!Extend(q)
        BY <1>9, <2>1, <2>3 DEF Service!Extend
    <2> QED BY <1>1, <2>4 DEF Service!Next
<1> QED BY <1>6, <1>7, <1>8, <1>9 DEF Changes, Administrative

\* So is one of a new pass: a purchase takes its price with it.
LEMMA GrantIsStep ==
    ASSUME RefinementInv, NEW s \in Session, Commit(s), ~Changes(s)
    PROVE  Service!Next
<1> DEFINE q == req[s]
           price == Price[q.template]
           new == Service!NewPass(q)
<1>1. /\ PassInv /\ SessionFits(s) /\ q \in Request /\ pc[s] = "commit"
    BY SessionRequest DEF RefinementInv, Commit
<1>2. /\ Inserts(s) /\ committed[s] = NoRow /\ s \in PassId
      /\ committed' = [r \in Row |-> IF r = s THEN new ELSE Stored(s, r)]
    BY <1>1, Published
<1>3. DOMAIN committed = Row /\ s \in Row
    BY <1>1, <1>2, RowFacts DEF PassInv, Tabular
<1> HIDE DEF new
<1>4. CASE Grants(s)
    <2>1. \A r \in Row : Stored(s, r) = committed[r]
        BY <1>1, <1>4 DEF SessionFits, AboutToCommit, AllClean, Stored
    <2>2. committed' = [committed EXCEPT ![s] = new]
        BY <1>2, <1>3, <2>1
    <2>3. Service!Assign(q)
        BY <1>2, <1>4, <2>2 DEF Service!Assign, Grants, new
    <2> QED BY <1>1, <2>3 DEF Service!Next
<1>5. CASE q.op = "purchase"
    <2>1. PriceCharged(s) /\ Service!Room(committed, q)
        BY <1>1, <1>5 DEF SessionFits, AboutToCommit, SourceLocked
    <2>2. q.user \in User /\ price \in Nat
        BY <1>1, <1>5, RequestFacts, PassAssumption
    <2>3. /\ q.user \in Row /\ q.user # s
          /\ committed[q.user] \in Int \cup {NoRow}
        BY <1>2, <2>2, RowFacts DEF RefinementInv, AccountsTyped
    <2> HIDE DEF price
    <2>4. \A r \in Row \ {q.user} : Stored(s, r) = committed[r]
        BY <2>1 DEF PriceCharged, CleanBut, Stored
    <2>5. Stored(s, q.user) = IF price > 0 THEN committed[q.user] - price ELSE committed[q.user]
        <3>1. CASE price = 0
            BY <2>1, <3>1 DEF PriceCharged, Stored, price
        <3>2. CASE price # 0
            <4>1. committed[q.user] \in Int /\ draft[s][q.user] = committed[q.user] - price
                BY <2>1, <2>3, <3>2 DEF PriceCharged, price
            <4>2. draft[s][q.user] # Clean
                BY <2>2, <4>1, PassAssumption
            <4> QED BY <2>2, <3>2, <4>1, <4>2 DEF Stored
        <3> QED BY <3>1, <3>2
    <2>6. committed' = [committed EXCEPT
                ![q.user] = IF price > 0 THEN @ - price ELSE @, ![s] = new]
        BY <1>2, <1>3, <2>3, <2>4, <2>5
    <2>7. price > 0 => committed[q.user] # NoRow /\ committed[q.user] >= price
        BY <2>1, <2>2 DEF PriceCharged, price
    <2>8. Service!Purchase(q)
        BY <1>2, <1>5, <2>1, <2>6, <2>7 DEF Service!Purchase, new, price
    <2> QED BY <1>1, <2>8 DEF Service!Next
<1> QED BY <1>1, <1>4, <1>5 DEF SessionFits, AboutToCommit

\* Under IAM enforcement every committed purchase, assignment, extension, edit, deletion
\* and use of a pass is one atomic step of the service: the price goes with the pass, no
\* write undoes another, and no deleted pass comes back.
THEOREM PassesImplementService == ASSUME Enforced PROVE Spec => ImplementsService
<1>1. Init => RefinementInv
    BY InitFits
<1>2. RefinementInv /\ [Next]_vars => RefinementInv'
    BY NextFits
<1>3. Init => Service!Init
    BY DEF Init, TxInit, Service!Init
<1>4. ASSUME RefinementInv, [Next]_vars PROVE [Service!Next]_committed
    <2>1. CASE UNCHANGED vars
        BY <2>1 DEF vars, txVars
    <2>2. CASE Next
        <3>1. PICK s \in Session : Step(s)
            BY <2>2 DEF Next, Step
        <3>2. CASE ~Commit(s)
            BY <3>1, <3>2, OnlyCommitPublishes
        <3>3. CASE Commit(s)
            BY <1>4, <3>3, ChangeIsStep, GrantIsStep
        <3> QED BY <3>2, <3>3
    <2> QED BY <1>4, <2>1, <2>2
<1> QED BY <1>1, <1>2, <1>3, <1>4, PTL DEF Spec, ImplementsService, Service!Spec

\* Under IAM enforcement a purchase leaves its user with no more passes of the template
\* than its limit allows, however many purchases and assignments run at the same time:
\* the count made under the lock of the template still holds as the purchase commits.
THEOREM LimitHolds == ASSUME Enforced PROVE Spec => WithinLimit
<1> DEFINE Bound ==
        \A s \in Session :
            /\ pc[s] = "commit" /\ pc'[s] = "done" /\ req[s].op = "purchase"
            /\ Limit[req[s].template] # NoLimit
            => Cardinality(Service!CountedIn(committed', req[s])) <= Limit[req[s].template]
<1>1. Init => RefinementInv
    BY InitFits
<1>2. RefinementInv /\ [Next]_vars => RefinementInv'
    BY NextFits
<1>3. ASSUME RefinementInv, Next PROVE Bound
    <2> SUFFICES ASSUME NEW t \in Session, pc[t] = "commit", pc'[t] = "done",
                        req[t].op = "purchase", Limit[req[t].template] # NoLimit
                 PROVE  Cardinality(Service!CountedIn(committed', req[t]))
                            <= Limit[req[t].template]
        OBVIOUS
    <2> DEFINE q == req[t]
               before == Service!CountedIn(committed, q)
               after == Service!CountedIn(committed', q)
    <2>1. PICK s \in Session : Step(s)
        BY <1>3 DEF Next, Step
    <2>2. s = t
        BY <1>3, <2>1, StepIsLocal DEF RefinementInv, PassInv
    <2>3. q.template \in Template /\ Limit[q.template] \in Nat
        BY <1>3, SessionRequest, RequestFacts, PassAssumption DEF RefinementInv
    <2>4. Service!Room(committed, q)
        BY <1>3 DEF RefinementInv, SessionFits, SourceLocked
    <2>5. after \subseteq before \cup {t}
        <3> SUFFICES ASSUME NEW p \in PassId, p # t, Live(committed'[p]),
                            committed'[p].user = q.user, committed'[p].template = q.template
                     PROVE  p \in before
            BY DEF Service!CountedIn, Live
        <3>1. committed[p] # NoRow
            BY <1>3, <2>1, <2>2, PassesKept DEF RefinementInv, Live, Service!Live
        <3> QED BY <1>3, <2>1, <3>1, PassesKept DEF RefinementInv, Service!CountedIn, Live
    <2>6. IsFiniteSet(before)
        <3>1. before \subseteq PassId
            BY DEF Service!CountedIn
        <3> QED BY <3>1, PassAssumption, FS_Subset
    <2>7. Cardinality(before) < Limit[q.template]
        BY <2>4, SameCardinality DEF Service!Room
    <2> HIDE DEF before, after
    <2>8. /\ IsFiniteSet(before \cup {t})
          /\ Cardinality(before) \in Nat
          /\ Cardinality(before \cup {t}) \in {Cardinality(before), Cardinality(before) + 1}
        BY <2>6, FS_AddElement, FS_CardinalityType
    <2>9. /\ Cardinality(after) \in Nat /\ Cardinality(before \cup {t}) \in Nat
          /\ Cardinality(after) <= Cardinality(before \cup {t})
        BY <2>5, <2>8, FS_Subset, FS_CardinalityType
    <2>10. Cardinality(after) <= Limit[q.template]
        BY <2>3, <2>7, <2>8, <2>9
    <2> QED BY <2>10 DEF after
<1>4. RefinementInv /\ [Next]_vars => [Bound]_vars
    BY <1>3
<1> HIDE DEF Bound
<1>5. Spec => [][Bound]_vars
    BY <1>1, <1>2, <1>4, PTL DEF Spec
<1> QED BY <1>5 DEF Bound, WithinLimit
=============================================================================
