----------------------------- MODULE AIResource -----------------------------
(***************************************************************************)
(* The admission of AI requests to one process: aiResourceGuard, the       *)
(* AIResourceService it asks for a lease, and withAIWork, which keeps the  *)
(* lease while the work of a request runs.                                 *)
(*                                                                         *)
(* Every callback runs to its end before the next one, so a callback is    *)
(* one step; the promise of a waiter is resolved in one callback and its   *)
(* continuation runs in a later one.  A lease has the name of the request  *)
(* it was made for.                                                        *)
(***************************************************************************)
EXTENDS Naturals, Sequences, SequencesExt, FiniteSets

CONSTANTS
    Request,       \* requests, and the background jobs that call tryAcquire
    Job,           \* those that are background jobs
    Ticket,        \* one-use capabilities; names the random strings
    NoLease,
    Limits,        \* the values maxActiveRequests may be set to
    MaxQueued      \* maxQueuedRequests

VARIABLES
    limit,       \* config.maxActiveRequests
    pressured,   \* RSS has passed the high watermark and not yet the resume one
    active,      \* leases given and not finished
    waiters,     \* the queue of acquire
    refs,        \* references of a lease; 0 before it is made and once it is released
    aborted,     \* the signal of a lease
    childActive, \* a hop of a lease is being served
    hops,        \* the lease of each ticket that is waiting to be consumed
    issued,      \* tickets made so far
    entered,     \* tickets with which a request has been admitted, and how often
    stage,       \* where the guard is with a request
    completed,   \* the cleanup of the guard has run
    lease,       \* the lease of a request: its own, or the one its hop names
    work,        \* withAIWork of a request
    phase        \* "serving", "stopped": stop() has been called, after the server was
                 \* closed, or "resumed": a late job has started the timer again

vars == <<limit, pressured, active, waiters, refs, aborted, childActive, hops, issued,
          entered, stage, completed, lease, work, phase>>
queue == <<limit, pressured, waiters, active>>
tickets == <<hops, issued, entered, childActive>>
guard == <<stage, completed, lease>>

ASSUME AIAssumption ==
    /\ Job \subseteq Request /\ NoLease \notin Request
    /\ IsFiniteSet(Request) /\ IsFiniteSet(Ticket)
    /\ Limits \subseteq Nat \ {0} /\ Limits # {} /\ MaxQueued \in Nat

Live(l) == refs[l] > 0
\* AIResourceLease.active
Usable(l) == Live(l) /\ ~aborted[l]
\* A request that was admitted by the ticket of another one's lease.
ByHop(r) == lease[r] # r

-----------------------------------------------------------------------------
\* The service

\* How many waiters drain admits.
Admissible(n, queued, high, most) ==
    IF high \/ n >= most THEN 0
    ELSE IF Len(queued) < most - n THEN Len(queued) ELSE most - n

\* Mutant: the youngest waiter is taken.
PopWaiter(queued, n) ==
    <<SubSeq(queued, Len(queued) - n + 1, Len(queued)), SubSeq(queued, 1, Len(queued) - n)>>
\* The n waiters drain takes, and those that stay.
ShiftWaiters(queued, n) == <<SubSeq(queued, 1, n), SubSeq(queued, n + 1, Len(queued))>>

\* drain, with the values its callback has set before: every waiter it takes has a
\* new lease, and its continuation is pending.
Drain(n, queued, held, st, high, most) ==
    LET k == Admissible(n, queued, high, most)
        parts == ShiftWaiters(queued, k)
        admitted == Range(parts[1])
    IN  /\ active' = n + k
        /\ waiters' = parts[2]
        /\ refs' = [l \in Request |-> IF l \in admitted THEN 1 ELSE held[l]]
        /\ stage' = [r \in Request |-> IF r \in admitted THEN "granted" ELSE st[r]]

\* Mutant: the slot is given back and nobody is called.
FinishSilently(l, st) ==
    /\ active' = active - 1 /\ refs' = [refs EXCEPT ![l] = 0] /\ stage' = st
    /\ UNCHANGED waiters
\* The last reference is gone: finish.
FinishLease(l, st) ==
    Drain(active - 1, waiters, [refs EXCEPT ![l] = 0], st, pressured, limit)

\* hops without the tickets of a lease
WithoutTickets(l) == [t \in Ticket |-> IF hops[t] = l THEN NoLease ELSE hops[t]]

\* AIResourceLease.release
ReleaseRef(l, st) ==
    IF refs[l] > 1
    THEN refs' = [refs EXCEPT ![l] = @ - 1] /\ stage' = st /\ UNCHANGED <<active, waiters, hops>>
    ELSE FinishLease(l, st) /\ hops' = WithoutTickets(l)

\* Only the release of a hop clears childActive.
ChildAfter(r) == IF ByHop(r) THEN [childActive EXCEPT ![lease[r]] = FALSE] ELSE childActive

\* The release function the guard holds: of the lease, or of a hop.
ReleaseGuard(r, st) == ReleaseRef(lease[r], st) /\ childActive' = ChildAfter(r)

\* tryAcquire succeeds
VacantAt(high) == ~high /\ active < limit /\ waiters = <<>>
Vacant == VacantAt(pressured)

\* pressured after a sample: RSS is at the high watermark, at the resume watermark, or
\* between them.
High(level) == level = "high" \/ (level = "between" /\ pressured)

\* Mutant: a ticket that is looked up and left where it is.
LeaveTicket(t) == hops
TakeTicket(t) == [hops EXCEPT ![t] = NoLease]

\* consumeHop for a ticket that is known and whose path and authorization match.
Consumable(t) == hops[t] # NoLease /\ Usable(hops[t]) /\ ~childActive[hops[t]]

-----------------------------------------------------------------------------
\* The guard

\* A request presents a ticket that is accepted; its promise is resolved already.
ArriveByHop(r, t) ==
    /\ stage[r] = "new" /\ r \notin Job /\ phase = "serving" /\ Consumable(t)
    /\ lease' = [lease EXCEPT ![r] = hops[t]]
    /\ hops' = TakeTicket(t)
    /\ entered' = [entered EXCEPT ![t] = @ + 1]
    /\ childActive' = [childActive EXCEPT ![hops[t]] = TRUE]
    /\ refs' = [refs EXCEPT ![hops[t]] = @ + 1]
    /\ stage' = [stage EXCEPT ![r] = "granted"]
    /\ UNCHANGED <<queue, aborted, issued, completed, work, phase>>

\* A request without a ticket, or with one that is not accepted, acquires a lease.
Arrive(r) ==
    /\ stage[r] = "new" /\ r \notin Job /\ phase = "serving"
    /\ IF Vacant
       THEN /\ active' = active + 1
            /\ refs' = [refs EXCEPT ![r] = 1]
            /\ stage' = [stage EXCEPT ![r] = "granted"]
            /\ UNCHANGED <<waiters, completed>>
       ELSE IF pressured \/ Len(waiters) >= MaxQueued
       THEN /\ stage' = [stage EXCEPT ![r] = "refused"]
            /\ completed' = [completed EXCEPT ![r] = TRUE]
            /\ UNCHANGED <<active, refs, waiters>>
       ELSE /\ waiters' = Append(waiters, r)
            /\ stage' = [stage EXCEPT ![r] = "waiting"]
            /\ UNCHANGED <<active, refs, completed>>
    /\ UNCHANGED <<limit, pressured, aborted, tickets, lease, work, phase>>

\* The continuation of the promise.
Continue(r) ==
    /\ stage[r] = "granted"
    /\ IF completed[r]
       THEN ReleaseGuard(r, [stage EXCEPT ![r] = "refused"])
       ELSE /\ stage' = [stage EXCEPT ![r] = "running"]
            /\ UNCHANGED <<active, waiters, refs, hops, childActive>>
    /\ UNCHANGED <<limit, pressured, aborted, issued, entered, completed, lease, work, phase>>

\* The rejected promise of a waiter.
LeaveQueue(r) ==
    /\ stage[r] = "waiting"
    /\ waiters' = RemoveFirst(waiters, r)
    /\ stage' = [stage EXCEPT ![r] = "refused"]
    /\ completed' = [completed EXCEPT ![r] = TRUE]

\* Mutant: the timer is never started when the process is short of memory.
CalmTimer(r) == ~pressured
\* The timer of a waiter runs whatever else happens.
MayExpire(r) == TRUE

\* queueTimeoutMs
Expire(r) ==
    /\ LeaveQueue(r) /\ MayExpire(r)
    /\ UNCHANGED <<limit, pressured, active, refs, aborted, tickets, lease, work, phase>>

\* The request is aborted, or its response closes before it has ended.
Abort(r) ==
    /\ ~completed[r] /\ r \notin Job
    /\ \/ /\ LeaveQueue(r)
          /\ UNCHANGED <<active, refs, aborted, hops, childActive>>
       \/ /\ stage[r] = "granted"
          /\ completed' = [completed EXCEPT ![r] = TRUE]
          /\ UNCHANGED <<active, waiters, refs, aborted, hops, childActive, stage>>
       \/ /\ stage[r] = "running"
          /\ completed' = [completed EXCEPT ![r] = TRUE]
          /\ aborted' = [aborted EXCEPT ![lease[r]] = TRUE]
          /\ ReleaseGuard(r, [stage EXCEPT ![r] = "over"])
    /\ UNCHANGED <<limit, pressured, issued, entered, lease, work, phase>>

\* The response finishes: cleanup.
Finish(r) ==
    /\ stage[r] = "running" /\ r \notin Job
    /\ completed' = [completed EXCEPT ![r] = TRUE]
    /\ ReleaseGuard(r, [stage EXCEPT ![r] = "over"])
    /\ UNCHANGED <<limit, pressured, aborted, issued, entered, lease, work, phase>>

-----------------------------------------------------------------------------
\* Work under a lease

\* Mutant: the work of a request counts on the guard's reference.
Borrowed(l) == refs
\* AIResourceLease.retain
Retained(l) == [refs EXCEPT ![l] = @ + 1]

\* withAIWork inherits the lease of the request; retain throws when it is not active.
BeginWork(r) ==
    /\ stage[r] \in {"running", "over"} /\ work[r] = "none"
    /\ IF Usable(lease[r])
       THEN refs' = Retained(lease[r]) /\ work' = [work EXCEPT ![r] = "working"]
       ELSE UNCHANGED refs /\ work' = [work EXCEPT ![r] = "over"]
    /\ UNCHANGED <<queue, aborted, tickets, guard, phase>>

\* The finally of withAIWork; the response may have closed long before.
EndWork(r) ==
    /\ work[r] = "working" /\ r \notin Job
    /\ work' = [work EXCEPT ![r] = "over"]
    /\ ReleaseRef(lease[r], stage)
    /\ UNCHANGED <<limit, pressured, aborted, issued, entered, childActive, completed, lease, phase>>

\* hopHeaders: the ticket replaces those made before for the lease.
IssueTicket(r, t) ==
    /\ work[r] = "working" /\ t \notin issued
    /\ Usable(lease[r]) /\ ~childActive[lease[r]]
    /\ hops' = [WithoutTickets(lease[r]) EXCEPT ![t] = lease[r]]
    /\ issued' = issued \cup {t}
    /\ UNCHANGED <<queue, refs, aborted, childActive, entered, guard, work, phase>>

TakeSlot(r) ==
    /\ active' = active + 1
    /\ refs' = [refs EXCEPT ![r] = 1]
    /\ stage' = [stage EXCEPT ![r] = "running"]
    /\ work' = [work EXCEPT ![r] = "working"]
    /\ UNCHANGED <<waiters, aborted, tickets, completed, lease>>

\* A probe run that finds a free slot, and its end.
StartJob(r) ==
    /\ r \in Job /\ stage[r] = "new" /\ phase # "stopped" /\ Vacant
    /\ TakeSlot(r)
    /\ UNCHANGED <<limit, pressured, phase>>

EndJob(r) ==
    /\ r \in Job /\ stage[r] = "running"
    /\ completed' = [completed EXCEPT ![r] = TRUE]
    /\ work' = [work EXCEPT ![r] = "over"]
    /\ ReleaseRef(r, [stage EXCEPT ![r] = "over"])
    /\ UNCHANGED <<limit, pressured, aborted, issued, entered, childActive, lease, phase>>

-----------------------------------------------------------------------------
\* The process

\* sample
Sampled(level, most) ==
    /\ pressured' = High(level)
    /\ Drain(active, waiters, refs, stage, High(level), most)
    /\ UNCHANGED <<aborted, tickets, completed, lease, work>>

\* The timer
Sample(level) == phase # "stopped" /\ Sampled(level, limit) /\ UNCHANGED <<limit, phase>>

\* The configuration changes; its listener restarts the timer, which samples at once.
Reconfigure(n, level) ==
    /\ limit # n /\ phase # "stopped"
    /\ limit' = n
    /\ Sampled(level, n)
    /\ UNCHANGED phase

\* The end of a probe run looks for the next one also after stop: tryAcquire finds no
\* timer, so it samples, and sets a timer going that nobody stops any more.
StartJobLate(r, level) ==
    /\ r \in Job /\ stage[r] = "new" /\ phase = "stopped"
    /\ phase' = "resumed"
    /\ IF VacantAt(High(level)) THEN pressured' = FALSE /\ TakeSlot(r)
                               ELSE Sampled(level, limit)
    /\ UNCHANGED limit

\* stop, once the server has closed its connections
Stop ==
    /\ phase = "serving"
    /\ phase' = "stopped"
    /\ waiters' = <<>>
    /\ stage' = [r \in Request |-> IF stage[r] = "waiting" THEN "refused" ELSE stage[r]]
    /\ completed' = [r \in Request |-> completed[r] \/ stage[r] = "waiting"]
    /\ hops' = [t \in Ticket |-> NoLease]
    /\ UNCHANGED <<limit, pressured, active, refs, aborted, issued, entered, childActive, lease, work>>

-----------------------------------------------------------------------------

Init ==
    /\ limit \in Limits /\ pressured \in BOOLEAN
    /\ active = 0 /\ waiters = <<>>
    /\ refs = [l \in Request |-> 0]
    /\ aborted = [l \in Request |-> FALSE]
    /\ childActive = [l \in Request |-> FALSE]
    /\ hops = [t \in Ticket |-> NoLease]
    /\ issued = {} /\ entered = [t \in Ticket |-> 0]
    /\ stage = [r \in Request |-> "new"]
    /\ completed = [r \in Request |-> FALSE]
    /\ lease = [r \in Request |-> r]
    /\ work = [r \in Request |-> "none"]
    /\ phase = "serving"

Admit(r) == Arrive(r) \/ StartJob(r) \/ \E t \in Ticket : ArriveByHop(r, t)
Proceed(r) ==
    \/ Continue(r) \/ Expire(r) \/ Finish(r)
    \/ EndWork(r) \/ EndJob(r)

Next ==
    \/ \E r \in Request :
         \/ Admit(r) \/ Proceed(r) \/ Abort(r) \/ BeginWork(r)
         \/ \E t \in Ticket : IssueTicket(r, t)
    \/ \E level \in {"high", "between", "resume"} :
         \/ Sample(level)
         \/ \E n \in Limits : Reconfigure(n, level)
         \/ \E r \in Job : StartJobLate(r, level)
    \/ Stop

Spec == Init /\ [][Next]_vars

\* Resolved promises continue, timers fire, and work and responses come to an end.
FairSpec == Spec /\ \A r \in Request : WF_vars(Proceed(r))

-----------------------------------------------------------------------------
\* Properties

\* The guards and the work that hold a reference of a lease.
HeldByGuard(l) == {r \in Request : lease[r] = l /\ stage[r] \in {"granted", "running"}}
HeldByWork(l) == {r \in Request \ Job : lease[r] = l /\ work[r] = "working"}

\* No slot leaks and none is given back early: the slots in use are the leases that
\* are alive, and a lease lives exactly as long as a guard, a hop or a piece of work
\* uses it, whichever of them ends last and however the request ends.
SlotsAreHeld ==
    /\ active = Cardinality({l \in Request : Live(l)})
    /\ \A l \in Request :
         refs[l] = Cardinality(HeldByGuard(l)) + Cardinality(HeldByWork(l))

\* No waiter is forgotten while there is room: every way a slot or the memory
\* becomes free, drain is called.
NoIdleSlot == waiters # <<>> => pressured \/ active >= limit

\* A ticket opens its lease to one request and is gone when the lease is; at most one
\* hop of a lease is served at a time, and childActive says whether.
HopsAreOwned ==
    /\ \A t \in Ticket : /\ entered[t] <= 1 /\ (entered[t] = 1 => hops[t] = NoLease)
                         /\ hops[t] # NoLease => Live(hops[t])
    /\ \A l \in Request :
         LET children == {r \in HeldByGuard(l) : ByHop(r)}
         IN  Cardinality(children) = IF childActive[l] THEN 1 ELSE 0

Place(queued, r) == SelectInSeq(queued, LAMBDA w : w = r)

\* Waiters are admitted in the order in which they came, never past the limit or
\* under memory pressure, and nobody overtakes them.
AdmissionInOrder ==
    [][\A l \in Request :
        ~Live(l) /\ refs'[l] > 0 =>
            /\ active' <= limit' /\ ~pressured'
            /\ \A w \in Range(waiters') :
                 /\ l \in Range(waiters)
                 /\ Place(waiters, l) < Place(waiters, w)]_vars

\* Every request is over in the end: admitted, refused, timed out or aborted, no
\* waiter and no slot holder stays for ever.
RequestsEnd == \A r \in Request : (stage[r] # "new") ~> (stage[r] \in {"over", "refused"} /\ work[r] # "working")
=============================================================================
