-------------------------- MODULE RelayConcurrency ---------------------------
(***************************************************************************)
(* The upstream slots of one concurrency pool: RelayConcurrencyService and *)
(* the Redis scripts it runs.  A client is one relayed request; its name   *)
(* is also its owner token.  Every script is atomic, but its reply may be  *)
(* lost, or the command may never reach Redis; both look the same to the   *)
(* client, which sees null.  A command is never replayed.                  *)
(*                                                                         *)
(* Keys with a TTL disappear by Expire actions: a heartbeat renews a slot  *)
(* in use and a waiter's TTL is longer than its queue timeout, so a key of *)
(* a client at work only expires once the client has gone silent (crashed, *)
(* stalled or cut off from Redis).                                         *)
(***************************************************************************)
EXTENDS Integers, FiniteSets

CONSTANTS
    Client,     \* the relayed requests
    Direct,     \* those made while enableQueue is off
    Slot,       \* the slot keys 1..maxConcurrency
    Empty       \* the key does not exist

ASSUME PoolAssumption == Direct \subseteq Client /\ Empty \notin Client \cup Slot

VARIABLES
    slot,       \* the owner token under every slot key
    waiter,     \* the owner token under every waiter key, by ticket
    tail,       \* the last ticket handed out
    serving,    \* the ticket at the head of the queue
    pc,         \* where every client is in acquire; "over" once it has thrown,
                \* released or crashed
    ticket,     \* the queue ticket of every client
    lease,      \* the slot key every client was given
    silent      \* clients whose keys are no longer renewed in time

redisVars == <<slot, waiter, tail, serving>>
vars == <<redisVars, pc, ticket, lease, silent>>

Step == {"start", "queued", "holding", "undo", "cancel", "finally", "over"}

-----------------------------------------------------------------------------
\* The scripts

Goto(c, step) == pc' = [pc EXCEPT ![c] = step]

\* Mutants: SET without NX; a head that is never moved on; a head moved past the next
\* waiter.
AnySlot(i) == TRUE
Stuck(next, from, queue) == next = from
SkipsOne(next, from, queue) == next = from + 1

\* SET NX succeeds on the key of slot i.
Acquirable(i) == slot[i] = Empty

\* deleteIfValueMatches deletes the key of slot i for client c.
Owns(c, i) == slot[i] = c

\* The loop of the scripts: from is moved on to the first ticket with a waiter
\* key, or past the tail.
FirstWaiting(next, from, queue) ==
    /\ next \in from..(tail + 1)
    /\ next \in queue \/ next = tail + 1
    /\ \A t \in queue : t >= from => t >= next

\* INCR of the tail.
NextTicket == tail + 1

Serve(from, queue) ==
    \E next \in from..(tail + 1) : FirstWaiting(next, from, queue) /\ serving' = next

Without(t) == [u \in DOMAIN waiter \ {t} |-> waiter[u]]

\* Mutant: any ticket the head has not gone past is served.
NotPassed(c) == ticket[c] >= serving

\* The ticket of the client is the first one with a waiter key.
AtHead(c) == ticket[c] <= tail /\ FirstWaiting(ticket[c], serving, DOMAIN waiter)

\* What a client does when it sees null.
AfterNull(c) ==
    CASE pc[c] = "start" -> "over"
      [] pc[c] = "queued" -> "cancel"
      [] pc[c] = "cancel" -> "finally"
      [] pc[c] = "finally" -> "over"
      [] pc[c] = "undo" -> IF c \in Direct THEN "over" ELSE "finally"
      [] pc[c] = "holding" -> "over"

\* The client goes on with its answer, or with none.
Answered(c, step) == Goto(c, step) \/ Goto(c, AfterNull(c))

-----------------------------------------------------------------------------
\* acquire, release

\* enableQueue off: any free slot, at once or not at all.  The signal may have
\* been aborted meanwhile ("undo").
AcquireDirect(c) ==
    /\ pc[c] = "start" /\ c \in Direct
    /\ \/ \E i \in Slot :
            /\ Acquirable(i)
            /\ slot' = [slot EXCEPT ![i] = c]
            /\ lease' = [lease EXCEPT ![c] = i]
            /\ Answered(c, "holding") \/ Goto(c, "undo")
       \/ /\ \A i \in Slot : ~Acquirable(i)
          /\ Goto(c, "over")
          /\ UNCHANGED <<slot, lease>>
    /\ UNCHANGED <<waiter, tail, serving, ticket, silent>>

\* reserveSemaphoreQueueTicket
Reserve(c) ==
    /\ pc[c] = "start" /\ c \notin Direct
    /\ tail' = tail + 1
    /\ waiter' = [t \in DOMAIN waiter \cup {NextTicket} |->
                    IF t = NextTicket THEN c ELSE waiter[t]]
    /\ ticket' = [ticket EXCEPT ![c] = NextTicket]
    /\ Answered(c, "queued")
    /\ UNCHANGED <<slot, serving, lease, silent>>

\* tryAcquireQueuedSemaphoreSlot, at the head of the queue with a slot free.
TryAdmitted(c) ==
    /\ pc[c] = "queued" /\ AtHead(c)
    /\ \E i \in Slot :
         /\ Acquirable(i)
         /\ slot' = [slot EXCEPT ![i] = c]
         /\ lease' = [lease EXCEPT ![c] = i]
    /\ waiter' = Without(ticket[c])
    /\ Serve(ticket[c] + 1, DOMAIN waiter')
    /\ Answered(c, "holding") \/ Goto(c, "undo")
    /\ UNCHANGED <<tail, ticket, silent>>

\* The script answers WAIT: behind the head, or every slot taken.
TryWait(c) ==
    /\ pc[c] = "queued"
    /\ Serve(serving, DOMAIN waiter)
    /\ ticket[c] >= serving'
    /\ ticket[c] = serving' => \A i \in Slot : ~Acquirable(i)
    /\ Answered(c, "queued")
    /\ UNCHANGED <<slot, waiter, tail, ticket, lease, silent>>

\* The script answers STALE: the queue has gone past the ticket.
TryStale(c) ==
    /\ pc[c] = "queued"
    /\ Serve(serving, DOMAIN waiter)
    /\ ticket[c] < serving'
    /\ Goto(c, "cancel")
    /\ UNCHANGED <<slot, waiter, tail, ticket, lease, silent>>

\* The deadline passes, or the signal is aborted.
GiveUp(c) ==
    /\ pc[c] = "queued"
    /\ Goto(c, "cancel") \/ Goto(c, "finally")
    /\ UNCHANGED <<redisVars, ticket, lease, silent>>

\* cancelSemaphoreQueueTicket, before the throw and again in finally.
Cancel(c) ==
    /\ pc[c] \in {"cancel", "finally"}
    /\ waiter' = IF ticket[c] \in DOMAIN waiter /\ waiter[ticket[c]] = c
                 THEN Without(ticket[c]) ELSE waiter
    /\ Serve(serving, DOMAIN waiter')
    /\ Goto(c, AfterNull(c))
    /\ UNCHANGED <<slot, tail, ticket, lease, silent>>

\* deleteIfValueMatches, for release and for a slot acquired after an abort.
GiveBack(c) ==
    /\ pc[c] \in {"holding", "undo"}
    /\ slot' = IF Owns(c, lease[c]) THEN [slot EXCEPT ![lease[c]] = Empty] ELSE slot
    /\ Goto(c, AfterNull(c))
    /\ UNCHANGED <<waiter, tail, serving, ticket, lease, silent>>

-----------------------------------------------------------------------------
\* Faults

\* A command that does not reach Redis: the circuit is open, or the call failed.
Unreachable(c) ==
    /\ pc[c] # "over"
    /\ Goto(c, AfterNull(c))
    /\ UNCHANGED <<redisVars, ticket, lease, silent>>

\* The process stalls, or its renewals fail for a whole TTL; it may go on later.
FallSilent(c) ==
    /\ pc[c] \in {"queued", "holding"} /\ c \notin silent
    /\ silent' = silent \cup {c}
    /\ UNCHANGED <<redisVars, pc, ticket, lease>>

Crash(c) ==
    /\ pc[c] # "over"
    /\ Goto(c, "over")
    /\ UNCHANGED <<redisVars, ticket, lease, silent>>

\* The TTL of a slot key: not while the client it was given to renews it.
ExpireSlot(i) ==
    /\ slot[i] # Empty
    /\ LET c == slot[i] IN ~(pc[c] = "holding" /\ lease[c] = i /\ c \notin silent)
    /\ slot' = [slot EXCEPT ![i] = Empty]
    /\ UNCHANGED <<waiter, tail, serving, pc, ticket, lease, silent>>

\* The TTL of a waiter key: not while the client polls within its deadline.
ExpireWaiter(t) ==
    /\ LET c == waiter[t] IN ~(pc[c] = "queued" /\ c \notin silent)
    /\ waiter' = Without(t)
    /\ UNCHANGED <<slot, tail, serving, pc, ticket, lease, silent>>

-----------------------------------------------------------------------------

Init ==
    /\ slot = [i \in Slot |-> Empty]
    /\ waiter = <<>>
    /\ tail = 0 /\ serving = 1
    /\ pc = [c \in Client |-> "start"]
    /\ ticket = [c \in Client |-> 0]
    /\ lease = [c \in Client |-> Empty]
    /\ silent = {}

Acquire(c) == AcquireDirect(c) \/ Reserve(c) \/ TryAdmitted(c) \/ TryWait(c) \/ TryStale(c)

Next ==
    \/ \E c \in Client :
        \/ Acquire(c) \/ Cancel(c) \/ GiveBack(c) \/ GiveUp(c)
        \/ Unreachable(c) \/ FallSilent(c) \/ Crash(c)
    \/ \E i \in Slot : ExpireSlot(i)
    \/ \E t \in DOMAIN waiter : ExpireWaiter(t)

Spec == Init /\ [][Next]_vars

\* A client that polls gets its answer, a request in progress ends, and a TTL runs
\* out.  Nothing makes a client give up, crash or lose a reply.
FairSpec ==
    /\ Spec
    /\ \A c \in Client : WF_vars(TryAdmitted(c) \/ TryStale(c)) /\ WF_vars(GiveBack(c))
    /\ \A i \in Slot : WF_vars(ExpireSlot(i))
    /\ \A t \in 1..Cardinality(Client) : WF_vars(t \in DOMAIN waiter /\ ExpireWaiter(t))

-----------------------------------------------------------------------------
\* Properties

\* Every variable has its type; a ticket is held by at most one waiter key.
TypeOK ==
    /\ slot \in [Slot -> Client \cup {Empty}]
    /\ tail \in Nat /\ serving \in 1..(tail + 1)
    /\ DOMAIN waiter \subseteq 1..tail
    /\ waiter \in [DOMAIN waiter -> Client]
    /\ pc \in [Client -> Step]
    /\ ticket \in [Client -> 0..tail]
    /\ lease \in [Client -> Slot \cup {Empty}]
    /\ silent \subseteq Client

\* maxConcurrency bounds the requests in progress: a request whose lease is renewed
\* in time owns the slot key it was given, and no other script takes it away, not
\* even the late release of a request whose own lease has lapsed.
HoldersKeepSlots ==
    \A c \in Client : pc[c] = "holding" /\ c \notin silent => slot[lease[c]] = c

\* A client that polls in time never loses its place: its waiter key is there and
\* the queue has not gone past it, whoever cancels, times out or crashes around it.
WaitersKeepTheirPlace ==
    \A c \in Client : pc[c] = "queued" /\ c \notin silent =>
        ticket[c] \in DOMAIN waiter /\ serving <= ticket[c]

\* First come, first served: a client is admitted from the queue only if no client
\* with an earlier ticket still waits.
AdmittedInOrder ==
    [][\A c, d \in Client :
        /\ pc[c] = "queued" /\ pc'[c] = "holding"
        /\ pc[d] = "queued" /\ d \notin silent
        => ticket[c] <= ticket[d]]_vars

\* Every client in the queue leaves it, even if it would wait for ever: tickets and
\* slots left behind by crashed clients and lost replies do not block it for good.
WaitersLeave == \A c \in Client : pc[c] = "queued" ~> pc[c] # "queued"

-----------------------------------------------------------------------------
\* The inductive invariant of the proofs.

\* No waiter key is left behind by the head of the queue.
QueueAhead == \A t \in DOMAIN waiter : serving <= t

\* No ticket is given twice, and the waiter key of a ticket names its client.
TicketsOwned ==
    /\ \A c, d \in Client : ticket[c] # 0 /\ ticket[c] = ticket[d] => c = d
    /\ \A t \in DOMAIN waiter : ticket[waiter[t]] = t
    /\ \A c \in Client : pc[c] = "start" => ticket[c] = 0
    /\ \A c \in Client : pc[c] = "queued" => ticket[c] # 0

\* A slot key in use carries the token of the client that was given it.
LeasesGiven == \A c \in Client : pc[c] \in {"holding", "undo"} => lease[c] \in Slot

ConcurrencyInv ==
    /\ TypeOK /\ QueueAhead /\ TicketsOwned /\ LeasesGiven
    /\ HoldersKeepSlots /\ WaitersKeepTheirPlace
=============================================================================
