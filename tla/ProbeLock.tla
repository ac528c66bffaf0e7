------------------------------ MODULE ProbeLock ------------------------------
(***************************************************************************)
(* The read-write lock of one upstream channel and its Redis scripts       *)
(* (RelayChannelProbeLockService).  User traffic reads, a calibration      *)
(* probe writes.  Every script is atomic, but a command may fail to reach  *)
(* Redis or its reply may be lost; the client sees null either way.        *)
(*                                                                         *)
(* A client takes the lock again and again, each time with a new owner     *)
(* token.  Its name stands for its present token, so it starts over only   *)
(* when Redis holds nothing of the last one.                               *)
(*                                                                         *)
(* Leases of 90 s are renewed every 30 s: the lease of a client at work    *)
(* ends only if the client has gone silent (stalled, or cut off from       *)
(* Redis).  The exception is the readers key as a whole.  Its own TTL is   *)
(* set when a reader is admitted and not by renewals, so it runs out under *)
(* an upstream call that outlasts it.                                      *)
(***************************************************************************)
EXTENDS Sequences, SequencesExt

CONSTANTS
    Reader,     \* user requests to the channel
    Writer,     \* its probes
    Long,       \* readers whose upstream call may outlast the readers key
    None        \* the key does not exist

ASSUME LockAssumption ==
    Reader \cap Writer = {} /\ Long \subseteq Reader /\ None \notin Reader \cup Writer

VARIABLES
    readers,    \* the members of the readers key
    volatile,   \* the readers key has a TTL
    queue,      \* the members of the writers key, by sequence number
    registered, \* writers whose writer-expiry key exists
    active,     \* the owner under the active writer key
    pc,         \* where every client is
    refreshing, \* readers between the ZSCORE and the ZADD of a renewal
    silent      \* clients whose keys are no longer renewed in time

redisVars == <<readers, volatile, queue, registered, active>>
vars == <<redisVars, pc, refreshing, silent>>

Client == Reader \cup Writer
ReaderStep == {"start", "reading", "unlocked", "over"}
WriterStep == {"start", "queued", "writing", "leaving", "over"}

-----------------------------------------------------------------------------
\* The scripts

Goto(c, step) == pc' = [pc EXCEPT ![c] = step]

\* Mutants: readers that do not wait for queued probes; a probe that does not
\* wait for readers; a release that compares no owner.
BehindActive(q) == active = None
IgnoresReaders == active = None
AnyOwner(w) == TRUE

\* ZREMRANGEBYSCORE '-inf' now, of the reservation: the scores of this key are
\* sequence numbers, far below the time in milliseconds, so nothing is kept.
Kept(q) == <<>>

\* The read script drops every writer without an expiry key.
Registered(q) == SelectSeq(q, LAMBDA w : w \in registered)

\* The write script drops them from the head only.
HeadRegistered(q) ==
    LET first == SelectInSeq(q, LAMBDA w : w \in registered)
    IN  IF first = 0 THEN <<>> ELSE SubSeq(q, first, Len(q))

ReadOpen(q) == active = None /\ q = <<>>
WriteOpen == active = None /\ readers = {}
OwnsWrite(w) == active = w

\* What a client does when it sees null: user traffic goes on without the lock,
\* a probe does not.
AfterNull(c) ==
    CASE c \in Reader /\ pc[c] = "start" -> "unlocked"
      [] pc[c] = "queued" -> "leaving"
      [] OTHER -> "over"

Answered(c, step) == Goto(c, step) \/ Goto(c, AfterNull(c))

-----------------------------------------------------------------------------
\* withRead

\* tryAcquireFairReadLock
TryRead(r) ==
    /\ pc[r] = "start"
    /\ queue' = Registered(queue)
    /\ \/ /\ ReadOpen(queue')
          /\ readers' = readers \cup {r} /\ volatile' = TRUE
          /\ Answered(r, "reading")
       \/ /\ ~ReadOpen(queue')
          /\ Answered(r, "start")
          /\ UNCHANGED <<readers, volatile>>
    /\ UNCHANGED <<registered, active, refreshing, silent>>

\* extendFairReadLock, first half: ZSCORE.
CheckLease(r) ==
    /\ pc[r] = "reading" /\ r \in readers \ refreshing
    /\ refreshing' = refreshing \cup {r}
    /\ UNCHANGED <<redisVars, pc, silent>>

\* Second half: ZADD, which may come after the release, or get lost.
ExtendLease(r) ==
    /\ r \in refreshing
    /\ refreshing' = refreshing \ {r}
    /\ \/ readers' = readers \cup {r} /\ UNCHANGED volatile
       \/ UNCHANGED <<readers, volatile>>
    /\ UNCHANGED <<queue, registered, active, pc, silent>>

\* ZREM; the key goes with its last member.
RemoveReader(r) ==
    /\ readers' = readers \ {r}
    /\ volatile' = (volatile /\ readers' # {})

\* The upstream call ends: releaseFairReadLock, or nothing to release.
EndRead(r) ==
    /\ \/ pc[r] = "reading" /\ RemoveReader(r)
       \/ pc[r] = "unlocked" /\ UNCHANGED <<readers, volatile>>
    /\ Goto(r, "over")
    /\ UNCHANGED <<queue, registered, active, refreshing, silent>>

-----------------------------------------------------------------------------
\* withWrite, withQueueWrite

\* reserveFairWriteLock.  A lost reply leaves the reservation behind.
Reserve(w) ==
    /\ pc[w] = "start" /\ w \in Writer
    /\ queue' = Append(Kept(queue), w)
    /\ registered' = registered \cup {w}
    /\ Answered(w, "queued")
    /\ UNCHANGED <<readers, volatile, active, refreshing, silent>>

\* The outcomes of tryAcquireFairWriteLock.
WriteAcquired(w) ==
    LET q == HeadRegistered(queue) IN
    /\ pc[w] = "queued"
    /\ q # <<>> /\ Head(q) = w /\ WriteOpen
    /\ queue' = Tail(q)
    /\ active' = w
    /\ Answered(w, "writing")
    /\ UNCHANGED <<readers, volatile, registered, refreshing, silent>>

WriteStale(w) ==
    /\ pc[w] = "queued"
    /\ queue' = HeadRegistered(queue)
    /\ w \notin ToSet(queue')
    /\ Goto(w, "leaving")
    /\ UNCHANGED <<readers, volatile, registered, active, refreshing, silent>>

WriteWait(w) ==
    /\ pc[w] = "queued"
    /\ queue' = HeadRegistered(queue)
    /\ w \in ToSet(queue') /\ ~(Head(queue') = w /\ WriteOpen)
    /\ Answered(w, "queued")
    /\ UNCHANGED <<readers, volatile, registered, active, refreshing, silent>>

\* releaseFairWriteLock, after the probe and after a wait that failed.
EndWrite(w) ==
    /\ pc[w] \in {"writing", "leaving"}
    /\ active' = IF OwnsWrite(w) THEN None ELSE active
    /\ queue' = SelectSeq(queue, LAMBDA v : v # w)
    /\ registered' = registered \ {w}
    /\ Goto(w, "over")
    /\ UNCHANGED <<readers, volatile, refreshing, silent>>

-----------------------------------------------------------------------------
\* The deadline of acquire; the next request

GiveUp(c) ==
    /\ \/ c \in Reader /\ pc[c] = "start" /\ Goto(c, "over")
       \/ pc[c] = "queued" /\ Goto(c, "leaving")
    /\ UNCHANGED <<redisVars, refreshing, silent>>

Again(c) ==
    /\ pc[c] = "over"
    /\ c \notin readers \cup refreshing \cup registered \cup ToSet(queue) \cup {active}
    /\ Goto(c, "start")
    /\ silent' = silent \ {c}
    /\ UNCHANGED <<redisVars, refreshing>>

-----------------------------------------------------------------------------
\* Faults

\* A command that does not reach Redis.
Unreachable(c) ==
    /\ pc[c] \notin {"over", "unlocked"}
    /\ Goto(c, AfterNull(c))
    /\ UNCHANGED <<redisVars, refreshing, silent>>

\* The process stalls, or its renewals fail for a whole TTL; it may go on later.
FallSilent(c) ==
    /\ pc[c] \in {"reading", "queued", "writing"} /\ c \notin silent
    /\ silent' = silent \cup {c}
    /\ UNCHANGED <<redisVars, pc, refreshing>>

Crash(c) ==
    /\ pc[c] # "over"
    /\ Goto(c, "over")
    /\ UNCHANGED <<redisVars, refreshing, silent>>

\* The score of a reader passes.
ExpireReader(r) ==
    /\ r \in readers /\ ~(pc[r] = "reading" /\ r \notin silent)
    /\ RemoveReader(r)
    /\ UNCHANGED <<queue, registered, active, pc, refreshing, silent>>

\* The TTL of the readers key, 1 s longer than the score of the last reader that
\* was admitted: every reader still at work has outlasted it.
ExpireReaders ==
    /\ volatile
    /\ \A r \in readers \ silent : pc[r] = "reading" => r \in Long
    /\ readers' = {} /\ volatile' = FALSE
    /\ UNCHANGED <<queue, registered, active, pc, refreshing, silent>>

\* The TTL of a writer-expiry key, which outlives the deadline of its writer; the
\* queue key has the TTL of the last reservation.
ExpireRegistration(w) ==
    /\ w \in registered /\ ~(pc[w] = "queued" /\ w \notin silent)
    /\ registered' = registered \ {w}
    /\ queue' = IF queue # <<>> /\ Last(queue) = w THEN <<>> ELSE queue
    /\ UNCHANGED <<readers, volatile, active, pc, refreshing, silent>>

\* The TTL of the active writer key.
ExpireActive ==
    /\ active # None /\ ~(pc[active] = "writing" /\ active \notin silent)
    /\ active' = None
    /\ UNCHANGED <<readers, volatile, queue, registered, pc, refreshing, silent>>

-----------------------------------------------------------------------------

Init ==
    /\ readers = {} /\ volatile = FALSE
    /\ queue = <<>> /\ registered = {} /\ active = None
    /\ pc = [c \in Client |-> "start"]
    /\ refreshing = {} /\ silent = {}

Read(r) == TryRead(r) \/ CheckLease(r) \/ ExtendLease(r) \/ EndRead(r)

Write(w) ==
    Reserve(w) \/ WriteAcquired(w) \/ WriteStale(w) \/ WriteWait(w) \/ EndWrite(w)

Next ==
    \/ \E r \in Reader : Read(r) \/ ExpireReader(r)
    \/ \E w \in Writer : Write(w) \/ ExpireRegistration(w)
    \/ \E c \in Client : GiveUp(c) \/ Again(c) \/ Unreachable(c) \/ FallSilent(c) \/ Crash(c)
    \/ ExpireReaders
    \/ ExpireActive

Spec == Init /\ [][Next]_vars

\* A writer that polls gets its answer, a call and a probe end, a renewal ends and a
\* lease runs out.  Nothing makes a client give up, crash or lose a reply.
FairSpec ==
    /\ Spec
    /\ \A w \in Writer :
        /\ WF_vars(WriteAcquired(w) \/ WriteStale(w)) /\ WF_vars(EndWrite(w))
        /\ WF_vars(ExpireRegistration(w))
    /\ \A r \in Reader :
        WF_vars(EndRead(r)) /\ WF_vars(ExtendLease(r)) /\ WF_vars(ExpireReader(r))
    /\ WF_vars(ExpireActive)

-----------------------------------------------------------------------------
\* Properties

Writing(w) == pc[w] = "writing" /\ w \notin silent
Reading(r) == pc[r] = "reading" /\ r \notin silent

\* Every variable has its type but for the queue, a sequence of writers; only user
\* traffic runs without the lock.
LeaseTypes ==
    /\ readers \subseteq Reader /\ refreshing \subseteq Reader
    /\ volatile \in BOOLEAN
    /\ registered \subseteq Writer
    /\ active \in Writer \cup {None}
    /\ pc \in [Client -> ReaderStep \cup WriterStep]
    /\ \A r \in Reader : pc[r] \in ReaderStep
    /\ \A w \in Writer : pc[w] \in WriterStep
    /\ silent \subseteq Client

\* A probe is the sole writer: two probes that renew their leases never run at the
\* same time, whatever expires, is released late or is retried around them.
SoleProbe == \A v, w \in Writer : Writing(v) /\ Writing(w) => v = w

\* No probe runs beside a user request that holds the lock, as long as the request
\* ends before the readers key does: neither the two-step renewal nor the leases
\* left behind by others open the lock under either of them.
ProbeExcludesReaders ==
    \A r \in Reader \ Long, w \in Writer : ~(Reading(r) /\ Writing(w))

\* The promise for every user request, however long its upstream call.
ProbeExcludesEveryReader ==
    \A r \in Reader, w \in Writer : ~(Reading(r) /\ Writing(w))

\* A probe is not starved by user traffic that never stops, nor by leases of crashed
\* clients: every probe that waits leaves the queue, even if it would wait for ever.
WritersLeave == \A w \in Writer : pc[w] = "queued" ~> pc[w] # "queued"

-----------------------------------------------------------------------------
\* The inductive invariant of the proofs.

\* A probe at work is in the active writer key, a short request at work is a member
\* of the readers key.
LeasesInRedis ==
    /\ \A w \in Writer : Writing(w) => active = w
    /\ \A r \in Reader \ Long : Reading(r) => r \in readers

ProbeInv == LeaseTypes /\ LeasesInRedis /\ SoleProbe /\ ProbeExcludesReaders
=============================================================================
