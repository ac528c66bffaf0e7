--------------------------- MODULE ProbeLock_proofs ---------------------------
(***************************************************************************)
(* Proofs about ProbeLock, for any number of requests and probes, and      *)
(* about RedisCircuit, the circuit breaker of the client the commands of   *)
(* the lock go through, for any number of callers.                         *)
(***************************************************************************)
EXTENDS ProbeLock, RedisCircuit, TLAPS

\* A null answer never starts an upstream call under the lock, nor a probe.
LEMMA AfterNullSteps ==
    ASSUME LeaseTypes, NEW c \in Client
    PROVE  /\ c \in Reader => AfterNull(c) \in {"unlocked", "over"}
           /\ c \in Writer => AfterNull(c) \in {"leaving", "over"}
BY LockAssumption DEF LeaseTypes, AfterNull, Client, ReaderStep, WriterStep

\* Two probes cannot both be in the active writer key.
LEMMA LeasesMakeSole == LeasesInRedis => SoleProbe
BY DEF LeasesInRedis, SoleProbe

\* The initial state satisfies the invariant.
LEMMA InitInv == Init => ProbeInv
<1> SUFFICES ASSUME Init PROVE ProbeInv
    OBVIOUS
<1>1. LeaseTypes
    BY DEF Init, LeaseTypes, Client, ReaderStep, WriterStep
<1>2. LeasesInRedis /\ ProbeExcludesReaders
    BY DEF Init, LeasesInRedis, ProbeExcludesReaders, Writing, Reading, Client
<1> QED BY <1>1, <1>2, LeasesMakeSole DEF ProbeInv

\* A step that puts no one to work keeps the invariant if it leaves the keys of
\* those at work alone.
LEMMA NoNewWork ==
    ASSUME ProbeInv, LeaseTypes',
           \A c \in Client : pc'[c] \in {"reading", "writing"} /\ c \notin silent'
                                => pc'[c] = pc[c] /\ c \notin silent,
           \A w \in Writer : Writing(w) /\ Writing(w)' => active' = active,
           \A r \in Reader \ Long : Reading(r) /\ Reading(r)' /\ r \in readers => r \in readers'
    PROVE  ProbeInv'
<1>1. /\ \A w \in Writer : Writing(w)' => Writing(w)
      /\ \A r \in Reader : Reading(r)' => Reading(r)
    BY DEF Writing, Reading, Client
<1>2. LeasesInRedis'
    BY <1>1 DEF ProbeInv, LeasesInRedis
<1>3. ProbeExcludesReaders'
    BY <1>1 DEF ProbeInv, ProbeExcludesReaders
<1>4. SoleProbe'
    BY <1>1 DEF ProbeInv, SoleProbe
<1> QED BY <1>2, <1>3, <1>4 DEF ProbeInv

\* One client moves on to a step that is no work, and no key changes.
LEMMA ClientRests ==
    ASSUME ProbeInv, NEW c \in Client, NEW step, Goto(c, step),
           c \in Reader => step \in ReaderStep \ {"reading"},
           c \in Writer => step \in WriterStep \ {"writing"},
           UNCHANGED <<readers, volatile, registered, active, refreshing>>,
           silent' \subseteq Client, silent \ {c} \subseteq silent'
    PROVE  ProbeInv'
<1> USE DEF Goto, Client, ReaderStep, WriterStep
<1>1. LeaseTypes'
    BY LockAssumption DEF ProbeInv, LeaseTypes
<1>2. \A d \in Client : d # c => pc'[d] = pc[d]
    BY DEF ProbeInv, LeaseTypes
<1>3. pc'[c] \notin {"reading", "writing"}
    BY LockAssumption DEF ProbeInv, LeaseTypes
<1>4. \A d \in Client : pc'[d] \in {"reading", "writing"} /\ d \notin silent'
                           => pc'[d] = pc[d] /\ d \notin silent
    BY <1>2, <1>3
<1> QED BY <1>1, <1>4, NoNewWork

-----------------------------------------------------------------------------
\* One lemma per action that touches a lease

\* A reader is admitted only while no probe is in the active writer key.
LEMMA TryReadInv ==
    ASSUME ProbeInv, NEW r \in Reader, TryRead(r)
    PROVE  ProbeInv'
<1> USE DEF Client, ReaderStep, WriterStep
<1>1. AfterNull(r) \in {"unlocked", "over"}
    BY AfterNullSteps DEF ProbeInv
<1>2. CASE ~ReadOpen(queue')
    <2>1. Goto(r, "start") \/ Goto(r, AfterNull(r))
        BY <1>2 DEF TryRead, Answered
    <2>2. UNCHANGED <<readers, volatile, registered, active, refreshing, silent>>
        BY <1>2 DEF TryRead
    <2>3. CASE Goto(r, "start")
        BY <2>2, <2>3, ClientRests, LockAssumption DEF ProbeInv, LeaseTypes
    <2>4. CASE Goto(r, AfterNull(r))
        BY <1>1, <2>2, <2>4, ClientRests, LockAssumption DEF ProbeInv, LeaseTypes
    <2> QED BY <2>1, <2>3, <2>4
<1>3. CASE ReadOpen(queue')
    <2>1. /\ active = None
          /\ readers' = readers \cup {r} /\ volatile' = TRUE
          /\ UNCHANGED <<registered, active, refreshing, silent>>
        BY <1>3 DEF TryRead, ReadOpen
    <2>2. /\ pc' \in [Client -> ReaderStep \cup WriterStep]
          /\ pc'[r] \in {"reading", "unlocked", "over"}
          /\ \A c \in Client : c # r => pc'[c] = pc[c]
        BY <1>1, <1>3 DEF TryRead, Answered, Goto, ProbeInv, LeaseTypes
    <2>3. LeaseTypes'
        BY <2>1, <2>2, LockAssumption DEF ProbeInv, LeaseTypes
    <2>4. \A w \in Writer : ~Writing(w)
        BY <2>1, LockAssumption DEF ProbeInv, LeasesInRedis
    <2>5. \A w \in Writer : ~Writing(w)'
        BY <2>1, <2>2, <2>4, LockAssumption DEF Writing
    <2>6. \A s \in Reader \ Long : Reading(s)' => s \in readers'
        BY <2>1, <2>2 DEF Reading, ProbeInv, LeasesInRedis
    <2>7. LeasesInRedis' /\ ProbeExcludesReaders'
        BY <2>5, <2>6 DEF LeasesInRedis, ProbeExcludesReaders
    <2>8. SoleProbe'
        BY <2>5 DEF SoleProbe
    <2> QED BY <2>3, <2>7, <2>8 DEF ProbeInv
<1> QED BY <1>2, <1>3

\* A probe starts only while the readers key is empty and no other probe is in the
\* active writer key.
LEMMA WriteAcquiredInv ==
    ASSUME ProbeInv, NEW w \in Writer, WriteAcquired(w)
    PROVE  ProbeInv'
<1> USE DEF Client, ReaderStep, WriterStep
<1>1. AfterNull(w) \in {"leaving", "over"}
    BY AfterNullSteps DEF ProbeInv
<1>2. /\ active = None /\ readers = {} /\ active' = w
      /\ UNCHANGED <<readers, volatile, registered, refreshing, silent>>
    BY DEF WriteAcquired, WriteOpen
<1>3. /\ pc' \in [Client -> ReaderStep \cup WriterStep]
      /\ pc'[w] \in {"writing", "leaving", "over"}
      /\ \A c \in Client : c # w => pc'[c] = pc[c]
    BY <1>1 DEF WriteAcquired, Answered, Goto, ProbeInv, LeaseTypes
<1>4. LeaseTypes'
    BY <1>2, <1>3, LockAssumption DEF ProbeInv, LeaseTypes
<1>5. \A v \in Writer : ~Writing(v)
    BY <1>2, LockAssumption DEF ProbeInv, LeasesInRedis
<1>6. \A v \in Writer : Writing(v)' => v = w
    BY <1>2, <1>3, <1>5 DEF Writing
<1>7. \A r \in Reader \ Long : ~Reading(r)
    BY <1>2 DEF ProbeInv, LeasesInRedis
<1>8. \A r \in Reader \ Long : ~Reading(r)'
    BY <1>2, <1>3, <1>7, LockAssumption DEF Reading
<1>9. LeasesInRedis' /\ ProbeExcludesReaders' /\ SoleProbe'
    BY <1>2, <1>6, <1>8 DEF LeasesInRedis, ProbeExcludesReaders, SoleProbe
<1> QED BY <1>4, <1>9 DEF ProbeInv

\* The two halves of a renewal only ever add the reader.
LEMMA RenewalInv ==
    ASSUME ProbeInv, NEW r \in Reader, CheckLease(r) \/ ExtendLease(r)
    PROVE  ProbeInv'
<1>1. /\ UNCHANGED <<registered, active, pc, silent, volatile>>
      /\ readers \subseteq readers' /\ readers' \subseteq readers \cup {r}
      /\ refreshing' \subseteq refreshing \cup {r}
    BY DEF CheckLease, ExtendLease, redisVars
<1>2. LeaseTypes'
    BY <1>1 DEF ProbeInv, LeaseTypes
<1> QED BY <1>1, <1>2, NoNewWork

\* The end of a call takes away the lease of the client that ends it, no other.
LEMMA EndReadInv ==
    ASSUME ProbeInv, NEW r \in Reader, EndRead(r)
    PROVE  ProbeInv'
<1> USE DEF Client, ReaderStep, WriterStep
<1>1. /\ UNCHANGED <<registered, active, refreshing, silent>>
      /\ readers \ {r} \subseteq readers' /\ readers' \subseteq readers
      /\ volatile' \in BOOLEAN
    BY DEF EndRead, RemoveReader, ProbeInv, LeaseTypes
<1>2. /\ pc' \in [Client -> ReaderStep \cup WriterStep]
      /\ pc'[r] = "over"
      /\ \A c \in Client : c # r => pc'[c] = pc[c]
    BY DEF EndRead, Goto, ProbeInv, LeaseTypes
<1>3. LeaseTypes'
    BY <1>1, <1>2, LockAssumption DEF ProbeInv, LeaseTypes
<1>4. \A c \in Client : pc'[c] \in {"reading", "writing"} /\ c \notin silent'
                           => pc'[c] = pc[c] /\ c \notin silent
    BY <1>1, <1>2
<1>5. \A s \in Reader : Reading(s)' /\ s \in readers => s \in readers'
    BY <1>1, <1>2 DEF Reading
<1> QED BY <1>1, <1>3, <1>4, <1>5, NoNewWork

\* A release deletes the active writer key only for its owner, who is at work no more.
LEMMA EndWriteInv ==
    ASSUME ProbeInv, NEW w \in Writer, EndWrite(w)
    PROVE  ProbeInv'
<1> USE DEF Client, ReaderStep, WriterStep
<1>1. /\ UNCHANGED <<readers, volatile, refreshing, silent>>
      /\ registered' \subseteq registered
      /\ active' = IF active = w THEN None ELSE active
    BY DEF EndWrite, OwnsWrite
<1>2. /\ pc' \in [Client -> ReaderStep \cup WriterStep]
      /\ pc'[w] = "over"
      /\ \A c \in Client : c # w => pc'[c] = pc[c]
    BY DEF EndWrite, Goto, ProbeInv, LeaseTypes
<1>3. LeaseTypes'
    BY <1>1, <1>2, LockAssumption DEF ProbeInv, LeaseTypes
<1>4. \A c \in Client : pc'[c] \in {"reading", "writing"} /\ c \notin silent'
                           => pc'[c] = pc[c] /\ c \notin silent
    BY <1>1, <1>2
<1>5. \A v \in Writer : Writing(v) /\ Writing(v)' => active' = active
    <2> SUFFICES ASSUME NEW v \in Writer, Writing(v), Writing(v)' PROVE active' = active
        OBVIOUS
    <2>1. active = v
        BY DEF ProbeInv, LeasesInRedis
    <2>2. v # w
        BY <1>2 DEF Writing
    <2> QED BY <1>1, <2>1, <2>2
<1> QED BY <1>1, <1>3, <1>4, <1>5, NoNewWork

\* A lease of no one at work runs out.
LEMMA ExpiryInv ==
    ASSUME ProbeInv,
           \/ \E r \in Reader : ExpireReader(r)
           \/ \E w \in Writer : ExpireRegistration(w)
           \/ ExpireReaders
           \/ ExpireActive
    PROVE  ProbeInv'
<1>1. UNCHANGED <<pc, refreshing, silent>>
    BY DEF ExpireReader, ExpireRegistration, ExpireReaders, ExpireActive
<1>2. \A c \in Client : pc'[c] = pc[c] /\ (c \notin silent' => c \notin silent)
    BY <1>1
<1>3. ASSUME NEW r \in Reader, ExpireReader(r) PROVE ProbeInv'
    <2>1. UNCHANGED <<registered, active>> /\ volatile' \in BOOLEAN /\ readers' = readers \ {r}
        BY <1>3 DEF ExpireReader, RemoveReader, ProbeInv, LeaseTypes
    <2>2. ~Reading(r)
        BY <1>3 DEF ExpireReader, Reading
    <2>3. LeaseTypes'
        BY <1>1, <2>1 DEF ProbeInv, LeaseTypes
    <2> QED BY <1>2, <2>1, <2>2, <2>3, NoNewWork
<1>4. ASSUME NEW w \in Writer, ExpireRegistration(w) PROVE ProbeInv'
    <2>1. UNCHANGED <<readers, volatile, active>> /\ registered' = registered \ {w}
        BY <1>4 DEF ExpireRegistration
    <2>2. LeaseTypes'
        BY <1>1, <2>1 DEF ProbeInv, LeaseTypes
    <2> QED BY <1>2, <2>1, <2>2, NoNewWork
<1>5. CASE ExpireReaders
    <2>1. UNCHANGED <<registered, active>> /\ volatile' = FALSE /\ readers' = {}
        BY <1>5 DEF ExpireReaders
    <2>2. \A r \in Reader \ Long : Reading(r) => r \notin readers
        BY <1>5 DEF ExpireReaders, Reading
    <2>3. LeaseTypes'
        BY <1>1, <2>1 DEF ProbeInv, LeaseTypes
    <2> QED BY <1>2, <2>1, <2>2, <2>3, NoNewWork
<1>6. CASE ExpireActive
    <2>1. UNCHANGED <<readers, volatile, registered>> /\ active' = None
        BY <1>6 DEF ExpireActive
    <2>2. \A w \in Writer : ~Writing(w)
        BY <1>6 DEF ExpireActive, ProbeInv, LeasesInRedis, Writing
    <2>3. LeaseTypes'
        BY <1>1, <2>1 DEF ProbeInv, LeaseTypes
    <2> QED BY <1>2, <2>1, <2>2, <2>3, NoNewWork
<1> QED BY <1>3, <1>4, <1>5, <1>6

\* The steps of a waiting or a failing client: no lease changes but the registration.
LEMMA RestInv ==
    ASSUME ProbeInv, NEW c \in Client,
           \/ c \in Writer /\ (Reserve(c) \/ WriteStale(c) \/ WriteWait(c))
           \/ GiveUp(c) \/ Again(c) \/ Unreachable(c) \/ FallSilent(c) \/ Crash(c)
    PROVE  ProbeInv'
<1> USE DEF Client, ReaderStep, WriterStep, redisVars
<1>1. /\ c \in Reader => AfterNull(c) \in {"unlocked", "over"}
      /\ c \in Writer => AfterNull(c) \in {"leaving", "over"}
    BY AfterNullSteps DEF ProbeInv
<1>2. CASE c \in Writer /\ Reserve(c)
    <2>1. /\ UNCHANGED <<readers, volatile, active, refreshing, silent>>
          /\ registered' = registered \cup {c}
        BY <1>2 DEF Reserve
    <2>2. /\ pc' \in [Client -> ReaderStep \cup WriterStep]
          /\ pc'[c] \in {"queued", "leaving", "over"}
          /\ \A d \in Client : d # c => pc'[d] = pc[d]
        BY <1>1, <1>2 DEF Reserve, Answered, Goto, ProbeInv, LeaseTypes
    <2>3. LeaseTypes'
        BY <1>2, <2>1, <2>2, LockAssumption DEF ProbeInv, LeaseTypes
    <2>4. \A d \in Client : pc'[d] \in {"reading", "writing"} /\ d \notin silent'
                               => pc'[d] = pc[d] /\ d \notin silent
        BY <2>1, <2>2
    <2> QED BY <2>1, <2>3, <2>4, NoNewWork
<1>3. CASE c \in Writer /\ (WriteStale(c) \/ WriteWait(c))
    <2>1. Goto(c, "leaving") \/ Goto(c, "queued") \/ Goto(c, AfterNull(c))
        BY <1>3 DEF WriteStale, WriteWait, Answered
    <2>2. UNCHANGED <<readers, volatile, registered, active, refreshing, silent>>
        BY <1>3 DEF WriteStale, WriteWait
    <2>3. PICK step \in {"leaving", "queued", "over"} : Goto(c, step)
        BY <1>1, <1>3, <2>1
    <2>4. silent' \subseteq Client /\ c \notin Reader
        BY <1>3, <2>2, LockAssumption DEF ProbeInv, LeaseTypes
    <2> QED BY <2>2, <2>3, <2>4, ClientRests
<1>4. CASE GiveUp(c) \/ Again(c)
    <2>1. PICK step \in {"leaving", "over", "start"} :
            Goto(c, step) /\ (step = "leaving" => c \in Writer)
        BY <1>4 DEF GiveUp, Again, ProbeInv, LeaseTypes
    <2>2. /\ UNCHANGED <<readers, volatile, registered, active, refreshing>>
          /\ silent' \subseteq Client /\ silent \ {c} \subseteq silent'
        BY <1>4 DEF GiveUp, Again, ProbeInv, LeaseTypes
    <2> QED BY <2>1, <2>2, ClientRests, LockAssumption
<1>5. CASE Unreachable(c) \/ Crash(c)
    <2>1. Goto(c, "over") \/ Goto(c, AfterNull(c))
        BY <1>5 DEF Unreachable, Crash
    <2>2. /\ UNCHANGED <<readers, volatile, registered, active, refreshing>>
          /\ silent' \subseteq Client /\ silent \ {c} \subseteq silent'
        BY <1>5 DEF Unreachable, Crash, ProbeInv, LeaseTypes
    <2>3. CASE Goto(c, "over")
        BY <2>2, <2>3, ClientRests
    <2>4. CASE Goto(c, AfterNull(c))
        BY <1>1, <2>2, <2>4, ClientRests
    <2> QED BY <2>1, <2>3, <2>4
<1>6. CASE FallSilent(c)
    <2>1. UNCHANGED <<redisVars, pc, refreshing>> /\ silent' = silent \cup {c}
        BY <1>6 DEF FallSilent
    <2>2. LeaseTypes'
        BY <2>1 DEF ProbeInv, LeaseTypes
    <2> QED BY <2>1, <2>2, NoNewWork
<1> QED BY <1>2, <1>3, <1>4, <1>5, <1>6

-----------------------------------------------------------------------------

\* Every step keeps the invariant.
LEMMA NextInv == ProbeInv /\ [Next]_vars => ProbeInv'
<1> SUFFICES ASSUME ProbeInv, [Next]_vars PROVE ProbeInv'
    OBVIOUS
<1>1. ASSUME NEW r \in Reader, Read(r) PROVE ProbeInv'
    BY <1>1, TryReadInv, RenewalInv, EndReadInv DEF Read
<1>2. ASSUME NEW w \in Writer, Write(w) PROVE ProbeInv'
    BY <1>2, RestInv, WriteAcquiredInv, EndWriteInv DEF Write, Client
<1>3. CASE UNCHANGED vars
    BY <1>3, NoNewWork DEF vars, redisVars, ProbeInv, LeaseTypes
<1> QED BY <1>1, <1>2, <1>3, ExpiryInv, RestInv DEF Next

\* The invariant holds in every reachable state, for any number of requests and
\* probes that come back for ever.
THEOREM ProbeInvariant == Spec => []ProbeInv
BY InitInv, NextInv, PTL DEF Spec

\* A probe is the sole writer of its channel: whatever lease runs out, is released
\* late or is left behind, two probes that renew theirs never run together.
THEOREM AlwaysSoleProbe == Spec => []SoleProbe
<1>1. ProbeInv => SoleProbe
    BY DEF ProbeInv
<1> QED BY <1>1, ProbeInvariant, PTL

\* A probe and a user request that holds the lock never run together, if the request
\* ends within the life of the readers key.
THEOREM ProbesAlwaysExcludeReaders == Spec => []ProbeExcludesReaders
<1>1. ProbeInv => ProbeExcludesReaders
    BY DEF ProbeInv
<1> QED BY <1>1, ProbeInvariant, PTL

\* Without requests that outlast the readers key the lock keeps its whole promise,
\* so the TTL of that key is all that breaks it.
THEOREM ExcludesEveryShortReader ==
    ASSUME Long = {}
    PROVE  Spec => []ProbeExcludesEveryReader
<1>1. ProbeExcludesReaders => ProbeExcludesEveryReader
    BY DEF ProbeExcludesReaders, ProbeExcludesEveryReader
<1> QED BY <1>1, ProbesAlwaysExcludeReaders, PTL

-----------------------------------------------------------------------------
\* The circuit around the commands

\* The end of an operation leaves the types of what it touches.
LEMMA SettleTypes ==
    ASSUME CircuitTypes, NEW c \in Caller, Settle(c)
    PROVE  /\ call' \in [Caller -> {"idle", "sent", "probe"}]
           /\ age' \in [Caller -> 0 .. Longest]
           /\ probing' \in BOOLEAN
BY CircuitAssumption DEF Settle, CircuitTypes

\* The count of failures and the state of the circuit agree after every step.
LEMMA CountKeeps == CountInv /\ [CircuitNext]_circuitVars => CountInv'
<1> SUFFICES ASSUME CountInv, [CircuitNext]_circuitVars
             PROVE  CountInv'
    OBVIOUS
<1> USE CircuitAssumption
<1>1. ASSUME NEW c \in Caller, Send(c)
      PROVE  CountInv'
    <2>1. CASE Passes
        <3>1. call' \in [Caller -> {"idle", "sent", "probe"}] /\ age' \in [Caller -> 0 .. Longest]
            BY <1>1, <2>1 DEF Send, CountInv, CircuitTypes
        <3>2. /\ failures' = failures /\ openFor' = openFor /\ healthy' = healthy
              /\ circuitState' = IF circuitState = "open" THEN "half-open" ELSE circuitState
              /\ probing' \in BOOLEAN
            BY <1>1, <2>1 DEF Send, Flags
        <3> QED BY <3>1, <3>2 DEF CountInv, CircuitTypes, FailuresOpen
    <2>2. CASE ~Passes
        <3>1. UNCHANGED circuitVars
            BY <1>1, <2>2 DEF Send, AfterSkip, circuitVars
        <3> QED BY <3>1 DEF circuitVars, CountInv, CircuitTypes, FailuresOpen
    <2> QED BY <2>1, <2>2
<1>2. ASSUME NEW c \in Caller, Succeed(c)
      PROVE  CountInv'
    <2>1. Settle(c) /\ circuitState' = "closed" /\ failures' = 0 /\ openFor' = 0 /\ healthy' = healthy
        BY <1>2 DEF Succeed, ClearedCount
    <2> QED BY <2>1, SettleTypes DEF CountInv, CircuitTypes, FailuresOpen
<1>3. ASSUME NEW c \in Caller, Fail(c)
      PROVE  CountInv'
    <2>1. Settle(c) /\ healthy' = healthy
        BY <1>3 DEF Fail
    <2>2. /\ circuitState' \in {"closed", "open", "half-open"}
          /\ failures' \in 0 .. Threshold
          /\ openFor' \in 0 .. OpenTicks
        BY <1>3 DEF Fail, CountInv, CircuitTypes
    <2>3. FailuresOpen'
        BY <1>3 DEF Fail, ShouldOpen, CountInv, CircuitTypes, FailuresOpen
    <2> QED BY <2>1, <2>2, <2>3, SettleTypes DEF CountInv, CircuitTypes
<1>4. CASE Tick
    BY <1>4 DEF Tick, InFlight, CooledDown, CountInv, CircuitTypes, FailuresOpen
<1>5. CASE Turn \/ UNCHANGED circuitVars
    BY <1>5 DEF Turn, circuitVars, CountInv, CircuitTypes, FailuresOpen
<1> QED BY <1>1, <1>2, <1>3, <1>4, <1>5 DEF CircuitNext, Answer

\* An operation passes: a half-open circuit has its probe already, and a circuit leaves
\* its open state when the probes of earlier periods have lasted an open period or more.
LEMMA SendKeepsProbes ==
    ASSUME CircuitInv, NEW c \in Caller, Send(c)
    PROVE  ProbesAge' /\ ProbesApart'
<1> USE CircuitAssumption
<1>1. CASE ~Passes
    <2>1. UNCHANGED circuitVars
        BY <1>1 DEF Send, AfterSkip, circuitVars
    <2> QED BY <2>1 DEF circuitVars, CircuitInv, ProbesAge, ProbesApart, Probes, Apart
<1>2. CASE Passes
    <2>1. ProbesAge'
        BY <1>2 DEF Send, CircuitInv, ProbesAge
    <2>2. CASE circuitState = "closed"
        <3>1. Probes' = Probes /\ circuitState' = "closed" /\ (probing' <=> probing)
            BY <1>2, <2>2 DEF Send, InFlight, Flags, CircuitInv, CountInv, CircuitTypes, Probes
        <3>2. \A d \in Probes : age'[d] = age[d]
            BY <1>2, <2>2 DEF Send, InFlight, CircuitInv, CountInv, CircuitTypes, Probes
        <3>3. ASSUME NEW d \in Probes', NEW e \in Probes', d # e
              PROVE  Apart(age'[d], age'[e])
            BY <3>1, <3>2, <3>3 DEF CircuitInv, ProbesApart
        <3> QED BY <2>1, <2>2, <3>1, <3>3 DEF CircuitInv, ProbesApart
    <2>3. CASE circuitState # "closed"
        <3>1. circuitState = "open" /\ openFor = OpenTicks
            BY <1>2, <2>3 DEF Passes, CooledDown, CircuitInv, CountInv, CircuitTypes, ProbesApart
        <3>2. Probes' = Probes \cup {c} /\ c \notin Probes /\ age'[c] = 0 /\ probing'
            BY <1>2, <2>3 DEF Send, InFlight, Flags, CircuitInv, CountInv, CircuitTypes, Probes
        <3>3. \A d \in Probes : age'[d] = age[d] /\ age[d] \in Nat /\ age[d] >= OpenTicks
            BY <1>2, <3>1, <3>2 DEF Send, CircuitInv, CountInv, CircuitTypes, ProbesAge, Probes
        <3>4. ASSUME NEW d \in Probes', NEW e \in Probes', d # e
              PROVE  Apart(age'[d], age'[e])
            <4>1. CASE d \in Probes /\ e \in Probes
                BY <4>1, <3>3, <3>4 DEF CircuitInv, ProbesApart
            <4>2. CASE d = c \/ e = c
                BY <4>2, <3>2, <3>3, <3>4 DEF Apart
            <4> QED BY <4>1, <4>2, <3>2
        <3> QED BY <2>1, <3>2, <3>4 DEF ProbesApart, Apart
    <2> QED BY <2>2, <2>3
<1> QED BY <1>1, <1>2

\* An operation ends: a probe takes its flag with it, any other leaves the flag alone.
LEMMA SettleKeepsApart ==
    ASSUME CircuitInv, NEW c \in Caller, Settle(c), circuitState' \in {"closed", "open"}
           \/ (circuitState' = circuitState /\ circuitState # "half-open")
    PROVE  ProbesApart'
<1>1. Probes' = Probes \ {c} /\ \A d \in Probes' : age'[d] = age[d]
    BY DEF Settle, CircuitInv, CountInv, CircuitTypes, Probes
<1>2. \A d, e \in Probes' : d # e => Apart(age'[d], age'[e])
    BY <1>1 DEF CircuitInv, ProbesApart
<1>3. circuitState' # "half-open"
    OBVIOUS
<1>4. probing' => Probes' # {}
    <2>1. CASE call[c] = "probe"
        BY <2>1 DEF Settle
    <2>2. CASE call[c] # "probe"
        BY <2>2, <1>1 DEF Settle, CircuitInv, ProbesApart, Probes
    <2> QED BY <2>1, <2>2
<1> QED BY <1>2, <1>3, <1>4 DEF ProbesApart, Apart

\* A circuit that opens has waited for nothing yet; one that stays open knows its probes.
LEMMA FailKeepsProbes ==
    ASSUME CircuitInv, NEW c \in Caller, Fail(c)
    PROVE  ProbesAge' /\ ProbesApart'
<1>1. Settle(c)
    BY DEF Fail
<1>2. ProbesAge'
    <2> SUFFICES ASSUME circuitState' = "open", NEW d \in Probes'
                 PROVE  openFor' <= age'[d]
        BY DEF ProbesAge
    <2>1. d \in Probes /\ d # c
        BY <1>1 DEF Settle, CircuitInv, CountInv, CircuitTypes, Probes
    <2>2. age'[d] = age[d] /\ age[d] \in 0 .. Longest
        BY <1>1, <2>1 DEF Settle, CircuitInv, CountInv, CircuitTypes, Probes
    <2>3. CASE ShouldOpen(failures + 1)
        BY <2>2, <2>3 DEF Fail
    <2>4. CASE ~ShouldOpen(failures + 1)
        <3>1. circuitState = "open" /\ openFor' = openFor
            BY <2>4 DEF Fail
        <3> QED BY <2>1, <2>2, <3>1 DEF CircuitInv, ProbesAge
    <2> QED BY <2>3, <2>4
<1>3. circuitState' \in {"closed", "open"} \/ (circuitState' = circuitState /\ circuitState # "half-open")
    BY DEF Fail, ShouldOpen
<1> QED BY <1>1, <1>2, <1>3, SettleKeepsApart

\* A probe ages at least as fast as the circuit is open, and all probes age together.
LEMMA TickKeepsProbes ==
    ASSUME CircuitInv, Tick
    PROVE  ProbesAge' /\ ProbesApart'
<1>1. /\ Probes' = Probes /\ circuitState' = circuitState /\ probing' = probing
      /\ \A d \in Probes : d \in Caller /\ age'[d] = age[d] + 1 /\ age[d] \in Nat
    BY CircuitAssumption DEF Tick, InFlight, CircuitInv, CountInv, CircuitTypes, Probes
<1>2. ProbesAge'
    <2> SUFFICES ASSUME circuitState' = "open", NEW d \in Probes'
                 PROVE  openFor' <= age'[d]
        BY DEF ProbesAge
    <2>1. circuitState = "open" /\ d \in Probes /\ age'[d] = age[d] + 1 /\ age[d] \in Nat
        BY <1>1
    <2>2. openFor <= age[d] /\ openFor \in Nat
        BY <2>1, CircuitAssumption DEF CircuitInv, CountInv, CircuitTypes, ProbesAge
    <2> QED BY <2>1, <2>2 DEF Tick
<1>3. ProbesApart'
    <2>1. ASSUME NEW d \in Probes', NEW e \in Probes', d # e
          PROVE  Apart(age'[d], age'[e])
        <3>1. /\ age'[d] = age[d] + 1 /\ age[d] \in Nat /\ age'[e] = age[e] + 1 /\ age[e] \in Nat
              /\ OpenTicks \in Nat
            BY <1>1, CircuitAssumption
        <3>2. Apart(age[d], age[e])
            BY <1>1, <2>1 DEF CircuitInv, ProbesApart
        <3> QED BY <3>1, <3>2 DEF Apart
    <2> QED BY <2>1, <1>1 DEF CircuitInv, ProbesApart, Apart
<1> QED BY <1>2, <1>3

LEMMA CircuitStarts == CircuitInit => CircuitInv
<1> SUFFICES ASSUME CircuitInit PROVE CircuitInv
    OBVIOUS
<1>1. CountInv
    <2>1. 0 \in 0 .. Threshold /\ 0 \in 0 .. OpenTicks /\ 0 \in 0 .. Longest
        BY CircuitAssumption
    <2>2. call \in [Caller -> {"idle", "sent", "probe"}] /\ age \in [Caller -> 0 .. Longest]
        BY <2>1 DEF CircuitInit
    <2>3. CircuitTypes
        BY <2>1, <2>2 DEF CircuitInit, CircuitTypes
    <2>4. FailuresOpen
        BY CircuitAssumption DEF CircuitInit, FailuresOpen
    <2> QED BY <2>3, <2>4 DEF CountInv
<1>2. ProbesAge /\ ProbesApart
    BY DEF CircuitInit, ProbesAge, ProbesApart, Probes
<1> QED BY <1>1, <1>2 DEF CircuitInv

\* The variables of the circuit have their types, and shouldOpen: whatever operations
\* failed, in whatever order they ended, a circuit that has counted enough failures is
\* not closed.
THEOREM FailuresOpenHolds == CircuitSpec => []FailuresOpen
<1>1. CircuitInit => CountInv
    BY CircuitStarts DEF CircuitInv
<1>2. CountInv => FailuresOpen
    BY DEF CountInv
<1> QED BY <1>1, <1>2, CountKeeps, PTL DEF CircuitSpec

\* The invariant of the circuit, however long an operation lasts.
THEOREM CircuitInvariant == CircuitSpec => []CircuitInv
<1>1. CircuitInv /\ [CircuitNext]_circuitVars => CircuitInv'
    <2> SUFFICES ASSUME CircuitInv, [CircuitNext]_circuitVars
                 PROVE  CircuitInv'
        OBVIOUS
    <2>1. CountInv'
        BY CountKeeps DEF CircuitInv
    <2>2. ASSUME NEW c \in Caller, Send(c)
          PROVE  ProbesAge' /\ ProbesApart'
        BY <2>2, SendKeepsProbes
    <2>3. ASSUME NEW c \in Caller, Succeed(c)
          PROVE  ProbesAge' /\ ProbesApart'
        <3>1. Settle(c) /\ circuitState' = "closed"
            BY <2>3 DEF Succeed
        <3> QED BY <3>1, SettleKeepsApart DEF ProbesAge
    <2>4. ASSUME NEW c \in Caller, Fail(c)
          PROVE  ProbesAge' /\ ProbesApart'
        BY <2>4, FailKeepsProbes
    <2>5. Tick => ProbesAge' /\ ProbesApart'
        BY TickKeepsProbes
    <2>6. Turn \/ UNCHANGED circuitVars => ProbesAge' /\ ProbesApart'
        BY DEF Turn, circuitVars, CircuitInv, ProbesAge, ProbesApart, Probes, Apart
    <2>7. ProbesAge' /\ ProbesApart'
        BY <2>2, <2>3, <2>4, <2>5, <2>6 DEF CircuitNext, Answer
    <2> QED BY <2>1, <2>7 DEF CircuitInv
<1> QED BY <1>1, CircuitStarts, PTL DEF CircuitSpec

\* halfOpenProbeInFlight: one probe per open period, and a flag that says so, whether or
\* not an operation can outlast the open period.
THEOREM ProbesApartHolds == CircuitSpec => []ProbesApart
<1>1. CircuitInv => ProbesApart
    BY DEF CircuitInv
<1> QED BY <1>1, CircuitInvariant, PTL

\* Where operations end within the open period, no two probes are ever in flight.
THEOREM ShortProbesAreAlone ==
    ASSUME Longest < OpenTicks
    PROVE  CircuitSpec => [](\A c, d \in Probes : c = d)
<1>1. CircuitInv => \A c, d \in Probes : c = d
    BY CircuitAssumption DEF CircuitInv, CountInv, CircuitTypes, ProbesApart, Apart, Probes
<1> QED BY <1>1, CircuitInvariant, PTL
=============================================================================
