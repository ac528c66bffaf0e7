---------------------------- MODULE Leases_proofs ----------------------------
(***************************************************************************)
(* Proofs about the two parts in which a lease decides who may act: the    *)
(* slots of the relay pool (RelayConcurrency), for any number of clients   *)
(* and slots, and the machine rows of the agent gateway (AgentGateway),    *)
(* for any number of processes, connections, machines and requests.        *)
(***************************************************************************)
EXTENDS RelayConcurrency, AgentGateway, SequenceTheorems, TLAPS

-----------------------------------------------------------------------------
\* The slots of the relay pool

\* What the client sees as null never takes it outside the steps of acquire, and
\* never back into the queue or into the use of a slot.
LEMMA AfterNullSteps ==
    ASSUME NEW c \in Client, pc[c] \in Step, pc[c] # "over"
    PROVE  AfterNull(c) \in {"over", "cancel", "finally"}
BY DEF AfterNull, Step

\* The initial tables satisfy the invariant.
LEMMA InitInv == Init => ConcurrencyInv
<1> SUFFICES ASSUME Init PROVE ConcurrencyInv
    OBVIOUS
<1>1. DOMAIN waiter = {}
    BY DEF Init
<1>2. TypeOK
    BY <1>1 DEF Init, TypeOK, Step
<1>3. QueueAhead /\ TicketsOwned /\ LeasesGiven
    BY <1>1 DEF Init, QueueAhead, TicketsOwned, LeasesGiven
<1>4. HoldersKeepSlots /\ WaitersKeepTheirPlace
    BY DEF Init, HoldersKeepSlots, WaitersKeepTheirPlace
<1> QED BY <1>2, <1>3, <1>4 DEF ConcurrencyInv

\* The step that hands a slot to a client, the same for both ways to acquire one.
LEMMA SlotTaken ==
    ASSUME ConcurrencyInv, NEW c \in Client, NEW i \in Slot,
           Acquirable(i), pc[c] \in {"start", "queued"},
           slot' = [slot EXCEPT ![i] = c],
           lease' = [lease EXCEPT ![c] = i],
           Answered(c, "holding") \/ Goto(c, "undo"),
           UNCHANGED silent
    PROVE  /\ slot' \in [Slot -> Client \cup {Empty}]
           /\ lease' \in [Client -> Slot \cup {Empty}]
           /\ pc' \in [Client -> Step]
           /\ pc'[c] \notin {"start", "queued"}
           /\ \A d \in Client \ {c} : pc'[d] = pc[d]
           /\ LeasesGiven'
           /\ HoldersKeepSlots'
<1> USE DEF ConcurrencyInv, TypeOK
<1>1. AfterNull(c) \in {"over", "cancel", "finally"}
    BY AfterNullSteps DEF Step
<1>2. /\ pc' \in [Client -> Step]
      /\ pc'[c] \notin {"start", "queued"}
      /\ \A d \in Client \ {c} : pc'[d] = pc[d]
    BY <1>1 DEF Answered, Goto, Step
<1>3. LeasesGiven'
    BY <1>2 DEF LeasesGiven
<1>4. HoldersKeepSlots'
    BY <1>2, PoolAssumption DEF HoldersKeepSlots, LeasesGiven, Acquirable
<1> QED BY <1>2, <1>3, <1>4

\* A step that only moves one client on, to a step that owns nothing new.
LEMMA ClientMoves ==
    ASSUME ConcurrencyInv, NEW c \in Client,
           pc' = [pc EXCEPT ![c] = AfterNull(c)] \/ pc' = [pc EXCEPT ![c] = "cancel"]
               \/ pc' = [pc EXCEPT ![c] = "finally"] \/ pc' = [pc EXCEPT ![c] = "over"],
           pc[c] # "over"
    PROVE  /\ pc' \in [Client -> Step]
           /\ pc'[c] \in {"over", "cancel", "finally"}
           /\ \A d \in Client \ {c} : pc'[d] = pc[d]
<1>1. AfterNull(c) \in {"over", "cancel", "finally"}
    BY AfterNullSteps DEF ConcurrencyInv, TypeOK
<1> QED BY <1>1 DEF ConcurrencyInv, TypeOK, Step

-----------------------------------------------------------------------------

\* A request made while enableQueue is off takes a slot or fails.
LEMMA DirectInv ==
    ASSUME ConcurrencyInv, NEW c \in Client, AcquireDirect(c)
    PROVE  ConcurrencyInv'
<1>1. CASE \E i \in Slot :
            /\ Acquirable(i)
            /\ slot' = [slot EXCEPT ![i] = c]
            /\ lease' = [lease EXCEPT ![c] = i]
            /\ Answered(c, "holding") \/ Goto(c, "undo")
  <2> PICK i \in Slot :
            /\ Acquirable(i)
            /\ slot' = [slot EXCEPT ![i] = c]
            /\ lease' = [lease EXCEPT ![c] = i]
            /\ Answered(c, "holding") \/ Goto(c, "undo")
    BY <1>1
  <2>1. /\ slot' \in [Slot -> Client \cup {Empty}]
        /\ lease' \in [Client -> Slot \cup {Empty}]
        /\ pc' \in [Client -> Step]
        /\ pc'[c] \notin {"start", "queued"}
        /\ \A d \in Client \ {c} : pc'[d] = pc[d]
        /\ LeasesGiven' /\ HoldersKeepSlots'
    BY SlotTaken DEF AcquireDirect
  <2>2. UNCHANGED <<waiter, tail, serving, ticket, silent>>
    BY DEF AcquireDirect
  <2> QED
    BY <2>1, <2>2 DEF ConcurrencyInv, TypeOK, QueueAhead, TicketsOwned, WaitersKeepTheirPlace
<1>2. CASE Goto(c, "over") /\ UNCHANGED <<slot, lease>>
  <2>1. UNCHANGED <<slot, waiter, tail, serving, ticket, lease, silent>> /\ pc[c] # "over"
    BY <1>2 DEF AcquireDirect
  <2>2. /\ pc' \in [Client -> Step]
        /\ pc'[c] \in {"over", "cancel", "finally"}
        /\ \A d \in Client \ {c} : pc'[d] = pc[d]
    BY <1>2, <2>1, ClientMoves DEF Goto
  <2> QED
    BY <2>1, <2>2 DEF ConcurrencyInv, TypeOK, QueueAhead, TicketsOwned, LeasesGiven,
                      HoldersKeepSlots, WaitersKeepTheirPlace
<1> QED BY <1>1, <1>2 DEF AcquireDirect

\* A new ticket is larger than every ticket in use.
LEMMA ReserveInv ==
    ASSUME ConcurrencyInv, NEW c \in Client, Reserve(c)
    PROVE  ConcurrencyInv'
<1> USE DEF ConcurrencyInv
<1>1. /\ pc[c] = "start" /\ tail' = tail + 1
      /\ waiter' = [t \in DOMAIN waiter \cup {tail + 1} |-> IF t = tail + 1 THEN c ELSE waiter[t]]
      /\ ticket' = [ticket EXCEPT ![c] = tail + 1]
      /\ UNCHANGED <<slot, serving, lease, silent>>
    BY DEF Reserve, NextTicket
<1>2. /\ pc' \in [Client -> Step]
      /\ pc'[c] \in {"queued", "over"}
      /\ \A d \in Client \ {c} : pc'[d] = pc[d]
    BY <1>1 DEF Reserve, Answered, Goto, AfterNull, TypeOK, Step
<1>3. DOMAIN waiter' = DOMAIN waiter \cup {tail + 1} /\ waiter'[tail + 1] = c
      /\ \A t \in DOMAIN waiter : t \in 1..tail /\ waiter'[t] = waiter[t]
    BY <1>1 DEF TypeOK
<1>4. TypeOK'
  <2>1. waiter' \in [DOMAIN waiter' -> Client]
    BY <1>1, <1>3 DEF TypeOK
  <2>2. tail' \in Nat /\ serving' \in 1..(tail' + 1) /\ DOMAIN waiter' \subseteq 1..tail'
    BY <1>1, <1>3 DEF TypeOK
  <2>3. ticket' \in [Client -> 0..tail']
    BY <1>1 DEF TypeOK
  <2> QED BY <1>1, <1>2, <2>1, <2>2, <2>3 DEF TypeOK
<1>5. QueueAhead'
    BY <1>1, <1>3 DEF QueueAhead, TypeOK
<1>6. TicketsOwned'
  <2>1. \A t \in DOMAIN waiter : waiter[t] # c
    BY <1>1, <1>3 DEF TicketsOwned, TypeOK
  <2>2. \A d \in Client : ticket[d] \in 0..tail
    BY DEF TypeOK
  <2>3. \A d, e \in Client : ticket'[d] # 0 /\ ticket'[d] = ticket'[e] => d = e
    BY <1>1, <2>2 DEF TicketsOwned, TypeOK
  <2>4. \A t \in DOMAIN waiter' : ticket'[waiter'[t]] = t
    BY <1>1, <1>3, <2>1 DEF TicketsOwned, TypeOK
  <2>5. \A d \in Client : /\ pc'[d] = "start" => ticket'[d] = 0
                          /\ pc'[d] = "queued" => ticket'[d] # 0
    BY <1>1, <1>2 DEF TicketsOwned, TypeOK
  <2> QED BY <2>3, <2>4, <2>5 DEF TicketsOwned
<1>7. LeasesGiven' /\ HoldersKeepSlots'
    BY <1>1, <1>2 DEF LeasesGiven, HoldersKeepSlots
<1>8. WaitersKeepTheirPlace'
    BY <1>1, <1>2, <1>3 DEF WaitersKeepTheirPlace, TypeOK
<1> QED BY <1>4, <1>5, <1>6, <1>7, <1>8

\* Moving the head to the first waiter key keeps it at or before every waiter key.
LEMMA HeadMoves ==
    ASSUME ConcurrencyInv, NEW from \in serving..(tail + 1), NEW queue \in SUBSET DOMAIN waiter,
           Serve(from, queue), UNCHANGED tail
    PROVE  /\ serving' \in 1..(tail' + 1)
           /\ \A t \in queue : t >= from => serving' <= t
BY DEF Serve, FirstWaiting, ConcurrencyInv, TypeOK

\* The head of the queue takes a free slot and the next waiter becomes the head.
LEMMA AdmittedInv ==
    ASSUME ConcurrencyInv, NEW c \in Client, TryAdmitted(c)
    PROVE  ConcurrencyInv'
<1> USE DEF ConcurrencyInv
<1> DEFINE queue == DOMAIN waiter \ {ticket[c]}
<1>1. /\ pc[c] = "queued" /\ ticket[c] \in 1..tail /\ serving <= ticket[c]
      /\ \A t \in DOMAIN waiter : t >= ticket[c]
      /\ ticket[c] \in DOMAIN waiter
    BY DEF TryAdmitted, AtHead, FirstWaiting, TypeOK, QueueAhead
<1>2. /\ waiter' = [u \in queue |-> waiter[u]] /\ Serve(ticket[c] + 1, DOMAIN waiter')
      /\ UNCHANGED <<tail, ticket, silent>>
    BY DEF TryAdmitted, Without
<1>3. PICK i \in Slot : /\ Acquirable(i)
                        /\ slot' = [slot EXCEPT ![i] = c]
                        /\ lease' = [lease EXCEPT ![c] = i]
    BY DEF TryAdmitted
<1>4. /\ slot' \in [Slot -> Client \cup {Empty}]
      /\ lease' \in [Client -> Slot \cup {Empty}]
      /\ pc' \in [Client -> Step]
      /\ pc'[c] \notin {"start", "queued"}
      /\ \A d \in Client \ {c} : pc'[d] = pc[d]
      /\ LeasesGiven' /\ HoldersKeepSlots'
    BY <1>1, <1>2, <1>3, SlotTaken DEF TryAdmitted
<1>5. DOMAIN waiter' = queue /\ \A t \in queue : waiter'[t] = waiter[t]
    BY <1>2
<1>6. serving' \in 1..(tail' + 1) /\ \A t \in queue : serving' <= t
  <2>1. ticket[c] + 1 \in serving..(tail + 1) /\ \A t \in queue : t >= ticket[c] + 1
      BY <1>1 DEF TypeOK
  <2> QED BY <1>2, <1>5, <2>1, HeadMoves
<1>7. TypeOK'
    BY <1>2, <1>4, <1>5, <1>6 DEF TypeOK
<1>8. QueueAhead' /\ TicketsOwned'
    BY <1>2, <1>4, <1>5, <1>6 DEF QueueAhead, TicketsOwned, TypeOK
<1>9. WaitersKeepTheirPlace'
  <2> SUFFICES ASSUME NEW d \in Client, pc'[d] = "queued", d \notin silent'
               PROVE  ticket'[d] \in DOMAIN waiter' /\ serving' <= ticket'[d]
      BY DEF WaitersKeepTheirPlace
  <2>1. d # c /\ pc[d] = "queued" /\ d \notin silent
      BY <1>2, <1>4
  <2>2. ticket[d] \in DOMAIN waiter /\ ticket[d] # ticket[c]
      BY <1>1, <2>1 DEF WaitersKeepTheirPlace, TicketsOwned, TypeOK
  <2> QED BY <1>2, <1>5, <1>6, <2>2
<1> QED BY <1>4, <1>7, <1>8, <1>9

\* WAIT and STALE: only the head of the queue moves.
LEMMA NotAdmittedInv ==
    ASSUME ConcurrencyInv, NEW c \in Client, TryWait(c) \/ TryStale(c)
    PROVE  ConcurrencyInv'
<1> USE DEF ConcurrencyInv
<1>1. /\ UNCHANGED <<slot, waiter, tail, ticket, lease, silent>>
      /\ Serve(serving, DOMAIN waiter) /\ pc[c] = "queued"
    BY DEF TryWait, TryStale
<1>2. serving' \in 1..(tail' + 1) /\ \A t \in DOMAIN waiter : serving' <= t
    BY <1>1, HeadMoves DEF TypeOK, QueueAhead
<1>3. /\ pc' \in [Client -> Step]
      /\ pc'[c] \in {"queued", "over", "cancel", "finally"}
      /\ \A d \in Client \ {c} : pc'[d] = pc[d]
  <2>1. AfterNull(c) \in {"over", "cancel", "finally"}
      BY <1>1, AfterNullSteps DEF Step
  <2> QED BY <1>1, <2>1 DEF TryWait, TryStale, Answered, Goto, TypeOK, Step
<1>4. \A d \in Client : pc'[d] \in {"start", "queued", "holding", "undo"} => pc'[d] = pc[d]
    BY <1>1, <1>3
<1>5. TypeOK' /\ QueueAhead' /\ TicketsOwned' /\ LeasesGiven' /\ HoldersKeepSlots'
    BY <1>1, <1>2, <1>3, <1>4 DEF TypeOK, QueueAhead, TicketsOwned, LeasesGiven, HoldersKeepSlots
<1>6. WaitersKeepTheirPlace'
    BY <1>1, <1>2, <1>4 DEF WaitersKeepTheirPlace
<1> QED BY <1>5, <1>6

\* A client removes its own waiter key only.
LEMMA CancelInv ==
    ASSUME ConcurrencyInv, NEW c \in Client, Cancel(c)
    PROVE  ConcurrencyInv'
<1> USE DEF ConcurrencyInv
<1>1. /\ UNCHANGED <<slot, tail, ticket, lease, silent>>
      /\ Serve(serving, DOMAIN waiter')
      /\ pc[c] \in {"cancel", "finally"} /\ pc' = [pc EXCEPT ![c] = AfterNull(c)]
    BY DEF Cancel, Goto
<1>2. /\ DOMAIN waiter' \subseteq DOMAIN waiter
      /\ \A t \in DOMAIN waiter' : waiter'[t] = waiter[t]
      /\ waiter' \in [DOMAIN waiter' -> Client]
      /\ \A t \in DOMAIN waiter : waiter[t] # c => t \in DOMAIN waiter'
  <2>1. CASE waiter' = waiter
      BY <2>1 DEF TypeOK
  <2>2. CASE ticket[c] \in DOMAIN waiter /\ waiter[ticket[c]] = c /\ waiter' = Without(ticket[c])
      BY <2>2 DEF Without, TypeOK
  <2> QED BY <2>1, <2>2 DEF Cancel
<1>3. serving' \in 1..(tail' + 1) /\ \A t \in DOMAIN waiter' : serving' <= t
  <2>1. serving \in serving..(tail + 1) /\ \A t \in DOMAIN waiter' : t >= serving
      BY <1>2 DEF TypeOK, QueueAhead
  <2> QED BY <1>1, <1>2, <2>1, HeadMoves
<1>4. /\ pc' \in [Client -> Step]
      /\ pc'[c] \in {"over", "cancel", "finally"}
      /\ \A d \in Client \ {c} : pc'[d] = pc[d]
    BY <1>1, ClientMoves
<1>5. TypeOK' /\ QueueAhead' /\ LeasesGiven' /\ HoldersKeepSlots'
    BY <1>1, <1>2, <1>3, <1>4 DEF TypeOK, QueueAhead, LeasesGiven, HoldersKeepSlots
<1>6. TicketsOwned'
    BY <1>1, <1>2, <1>4 DEF TicketsOwned
<1>7. WaitersKeepTheirPlace'
  <2> SUFFICES ASSUME NEW d \in Client, pc'[d] = "queued", d \notin silent'
               PROVE  ticket'[d] \in DOMAIN waiter' /\ serving' <= ticket'[d]
      BY DEF WaitersKeepTheirPlace
  <2>1. d # c /\ ticket[d] \in DOMAIN waiter /\ pc[d] = "queued"
      BY <1>1, <1>4 DEF WaitersKeepTheirPlace
  <2>2. waiter[ticket[d]] = d
      BY <2>1 DEF TicketsOwned, TypeOK
  <2> QED BY <1>1, <1>2, <1>3, <2>1, <2>2
<1> QED BY <1>5, <1>6, <1>7

\* A client deletes a slot key only while it carries its own token.
LEMMA GiveBackInv ==
    ASSUME ConcurrencyInv, NEW c \in Client, GiveBack(c)
    PROVE  ConcurrencyInv'
<1> USE DEF ConcurrencyInv
<1>1. /\ UNCHANGED <<waiter, tail, serving, ticket, lease, silent>>
      /\ pc[c] \in {"holding", "undo"} /\ pc' = [pc EXCEPT ![c] = AfterNull(c)]
      /\ lease[c] \in Slot
    BY DEF GiveBack, Goto, LeasesGiven
<1>2. /\ slot' \in [Slot -> Client \cup {Empty}]
      /\ \A i \in Slot : slot[i] # c => slot'[i] = slot[i]
    BY <1>1 DEF GiveBack, Owns, TypeOK
<1>3. /\ pc' \in [Client -> Step]
      /\ pc'[c] \in {"over", "cancel", "finally"}
      /\ \A d \in Client \ {c} : pc'[d] = pc[d]
    BY <1>1, ClientMoves
<1>4. TypeOK' /\ QueueAhead' /\ TicketsOwned' /\ LeasesGiven' /\ WaitersKeepTheirPlace'
    BY <1>1, <1>2, <1>3
       DEF TypeOK, QueueAhead, TicketsOwned, LeasesGiven, WaitersKeepTheirPlace
<1>5. HoldersKeepSlots'
    BY <1>1, <1>2, <1>3 DEF HoldersKeepSlots, LeasesGiven
<1> QED BY <1>4, <1>5

\* Giving up, a command that does not arrive, and a crash leave Redis alone.
LEMMA LeavesInv ==
    ASSUME ConcurrencyInv, NEW c \in Client, GiveUp(c) \/ Unreachable(c) \/ Crash(c)
    PROVE  ConcurrencyInv'
<1> USE DEF ConcurrencyInv
<1>1. UNCHANGED <<redisVars, ticket, lease, silent>>
    BY DEF GiveUp, Unreachable, Crash
<1>2. /\ pc' \in [Client -> Step]
      /\ pc'[c] \in {"over", "cancel", "finally"}
      /\ \A d \in Client \ {c} : pc'[d] = pc[d]
    BY ClientMoves DEF GiveUp, Unreachable, Crash, Goto
<1> QED
    BY <1>1, <1>2 DEF redisVars, TypeOK, QueueAhead, TicketsOwned, LeasesGiven,
                      HoldersKeepSlots, WaitersKeepTheirPlace

\* Falling silent changes no key.
LEMMA SilentInv ==
    ASSUME ConcurrencyInv, NEW c \in Client, FallSilent(c)
    PROVE  ConcurrencyInv'
BY DEF ConcurrencyInv, FallSilent, redisVars, TypeOK, QueueAhead, TicketsOwned, LeasesGiven,
       HoldersKeepSlots, WaitersKeepTheirPlace

\* No slot key expires under a client that renews it.
LEMMA ExpireSlotInv ==
    ASSUME ConcurrencyInv, NEW i \in Slot, ExpireSlot(i)
    PROVE  ConcurrencyInv'
<1> USE DEF ConcurrencyInv
<1>1. /\ UNCHANGED <<waiter, tail, serving, pc, ticket, lease, silent>>
      /\ slot' = [slot EXCEPT ![i] = Empty]
      /\ \A c \in Client : ~(slot[i] = c /\ pc[c] = "holding" /\ lease[c] = i /\ c \notin silent)
    BY DEF ExpireSlot
<1>2. TypeOK' /\ QueueAhead' /\ TicketsOwned' /\ LeasesGiven' /\ WaitersKeepTheirPlace'
    BY <1>1 DEF TypeOK, QueueAhead, TicketsOwned, LeasesGiven, WaitersKeepTheirPlace
<1>3. HoldersKeepSlots'
    BY <1>1 DEF HoldersKeepSlots, LeasesGiven, TypeOK
<1> QED BY <1>2, <1>3

\* No waiter key expires under a client that polls in time.
LEMMA ExpireWaiterInv ==
    ASSUME ConcurrencyInv, NEW t \in DOMAIN waiter, ExpireWaiter(t)
    PROVE  ConcurrencyInv'
<1> USE DEF ConcurrencyInv
<1>1. /\ UNCHANGED <<slot, tail, serving, pc, ticket, lease, silent>>
      /\ ~(pc[waiter[t]] = "queued" /\ waiter[t] \notin silent)
      /\ DOMAIN waiter' = DOMAIN waiter \ {t}
      /\ \A u \in DOMAIN waiter' : waiter'[u] = waiter[u]
      /\ waiter' \in [DOMAIN waiter' -> Client]
    BY DEF ExpireWaiter, Without, TypeOK
<1>2. TypeOK' /\ QueueAhead' /\ LeasesGiven' /\ HoldersKeepSlots'
    BY <1>1 DEF TypeOK, QueueAhead, LeasesGiven, HoldersKeepSlots
<1>3. TicketsOwned'
    BY <1>1 DEF TicketsOwned
<1>4. WaitersKeepTheirPlace'
  <2>1. \A d \in Client : ticket[d] = t /\ pc[d] = "queued" => waiter[t] = d
      BY DEF TicketsOwned, TypeOK
  <2> QED BY <1>1, <2>1 DEF WaitersKeepTheirPlace
<1> QED BY <1>2, <1>3, <1>4

-----------------------------------------------------------------------------

\* Every step preserves the invariant.
LEMMA StepInv == ConcurrencyInv /\ [Next]_vars => ConcurrencyInv'
<1> SUFFICES ASSUME ConcurrencyInv, [Next]_vars PROVE ConcurrencyInv'
    OBVIOUS
<1>1. ASSUME NEW c \in Client, Acquire(c) PROVE ConcurrencyInv'
    BY <1>1, DirectInv, ReserveInv, AdmittedInv, NotAdmittedInv DEF Acquire
<1>2. ASSUME NEW c \in Client, Cancel(c) \/ GiveBack(c) PROVE ConcurrencyInv'
    BY <1>2, CancelInv, GiveBackInv
<1>3. ASSUME NEW c \in Client, GiveUp(c) \/ Unreachable(c) \/ FallSilent(c) \/ Crash(c)
      PROVE  ConcurrencyInv'
    BY <1>3, LeavesInv, SilentInv
<1>4. ASSUME NEW i \in Slot, ExpireSlot(i) PROVE ConcurrencyInv'
    BY <1>4, ExpireSlotInv
<1>5. ASSUME NEW t \in DOMAIN waiter, ExpireWaiter(t) PROVE ConcurrencyInv'
    BY <1>5, ExpireWaiterInv
<1>6. CASE UNCHANGED vars
    BY <1>6 DEF vars, redisVars, ConcurrencyInv, TypeOK, QueueAhead, TicketsOwned, LeasesGiven,
                HoldersKeepSlots, WaitersKeepTheirPlace
<1> QED BY <1>1, <1>2, <1>3, <1>4, <1>5, <1>6 DEF Next

\* The inductive invariant holds for any number of clients and slots.
THEOREM ConcurrencyInvariant == Spec => []ConcurrencyInv
<1>1. Init => ConcurrencyInv
    BY InitInv
<1>2. ConcurrencyInv /\ [Next]_vars => ConcurrencyInv'
    BY StepInv
<1> QED BY <1>1, <1>2, PTL DEF Spec

\* Every key, ticket and lease keeps its type.
THEOREM TypeCorrect == Spec => []TypeOK
<1>1. ConcurrencyInv => TypeOK
    BY DEF ConcurrencyInv
<1> QED BY <1>1, ConcurrencyInvariant, PTL

\* A request whose lease is renewed owns its slot key: concurrent requests stay
\* within maxConcurrency whatever lapses, crashes and late releases happen.
THEOREM HoldersAlwaysKeepSlots == Spec => []HoldersKeepSlots
<1>1. ConcurrencyInv => HoldersKeepSlots
    BY DEF ConcurrencyInv
<1> QED BY <1>1, ConcurrencyInvariant, PTL

\* A client that polls in time is never told that its ticket is stale.
THEOREM WaitersAlwaysKeepTheirPlace == Spec => []WaitersKeepTheirPlace
<1>1. ConcurrencyInv => WaitersKeepTheirPlace
    BY DEF ConcurrencyInv
<1> QED BY <1>1, ConcurrencyInvariant, PTL

\* Only the head of the queue is admitted, so admission follows the tickets.
LEMMA StepInOrder ==
    ASSUME ConcurrencyInv, [Next]_vars, NEW c \in Client, NEW d \in Client,
           pc[c] = "queued", pc'[c] = "holding", pc[d] = "queued", d \notin silent
    PROVE  ticket[c] <= ticket[d]
<1>1. TryAdmitted(c)
  <2>1. \A e \in Client : pc[e] # "over" => AfterNull(e) \in {"over", "cancel", "finally"}
      BY AfterNullSteps DEF ConcurrencyInv, TypeOK
  <2>2. Acquire(c)
    <3>1. ASSUME NEW e \in Client, Acquire(e) PROVE e = c
        BY <3>1 DEF Acquire, AcquireDirect, Reserve, TryAdmitted, TryWait, TryStale, Answered,
                    Goto, ConcurrencyInv, TypeOK
    <3>2. ~ \E e \in Client : Cancel(e) \/ GiveBack(e) \/ GiveUp(e) \/ Unreachable(e) \/ Crash(e)
        BY <2>1 DEF Cancel, GiveBack, GiveUp, Unreachable, Crash, Goto, ConcurrencyInv, TypeOK
    <3>3. pc' # pc
        OBVIOUS
    <3> QED BY <3>1, <3>2, <3>3 DEF Next, vars, FallSilent, ExpireSlot, ExpireWaiter
  <2> QED
      BY <2>1, <2>2 DEF Acquire, AcquireDirect, Reserve, TryWait, TryStale, Answered, Goto,
                        ConcurrencyInv, TypeOK
<1>2. ticket[d] \in DOMAIN waiter /\ serving <= ticket[d] /\ ticket[c] \in Nat /\ ticket[d] \in Nat
    BY DEF ConcurrencyInv, WaitersKeepTheirPlace, TypeOK
<1> QED BY <1>1, <1>2 DEF TryAdmitted, AtHead, FirstWaiting, ConcurrencyInv, TypeOK

\* First come, first served among the clients that poll in time.
THEOREM AlwaysAdmittedInOrder == Spec => AdmittedInOrder
<1> DEFINE InOrder == \A c, d \in Client :
        /\ pc[c] = "queued" /\ pc'[c] = "holding"
        /\ pc[d] = "queued" /\ d \notin silent
        => ticket[c] <= ticket[d]
<1>1. ConcurrencyInv /\ [Next]_vars => [InOrder]_vars
    BY StepInOrder
<1> QED BY <1>1, ConcurrencyInvariant, PTL DEF Spec, AdmittedInOrder

-----------------------------------------------------------------------------
\* The gateway: records of connections

Good(k) == Orderly(k) /\ Leases(k) /\ Fenced(k)

Shut(k) == [k EXCEPT !.state = "closed"]
Pop(k) == [k EXCEPT !.queue = Tail(@), !.pc = "idle", !.reply = "none", !.granted = 0, !.stale = FALSE]
Ask(k, to) == [k EXCEPT !.pc = to, !.reply = "none"]
Push(k, op) == [k EXCEPT !.queue = Append(@, op)]
NoLease(k) == ~OnItsWay(k, "connect") /\ ~OnItsWay(k, "beat")

\* What each of these leaves alone.
LEMMA ShutFields ==
    ASSUME NEW k \in ConnRecords
    PROVE  /\ Shut(k) \in ConnRecords
           /\ Shut(k).state = "closed" /\ Shut(k).token = k.token /\ Shut(k).worker = k.worker
           /\ Shut(k).identity = k.identity /\ Shut(k).queue = k.queue /\ Shut(k).pc = k.pc
           /\ Shut(k).reply = k.reply /\ Shut(k).granted = k.granted
           /\ Shut(k).cleaned = k.cleaned /\ Shut(k).stale = k.stale
BY DEF Shut, ConnRecords

LEMMA PopFields ==
    ASSUME NEW k \in ConnRecords, k.queue # <<>>
    PROVE  /\ Pop(k) \in ConnRecords
           /\ Pop(k).state = k.state /\ Pop(k).token = k.token /\ Pop(k).worker = k.worker
           /\ Pop(k).identity = k.identity /\ Pop(k).queue = Tail(k.queue) /\ Pop(k).pc = "idle"
           /\ Pop(k).reply = "none" /\ Pop(k).granted = 0
           /\ Pop(k).cleaned = k.cleaned /\ Pop(k).stale = FALSE
<1>1. k.queue \in Seq(Operations)
    BY DEF ConnRecords
<1>2. Tail(k.queue) \in Seq(Operations)
    BY <1>1, HeadTailProperties
<1> QED BY <1>2 DEF Pop, ConnRecords

LEMMA AskFields ==
    ASSUME NEW k \in ConnRecords, NEW to \in Steps
    PROVE  /\ Ask(k, to) \in ConnRecords
           /\ Ask(k, to).state = k.state /\ Ask(k, to).token = k.token /\ Ask(k, to).worker = k.worker
           /\ Ask(k, to).identity = k.identity /\ Ask(k, to).queue = k.queue /\ Ask(k, to).pc = to
           /\ Ask(k, to).reply = "none" /\ Ask(k, to).granted = k.granted
           /\ Ask(k, to).cleaned = k.cleaned /\ Ask(k, to).stale = k.stale
BY DEF Ask, ConnRecords

LEMMA PushFields ==
    ASSUME NEW k \in ConnRecords, NEW op \in Operations
    PROVE  /\ Push(k, op) \in ConnRecords
           /\ Push(k, op).state = k.state /\ Push(k, op).token = k.token /\ Push(k, op).worker = k.worker
           /\ Push(k, op).identity = k.identity /\ Push(k, op).queue = Append(k.queue, op)
           /\ Push(k, op).pc = k.pc /\ Push(k, op).reply = k.reply /\ Push(k, op).granted = k.granted
           /\ Push(k, op).cleaned = k.cleaned /\ Push(k, op).stale = k.stale
<1>1. k.queue \in Seq(Operations)
    BY DEF ConnRecords
<1>2. Append(k.queue, op) \in Seq(Operations)
    BY <1>1, AppendProperties
<1> QED BY <1>2 DEF Push, ConnRecords

\* A connection that closes keeps its leases, its operation and its identity.
LEMMA ShutGood ==
    ASSUME NEW k \in ConnRecords, Good(k), k.state # "unborn"
    PROVE  Good(Shut(k))
<1>1. Orderly(Shut(k))
    BY ShutFields DEF Good, Orderly
<1>2. Leases(Shut(k)) /\ Fenced(Shut(k))
    BY ShutFields DEF Good, Leases, Fenced, OnItsWay
<1> QED BY <1>1, <1>2 DEF Good

\* The end of an operation.
LEMMA PopGood ==
    ASSUME NEW k \in ConnRecords, Good(k), k.queue # <<>>
    PROVE  Good(Pop(k))
<1>1. Orderly(Pop(k))
    <2>1. k.state # "unborn" /\ ~k.cleaned
        BY DEF Good, Orderly
    <2> QED BY <2>1, PopFields DEF Good, Orderly, Steps
<1>2. Leases(Pop(k)) /\ Fenced(Pop(k))
    BY PopFields DEF Good, Leases, Fenced, OnItsWay
<1> QED BY <1>1, <1>2 DEF Good

LEMMA PushGood ==
    ASSUME NEW k \in ConnRecords, Good(k), k.state = "open", NEW op \in Operations
    PROVE  Good(Push(k, op))
<1>1. k.queue \in Seq(Operations)
    BY DEF ConnRecords
<1>2. /\ Append(k.queue, op) # <<>>
      /\ k.queue # <<>> => Head(Append(k.queue, op)) = Head(k.queue)
    BY <1>1, AppendProperties
<1> DEFINE l == Push(k, op)
<1>4. /\ l.state = k.state /\ l.token = k.token /\ l.worker = k.worker
      /\ l.identity = k.identity /\ l.pc = k.pc /\ l.reply = k.reply /\ l.granted = k.granted
      /\ l.cleaned = k.cleaned /\ l.stale = k.stale /\ l.queue = Append(k.queue, op)
    BY PushFields
<1>5. l.queue # <<>> /\ (k.pc # "idle" => Head(l.queue) = Head(k.queue))
    BY <1>2, <1>4 DEF Good, Orderly
<1> HIDE DEF l
<1>3. Orderly(l)
    BY <1>4, <1>5 DEF Good, Orderly, Steps
<1>6. Leases(l)
    BY <1>4, <1>5 DEF Good, Leases, OnItsWay
<1>7. Fenced(l)
    BY <1>4 DEF Good, Fenced
<1> QED BY <1>3, <1>6, <1>7 DEF Good, l

-----------------------------------------------------------------------------
\* Steps that leave the rows alone


\* While the rows stay, a record is as good after the step as it would be before.
LEMMA GoodStays ==
    ASSUME row' = row, NEW x \in Conns, Good(conn'[x])
    PROVE  Orderly(conn'[x]) /\ Leases(conn[x])' /\ Fenced(conn[x])'
BY DEF Good, Leases, Lease, Fenced, HasLease

LEMMA HoldsStays ==
    ASSUME row' = row, NEW x \in Conns, NEW m \in Machines
    PROVE  Holds(conn'[x], m) <=> Holds(conn[x], m)'
BY DEF Holds, Newest

\* No lease becomes the newest that was not, and the token stays.
Follows(k, l) ==
    /\ \A m \in Machines : Newest(l, m) => Newest(k, m)
    /\ k.state # "unborn" => l.state # "unborn" /\ l.token = k.token

\* What a connection that stays open keeps of the machine it took.
Stays(k, l) ==
    k.state # "unborn" /\ l.state = "open" =>
        k.state = "open" /\ \A m \in Machines : k.token = m /\ Keeps(k, m) => Keeps(l, m)

\* A record is carried over by a step.
Carried(k, l) ==
    /\ l \in ConnRecords /\ Good(l) /\ Follows(k, l)
    /\ \A m \in Machines : Holds(k, m) => Holds(l, m)

LEMMA GoodNow ==
    ASSUME LeaseInv, NEW x \in Conns
    PROVE  /\ conn[x] \in ConnRecords /\ Good(conn[x])
           /\ Carried(conn[x], conn[x]) /\ Stays(conn[x], conn[x])
BY DEF LeaseInv, GatewayTypes, ConnsSound, Good, Carried, Follows, Stays

\* Whatever a step does to its connections and to the memory of the processes, the
\* invariant holds if every record is good and follows from the one before, and, without
\* a fault, no machine loses its holder.
LEMMA QuietKeeps ==
    ASSUME LeaseInv, row' = row, GatewayTypes', PendingIsOpen', WaitsForTarget',
           \A x \in Conns : /\ Good(conn'[x])
                            /\ Follows(conn[x], conn'[x]) /\ Stays(conn[x], conn'[x]),
           faults' = 0 =>
               /\ faults = 0
               /\ \A m \in Machines : row[m].runtime = "online" /\ row[m].user = "active" =>
                     \A x \in Conns : Holds(conn[x], m) => Holds(conn'[x], m)
    PROVE  LeaseInv'
<1>1. ConnsSound'
    BY GoodStays DEF ConnsSound
<1>2. OnlineIsHeld'
    <2> SUFFICES ASSUME NEW m \in Machines, row'[m].runtime = "online"
                 PROVE  /\ row'[m].status = "active"
                        /\ faults' = 0 /\ row'[m].user = "active" =>
                             \E c \in Conns : Holds(conn[c], m)'
        BY DEF OnlineIsHeld
    <2>1. row[m].runtime = "online" /\ row[m].status = "active" /\ row'[m].status = "active"
        BY DEF LeaseInv, OnlineIsHeld
    <2>2. ASSUME faults' = 0, row'[m].user = "active"
          PROVE  \E c \in Conns : Holds(conn[c], m)'
        <3>1. faults = 0 /\ row[m].user = "active"
            BY <2>2
        <3>2. PICK c \in Conns : Holds(conn[c], m)
            BY <2>1, <3>1 DEF LeaseInv, OnlineIsHeld
        <3>3. Holds(conn'[c], m)
            BY <2>1, <2>2, <3>1, <3>2
        <3>4. Holds(conn[c], m)'
            BY <3>3, HoldsStays
        <3> QED BY <3>4
    <2> QED BY <2>1, <2>2
<1>3. HoldersSound'
    <2> SUFFICES ASSUME NEW m \in Machines PROVE HolderSound(m)'
        BY DEF HoldersSound
    <2>1. HolderSound(m)
        BY DEF LeaseInv, HoldersSound
    <2>2. ASSUME NEW c \in Conns, Newest(conn[c], m)'
          PROVE  row'[m].holder = c
        <3>1. Newest(conn'[c], m)
            BY <2>2 DEF Newest
        <3>2. Newest(conn[c], m)
            BY <3>1 DEF Follows
        <3> QED BY <2>1, <3>2 DEF HolderSound
    <2>3. ASSUME NEW c \in Conns, row'[m].holder = c
          PROVE  /\ conn'[c].state # "unborn" /\ conn'[c].token = m
                 /\ conn'[c].state = "open" /\ row'[m].status = "active" => Keeps(conn[c], m)'
        <3>1. /\ conn[c].state # "unborn" /\ conn[c].token = m
              /\ Open(c) /\ row[m].status = "active" => Keeps(conn[c], m)
            BY <2>1, <2>3 DEF HolderSound
        <3>2. conn'[c].state = "open" /\ row[m].status = "active" => Keeps(conn'[c], m)
            BY <3>1 DEF Stays, Open
        <3>3. Keeps(conn'[c], m) <=> Keeps(conn[c], m)'
            BY DEF Keeps
        <3> QED BY <3>1, <3>2, <3>3 DEF Follows
    <2> QED BY <2>2, <2>3 DEF HolderSound, Open
<1> QED BY <1>1, <1>2, <1>3 DEF LeaseInv

\* Holding a machine outlives a closing and the end of an operation that awaits no lease.
LEMMA ShutHolds ==
    ASSUME NEW k \in ConnRecords, NEW m \in Machines
    PROVE  /\ Holds(k, m) => Holds(Shut(k), m)
           /\ Newest(Shut(k), m) => Newest(k, m)
BY ShutFields DEF Holds, Newest, OnItsWay

LEMMA PopHolds ==
    ASSUME NEW k \in ConnRecords, k.queue # <<>>, NEW m \in Machines
    PROVE  /\ NoLease(k) /\ Holds(k, m) => Holds(Pop(k), m)
           /\ Newest(Pop(k), m) => Newest(k, m)
BY PopFields DEF Holds, Newest, NoLease, OnItsWay

LEMMA PushHolds ==
    ASSUME NEW k \in ConnRecords, NEW op \in Operations, NEW m \in Machines
    PROVE  /\ Holds(k, m) => Holds(Push(k, op), m)
           /\ Newest(Push(k, op), m) => Newest(k, m)
BY PushFields DEF Holds, Newest, OnItsWay

LEMMA PushStays ==
    ASSUME NEW k \in ConnRecords, Good(k), NEW op \in Operations
    PROVE  Stays(k, Push(k, op))
<1> DEFINE l == Push(k, op)
<1>1. k.queue \in Seq(Operations)
    BY DEF ConnRecords
<1>2. k.queue # <<>> => Head(Append(k.queue, op)) = Head(k.queue)
    BY <1>1, AppendProperties
<1>3. /\ l.state = k.state /\ l.identity = k.identity /\ l.pc = k.pc /\ l.reply = k.reply
      /\ l.granted = k.granted /\ l.queue = Append(k.queue, op)
    BY PushFields
<1>4. k.pc = "connect" => Head(l.queue) = Head(k.queue)
    BY <1>2, <1>3 DEF Good, Orderly
<1> HIDE DEF l
<1>5. \A m \in Machines : Keeps(k, m) => Keeps(l, m)
    BY <1>3, <1>4 DEF Keeps
<1> QED BY <1>3, <1>5 DEF Stays, l

\* A connection that has an identity and no heartbeat under way has its lease while it
\* keeps its machine, so whatever it does next it keeps it.
LEMMA NamedStays ==
    ASSUME NEW k, NEW l, k.identity # None, k.pc # "beat",
           l.state = k.state, l.identity = k.identity
    PROVE  Stays(k, l)
BY DEF Stays, Keeps

\* The connections of D close and the requests that waited for them are rejected.
LEMMA ClosingKeeps ==
    ASSUME LeaseInv, NEW cs, NEW D, NEW rs,
           conn' = Closing(cs, D), Reject(Orphans(D) \cup rs),
           sockets' \in [Workers -> [AgentIds -> Conns \cup {None}]],
           row' = row, faults' = faults, ready' \subseteq Machines,
           revoking' \subseteq [machine : Machines, worker : Workers],
           \A x \in Conns : /\ Carried(conn[x], cs[x])
                            /\ cs[x].state = conn[x].state
                            /\ IF x \in D THEN cs[x].state # "unborn" ELSE Stays(conn[x], cs[x])
    PROVE  LeaseInv'
<1>1. \A x \in Conns : conn'[x] = IF x \in D THEN Shut(cs[x]) ELSE cs[x]
    BY DEF Closing, Shut
<1>2. \A x \in Conns : Carried(conn[x], conn'[x])
    <2> SUFFICES ASSUME NEW x \in Conns PROVE Carried(conn[x], conn'[x])
        OBVIOUS
    <2>1. Carried(conn[x], cs[x])
        OBVIOUS
    <2>2. CASE x \in D
        <3>1. conn'[x] = Shut(cs[x])
            BY <1>1, <2>2
        <3>2. cs[x] \in ConnRecords /\ Good(cs[x]) /\ cs[x].state # "unborn"
            BY <2>1, <2>2 DEF Carried
        <3>3. Shut(cs[x]) \in ConnRecords /\ Good(Shut(cs[x]))
            BY <3>2, ShutFields, ShutGood
        <3>4. \A m \in Machines : Holds(conn[x], m) => Holds(Shut(cs[x]), m)
            BY <2>1, <3>2, ShutHolds DEF Carried
        <3>5. Shut(cs[x]).state # "unborn" /\ Shut(cs[x]).token = cs[x].token
            BY <3>2, ShutFields
        <3>6. Follows(conn[x], Shut(cs[x]))
            BY <2>1, <3>2, <3>5, ShutHolds DEF Carried, Follows
        <3> QED BY <3>1, <3>3, <3>4, <3>6 DEF Carried
    <2>3. CASE x \notin D
        BY <1>1, <2>1, <2>3
    <2> QED BY <2>2, <2>3
<1>10. ASSUME NEW x \in Conns
       PROVE  Stays(conn[x], conn'[x])
    <2>1. CASE x \in D
        <3>1. conn'[x] = Shut(cs[x]) /\ cs[x] \in ConnRecords
            BY <1>1, <2>1 DEF Carried
        <3>2. conn'[x].state = "closed"
            BY <3>1, ShutFields
        <3> QED BY <3>2 DEF Stays
    <2>2. CASE x \notin D
        BY <1>1, <2>2
    <2> QED BY <2>1, <2>2
<1>3. conn' \in [Conns -> ConnRecords]
    <2>1. conn' = [x \in Conns |-> IF x \in D THEN [cs[x] EXCEPT !.state = "closed"] ELSE cs[x]]
        BY DEF Closing
    <2>2. \A x \in Conns : conn'[x] \in ConnRecords
        BY <1>2 DEF Carried
    <2> QED BY <2>1, <2>2
<1>4. MemoryTypes'
    <2>1. MemoryTypes
        BY DEF LeaseInv, GatewayTypes
    <2>3. pending' \in [Requests -> Conns \cup {None}] /\ delivered' = delivered
        BY <2>1 DEF Reject, MemoryTypes
    <2>4. result' \in [Requests -> {"none", "waiting", "failed", "answered"}]
        BY <2>1 DEF Reject, MemoryTypes
    <2> QED BY <2>1, <2>3, <2>4 DEF MemoryTypes
<1>5. GatewayTypes'
    BY <1>3, <1>4 DEF LeaseInv, GatewayTypes
<1>6. ASSUME NEW r \in Requests, pending'[r] # None
      PROVE  pending'[r] = pending[r] /\ pending[r] \in Conns /\ pending[r] \notin D
    <2>1. pending'[r] = pending[r] /\ r \notin Orphans(D)
        BY <1>6 DEF Reject
    <2> QED BY <1>6, <2>1 DEF Orphans, LeaseInv, GatewayTypes, MemoryTypes
<1>7. PendingIsOpen'
    <2> SUFFICES ASSUME NEW r \in Requests, pending'[r] # None
                 PROVE  conn'[pending'[r]].state = "open"
        BY DEF PendingIsOpen, Open
    <2>1. pending'[r] = pending[r] /\ pending[r] \in Conns /\ pending[r] \notin D
        BY <1>6
    <2>2. conn'[pending[r]] = cs[pending[r]] /\ cs[pending[r]].state = conn[pending[r]].state
        BY <1>1, <2>1
    <2>3. conn[pending[r]].state = "open"
        BY <2>1 DEF LeaseInv, PendingIsOpen, Open
    <2> QED BY <2>1, <2>2, <2>3
<1>8. WaitsForTarget'
    <2>1. delivered' = delivered
        BY DEF Reject
    <2> QED BY <1>6, <2>1 DEF LeaseInv, WaitsForTarget
<1>9. LeaseInv'
    BY <1>2, <1>5, <1>7, <1>8, <1>10, QuietKeeps DEF Carried
<1> QED BY <1>4, <1>9

\* disconnect()
LEMMA DisconnectKeeps ==
    ASSUME LeaseInv, NEW cs, NEW D, NEW rs, Disconnect(cs, D, rs),
           row' = row, faults' = faults, ready' \subseteq Machines,
           revoking' \subseteq [machine : Machines, worker : Workers],
           \A x \in Conns : /\ Carried(conn[x], cs[x])
                            /\ cs[x].state = conn[x].state
                            /\ IF x \in D THEN cs[x].state # "unborn" ELSE Stays(conn[x], cs[x])
    PROVE  LeaseInv'
<1>1. sockets' \in [Workers -> [AgentIds -> Conns \cup {None}]]
    BY DEF Disconnect, SocketsLess, LeaseInv, GatewayTypes, MemoryTypes
<1>2. conn' = Closing(cs, D) /\ Reject(Orphans(D) \cup rs)
    BY DEF Disconnect
<1> QED BY <1>1, <1>2, ClosingKeeps

\* A step of one connection that keeps its socket as it is, with the memory it leaves.
LEMMA OneKeeps ==
    ASSUME LeaseInv, NEW c \in Conns, NEW l,
           conn' = [conn EXCEPT ![c] = l], Carried(conn[c], l), Stays(conn[c], l),
           Open(c) => l.state = "open",
           row' = row, faults' = faults, ready' \subseteq Machines,
           revoking' \subseteq [machine : Machines, worker : Workers],
           MemoryTypes', WaitsForTarget',
           \A r \in Requests : pending'[r] # None => pending'[r] \in Conns /\ Open(pending'[r])
    PROVE  LeaseInv'
<1>1. conn \in [Conns -> ConnRecords]
    BY DEF LeaseInv, GatewayTypes
<1>2. \A x \in Conns : Carried(conn[x], conn'[x]) /\ Stays(conn[x], conn'[x])
    <2> SUFFICES ASSUME NEW x \in Conns
                 PROVE  Carried(conn[x], conn'[x]) /\ Stays(conn[x], conn'[x])
        OBVIOUS
    <2>1. CASE x = c
        <3>1. conn'[x] = l
            BY <1>1, <2>1
        <3> QED BY <2>1, <3>1
    <2>2. CASE x # c
        <3>1. conn'[x] = conn[x]
            BY <1>1, <2>2
        <3> QED BY <3>1, GoodNow
    <2> QED BY <2>1, <2>2
<1>3. GatewayTypes'
    <2>1. conn' \in [Conns -> ConnRecords]
        BY <1>1 DEF Carried
    <2> QED BY <2>1 DEF LeaseInv, GatewayTypes
<1>4. PendingIsOpen'
    <2> SUFFICES ASSUME NEW r \in Requests, pending'[r] # None
                 PROVE  conn'[pending'[r]].state = "open"
        BY DEF PendingIsOpen, Open
    <2>1. pending'[r] \in Conns /\ Open(pending'[r])
        OBVIOUS
    <2>2. CASE pending'[r] = c
        BY <1>1, <2>1, <2>2
    <2>3. CASE pending'[r] # c
        BY <1>1, <2>1, <2>3 DEF Open
    <2> QED BY <2>2, <2>3
<1> QED BY <1>2, <1>3, <1>4, QuietKeeps DEF Carried

\* The same while nothing else in the processes' memory changes.
LEMMA AloneKeeps ==
    ASSUME LeaseInv, NEW c \in Conns, NEW l,
           conn' = [conn EXCEPT ![c] = l], Carried(conn[c], l), Stays(conn[c], l),
           Open(c) => l.state = "open",
           row' = row, faults' = faults, ready' \subseteq Machines,
           revoking' \subseteq [machine : Machines, worker : Workers],
           UNCHANGED memory
    PROVE  LeaseInv'
<1>1. sockets' = sockets /\ pending' = pending /\ result' = result /\ delivered' = delivered
    BY DEF memory
<1>2. MemoryTypes' /\ WaitsForTarget'
    BY <1>1 DEF LeaseInv, GatewayTypes, MemoryTypes, WaitsForTarget
<1>3. \A r \in Requests : pending'[r] # None => pending'[r] \in Conns /\ Open(pending'[r])
    BY <1>1 DEF LeaseInv, GatewayTypes, MemoryTypes, PendingIsOpen
<1> QED BY <1>2, <1>3, OneKeeps

\* What the head of the model's records does, as operations on one record.
LEMMA PoppedIs ==
    ASSUME conn \in [Conns -> ConnRecords], NEW c \in Conns
    PROVE  Popped(c) = [conn EXCEPT ![c] = Pop(conn[c])]
BY DEF Popped, Pop

LEMMA AskingIs ==
    ASSUME conn \in [Conns -> ConnRecords], NEW c \in Conns, NEW to
    PROVE  Asking(c, to) = [conn EXCEPT ![c] = Ask(conn[c], to)]
BY DEF Asking, Ask

-----------------------------------------------------------------------------
\* The transport

Bystanders == row' = row /\ ready' = ready /\ revoking' = revoking /\ faults' = faults

LEMMA BystandersTyped ==
    ASSUME LeaseInv, Bystanders
    PROVE  /\ row' = row /\ faults' = faults /\ ready' \subseteq Machines
           /\ revoking' \subseteq [machine : Machines, worker : Workers]
BY DEF Bystanders, LeaseInv, GatewayTypes

LEMMA TableOf == LeaseInv => conn \in [Conns -> ConnRecords]
BY DEF LeaseInv, GatewayTypes

Born(w, m) == [Fresh EXCEPT !.state = "open", !.token = m, !.worker = w, !.timer = TRUE]

LEMMA AttachKeeps ==
    ASSUME LeaseInv, NEW c \in Conns, NEW w \in Workers, NEW m \in Machines, Attach(c, w, m)
    PROVE  LeaseInv'
<1>1. conn' = [conn EXCEPT ![c] = Born(w, m)] /\ UNCHANGED memory /\ Bystanders
    BY DEF Attach, Born, Bystanders
<1>2. /\ Born(w, m) \in ConnRecords
      /\ Born(w, m).state = "open" /\ Born(w, m).token = m /\ Born(w, m).worker = w
      /\ Born(w, m).identity = None /\ Born(w, m).queue = <<>> /\ Born(w, m).pc = "idle"
      /\ Born(w, m).reply = "none" /\ ~Born(w, m).cleaned /\ ~Born(w, m).stale
    <2>1. /\ Fresh \in ConnRecords /\ Fresh.identity = None /\ Fresh.queue = <<>>
          /\ Fresh.pc = "idle" /\ Fresh.reply = "none" /\ ~Fresh.cleaned /\ ~Fresh.stale
        BY EmptySeq DEF Fresh, ConnRecords
    <2> QED BY <2>1 DEF Born, ConnRecords
<1>3. Good(Born(w, m))
    BY <1>2 DEF Good, Orderly, Leases, Fenced, OnItsWay, Steps
<1>4. conn[c].identity = None /\ conn[c].pc = "idle"
    BY GoodNow DEF Attach, Good, Orderly
<1>5. \A n \in Machines : ~Holds(conn[c], n) /\ ~Newest(Born(w, m), n)
    BY <1>2, <1>4 DEF Holds, Newest, OnItsWay
<1>6. conn[c].state = "unborn"
    BY DEF Attach
<1>7. Carried(conn[c], Born(w, m)) /\ Stays(conn[c], Born(w, m))
    BY <1>2, <1>3, <1>5, <1>6 DEF Carried, Follows, Stays
<1> QED BY <1>1, <1>2, <1>7, BystandersTyped, AloneKeeps

\* A socket closes, whoever closes it.
LEMMA CloseKeeps ==
    ASSUME LeaseInv, NEW D, Disconnect(conn, D, {}), \A x \in Conns \cap D : Open(x),
           row' = row, faults' = faults, ready' \subseteq Machines,
           revoking' \subseteq [machine : Machines, worker : Workers]
    PROVE  LeaseInv'
<1>1. \A x \in Conns : /\ Carried(conn[x], conn[x]) /\ Stays(conn[x], conn[x])
                       /\ x \in D => conn[x].state # "unborn"
    BY GoodNow DEF Open
<1> QED BY <1>1, DisconnectKeeps

LEMMA ClosedKeeps ==
    ASSUME LeaseInv, NEW c \in Conns, SocketClosed(c) \/ HelloTimeout(c)
    PROVE  LeaseInv'
<1>1. Open(c) /\ Disconnect(conn, {c}, {}) /\ Bystanders
    BY DEF SocketClosed, HelloTimeout, Bystanders
<1> QED BY <1>1, BystandersTyped, CloseKeeps

\* A frame is counted and queued, or one too many closes the socket.
Counted(k) == [k EXCEPT !.frames = @ + 1]

LEMMA CountedCarried ==
    ASSUME NEW k \in ConnRecords, Good(k)
    PROVE  Carried(k, Counted(k)) /\ Stays(k, Counted(k)) /\ Counted(k).state = k.state
<1>1. /\ Counted(k) \in ConnRecords
      /\ Counted(k).state = k.state /\ Counted(k).token = k.token /\ Counted(k).worker = k.worker
      /\ Counted(k).identity = k.identity /\ Counted(k).queue = k.queue /\ Counted(k).pc = k.pc
      /\ Counted(k).reply = k.reply /\ Counted(k).granted = k.granted
      /\ Counted(k).cleaned = k.cleaned /\ Counted(k).stale = k.stale
    BY DEF Counted, ConnRecords
<1>2. Orderly(Counted(k))
    BY <1>1 DEF Good, Orderly
<1>3. Leases(Counted(k)) /\ Fenced(Counted(k))
    BY <1>1 DEF Good, Leases, Fenced, OnItsWay
<1> DEFINE l == Counted(k)
<1>4. /\ l.state = k.state /\ l.token = k.token /\ l.identity = k.identity /\ l.queue = k.queue
      /\ l.pc = k.pc /\ l.reply = k.reply /\ l.granted = k.granted /\ l.cleaned = k.cleaned
    BY <1>1
<1> HIDE DEF l
<1>5. \A m \in Machines : (Holds(k, m) => Holds(l, m)) /\ (Newest(l, m) => Newest(k, m))
    BY <1>4 DEF Holds, Newest, OnItsWay
<1>6. Follows(k, l) /\ Stays(k, l)
    BY <1>4, <1>5 DEF Follows, Stays, Keeps
<1> QED BY <1>1, <1>2, <1>3, <1>5, <1>6 DEF Good, Carried, l

LEMMA FrameKeeps ==
    ASSUME LeaseInv, NEW c \in Conns, NEW op \in Operations, Frame(c, op)
    PROVE  LeaseInv'
<1> DEFINE cs == [conn EXCEPT ![c].frames = @ + 1]
<1>1. Open(c) /\ Bystanders /\ Enqueue(cs, c, op)
    BY DEF Frame, Bystanders
<1>2. cs = [conn EXCEPT ![c] = Counted(conn[c])] /\ cs[c] = Counted(conn[c])
    BY TableOf DEF Counted
<1>3. /\ Carried(conn[c], Counted(conn[c])) /\ Stays(conn[c], Counted(conn[c]))
      /\ Counted(conn[c]).state = conn[c].state
    BY GoodNow, CountedCarried
<1>4. CASE Full(c)
    <2>1. Disconnect(cs, {c}, {})
        BY <1>1, <1>4 DEF Enqueue
    <2>2. ASSUME NEW x \in Conns
          PROVE  /\ Carried(conn[x], cs[x])
                 /\ cs[x].state = conn[x].state
                 /\ IF x \in {c} THEN cs[x].state # "unborn" ELSE Stays(conn[x], cs[x])
        <3>1. CASE x = c
            <4>1. cs[x] = Counted(conn[c])
                BY <1>2, <3>1
            <4> HIDE DEF cs
            <4> QED BY <4>1, <1>1, <1>3, <3>1 DEF Open
        <3>2. CASE x # c
            <4>1. cs[x] = conn[x]
                BY <3>2, TableOf
            <4> HIDE DEF cs
            <4> QED BY <4>1, <3>2, GoodNow
        <3> QED BY <3>1, <3>2
    <2> HIDE DEF cs
    <2> QED BY <1>1, <2>1, <2>2, BystandersTyped, DisconnectKeeps
<1>5. CASE ~Full(c)
    <2>1. conn' = [cs EXCEPT ![c].queue = Append(@, op)] /\ UNCHANGED memory
        BY <1>1, <1>5 DEF Enqueue
    <2>2. conn' = [conn EXCEPT ![c] = Push(Counted(conn[c]), op)]
        <3>1. conn' = [cs EXCEPT ![c] = Push(cs[c], op)]
            BY <2>1 DEF Push
        <3> QED BY <1>2, <3>1
    <2> HIDE DEF cs
    <2>3. /\ Carried(conn[c], Push(Counted(conn[c]), op)) /\ Push(Counted(conn[c]), op).state = "open"
          /\ Stays(conn[c], Push(Counted(conn[c]), op))
        <3>1. Counted(conn[c]) \in ConnRecords /\ Good(Counted(conn[c])) /\ Counted(conn[c]).state = "open"
            BY <1>1, <1>3 DEF Carried, Open
        <3>2. Push(Counted(conn[c]), op) \in ConnRecords /\ Good(Push(Counted(conn[c]), op))
            BY <3>1, PushFields, PushGood
        <3>3. \A m \in Machines : Holds(conn[c], m) => Holds(Push(Counted(conn[c]), op), m)
            BY <1>3, <3>1, PushHolds DEF Carried
        <3>4. /\ Push(Counted(conn[c]), op).state = "open"
              /\ Push(Counted(conn[c]), op).token = Counted(conn[c]).token
            BY <3>1, PushFields
        <3>5. Follows(conn[c], Push(Counted(conn[c]), op))
            BY <1>3, <3>1, <3>4, PushHolds DEF Carried, Follows
        <3>6. Stays(Counted(conn[c]), Push(Counted(conn[c]), op))
            BY <3>1, PushStays
        <3>7. Stays(conn[c], Push(Counted(conn[c]), op))
            <4>1. Counted(conn[c]).token = conn[c].token /\ Counted(conn[c]).state # "unborn"
                BY <1>1, <1>3, <3>1 DEF Carried, Follows, Open
            <4> QED BY <1>1, <1>3, <3>1, <3>4, <3>6, <4>1 DEF Stays, Open
        <3> QED BY <3>2, <3>3, <3>4, <3>5, <3>7 DEF Carried
    <2> QED BY <1>1, <2>1, <2>2, <2>3, BystandersTyped, AloneKeeps
<1> QED BY <1>4, <1>5

-----------------------------------------------------------------------------
\* The end of an operation

LEMMA PopCarried ==
    ASSUME LeaseInv, NEW c \in Conns, conn[c].queue # <<>>, NoLease(conn[c])
    PROVE  /\ Carried(conn[c], Pop(conn[c])) /\ Pop(conn[c]).state = conn[c].state
           /\ Pop(conn[c]).identity = conn[c].identity
<1>1. conn[c] \in ConnRecords /\ Good(conn[c])
    BY GoodNow
<1>2. /\ Pop(conn[c]) \in ConnRecords /\ Good(Pop(conn[c])) /\ Pop(conn[c]).state = conn[c].state
      /\ Pop(conn[c]).token = conn[c].token /\ Pop(conn[c]).identity = conn[c].identity
    BY <1>1, PopFields, PopGood
<1>3. Follows(conn[c], Pop(conn[c]))
    BY <1>1, <1>2, PopHolds DEF Follows
<1> QED BY <1>1, <1>2, <1>3, PopHolds DEF Carried

LEMMA FailKeeps ==
    ASSUME LeaseInv, NEW c \in Conns, Fail(c), conn[c].queue # <<>>, NoLease(conn[c]), Bystanders
    PROVE  LeaseInv'
<1> DEFINE D == {c} \cap {x \in Conns : Open(x)}
           cs == Popped(c)
<1>1. Disconnect(cs, D, OwnRequest(c))
    BY DEF Fail
<1>2. ASSUME NEW x \in Conns
      PROVE  /\ Carried(conn[x], cs[x])
             /\ cs[x].state = conn[x].state
             /\ IF x \in D THEN cs[x].state # "unborn" ELSE Stays(conn[x], cs[x])
    <2>1. cs[x] = IF x = c THEN Pop(conn[c]) ELSE conn[x]
        BY TableOf, PoppedIs
    <2>2. /\ x \in D => conn[x].state = "open"
          /\ x = c /\ x \notin D => conn[x].state # "open"
        BY DEF Open
    <2>3. Pop(conn[c]).state # "open" => Stays(conn[c], Pop(conn[c]))
        BY DEF Stays
    <2> HIDE DEF cs, D
    <2> QED BY <2>1, <2>2, <2>3, PopCarried, GoodNow
<1> HIDE DEF cs, D
<1> QED BY <1>1, <1>2, BystandersTyped, DisconnectKeeps

LEMMA FinishKeeps ==
    ASSUME LeaseInv, NEW c \in Conns, Finish(c), conn[c].queue # <<>>, Bystanders,
           conn[c].identity # None, conn[c].pc \notin {"connect", "beat"}
    PROVE  LeaseInv'
<1>1. conn' = [conn EXCEPT ![c] = Pop(conn[c])] /\ UNCHANGED memory
    BY TableOf, PoppedIs DEF Finish
<1>2. NoLease(conn[c])
    BY DEF NoLease, OnItsWay
<1>3. /\ Carried(conn[c], Pop(conn[c])) /\ Stays(conn[c], Pop(conn[c]))
      /\ Open(c) => Pop(conn[c]).state = "open"
    BY <1>2, PopCarried, NamedStays DEF Open
<1> QED BY <1>1, <1>3, BystandersTyped, AloneKeeps

-----------------------------------------------------------------------------
\* The operations of a connection

\* An operation under way: it stands at the head of the queue of a connection that is
\* neither unborn nor cleaned up.
LEMMA UnderWay ==
    ASSUME LeaseInv, NEW c \in Conns, conn[c].pc # "idle"
    PROVE  /\ conn[c].queue # <<>> /\ Op(c) \in Operations
           /\ conn[c].token \in Machines /\ conn[c].worker \in Workers
           /\ conn[c].state # "unborn" /\ ~conn[c].cleaned
           /\ conn[c].pc # "connect" => conn[c].identity # None
<1>1. conn[c] \in ConnRecords /\ Orderly(conn[c])
    BY GoodNow DEF Good
<1>2. conn[c].queue # <<>> /\ conn[c].queue \in Seq(Operations)
    BY <1>1 DEF Orderly, ConnRecords
<1>3. Op(c) \in Operations
    BY <1>2, HeadTailProperties DEF Op
<1>4. conn[c].pc \in Steps
    BY <1>1 DEF ConnRecords
<1> QED BY <1>1, <1>2, <1>3, <1>4 DEF Orderly

Begin(k, to, lost) == [Ask(k, to) EXCEPT !.stale = lost]

LEMMA BeginCarried ==
    ASSUME LeaseInv, NEW c \in Conns, conn[c].pc = "idle", conn[c].queue # <<>>, NEW to,
           \/ to = "connect" /\ conn[c].identity = None /\ Op(c).kind = "hello"
           \/ to = "active" /\ conn[c].identity # None
    PROVE  LET l == Begin(conn[c], to, ~HasLease(conn[c].identity))
           IN  Carried(conn[c], l) /\ Stays(conn[c], l) /\ l.state = conn[c].state
<1> DEFINE k == conn[c]  lost == ~HasLease(k.identity)  l == Begin(k, to, lost)
<1>1. k \in ConnRecords /\ Good(k) /\ to \in Steps /\ lost \in BOOLEAN
    BY GoodNow DEF Steps
<1>2. Ask(k, to) \in ConnRecords
    BY <1>1, AskFields
<1> HIDE DEF lost, k
<1>3. /\ l \in ConnRecords
      /\ l.state = k.state /\ l.token = k.token /\ l.worker = k.worker
      /\ l.identity = k.identity /\ l.queue = k.queue /\ l.pc = to
      /\ l.reply = "none" /\ l.granted = k.granted /\ l.cleaned = k.cleaned /\ l.stale = lost
    <2>1. /\ l \in ConnRecords
          /\ l.state = Ask(k, to).state /\ l.token = Ask(k, to).token /\ l.worker = Ask(k, to).worker
          /\ l.identity = Ask(k, to).identity /\ l.queue = Ask(k, to).queue /\ l.pc = Ask(k, to).pc
          /\ l.reply = Ask(k, to).reply /\ l.granted = Ask(k, to).granted
          /\ l.cleaned = Ask(k, to).cleaned /\ l.stale = lost
        BY <1>1, <1>2 DEF Begin, ConnRecords
    <2> QED BY <1>1, <2>1, AskFields
<1> HIDE DEF l
<1>4. Orderly(l)
    BY <1>1, <1>3 DEF Good, Orderly, Op, Steps, k
<1>5. Leases(l)
    BY <1>1, <1>3 DEF Good, Leases, OnItsWay
<1>6. Fenced(l)
    BY <1>1, <1>3 DEF Fenced, lost, k
<1>7. \A m \in Machines : (Holds(k, m) => Holds(l, m)) /\ (Newest(l, m) => Newest(k, m))
    BY <1>3 DEF Holds, Newest, OnItsWay, k
<1>9. Follows(k, l) /\ Stays(k, l)
    BY <1>3, <1>7 DEF Follows, Stays, Keeps, k
<1>8. Carried(k, l) /\ Stays(k, l) /\ l.state = k.state
    BY <1>3, <1>4, <1>5, <1>6, <1>7, <1>9 DEF Carried, Good
<1> QED BY <1>8 DEF l, k, lost

LEMMA StartKeeps ==
    ASSUME LeaseInv, NEW c \in Conns, Start(c)
    PROVE  LeaseInv'
<1>1. conn[c].pc = "idle" /\ conn[c].queue # <<>> /\ Bystanders
    BY DEF Start, Bystanders
<1>2. NoLease(conn[c])
    BY <1>1 DEF NoLease, OnItsWay
<1>3. CASE Fail(c)
    BY <1>1, <1>2, <1>3, FailKeeps
<1>4. CASE ~Fail(c)
    <2> DEFINE to == IF conn[c].identity = None THEN "connect" ELSE "active"
               l == Begin(conn[c], to, ~HasLease(conn[c].identity))
    <2>1. /\ conn' = [Asking(c, to) EXCEPT ![c].stale = ~HasLease(conn[c].identity)]
          /\ UNCHANGED memory
          /\ conn[c].identity = None => Op(c).kind = "hello"
        BY <1>4 DEF Start
    <2>2. \/ to = "connect" /\ conn[c].identity = None /\ Op(c).kind = "hello"
          \/ to = "active" /\ conn[c].identity # None
        BY <2>1
    <2>3. conn' = [conn EXCEPT ![c] = l]
        <3>1. Asking(c, to) = [conn EXCEPT ![c] = Ask(conn[c], to)]
            BY TableOf, AskingIs
        <3> HIDE DEF to
        <3> QED BY <2>1, <3>1, TableOf DEF Begin
    <2>4. Carried(conn[c], l) /\ Stays(conn[c], l) /\ l.state = conn[c].state
        BY <1>1, <2>2, BeginCarried
    <2> HIDE DEF l, to
    <2> QED BY <1>1, <2>1, <2>3, <2>4, BystandersTyped, AloneKeeps DEF Open
<1> QED BY <1>3, <1>4

\* The identity of a connection with the lease it was granted.
WithId(k, id) == [k EXCEPT !.identity = id]

LEMMA WithIdFields ==
    ASSUME NEW k \in ConnRecords, NEW id \in Identities
    PROVE  /\ WithId(k, id) \in ConnRecords
           /\ WithId(k, id).state = k.state /\ WithId(k, id).token = k.token
           /\ WithId(k, id).worker = k.worker /\ WithId(k, id).identity = id
           /\ WithId(k, id).queue = k.queue /\ WithId(k, id).pc = k.pc
           /\ WithId(k, id).reply = k.reply /\ WithId(k, id).granted = k.granted
           /\ WithId(k, id).cleaned = k.cleaned /\ WithId(k, id).stale = k.stale
BY DEF WithId, ConnRecords

\* The answer to a hello is kept.
LEMMA ConnectedCarried ==
    ASSUME LeaseInv, NEW c \in Conns, OnItsWay(conn[c], "connect")
    PROVE  LET id == [machine |-> conn[c].token, agent |-> Op(c).agent, lease |-> conn[c].granted]
               checking == WithId(Ask(conn[c], "check"), id)
               gone == WithId(Pop(conn[c]), id)
           IN  /\ Carried(conn[c], checking) /\ checking.state = conn[c].state
               /\ Stays(conn[c], checking)
               /\ Carried(conn[c], gone) /\ gone.state = conn[c].state
<1> DEFINE k == conn[c]
           id == [machine |-> k.token, agent |-> Op(c).agent, lease |-> k.granted]
           checking == WithId(Ask(k, "check"), id)
           gone == WithId(Pop(k), id)
<1>1. k \in ConnRecords /\ Good(k) /\ k.pc = "connect" /\ k.reply = "yes"
    BY GoodNow DEF OnItsWay
<1>2. /\ k.queue # <<>> /\ Op(c) \in Operations /\ k.token \in Machines /\ k.worker \in Workers
      /\ k.state # "unborn" /\ ~k.cleaned
    BY <1>1, UnderWay
<1>3. k.identity = None /\ Op(c).kind = "hello"
    BY <1>1 DEF Good, Orderly, Op
<1>4. Op(c).agent \in AgentIds
    BY <1>2, <1>3 DEF Operations
<1>5. k.granted \in Nat
    BY <1>1 DEF ConnRecords
<1>6. id \in Identities
    BY <1>2, <1>4, <1>5 DEF Identities
<1>7. id # None
    BY <1>6, GatewayAssumption
<1>8. id.machine = k.token /\ id.agent = Op(c).agent /\ id.lease = k.granted
    OBVIOUS
<1>9. Lease(row[k.token], Op(c).agent, k.granted)
    BY <1>1 DEF Good, Leases, Op, OnItsWay
<1>18. Head(k.queue).kind = "hello"
    BY <1>3 DEF Op
<1> HIDE DEF k, id
<1>10. "check" \in Steps /\ "check" # "idle"
    BY DEF Steps
<1>11. Ask(k, "check") \in ConnRecords /\ Pop(k) \in ConnRecords
    BY <1>1, <1>2, <1>10, AskFields, PopFields
<1>12. /\ checking \in ConnRecords /\ checking.state = k.state /\ checking.token = k.token
       /\ checking.worker = k.worker /\ checking.identity = id /\ checking.queue = k.queue
       /\ checking.pc = "check" /\ ~checking.cleaned
    BY <1>1, <1>2, <1>6, <1>10, <1>11, AskFields, WithIdFields
<1>13. /\ gone \in ConnRecords /\ gone.state = k.state /\ gone.token = k.token
       /\ gone.worker = k.worker /\ gone.identity = id /\ gone.pc = "idle" /\ ~gone.cleaned
    <2>1. /\ gone \in ConnRecords /\ gone.state = Pop(k).state /\ gone.token = Pop(k).token
          /\ gone.worker = Pop(k).worker /\ gone.identity = id /\ gone.pc = Pop(k).pc
          /\ gone.cleaned = Pop(k).cleaned
        BY <1>6, <1>11, WithIdFields
    <2>2. /\ Pop(k).state = k.state /\ Pop(k).token = k.token /\ Pop(k).worker = k.worker
          /\ Pop(k).pc = "idle" /\ Pop(k).cleaned = k.cleaned
        BY <1>1, <1>2, PopFields
    <2> HIDE DEF gone
    <2> QED BY <1>2, <2>1, <2>2
<1> HIDE DEF checking, gone
<1>14. Good(checking)
    <2>1. Orderly(checking)
        BY <1>2, <1>7, <1>8, <1>12, <1>18 DEF Orderly
    <2>2. Leases(checking) /\ Fenced(checking)
        BY <1>8, <1>9, <1>12 DEF Leases, Fenced, OnItsWay
    <2> QED BY <2>1, <2>2 DEF Good
<1>15. Good(gone)
    <2>1. Orderly(gone)
        BY <1>2, <1>7, <1>8, <1>13 DEF Orderly, Steps
    <2>2. Leases(gone) /\ Fenced(gone)
        BY <1>8, <1>9, <1>13 DEF Leases, Fenced, OnItsWay
    <2> QED BY <2>1, <2>2 DEF Good
<1>16. ASSUME NEW m \in Machines, Holds(k, m)
       PROVE  Holds(checking, m) /\ Holds(gone, m)
    <2>1. k.token = m /\ k.granted = row[m].lease
        BY <1>3, <1>16 DEF Holds, Newest
    <2> QED BY <1>7, <1>8, <1>12, <1>13, <2>1 DEF Holds, Newest
<1>19. ASSUME NEW m \in Machines, Newest(checking, m) \/ Newest(gone, m)
       PROVE  Newest(k, m)
    <2>1. k.token = m /\ k.granted = row[m].lease
        BY <1>7, <1>8, <1>12, <1>13, <1>19 DEF Newest, OnItsWay
    <2>2. OnItsWay(k, "connect")
        BY <1>1 DEF OnItsWay, k
    <2> QED BY <2>1, <2>2 DEF Newest
<1>20. ASSUME NEW m \in Machines, Keeps(k, m)
       PROVE  Keeps(checking, m)
    <2>1. /\ row[m].runtime = "online" /\ row[m].agent = Op(c).agent
          /\ k.granted = row[m].lease
        BY <1>1, <1>3, <1>20 DEF Keeps, Op, k
    <2> QED BY <1>7, <1>8, <1>12, <2>1 DEF Keeps
<1>17. /\ Carried(k, checking) /\ checking.state = k.state /\ Stays(k, checking)
       /\ Carried(k, gone) /\ gone.state = k.state
    <2>1. Follows(k, checking) /\ Follows(k, gone)
        BY <1>2, <1>12, <1>13, <1>19 DEF Follows
    <2>2. Stays(k, checking)
        BY <1>12, <1>20 DEF Stays
    <2> QED BY <1>12, <1>13, <1>14, <1>15, <1>16, <2>1, <2>2 DEF Carried
<1> QED BY <1>17 DEF k, id, checking, gone

LEMMA ResumeConnectKeeps ==
    ASSUME LeaseInv, NEW c \in Conns, ResumeConnect(c), Bystanders
    PROVE  LeaseInv'
<1> DEFINE id == [machine |-> conn[c].token, agent |-> Op(c).agent, lease |-> conn[c].granted]
           checking == WithId(Ask(conn[c], "check"), id)
           gone == WithId(Pop(conn[c]), id)
<1>1. conn[c].pc = "connect"
    BY DEF ResumeConnect, Returned
<1>2. conn[c].queue # <<>> /\ conn[c].state # "unborn"
    BY <1>1, UnderWay
<1>3. CASE ~Granted(c)
    <2>1. NoLease(conn[c])
        BY <1>1, <1>3 DEF NoLease, OnItsWay, Granted
    <2>2. Fail(c)
        BY <1>3 DEF ResumeConnect
    <2> QED BY <1>2, <2>1, <2>2, FailKeeps
<1>4. CASE Granted(c) /\ Open(c)
    <2>1. conn' = [Asking(c, "check") EXCEPT ![c].identity = id] /\ UNCHANGED memory
        BY <1>4 DEF ResumeConnect
    <2>2. conn' = [conn EXCEPT ![c] = checking]
        <3>1. Asking(c, "check") = [conn EXCEPT ![c] = Ask(conn[c], "check")]
            BY TableOf, AskingIs
        <3> HIDE DEF id
        <3> QED BY <2>1, <3>1, TableOf DEF WithId
    <2>3. /\ Carried(conn[c], checking) /\ checking.state = conn[c].state
          /\ Stays(conn[c], checking)
        BY <1>1, <1>4, ConnectedCarried DEF OnItsWay, Granted
    <2> HIDE DEF checking
    <2> QED BY <2>1, <2>2, <2>3, BystandersTyped, AloneKeeps DEF Open
<1>5. CASE Granted(c) /\ ~Open(c)
    <2> DEFINE cs == [Popped(c) EXCEPT ![c].identity = id]
    <2>1. Disconnect(cs, {}, {})
        BY <1>5 DEF ResumeConnect
    <2>2. Carried(conn[c], gone) /\ gone.state = conn[c].state
        BY <1>1, <1>5, ConnectedCarried DEF OnItsWay, Granted
    <2>3. ASSUME NEW x \in Conns
          PROVE  /\ Carried(conn[x], cs[x]) /\ cs[x].state = conn[x].state
                 /\ IF x \in {} THEN cs[x].state # "unborn" ELSE Stays(conn[x], cs[x])
        <3>1. Popped(c) = [conn EXCEPT ![c] = Pop(conn[c])]
            BY TableOf, PoppedIs
        <3>2. cs[x] = IF x = c THEN gone ELSE conn[x]
            <4> HIDE DEF id
            <4> QED BY <3>1, TableOf DEF WithId
        <3>3. conn[c].state # "open" /\ gone.state = conn[c].state
            BY <1>5, <2>2 DEF Open
        <3> HIDE DEF cs, gone
        <3>4. Stays(conn[c], gone)
            BY <3>3 DEF Stays
        <3> QED BY <2>2, <3>2, <3>4, GoodNow
    <2> HIDE DEF cs
    <2> QED BY <2>1, <2>3, BystandersTyped, DisconnectKeeps
<1> QED BY <1>3, <1>4, <1>5

LEMMA ResumeCheckKeeps ==
    ASSUME LeaseInv, NEW c \in Conns, ResumeCheck(c), Bystanders
    PROVE  LeaseInv'
<1> DEFINE k == conn[c]  D == Replaced(c)
           cs == [Asking(c, "ready") EXCEPT ![c].timer = FALSE]
           l == [Ask(k, "ready") EXCEPT !.timer = FALSE]
<1>1. k.pc = "check" /\ k \in ConnRecords /\ Good(k)
    BY GoodNow DEF ResumeCheck, Returned
<1>2. k.queue # <<>> /\ k.state # "unborn" /\ NoLease(k)
    BY <1>1, UnderWay DEF NoLease, OnItsWay
<1>3. CASE Fail(c)
    BY <1>2, <1>3, FailKeeps
<1>4. CASE ~Fail(c)
    <2>1. /\ conn' = Closing(cs, D) /\ Reject(Orphans(D))
          /\ sockets' = [SocketsLess(D) EXCEPT ![k.worker][k.identity.agent] = c]
        BY <1>4 DEF ResumeCheck
    <2>2. Reject(Orphans(D) \cup {})
        BY <2>1
    <2>3. sockets' \in [Workers -> [AgentIds -> Conns \cup {None}]]
        <3>1. SocketsLess(D) \in [Workers -> [AgentIds -> Conns \cup {None}]]
            BY DEF SocketsLess, LeaseInv, GatewayTypes, MemoryTypes
        <3> HIDE DEF D, k
        <3> QED BY <2>1, <3>1
    <2>4. Carried(k, l) /\ Stays(k, l) /\ l.state = k.state
        <3>1. "ready" \in Steps /\ "ready" # "idle"
            BY DEF Steps
        <3> HIDE DEF k
        <3>2. Ask(k, "ready") \in ConnRecords
            BY <1>1, <3>1, AskFields
        <3>3. /\ l \in ConnRecords
              /\ l.state = Ask(k, "ready").state /\ l.token = Ask(k, "ready").token
              /\ l.worker = Ask(k, "ready").worker /\ l.identity = Ask(k, "ready").identity
              /\ l.queue = Ask(k, "ready").queue /\ l.pc = Ask(k, "ready").pc
              /\ l.cleaned = Ask(k, "ready").cleaned
            BY <3>2 DEF ConnRecords
        <3>4. /\ l.state = k.state /\ l.token = k.token /\ l.worker = k.worker
              /\ l.identity = k.identity /\ l.queue = k.queue /\ l.pc = "ready"
              /\ l.cleaned = k.cleaned
            BY <1>1, <3>1, <3>3, AskFields
        <3> HIDE DEF l
        <3>5. Orderly(l)
            BY <1>1, <3>1, <3>4 DEF Good, Orderly, Steps
        <3>6. Leases(l) /\ Fenced(l)
            BY <1>1, <3>4 DEF Good, Leases, Fenced, OnItsWay
        <3>7. \A m \in Machines : (Holds(k, m) => Holds(l, m)) /\ (Newest(l, m) => Newest(k, m))
            BY <1>2, <3>4 DEF Holds, Newest, NoLease, OnItsWay
        <3>8. k.identity # None
            BY <1>1 DEF Good, Orderly, Steps
        <3>9. Follows(k, l) /\ Stays(k, l)
            BY <1>1, <3>4, <3>7, <3>8, NamedStays DEF Follows
        <3> QED BY <3>3, <3>4, <3>5, <3>6, <3>7, <3>9 DEF Carried, Good
    <2>5. ASSUME NEW x \in Conns
          PROVE  /\ Carried(conn[x], cs[x])
                 /\ cs[x].state = conn[x].state
                 /\ IF x \in D THEN cs[x].state # "unborn" ELSE Stays(conn[x], cs[x])
        <3>1. Asking(c, "ready") = [conn EXCEPT ![c] = Ask(k, "ready")]
            BY TableOf, AskingIs
        <3>2. cs[x] = IF x = c THEN l ELSE conn[x]
            BY <3>1, TableOf
        <3>3. x \in D => conn[x].state = "open"
            BY DEF Replaced, Open
        <3> HIDE DEF cs, l, D
        <3>4. Carried(conn[x], cs[x]) /\ Stays(conn[x], cs[x]) /\ cs[x].state = conn[x].state
            BY <2>4, <3>2, GoodNow DEF k
        <3> QED BY <3>3, <3>4
    <2> HIDE DEF cs, D, l, k
    <2> QED BY <2>1, <2>2, <2>3, <2>5, BystandersTyped, ClosingKeeps
<1> QED BY <1>3, <1>4

LEMMA ResumeReadyKeeps ==
    ASSUME LeaseInv, NEW c \in Conns, ResumeReady(c), Bystanders
    PROVE  LeaseInv'
<1>1. conn[c].pc = "ready" /\ (Finish(c) \/ Fail(c))
    BY DEF ResumeReady, Returned
<1>2. conn[c].queue # <<>> /\ conn[c].identity # None /\ NoLease(conn[c])
    BY <1>1, UnderWay DEF NoLease, OnItsWay
<1> QED BY <1>1, <1>2, FinishKeeps, FailKeeps

\* The operations behind requireActive and the write of a request.
LEMMA RefusedKeeps ==
    ASSUME LeaseInv, NEW c \in Conns, conn[c].pc \in {"active", "write"}, Bystanders,
           Fail(c) \/ Finish(c)
    PROVE  LeaseInv'
<1>1. conn[c].queue # <<>> /\ conn[c].identity # None /\ NoLease(conn[c])
    BY UnderWay DEF NoLease, OnItsWay
<1> QED BY <1>1, FinishKeeps, FailKeeps

\* requireActive has said yes: the operation was not fenced.
LEMMA AskCarried ==
    ASSUME LeaseInv, NEW c \in Conns, conn[c].pc = "active", conn[c].reply = "yes",
           NEW to \in {"beat", "write"}, to = "beat" => Op(c).kind = "heartbeat"
    PROVE  /\ Carried(conn[c], Ask(conn[c], to)) /\ Stays(conn[c], Ask(conn[c], to))
           /\ Ask(conn[c], to).state = conn[c].state
<1> DEFINE k == conn[c]  l == Ask(k, to)
<1>1. k \in ConnRecords /\ Good(k) /\ k.pc = "active" /\ k.reply = "yes" /\ to \in Steps
    BY GoodNow DEF Steps
<1>2. k.queue # <<>> /\ k.identity # None /\ k.state # "unborn"
    BY <1>1, UnderWay
<1>8. to = "beat" => Head(k.queue).kind = "heartbeat"
    BY DEF Op
<1> HIDE DEF k
<1>3. /\ l \in ConnRecords
      /\ l.state = k.state /\ l.token = k.token /\ l.worker = k.worker
      /\ l.identity = k.identity /\ l.queue = k.queue /\ l.pc = to
      /\ l.reply = "none" /\ l.cleaned = k.cleaned /\ l.stale = k.stale
    BY <1>1, AskFields
<1> HIDE DEF l
<1>4. Orderly(l)
    BY <1>1, <1>2, <1>3, <1>8 DEF Good, Orderly
<1>5. Leases(l) /\ Fenced(l)
    BY <1>1, <1>3 DEF Good, Leases, Fenced, OnItsWay
<1>6. \A m \in Machines : (Holds(k, m) => Holds(l, m)) /\ (Newest(l, m) => Newest(k, m))
    BY <1>1, <1>3 DEF Holds, Newest, OnItsWay
<1>9. Follows(k, l) /\ Stays(k, l)
    BY <1>1, <1>2, <1>3, <1>6, NamedStays DEF Follows
<1>7. Carried(k, l) /\ Stays(k, l) /\ l.state = k.state
    BY <1>3, <1>4, <1>5, <1>6, <1>9 DEF Carried, Good
<1> QED BY <1>7 DEF k, l

LEMMA ResumeHeartbeatKeeps ==
    ASSUME LeaseInv, NEW c \in Conns, ResumeHeartbeat(c), Bystanders
    PROVE  LeaseInv'
<1>1. /\ conn[c].pc = "active" /\ conn[c].reply = "yes" /\ Open(c) /\ Op(c).kind = "heartbeat"
      /\ conn' = Asking(c, "beat") /\ UNCHANGED memory
    BY DEF ResumeHeartbeat, Admitted, Returned, Granted
<1>2. conn' = [conn EXCEPT ![c] = Ask(conn[c], "beat")]
    BY <1>1, TableOf, AskingIs
<1>3. /\ Carried(conn[c], Ask(conn[c], "beat")) /\ Stays(conn[c], Ask(conn[c], "beat"))
      /\ Ask(conn[c], "beat").state = conn[c].state
    BY <1>1, AskCarried
<1> QED BY <1>1, <1>2, <1>3, BystandersTyped, AloneKeeps DEF Open

\* A heartbeat returns with a new lease: it is kept, also by a connection closed meanwhile.
LEMMA ResumeBeatKeeps ==
    ASSUME LeaseInv, NEW c \in Conns, ResumeBeat(c), Bystanders
    PROVE  LeaseInv'
<1> DEFINE k == conn[c]
           id == [k.identity EXCEPT !.lease = k.granted]
           l == WithId(Pop(k), id)
<1>1. k.pc = "beat" /\ k \in ConnRecords /\ Good(k)
    BY GoodNow DEF ResumeBeat, Returned
<1>2. /\ k.queue # <<>> /\ k.state # "unborn" /\ ~k.cleaned
      /\ k.token \in Machines /\ k.worker \in Workers
    BY <1>1, UnderWay
<1>3. CASE ~Granted(c)
    <2>1. NoLease(k)
        BY <1>1, <1>3 DEF NoLease, OnItsWay, Granted
    <2>2. Fail(c)
        BY <1>3 DEF ResumeBeat
    <2> QED BY <1>2, <2>1, <2>2, FailKeeps
<1>4. CASE Granted(c)
    <2>1. /\ conn' = [Popped(c) EXCEPT ![c].identity.lease = k.granted] /\ UNCHANGED memory
        BY <1>4 DEF ResumeBeat
    <2>2. Popped(c) = [conn EXCEPT ![c] = Pop(k)]
        BY TableOf, PoppedIs
    <2>3. Pop(k) \in ConnRecords /\ Pop(k).identity = k.identity
        BY <1>1, <1>2, PopFields
    <2>4. conn' = [conn EXCEPT ![c] = l]
        <3>1. conn' = [Popped(c) EXCEPT ![c] = [Popped(c)[c] EXCEPT !.identity = [Popped(c)[c].identity EXCEPT !.lease = k.granted]]]
            BY <2>1
        <3>2. Popped(c)[c] = Pop(k)
            BY <2>2, TableOf
        <3> HIDE DEF k
        <3> QED BY <2>2, <2>3, <3>1, <3>2, TableOf DEF WithId
    <2>5. k.identity # None /\ k.identity \in Identities /\ k.granted \in Nat /\ k.identity.machine = k.token
        BY <1>1 DEF Good, Orderly, Steps, ConnRecords
    <2>6. /\ id \in Identities /\ id # None
          /\ id.machine = k.token /\ id.agent = k.identity.agent /\ id.lease = k.granted
        <3>1. /\ id \in Identities
              /\ id.machine = k.token /\ id.agent = k.identity.agent /\ id.lease = k.granted
            BY <2>5 DEF Identities
        <3> QED BY <3>1, GatewayAssumption
    <2>7. Lease(row[k.token], k.identity.agent, k.granted) /\ k.granted = k.identity.lease + 1
        BY <1>1, <1>4 DEF Good, Leases, OnItsWay, Granted
    <2> HIDE DEF id, k
    <2>8. /\ l \in ConnRecords /\ l.state = k.state /\ l.token = k.token /\ l.worker = k.worker
          /\ l.identity = id /\ l.pc = "idle" /\ ~l.cleaned
        <3>1. /\ l \in ConnRecords /\ l.state = Pop(k).state /\ l.token = Pop(k).token
              /\ l.worker = Pop(k).worker /\ l.identity = id /\ l.pc = Pop(k).pc
              /\ l.cleaned = Pop(k).cleaned
            BY <2>3, <2>6, WithIdFields
        <3>2. /\ Pop(k).state = k.state /\ Pop(k).token = k.token /\ Pop(k).worker = k.worker
              /\ Pop(k).pc = "idle" /\ Pop(k).cleaned = k.cleaned
            BY <1>1, <1>2, PopFields
        <3> HIDE DEF l
        <3> QED BY <1>2, <3>1, <3>2
    <2> HIDE DEF l
    <2>9. Orderly(l)
        BY <1>2, <2>6, <2>8 DEF Orderly, Steps
    <2>10. Leases(l) /\ Fenced(l)
        BY <2>6, <2>7, <2>8 DEF Leases, Fenced, OnItsWay
    <2>11. ASSUME NEW m \in Machines, Holds(k, m)
           PROVE  Holds(l, m)
        <3>1. k.token = m /\ (k.granted = row[m].lease \/ k.identity.lease = row[m].lease)
            BY <2>11 DEF Holds, Newest
        <3>2. k.granted <= row[m].lease
            BY <2>7, <3>1 DEF Lease
        <3>3. row[m].lease \in Nat /\ k.identity.lease \in Nat
            BY <2>5 DEF LeaseInv, GatewayTypes, Rows, Identities
        <3>4. k.granted = row[m].lease
            BY <2>5, <2>7, <3>1, <3>2, <3>3
        <3> QED BY <2>6, <2>8, <3>1, <3>4 DEF Holds, Newest
    <2>14. ASSUME NEW m \in Machines, Newest(l, m)
           PROVE  Newest(k, m)
        <3>1. k.token = m /\ k.granted = row[m].lease
            BY <2>6, <2>8, <2>14 DEF Newest, OnItsWay
        <3>2. OnItsWay(k, "beat")
            BY <1>1, <1>4 DEF OnItsWay, Granted, k
        <3> QED BY <3>1, <3>2 DEF Newest
    <2>15. ASSUME NEW m \in Machines, k.token = m, Keeps(k, m)
           PROVE  Keeps(l, m)
        <3>1. k.granted = row[m].lease \/ k.identity.lease = row[m].lease
            BY <1>4, <2>5, <2>15 DEF Keeps, Granted, k
        <3>2. k.granted <= row[m].lease
            BY <2>7, <2>15 DEF Lease
        <3>3. row[m].lease \in Nat /\ k.identity.lease \in Nat
            BY <2>5 DEF LeaseInv, GatewayTypes, Rows, Identities
        <3>4. k.granted = row[m].lease
            BY <2>5, <2>7, <3>1, <3>2, <3>3
        <3>5. row[m].runtime = "online" /\ row[m].agent = k.identity.agent
            BY <2>5, <2>15 DEF Keeps
        <3> QED BY <2>6, <2>8, <3>4, <3>5 DEF Keeps
    <2>16. Follows(k, l) /\ Stays(k, l)
        BY <1>2, <2>8, <2>14, <2>15 DEF Follows, Stays, k
    <2>12. Carried(k, l) /\ Stays(k, l) /\ l.state = k.state
        BY <2>8, <2>9, <2>10, <2>11, <2>16 DEF Carried, Good
    <2>13. Carried(conn[c], l) /\ Stays(conn[c], l) /\ (Open(c) => l.state = "open")
        BY <2>12 DEF k, Open
    <2> QED BY <2>1, <2>4, <2>13, BystandersTyped, AloneKeeps
<1> QED BY <1>3, <1>4

LEMMA ResumeRefusedKeeps ==
    ASSUME LeaseInv, NEW c \in Conns, ResumeRefused(c), Bystanders
    PROVE  LeaseInv'
BY RefusedKeeps DEF ResumeRefused, Returned

LEMMA ResumeResponseKeeps ==
    ASSUME LeaseInv, NEW c \in Conns, ResumeResponse(c), Bystanders
    PROVE  LeaseInv'
<1> DEFINE q == Op(c).req
<1>1. /\ conn[c].pc = "active" /\ conn[c].reply = "yes" /\ Open(c) /\ Op(c).kind = "response"
    BY DEF ResumeResponse, Admitted, Returned, Granted
<1>2. /\ conn[c].queue # <<>> /\ Op(c) \in Operations /\ NoLease(conn[c])
      /\ conn[c].identity # None
    BY <1>1, UnderWay DEF NoLease, OnItsWay
<1>3. CASE Finish(c) \/ Fail(c)
    BY <1>1, <1>3, RefusedKeeps
<1>4. CASE ~(Finish(c) \/ Fail(c))
    <2>1. /\ pending[q] = c /\ conn' = Popped(c)
          /\ pending' = [pending EXCEPT ![q] = None]
          /\ result' = [result EXCEPT ![q] = "answered"]
          /\ sockets' = sockets /\ delivered' = delivered
        BY <1>4 DEF ResumeResponse
    <2>2. q \in Requests
        BY <1>1, <1>2 DEF Operations
    <2>3. conn' = [conn EXCEPT ![c] = Pop(conn[c])]
        BY <2>1, TableOf, PoppedIs
    <2>4. /\ Carried(conn[c], Pop(conn[c])) /\ Stays(conn[c], Pop(conn[c]))
          /\ Pop(conn[c]).state = conn[c].state
        BY <1>1, <1>2, PopCarried, NamedStays
    <2> HIDE DEF q
    <2>5. MemoryTypes
        BY DEF LeaseInv, GatewayTypes
    <2>6. MemoryTypes'
        BY <2>1, <2>2, <2>5 DEF MemoryTypes
    <2>7. \A r \in Requests : pending'[r] # None => r # q /\ pending'[r] = pending[r]
        BY <2>1, <2>2, <2>5 DEF MemoryTypes
    <2>8. WaitsForTarget'
        BY <2>1, <2>7 DEF LeaseInv, WaitsForTarget
    <2>9. \A r \in Requests : pending'[r] # None => pending'[r] \in Conns /\ Open(pending'[r])
        BY <2>5, <2>7 DEF LeaseInv, PendingIsOpen, MemoryTypes
    <2> QED
        BY <1>1, <2>3, <2>4, <2>6, <2>8, <2>9, BystandersTyped, OneKeeps DEF Open
<1> QED BY <1>3, <1>4

LEMMA ResumeRequestKeeps ==
    ASSUME LeaseInv, NEW c \in Conns, ResumeRequest(c), Bystanders
    PROVE  LeaseInv'
<1> DEFINE q == Op(c).req
<1>1. /\ conn[c].pc = "active" /\ conn[c].reply = "yes" /\ Open(c) /\ Op(c).kind = "request"
    BY DEF ResumeRequest, Admitted, Returned, Granted
<1>2. conn[c].queue # <<>> /\ Op(c) \in Operations
    BY <1>1, UnderWay
<1>3. CASE Fail(c)
    BY <1>1, <1>3, RefusedKeeps
<1>4. CASE ~Fail(c)
    <2>1. /\ conn' = Asking(c, "write")
          /\ pending' = [pending EXCEPT ![q] = c]
          /\ delivered' = [delivered EXCEPT ![q] = c]
          /\ sockets' = sockets /\ result' = result
        BY <1>4 DEF ResumeRequest
    <2>2. q \in Requests
        BY <1>1, <1>2 DEF Operations
    <2>3. conn' = [conn EXCEPT ![c] = Ask(conn[c], "write")]
        BY <2>1, TableOf, AskingIs
    <2>4. /\ Carried(conn[c], Ask(conn[c], "write")) /\ Stays(conn[c], Ask(conn[c], "write"))
          /\ Ask(conn[c], "write").state = conn[c].state
        BY <1>1, AskCarried
    <2> HIDE DEF q
    <2>5. MemoryTypes
        BY DEF LeaseInv, GatewayTypes
    <2>6. MemoryTypes'
        BY <2>1, <2>2, <2>5 DEF MemoryTypes
    <2>7. \A r \in Requests : /\ pending'[r] = IF r = q THEN c ELSE pending[r]
                              /\ delivered'[r] = IF r = q THEN c ELSE delivered[r]
        BY <2>1, <2>2, <2>5 DEF MemoryTypes
    <2>8. WaitsForTarget'
        BY <2>7 DEF LeaseInv, WaitsForTarget
    <2>9. \A r \in Requests : pending'[r] # None => pending'[r] \in Conns /\ Open(pending'[r])
        BY <1>1, <2>5, <2>7 DEF LeaseInv, PendingIsOpen, MemoryTypes
    <2> QED
        BY <1>1, <2>3, <2>4, <2>6, <2>8, <2>9, BystandersTyped, OneKeeps DEF Open
<1> QED BY <1>3, <1>4

LEMMA ResumeKeeps ==
    ASSUME LeaseInv, NEW c \in Conns, Resume(c)
    PROVE  LeaseInv'
<1>1. Bystanders
    BY DEF Resume, Bystanders
<1>2. CASE ResumeConnect(c)
    BY <1>1, <1>2, ResumeConnectKeeps
<1>3. CASE ResumeCheck(c)
    BY <1>1, <1>3, ResumeCheckKeeps
<1>4. CASE ResumeReady(c)
    BY <1>1, <1>4, ResumeReadyKeeps
<1>5. CASE ResumeRefused(c)
    BY <1>1, <1>5, ResumeRefusedKeeps
<1>6. CASE ResumeHeartbeat(c)
    BY <1>1, <1>6, ResumeHeartbeatKeeps
<1>7. CASE ResumeBeat(c)
    BY <1>1, <1>7, ResumeBeatKeeps
<1>8. CASE ResumeResponse(c)
    BY <1>1, <1>8, ResumeResponseKeeps
<1>9. CASE ResumeRequest(c)
    BY <1>1, <1>9, ResumeRequestKeeps
<1> QED BY <1>2, <1>3, <1>4, <1>5, <1>6, <1>7, <1>8, <1>9 DEF Resume

LEMMA WriteKeeps ==
    ASSUME LeaseInv, NEW c \in Conns, Write(c)
    PROVE  LeaseInv'
BY RefusedKeeps DEF Write, Written, WriteFails, Bystanders

-----------------------------------------------------------------------------
\* Callers, deletions and crashes

LEMMA RequestTimeoutKeeps ==
    ASSUME LeaseInv, NEW r \in Requests, RequestTimeout(r)
    PROVE  LeaseInv'
<1>1. /\ pending' = [pending EXCEPT ![r] = None]
      /\ result' = [result EXCEPT ![r] = "failed"]
      /\ row' = row /\ conn' = conn /\ faults' = faults /\ sockets' = sockets
      /\ delivered' = delivered /\ ready' = ready /\ revoking' = revoking
    BY DEF RequestTimeout
<1>2. MemoryTypes
    BY DEF LeaseInv, GatewayTypes
<1>3. GatewayTypes'
    <2>1. MemoryTypes'
        BY <1>1, <1>2 DEF MemoryTypes
    <2> QED BY <1>1, <2>1 DEF LeaseInv, GatewayTypes
<1>4. \A q \in Requests : pending'[q] # None => pending'[q] = pending[q]
    BY <1>1, <1>2 DEF MemoryTypes
<1>5. PendingIsOpen' /\ WaitsForTarget'
    BY <1>1, <1>4 DEF LeaseInv, PendingIsOpen, WaitsForTarget, Open
<1>6. \A x \in Conns : /\ Good(conn'[x])
                       /\ Follows(conn[x], conn'[x]) /\ Stays(conn[x], conn'[x])
    BY <1>1, GoodNow DEF Carried
<1>7. \A x \in Conns, m \in Machines : Holds(conn[x], m) => Holds(conn'[x], m)
    BY <1>1
<1> QED BY <1>1, <1>3, <1>5, <1>6, <1>7, QuietKeeps

LEMMA RequestKeeps ==
    ASSUME LeaseInv, NEW r \in Requests, NEW w \in Workers, NEW a \in AgentIds, NEW m \in Machines,
           Request(r, w, a, m)
    PROVE  LeaseInv'
<1> DEFINE c == sockets[w][a]
           op == [kind |-> "request", req |-> r, machine |-> m]
<1>1. Bystanders
    BY DEF Request, Bystanders
<1>2. MemoryTypes
    BY DEF LeaseInv, GatewayTypes
<1>3. CASE c = None \/ ~Open(c)
    <2>1. /\ result' = [result EXCEPT ![r] = "failed"]
          /\ conn' = conn /\ sockets' = sockets /\ pending' = pending /\ delivered' = delivered
        BY <1>3 DEF Request
    <2>2. MemoryTypes'
        BY <1>2, <2>1 DEF MemoryTypes
    <2>3. GatewayTypes'
        BY <1>1, <2>1, <2>2, BystandersTyped DEF LeaseInv, GatewayTypes
    <2>4. PendingIsOpen' /\ WaitsForTarget'
        BY <2>1 DEF LeaseInv, PendingIsOpen, WaitsForTarget, Open
    <2>5. \A x \in Conns : /\ Good(conn'[x])
                           /\ Follows(conn[x], conn'[x]) /\ Stays(conn[x], conn'[x])
        BY <2>1, GoodNow DEF Carried
    <2>6. \A x \in Conns, n \in Machines : Holds(conn[x], n) => Holds(conn'[x], n)
        BY <2>1
    <2>7. row' = row /\ faults' = faults
        BY <1>1 DEF Bystanders
    <2> QED BY <2>2, <2>3, <2>4, <2>5, <2>6, <2>7, QuietKeeps
<1>4. CASE ~(c = None \/ ~Open(c))
    <2>1. c \in Conns /\ Open(c)
        BY <1>2, <1>4 DEF MemoryTypes
    <2>2. CASE Full(c)
        <3>1. Disconnect(conn, {c}, {r})
            BY <1>4, <2>2 DEF Request
        <3> HIDE DEF c
        <3>2. \A x \in Conns : /\ Carried(conn[x], conn[x]) /\ Stays(conn[x], conn[x])
                               /\ x \in {c} => conn[x].state # "unborn"
            BY <2>1, GoodNow DEF Open
        <3> QED BY <1>1, <3>1, <3>2, BystandersTyped, DisconnectKeeps
    <2>3. CASE ~Full(c)
        <3>1. /\ conn' = [conn EXCEPT ![c].queue = Append(@, op)]
              /\ result' = [result EXCEPT ![r] = "waiting"]
              /\ sockets' = sockets /\ pending' = pending /\ delivered' = delivered
            BY <1>4, <2>3 DEF Request
        <3>2. op \in Operations
            BY DEF Operations
        <3> HIDE DEF c, op
        <3>3. conn' = [conn EXCEPT ![c] = Push(conn[c], op)]
            BY <3>1 DEF Push
        <3>4. /\ Carried(conn[c], Push(conn[c], op)) /\ Push(conn[c], op).state = "open"
              /\ Stays(conn[c], Push(conn[c], op))
            <4>1. conn[c] \in ConnRecords /\ Good(conn[c]) /\ conn[c].state = "open"
                BY <2>1, GoodNow DEF Open
            <4>2. Push(conn[c], op) \in ConnRecords /\ Good(Push(conn[c], op))
                BY <3>2, <4>1, PushFields, PushGood
            <4>3. \A n \in Machines : Holds(conn[c], n) => Holds(Push(conn[c], op), n)
                BY <3>2, <4>1, PushHolds
            <4>4. Push(conn[c], op).state = "open" /\ Push(conn[c], op).token = conn[c].token
                BY <3>2, <4>1, PushFields
            <4>5. Follows(conn[c], Push(conn[c], op)) /\ Stays(conn[c], Push(conn[c], op))
                BY <3>2, <4>1, <4>4, PushHolds, PushStays DEF Follows
            <4> QED BY <4>2, <4>3, <4>4, <4>5 DEF Carried
        <3>5. MemoryTypes' /\ WaitsForTarget'
            BY <1>2, <3>1 DEF LeaseInv, MemoryTypes, WaitsForTarget
        <3>6. \A q \in Requests : pending'[q] # None => pending'[q] \in Conns /\ Open(pending'[q])
            BY <1>2, <3>1 DEF LeaseInv, MemoryTypes, PendingIsOpen
        <3> QED BY <1>1, <2>1, <3>3, <3>4, <3>5, <3>6, BystandersTyped, OneKeeps
    <2> QED BY <2>2, <2>3
<1> QED BY <1>3, <1>4

LEMMA RevokeKeeps ==
    ASSUME LeaseInv, NEW v \in revoking, Revoke(v)
    PROVE  LeaseInv'
<1> DEFINE D == {c \in Conns : /\ Open(c) /\ conn[c].worker = v.worker
                              /\ conn[c].identity # None
                              /\ conn[c].identity.machine = v.machine}
<1>1. /\ Disconnect(conn, D, {}) /\ revoking' = revoking \ {v}
      /\ row' = row /\ ready' = ready /\ faults' = faults
    BY DEF Revoke
<1>2. \A x \in Conns \cap D : Open(x)
    OBVIOUS
<1>3. revoking' \subseteq [machine : Machines, worker : Workers] /\ ready' \subseteq Machines
    BY <1>1 DEF LeaseInv, GatewayTypes
<1> HIDE DEF D
<1> QED BY <1>1, <1>2, <1>3, CloseKeeps

\* What a dying process leaves of a connection.
Dead(k) == [k EXCEPT !.state = "dead", !.queue = <<>>, !.pc = "idle", !.reply = "none",
                     !.granted = 0, !.stale = FALSE, !.cleaned = TRUE]

LEMMA DeadGood ==
    ASSUME NEW k \in ConnRecords, Good(k), k.state \in {"open", "closed"}
    PROVE  /\ Dead(k) \in ConnRecords /\ Good(Dead(k)) /\ Dead(k).state = "dead"
           /\ Follows(k, Dead(k)) /\ Stays(k, Dead(k))
<1>1. /\ Dead(k) \in ConnRecords
      /\ Dead(k).state = "dead" /\ Dead(k).token = k.token /\ Dead(k).worker = k.worker
      /\ Dead(k).identity = k.identity /\ Dead(k).queue = <<>> /\ Dead(k).pc = "idle"
      /\ Dead(k).reply = "none" /\ Dead(k).cleaned /\ ~Dead(k).stale
    BY EmptySeq DEF Dead, ConnRecords
<1>2. Orderly(Dead(k))
    BY <1>1 DEF Good, Orderly, Steps
<1>3. Leases(Dead(k)) /\ Fenced(Dead(k))
    BY <1>1 DEF Good, Leases, Fenced, OnItsWay
<1>4. \A m \in Machines : Newest(Dead(k), m) => Newest(k, m)
    BY <1>1 DEF Newest, OnItsWay
<1>5. Follows(k, Dead(k)) /\ Stays(k, Dead(k))
    BY <1>1, <1>4 DEF Follows, Stays
<1> QED BY <1>1, <1>2, <1>3, <1>5 DEF Good

LEMMA ProcessDiesKeeps ==
    ASSUME LeaseInv, NEW w \in Workers, ProcessDies(w)
    PROVE  LeaseInv'
<1> DEFINE D == {c \in Conns : conn[c].worker = w /\ conn[c].state \in {"open", "closed"}}
           mine == {r \in Requests : \/ pending[r] \in D
                                     \/ \E c \in D : \E i \in 1 .. Len(conn[c].queue) :
                                          conn[c].queue[i].kind = "request" /\ conn[c].queue[i].req = r}
<1>1. /\ conn' = [c \in Conns |-> IF c \in D THEN Dead(conn[c]) ELSE conn[c]]
      /\ sockets' = [sockets EXCEPT ![w] = [a \in AgentIds |-> None]]
      /\ Reject(mine)
      /\ revoking' = {v \in revoking : v.worker # w}
      /\ row' = row /\ ready' = ready /\ faults' = faults + 1
    BY DEF ProcessDies, Fault, Dead
<1>2. \A r \in Requests : pending[r] \in D => r \in mine
    OBVIOUS
<1>3. \A x \in D : conn[x].state \in {"open", "closed"}
    OBVIOUS
<1> HIDE DEF D, mine
<1>4. \A x \in Conns : /\ conn'[x] \in ConnRecords /\ Good(conn'[x])
                       /\ Follows(conn[x], conn'[x]) /\ Stays(conn[x], conn'[x])
    BY <1>1, <1>3, GoodNow, DeadGood DEF Carried
<1>5. MemoryTypes
    BY DEF LeaseInv, GatewayTypes
<1>6. MemoryTypes'
    <2>1. sockets' \in [Workers -> [AgentIds -> Conns \cup {None}]]
        BY <1>1, <1>5 DEF MemoryTypes
    <2>2. pending' \in [Requests -> Conns \cup {None}] /\ delivered' = delivered
        BY <1>1, <1>5 DEF Reject, MemoryTypes
    <2>3. result' \in [Requests -> {"none", "waiting", "failed", "answered"}]
        BY <1>1, <1>5 DEF Reject, MemoryTypes
    <2> QED BY <1>5, <2>1, <2>2, <2>3 DEF MemoryTypes
<1>7. faults \in Nat /\ faults' \in Nat /\ faults' # 0
    BY <1>1 DEF LeaseInv, GatewayTypes
<1>8. GatewayTypes'
    <2>1. conn' \in [Conns -> ConnRecords]
        BY <1>1, <1>4
    <2>2. revoking' \subseteq [machine : Machines, worker : Workers] /\ ready' \subseteq Machines
        BY <1>1 DEF LeaseInv, GatewayTypes
    <2> QED BY <1>1, <1>6, <1>7, <2>1, <2>2 DEF LeaseInv, GatewayTypes
<1>9. ASSUME NEW r \in Requests, pending'[r] # None
      PROVE  pending'[r] = pending[r] /\ pending[r] \in Conns /\ pending[r] \notin D
    BY <1>1, <1>2, <1>5, <1>9 DEF Reject, MemoryTypes
<1>10. PendingIsOpen' /\ WaitsForTarget'
    <2>1. delivered' = delivered
        BY <1>1 DEF Reject
    <2>2. \A r \in Requests : pending'[r] # None => conn'[pending'[r]].state = "open"
        BY <1>1, <1>9 DEF LeaseInv, PendingIsOpen, Open
    <2> QED BY <1>9, <2>1, <2>2 DEF LeaseInv, PendingIsOpen, WaitsForTarget, Open
<1> QED BY <1>1, <1>4, <1>6, <1>7, <1>8, <1>10, QuietKeeps

\* A cleanup whose statement fails.
Cleaned(k) == [k EXCEPT !.cleaned = TRUE]

LEMMA CleanedGood ==
    ASSUME NEW k \in ConnRecords, Good(k), k.state = "closed", k.queue = <<>>
    PROVE  /\ Cleaned(k) \in ConnRecords /\ Good(Cleaned(k))
           /\ Cleaned(k).state = "closed" /\ Cleaned(k).identity = k.identity
           /\ Cleaned(k).token = k.token /\ Cleaned(k).pc = "idle" /\ Cleaned(k).cleaned
           /\ Follows(k, Cleaned(k)) /\ Stays(k, Cleaned(k))
<1>1. /\ Cleaned(k) \in ConnRecords
      /\ Cleaned(k).state = "closed" /\ Cleaned(k).token = k.token /\ Cleaned(k).worker = k.worker
      /\ Cleaned(k).identity = k.identity /\ Cleaned(k).queue = <<>> /\ Cleaned(k).pc = k.pc
      /\ Cleaned(k).reply = k.reply /\ Cleaned(k).granted = k.granted
      /\ Cleaned(k).cleaned /\ Cleaned(k).stale = k.stale
    BY DEF Cleaned, ConnRecords
<1>2. Orderly(Cleaned(k)) /\ k.pc = "idle"
    BY <1>1 DEF Good, Orderly
<1>3. Leases(Cleaned(k)) /\ Fenced(Cleaned(k))
    BY <1>1 DEF Good, Leases, Fenced, OnItsWay
<1>4. \A m \in Machines : Newest(Cleaned(k), m) => Newest(k, m)
    BY <1>1 DEF Newest, OnItsWay
<1>5. Follows(k, Cleaned(k)) /\ Stays(k, Cleaned(k))
    BY <1>1, <1>4 DEF Follows, Stays
<1> QED BY <1>1, <1>2, <1>3, <1>5 DEF Good

\* A cleanup that leaves the rows alone, of a connection that holds nothing or with a fault.
LEMMA CleanedKeeps ==
    ASSUME LeaseInv, NEW c \in Conns, conn[c].state = "closed", conn[c].queue = <<>>,
           conn' = [conn EXCEPT ![c] = Cleaned(conn[c])],
           row' = row, ready' = ready, revoking' = revoking, UNCHANGED memory, faults' \in Nat,
           faults' = 0 =>
               /\ faults = 0
               /\ \A m \in Machines : row[m].runtime = "online" /\ row[m].user = "active" =>
                     ~Holds(conn[c], m)
    PROVE  LeaseInv'
<1>1. sockets' = sockets /\ pending' = pending /\ result' = result /\ delivered' = delivered
    BY DEF memory
<1>2. conn \in [Conns -> ConnRecords]
    BY TableOf
<1>3. /\ Cleaned(conn[c]) \in ConnRecords /\ Good(Cleaned(conn[c]))
      /\ Cleaned(conn[c]).state = "closed"
      /\ Follows(conn[c], Cleaned(conn[c])) /\ Stays(conn[c], Cleaned(conn[c]))
    BY GoodNow, CleanedGood
<1>4. \A x \in Conns : conn'[x] = IF x = c THEN Cleaned(conn[c]) ELSE conn[x]
    BY <1>2
<1>5. \A x \in Conns : /\ Good(conn'[x]) /\ conn'[x].state = conn[x].state
                       /\ Follows(conn[x], conn'[x]) /\ Stays(conn[x], conn'[x])
    BY <1>3, <1>4, GoodNow DEF Carried
<1>6. GatewayTypes'
    <2>1. conn' \in [Conns -> ConnRecords]
        BY <1>2, <1>3
    <2>2. MemoryTypes'
        BY <1>1 DEF LeaseInv, GatewayTypes, MemoryTypes
    <2> QED BY <2>1, <2>2 DEF LeaseInv, GatewayTypes
<1>7. PendingIsOpen' /\ WaitsForTarget'
    BY <1>1, <1>5 DEF LeaseInv, GatewayTypes, MemoryTypes, PendingIsOpen, WaitsForTarget, Open
<1>8. \A m \in Machines, x \in Conns : ~Holds(conn[c], m) /\ Holds(conn[x], m) => Holds(conn'[x], m)
    BY <1>4
<1> QED BY <1>5, <1>6, <1>7, <1>8, QuietKeeps

LEMMA OfflineFailsKeeps ==
    ASSUME LeaseInv, NEW c \in Conns, OfflineFails(c)
    PROVE  LeaseInv'
<1>1. /\ conn[c].state = "closed" /\ conn[c].queue = <<>>
      /\ conn' = [conn EXCEPT ![c] = Cleaned(conn[c])]
      /\ row' = row /\ ready' = ready /\ revoking' = revoking /\ faults' = faults + 1
      /\ UNCHANGED memory
    BY DEF OfflineFails, Fault, Cleaned
<1>2. faults' \in Nat /\ faults' # 0
    BY <1>1 DEF LeaseInv, GatewayTypes
<1> QED BY <1>1, <1>2, CleanedKeeps

-----------------------------------------------------------------------------
\* Steps that change a row

\* What any step may do to a row: a deleted one stays deleted and a user once disabled
\* is never as before, a new lease is the next one, and a row that keeps its lease changes
\* in its user alone.
Moves(r, s) ==
    /\ s.status = "active" => r.status = "active"
    /\ s.user = "active" => r.user = "active"
    /\ \/ s = r
       \/ s.lease = r.lease + 1
       \/ /\ s.lease = r.lease /\ s.agent = r.agent /\ s.status = r.status
          /\ s.runtime = r.runtime /\ s.holder = r.holder

\* The row is the identity's: what HasLease asks of it.
Names(r, id) == r.status = "active" /\ r.agent = id.agent /\ r.lease = id.lease

LEMMA LeaseMoves ==
    ASSUME NEW r \in Rows, NEW s \in Rows, Moves(r, s), NEW a, NEW n \in Nat, Lease(r, a, n)
    PROVE  Lease(s, a, n)
<1>1. r.lease \in Nat /\ s.lease \in Nat /\ n <= r.lease
    BY DEF Rows, Lease
<1>2. CASE s = r
    BY <1>2
<1>3. CASE s.lease = r.lease + 1
    BY <1>1, <1>3 DEF Lease
<1>4. CASE s.lease = r.lease /\ s.agent = r.agent /\ s.status = r.status /\ s.runtime = r.runtime
    BY <1>1, <1>4 DEF Lease
<1> QED BY <1>2, <1>3, <1>4 DEF Moves

\* A lease that is not current never becomes it again.
LEMMA NamesMoves ==
    ASSUME NEW r \in Rows, NEW s \in Rows, Moves(r, s), NEW id \in Identities,
           id.lease <= r.lease, Names(s, id)
    PROVE  Names(r, id)
<1>1. r.lease \in Nat /\ s.lease \in Nat /\ id.lease \in Nat
    BY DEF Rows, Identities
<1>2. s.lease # r.lease + 1
    BY <1>1 DEF Names
<1> QED BY <1>2 DEF Moves, Names

LEMMA HasLeaseIs == \A id : HasLease(id) <=> id # None /\ Names(row[id.machine], id)
BY DEF HasLease, Names

\* A machine whose row and connections stay as they are, its user aside, is held as before.
LEMMA HolderStays ==
    ASSUME LeaseInv, NEW m \in Machines,
           row'[m].lease = row[m].lease, row'[m].agent = row[m].agent,
           row'[m].status = row[m].status, row'[m].runtime = row[m].runtime,
           row'[m].holder = row[m].holder,
           \A x \in Conns : conn'[x] = conn[x] \/ (conn[x].token # m /\ conn'[x].token # m)
    PROVE  HolderSound(m)'
<1>1. HolderSound(m)
    BY DEF LeaseInv, HoldersSound
<1>2. ASSUME NEW c \in Conns, Newest(conn[c], m)'
      PROVE  row'[m].holder = c
    <2>1. conn'[c] = conn[c]
        BY <1>2 DEF Newest
    <2>2. Newest(conn[c], m)
        BY <1>2, <2>1 DEF Newest
    <2> QED BY <1>1, <2>2 DEF HolderSound
<1>3. ASSUME NEW c \in Conns, row'[m].holder = c
      PROVE  /\ conn'[c].state # "unborn" /\ conn'[c].token = m
             /\ conn'[c].state = "open" /\ row'[m].status = "active" => Keeps(conn[c], m)'
    <2>1. /\ conn[c].state # "unborn" /\ conn[c].token = m
          /\ conn[c].state = "open" /\ row[m].status = "active" => Keeps(conn[c], m)
        BY <1>1, <1>3 DEF HolderSound, Open
    <2>2. conn'[c] = conn[c]
        BY <2>1
    <2> QED BY <2>1, <2>2 DEF Keeps
<1> QED BY <1>2, <1>3 DEF HolderSound, Open

\* With a new lease nobody but the holder the step names can have it.
LEMMA HolderMoves ==
    ASSUME LeaseInv, NEW m \in Machines, row'[m].lease = row[m].lease + 1,
           \A x \in Conns : conn'[x] = conn[x] \/ conn'[x].token # m \/ row'[m].holder = x,
           \A x \in Conns : row'[m].holder = x =>
               /\ conn'[x].state # "unborn" /\ conn'[x].token = m
               /\ conn'[x].state = "open" /\ row'[m].status = "active" => Keeps(conn[x], m)'
    PROVE  HolderSound(m)'
<1>1. row[m].lease \in Nat
    BY DEF LeaseInv, GatewayTypes, Rows
<1>2. ASSUME NEW c \in Conns, Newest(conn[c], m)', row'[m].holder # c
      PROVE  FALSE
    <2> DEFINE k == conn[c]
    <2>1. conn'[c] = k
        BY <1>2 DEF Newest
    <2>2. k \in ConnRecords /\ Orderly(k) /\ Leases(k)
        BY GoodNow DEF Good
    <2> HIDE DEF k
    <2>3. /\ k.token = m
          /\ \/ k.identity # None /\ k.identity.lease = row[m].lease + 1
             \/ (OnItsWay(k, "connect") \/ OnItsWay(k, "beat")) /\ k.granted = row[m].lease + 1
        BY <1>2, <2>1 DEF Newest
    <2>4. /\ k.identity # None => k.identity.lease <= row[m].lease
          /\ OnItsWay(k, "connect") \/ OnItsWay(k, "beat") => k.granted <= row[m].lease
        BY <2>2, <2>3 DEF Orderly, Leases, Lease
    <2> QED BY <1>1, <2>3, <2>4
<1> QED BY <1>2 DEF HolderSound, Open

\* The invariant holds if the rows move, the records the step changed are sound, and
\* without a fault a machine that is online has got a holder or keeps those it had.
LEMMA MoveKeeps ==
    ASSUME LeaseInv, UNCHANGED memory, ready' \subseteq Machines,
           revoking' \subseteq [machine : Machines, worker : Workers], faults' \in Nat,
           row' \in [Machines -> Rows], \A m \in Machines : Moves(row[m], row'[m]),
           conn' \in [Conns -> ConnRecords],
           \A x \in Conns : /\ Orderly(conn'[x]) /\ conn'[x].state = conn[x].state
                            /\ conn'[x] = conn[x] \/ (Leases(conn[x])' /\ Fenced(conn[x])'),
           HoldersSound',
           \A m \in Machines : row'[m].runtime = "online" =>
               /\ row'[m].status = "active"
               /\ faults' = 0 /\ row'[m].user = "active" =>
                    \/ \E x \in Conns : Holds(conn[x], m)'
                    \/ /\ faults = 0 /\ row[m].runtime = "online"
                       /\ \A x \in Conns : Holds(conn[x], m) => Holds(conn[x], m)'
    PROVE  LeaseInv'
<1>1. sockets' = sockets /\ pending' = pending /\ result' = result /\ delivered' = delivered
    BY DEF memory
<1>2. row \in [Machines -> Rows]
    BY DEF LeaseInv, GatewayTypes
<1>3. GatewayTypes' /\ WaitsForTarget'
    BY <1>1 DEF LeaseInv, GatewayTypes, MemoryTypes, WaitsForTarget
<1>4. PendingIsOpen'
    BY <1>1 DEF LeaseInv, GatewayTypes, MemoryTypes, PendingIsOpen, Open
<1>5. ASSUME NEW x \in Conns
      PROVE  Orderly(conn'[x]) /\ Leases(conn[x])' /\ Fenced(conn[x])'
    <2>1. CASE conn'[x] = conn[x]
        <3> DEFINE k == conn[x]
        <3>1. k \in ConnRecords /\ Orderly(k) /\ Leases(k) /\ Fenced(k)
            BY GoodNow DEF Good
        <3>2. /\ k.token \in Machines \cup {None}
              /\ k.granted \in Nat
              /\ k.pc # "idle" => k.token \in Machines
              /\ k.identity # None => /\ k.identity \in Identities
                                      /\ k.identity.machine \in Machines
                                      /\ k.identity.machine = k.token
                                      /\ k.identity.lease \in Nat
            BY <3>1 DEF ConnRecords, Orderly, Identities
        <3>3. conn'[x] = k
            BY <2>1
        <3> HIDE DEF k
        <3>4. k.identity # None =>
                  Lease(row'[k.identity.machine], k.identity.agent, k.identity.lease)
            BY <1>2, <3>1, <3>2, LeaseMoves DEF Leases
        <3>5. OnItsWay(k, "connect") => Lease(row'[k.token], Head(k.queue).agent, k.granted)
            BY <1>2, <3>1, <3>2, LeaseMoves DEF Leases, OnItsWay
        <3>6. OnItsWay(k, "beat") =>
                  /\ Lease(row'[k.token], k.identity.agent, k.granted)
                  /\ k.granted = k.identity.lease + 1
            BY <1>2, <3>1, <3>2, LeaseMoves DEF Leases, OnItsWay
        <3>7. Leases(conn[x])'
            BY <3>3, <3>4, <3>5, <3>6 DEF Leases
        <3>8. k.pc = "active" /\ k.stale => ~HasLease(k.identity) /\ k.reply # "yes"
            BY <3>1 DEF Fenced
        <3>9. k.identity # None => k.identity.lease <= row[k.identity.machine].lease
            BY <3>1 DEF Leases, Lease
        <3>10. ~HasLease(k.identity) =>
                 ~(k.identity # None /\ Names(row'[k.identity.machine], k.identity))
            BY <1>2, <3>2, <3>9, NamesMoves, HasLeaseIs
        <3>11. Fenced(conn[x])'
            BY <3>1, <3>3, <3>8, <3>10 DEF Fenced, HasLease, Names
        <3> QED BY <3>7, <3>11
    <2>2. CASE conn'[x] # conn[x]
        BY <2>2
    <2> QED BY <2>1, <2>2
<1>6. OnlineIsHeld'
    <2> SUFFICES ASSUME NEW m \in Machines, row'[m].runtime = "online"
                 PROVE  /\ row'[m].status = "active"
                        /\ faults' = 0 /\ row'[m].user = "active" =>
                             \E x \in Conns : Holds(conn[x], m)'
        BY DEF OnlineIsHeld
    <2>1. ASSUME faults' = 0, faults = 0, row[m].runtime = "online", row'[m].user = "active",
                 \A x \in Conns : Holds(conn[x], m) => Holds(conn[x], m)'
          PROVE  \E x \in Conns : Holds(conn[x], m)'
        <3>2. row[m].user = "active"
            BY <2>1 DEF Moves
        <3>1. PICK x \in Conns : Holds(conn[x], m)
            BY <2>1, <3>2 DEF LeaseInv, OnlineIsHeld
        <3> QED BY <2>1, <3>1
    <2> QED BY <2>1
<1>7. ConnsSound'
    BY <1>5 DEF ConnsSound
<1> QED BY <1>3, <1>4, <1>6, <1>7 DEF LeaseInv

\* One connection changes and the row of its token, of which it is the holder now.
LEMMA OneMoves ==
    ASSUME LeaseInv, UNCHANGED memory, ready' \subseteq Machines,
           revoking' \subseteq [machine : Machines, worker : Workers], faults' \in Nat,
           NEW c \in Conns, NEW l \in ConnRecords, conn' = [conn EXCEPT ![c] = l],
           Orderly(l), l.state = conn[c].state, l.state # "unborn", l.token = conn[c].token,
           row' \in [Machines -> Rows],
           \A m \in Machines : m # conn[c].token => row'[m] = row[m],
           conn[c].token \in Machines, Moves(row[conn[c].token], row'[conn[c].token]),
           row'[conn[c].token].lease = row[conn[c].token].lease + 1,
           row'[conn[c].token].holder = c,
           Leases(conn[c])', Fenced(conn[c])',
           NEW t \in Machines, t = conn[c].token, l.state = "open" => Keeps(conn[c], t)',
           row'[t].runtime = "online" =>
               row'[t].status = "active" /\ (faults' = 0 => Holds(conn[c], t)'),
           faults' = 0 => faults = 0
    PROVE  LeaseInv'
<1>1. conn \in [Conns -> ConnRecords]
    BY TableOf
<1>2. conn' \in [Conns -> ConnRecords] /\ conn'[c] = l
    BY <1>1
<1>3. \A x \in Conns \ {c} : conn'[x] = conn[x]
    BY <1>1
<1>4. conn'[c].token = t /\ conn[c].token = t /\ t \in Machines
    BY <1>2
<1>5. \A m \in Machines : Moves(row[m], row'[m])
    BY DEF Moves
<1>6. ASSUME NEW x \in Conns
      PROVE  /\ Orderly(conn'[x]) /\ conn'[x].state = conn[x].state
             /\ conn'[x] = conn[x] \/ (Leases(conn[x])' /\ Fenced(conn[x])')
    <2>1. CASE x = c
        BY <1>2, <2>1
    <2>2. CASE x # c
        BY <1>3, <2>2, GoodNow DEF Good
    <2> QED BY <2>1, <2>2
<1>7. ASSUME NEW m \in Machines, row'[m].runtime = "online"
      PROVE  /\ row'[m].status = "active"
             /\ faults' = 0 /\ row'[m].user = "active" =>
                  \/ \E x \in Conns : Holds(conn[x], m)'
                  \/ /\ faults = 0 /\ row[m].runtime = "online"
                     /\ \A x \in Conns : Holds(conn[x], m) => Holds(conn[x], m)'
    <2>1. CASE m = t
        BY <1>7, <2>1
    <2>2. CASE m # t
        <3>1. row'[m] = row[m]
            BY <1>4, <2>2
        <3>2. \A x \in Conns \ {c} : Holds(conn[x], m) => Holds(conn[x], m)'
            BY <1>3, <3>1 DEF Holds, Newest
        <3>3. ~Holds(conn[c], m)
            BY <1>4, <2>2 DEF Holds, Newest
        <3>4. row'[m].status = "active"
            BY <1>7, <3>1 DEF LeaseInv, OnlineIsHeld
        <3> QED BY <1>7, <3>1, <3>2, <3>3, <3>4
    <2> QED BY <2>1, <2>2
<1>8. ASSUME NEW m \in Machines
      PROVE  HolderSound(m)'
    <2>1. CASE m = t
        <3>1. /\ row'[m].lease = row[m].lease + 1 /\ row'[m].holder = c
              /\ conn'[c].state # "unborn" /\ conn'[c].token = m
              /\ conn'[c].state = "open" => Keeps(conn[c], m)'
            BY <1>2, <1>4, <2>1
        <3> QED BY <1>3, <3>1, HolderMoves
    <2>2. CASE m # t
        <3>1. row'[m] = row[m]
            BY <1>4, <2>2
        <3>2. \A x \in Conns : conn'[x] = conn[x] \/ (conn[x].token # m /\ conn'[x].token # m)
            BY <1>3, <1>4, <2>2
        <3> QED BY <3>1, <3>2, HolderStays
    <2> QED BY <2>1, <2>2
<1>9. HoldersSound'
    BY <1>8 DEF HoldersSound
<1> QED BY <1>2, <1>5, <1>6, <1>7, <1>9, MoveKeeps

-----------------------------------------------------------------------------
\* The statements of an operation

\* The answer of a statement, with the lease it granted if it grants one.
Told(k, a) == [k EXCEPT !.reply = a]
Grants(k, a, n) == [k EXCEPT !.reply = a, !.granted = n]

LEMMA ToldFields ==
    ASSUME NEW k \in ConnRecords, NEW a \in {"yes", "no", "error"}
    PROVE  /\ Told(k, a) \in ConnRecords
           /\ Told(k, a).state = k.state /\ Told(k, a).token = k.token
           /\ Told(k, a).worker = k.worker /\ Told(k, a).identity = k.identity
           /\ Told(k, a).queue = k.queue /\ Told(k, a).pc = k.pc
           /\ Told(k, a).reply = a /\ Told(k, a).granted = k.granted
           /\ Told(k, a).cleaned = k.cleaned /\ Told(k, a).stale = k.stale
BY DEF Told, ConnRecords

\* What the statements of a connection leave alone, and how many faults they count.
Stated(reply) ==
    /\ UNCHANGED memory /\ ready' \subseteq Machines
    /\ revoking' = revoking /\ faults' \in Nat
    /\ \/ reply = "yes" /\ faults' = faults
       \/ reply = "error" /\ faults' > 0

LEMMA RowsNow ==
    ASSUME LeaseInv
    PROVE  /\ row \in [Machines -> Rows] /\ conn \in [Conns -> ConnRecords] /\ faults \in Nat
           /\ revoking \subseteq [machine : Machines, worker : Workers]
BY DEF LeaseInv, GatewayTypes

\* No row changes and the connection, still in the same operation, gets an answer that
\* brings no lease; an operation that was fenced gets no yes.
LEMMA AnswerKeeps ==
    ASSUME LeaseInv, NEW reply, Stated(reply), row' = row,
           NEW c \in Conns, NEW l \in ConnRecords, conn' = [conn EXCEPT ![c] = l],
           conn[c].pc # "idle", conn[c].reply = "none",
           l.state = conn[c].state, l.token = conn[c].token, l.worker = conn[c].worker,
           l.identity = conn[c].identity, l.queue = conn[c].queue, l.pc = conn[c].pc,
           l.cleaned = conn[c].cleaned, l.stale = conn[c].stale, NoLease(l),
           l.pc = "active" /\ ~HasLease(l.identity) => l.reply # "yes"
    PROVE  LeaseInv'
<1> DEFINE k == conn[c]
<1>1. k \in ConnRecords /\ Orderly(k) /\ Leases(k) /\ Fenced(k) /\ k.state # "unborn"
    BY GoodNow, UnderWay DEF Good
<1>2. conn'[c] = l /\ \A x \in Conns \ {c} : conn'[x] = conn[x]
    BY RowsNow
<1> HIDE DEF k
<1>3. Good(l)
    <2>1. Orderly(l)
        BY <1>1 DEF Orderly, k
    <2>2. Leases(l)
        BY <1>1 DEF Leases, NoLease, k
    <2>3. Fenced(l)
        BY <1>1 DEF Fenced, k
    <2> QED BY <2>1, <2>2, <2>3 DEF Good
<1>4. \A m \in Machines : (Newest(l, m) => Newest(k, m)) /\ (Holds(k, m) => Holds(l, m))
    BY DEF Holds, Newest, NoLease, OnItsWay, k
<1>5. Follows(k, l)
    BY <1>1, <1>4 DEF Follows, k
<1>6. Stays(k, l)
    BY DEF Stays, Keeps, k
<1>7. \A x \in Conns : /\ Good(conn'[x]) /\ conn'[x].state = conn[x].state
                       /\ Follows(conn[x], conn'[x]) /\ Stays(conn[x], conn'[x])
                       /\ \A m \in Machines : Holds(conn[x], m) => Holds(conn'[x], m)
    BY <1>2, <1>3, <1>4, <1>5, <1>6, GoodNow DEF Carried, k
<1>8. sockets' = sockets /\ pending' = pending /\ result' = result /\ delivered' = delivered
    BY DEF Stated, memory
<1>9. GatewayTypes'
    <2>1. conn' \in [Conns -> ConnRecords]
        BY RowsNow
    <2>2. MemoryTypes'
        BY <1>8 DEF LeaseInv, GatewayTypes, MemoryTypes
    <2> QED BY <2>1, <2>2 DEF LeaseInv, GatewayTypes, Stated
<1>10. PendingIsOpen' /\ WaitsForTarget'
    BY <1>7, <1>8 DEF LeaseInv, GatewayTypes, MemoryTypes, PendingIsOpen, WaitsForTarget, Open
<1>11. faults' = 0 => faults = 0
    BY RowsNow DEF Stated
<1> QED BY <1>7, <1>9, <1>10, <1>11, QuietKeeps

LEMMA ExecuteActiveKeeps ==
    ASSUME LeaseInv, NEW c \in Conns, NEW reply, Stated(reply), ExecuteActive(c, reply)
    PROVE  LeaseInv'
<1> DEFINE k == conn[c]
           a == IF Current(k.identity) THEN reply ELSE "no"
           l == Told(k, a)
<1>1. /\ k.pc \in {"check", "active"} /\ k.reply = "none" /\ row' = row
      /\ conn' = [conn EXCEPT ![c] = l]
    BY DEF ExecuteActive, Told
<1>2. a \in {"yes", "no", "error"} /\ (~Current(k.identity) => a = "no")
    BY DEF Stated
<1>3. k \in ConnRecords
    BY GoodNow
<1> HIDE DEF a
<1>4. /\ l \in ConnRecords
      /\ l.state = k.state /\ l.token = k.token /\ l.worker = k.worker
      /\ l.identity = k.identity /\ l.queue = k.queue /\ l.pc = k.pc
      /\ l.reply = a /\ l.cleaned = k.cleaned /\ l.stale = k.stale
    BY <1>2, <1>3, ToldFields
<1> HIDE DEF l
<1>5. NoLease(l)
    BY <1>1, <1>4 DEF NoLease, OnItsWay
<1>6. l.pc = "active" /\ ~HasLease(l.identity) => l.reply # "yes"
    BY <1>2, <1>4 DEF Current
<1> QED BY <1>1, <1>4, <1>5, <1>6, AnswerKeeps

LEMMA ExecuteReadyKeeps ==
    ASSUME LeaseInv, NEW c \in Conns, NEW reply, Stated(reply), ExecuteReady(c, reply)
    PROVE  LeaseInv'
<1> DEFINE k == conn[c]
           l == Told(k, reply)
<1>1. /\ k.pc = "ready" /\ k.reply = "none" /\ row' = row
      /\ conn' = [conn EXCEPT ![c] = l]
    BY DEF ExecuteReady, Told, Awaiting
<1>2. reply \in {"yes", "no", "error"}
    BY DEF Stated
<1>3. k \in ConnRecords
    BY GoodNow
<1>4. /\ l \in ConnRecords
      /\ l.state = k.state /\ l.token = k.token /\ l.worker = k.worker
      /\ l.identity = k.identity /\ l.queue = k.queue /\ l.pc = k.pc
      /\ l.reply = reply /\ l.cleaned = k.cleaned /\ l.stale = k.stale
    BY <1>2, <1>3, ToldFields
<1> HIDE DEF l
<1>5. NoLease(l)
    BY <1>1, <1>4 DEF NoLease, OnItsWay
<1>6. l.pc = "active" /\ ~HasLease(l.identity) => l.reply # "yes"
    BY <1>1, <1>4
<1> QED BY <1>1, <1>4, <1>5, <1>6, AnswerKeeps

\* A statement that fails before it takes effect.
LEMMA FailedStatementKeeps ==
    ASSUME LeaseInv, NEW c \in Conns, Stated("error"), row' = row,
           conn[c].pc # "idle", conn[c].reply = "none", conn' = [conn EXCEPT ![c].reply = "error"]
    PROVE  LeaseInv'
<1> DEFINE k == conn[c]
           l == Told(k, "error")
<1>1. conn' = [conn EXCEPT ![c] = l]
    BY DEF Told
<1>2. k \in ConnRecords
    BY GoodNow
<1>3. /\ l \in ConnRecords
      /\ l.state = k.state /\ l.token = k.token /\ l.worker = k.worker
      /\ l.identity = k.identity /\ l.queue = k.queue /\ l.pc = k.pc
      /\ l.reply = "error" /\ l.cleaned = k.cleaned /\ l.stale = k.stale
    BY <1>2, ToldFields
<1> HIDE DEF l
<1>4. NoLease(l) /\ l.reply # "yes"
    BY <1>3 DEF NoLease, OnItsWay
<1> QED BY <1>1, <1>3, <1>4, AnswerKeeps

\* The row a hello takes over and the row a heartbeat keeps.
Taken(r, a, n, c) == [r EXCEPT !.agent = a, !.runtime = "online", !.lease = n, !.holder = c]
Kept(r, n) == [r EXCEPT !.runtime = "online", !.lease = n]

LEMMA TakenFields ==
    ASSUME NEW r \in Rows, NEW a \in AgentIds, NEW n \in Nat, NEW c \in Conns
    PROVE  LET s == Taken(r, a, n, c)
           IN  /\ s \in Rows /\ s.status = r.status /\ s.user = r.user
               /\ s.agent = a /\ s.runtime = "online" /\ s.lease = n /\ s.holder = c
BY DEF Taken, Rows

LEMMA KeptFields ==
    ASSUME NEW r \in Rows, NEW n \in Nat
    PROVE  LET s == Kept(r, n)
           IN  /\ s \in Rows /\ s.status = r.status /\ s.user = r.user
               /\ s.agent = r.agent /\ s.runtime = "online" /\ s.lease = n /\ s.holder = r.holder
BY DEF Kept, Rows

LEMMA ExecuteConnectKeeps ==
    ASSUME LeaseInv, NEW c \in Conns, NEW reply, Stated(reply), ExecuteConnect(c, reply)
    PROVE  LeaseInv'
<1> DEFINE k == conn[c]
           t == k.token
           ag == Op(c).agent
           granted == /\ Enabled(t)
                      /\ \A n \in Machines \ {t} : row[n].agent # ag
           n == IF granted THEN row[t].lease + 1 ELSE 0
           a == IF granted THEN reply ELSE "no"
           l == Grants(k, a, n)
<1>0. row' = IF granted
             THEN [row EXCEPT ![t].agent = ag, ![t].runtime = "online",
                              ![t].lease = row[t].lease + 1, ![t].holder = c]
             ELSE row
    BY DEF ExecuteConnect, Awaiting, Renewed
<1>1. k.pc = "connect" /\ k.reply = "none" /\ conn' = [conn EXCEPT ![c] = l]
    BY DEF ExecuteConnect, Grants, Awaiting, Renewed
<1>2. a \in {"yes", "no", "error"} /\ (a = "yes" => granted)
    BY DEF Stated
<1>3. /\ k \in ConnRecords /\ Orderly(k) /\ k.queue # <<>> /\ t \in Machines /\ ~k.cleaned
      /\ k.identity = None /\ Op(c).kind = "hello" /\ ag \in AgentIds
    <2>1. /\ k \in ConnRecords /\ Orderly(k) /\ k.queue # <<>> /\ t \in Machines /\ ~k.cleaned
          /\ Op(c) \in Operations
        BY <1>1, GoodNow, UnderWay DEF Good
    <2>2. k.identity = None /\ Op(c).kind = "hello"
        BY <1>1, <2>1 DEF Orderly, Op
    <2> QED BY <2>1, <2>2 DEF Operations
<1>4. row \in [Machines -> Rows] /\ row[t] \in Rows /\ row[t].lease \in Nat
    BY <1>3, RowsNow DEF Rows
<1>5. n \in Nat
    BY <1>4
<1>6. ag = Head(k.queue).agent
    BY DEF Op
<1>7. granted => /\ row' \in [Machines -> Rows] /\ row'[t] \in Rows
                 /\ row'[t].status = row[t].status /\ row'[t].status = "active"
                 /\ row'[t].user = row[t].user /\ row'[t].holder = c
                 /\ row'[t].lease = row[t].lease + 1 /\ row'[t].lease = n
                 /\ row'[t].runtime = "online" /\ row'[t].agent = ag
                 /\ \A m \in Machines : m # t => row'[m] = row[m]
    <2> SUFFICES ASSUME granted
                 PROVE  /\ row' \in [Machines -> Rows] /\ row'[t] \in Rows
                        /\ row'[t].status = row[t].status /\ row'[t].status = "active"
                        /\ row'[t].user = row[t].user /\ row'[t].holder = c
                        /\ row'[t].lease = row[t].lease + 1 /\ row'[t].lease = n
                        /\ row'[t].runtime = "online" /\ row'[t].agent = ag
                        /\ \A m \in Machines : m # t => row'[m] = row[m]
        OBVIOUS
    <2> DEFINE next == row[t].lease + 1  s == Taken(row[t], ag, next, c)
    <2>1. row' = [row EXCEPT ![t] = s]
        BY <1>0 DEF Taken
    <2>2. /\ s \in Rows /\ s.status = row[t].status /\ s.lease = row[t].lease + 1
          /\ s.user = row[t].user /\ s.holder = c
          /\ s.runtime = "online" /\ s.agent = ag
        <3>1. next \in Nat
            BY <1>4
        <3> HIDE DEF next, ag, t
        <3>2. /\ s \in Rows /\ s.status = row[t].status /\ s.lease = next
              /\ s.user = row[t].user /\ s.holder = c
              /\ s.runtime = "online" /\ s.agent = ag
            BY <1>3, <1>4, <3>1, TakenFields
        <3> QED BY <3>2 DEF next
    <2>3. row[t].status = "active" /\ n = row[t].lease + 1
        BY DEF Enabled
    <2> HIDE DEF s, n, granted, ag
    <2>4. row'[t] = s
        BY <1>3, <1>4, <2>1
    <2> QED BY <1>3, <1>4, <2>1, <2>2, <2>3, <2>4
<1>8. ~granted => row' = row /\ a = "no"
    BY <1>0
<1> HIDE DEF n, a, granted
<1>9. /\ l \in ConnRecords
      /\ l.state = k.state /\ l.token = k.token /\ l.worker = k.worker
      /\ l.identity = k.identity /\ l.queue = k.queue /\ l.pc = k.pc
      /\ l.reply = a /\ l.granted = n /\ l.cleaned = k.cleaned /\ l.stale = k.stale
    <2> HIDE DEF k, t, ag
    <2>1. k \in ConnRecords /\ a \in {"yes", "no", "error"} /\ n \in Nat
        BY <1>2, <1>3, <1>5
    <2> QED BY <2>1 DEF Grants, ConnRecords
<1> HIDE DEF l
<1>10. CASE ~granted
    <2>1. NoLease(l)
        BY <1>8, <1>9, <1>10 DEF NoLease, OnItsWay
    <2>2. l.pc = "active" /\ ~HasLease(l.identity) => l.reply # "yes"
        BY <1>1, <1>9
    <2> QED BY <1>1, <1>8, <1>9, <1>10, <2>1, <2>2, AnswerKeeps
<1>11. CASE granted
    <2>1. conn'[c] = l
        BY <1>1, RowsNow
    <2> HIDE DEF ag
    <2>2. Lease(row'[t], ag, n) /\ Moves(row[t], row'[t])
        <3> HIDE DEF k, t
        <3> DEFINE r == row[t]  s == row'[t]
        <3>1. /\ r \in Rows /\ s \in Rows /\ s.status = r.status /\ s.lease = r.lease + 1
              /\ s.user = r.user
              /\ s.runtime = "online" /\ s.agent = ag /\ s.lease = n
            BY <1>4, <1>7, <1>11
        <3> HIDE DEF r, s
        <3>2. Lease(s, s.agent, s.lease) /\ Moves(r, s)
            BY <3>1 DEF Rows, Lease, Moves
        <3> QED BY <3>1, <3>2 DEF r, s
    <2>3. Leases(conn[c])'
        BY <1>1, <1>3, <1>6, <1>9, <2>1, <2>2 DEF Leases, OnItsWay
    <2>4. Fenced(conn[c])'
        BY <1>1, <1>9, <2>1 DEF Fenced
    <2>5. Orderly(l)
        BY <1>3, <1>9 DEF Orderly
    <2>20. PICK u \in Machines : u = t
        BY <1>3
    <2>8. Keeps(conn[c], u)'
        <3>1. a \in {"yes", "error"}
            BY <1>11 DEF a, Stated
        <3>2. /\ conn'[c] = l /\ l.identity = None /\ l.pc = "connect" /\ l.granted = n
              /\ l.queue = k.queue /\ l.reply = a
            BY <1>1, <1>3, <1>9, <2>1
        <3>3. row'[u].runtime = "online" /\ row'[u].agent = ag /\ row'[u].lease = n
            BY <2>20, <1>7, <1>11
        <3> HIDE DEF t, k
        <3> QED BY <1>6, <3>1, <3>2, <3>3 DEF Keeps
    <2>6. faults' = 0 => Holds(conn[c], u)'
        <3>1. faults' = 0 => reply = "yes"
            BY DEF Stated
        <3>2. a = reply
            BY <1>11 DEF a
        <3>3. conn'[c] = l /\ l.token = u /\ ~l.cleaned /\ l.pc = "connect" /\ l.granted = n
            BY <2>20, <1>1, <1>3, <1>9, <2>1
        <3>4. l.reply = a /\ row'[u].lease = n
            BY <2>20, <1>7, <1>9, <1>11
        <3> HIDE DEF t, k
        <3> QED BY <3>1, <3>2, <3>3, <3>4 DEF Holds, Newest, OnItsWay
    <2>7. /\ faults' \in Nat /\ (faults' = 0 => faults = 0) /\ UNCHANGED memory
          /\ ready' \subseteq Machines
          /\ revoking' \subseteq [machine : Machines, worker : Workers]
        BY RowsNow DEF Stated
    <2>9. /\ row' \in [Machines -> Rows] /\ \A m \in Machines : m # t => row'[m] = row[m]
          /\ row'[t].lease = row[t].lease + 1 /\ row'[t].holder = c
          /\ row'[t].status = "active"
        BY <1>7, <1>11
    <2>10. /\ l.state = k.state /\ l.state # "unborn" /\ l.token = t
           /\ conn' = [conn EXCEPT ![c] = l]
        BY <1>1, <1>9, UnderWay
    <2> QED BY <1>3, <1>9, <2>2, <2>3, <2>4, <2>5, <2>6, <2>7, <2>8, <2>9, <2>10, <2>20, OneMoves
<1> QED BY <1>10, <1>11

LEMMA ExecuteHeartbeatKeeps ==
    ASSUME LeaseInv, NEW c \in Conns, NEW reply, Stated(reply), ExecuteHeartbeat(c, reply)
    PROVE  LeaseInv'
<1> DEFINE k == conn[c]
           t == k.token
           id == k.identity
           n == IF Current(id) THEN row[t].lease + 1 ELSE 0
           a == IF Current(id) THEN reply ELSE "no"
           l == Grants(k, a, n)
<1>11. k.pc = "beat" /\ k.reply = "none"
    BY DEF ExecuteHeartbeat, Awaiting
<1>12. id # None /\ id.machine = t
    BY <1>11, GoodNow, UnderWay DEF Good, Orderly
<1>0. row' = IF Current(id)
             THEN [row EXCEPT ![t].runtime = "online", ![t].lease = row[t].lease + 1]
             ELSE row
    BY <1>12 DEF ExecuteHeartbeat, Renewed
<1>1. k.pc = "beat" /\ k.reply = "none" /\ conn' = [conn EXCEPT ![c] = l]
    BY <1>11, <1>12 DEF ExecuteHeartbeat, Grants, Renewed
<1>2. a \in {"yes", "no", "error"} /\ (~Current(id) => a = "no" /\ row' = row)
    BY <1>0 DEF Stated
<1>3. /\ k \in ConnRecords /\ Orderly(k) /\ Leases(k) /\ Fenced(k)
      /\ k.queue # <<>> /\ t \in Machines /\ ~k.cleaned
    BY <1>1, GoodNow, UnderWay DEF Good
<1>4. /\ id # None /\ id \in Identities /\ id.machine = t /\ id.lease \in Nat
      /\ Lease(row[t], id.agent, id.lease)
    BY <1>1, <1>3 DEF Orderly, Steps, ConnRecords, Identities, Leases
<1>5. row \in [Machines -> Rows] /\ row[t] \in Rows
    BY <1>3, RowsNow
<1>6. n \in Nat
    BY <1>5 DEF Rows
<1>7. Current(id) => /\ row' \in [Machines -> Rows] /\ row'[t] \in Rows
                     /\ row'[t].status = row[t].status /\ row'[t].status = "active"
                     /\ row'[t].user = row[t].user /\ row'[t].holder = row[t].holder
                     /\ row'[t].lease = row[t].lease + 1 /\ row'[t].lease = n /\ n = id.lease + 1
                     /\ row'[t].runtime = "online" /\ row'[t].agent = id.agent
                     /\ \A m \in Machines : m # t => row'[m] = row[m]
    <2> SUFFICES ASSUME Current(id)
                 PROVE  /\ row' \in [Machines -> Rows] /\ row'[t] \in Rows
                        /\ row'[t].status = row[t].status /\ row'[t].status = "active"
                        /\ row'[t].user = row[t].user /\ row'[t].holder = row[t].holder
                        /\ row'[t].lease = row[t].lease + 1 /\ row'[t].lease = n /\ n = id.lease + 1
                        /\ row'[t].runtime = "online" /\ row'[t].agent = id.agent
                        /\ \A m \in Machines : m # t => row'[m] = row[m]
        OBVIOUS
    <2> DEFINE next == row[t].lease + 1  s == Kept(row[t], next)
    <2>1. row' = [row EXCEPT ![t] = s]
        BY <1>0 DEF Kept
    <2>2. row[t].status = "active" /\ row[t].agent = id.agent /\ row[t].lease = id.lease
        BY <1>4 DEF Current, HasLease
    <2>3. n = row[t].lease + 1
        OBVIOUS
    <2> HIDE DEF n
    <2>4. /\ s \in Rows /\ s.status = row[t].status /\ s.lease = row[t].lease + 1
          /\ s.runtime = "online" /\ s.agent = row[t].agent
          /\ s.user = row[t].user /\ s.holder = row[t].holder
        <3>1. next \in Nat
            BY <1>5 DEF Rows
        <3> HIDE DEF next, id, t
        <3>2. /\ s \in Rows /\ s.status = row[t].status /\ s.lease = next
              /\ s.runtime = "online" /\ s.agent = row[t].agent
              /\ s.user = row[t].user /\ s.holder = row[t].holder
            BY <1>5, <3>1, KeptFields
        <3> QED BY <3>2 DEF next
    <2> HIDE DEF s, id
    <2>5. row'[t] = s
        BY <1>3, <1>5, <2>1
    <2> QED BY <1>3, <1>5, <2>1, <2>2, <2>3, <2>4, <2>5
<1> HIDE DEF n, a
<1>8. /\ l \in ConnRecords
      /\ l.state = k.state /\ l.token = k.token /\ l.worker = k.worker
      /\ l.identity = k.identity /\ l.queue = k.queue /\ l.pc = k.pc
      /\ l.reply = a /\ l.granted = n /\ l.cleaned = k.cleaned /\ l.stale = k.stale
    <2> HIDE DEF k, id, t
    <2>1. k \in ConnRecords /\ a \in {"yes", "no", "error"} /\ n \in Nat
        BY <1>2, <1>3, <1>6
    <2> QED BY <2>1 DEF Grants, ConnRecords
<1> HIDE DEF l
<1>9. CASE ~Current(id)
    <2>1. NoLease(l)
        BY <1>2, <1>8, <1>9 DEF NoLease, OnItsWay
    <2>2. l.pc = "active" /\ ~HasLease(l.identity) => l.reply # "yes"
        BY <1>1, <1>8
    <2> QED BY <1>1, <1>2, <1>8, <1>9, <2>1, <2>2, AnswerKeeps
<1>10. CASE Current(id)
    <2>1. conn'[c] = l
        BY <1>1, RowsNow
    <2>2. Lease(row'[t], id.agent, n) /\ Moves(row[t], row'[t])
        <3> HIDE DEF k, t
        <3> DEFINE r == row[t]  s == row'[t]
        <3>1. /\ r \in Rows /\ s \in Rows /\ s.status = r.status /\ s.lease = r.lease + 1
              /\ s.user = r.user
              /\ s.runtime = "online" /\ s.agent = id.agent /\ s.lease = n
            BY <1>5, <1>7, <1>10
        <3> HIDE DEF r, s, id
        <3>2. Lease(s, s.agent, s.lease) /\ Moves(r, s)
            BY <3>1 DEF Rows, Lease, Moves
        <3> QED BY <3>1, <3>2 DEF r, s
    <2>3. Lease(row'[t], id.agent, id.lease)
        BY <1>4, <1>5, <1>7, <1>10, <2>2, LeaseMoves
    <2>4. Leases(conn[c])'
        <3>1. l.identity = id /\ l.token = t /\ l.granted = n
            BY <1>8
        <3> HIDE DEF id, t
        <3> QED BY <1>1, <1>4, <1>7, <1>8, <1>10, <2>1, <2>2, <2>3, <3>1 DEF Leases, OnItsWay
    <2>5. Fenced(conn[c])'
        BY <1>1, <1>3, <1>8, <2>1 DEF Fenced
    <2>6. Orderly(l)
        BY <1>3, <1>8 DEF Orderly
    <2>20. PICK u \in Machines : u = t
        BY <1>3
    <2>12. row[t].holder = c
        <3>1. Newest(k, t)
            BY <1>4, <1>10 DEF Newest, Current, HasLease
        <3> HIDE DEF t
        <3> QED BY <1>3, <3>1 DEF LeaseInv, HoldersSound, HolderSound
    <2>13. Keeps(conn[c], u)'
        <3>1. a \in {"yes", "error"}
            BY <1>10 DEF a, Stated
        <3>2. /\ conn'[c] = l /\ l.identity = id /\ l.pc = "beat" /\ l.granted = n
              /\ l.reply = a /\ id # None
            BY <1>1, <1>4, <1>8, <2>1
        <3>3. row'[u].runtime = "online" /\ row'[u].agent = id.agent /\ row'[u].lease = n
            BY <2>20, <1>7, <1>10
        <3> HIDE DEF t, k, id
        <3> QED BY <3>1, <3>2, <3>3 DEF Keeps
    <2>7. faults' = 0 => Holds(conn[c], u)'
        <3>1. faults' = 0 => reply = "yes"
            BY DEF Stated
        <3>2. a = reply
            BY <1>10 DEF a
        <3>3. conn'[c] = l /\ l.token = u /\ ~l.cleaned /\ l.pc = "beat" /\ l.granted = n
            BY <2>20, <1>1, <1>3, <1>8, <2>1
        <3>4. l.reply = a /\ row'[u].lease = n
            BY <2>20, <1>7, <1>8, <1>10
        <3> HIDE DEF t, k, id
        <3> QED BY <3>1, <3>2, <3>3, <3>4 DEF Holds, Newest, OnItsWay
    <2>8. /\ faults' \in Nat /\ (faults' = 0 => faults = 0) /\ UNCHANGED memory
          /\ ready' \subseteq Machines
          /\ revoking' \subseteq [machine : Machines, worker : Workers]
        BY RowsNow DEF Stated
    <2>9. /\ row' \in [Machines -> Rows] /\ \A m \in Machines : m # t => row'[m] = row[m]
          /\ row'[t].lease = row[t].lease + 1 /\ row'[t].holder = c
          /\ row'[t].status = "active"
        BY <1>7, <1>10, <2>12
    <2>10. /\ l.state = k.state /\ l.state # "unborn" /\ l.token = t
           /\ conn' = [conn EXCEPT ![c] = l]
        BY <1>1, <1>8, UnderWay
    <2> QED BY <1>3, <1>8, <2>2, <2>4, <2>5, <2>6, <2>7, <2>8, <2>9, <2>10, <2>13, <2>20, OneMoves
<1> QED BY <1>9, <1>10

LEMMA StatementKeeps ==
    ASSUME LeaseInv, NEW c \in Conns, NEW reply, Stated(reply), Statement(c, reply)
    PROVE  LeaseInv'
<1>1. CASE ExecuteConnect(c, reply)
    BY <1>1, ExecuteConnectKeeps, Zenon
<1>2. CASE ExecuteActive(c, reply)
    BY <1>2, ExecuteActiveKeeps, Zenon
<1>3. CASE ExecuteHeartbeat(c, reply)
    BY <1>3, ExecuteHeartbeatKeeps, Zenon
<1>4. CASE ExecuteReady(c, reply)
    BY <1>4, ExecuteReadyKeeps, Zenon
<1> QED BY <1>1, <1>2, <1>3, <1>4 DEF Statement

LEMMA ReadyTyped ==
    ASSUME LeaseInv, NEW c \in Conns, NEW reply, Statement(c, reply)
    PROVE  ready' \subseteq Machines
<1>1. ready \subseteq Machines /\ conn \in [Conns -> ConnRecords]
    BY DEF LeaseInv, GatewayTypes
<1>2. CASE ExecuteReady(c, reply)
    <2>1. Current(conn[c].identity) => conn[c].identity.machine \in Machines
        BY <1>1 DEF Current, HasLease, ConnRecords, Identities
    <2> QED BY <1>1, <1>2, <2>1 DEF ExecuteReady
<1>3. CASE ready' = ready
    BY <1>1, <1>3
<1> QED BY <1>2, <1>3, Zenon DEF Statement, ExecuteConnect, ExecuteActive, ExecuteHeartbeat

LEMMA ExecuteKeeps ==
    ASSUME LeaseInv, NEW c \in Conns, Execute(c)
    PROVE  LeaseInv'
<1>1. Stated("yes")
    BY ReadyTyped, RowsNow DEF Execute, Stated
<1> QED BY <1>1, StatementKeeps DEF Execute

LEMMA DatabaseFailsKeeps ==
    ASSUME LeaseInv, NEW c \in Conns, DatabaseFails(c)
    PROVE  LeaseInv'
<1>1. faults' \in Nat /\ faults' > 0 /\ UNCHANGED memory /\ revoking' = revoking
    BY RowsNow DEF DatabaseFails, Fault
<1>2. CASE Statement(c, "error")
    <2>1. Stated("error")
        BY <1>1, <1>2, ReadyTyped DEF Stated
    <2> QED BY <1>2, <2>1, StatementKeeps
<1>3. CASE ~Statement(c, "error")
    <2>1. /\ conn[c].pc # "idle" /\ conn[c].reply = "none" /\ row' = row /\ ready' = ready
          /\ conn' = [conn EXCEPT ![c].reply = "error"]
        BY <1>3 DEF DatabaseFails
    <2>2. Stated("error")
        BY <1>1, <2>1 DEF Stated, LeaseInv, GatewayTypes
    <2> QED BY <2>1, <2>2, FailedStatementKeeps
<1> QED BY <1>2, <1>3

-----------------------------------------------------------------------------
\* Cleanups and deletions

\* A connection with nothing queued that does not have its lease any more holds nothing.
LEMMA NothingHeld ==
    ASSUME LeaseInv, NEW c \in Conns, conn[c].queue = <<>>, ~Current(conn[c].identity),
           NEW m \in Machines, row[m].runtime = "online", row[m].user = "active"
    PROVE  ~Holds(conn[c], m)
<1> DEFINE k == conn[c]
<1>1. Orderly(k) /\ Leases(k)
    BY GoodNow DEF Good
<1>2. k.pc = "idle"
    BY <1>1 DEF Orderly
<1>3. SUFFICES ASSUME Holds(k, m) PROVE FALSE
    OBVIOUS
<1>4. k.identity # None /\ k.identity.lease = row[m].lease /\ k.identity.machine = m
    BY <1>1, <1>2, <1>3 DEF Holds, Newest, OnItsWay, Orderly
<1>5. row[m].agent = k.identity.agent
    BY <1>1, <1>4 DEF Leases, Lease
<1>6. row[m].status = "active"
    BY DEF LeaseInv, OnlineIsHeld
<1> QED BY <1>4, <1>5, <1>6 DEF Current, HasLease, Enabled

LEMMA OfflineKeeps ==
    ASSUME LeaseInv, NEW c \in Conns, Offline(c)
    PROVE  LeaseInv'
<1> DEFINE k == conn[c]
           id == k.identity
           t == k.token
           l == Cleaned(k)
<1>1. /\ k.state = "closed" /\ k.queue = <<>> /\ conn' = [conn EXCEPT ![c] = l]
      /\ UNCHANGED memory /\ ready' = ready /\ revoking' = revoking /\ faults' = faults
    BY DEF Offline, Cleaned
<1>2. faults' \in Nat
    BY <1>1, RowsNow
<1>3. CASE ~Current(id)
    <2>1. row' = row
        BY <1>3 DEF Offline
    <2>2. \A m \in Machines : row[m].runtime = "online" /\ row[m].user = "active" => ~Holds(k, m)
        BY <1>1, <1>3, NothingHeld
    <2> QED BY <1>1, <1>2, <2>1, <2>2, CleanedKeeps
<1>4. CASE Current(id)
    <2>1. /\ k \in ConnRecords /\ Good(k) /\ t \in Machines
          /\ id # None /\ id \in Identities /\ id.machine = t
        BY <1>1, <1>4, GoodNow DEF Good, Orderly, Current, HasLease, ConnRecords
    <2>2. /\ l \in ConnRecords /\ Good(l) /\ l.state = "closed" /\ l.identity = id
          /\ l.token = t /\ l.pc = "idle"
        BY <1>1, <2>1, CleanedGood
    <2>3. row[t].lease = id.lease /\ Lease(row[t], id.agent, id.lease)
        BY <1>4, <2>1 DEF Current, HasLease, Good, Leases
    <2>4. row[t].holder = c
        <3>1. Newest(k, t)
            BY <2>1, <2>3 DEF Newest
        <3> HIDE DEF t
        <3> QED BY <2>1, <3>1 DEF LeaseInv, HoldersSound, HolderSound
    <2>5. row \in [Machines -> Rows] /\ row[t] \in Rows /\ row[t].lease \in Nat /\ id.lease \in Nat
        BY <2>1, RowsNow DEF Rows, Identities
    <2> DEFINE next == row[t].lease + 1
               s == [row[t] EXCEPT !.runtime = "offline", !.lease = next]
    <2>6. row' = [row EXCEPT ![t] = s]
        BY <1>4, <2>1 DEF Offline, Renewed
    <2>7. /\ s \in Rows /\ s.lease = row[t].lease + 1 /\ s.status = row[t].status
          /\ s.user = row[t].user /\ s.holder = row[t].holder /\ s.runtime = "offline"
        <3>1. next \in Nat
            BY <2>5
        <3> HIDE DEF t
        <3> QED BY <2>5, <3>1 DEF Rows
    <2> HIDE DEF s
    <2>8. row' \in [Machines -> Rows] /\ row'[t] = s /\ \A m \in Machines : m # t => row'[m] = row[m]
        BY <2>1, <2>5, <2>6, <2>7
    <2>9. Moves(row[t], s)
        BY <2>7 DEF Moves
    <2>10. Lease(s, id.agent, id.lease)
        <3> HIDE DEF id, t
        <3> QED BY <2>3, <2>5, <2>7, <2>9, LeaseMoves
    <2>11. conn'[c] = l
        BY <1>1, RowsNow
    <2>12. Leases(conn[c])' /\ Fenced(conn[c])' /\ Orderly(l)
        <3> HIDE DEF l, id, t, k
        <3>1. l.pc = "idle" /\ l.identity = id /\ id.machine = t /\ row'[t] = s /\ Orderly(l)
            BY <2>1, <2>2, <2>8 DEF Good
        <3>2. Leases(conn[c])'
            BY <2>10, <2>11, <3>1 DEF Leases, OnItsWay
        <3>3. Fenced(conn[c])'
            BY <2>11, <3>1 DEF Fenced
        <3> QED BY <3>1, <3>2, <3>3
    <2>13. /\ ready' \subseteq Machines /\ revoking' \subseteq [machine : Machines, worker : Workers]
        BY <1>1, RowsNow DEF LeaseInv, GatewayTypes
    <2>14. /\ Moves(row[t], row'[t]) /\ row'[t].lease = row[t].lease + 1
           /\ row'[t].holder = c /\ row'[t].runtime # "online"
        BY <2>4, <2>7, <2>8, <2>9
    <2>16. PICK u \in Machines : u = t
        BY <2>1
    <2>15. l.state = k.state /\ l.state # "unborn" /\ l.state # "open"
        BY <1>1, <2>2
    <2> HIDE DEF l
    <2> QED BY <1>1, <1>2, <2>1, <2>2, <2>8, <2>12, <2>13, <2>14, <2>15, <2>16, OneMoves
<1> QED BY <1>3, <1>4

\* A step that changes one row and no connection: its lease moves or its user alone.
LEMMA RowAloneKeeps ==
    ASSUME LeaseInv, NEW t \in Machines, NEW s \in Rows, row' = [row EXCEPT ![t] = s],
           Moves(row[t], s), s.holder = row[t].holder,
           \/ s.lease = row[t].lease + 1 /\ s.status = "deleted" /\ s.runtime # "online"
           \/ /\ s.lease = row[t].lease /\ s.agent = row[t].agent /\ s.status = row[t].status
              /\ s.runtime = row[t].runtime,
           conn' = conn, ready' = ready, UNCHANGED memory, faults' = faults,
           revoking' \subseteq [machine : Machines, worker : Workers]
    PROVE  LeaseInv'
<1>1. row \in [Machines -> Rows] /\ conn \in [Conns -> ConnRecords] /\ faults \in Nat
    BY RowsNow
<1>2. row' \in [Machines -> Rows] /\ row'[t] = s /\ \A m \in Machines : m # t => row'[m] = row[m]
    BY <1>1
<1>3. ASSUME NEW m \in Machines
      PROVE  Moves(row[m], row'[m])
    <2>1. CASE m = t
        BY <1>2, <2>1
    <2>2. CASE m # t
        BY <1>2, <2>2 DEF Moves
    <2> QED BY <2>1, <2>2
<1>4. ASSUME NEW m \in Machines
      PROVE  HolderSound(m)'
    <2>1. CASE m = t /\ s.lease = row[t].lease + 1 /\ s.status = "deleted"
        <3>1. \A x \in Conns : row[m].holder = x => conn[x].state # "unborn" /\ conn[x].token = m
            BY DEF LeaseInv, HoldersSound, HolderSound
        <3>2. row'[m].lease = row[m].lease + 1 /\ row'[m].status # "active" /\ row'[m].holder = row[m].holder
            BY <1>2, <2>1
        <3> QED BY <3>1, <3>2, HolderMoves
    <2>2. CASE ~(m = t /\ s.lease = row[t].lease + 1 /\ s.status = "deleted")
        <3>1. /\ row'[m].lease = row[m].lease /\ row'[m].agent = row[m].agent
              /\ row'[m].status = row[m].status /\ row'[m].runtime = row[m].runtime
              /\ row'[m].holder = row[m].holder
            BY <1>2, <2>2
        <3> QED BY <3>1, HolderStays
    <2> QED BY <2>1, <2>2
<1>5. ASSUME NEW m \in Machines, row'[m].runtime = "online"
      PROVE  /\ row'[m].status = "active" /\ row[m].runtime = "online"
             /\ \A x \in Conns : Holds(conn[x], m) => Holds(conn[x], m)'
    <2>1. /\ row'[m].lease = row[m].lease /\ row'[m].status = row[m].status
          /\ row'[m].runtime = row[m].runtime
        BY <1>2, <1>5
    <2> QED BY <1>5, <2>1 DEF Holds, Newest, LeaseInv, OnlineIsHeld
<1>6. \A x \in Conns : /\ Orderly(conn'[x]) /\ conn'[x] = conn[x]
                       /\ conn'[x].state = conn[x].state
    BY GoodNow DEF Good
<1>7. ready' \subseteq Machines
    BY DEF LeaseInv, GatewayTypes
<1>8. HoldersSound'
    BY <1>4 DEF HoldersSound
<1> QED BY <1>1, <1>2, <1>3, <1>5, <1>6, <1>7, <1>8, MoveKeeps

LEMMA UserKeeps ==
    ASSUME LeaseInv, NEW t \in Machines, DisableUser(t) \/ EnableUser(t)
    PROVE  LeaseInv'
<1>1. PICK u \in {"disabled", "restored"} :
          /\ row' = [row EXCEPT ![t].user = u]
          /\ ready' = ready /\ conn' = conn /\ UNCHANGED memory
          /\ revoking' = revoking /\ faults' = faults
    BY DEF DisableUser, EnableUser
<1> DEFINE s == [row[t] EXCEPT !.user = u]
<1>2. row' = [row EXCEPT ![t] = s] /\ row[t] \in Rows
    BY <1>1, RowsNow
<1>3. /\ s \in Rows /\ s.lease = row[t].lease /\ s.agent = row[t].agent
      /\ s.status = row[t].status /\ s.runtime = row[t].runtime
      /\ s.holder = row[t].holder /\ s.user # "active"
    BY <1>2 DEF Rows
<1> HIDE DEF s
<1>4. Moves(row[t], s)
    BY <1>3 DEF Moves
<1>5. revoking' \subseteq [machine : Machines, worker : Workers]
    BY <1>1, RowsNow
<1> QED BY <1>1, <1>2, <1>3, <1>4, <1>5, RowAloneKeeps

LEMMA DeleteMachineKeeps ==
    ASSUME LeaseInv, NEW t \in Machines, NEW w \in Workers, DeleteMachine(t, w)
    PROVE  LeaseInv'
<1> DEFINE next == row[t].lease + 1
           s == [row[t] EXCEPT !.status = "deleted", !.runtime = "revoked", !.lease = next]
<1>1. /\ row' = [row EXCEPT ![t] = s]
      /\ revoking' = revoking \cup {[machine |-> t, worker |-> w]}
      /\ ready' = ready /\ conn' = conn /\ UNCHANGED memory /\ faults' = faults
    BY DEF DeleteMachine, Renewed
<1>2. row[t] \in Rows /\ next \in Nat
    BY RowsNow DEF Rows
<1>3. /\ s \in Rows /\ s.lease = next /\ s.holder = row[t].holder /\ s.user = row[t].user
      /\ s.status = "deleted" /\ s.runtime = "revoked"
    <2> HIDE DEF next
    <2> QED BY <1>2 DEF Rows
<1> HIDE DEF s
<1>4. Moves(row[t], s)
    BY <1>3 DEF Moves
<1>5. revoking' \subseteq [machine : Machines, worker : Workers]
    BY <1>1 DEF LeaseInv, GatewayTypes
<1> QED BY <1>1, <1>3, <1>4, <1>5, RowAloneKeeps

-----------------------------------------------------------------------------
\* The requests in the queues

\* The request stands in the queue and is not registered yet.
Waiting(k, r) == \E i \in DOMAIN k.queue : Asks(k, i, r) /\ (i = 1 => k.pc # "write")

LEMMA QueuedIs == \A c \in Conns, r \in Requests : Queued(r, c) <=> Waiting(conn[c], r)
BY DEF Queued, Waiting, Asks, Named

\* A step leaves the operations of a connection as they are, or takes the first one away.
SameOps(k, l) == l.queue = k.queue /\ (l.pc = "write" <=> k.pc = "write")
LessOps(k, l) == k.queue # <<>> /\ l.queue = Tail(k.queue) /\ l.pc = "idle"

LEMMA AsksIn ==
    ASSUME NEW k \in ConnRecords, NEW r, NEW i, Asks(k, i, r)
    PROVE  i \in 1 .. Len(k.queue) /\ Len(k.queue) \in Nat
<1>1. k.queue \in Seq(Operations)
    BY DEF ConnRecords
<1> QED BY <1>1, LenProperties DEF Asks

LEMMA LessAsks ==
    ASSUME NEW k \in ConnRecords, NEW l, LessOps(k, l), NEW r, NEW i
    PROVE  Asks(l, i, r) <=> i \in Nat \ {0} /\ Asks(k, i + 1, r)
<1>1. k.queue \in Seq(Operations) /\ k.queue # <<>>
    BY DEF ConnRecords, LessOps
<1> DEFINE q == k.queue  s == Tail(k.queue)
<1>2. /\ s \in Seq(Operations) /\ Len(s) = Len(q) - 1
      /\ \A j \in 1 .. Len(s) : s[j] = q[j + 1]
    BY <1>1, HeadTailProperties
<1>3. DOMAIN q = 1 .. Len(q) /\ Len(q) \in Nat
    BY <1>1, LenProperties
<1>4. DOMAIN s = 1 .. Len(s) /\ Len(s) \in Nat
    BY <1>2, LenProperties
<1>5. l.queue = s /\ k.queue = q
    BY DEF LessOps
<1> HIDE DEF q, s
<1> QED BY <1>2, <1>3, <1>4, <1>5 DEF Asks

LEMMA LessWaiting ==
    ASSUME NEW k \in ConnRecords, NEW l, LessOps(k, l), NEW r
    PROVE  /\ Waiting(l, r) => Waiting(k, r)
           /\ ~Asks(k, 1, r) \/ k.pc = "write" => (Waiting(k, r) => Waiting(l, r))
<1>1. ASSUME Waiting(l, r)
      PROVE  Waiting(k, r)
    <2>1. PICK i : Asks(l, i, r)
        BY <1>1 DEF Waiting
    <2>2. i \in Nat \ {0} /\ Asks(k, i + 1, r)
        BY <2>1, LessAsks
    <2>3. i + 1 \in DOMAIN k.queue /\ i + 1 # 1
        BY <2>2 DEF Asks
    <2> QED BY <2>2, <2>3 DEF Waiting
<1>2. ASSUME Waiting(k, r), ~Asks(k, 1, r) \/ k.pc = "write"
      PROVE  Waiting(l, r)
    <2>1. PICK i : Asks(k, i, r) /\ (i = 1 => k.pc # "write")
        BY <1>2 DEF Waiting
    <2>2. i \in 1 .. Len(k.queue) /\ Len(k.queue) \in Nat /\ i # 1
        BY <1>2, <2>1, AsksIn
    <2> DEFINE j == i - 1
    <2>3. j \in Nat \ {0} /\ j + 1 = i
        BY <2>2
    <2> HIDE DEF j
    <2>4. Asks(l, j, r)
        BY <2>1, <2>3, LessAsks
    <2>5. j \in DOMAIN l.queue /\ l.pc # "write"
        BY <2>4 DEF Asks, LessOps
    <2> QED BY <2>4, <2>5 DEF Waiting
<1> QED BY <1>1, <1>2

LEMMA SameWaiting ==
    ASSUME NEW k, NEW l, SameOps(k, l), NEW r
    PROVE  /\ Waiting(l, r) <=> Waiting(k, r)
           /\ \A i : Asks(l, i, r) <=> Asks(k, i, r)
BY DEF SameOps, Waiting, Asks

\* The invariant after a step, told by what the step makes of the connections.
LEMMA OnceNext ==
    ASSUME \A c \in Conns, d \in Conns, r \in Requests : \A i, j :
             Asks(conn'[c], i, r) /\ Asks(conn'[d], j, r) => c = d /\ i = j
    PROVE  Once'
<1>1. \A c \in Conns, r \in Requests : \A i : Asks(conn[c], i, r)' <=> Asks(conn'[c], i, r)
    BY DEF Asks, Named
<1> QED BY <1>1, Zenon DEF Once

LEMMA KnownNext ==
    ASSUME \A c \in Conns, r \in Requests : \A i : Asks(conn'[c], i, r) => result'[r] # "none"
    PROVE  Known'
<1>1. \A c \in Conns, r \in Requests : \A i : Asks(conn[c], i, r)' <=> Asks(conn'[c], i, r)
    BY DEF Asks, Named
<1> QED BY <1>1, Zenon DEF Known

LEMMA WaitingNext ==
    ASSUME \A c \in Conns, r \in Requests : Waiting(conn'[c], r) => pending'[r] = None,
           \A r \in Requests : result'[r] = "waiting" <=>
             pending'[r] # None \/ \E c \in Conns : Waiting(conn'[c], r)
    PROVE  Unwritten' /\ CallersAccounted'
<1>1. \A c \in Conns, r \in Requests : Queued(r, c)' <=> Waiting(conn'[c], r)
    BY DEF Queued, Waiting, Asks, Named
<1> QED BY <1>1 DEF Unwritten, CallersAccounted

LEMMA OnceIs ==
    ASSUME CallersInv, NEW c \in Conns, NEW d \in Conns, NEW r \in Requests, NEW i, NEW j,
           Asks(conn[c], i, r), Asks(conn[d], j, r)
    PROVE  c = d /\ i = j
BY DEF CallersInv, Once, Asks

\* What a step does to a caller: nothing, or it settles one that is waited for, or whose
\* request it takes out of its queue.
Untouched(r) ==
    /\ pending'[r] = pending[r] /\ result'[r] = result[r]
    /\ \A x \in Conns : Asks(conn[x], 1, r) /\ conn[x].pc # "write" => SameOps(conn[x], conn'[x])
Over(r) ==
    /\ pending'[r] = None /\ result'[r] \notin {"none", "waiting"}
    /\ \/ pending[r] # None \/ result[r] = "none"
       \/ \E x \in Conns : Asks(conn[x], 1, r) /\ LessOps(conn[x], conn'[x])

LEMMA CallersMove ==
    ASSUME LeaseInv, CallersInv,
           \A x \in Conns : SameOps(conn[x], conn'[x]) \/ LessOps(conn[x], conn'[x]),
           \A r \in Requests : Untouched(r) \/ Over(r)
    PROVE  CallersInv'
<1>1. \A x \in Conns : conn[x] \in ConnRecords
    BY GoodNow
<1>2. ASSUME NEW x \in Conns, NEW r \in Requests, NEW i, Asks(conn'[x], i, r)
      PROVE  \/ SameOps(conn[x], conn'[x]) /\ Asks(conn[x], i, r)
             \/ /\ LessOps(conn[x], conn'[x]) /\ ~SameOps(conn[x], conn'[x])
                /\ i \in Nat \ {0} /\ Asks(conn[x], i + 1, r)
    <2>1. CASE SameOps(conn[x], conn'[x])
        BY <1>2, <2>1, SameWaiting
    <2>2. CASE ~SameOps(conn[x], conn'[x])
        BY <1>1, <1>2, <2>2, LessAsks
    <2> QED BY <2>1, <2>2
<1>3. ASSUME NEW x \in Conns, NEW r \in Requests, Waiting(conn'[x], r)
      PROVE  Waiting(conn[x], r)
    <2>1. CASE SameOps(conn[x], conn'[x])
        BY <1>3, <2>1, SameWaiting
    <2>2. CASE ~SameOps(conn[x], conn'[x])
        BY <1>1, <1>3, <2>2, LessWaiting
    <2> QED BY <2>1, <2>2
<1>4. Once'
    <2> SUFFICES ASSUME NEW c \in Conns, NEW d \in Conns, NEW r \in Requests, NEW i, NEW j,
                        Asks(conn'[c], i, r), Asks(conn'[d], j, r)
                 PROVE  c = d /\ i = j
        BY OnceNext
    <2>1. c = d
        <3>1. PICK k : Asks(conn[c], k, r)
            BY <1>2
        <3>2. PICK l : Asks(conn[d], l, r)
            BY <1>2
        <3> QED BY <3>1, <3>2, OnceIs
    <2>2. CASE SameOps(conn[c], conn'[c])
        BY <1>2, <2>1, <2>2, OnceIs
    <2>3. CASE ~SameOps(conn[c], conn'[c])
        <3>1. /\ i \in Nat /\ Asks(conn[c], i + 1, r)
              /\ j \in Nat /\ Asks(conn[c], j + 1, r)
            BY <1>2, <2>1, <2>3
        <3>2. i + 1 = j + 1
            BY <3>1, OnceIs
        <3> QED BY <2>1, <3>1, <3>2
    <2> QED BY <2>2, <2>3
<1>5. ASSUME NEW r \in Requests, Over(r), NEW x \in Conns, Waiting(conn'[x], r)
      PROVE  FALSE
    <2>1. Waiting(conn[x], r)
        BY <1>3, <1>5
    <2>2. pending[r] = None
        BY <2>1, QueuedIs DEF CallersInv, Unwritten
    <2>3. result[r] # "none"
        BY <2>1 DEF CallersInv, Known, Waiting
    <2>4. PICK y \in Conns : Asks(conn[y], 1, r) /\ LessOps(conn[y], conn'[y])
        BY <1>5, <2>2, <2>3 DEF Over
    <2>5. PICK i : Asks(conn'[x], i, r)
        BY <1>5 DEF Waiting
    <2>6. x = y
        <3>1. PICK j : Asks(conn[x], j, r)
            BY <1>2, <2>5
        <3> QED BY <2>4, <3>1, OnceIs
    <2>7. i \in Nat \ {0} /\ Asks(conn[x], i + 1, r)
        BY <1>1, <2>4, <2>5, <2>6, LessAsks
    <2>8. i + 1 = 1
        BY <2>4, <2>6, <2>7, OnceIs
    <2> QED BY <2>7, <2>8
<1>6. ASSUME NEW r \in Requests, Untouched(r), NEW x \in Conns
      PROVE  Waiting(conn'[x], r) <=> Waiting(conn[x], r)
    <2>1. CASE SameOps(conn[x], conn'[x])
        BY <2>1, SameWaiting
    <2>2. CASE ~SameOps(conn[x], conn'[x])
        <3>1. ~Asks(conn[x], 1, r) \/ conn[x].pc = "write"
            BY <1>6, <2>2 DEF Untouched
        <3> QED BY <1>1, <2>2, <3>1, LessWaiting
    <2> QED BY <2>1, <2>2
<1>7. Known'
    <2> SUFFICES ASSUME NEW c \in Conns, NEW r \in Requests, NEW i, Asks(conn'[c], i, r)
                 PROVE  result'[r] # "none"
        BY KnownNext
    <2>1. result[r] # "none"
        BY <1>2 DEF CallersInv, Known, Asks
    <2> QED BY <2>1 DEF Untouched, Over
<1>8. ASSUME NEW c \in Conns, NEW r \in Requests, Waiting(conn'[c], r)
      PROVE  pending'[r] = None
    <2>1. Untouched(r) /\ Waiting(conn[c], r)
        BY <1>3, <1>5, <1>8
    <2> QED BY <2>1, QueuedIs DEF Untouched, CallersInv, Unwritten
<1>9. ASSUME NEW r \in Requests
      PROVE  result'[r] = "waiting" <=>
               pending'[r] # None \/ \E c \in Conns : Waiting(conn'[c], r)
    <2>1. CASE Over(r)
        BY <1>5, <2>1 DEF Over
    <2>2. CASE Untouched(r)
        <3>1. result[r] = "waiting" <=> pending[r] # None \/ \E c \in Conns : Waiting(conn[c], r)
            BY QueuedIs DEF CallersInv, CallersAccounted
        <3> QED BY <1>6, <2>2, <3>1 DEF Untouched
    <2> QED BY <2>1, <2>2
<1> QED BY <1>4, <1>7, <1>8, <1>9, WaitingNext DEF CallersInv

-----------------------------------------------------------------------------
\* What a step keeps of the callers: the invariant, and how it settles them.

Settles == \A r \in Requests : result'[r] # result[r] =>
    /\ result[r] \in {"none", "waiting"}
    /\ result'[r] = "answered" =>
         /\ pending[r] # None /\ pending[r] = delivered[r]
         /\ Open(pending[r]) /\ Answers(pending[r], r)
Accounted == CallersInv' /\ Settles

LEMMA HeadAsks ==
    ASSUME NEW k \in ConnRecords, NEW r
    PROVE  Asks(k, 1, r) <=> k.queue # <<>> /\ Named(Head(k.queue), r)
<1>1. k.queue \in Seq(Operations)
    BY DEF ConnRecords
<1> DEFINE q == k.queue
<1>2. DOMAIN q = 1 .. Len(q) /\ Len(q) \in Nat /\ (q # <<>> <=> 1 \in 1 .. Len(q))
    BY <1>1, LenProperties, EmptySeq
<1>3. q # <<>> => Head(q) = q[1]
    BY <1>1, HeadTailProperties
<1> HIDE DEF q
<1>4. q = k.queue
    BY DEF q
<1> QED BY <1>2, <1>3, <1>4 DEF Asks

\* A step of the connection that ends no request before it was written.
Harmless(k, l) ==
    \/ SameOps(k, l)
    \/ LessOps(k, l) /\ (k.pc = "write" \/ Head(k.queue).kind # "request")

LEMMA QuietCallers ==
    ASSUME LeaseInv, CallersInv, UNCHANGED memory,
           \A x \in Conns : Harmless(conn[x], conn'[x])
    PROVE  Accounted
<1>1. \A r \in Requests : pending'[r] = pending[r] /\ result'[r] = result[r]
    BY DEF memory
<1>2. \A x \in Conns, r \in Requests :
         Asks(conn[x], 1, r) /\ conn[x].pc # "write" => SameOps(conn[x], conn'[x])
    BY GoodNow, HeadAsks DEF Harmless, Named
<1>3. \A r \in Requests : Untouched(r)
    BY <1>1, <1>2 DEF Untouched
<1>4. CallersInv'
    BY <1>3, CallersMove DEF Harmless
<1> QED BY <1>1, <1>4 DEF Accounted, Settles

LEMMA OneCallers ==
    ASSUME LeaseInv, CallersInv, NEW c \in Conns, NEW l, conn' = [conn EXCEPT ![c] = l],
           UNCHANGED memory, Harmless(conn[c], l)
    PROVE  Accounted
<1>1. ASSUME NEW x \in Conns
      PROVE  Harmless(conn[x], conn'[x])
    <2>1. CASE x = c
        <3>1. conn'[x] = l
            BY <2>1, TableOf
        <3> QED BY <2>1, <3>1
    <2>2. CASE x # c
        <3>1. conn'[x] = conn[x]
            BY <2>2, TableOf
        <3> QED BY <3>1 DEF Harmless, SameOps
    <2> QED BY <2>1, <2>2
<1> QED BY <1>1, QuietCallers

\* Callers are rejected: those whose socket closes and those of rs, whose requests leave
\* their queue or never were in one.
LEMMA RejectCallers ==
    ASSUME LeaseInv, CallersInv, NEW D \in SUBSET Conns, NEW rs, Reject(Orphans(D) \cup rs),
           \A x \in Conns : SameOps(conn[x], conn'[x]) \/ LessOps(conn[x], conn'[x]),
           \A x \in Conns, r \in Requests :
             Asks(conn[x], 1, r) /\ conn[x].pc # "write" => SameOps(conn[x], conn'[x]) \/ r \in rs,
           \A r \in Requests \cap rs :
             \/ result[r] = "none"
             \/ \E x \in Conns : Asks(conn[x], 1, r) /\ LessOps(conn[x], conn'[x])
    PROVE  Accounted
<1> DEFINE gone == Orphans(D) \cup rs
<1>1. \A r \in Requests :
         /\ pending'[r] = IF r \in gone THEN None ELSE pending[r]
         /\ result'[r] = IF r \in gone /\ result[r] \in {"none", "waiting"} THEN "failed" ELSE result[r]
    BY DEF Reject
<1>2. \A r \in Orphans(D) : pending[r] # None
    BY GatewayAssumption DEF Orphans
<1>3. ASSUME NEW r \in Requests
      PROVE  Untouched(r) \/ Over(r)
    <2>1. CASE r \in gone
        <3>1. pending'[r] = None /\ result'[r] \notin {"none", "waiting"}
            BY <1>1, <2>1
        <3>2. \/ pending[r] # None \/ result[r] = "none"
              \/ \E x \in Conns : Asks(conn[x], 1, r) /\ LessOps(conn[x], conn'[x])
            BY <1>2, <2>1
        <3> QED BY <3>1, <3>2 DEF Over
    <2>2. CASE r \notin gone
        <3>1. pending'[r] = pending[r] /\ result'[r] = result[r] /\ r \notin rs
            BY <1>1, <2>2
        <3> QED BY <3>1 DEF Untouched
    <2> QED BY <2>1, <2>2
<1>4. CallersInv'
    BY <1>3, CallersMove
<1>5. Settles
    <2> HIDE DEF gone
    <2> QED BY <1>1 DEF Settles
<1> QED BY <1>4, <1>5 DEF Accounted

\* The same while the connections of D close.
LEMMA ClosingCallers ==
    ASSUME LeaseInv, CallersInv, NEW cs, NEW D \in SUBSET Conns, NEW rs,
           conn' = Closing(cs, D), Reject(Orphans(D) \cup rs),
           \A x \in Conns : cs[x] \in ConnRecords /\ (SameOps(conn[x], cs[x]) \/ LessOps(conn[x], cs[x])),
           \A x \in Conns, r \in Requests :
             Asks(conn[x], 1, r) /\ conn[x].pc # "write" => SameOps(conn[x], cs[x]) \/ r \in rs,
           \A r \in Requests \cap rs :
             \/ result[r] = "none"
             \/ \E x \in Conns : Asks(conn[x], 1, r) /\ LessOps(conn[x], cs[x])
    PROVE  Accounted
<1>1. \A x \in Conns : conn'[x] = IF x \in D THEN Shut(cs[x]) ELSE cs[x]
    BY DEF Closing, Shut
<1>2. \A x \in Conns : conn'[x].queue = cs[x].queue /\ conn'[x].pc = cs[x].pc
    BY <1>1, ShutFields
<1>3. \A x \in Conns : /\ SameOps(conn[x], cs[x]) => SameOps(conn[x], conn'[x])
                       /\ LessOps(conn[x], cs[x]) => LessOps(conn[x], conn'[x])
    BY <1>2 DEF SameOps, LessOps
<1> QED BY <1>3, RejectCallers

LEMMA HarmlessCallers ==
    ASSUME LeaseInv, CallersInv, NEW cs, NEW D \in SUBSET Conns,
           conn' = Closing(cs, D), Reject(Orphans(D)),
           \A x \in Conns : cs[x] \in ConnRecords /\ Harmless(conn[x], cs[x])
    PROVE  Accounted
<1>0. PICK rs : rs = {}
    OBVIOUS
<1>1. Reject(Orphans(D) \cup rs) /\ \A r \in Requests \cap rs : FALSE
    BY <1>0
<1>2. \A x \in Conns, r \in Requests :
         Asks(conn[x], 1, r) /\ conn[x].pc # "write" => SameOps(conn[x], cs[x])
    BY GoodNow, HeadAsks DEF Harmless, Named
<1>3. \A x \in Conns : SameOps(conn[x], cs[x]) \/ LessOps(conn[x], cs[x])
    BY DEF Harmless
<1> QED BY <1>1, <1>2, <1>3, ClosingCallers

\* Nothing but counters change on the connections that stay, and those of D close.
LEMMA DisconnectCallers ==
    ASSUME LeaseInv, CallersInv, NEW cs, NEW D \in SUBSET Conns, NEW rs, Disconnect(cs, D, rs),
           \A x \in Conns : cs[x] \in ConnRecords /\ SameOps(conn[x], cs[x]),
           \A r \in Requests \cap rs : result[r] = "none"
    PROVE  Accounted
<1>1. conn' = Closing(cs, D) /\ Reject(Orphans(D) \cup rs)
    BY DEF Disconnect
<1> QED BY <1>1, ClosingCallers

LEMMA CloseCallers ==
    ASSUME LeaseInv, CallersInv, NEW D \in SUBSET Conns, NEW rs, Disconnect(conn, D, rs),
           \A r \in Requests \cap rs : result[r] = "none"
    PROVE  Accounted
<1>1. \A x \in Conns : conn[x] \in ConnRecords /\ SameOps(conn[x], conn[x])
    BY GoodNow DEF SameOps
<1> QED BY <1>1, DisconnectCallers

LEMMA PopLess ==
    ASSUME LeaseInv, NEW c \in Conns, conn[c].queue # <<>>
    PROVE  Pop(conn[c]) \in ConnRecords /\ LessOps(conn[c], Pop(conn[c]))
BY GoodNow, PopFields DEF LessOps

\* An operation that fails takes its own request with it.
LEMMA FailCallers ==
    ASSUME LeaseInv, CallersInv, NEW c \in Conns, Fail(c), conn[c].queue # <<>>
    PROVE  Accounted
<1> DEFINE D == {c} \cap {x \in Conns : Open(x)}
           cs == Popped(c)
           rs == OwnRequest(c)
<1>1. conn' = Closing(cs, D) /\ Reject(Orphans(D) \cup rs) /\ D \in SUBSET Conns
    BY DEF Fail, Disconnect
<1>2. \A x \in Conns : cs[x] = IF x = c THEN Pop(conn[c]) ELSE conn[x]
    BY TableOf, PoppedIs
<1>3. \A r \in Requests : Asks(conn[c], 1, r) <=> r \in rs
    BY GoodNow, HeadAsks DEF OwnRequest, Op, Named
<1> HIDE DEF D, cs, rs
<1>4. /\ cs[c] \in ConnRecords /\ LessOps(conn[c], cs[c])
      /\ \A x \in Conns : x # c => cs[x] \in ConnRecords /\ SameOps(conn[x], cs[x])
    BY <1>2, PopLess, GoodNow DEF SameOps
<1>5. \A x \in Conns, r \in Requests :
         Asks(conn[x], 1, r) /\ conn[x].pc # "write" => SameOps(conn[x], cs[x]) \/ r \in rs
    BY <1>3, <1>4
<1>6. \A r \in Requests \cap rs : \E x \in Conns : Asks(conn[x], 1, r) /\ LessOps(conn[x], cs[x])
    BY <1>3, <1>4
<1> QED BY <1>1, <1>4, <1>5, <1>6, ClosingCallers

LEMMA FinishCallers ==
    ASSUME LeaseInv, CallersInv, NEW c \in Conns, Finish(c), conn[c].queue # <<>>,
           conn[c].pc = "write" \/ Op(c).kind # "request"
    PROVE  Accounted
<1>1. conn' = [conn EXCEPT ![c] = Pop(conn[c])] /\ UNCHANGED memory
    BY TableOf, PoppedIs DEF Finish
<1>2. Harmless(conn[c], Pop(conn[c]))
    BY PopLess DEF Harmless, Op
<1> QED BY <1>1, <1>2, OneCallers

-----------------------------------------------------------------------------
\* The callers: the transport

\* A frame or a request is put at the end of the queue of c; a request is a new one.
LEMMA PushAsks ==
    ASSUME NEW k \in ConnRecords, NEW op \in Operations, Orderly(k), NEW r
    PROVE  /\ \A i : Asks(Push(k, op), i, r) <=>
                       Asks(k, i, r) \/ (i = Len(k.queue) + 1 /\ Named(op, r))
           /\ ~Asks(k, Len(k.queue) + 1, r)
           /\ Waiting(Push(k, op), r) <=> Waiting(k, r) \/ Named(op, r)
<1> DEFINE q == k.queue  s == Append(q, op)  l == Push(k, op)  n == Len(q) + 1
<1>1. q \in Seq(Operations) /\ Len(q) \in Nat /\ DOMAIN q = 1 .. Len(q)
    BY LenProperties DEF ConnRecords
<1>2. /\ s \in Seq(Operations) /\ Len(s) = n /\ s[n] = op
      /\ \A i \in 1 .. Len(q) : s[i] = q[i]
    BY <1>1, AppendProperties
<1>3. DOMAIN s = 1 .. n
    BY <1>2, LenProperties
<1>4. l.queue = s /\ l.pc = k.pc
    BY PushFields
<1>5. k.pc = "write" => Len(q) # 0
    BY <1>1, EmptySeq DEF Orderly
<1>9. k.queue = q
    OBVIOUS
<1> HIDE DEF q, s, l
<1>6. ~Asks(k, n, r)
    BY <1>1, <1>9 DEF Asks
<1>7. \A i : Asks(l, i, r) <=> Asks(k, i, r) \/ (i = n /\ Named(op, r))
    BY <1>1, <1>2, <1>3, <1>4, <1>9 DEF Asks
<1>8. Waiting(l, r) <=> Waiting(k, r) \/ Named(op, r)
    <2>1. ASSUME Waiting(l, r)
          PROVE  Waiting(k, r) \/ Named(op, r)
        <3>1. PICK i : Asks(l, i, r) /\ (i = 1 => l.pc # "write")
            BY <2>1 DEF Waiting
        <3> QED BY <1>4, <1>7, <3>1 DEF Waiting, Asks
    <2>2. ASSUME Waiting(k, r)
          PROVE  Waiting(l, r)
        <3>1. PICK i : Asks(k, i, r) /\ (i = 1 => k.pc # "write")
            BY <2>2 DEF Waiting
        <3>2. Asks(l, i, r)
            BY <1>7, <3>1
        <3> QED BY <1>4, <3>1, <3>2 DEF Waiting, Asks
    <2>3. ASSUME Named(op, r)
          PROVE  Waiting(l, r)
        <3>1. Asks(l, n, r)
            BY <1>7, <2>3
        <3>2. n = 1 => l.pc # "write"
            BY <1>1, <1>4, <1>5
        <3> QED BY <3>1, <3>2 DEF Waiting, Asks
    <2> QED BY <2>1, <2>2, <2>3
<1> QED BY <1>6, <1>7, <1>8 DEF q, l

LEMMA PushCallers ==
    ASSUME LeaseInv, CallersInv, NEW c \in Conns, NEW k \in ConnRecords, SameOps(conn[c], k),
           Orderly(k), NEW op \in Operations, conn' = [conn EXCEPT ![c] = Push(k, op)],
           pending' = pending,
           \A r \in Requests : IF Named(op, r) THEN result[r] = "none" /\ result'[r] = "waiting"
                                               ELSE result'[r] = result[r]
    PROVE  Accounted
<1> DEFINE n == Len(k.queue) + 1
<1>1. conn'[c] = Push(k, op) /\ \A x \in Conns : x # c => conn'[x] = conn[x]
    BY TableOf
<1>2. ASSUME NEW x \in Conns, NEW r \in Requests
      PROVE  /\ \A i : Asks(conn'[x], i, r) <=>
                         Asks(conn[x], i, r) \/ (x = c /\ i = n /\ Named(op, r))
             /\ Waiting(conn'[x], r) <=> Waiting(conn[x], r) \/ (x = c /\ Named(op, r))
    <2>1. CASE x = c
        <3>1. /\ \A i : Asks(k, i, r) <=> Asks(conn[c], i, r)
              /\ Waiting(k, r) <=> Waiting(conn[c], r)
            BY SameWaiting
        <3> QED BY <1>1, <2>1, <3>1, PushAsks
    <2>2. CASE x # c
        BY <1>1, <2>2
    <2> QED BY <2>1, <2>2
<1>3. ASSUME NEW r \in Requests, Named(op, r)
      PROVE  pending[r] = None /\ \A x \in Conns : \A i : ~Asks(conn[x], i, r)
    <2>1. result[r] = "none"
        BY <1>3
    <2>2. pending[r] = None
        BY <2>1 DEF CallersInv, CallersAccounted
    <2>3. \A x \in Conns : \A i : ~Asks(conn[x], i, r)
        BY <2>1 DEF CallersInv, Known, Asks
    <2> QED BY <2>2, <2>3
<1> HIDE DEF n
<1>4. ASSUME NEW x \in Conns, NEW y \in Conns, NEW r \in Requests, NEW i, NEW j,
             Asks(conn'[x], i, r), Asks(conn'[y], j, r)
      PROVE  x = y /\ i = j
    <2>1. CASE Named(op, r)
        <3>1. ASSUME NEW z \in Conns, NEW l, Asks(conn'[z], l, r)
              PROVE  z = c /\ l = n
            <4>1. ~Asks(conn[z], l, r)
                BY <1>3, <2>1
            <4> QED BY <1>2, <3>1, <4>1
        <3> QED BY <1>4, <3>1
    <2>2. CASE ~Named(op, r)
        <3>1. ASSUME NEW z \in Conns, NEW l, Asks(conn'[z], l, r)
              PROVE  Asks(conn[z], l, r)
            BY <1>2, <2>2, <3>1
        <3> QED BY <1>4, <3>1, OnceIs
    <2> QED BY <2>1, <2>2
<1>5. ASSUME NEW x \in Conns, NEW r \in Requests, NEW i, Asks(conn'[x], i, r)
      PROVE  result'[r] # "none"
    <2>1. CASE Named(op, r)
        BY <2>1
    <2>2. CASE ~Named(op, r)
        BY <1>2, <1>5, <2>2 DEF CallersInv, Known, Asks
    <2> QED BY <2>1, <2>2
<1>6. ASSUME NEW x \in Conns, NEW r \in Requests, Waiting(conn'[x], r)
      PROVE  pending'[r] = None
    <2>1. CASE Named(op, r)
        BY <1>3, <2>1
    <2>2. CASE ~Named(op, r)
        BY <1>2, <1>6, <2>2, QueuedIs DEF CallersInv, Unwritten
    <2> QED BY <2>1, <2>2
<1>7. ASSUME NEW r \in Requests
      PROVE  result'[r] = "waiting" <=>
               pending'[r] # None \/ \E x \in Conns : Waiting(conn'[x], r)
    <2>1. CASE Named(op, r)
        BY <1>2, <2>1
    <2>2. CASE ~Named(op, r)
        <3>1. result[r] = "waiting" <=> pending[r] # None \/ \E x \in Conns : Waiting(conn[x], r)
            BY QueuedIs DEF CallersInv, CallersAccounted
        <3> QED BY <1>2, <2>2, <3>1
    <2> QED BY <2>1, <2>2
<1>8. Settles
    BY DEF Settles
<1>9. Once'
    BY <1>4, OnceNext
<1>10. Known'
    BY <1>5, KnownNext
<1>11. Unwritten' /\ CallersAccounted'
    BY <1>6, <1>7, WaitingNext
<1> QED BY <1>8, <1>9, <1>10, <1>11 DEF Accounted, CallersInv

LEMMA AttachCallers ==
    ASSUME LeaseInv, CallersInv, NEW c \in Conns, NEW w \in Workers, NEW m \in Machines, Attach(c, w, m)
    PROVE  Accounted
<1>1. conn' = [conn EXCEPT ![c] = Born(w, m)] /\ UNCHANGED memory /\ conn[c].state = "unborn"
    BY DEF Attach, Born
<1>2. Born(w, m).queue = <<>> /\ Born(w, m).pc = "idle"
    BY DEF Born, Fresh
<1>3. conn[c].queue = <<>> /\ conn[c].pc = "idle"
    BY <1>1, GoodNow DEF Good, Orderly
<1>4. Harmless(conn[c], Born(w, m))
    BY <1>2, <1>3 DEF Harmless, SameOps
<1> QED BY <1>1, <1>4, OneCallers

LEMMA ClosedCallers ==
    ASSUME LeaseInv, CallersInv, NEW c \in Conns, SocketClosed(c) \/ HelloTimeout(c)
    PROVE  Accounted
<1>1. Disconnect(conn, {c}, {})
    BY DEF SocketClosed, HelloTimeout
<1> QED BY <1>1, CloseCallers

LEMMA FrameCallers ==
    ASSUME LeaseInv, CallersInv, NEW c \in Conns, NEW op \in Operations, Frame(c, op)
    PROVE  Accounted
<1> DEFINE cs == [conn EXCEPT ![c].frames = @ + 1]  k == Counted(conn[c])
<1>1. Enqueue(cs, c, op) /\ op.kind # "request"
    BY DEF Frame
<1>2. cs = [conn EXCEPT ![c] = k] /\ cs[c] = k /\ \A x \in Conns : x # c => cs[x] = conn[x]
    BY TableOf DEF Counted
<1>3. k \in ConnRecords /\ Orderly(k) /\ SameOps(conn[c], k)
    <2>1. k \in ConnRecords /\ Orderly(k)
        BY GoodNow, CountedCarried DEF Carried, Good
    <2>2. conn[c] \in ConnRecords
        BY GoodNow
    <2> QED BY <2>1, <2>2 DEF SameOps, Counted, ConnRecords
<1> HIDE DEF k
<1>4. CASE Full(c)
    <2>1. Disconnect(cs, {c}, {})
        BY <1>1, <1>4 DEF Enqueue
    <2> HIDE DEF cs
    <2>2. \A x \in Conns : cs[x] \in ConnRecords /\ SameOps(conn[x], cs[x])
        BY <1>2, <1>3, GoodNow DEF SameOps
    <2> QED BY <2>1, <2>2, DisconnectCallers
<1>5. CASE ~Full(c)
    <2>1. conn' = [cs EXCEPT ![c].queue = Append(@, op)] /\ UNCHANGED memory
        BY <1>1, <1>5 DEF Enqueue
    <2>2. conn' = [conn EXCEPT ![c] = Push(k, op)]
        <3>1. conn' = [cs EXCEPT ![c] = Push(cs[c], op)]
            BY <2>1 DEF Push
        <3> QED BY <1>2, <3>1
    <2>3. pending' = pending /\ result' = result
        BY <2>1 DEF memory
    <2>4. \A r \in Requests : ~Named(op, r)
        BY <1>1 DEF Named
    <2> QED BY <1>3, <2>2, <2>3, <2>4, PushCallers
<1> QED BY <1>4, <1>5

-----------------------------------------------------------------------------
\* The callers: the operations of a connection

LEMMA AskSame ==
    ASSUME NEW k \in ConnRecords, NEW to \in Steps \ {"write"}, k.pc # "write"
    PROVE  Ask(k, to) \in ConnRecords /\ SameOps(k, Ask(k, to))
BY AskFields DEF SameOps

LEMMA StartCallers ==
    ASSUME LeaseInv, CallersInv, NEW c \in Conns, Start(c)
    PROVE  Accounted
<1>1. conn[c].pc = "idle" /\ conn[c].queue # <<>>
    BY DEF Start
<1>2. CASE Fail(c)
    BY <1>1, <1>2, FailCallers
<1>3. CASE ~Fail(c)
    <2> DEFINE l(to, lost) == [Ask(conn[c], to) EXCEPT !.stale = lost]
    <2>1. PICK to \in Steps \ {"write"}, lost \in BOOLEAN :
             conn' = [Asking(c, to) EXCEPT ![c].stale = lost] /\ UNCHANGED memory
        BY <1>3 DEF Start, Steps
    <2>2. conn' = [conn EXCEPT ![c] = l(to, lost)]
        <3>1. Asking(c, to) = [conn EXCEPT ![c] = Ask(conn[c], to)]
            BY TableOf, AskingIs
        <3> QED BY <2>1, <3>1, TableOf
    <2>3. Ask(conn[c], to) \in ConnRecords /\ SameOps(conn[c], Ask(conn[c], to))
        BY <1>1, GoodNow, AskSame
    <2>4. Harmless(conn[c], l(to, lost))
        BY <2>3 DEF Harmless, SameOps, ConnRecords
    <2> HIDE DEF l
    <2> QED BY <2>1, <2>2, <2>4, OneCallers
<1> QED BY <1>2, <1>3

\* A statement only brings an answer.
LEMMA StatementCallers ==
    ASSUME LeaseInv, CallersInv, NEW c \in Conns, NEW reply, UNCHANGED memory,
           Statement(c, reply) \/ conn' = [conn EXCEPT ![c].reply = reply]
    PROVE  Accounted
<1>1. \E a, n : \/ conn' = [conn EXCEPT ![c].reply = a]
                \/ conn' = [conn EXCEPT ![c].reply = a, ![c].granted = n]
    <2>1. CASE ExecuteConnect(c, reply)
        BY <2>1 DEF ExecuteConnect
    <2>2. CASE ExecuteActive(c, reply)
        BY <2>2 DEF ExecuteActive
    <2>3. CASE ExecuteHeartbeat(c, reply)
        BY <2>3 DEF ExecuteHeartbeat
    <2>4. CASE ExecuteReady(c, reply)
        BY <2>4 DEF ExecuteReady
    <2> QED BY <2>1, <2>2, <2>3, <2>4 DEF Statement
<1>2. PICK a, n : \/ conn' = [conn EXCEPT ![c].reply = a]
                  \/ conn' = [conn EXCEPT ![c].reply = a, ![c].granted = n]
    BY <1>1
<1>3. CASE conn' = [conn EXCEPT ![c].reply = a]
    <2>1. conn' = [conn EXCEPT ![c] = Told(conn[c], a)]
        BY <1>3 DEF Told
    <2>2. Harmless(conn[c], Told(conn[c], a))
        BY GoodNow DEF Harmless, SameOps, Told, ConnRecords
    <2> QED BY <2>1, <2>2, OneCallers
<1>4. CASE conn' = [conn EXCEPT ![c].reply = a, ![c].granted = n]
    <2>1. conn' = [conn EXCEPT ![c] = Grants(conn[c], a, n)]
        BY <1>4, TableOf DEF Grants
    <2>2. Harmless(conn[c], Grants(conn[c], a, n))
        BY GoodNow DEF Harmless, SameOps, Grants, ConnRecords
    <2> QED BY <2>1, <2>2, OneCallers
<1> QED BY <1>2, <1>3, <1>4

LEMMA ExecuteCallers ==
    ASSUME LeaseInv, CallersInv, NEW c \in Conns, Execute(c) \/ DatabaseFails(c)
    PROVE  Accounted
<1>1. UNCHANGED memory
    BY DEF Execute, DatabaseFails
<1>2. \/ Statement(c, "yes") \/ Statement(c, "error")
      \/ conn' = [conn EXCEPT ![c].reply = "error"]
    BY DEF Execute, DatabaseFails
<1> QED BY <1>1, <1>2, StatementCallers

LEMMA ResumeConnectCallers ==
    ASSUME LeaseInv, CallersInv, NEW c \in Conns, ResumeConnect(c)
    PROVE  Accounted
<1> DEFINE id == [machine |-> conn[c].token, agent |-> Op(c).agent, lease |-> conn[c].granted]
<1>1. conn[c].pc = "connect" /\ conn[c] \in ConnRecords /\ Good(conn[c])
    BY GoodNow DEF ResumeConnect, Returned
<1>2. conn[c].queue # <<>> /\ Op(c) \in Operations /\ Op(c).kind = "hello" /\ conn[c].token \in Machines
    BY <1>1, UnderWay DEF Good, Orderly, Op
<1>3. id \in Identities
    BY <1>1, <1>2 DEF Identities, Operations, ConnRecords
<1> HIDE DEF id
<1>4. CASE ~Granted(c)
    BY <1>2, <1>4, FailCallers DEF ResumeConnect
<1>5. CASE Granted(c) /\ Open(c)
    <2>1. conn' = [Asking(c, "check") EXCEPT ![c].identity = id] /\ UNCHANGED memory
        BY <1>5 DEF ResumeConnect, id
    <2>2. conn' = [conn EXCEPT ![c] = WithId(Ask(conn[c], "check"), id)]
        <3>1. Asking(c, "check") = [conn EXCEPT ![c] = Ask(conn[c], "check")]
            BY TableOf, AskingIs
        <3> QED BY <2>1, <3>1, TableOf DEF WithId
    <2>3. Ask(conn[c], "check") \in ConnRecords /\ SameOps(conn[c], Ask(conn[c], "check"))
        BY <1>1, AskSame DEF Steps
    <2>4. Harmless(conn[c], WithId(Ask(conn[c], "check"), id))
        BY <1>3, <2>3, WithIdFields DEF Harmless, SameOps
    <2> QED BY <2>1, <2>2, <2>4, OneCallers
<1>6. CASE Granted(c) /\ ~Open(c)
    <2> DEFINE cs == [Popped(c) EXCEPT ![c].identity = id]
    <2>1. Disconnect(cs, {}, {})
        BY <1>6 DEF ResumeConnect, id
    <2>2. conn' = Closing(cs, {}) /\ Reject(Orphans({}))
        <3>1. Orphans({}) \cup {} = Orphans({})
            OBVIOUS
        <3> HIDE DEF cs
        <3> QED BY <2>1, <3>1 DEF Disconnect
    <2>3. cs[c] = WithId(Pop(conn[c]), id) /\ \A x \in Conns : x # c => cs[x] = conn[x]
        <3>1. Popped(c) = [conn EXCEPT ![c] = Pop(conn[c])]
            BY TableOf, PoppedIs
        <3> QED BY <3>1, TableOf DEF WithId
    <2>4. Pop(conn[c]) \in ConnRecords /\ LessOps(conn[c], Pop(conn[c]))
        BY <1>2, PopLess
    <2> HIDE DEF cs
    <2>5. cs[c] \in ConnRecords /\ LessOps(conn[c], cs[c])
        BY <1>3, <2>3, <2>4, WithIdFields DEF LessOps
    <2>6. \A x \in Conns : cs[x] \in ConnRecords /\ Harmless(conn[x], cs[x])
        BY <1>2, <2>3, <2>5, GoodNow DEF Harmless, SameOps, Op
    <2> QED BY <2>2, <2>6, HarmlessCallers
<1> QED BY <1>4, <1>5, <1>6

LEMMA ResumeCheckCallers ==
    ASSUME LeaseInv, CallersInv, NEW c \in Conns, ResumeCheck(c)
    PROVE  Accounted
<1> DEFINE D == Replaced(c)
           cs == [Asking(c, "ready") EXCEPT ![c].timer = FALSE]
           l == [Ask(conn[c], "ready") EXCEPT !.timer = FALSE]
<1>1. conn[c].pc = "check" /\ conn[c] \in ConnRecords /\ conn[c].queue # <<>>
    BY GoodNow, UnderWay DEF ResumeCheck, Returned
<1>2. CASE Fail(c)
    BY <1>1, <1>2, FailCallers
<1>3. CASE ~Fail(c)
    <2>1. conn' = Closing(cs, D) /\ Reject(Orphans(D))
        BY <1>3 DEF ResumeCheck
    <2>2. cs[c] = l /\ \A x \in Conns : x # c => cs[x] = conn[x]
        <3>1. Asking(c, "ready") = [conn EXCEPT ![c] = Ask(conn[c], "ready")]
            BY TableOf, AskingIs
        <3> QED BY <3>1, TableOf
    <2>3. Ask(conn[c], "ready") \in ConnRecords /\ SameOps(conn[c], Ask(conn[c], "ready"))
        BY <1>1, AskSame DEF Steps
    <2>4. l \in ConnRecords /\ SameOps(conn[c], l)
        BY <2>3 DEF SameOps, ConnRecords
    <2>5. D \in SUBSET Conns
        BY DEF Replaced
    <2> HIDE DEF cs, D, l
    <2>6. \A x \in Conns : cs[x] \in ConnRecords /\ Harmless(conn[x], cs[x])
        BY <2>2, <2>4, GoodNow DEF Harmless, SameOps
    <2> QED BY <2>1, <2>5, <2>6, HarmlessCallers
<1> QED BY <1>2, <1>3

LEMMA ResumeBeatCallers ==
    ASSUME LeaseInv, CallersInv, NEW c \in Conns, ResumeBeat(c)
    PROVE  Accounted
<1> DEFINE k == conn[c]
           id == [k.identity EXCEPT !.lease = k.granted]
<1>1. k.pc = "beat" /\ k \in ConnRecords /\ Good(k)
    BY GoodNow DEF ResumeBeat, Returned
<1>2. k.queue # <<>> /\ Op(c).kind = "heartbeat" /\ k.identity \in Identities
    BY <1>1, UnderWay DEF Good, Orderly, Op, ConnRecords
<1>3. CASE ~Granted(c)
    BY <1>2, <1>3, FailCallers DEF ResumeBeat
<1>4. CASE Granted(c)
    <2>1. conn' = [Popped(c) EXCEPT ![c].identity.lease = k.granted] /\ UNCHANGED memory
        BY <1>4 DEF ResumeBeat
    <2>2. Popped(c) = [conn EXCEPT ![c] = Pop(k)]
        BY TableOf, PoppedIs
    <2>3. Pop(k) \in ConnRecords /\ Pop(k).identity = k.identity
        BY <1>1, <1>2, PopFields
    <2>4. conn' = [conn EXCEPT ![c] = WithId(Pop(k), id)]
        <3>1. conn' = [Popped(c) EXCEPT ![c] = [Popped(c)[c] EXCEPT !.identity = [Popped(c)[c].identity EXCEPT !.lease = k.granted]]]
            BY <2>1
        <3>2. Popped(c)[c] = Pop(k)
            BY <2>2, TableOf
        <3> HIDE DEF k
        <3> QED BY <2>2, <2>3, <3>1, <3>2, TableOf DEF WithId
    <2>5. id \in Identities
        BY <1>1, <1>2 DEF Identities, ConnRecords
    <2>6. LessOps(k, Pop(k))
        BY <1>2, PopLess
    <2> HIDE DEF id
    <2>7. Harmless(k, WithId(Pop(k), id))
        BY <1>2, <2>3, <2>5, <2>6, WithIdFields DEF Harmless, LessOps, Op
    <2> QED BY <2>1, <2>4, <2>7, OneCallers
<1> QED BY <1>3, <1>4

\* A response that answers: the caller waits, for this connection, and is told by it.
LEMMA ResumeResponseCallers ==
    ASSUME LeaseInv, CallersInv, NEW c \in Conns, ResumeResponse(c)
    PROVE  Accounted
<1> DEFINE q == Op(c).req
<1>1. /\ conn[c].pc = "active" /\ conn[c] \in ConnRecords /\ Open(c) /\ Op(c).kind = "response"
      /\ conn[c].queue # <<>> /\ Op(c) \in Operations
    BY GoodNow, UnderWay DEF ResumeResponse, Admitted, Returned
<1>2. CASE Finish(c)
    BY <1>1, <1>2, FinishCallers
<1>3. CASE Fail(c)
    BY <1>1, <1>3, FailCallers
<1>4. CASE ~Finish(c) /\ ~Fail(c)
    <2>1. /\ pending[q] = c /\ conn' = Popped(c)
          /\ pending' = [pending EXCEPT ![q] = None]
          /\ result' = [result EXCEPT ![q] = "answered"]
        BY <1>4 DEF ResumeResponse
    <2>2. q \in Requests /\ c # None
        BY <1>1, GatewayAssumption DEF Operations
    <2>3. conn' = [conn EXCEPT ![c] = Pop(conn[c])]
        BY <2>1, TableOf, PoppedIs
    <2>4. conn'[c] = Pop(conn[c]) /\ \A x \in Conns : x # c => conn'[x] = conn[x]
        BY <2>3, TableOf
    <2>5. LessOps(conn[c], conn'[c]) /\ \A x \in Conns : x # c => SameOps(conn[x], conn'[x])
        BY <1>1, <2>4, PopLess DEF SameOps
    <2>6. \A r \in Requests : ~Asks(conn[c], 1, r)
        BY <1>1, HeadAsks DEF Named, Op
    <2>7. \A r \in Requests : /\ pending'[r] = IF r = q THEN None ELSE pending[r]
                              /\ result'[r] = IF r = q THEN "answered" ELSE result[r]
        BY <2>1 DEF LeaseInv, GatewayTypes, MemoryTypes
    <2>8. result[q] = "waiting" /\ delivered[q] = c
        BY <2>1, <2>2 DEF CallersInv, CallersAccounted, LeaseInv, WaitsForTarget
    <2>9. conn'[c].pc = "idle"
        BY <2>5 DEF LessOps
    <2>10. Answers(c, q)
        BY <1>1, <2>9 DEF Answers
    <2> HIDE DEF q
    <2>11. \A r \in Requests : Untouched(r) \/ Over(r)
        BY <2>1, <2>2, <2>5, <2>6, <2>7 DEF Untouched, Over
    <2>12. CallersInv'
        BY <2>5, <2>11, CallersMove
    <2>13. Settles
        BY <1>1, <2>1, <2>2, <2>7, <2>8, <2>10 DEF Settles
    <2> QED BY <2>12, <2>13 DEF Accounted
<1> QED BY <1>2, <1>3, <1>4

\* A request is registered: it stood at the head of one queue only.
LEMMA ResumeRequestCallers ==
    ASSUME LeaseInv, CallersInv, NEW c \in Conns, ResumeRequest(c)
    PROVE  Accounted
<1> DEFINE q == Op(c).req
<1>1. /\ conn[c].pc = "active" /\ conn[c] \in ConnRecords /\ Op(c).kind = "request"
      /\ conn[c].queue # <<>> /\ Op(c) \in Operations
    BY GoodNow, UnderWay DEF ResumeRequest, Admitted, Returned
<1>2. CASE Fail(c)
    BY <1>1, <1>2, FailCallers
<1>3. CASE ~Fail(c)
    <2>1. conn' = Asking(c, "write") /\ pending' = [pending EXCEPT ![q] = c] /\ result' = result
        BY <1>3 DEF ResumeRequest
    <2>2. q \in Requests /\ Asks(conn[c], 1, q)
        BY <1>1, HeadAsks DEF Operations, Named, Op
    <2>3. conn' = [conn EXCEPT ![c] = Ask(conn[c], "write")]
        BY <2>1, TableOf, AskingIs
    <2>4. conn'[c] = Ask(conn[c], "write") /\ \A x \in Conns : x # c => conn'[x] = conn[x]
        BY <2>3, TableOf
    <2>5. conn'[c].queue = conn[c].queue /\ conn'[c].pc = "write"
        BY <1>1, <2>4, AskFields DEF Steps
    <2>6. \A x \in Conns, r \in Requests : \A i : Asks(conn'[x], i, r) <=> Asks(conn[x], i, r)
        BY <2>4, <2>5 DEF Asks
    <2>7. \A r \in Requests : pending'[r] = IF r = q THEN c ELSE pending[r]
        BY <2>1 DEF LeaseInv, GatewayTypes, MemoryTypes
    <2>8. pending[q] = None /\ result[q] = "waiting"
        <3>1. Waiting(conn[c], q)
            BY <1>1, <2>2 DEF Waiting, Asks
        <3> QED BY <2>2, <3>1, QueuedIs DEF CallersInv, Unwritten, CallersAccounted
    <2> HIDE DEF q
    <2>9. ASSUME NEW x \in Conns, Waiting(conn'[x], q)
          PROVE  FALSE
        <3>1. PICK i : Asks(conn'[x], i, q) /\ (i = 1 => conn'[x].pc # "write")
            BY <2>9 DEF Waiting
        <3>2. x = c /\ i = 1
            BY <2>2, <2>6, <3>1, OnceIs
        <3> QED BY <2>5, <3>1, <3>2
    <2>10. ASSUME NEW x \in Conns, NEW r \in Requests, r # q
           PROVE  Waiting(conn'[x], r) <=> Waiting(conn[x], r)
        <3>1. CASE x # c
            BY <2>4, <3>1
        <3>2. CASE x = c
            <4>1. ~Asks(conn[c], 1, r)
                BY <2>2, <2>10 DEF Asks, Named
            <4> QED BY <2>5, <2>6, <3>2, <4>1 DEF Waiting
        <3> QED BY <3>1, <3>2
    <2>11. Once'
        <3>1. \A x \in Conns, y \in Conns, r \in Requests : \A i, j :
                 Asks(conn[x], i, r) /\ Asks(conn[y], j, r) => x = y /\ i = j
            BY OnceIs
        <3> QED BY <2>6, <3>1, OnceNext
    <2>12. Known'
        <3>1. \A x \in Conns, r \in Requests : \A i : Asks(conn[x], i, r) => result'[r] # "none"
            BY <2>1 DEF CallersInv, Known, Asks
        <3> QED BY <2>6, <3>1, KnownNext
    <2>13. \A x \in Conns, r \in Requests : Waiting(conn'[x], r) => pending'[r] = None
        BY <2>7, <2>9, <2>10, QueuedIs DEF CallersInv, Unwritten
    <2>14. ASSUME NEW r \in Requests
           PROVE  result'[r] = "waiting" <=>
                    pending'[r] # None \/ \E x \in Conns : Waiting(conn'[x], r)
        <3>1. CASE r = q
            BY <2>1, <2>7, <2>8, <3>1, GatewayAssumption
        <3>2. CASE r # q
            <4>1. result[r] = "waiting" <=> pending[r] # None \/ \E x \in Conns : Waiting(conn[x], r)
                BY QueuedIs DEF CallersInv, CallersAccounted
            <4> QED BY <2>1, <2>7, <2>10, <3>2, <4>1
        <3> QED BY <3>1, <3>2
    <2>15. Unwritten' /\ CallersAccounted'
        BY <2>13, <2>14, WaitingNext
    <2>16. Settles
        BY <2>1 DEF Settles
    <2> QED BY <2>11, <2>12, <2>15, <2>16 DEF Accounted, CallersInv
<1> QED BY <1>2, <1>3

LEMMA ResumeCallers ==
    ASSUME LeaseInv, CallersInv, NEW c \in Conns, Resume(c)
    PROVE  Accounted
<1>1. CASE ResumeConnect(c)
    BY <1>1, ResumeConnectCallers
<1>2. CASE ResumeCheck(c)
    BY <1>2, ResumeCheckCallers
<1>3. CASE ResumeReady(c)
    <2>1. conn[c].pc = "ready" /\ (Finish(c) \/ Fail(c))
        BY <1>3 DEF ResumeReady, Returned
    <2>2. conn[c].queue # <<>> /\ Op(c).kind = "hello"
        BY <2>1, UnderWay, GoodNow DEF Good, Orderly, Op
    <2> QED BY <2>1, <2>2, FinishCallers, FailCallers
<1>4. CASE ResumeRefused(c)
    <2>1. conn[c].queue # <<>> /\ Fail(c)
        BY <1>4, UnderWay DEF ResumeRefused, Returned
    <2> QED BY <2>1, FailCallers
<1>5. CASE ResumeHeartbeat(c)
    <2>1. conn[c].pc = "active" /\ conn' = Asking(c, "beat") /\ UNCHANGED memory
        BY <1>5 DEF ResumeHeartbeat, Admitted, Returned
    <2>2. conn' = [conn EXCEPT ![c] = Ask(conn[c], "beat")]
        BY <2>1, TableOf, AskingIs
    <2>3. Harmless(conn[c], Ask(conn[c], "beat"))
        BY <2>1, GoodNow, AskSame DEF Harmless, Steps
    <2> QED BY <2>1, <2>2, <2>3, OneCallers
<1>6. CASE ResumeBeat(c)
    BY <1>6, ResumeBeatCallers
<1>7. CASE ResumeResponse(c)
    BY <1>7, ResumeResponseCallers
<1>8. CASE ResumeRequest(c)
    BY <1>8, ResumeRequestCallers
<1> QED BY <1>1, <1>2, <1>3, <1>4, <1>5, <1>6, <1>7, <1>8 DEF Resume

LEMMA WriteCallers ==
    ASSUME LeaseInv, CallersInv, NEW c \in Conns, Write(c)
    PROVE  Accounted
<1>1. conn[c].pc = "write" /\ (Finish(c) \/ Fail(c))
    BY DEF Write, Written, WriteFails
<1>2. conn[c].queue # <<>>
    BY <1>1, UnderWay
<1> QED BY <1>1, <1>2, FinishCallers, FailCallers

-----------------------------------------------------------------------------
\* The callers: cleanups, callers, deletions and crashes

LEMMA OfflineCallers ==
    ASSUME LeaseInv, CallersInv, NEW c \in Conns, Offline(c) \/ OfflineFails(c)
    PROVE  Accounted
<1>1. conn' = [conn EXCEPT ![c] = Cleaned(conn[c])] /\ UNCHANGED memory
    BY TableOf DEF Offline, OfflineFails, Cleaned
<1>2. Harmless(conn[c], Cleaned(conn[c]))
    BY GoodNow DEF Harmless, SameOps, Cleaned, ConnRecords
<1> QED BY <1>1, <1>2, OneCallers

LEMMA ElsewhereCallers ==
    ASSUME LeaseInv, CallersInv, UNCHANGED <<conn, memory>>
    PROVE  Accounted
<1>1. \A x \in Conns : Harmless(conn[x], conn'[x])
    BY DEF Harmless, SameOps
<1> QED BY <1>1, QuietCallers

LEMMA RevokeCallers ==
    ASSUME LeaseInv, CallersInv, NEW v \in revoking, Revoke(v)
    PROVE  Accounted
<1> DEFINE D == {c \in Conns : /\ Open(c) /\ conn[c].worker = v.worker
                              /\ conn[c].identity # None
                              /\ conn[c].identity.machine = v.machine}
<1>1. Disconnect(conn, D, {}) /\ D \in SUBSET Conns
    BY DEF Revoke
<1> HIDE DEF D
<1> QED BY <1>1, CloseCallers

\* The timer settles a caller whose request is registered and so in no queue unwritten.
LEMMA TimeoutCallers ==
    ASSUME LeaseInv, CallersInv, NEW q \in Requests, RequestTimeout(q)
    PROVE  Accounted
<1>1. /\ pending[q] # None /\ conn' = conn
      /\ \A r \in Requests : /\ pending'[r] = IF r = q THEN None ELSE pending[r]
                             /\ result'[r] = IF r = q THEN "failed" ELSE result[r]
    BY DEF RequestTimeout, LeaseInv, GatewayTypes, MemoryTypes
<1>2. \A x \in Conns : SameOps(conn[x], conn'[x])
    BY <1>1 DEF SameOps
<1>3. \A r \in Requests : Untouched(r) \/ Over(r)
    BY <1>1, <1>2 DEF Untouched, Over
<1>4. CallersInv'
    BY <1>2, <1>3, CallersMove
<1>5. result[q] = "waiting"
    BY <1>1 DEF CallersInv, CallersAccounted
<1>6. Settles
    BY <1>1, <1>5 DEF Settles
<1> QED BY <1>4, <1>6 DEF Accounted

LEMMA RequestCallers ==
    ASSUME LeaseInv, CallersInv, NEW q \in Requests, NEW w \in Workers, NEW a \in AgentIds,
           NEW m \in Machines, Request(q, w, a, m)
    PROVE  Accounted
<1> DEFINE c == sockets[w][a]
           op == [kind |-> "request", req |-> q, machine |-> m]
<1>1. result[q] = "none" /\ pending[q] = None
    BY DEF Request, CallersInv, CallersAccounted
<1>2. MemoryTypes
    BY DEF LeaseInv, GatewayTypes
<1>3. CASE c = None \/ ~Open(c)
    <2>1. /\ conn' = conn /\ pending' = pending
          /\ \A r \in Requests : result'[r] = IF r = q THEN "failed" ELSE result[r]
        BY <1>2, <1>3 DEF Request, MemoryTypes
    <2>2. \A x \in Conns : SameOps(conn[x], conn'[x])
        BY <2>1 DEF SameOps
    <2>3. \A r \in Requests : Untouched(r) \/ Over(r)
        BY <1>1, <2>1, <2>2 DEF Untouched, Over
    <2>4. CallersInv'
        BY <2>2, <2>3, CallersMove
    <2>5. Settles
        BY <1>1, <2>1 DEF Settles
    <2> QED BY <2>4, <2>5 DEF Accounted
<1>4. CASE ~(c = None \/ ~Open(c))
    <2>1. c \in Conns /\ Open(c)
        BY <1>2, <1>4 DEF MemoryTypes
    <2>2. CASE Full(c)
        <3>1. Disconnect(conn, {c}, {q})
            BY <1>4, <2>2 DEF Request
        <3> HIDE DEF c
        <3> QED BY <1>1, <2>1, <3>1, CloseCallers
    <2>3. CASE ~Full(c)
        <3>1. PICK d \in Conns, o \in Operations : d = c /\ o = op
            BY <2>1 DEF Operations
        <3>2. /\ conn' = [conn EXCEPT ![d].queue = Append(@, o)] /\ pending' = pending
              /\ \A r \in Requests : result'[r] = IF r = q THEN "waiting" ELSE result[r]
            BY <1>2, <1>4, <2>3, <3>1 DEF Request, MemoryTypes
        <3>3. \A r \in Requests : Named(o, r) <=> r = q
            BY <3>1 DEF Named
        <3>4. PICK k \in ConnRecords : k = conn[d]
            BY GoodNow
        <3>5. conn' = [conn EXCEPT ![d] = Push(k, o)]
            BY <3>2, <3>4 DEF Push
        <3>6. Orderly(k) /\ SameOps(conn[d], k)
            BY <3>4, GoodNow DEF Good, SameOps
        <3>7. \A r \in Requests : IF Named(o, r) THEN result[r] = "none" /\ result'[r] = "waiting"
                                                 ELSE result'[r] = result[r]
            BY <1>1, <3>2, <3>3
        <3> QED BY <3>2, <3>5, <3>6, <3>7, PushCallers
    <2> QED BY <2>2, <2>3
<1> QED BY <1>3, <1>4

\* With a process go its queues and every caller that stands in them or waits for its
\* sockets.
LEMMA ProcessDiesCallers ==
    ASSUME LeaseInv, CallersInv, NEW w \in Workers, ProcessDies(w)
    PROVE  Accounted
<1> DEFINE D == {c \in Conns : conn[c].worker = w /\ conn[c].state \in {"open", "closed"}}
           mine == {r \in Requests : \/ pending[r] \in D
                                     \/ \E c \in D : \E i \in 1 .. Len(conn[c].queue) :
                                          conn[c].queue[i].kind = "request" /\ conn[c].queue[i].req = r}
<1>1. conn' = [c \in Conns |-> IF c \in D THEN Dead(conn[c]) ELSE conn[c]] /\ Reject(mine)
    BY DEF ProcessDies, Dead
<1>2. ASSUME NEW r \in Requests
      PROVE  r \in mine <=> pending[r] \in D \/ \E x \in D : \E i : Asks(conn[x], i, r)
    <2>1. \A x \in D : DOMAIN conn[x].queue = 1 .. Len(conn[x].queue)
        <3>1. \A x \in Conns : conn[x].queue \in Seq(Operations)
            BY GoodNow DEF ConnRecords
        <3> QED BY <3>1, LenProperties
    <2> QED BY <2>1 DEF Asks, Named
<1>3. D \subseteq Conns /\ \A r \in mine : r \in Requests
    OBVIOUS
<1> HIDE DEF D, mine
<1>4. \A r \in Requests :
         /\ pending'[r] = IF r \in mine THEN None ELSE pending[r]
         /\ result'[r] = IF r \in mine /\ result[r] \in {"none", "waiting"} THEN "failed" ELSE result[r]
    BY <1>1 DEF Reject
<1>5. \A x \in Conns : IF x \in D THEN conn'[x].queue = <<>> ELSE conn'[x] = conn[x]
    BY <1>1, GoodNow DEF Dead, ConnRecords
<1>6. ASSUME NEW x \in Conns, NEW r \in Requests, NEW i, Asks(conn'[x], i, r)
      PROVE  x \notin D /\ Asks(conn[x], i, r)
    <2>1. conn'[x].queue # <<>>
        BY <1>6, EmptySeq DEF Asks
    <2> QED BY <1>5, <1>6, <2>1
<1>7. ASSUME NEW x \in Conns, NEW r \in Requests, Waiting(conn'[x], r)
      PROVE  x \notin D /\ Waiting(conn[x], r) /\ pending[r] = None /\ r \notin mine
    <2>1. PICK i : Asks(conn'[x], i, r)
        BY <1>7 DEF Waiting
    <2>2. x \notin D /\ Asks(conn[x], i, r) /\ conn'[x] = conn[x]
        BY <1>5, <1>6, <2>1
    <2>3. pending[r] = None
        BY <1>7, <2>2, QueuedIs DEF CallersInv, Unwritten
    <2>4. ~\E y \in D : \E j : Asks(conn[y], j, r)
        BY <1>3, <2>2, OnceIs
    <2>5. None \notin D
        BY <1>3, GatewayAssumption
    <2> QED BY <1>2, <1>7, <2>2, <2>3, <2>4, <2>5
<1>8. Once'
    <2>1. \A x \in Conns, y \in Conns, r \in Requests : \A i, j :
             Asks(conn'[x], i, r) /\ Asks(conn'[y], j, r) => x = y /\ i = j
        BY <1>6, OnceIs
    <2> QED BY <2>1, OnceNext
<1>9. Known'
    <2>1. ASSUME NEW x \in Conns, NEW r \in Requests, NEW i, Asks(conn'[x], i, r)
          PROVE  result'[r] # "none"
        <3>1. result[r] # "none"
            BY <1>6, <2>1 DEF CallersInv, Known, Asks
        <3> QED BY <1>4, <3>1
    <2> QED BY <2>1, KnownNext
<1>10. ASSUME NEW x \in Conns, NEW r \in Requests, Waiting(conn'[x], r)
       PROVE  pending'[r] = None
    BY <1>4, <1>7, <1>10
<1>11. ASSUME NEW r \in Requests
       PROVE  result'[r] = "waiting" <=>
                pending'[r] # None \/ \E x \in Conns : Waiting(conn'[x], r)
    <2>1. CASE r \in mine
        BY <1>4, <1>7, <2>1
    <2>2. CASE r \notin mine
        <3>1. result[r] = "waiting" <=> pending[r] # None \/ \E x \in Conns : Waiting(conn[x], r)
            BY QueuedIs DEF CallersInv, CallersAccounted
        <3>2. \A x \in Conns : Waiting(conn[x], r) => x \notin D /\ Waiting(conn'[x], r)
            BY <1>2, <1>5, <2>2 DEF Waiting
        <3> QED BY <1>4, <1>7, <2>2, <3>1, <3>2
    <2> QED BY <2>1, <2>2
<1>12. Unwritten' /\ CallersAccounted'
    BY <1>10, <1>11, WaitingNext
<1>13. Settles
    BY <1>4 DEF Settles
<1> QED BY <1>8, <1>9, <1>12, <1>13 DEF Accounted, CallersInv

-----------------------------------------------------------------------------
\* Every step

LEMMA InitGateway == GatewayInit => GatewayInv
<1> SUFFICES ASSUME GatewayInit PROVE GatewayInv
    OBVIOUS
<1>1. /\ \A c \in Conns : conn[c] = Fresh
      /\ \A m \in Machines : row[m].runtime = "pending" /\ row[m].holder = None
      /\ \A r \in Requests : pending[r] = None /\ result[r] = "none"
    BY DEF GatewayInit
<1>2. /\ Fresh \in ConnRecords /\ Fresh.state = "unborn" /\ Fresh.identity = None
      /\ Fresh.queue = <<>> /\ Fresh.pc = "idle" /\ Fresh.reply = "none" /\ ~Fresh.cleaned
    BY EmptySeq DEF Fresh, ConnRecords
<1>3. GatewayTypes
    <2>1. row \in [Machines -> Rows] /\ ready \subseteq Machines /\ faults \in Nat
        BY DEF GatewayInit, Rows
    <2>2. conn \in [Conns -> ConnRecords]
        BY <1>2 DEF GatewayInit
    <2>3. MemoryTypes
        BY DEF GatewayInit, MemoryTypes
    <2>4. revoking \subseteq [machine : Machines, worker : Workers]
        BY DEF GatewayInit
    <2> QED BY <2>1, <2>2, <2>3, <2>4 DEF GatewayTypes
<1>4. ASSUME NEW c \in Conns
      PROVE  Orderly(conn[c]) /\ Leases(conn[c]) /\ Fenced(conn[c])
    <2>1. conn[c] = Fresh
        BY <1>1
    <2>2. Orderly(Fresh)
        BY <1>2 DEF Orderly, Steps
    <2>3. Leases(Fresh) /\ Fenced(Fresh)
        BY <1>2 DEF Leases, Fenced, OnItsWay
    <2> QED BY <2>1, <2>2, <2>3
<1>5. HoldersSound
    <2>1. \A c \in Conns, m \in Machines : ~Newest(conn[c], m)
        BY <1>1, <1>2 DEF Newest, OnItsWay
    <2>2. \A c \in Conns, m \in Machines : row[m].holder # c
        BY <1>1, GatewayAssumption
    <2> QED BY <2>1, <2>2 DEF HoldersSound, HolderSound
<1>6. LeaseInv
    BY <1>1, <1>3, <1>4, <1>5 DEF LeaseInv, ConnsSound, PendingIsOpen, WaitsForTarget, OnlineIsHeld
<1>7. \A c \in Conns : \A i, r : ~Asks(conn[c], i, r)
    <2>1. \A c \in Conns : conn[c].queue = <<>>
        BY <1>1, <1>2
    <2>2. \A i : i \notin DOMAIN << >>
        BY EmptySeq
    <2> QED BY <2>1, <2>2 DEF Asks
<1>8. \A c \in Conns, r \in Requests : ~Queued(r, c)
    BY <1>7, QueuedIs DEF Waiting
<1>9. CallersInv
    BY <1>1, <1>7, <1>8 DEF CallersInv, Once, Known, Unwritten, CallersAccounted
<1> QED BY <1>6, <1>9 DEF GatewayInv

LEMMA ConnStepKeeps ==
    ASSUME LeaseInv, NEW c \in Conns,
           \/ \E w \in Workers, m \in Machines : Attach(c, w, m)
           \/ \E op \in Operations : Frame(c, op)
           \/ SocketClosed(c) \/ HelloTimeout(c)
           \/ Progress(c) \/ DatabaseFails(c)
           \/ Offline(c) \/ OfflineFails(c)
    PROVE  LeaseInv' /\ (CallersInv => Accounted)
<1>1. CASE \E w \in Workers, m \in Machines : Attach(c, w, m)
    BY <1>1, AttachKeeps, AttachCallers
<1>2. CASE \E op \in Operations : Frame(c, op)
    BY <1>2, FrameKeeps, FrameCallers
<1>3. CASE SocketClosed(c) \/ HelloTimeout(c)
    BY <1>3, ClosedKeeps, ClosedCallers
<1>4. CASE Start(c)
    BY <1>4, StartKeeps, StartCallers
<1>5. CASE Execute(c)
    BY <1>5, ExecuteKeeps, ExecuteCallers
<1>6. CASE Resume(c)
    BY <1>6, ResumeKeeps, ResumeCallers
<1>7. CASE Write(c)
    BY <1>7, WriteKeeps, WriteCallers
<1>8. CASE DatabaseFails(c)
    BY <1>8, DatabaseFailsKeeps, ExecuteCallers
<1>9. CASE Offline(c)
    BY <1>9, OfflineKeeps, OfflineCallers
<1>10. CASE OfflineFails(c)
    BY <1>10, OfflineFailsKeeps, OfflineCallers
<1> QED BY <1>1, <1>2, <1>3, <1>4, <1>5, <1>6, <1>7, <1>8, <1>9, <1>10 DEF Progress

LEMMA GatewayStep ==
    ASSUME GatewayInv, GatewayNext
    PROVE  GatewayInv' /\ Settles
<1> DEFINE Done == LeaseInv' /\ Accounted
<1> LeaseInv /\ CallersInv
    BY DEF GatewayInv
<1>1. CASE \E c \in Conns : \/ \E w \in Workers, m \in Machines : Attach(c, w, m)
                            \/ \E op \in Operations : Frame(c, op)
                            \/ SocketClosed(c) \/ HelloTimeout(c)
                            \/ Progress(c) \/ DatabaseFails(c)
                            \/ Offline(c) \/ OfflineFails(c)
    <2>1. PICK c \in Conns : \/ \E w \in Workers, m \in Machines : Attach(c, w, m)
                             \/ \E op \in Operations : Frame(c, op)
                             \/ SocketClosed(c) \/ HelloTimeout(c)
                             \/ Progress(c) \/ DatabaseFails(c)
                             \/ Offline(c) \/ OfflineFails(c)
        BY <1>1
    <2>2. Done
        BY <2>1, ConnStepKeeps
    <2> QED BY <2>2 DEF GatewayInv, Accounted
<1>2. ASSUME NEW r \in Requests,
             \/ RequestTimeout(r)
             \/ \E w \in Workers, a \in AgentIds, m \in Machines : Request(r, w, a, m)
      PROVE  Done
    <2>1. CASE RequestTimeout(r)
        BY <2>1, RequestTimeoutKeeps, TimeoutCallers
    <2>2. ASSUME NEW w \in Workers, NEW a \in AgentIds, NEW m \in Machines, Request(r, w, a, m)
          PROVE  Done
        BY <2>2, RequestKeeps, RequestCallers
    <2> QED BY <1>2, <2>1, <2>2
<1>3. ASSUME NEW m \in Machines, NEW w \in Workers,
             <<w, m>> \in Touchable /\ (DisableUser(m) \/ EnableUser(m) \/ DeleteMachine(m, w))
      PROVE  Done
    <2>1. LeaseInv'
        BY <1>3, UserKeeps, DeleteMachineKeeps
    <2>2. UNCHANGED <<conn, memory>>
        BY <1>3 DEF DisableUser, EnableUser, DeleteMachine
    <2> QED BY <2>1, <2>2, ElsewhereCallers
<1>4. ASSUME NEW v \in revoking, Revoke(v)
      PROVE  Done
    BY <1>4, RevokeKeeps, RevokeCallers
<1>5. ASSUME NEW w \in Workers, ProcessDies(w)
      PROVE  Done
    BY <1>5, ProcessDiesKeeps, ProcessDiesCallers
<1> QED BY <1>1, <1>2, <1>3, <1>4, <1>5 DEF GatewayNext, GatewayInv, Accounted

LEMMA GatewayStutter ==
    ASSUME GatewayInv, UNCHANGED gatewayVars
    PROVE  GatewayInv'
<1>1. /\ row' = row /\ ready' = ready /\ conn' = conn /\ sockets' = sockets
      /\ pending' = pending /\ result' = result /\ delivered' = delivered
      /\ revoking' = revoking /\ faults' = faults
    BY DEF gatewayVars
<1>2. LeaseInv /\ CallersInv
    BY DEF GatewayInv
<1>3. GatewayTypes' /\ PendingIsOpen' /\ WaitsForTarget'
    BY <1>1, <1>2 DEF LeaseInv, GatewayTypes, MemoryTypes, PendingIsOpen, WaitsForTarget, Open
<1>4. \A x \in Conns : Good(conn'[x]) /\ Follows(conn[x], conn'[x]) /\ Stays(conn[x], conn'[x])
    BY <1>1, <1>2, GoodNow DEF Carried
<1>5. \A x \in Conns, m \in Machines : Holds(conn[x], m) => Holds(conn'[x], m)
    BY <1>1
<1>6. LeaseInv'
    BY <1>1, <1>2, <1>3, <1>4, <1>5, QuietKeeps
<1>7. CallersInv'
    BY <1>1, <1>2, ElsewhereCallers DEF Accounted, memory
<1> QED BY <1>6, <1>7 DEF GatewayInv

-----------------------------------------------------------------------------
\* The theorems about the gateway

(* In every reachable state, whatever the numbers of processes, sockets, machines and
   requests: the leases in the connections and in the answers under way are no newer than
   the rows and name them while they are the newest, only the connection that took a
   machine last has its newest lease, and a request stands unwritten in one queue, or is
   registered with one open connection, or its caller is settled (agent-runtime.gateway.ts,
   agent.repository.ts runtimeMachineScope). *)
THEOREM GatewayInvariant == GatewaySpec => []GatewayInv
<1>1. GatewayInv /\ [GatewayNext]_gatewayVars => GatewayInv'
    BY GatewayStep, GatewayStutter
<1> QED BY InitGateway, <1>1, PTL DEF GatewaySpec

(* A request is only ever registered for a socket that is open, and the disconnect of a
   socket rejects all that wait for it. *)
THEOREM PendingIsOpenHolds == GatewaySpec => []PendingIsOpen
<1>1. GatewayInv => PendingIsOpen
    BY DEF GatewayInv, LeaseInv
<1> QED BY <1>1, GatewayInvariant, PTL

(* An operation that asked after its lease had been lost writes nothing, neither to the
   remote nor to the row: leases only grow, so a lost one never comes back. *)
THEOREM StaleIsFencedHolds == GatewaySpec => []StaleIsFenced
<1>1. GatewayInv => StaleIsFenced
    BY DEF GatewayInv, LeaseInv, ConnsSound, Fenced, StaleIsFenced
<1> QED BY <1>1, GatewayInvariant, PTL

(* The connection whose hello took a machine last keeps the row while it is open: no
   cleanup and no heartbeat of an older connection moves its lease or shows the machine
   offline. *)
THEOREM LeaseHolderIsOnlineHolds == GatewaySpec => []LeaseHolderIsOnline
<1>1. GatewayInv => LeaseHolderIsOnline
    <2> SUFFICES ASSUME GatewayInv PROVE LeaseHolderIsOnline
        OBVIOUS
    <2>1. \A m \in Machines : row[m].holder # None => row[m].holder \in Conns
        BY DEF GatewayInv, LeaseInv, GatewayTypes, Rows
    <2>2. \A m \in Machines, c \in Conns :
             row[m].holder = c /\ row[m].status = "active" /\ Open(c) => Keeps(conn[c], m)
        BY DEF GatewayInv, LeaseInv, HoldersSound, HolderSound
    <2> QED BY <2>1, <2>2 DEF LeaseHolderIsOnline, Keeps
<1> QED BY <1>1, GatewayInvariant, PTL

(* Without faults of the database and crashes a machine that is online, of a user who was
   never disabled, has a connection that has not been cleaned up and has its newest lease,
   or is about to be told of it. *)
THEOREM GoneIsNotOnlineHolds == GatewaySpec => []GoneIsNotOnline
<1>1. GatewayInv => GoneIsNotOnline
    <2> SUFFICES ASSUME GatewayInv, faults = 0, NEW m \in Machines, row[m].user = "active",
                        Gone(m), row[m].runtime = "online"
                 PROVE  FALSE
        BY DEF GoneIsNotOnline
    <2>1. PICK c \in Conns : Holds(conn[c], m)
        BY DEF GatewayInv, LeaseInv, OnlineIsHeld
    <2> QED BY <2>1 DEF Holds, Newest, Gone
<1> QED BY <1>1, GatewayInvariant, PTL

(* A caller of request() is settled once, and answered only while its request is
   registered, by a response of the open connection it was written to. *)
THEOREM AnsweredByTargetHolds == GatewaySpec => AnsweredByTarget
<1>1. GatewayInv /\ [GatewayNext]_gatewayVars => [Settles]_gatewayVars
    BY GatewayStep
<1> HIDE DEF Settles
<1>2. GatewaySpec => [][Settles]_gatewayVars
    BY <1>1, GatewayInvariant, PTL DEF GatewaySpec
<1> QED BY <1>2 DEF AnsweredByTarget, Settles

(* A caller waits exactly as long as its request is queued on a connection or registered
   with one: no caller is forgotten and no entry is left behind. *)
THEOREM CallersAccountedHolds == GatewaySpec => []CallersAccounted
<1>1. GatewayInv => CallersAccounted
    BY DEF GatewayInv, CallersInv
<1> QED BY <1>1, GatewayInvariant, PTL
=============================================================================
