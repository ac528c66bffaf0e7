----------------------------- MODULE AgentGateway -----------------------------
(***************************************************************************)
(* The websocket gateway remote agent machines connect to                  *)
(* (services/agent/agent-runtime.gateway.ts) with the lease it keeps in    *)
(* the machine's row (store/agent/agent.repository.ts).                    *)
(*                                                                         *)
(* Every connection runs its operations one after the other: a frame from  *)
(* the remote or a request for it is queued behind `tail`.  An operation   *)
(* awaits the database; `Execute` is the moment the statement takes        *)
(* effect, `Resume` the moment the answer reaches the event loop, and      *)
(* everything else may happen between the two.  Each accepted transition   *)
(* of the row moves its updateTime, the lease, and every later statement   *)
(* of a connection names the lease it was granted.  Only the equality of   *)
(* leases matters: nextRuntimeLease gives a time the row never had, here   *)
(* the next number.                                                        *)
(***************************************************************************)
EXTENDS Integers, Sequences, FiniteSetsExt

CONSTANTS Workers,      \* backend processes, each with a gateway of its own
          Conns,        \* websocket connections, each used once
          Machines,     \* rows of agent_runtime_machines
          AgentIds,     \* agent ids a hello may claim
          Requests,     \* calls of request(), each with its requestId
          None,
          MaxQueued,    \* AGENT_RUNTIME_LIMITS.maxQueuedFrames
          MaxPending,   \* AGENT_RUNTIME_LIMITS.maxPendingRequests
          MaxFrames,    \* bound: frames the remotes send in all
          MaxMishaps,   \* bound: database failures, process crashes, machines deleted
                        \* and users disabled, in all
          Attachable,   \* bound: which connection is made to which process with the
                        \* registration of which machine
          Claims,       \* bound: which agent ids the remote of a machine claims
          Targets,      \* bound: process, agent id and expected machine of a request
          Touchable     \* bound: which process deletes which machine; the users of
                        \* these machines are the ones disabled

Identities == [machine : Machines, agent : AgentIds, lease : Nat]

ASSUME GatewayAssumption ==
    /\ MaxQueued \in Nat \ {0} /\ MaxPending \in Nat \ {0}
    /\ MaxFrames \in Nat /\ MaxMishaps \in Nat
    /\ Attachable \subseteq Conns \X Workers \X Machines
    /\ Claims \subseteq Machines \X AgentIds
    /\ Targets \subseteq Workers \X AgentIds \X Machines
    /\ Touchable \subseteq Workers \X Machines
    /\ None \notin Conns \cup Machines \cup AgentIds \cup Workers \cup Identities

VARIABLES row,        \* the machine rows: status, runtimeStatus, agentId, lease, and the
                      \* status of the user and account owner they belong to; `holder`
                      \* is history: the connection whose hello took the row last
          ready,      \* machines whose workspace was marked ready
          conn,       \* the connections, dead ones included
          sockets,    \* per worker: agent id -> the connection that serves it
          pending,    \* pendingRequests: request -> the connection, or None
          result,     \* what the caller of request() has got
          delivered,  \* the connection the request was written to
          revoking,   \* deleted machines whose revokeMachine is still to run
          faults      \* database failures and process crashes so far

gatewayVars == <<row, ready, conn, sockets, pending, result, delivered, revoking, faults>>
memory == <<sockets, pending, result, delivered>>

Operations == [kind : {"hello"}, agent : AgentIds] \cup [kind : {"heartbeat"}]
              \cup [kind : {"response"}, req : Requests]
              \cup [kind : {"request"}, req : Requests, machine : Machines]

Fresh == [state |-> "unborn", token |-> None, worker |-> None, identity |-> None,
          queue |-> <<>>, pc |-> "idle", reply |-> "none", granted |-> 0,
          timer |-> FALSE, cleaned |-> FALSE, frames |-> 0, stale |-> FALSE]

GatewayInit ==
    /\ row = [m \in Machines |-> [status |-> "active", runtime |-> "pending", agent |-> None,
                                  lease |-> 0, user |-> "active", holder |-> None]]
    /\ ready = {}
    /\ conn = [c \in Conns |-> Fresh]
    /\ sockets = [w \in Workers |-> [a \in AgentIds |-> None]]
    /\ pending = [r \in Requests |-> None]
    /\ result = [r \in Requests |-> "none"]
    /\ delivered = [r \in Requests |-> None]
    /\ revoking = {}
    /\ faults = 0

-----------------------------------------------------------------------------
(* What the database sees: runtimeMachineScope *)

Enabled(m) == row[m].status = "active" /\ row[m].user # "disabled"
HasLease(id) == /\ id # None
                /\ row[id.machine].status = "active"
                /\ row[id.machine].agent = id.agent
                /\ row[id.machine].lease = id.lease
Current(id) == HasLease(id) /\ Enabled(id.machine)

Open(c) == conn[c].state = "open"
Op(c) == Head(conn[c].queue)
Serving(c) == /\ conn[c].identity # None
              /\ sockets[conn[c].worker][conn[c].identity.agent] = c

(* disconnect(): D are the connections it closes, cs the connections after   *)
(* the rest of the step and res what the callers have got by then.           *)
Closing(cs, D) == [c \in Conns |-> IF c \in D THEN [cs[c] EXCEPT !.state = "closed"] ELSE cs[c]]
SocketsLess(D) == [w \in Workers |-> [a \in AgentIds |->
                     IF sockets[w][a] \in D THEN None ELSE sockets[w][a]]]
Orphans(D) == {r \in Requests : pending[r] \in D}

Reject(rs) ==      \* a promise that is settled stays as it is
    /\ pending' = [r \in Requests |-> IF r \in rs THEN None ELSE pending[r]]
    /\ result' = [r \in Requests |-> IF r \in rs /\ result[r] \in {"none", "waiting"}
                                    THEN "failed" ELSE result[r]]
    /\ UNCHANGED delivered

Disconnect(cs, D, failed) ==
    /\ conn' = Closing(cs, D)
    /\ sockets' = SocketsLess(D)
    /\ Reject(Orphans(D) \cup failed)

(* The operation at the head of the queue is over, with its error if it has one. *)
Popped(c) == [conn EXCEPT ![c].queue = Tail(@), ![c].pc = "idle", ![c].reply = "none",
                             ![c].granted = 0, ![c].stale = FALSE]
Asking(c, pc) == [conn EXCEPT ![c].pc = pc, ![c].reply = "none"]
OwnRequest(c) == IF Op(c).kind = "request" THEN {Op(c).req} ELSE {}
Fail(c) == Disconnect(Popped(c), {c} \cap {x \in Conns : Open(x)}, OwnRequest(c))
Finish(c) == conn' = Popped(c) /\ UNCHANGED memory

-----------------------------------------------------------------------------
(* The transport *)

Attach(c, w, m) ==
    /\ conn[c].state = "unborn" /\ <<c, w, m>> \in Attachable
    /\ conn' = [conn EXCEPT ![c] = [Fresh EXCEPT !.state = "open", !.token = m,
                                                 !.worker = w, !.timer = TRUE]]
    /\ UNCHANGED <<row, ready, memory, revoking, faults>>

Full(c) == Len(conn[c].queue) >= MaxQueued
Enqueue(cs, c, op) ==
    IF Full(c) THEN Disconnect(cs, {c}, {})
    ELSE /\ conn' = [cs EXCEPT ![c].queue = Append(@, op)]
         /\ UNCHANGED memory

FramesSent == MapThenSumSet(LAMBDA x : conn[x].frames, Conns)

(* ws.on("message"): a response names a request that was written to somebody. *)
Frame(c, op) ==
    /\ Open(c) /\ op.kind # "request"
    /\ op.kind = "hello" => <<conn[c].token, op.agent>> \in Claims
    /\ op.kind = "response" => delivered[op.req] # None
    /\ FramesSent < MaxFrames
    /\ Enqueue([conn EXCEPT ![c].frames = @ + 1], c, op)
    /\ UNCHANGED <<row, ready, revoking, faults>>

SocketClosed(c) == /\ Open(c)
                   /\ Disconnect(conn, {c}, {})
                   /\ UNCHANGED <<row, ready, revoking, faults>>

HelloTimeout(c) == /\ Open(c) /\ conn[c].timer
                   /\ Disconnect(conn, {c}, {})
                   /\ UNCHANGED <<row, ready, revoking, faults>>
-----------------------------------------------------------------------------
(* Operations of a connection, one at a time *)

(* The synchronous head of the operation, up to its first database call.  Of
   a closed connection nothing is run.  `stale` is history: whether the lease
   was already lost, and not only suspended, when the operation asked for it. *)
Start(c) ==
    /\ conn[c].state \in {"open", "closed"}
    /\ conn[c].pc = "idle" /\ conn[c].queue # <<>>
    /\ IF \/ ~Open(c)
          \/ conn[c].identity = None /\ Op(c).kind # "hello"
          \/ conn[c].identity # None /\ ~Serving(c)
       THEN Fail(c)
       ELSE /\ conn' = [Asking(c, IF conn[c].identity = None THEN "connect" ELSE "active")
                          EXCEPT ![c].stale = ~HasLease(conn[c].identity)]
            /\ UNCHANGED memory
    /\ UNCHANGED <<row, ready, revoking, faults>>

Awaiting(c, pc) == conn[c].pc = pc /\ conn[c].reply = "none"
Renewed(m) == row[m].lease + 1

(* connectRuntimeMachine: the hello takes over the row of its token.  The
   agent id is unique over the rows. *)
ExecuteConnect(c, reply) ==
    LET m == conn[c].token
        a == Op(c).agent
        granted == /\ Enabled(m)
                   /\ \A n \in Machines \ {m} : row[n].agent # a
    IN  /\ Awaiting(c, "connect")
        /\ conn' = [conn EXCEPT ![c].reply = IF granted THEN reply ELSE "no",
                                ![c].granted = IF granted THEN Renewed(m) ELSE 0]
        /\ row' = IF granted
                  THEN [row EXCEPT ![m].agent = a, ![m].runtime = "online",
                                   ![m].lease = Renewed(m), ![m].holder = c]
                  ELSE row
        /\ UNCHANGED ready

(* Mutant: a write that does not ask the database for the lease. *)
TrustsSocket(c, reply) ==
    /\ conn[c].pc \in {"check", "active"} /\ conn[c].reply = "none"
    /\ conn' = [conn EXCEPT ![c].reply = reply]
    /\ UNCHANGED <<row, ready>>

(* isRuntimeConnectionActive *)
ExecuteActive(c, reply) ==
    /\ conn[c].pc \in {"check", "active"} /\ conn[c].reply = "none"
    /\ conn' = [conn EXCEPT ![c].reply = IF Current(conn[c].identity) THEN reply ELSE "no"]
    /\ UNCHANGED <<row, ready>>

(* markMachineHeartbeat *)
ExecuteHeartbeat(c, reply) ==
    LET id == conn[c].identity
    IN  /\ Awaiting(c, "beat")
        /\ conn' = [conn EXCEPT ![c].reply = IF Current(id) THEN reply ELSE "no",
                                ![c].granted = IF Current(id) THEN Renewed(id.machine) ELSE 0]
        /\ row' = IF Current(id)
                  THEN [row EXCEPT ![id.machine].runtime = "online",
                                   ![id.machine].lease = Renewed(id.machine)]
                  ELSE row
        /\ UNCHANGED ready

(* markRuntimeAgentReady *)
ExecuteReady(c, reply) ==
    /\ Awaiting(c, "ready")
    /\ conn' = [conn EXCEPT ![c].reply = reply]
    /\ ready' = IF Current(conn[c].identity) THEN ready \cup {conn[c].identity.machine} ELSE ready
    /\ UNCHANGED row

Statement(c, reply) == \/ ExecuteConnect(c, reply)   \/ ExecuteActive(c, reply)
                       \/ ExecuteHeartbeat(c, reply) \/ ExecuteReady(c, reply)

Execute(c) == /\ Statement(c, "yes")
              /\ UNCHANGED <<memory, revoking, faults>>

Deleted == {m \in Machines : row[m].status = "deleted"}
Touched == {m \in Machines : row[m].user # "active"}
Spared == faults + Cardinality(Deleted) + Cardinality(Touched) < MaxMishaps
Fault == Spared /\ faults' = faults + 1

(* The statement fails, or its answer is lost after it took effect. *)
DatabaseFails(c) ==
    /\ Fault
    /\ \/ Statement(c, "error")
       \/ /\ conn[c].pc \in {"connect", "check", "active", "beat", "ready"}
          /\ conn[c].reply = "none"
          /\ conn' = [conn EXCEPT ![c].reply = "error"]
          /\ UNCHANGED <<row, ready>>
    /\ UNCHANGED <<memory, revoking>>

Returned(c, pc) == conn[c].pc = pc /\ conn[c].reply # "none"
Granted(c) == conn[c].reply = "yes"

(* The hello has its lease: it is kept even when the connection is gone by now. *)
ResumeConnect(c) ==
    /\ Returned(c, "connect")
    /\ IF ~Granted(c) THEN Fail(c)
       ELSE LET id == [machine |-> conn[c].token, agent |-> Op(c).agent, lease |-> conn[c].granted]
            IN  IF Open(c)
                THEN conn' = [Asking(c, "check") EXCEPT ![c].identity = id] /\ UNCHANGED memory
                ELSE Disconnect([Popped(c) EXCEPT ![c].identity = id], {}, {})

(* The lease was current: the connection replaces the others of its machine. *)
Replaced(c) == {x \in Conns \ {c} : /\ Open(x)
                                   /\ conn[x].worker = conn[c].worker
                                   /\ conn[x].identity # None
                                   /\ conn[x].identity.machine = conn[c].identity.machine}
ResumeCheck(c) ==
    LET id == conn[c].identity
        w == conn[c].worker
        previous == sockets[w][id.agent]
    IN  /\ Returned(c, "check")
        /\ IF \/ ~Granted(c)
              \/ previous # None /\ conn[previous].identity.machine # id.machine
           THEN Fail(c)
           ELSE /\ conn' = Closing([Asking(c, "ready") EXCEPT ![c].timer = FALSE], Replaced(c))
                /\ sockets' = [SocketsLess(Replaced(c)) EXCEPT ![w][id.agent] = c]
                /\ Reject(Orphans(Replaced(c)))

ResumeReady(c) == /\ Returned(c, "ready")
                  /\ IF Granted(c) THEN Finish(c) ELSE Fail(c)

(* Mutant: the socket is not looked at again after the await. *)
AdmittedBlind(c, kind) == Returned(c, "active") /\ Granted(c) /\ Op(c).kind = kind

(* requireActive returned: the lease was current and the socket is still open. *)
Admitted(c, kind) == Returned(c, "active") /\ Granted(c) /\ Open(c) /\ Op(c).kind = kind

ResumeRefused(c) ==
    /\ Returned(c, "active")
    /\ ~Granted(c) \/ ~Open(c) \/ Op(c).kind = "hello"
    /\ Fail(c)

ResumeHeartbeat(c) ==
    /\ Admitted(c, "heartbeat")
    /\ conn' = Asking(c, "beat")
    /\ UNCHANGED memory

ResumeBeat(c) ==
    /\ Returned(c, "beat")
    /\ IF Granted(c)
       THEN /\ conn' = [Popped(c) EXCEPT ![c].identity.lease = conn[c].granted]
            /\ UNCHANGED memory
       ELSE Fail(c)

(* Mutant: a response settles whatever request of its process it names. *)
AnswersAny(c) ==
    LET r == Op(c).req
        known == pending[r] # None /\ conn[pending[r]].worker = conn[c].worker
    IN  /\ Admitted(c, "response")
        /\ IF ~known THEN Finish(c)
           ELSE /\ conn' = Popped(c)
                /\ pending' = [pending EXCEPT ![r] = None]
                /\ result' = [result EXCEPT ![r] = "answered"]
                /\ UNCHANGED <<sockets, delivered>>

(* A response settles the request it names, if that one waits for this socket. *)
ResumeResponse(c) ==
    LET r == Op(c).req
        known == pending[r] # None /\ conn[pending[r]].worker = conn[c].worker
    IN  /\ Admitted(c, "response")
        /\ IF ~known THEN Finish(c)
           ELSE IF pending[r] # c THEN Fail(c)
           ELSE /\ conn' = Popped(c)
                /\ pending' = [pending EXCEPT ![r] = None]
                /\ result' = [result EXCEPT ![r] = "answered"]
                /\ UNCHANGED <<sockets, delivered>>

Held(w) == {r \in Requests : pending[r] # None /\ conn[pending[r]].worker = w}

ResumeRequest(c) ==
    LET r == Op(c).req
    IN  /\ Admitted(c, "request")
        /\ IF \/ conn[c].identity.machine # Op(c).machine
              \/ Cardinality(Held(conn[c].worker)) >= MaxPending
           THEN Fail(c)
           ELSE /\ conn' = Asking(c, "write")
                /\ pending' = [pending EXCEPT ![r] = c]
                /\ delivered' = [delivered EXCEPT ![r] = c]
                /\ UNCHANGED <<sockets, result>>

(* The socket's callback; a failed write takes the connection down. *)
Written(c) == conn[c].pc = "write" /\ Finish(c)
WriteFails(c) == /\ conn[c].pc = "write"
                 /\ Fail(c)

Resume(c) ==
    /\ \/ ResumeConnect(c) \/ ResumeCheck(c)   \/ ResumeReady(c)
       \/ ResumeRefused(c) \/ ResumeHeartbeat(c) \/ ResumeBeat(c)
       \/ ResumeResponse(c) \/ ResumeRequest(c)
    /\ UNCHANGED <<row, ready, revoking, faults>>

Write(c) == /\ Written(c) \/ WriteFails(c)
            /\ UNCHANGED <<row, ready, revoking, faults>>

(* Mutant: cleanup does not wait for what is queued. *)
OfflineAtOnce(c) ==
    LET id == conn[c].identity
    IN  /\ conn[c].state = "closed" /\ ~conn[c].cleaned
        /\ conn' = [conn EXCEPT ![c].cleaned = TRUE]
        /\ row' = IF Current(id)
                  THEN [row EXCEPT ![id.machine].runtime = "offline",
                                   ![id.machine].lease = Renewed(id.machine)]
                  ELSE row
        /\ UNCHANGED <<ready, memory, revoking, faults>>

(* Mutant: cleanup takes the machine offline whoever has it. *)
OfflineAnyLease(c) ==
    LET id == conn[c].identity
    IN  /\ conn[c].state = "closed" /\ ~conn[c].cleaned
        /\ conn[c].queue = <<>>
        /\ conn' = [conn EXCEPT ![c].cleaned = TRUE]
        /\ row' = IF id # None
                  THEN [row EXCEPT ![id.machine].runtime = "offline",
                                   ![id.machine].lease = Renewed(id.machine)]
                  ELSE row
        /\ UNCHANGED <<ready, memory, revoking, faults>>

(* The end of disconnect(): behind everything the connection had queued, the
   row is taken offline if the lease is still this connection's. *)
Offline(c) ==
    LET id == conn[c].identity
    IN  /\ conn[c].state = "closed" /\ ~conn[c].cleaned
        /\ conn[c].queue = <<>>
        /\ conn' = [conn EXCEPT ![c].cleaned = TRUE]
        /\ row' = IF Current(id)
                  THEN [row EXCEPT ![id.machine].runtime = "offline",
                                   ![id.machine].lease = Renewed(id.machine)]
                  ELSE row
        /\ UNCHANGED <<ready, memory, revoking, faults>>

OfflineFails(c) ==
    /\ conn[c].state = "closed" /\ ~conn[c].cleaned /\ conn[c].queue = <<>>
    /\ Fault
    /\ conn' = [conn EXCEPT ![c].cleaned = TRUE]
    /\ UNCHANGED <<row, ready, memory, revoking>>

-----------------------------------------------------------------------------
(* Callers *)

Request(r, w, a, m) ==
    LET c == sockets[w][a]
        op == [kind |-> "request", req |-> r, machine |-> m]
    IN  /\ result[r] = "none" /\ <<w, a, m>> \in Targets
        /\ IF c = None \/ ~Open(c)
           THEN result' = [result EXCEPT ![r] = "failed"] /\ UNCHANGED <<conn, sockets, pending, delivered>>
           ELSE IF Full(c) THEN Disconnect(conn, {c}, {r})
           ELSE /\ conn' = [conn EXCEPT ![c].queue = Append(@, op)]
                /\ result' = [result EXCEPT ![r] = "waiting"]
                /\ UNCHANGED <<sockets, pending, delivered>>
        /\ UNCHANGED <<row, ready, revoking, faults>>

(* Mutant: the timer leaves the entry where it is. *)
TimeoutKeeps(r) ==
    /\ pending[r] # None
    /\ result' = [result EXCEPT ![r] = "failed"]
    /\ UNCHANGED <<row, ready, conn, sockets, pending, delivered, revoking, faults>>

RequestTimeout(r) ==
    /\ pending[r] # None
    /\ pending' = [pending EXCEPT ![r] = None]
    /\ result' = [result EXCEPT ![r] = "failed"]
    /\ UNCHANGED <<row, ready, conn, sockets, delivered, revoking, faults>>

(* The machine's user, or its account owner, is disabled or deleted and may be
   enabled again; neither touches the machine's row or its sockets. *)
DisableUser(m) ==
    /\ Spared /\ row[m].user = "active"
    /\ row' = [row EXCEPT ![m].user = "disabled"]
    /\ UNCHANGED <<ready, conn, memory, revoking, faults>>

EnableUser(m) ==
    /\ row[m].user = "disabled"
    /\ row' = [row EXCEPT ![m].user = "restored"]
    /\ UNCHANGED <<ready, conn, memory, revoking, faults>>

(* deleteMachine: the row first, the sockets of this process afterwards.  The default
   mode looks at the row's status alone; the enforcing one also at the user's. *)
DeleteMachine(m, w) ==
    /\ Spared /\ row[m].status = "active"
    /\ row' = [row EXCEPT ![m].status = "deleted", ![m].runtime = "revoked",
                          ![m].lease = Renewed(m)]
    /\ revoking' = revoking \cup {[machine |-> m, worker |-> w]}
    /\ UNCHANGED <<ready, conn, memory, faults>>

Revoke(v) ==
    LET D == {c \in Conns : /\ Open(c) /\ conn[c].worker = v.worker
                           /\ conn[c].identity # None
                           /\ conn[c].identity.machine = v.machine}
    IN  /\ v \in revoking
        /\ revoking' = revoking \ {v}
        /\ Disconnect(conn, D, {})
        /\ UNCHANGED <<row, ready, faults>>

(* The process dies: no cleanup runs and its callers die with it. *)
ProcessDies(w) ==
    LET D == {c \in Conns : conn[c].worker = w /\ conn[c].state \in {"open", "closed"}}
        mine == {r \in Requests : \/ pending[r] \in D
                                  \/ \E c \in D : \E i \in 1 .. Len(conn[c].queue) :
                                       conn[c].queue[i].kind = "request" /\ conn[c].queue[i].req = r}
    IN  /\ Fault
        /\ D # {}
        /\ conn' = [c \in Conns |-> IF c \in D
                        THEN [conn[c] EXCEPT !.state = "dead", !.queue = <<>>, !.pc = "idle",
                                             !.reply = "none", !.granted = 0, !.stale = FALSE,
                                             !.cleaned = TRUE]
                        ELSE conn[c]]
        /\ sockets' = [sockets EXCEPT ![w] = [a \in AgentIds |-> None]]
        /\ Reject(mine)
        /\ revoking' = {v \in revoking : v.worker # w}
        /\ UNCHANGED <<row, ready>>

-----------------------------------------------------------------------------

Progress(c) == Start(c) \/ Execute(c) \/ Resume(c) \/ Write(c)

GatewayNext ==
    \/ \E c \in Conns : \/ \E w \in Workers, m \in Machines : Attach(c, w, m)
                        \/ \E op \in Operations : Frame(c, op)
                        \/ SocketClosed(c) \/ HelloTimeout(c)
                        \/ Progress(c) \/ DatabaseFails(c)
                        \/ Offline(c) \/ OfflineFails(c)
    \/ \E r \in Requests : \/ RequestTimeout(r)
                           \/ \E w \in Workers, a \in AgentIds, m \in Machines : Request(r, w, a, m)
    \/ \E m \in Machines, w \in Workers :
         <<w, m>> \in Touchable /\ (DisableUser(m) \/ EnableUser(m) \/ DeleteMachine(m, w))
    \/ \E v \in revoking : Revoke(v)
    \/ \E w \in Workers : ProcessDies(w)

GatewaySpec == GatewayInit /\ [][GatewayNext]_gatewayVars

-----------------------------------------------------------------------------
(* Properties *)

(* A request waits only for a socket that is open: after the database said
   the lease is current the socket is looked at again before the request is
   registered, so disconnect() cannot have passed it by. *)
PendingIsOpen == \A r \in Requests : pending[r] # None => Open(pending[r])

(* An operation that asked after its lease was taken by a newer connection,
   in this process or another, or after the machine was deleted, writes
   nothing to the remote and nothing to the row. *)
StaleIsFenced == \A c \in Conns : conn[c].pc \in {"write", "beat"} => ~conn[c].stale

(* Nobody but a newer hello takes the lease of an open connection: neither the
   cleanup nor a late heartbeat of an older one, in this process or another, moves
   the row or shows the machine offline, until the machine is deleted.  While its own
   heartbeat is on its way the row may be one lease ahead of what it knows. *)
LeaseHolderIsOnline ==
    \A m \in Machines :
      LET c == row[m].holder
      IN  c # None /\ row[m].status = "active" /\ Open(c) /\ conn[c].identity # None
            => /\ row[m].runtime = "online" /\ row[m].agent = conn[c].identity.agent
               /\ conn[c].pc # "beat" => row[m].lease = conn[c].identity.lease

(* Without database failures and crashes, a machine all of whose connections are
   gone and cleaned up is not left online: cleanup waits for the hello or heartbeat in
   flight and uses the lease that one was granted.  It does nothing for a user who is
   disabled, so of users who ever were nothing is claimed. *)
Gone(m) == \A c \in Conns : conn[c].token = m => conn[c].cleaned
GoneIsNotOnline ==
    faults = 0 =>
      \A m \in Machines : row[m].user = "active" /\ Gone(m) => row[m].runtime # "online"

(* A caller is settled once, and answered only while its request is registered, by a
   response of the open connection it was written to: not by the response of another
   machine's connection in the same process, and not after its timer, a failed write or
   a disconnect has settled it. *)
Answers(c, r) == /\ conn[c].pc = "active" /\ Op(c).kind = "response" /\ Op(c).req = r
                 /\ conn'[c].pc = "idle"
AnsweredByTarget ==
    [][\A r \in Requests : result'[r] # result[r] =>
         /\ result[r] \in {"none", "waiting"}
         /\ result'[r] = "answered" =>
              /\ pending[r] # None /\ pending[r] = delivered[r]
              /\ Open(pending[r]) /\ Answers(pending[r], r)]_gatewayVars

(* The request stands in the queue of c and is not registered yet. *)
Queued(r, c) == \E i \in DOMAIN conn[c].queue :
                  /\ conn[c].queue[i].kind = "request" /\ conn[c].queue[i].req = r
                  /\ i = 1 => conn[c].pc # "write"

(* No caller is forgotten and no entry leaks: a caller waits exactly as long as its
   request is queued on a connection, which runs it or fails it, or is registered with
   one, where an answer, the timer, a failed write or the disconnect settles it. *)
CallersAccounted ==
    \A r \in Requests :
      result[r] = "waiting" <=> pending[r] # None \/ \E c \in Conns : Queued(r, c)
-----------------------------------------------------------------------------
(* The inductive invariant of the proofs *)

Steps == {"connect", "check", "ready", "active", "beat", "write"}

ConnRecords ==
    [state : {"unborn", "open", "closed", "dead"}, token : Machines \cup {None},
     worker : Workers \cup {None}, identity : Identities \cup {None},
     queue : Seq(Operations), pc : Steps \cup {"idle"},
     reply : {"none", "yes", "no", "error"}, granted : Nat, timer : BOOLEAN,
     cleaned : BOOLEAN, frames : Nat, stale : BOOLEAN]

Rows == [status : {"active", "deleted"}, runtime : {"pending", "online", "offline", "revoked"},
         agent : AgentIds \cup {None}, lease : Nat, user : {"active", "disabled", "restored"},
         holder : Conns \cup {None}]

MemoryTypes ==
    /\ sockets \in [Workers -> [AgentIds -> Conns \cup {None}]]
    /\ pending \in [Requests -> Conns \cup {None}]
    /\ result \in [Requests -> {"none", "waiting", "failed", "answered"}]
    /\ delivered \in [Requests -> Conns \cup {None}]

GatewayTypes ==
    /\ row \in [Machines -> Rows] /\ ready \subseteq Machines
    /\ conn \in [Conns -> ConnRecords]
    /\ MemoryTypes
    /\ revoking \subseteq [machine : Machines, worker : Workers]
    /\ faults \in Nat

(* What a connection is in the middle of: an operation stands at the head of its queue
   until it is over, a hello and a heartbeat in steps of their own, only a hello runs
   without an identity, nothing is run or queued
   after the cleanup, and an identity is the one of the token. *)
Orderly(k) ==
    /\ k.state # "unborn" => k.token \in Machines /\ k.worker \in Workers
    /\ k.state = "unborn" => k.identity = None /\ k.queue = <<>>
    /\ k.pc # "idle" => k.queue # <<>>
    /\ k.pc = "connect" => k.identity = None
    /\ k.pc \in {"connect", "check", "ready"} => Head(k.queue).kind = "hello"
    /\ k.pc = "beat" => Head(k.queue).kind = "heartbeat"
    /\ k.pc \in Steps \ {"connect"} => k.identity # None
    /\ k.identity # None => k.identity.machine = k.token
    /\ k.cleaned => k.state \in {"closed", "dead"} /\ k.queue = <<>>

(* A lease n granted to agent a on a row r: it was the newest once, and while it is the
   newest nobody else has named the agent or taken the machine offline. *)
Lease(r, a, n) ==
    /\ n <= r.lease
    /\ n = r.lease => r.agent = a /\ (r.status = "active" => r.runtime = "online")

(* A lease in an answer that has not reached the event loop yet *)
OnItsWay(k, pc) == k.pc = pc /\ k.reply = "yes"

Leases(k) ==
    /\ k.identity # None => Lease(row[k.identity.machine], k.identity.agent, k.identity.lease)
    /\ OnItsWay(k, "connect") => Lease(row[k.token], Head(k.queue).agent, k.granted)
    /\ OnItsWay(k, "beat") => /\ Lease(row[k.token], k.identity.agent, k.granted)
                             /\ k.granted = k.identity.lease + 1

(* A lease that was lost does not come back, so the database says no. *)
Fenced(k) ==
    /\ k.pc = "active" /\ k.stale => ~HasLease(k.identity) /\ k.reply # "yes"
    /\ k.pc \in {"write", "beat"} => ~k.stale

(* A request that waits was written to the connection it waits for. *)
WaitsForTarget == \A r \in Requests : pending[r] # None => delivered[r] = pending[r]

(* A connection has, or is being told, the newest lease of machine m. *)
Newest(k, m) ==
    /\ k.token = m
    /\ \/ k.identity # None /\ k.identity.lease = row[m].lease
       \/ (OnItsWay(k, "connect") \/ OnItsWay(k, "beat")) /\ k.granted = row[m].lease

(* It will take the machine offline when it goes. *)
Holds(k, m) == Newest(k, m) /\ ~k.cleaned

OnlineIsHeld ==
    \A m \in Machines : row[m].runtime = "online" =>
        /\ row[m].status = "active"
        /\ faults = 0 /\ row[m].user = "active" => \E c \in Conns : Holds(conn[c], m)

(* The connection k that took machine m last, while it is open: it has the row's lease,
   or the database has granted it the lease and the answer is on its way or got lost. *)
Keeps(k, m) ==
    /\ row[m].runtime = "online"
    /\ IF k.identity = None
       THEN /\ k.pc = "connect" /\ k.reply \in {"yes", "error"}
            /\ row[m].agent = Head(k.queue).agent
            /\ k.reply = "yes" => k.granted = row[m].lease
       ELSE /\ row[m].agent = k.identity.agent
            /\ k.identity.lease # row[m].lease =>
                 /\ k.pc = "beat" /\ k.reply \in {"yes", "error"}
                 /\ k.reply = "yes" => k.granted = row[m].lease

(* Only the connection that took the machine last has its newest lease. *)
HolderSound(m) ==
    /\ \A c \in Conns : Newest(conn[c], m) => row[m].holder = c
    /\ \A c \in Conns : row[m].holder = c =>
         /\ conn[c].state # "unborn" /\ conn[c].token = m
         /\ Open(c) /\ row[m].status = "active" => Keeps(conn[c], m)
HoldersSound == \A m \in Machines : HolderSound(m)

(* Every request is in at most one queue, once; while it stands there unwritten nothing
   is registered for it, and what is registered has no other end than settling it. *)
Named(op, r) == op.kind = "request" /\ op.req = r
Asks(k, i, r) == i \in DOMAIN k.queue /\ Named(k.queue[i], r)
Once == \A c, d \in Conns, r \in Requests :
          \A i \in DOMAIN conn[c].queue, j \in DOMAIN conn[d].queue :
            Asks(conn[c], i, r) /\ Asks(conn[d], j, r) => c = d /\ i = j
Known == \A c \in Conns, r \in Requests :
           \A i \in DOMAIN conn[c].queue : Asks(conn[c], i, r) => result[r] # "none"
Unwritten == \A c \in Conns, r \in Requests : Queued(r, c) => pending[r] = None

ConnsSound == \A c \in Conns : Orderly(conn[c]) /\ Leases(conn[c]) /\ Fenced(conn[c])

LeaseInv ==
    /\ GatewayTypes /\ ConnsSound /\ PendingIsOpen /\ WaitsForTarget
    /\ OnlineIsHeld /\ HoldersSound
CallersInv == Once /\ Known /\ Unwritten /\ CallersAccounted
GatewayInv == LeaseInv /\ CallersInv
=============================================================================
