------------------------- MODULE AIResource_proofs -------------------------
(***************************************************************************)
(* The slots of AIResource: the invariants and the order of admission that *)
(* the runs check, for every set of requests, limits and tickets.          *)
(*                                                                         *)
(* What the service keeps is described by Sound, on values: references,    *)
(* stages, leases, work, hops served, a queue and a count of slots.  Every *)
(* change of a guard or of a piece of work is a lemma on Sound, Drain is   *)
(* another one, and an action is a change followed by Drain or by nothing. *)
(***************************************************************************)
EXTENDS AIResource, FiniteSetTheorems, SequenceTheorems, TLAPS

Stages == {"new", "waiting", "granted", "running", "refused", "over"}
Works == {"none", "working", "over"}
Phases == {"serving", "stopped", "resumed"}

\* The queue holds the requests that wait, each once.
Queued(q, st) ==
    /\ q \in Seq(Request)
    /\ \A i, j \in 1 .. Len(q) : q[i] = q[j] => i = j
    /\ \A r \in Request : st[r] = "waiting" <=> \E i \in 1 .. Len(q) : q[i] = r

\* Nobody uses the lease of a request that has not been admitted, and that request
\* uses no other one.
Fresh(st, ls, wk) ==
    \A l \in Request : st[l] \in {"new", "waiting"} =>
        /\ wk[l] = "none" /\ ls[l] = l
        /\ \A r \in Request : ls[r] = l => r = l

\* A background job works as long as it runs, on its own lease.
JobsRun(st, ls, wk) ==
    \A r \in Job : /\ ls[r] = r /\ st[r] \in {"new", "running", "over"}
                   /\ st[r] # "new" => wk[r] # "none"

Guards(st, ls, l) == {r \in Request : ls[r] = l /\ st[r] \in {"granted", "running"}}
Workers(wk, ls, l) == {r \in Request \ Job : ls[r] = l /\ wk[r] = "working"}
Counted(held, st, ls, wk) ==
    \A l \in Request :
        held[l] = Cardinality(Guards(st, ls, l)) + Cardinality(Workers(wk, ls, l))

Alive(held) == {l \in Request : held[l] > 0}
Children(st, ls, l) == {r \in Guards(st, ls, l) : ls[r] # r}
OneChild(st, ls, ca) ==
    \A l \in Request : Cardinality(Children(st, ls, l)) = IF ca[l] THEN 1 ELSE 0

Typed(held, st, ls, wk, ca) ==
    /\ held \in [Request -> Nat] /\ st \in [Request -> Stages]
    /\ ls \in [Request -> Request] /\ wk \in [Request -> Works]
    /\ ca \in [Request -> BOOLEAN]

Sound(held, st, ls, wk, ca) ==
    /\ Typed(held, st, ls, wk, ca)
    /\ Fresh(st, ls, wk) /\ JobsRun(st, ls, wk)
    /\ Counted(held, st, ls, wk) /\ OneChild(st, ls, ca)

Types ==
    /\ limit \in Limits /\ pressured \in BOOLEAN
    /\ aborted \in [Request -> BOOLEAN] /\ completed \in [Request -> BOOLEAN]
    /\ hops \in [Ticket -> Request \cup {NoLease}] /\ entered \in [Ticket -> Nat]
    /\ phase \in Phases

\* A ticket that has not been made is unknown, and one that is kept opens a lease
\* that is alive.
TicketsUsed ==
    \A t \in Ticket : /\ t \notin issued => entered[t] = 0 /\ hops[t] = NoLease
                      /\ entered[t] <= 1 /\ (entered[t] = 1 => hops[t] = NoLease)
                      /\ hops[t] # NoLease => refs[hops[t]] > 0

AIInv ==
    /\ Types /\ Sound(refs, stage, lease, work, childActive)
    /\ Queued(waiters, stage) /\ active = Cardinality(Alive(refs))
    /\ TicketsUsed /\ NoIdleSlot

-----------------------------------------------------------------------------
(***************************************************************************)
(* Finite sets of requests, and the queue.                                 *)
(***************************************************************************)

LEMMA RequestsFinite ==
    \A S \in SUBSET Request : IsFiniteSet(S) /\ Cardinality(S) \in Nat
<1> TAKE S \in SUBSET Request
<1>1. IsFiniteSet(Request) BY AIAssumption
<1>2. IsFiniteSet(S) BY <1>1, FS_Subset
<1> QED BY <1>2, FS_CardinalityType

LEMMA OneMore ==
    \A S \in SUBSET Request : \A r \in Request \ S :
        Cardinality(S \cup {r}) = Cardinality(S) + 1
<1> TAKE S \in SUBSET Request
<1> TAKE r \in Request \ S
<1> QED BY RequestsFinite, FS_AddElement

LEMMA OneLess ==
    \A S \in SUBSET Request : \A r \in S :
        /\ Cardinality(S) > 0
        /\ Cardinality(S \ {r}) = Cardinality(S) - 1
<1> TAKE S \in SUBSET Request
<1> TAKE r \in S
<1>1. IsFiniteSet(S) /\ Cardinality(S) \in Nat BY RequestsFinite
<1>2. Cardinality(S \ {r}) = Cardinality(S) - 1 BY <1>1, FS_RemoveElement
<1>3. S \ {r} \in SUBSET Request OBVIOUS
<1>4. Cardinality(S \ {r}) \in Nat BY <1>3, RequestsFinite
<1> QED BY <1>1, <1>2, <1>4

LEMMA Empties ==
    /\ Cardinality({}) = 0
    /\ \A S \in SUBSET Request : Cardinality(S) = 0 => S = {}
    /\ \A r : Cardinality({r}) = 1
BY RequestsFinite, FS_EmptySet, FS_Singleton

\* The first n places of a queue without repetition hold n requests.
LEMMA Fronts ==
    ASSUME NEW q \in Seq(Request), NEW k \in 0 .. Len(q),
           \A i, j \in 1 .. Len(q) : q[i] = q[j] => i = j
    PROVE  Cardinality({q[i] : i \in 1 .. k}) = k
<1> DEFINE S == {q[i] : i \in 1 .. k}
           f == [i \in 1 .. k |-> q[i]]
<1>1. f \in Bijection(1 .. k, S)
  <2>1. f \in [1 .. k -> S] OBVIOUS
  <2>2. \A a, b \in 1 .. k : f[a] = f[b] => a = b
    <3> TAKE a, b \in 1 .. k
    <3>1. Len(q) \in Nat /\ k <= Len(q) /\ k \in Nat OBVIOUS
    <3>2. a \in 1 .. Len(q) /\ b \in 1 .. Len(q) BY <3>1
    <3>3. f[a] = q[a] /\ f[b] = q[b] OBVIOUS
    <3> QED BY <3>2, <3>3
  <2>3. \A x \in S : \E a \in 1 .. k : f[a] = x OBVIOUS
  <2> HIDE DEF f, S
  <2>4. DOMAIN f = 1 .. k BY <2>1
  <2> QED BY <2>1, <2>2, <2>3, <2>4 DEF Bijection, Injection, Surjection, IsInjective
<1>2. ExistsBijection(1 .. k, S) BY <1>1 DEF ExistsBijection
<1>3. IsFiniteSet(1 .. k) /\ Cardinality(1 .. k) = k
  <2>1. k \in Nat /\ 1 \in Int /\ k \in Int OBVIOUS
  <2> QED BY <2>1, FS_Interval
<1> QED BY <1>2, <1>3, FS_Bijection

\* A request that waits is where Place says.
LEMMA PlaceOf ==
    ASSUME NEW q \in Seq(Request), NEW i \in 1 .. Len(q),
           \A a, b \in 1 .. Len(q) : q[a] = q[b] => a = b
    PROVE  Place(q, q[i]) = i
<1> DEFINE I == {a \in 1 .. Len(q) : q[a] = q[i]}
<1>1. I = {i} OBVIOUS
<1>2. Place(q, q[i]) = IF I # {} THEN Min(I) ELSE 0 BY DEF Place, SelectInSeq
<1>3. Min({i}) = i
  <2>1. i \in Nat /\ i <= i OBVIOUS
  <2> QED BY <2>1 DEF Min
<1> QED BY <1>1, <1>2, <1>3

-----------------------------------------------------------------------------
(***************************************************************************)
(* Drain.                                                                  *)
(***************************************************************************)

LEMMA AdmissibleBounds ==
    ASSUME NEW n \in Nat, NEW q \in Seq(Request), NEW high \in BOOLEAN, NEW most \in Nat
    PROVE  LET k == Admissible(n, q, high, most)
           IN  /\ k \in 0 .. Len(q)
               /\ k > 0 => ~high /\ n + k <= most
               /\ k < Len(q) => high \/ n + k >= most
<1>1. Len(q) \in Nat OBVIOUS
<1> QED BY <1>1 DEF Admissible

\* The two parts of the queue, by place.
LEMMA Shifted ==
    ASSUME NEW q \in Seq(Request), NEW k \in 0 .. Len(q)
    PROVE  /\ Range(ShiftWaiters(q, k)[1]) = {q[i] : i \in 1 .. k}
           /\ ShiftWaiters(q, k)[2] \in Seq(Request)
           /\ Len(ShiftWaiters(q, k)[2]) = Len(q) - k
           /\ \A i \in 1 .. Len(q) - k : ShiftWaiters(q, k)[2][i] = q[k + i]
<1>1. Len(q) \in Nat /\ k \in Nat /\ k <= Len(q) OBVIOUS
<1>2. ShiftWaiters(q, k)[1] = SubSeq(q, 1, k) /\ ShiftWaiters(q, k)[2] = SubSeq(q, k + 1, Len(q))
  BY DEF ShiftWaiters
<1>3. /\ SubSeq(q, 1, k) \in Seq(Request)
      /\ Len(SubSeq(q, 1, k)) = k
      /\ \A i \in 1 .. k : SubSeq(q, 1, k)[i] = q[i]
  BY <1>1
<1>4. DOMAIN SubSeq(q, 1, k) = 1 .. k BY <1>3, LenProperties
<1>5. Range(SubSeq(q, 1, k)) = {q[i] : i \in 1 .. k} BY <1>3, <1>4 DEF Range
<1>6. /\ SubSeq(q, k + 1, Len(q)) \in Seq(Request)
      /\ Len(SubSeq(q, k + 1, Len(q))) = Len(q) - k
      /\ \A i \in 1 .. Len(q) - k : SubSeq(q, k + 1, Len(q))[i] = q[k + i]
  BY <1>1
<1> QED BY <1>2, <1>5, <1>6

\* Drain, when it admits the first k waiters.
Drained(k, n, q, held, st, high, most) ==
    /\ active' = n + k
    /\ k > 0 => ~high /\ n + k <= most
    /\ k < Len(q) => high \/ n + k >= most
    /\ waiters' \in Seq(Request) /\ Len(waiters') = Len(q) - k
    /\ \A i \in 1 .. Len(q) - k : waiters'[i] = q[k + i]
    /\ refs' = [l \in Request |-> IF l \in {q[i] : i \in 1 .. k} THEN 1 ELSE held[l]]
    /\ stage' = [r \in Request |->
          IF r \in {q[i] : i \in 1 .. k} THEN "granted" ELSE st[r]]

\* What Drain does to the queue and to each request.
LEMMA DrainParts ==
    ASSUME NEW n \in Nat, NEW q, NEW held \in [Request -> Nat], NEW st \in [Request -> Stages],
           NEW high \in BOOLEAN, NEW most \in Nat,
           Queued(q, st), Drain(n, q, held, st, high, most)
    PROVE  \E k \in 0 .. Len(q) : Drained(k, n, q, held, st, high, most)
<1> DEFINE room == Admissible(n, q, high, most)
<1>1. q \in Seq(Request) BY DEF Queued
<1>2. /\ room \in 0 .. Len(q)
      /\ room > 0 => ~high /\ n + room <= most
      /\ room < Len(q) => high \/ n + room >= most
  BY <1>1, AdmissibleBounds
<1>3. /\ active' = n + room
      /\ waiters' = ShiftWaiters(q, room)[2]
      /\ refs' = [l \in Request |-> IF l \in Range(ShiftWaiters(q, room)[1]) THEN 1 ELSE held[l]]
      /\ stage' = [r \in Request |->
                     IF r \in Range(ShiftWaiters(q, room)[1]) THEN "granted" ELSE st[r]]
  BY DEF Drain
<1> HIDE DEF room
<1> SUFFICES Drained(room, n, q, held, st, high, most) BY <1>2
<1>4. /\ Range(ShiftWaiters(q, room)[1]) = {q[i] : i \in 1 .. room}
      /\ ShiftWaiters(q, room)[2] \in Seq(Request)
      /\ Len(ShiftWaiters(q, room)[2]) = Len(q) - room
      /\ \A i \in 1 .. Len(q) - room : ShiftWaiters(q, room)[2][i] = q[room + i]
  BY <1>1, <1>2, Shifted
<1>5. refs' = [l \in Request |-> IF l \in {q[i] : i \in 1 .. room} THEN 1 ELSE held[l]]
  BY <1>3, <1>4
<1>6. stage' = [r \in Request |-> IF r \in {q[i] : i \in 1 .. room} THEN "granted" ELSE st[r]]
  BY <1>3, <1>4
<1>7. /\ waiters' \in Seq(Request) /\ Len(waiters') = Len(q) - room
      /\ \A i \in 1 .. Len(q) - room : waiters'[i] = q[room + i]
  BY <1>3, <1>4
<1> QED BY <1>2, <1>3, <1>5, <1>6, <1>7 DEF Drained

\* The waiters that stay are those that waited and were not admitted, and each of them
\* came after every one that was.
LEMMA DrainKeepsQueue ==
    ASSUME NEW n \in Nat, NEW q, NEW held \in [Request -> Nat], NEW st \in [Request -> Stages],
           NEW high \in BOOLEAN, NEW most \in Nat,
           Queued(q, st), \A r \in Request : st[r] = "waiting" => held[r] = 0,
           Drain(n, q, held, st, high, most)
    PROVE  /\ Queued(waiters', stage')
           /\ waiters' # <<>> => high \/ active' >= most
           /\ \A l \in Request : held[l] = 0 /\ refs'[l] > 0 =>
                /\ active' <= most /\ ~high
                /\ \A w \in Range(waiters') :
                     l \in Range(q) /\ Place(q, l) < Place(q, w)
<1>0. PICK k \in 0 .. Len(q) : Drained(k, n, q, held, st, high, most)
  BY DrainParts
<1>1. /\ active' = n + k
      /\ k > 0 => ~high /\ n + k <= most
      /\ k < Len(q) => high \/ n + k >= most
      /\ waiters' \in Seq(Request) /\ Len(waiters') = Len(q) - k
      /\ \A i \in 1 .. Len(q) - k : waiters'[i] = q[k + i]
      /\ refs' = [l \in Request |-> IF l \in {q[i] : i \in 1 .. k} THEN 1 ELSE held[l]]
      /\ stage' = [r \in Request |->
              IF r \in {q[i] : i \in 1 .. k} THEN "granted" ELSE st[r]]
  BY <1>0 DEF Drained
<1>2. q \in Seq(Request) /\ \A i, j \in 1 .. Len(q) : q[i] = q[j] => i = j BY DEF Queued
<1>3. \A r \in Request : st[r] = "waiting" <=> \E i \in 1 .. Len(q) : q[i] = r BY DEF Queued
<1>4. Len(q) \in Nat /\ k \in Nat /\ k <= Len(q) BY <1>1, <1>2
<1>5. DOMAIN waiters' = 1 .. Len(q) - k BY <1>1, LenProperties
<1>6. DOMAIN q = 1 .. Len(q) BY <1>2, LenProperties
<1>7. Queued(waiters', stage')
  <2>1. \A i, j \in 1 .. Len(waiters') : waiters'[i] = waiters'[j] => i = j
    <3> TAKE i, j \in 1 .. Len(waiters')
    <3>1. waiters'[i] = q[k + i] /\ waiters'[j] = q[k + j] BY <1>1
    <3>2. k + i \in 1 .. Len(q) /\ k + j \in 1 .. Len(q) BY <1>1, <1>4
    <3>3. q[k + i] = q[k + j] => k + i = k + j BY <1>2, <3>2
    <3> QED BY <3>1, <3>3, <1>4
  <2>2. ASSUME NEW r \in Request
        PROVE  stage'[r] = "waiting" <=> \E i \in 1 .. Len(waiters') : waiters'[i] = r
    <3>1. stage'[r] = IF r \in {q[i] : i \in 1 .. k} THEN "granted" ELSE st[r] BY <1>1
    <3>2. ASSUME stage'[r] = "waiting"
          PROVE  \E i \in 1 .. Len(waiters') : waiters'[i] = r
      <4>1. st[r] = "waiting" /\ r \notin {q[i] : i \in 1 .. k} BY <3>1, <3>2
      <4>2. PICK i \in 1 .. Len(q) : q[i] = r BY <4>1, <1>3
      <4>3. i > k BY <4>1, <4>2, <1>4
      <4>4. i - k \in 1 .. Len(q) - k /\ k + (i - k) = i BY <4>3, <1>4
      <4>5. waiters'[i - k] = r BY <4>2, <4>4, <1>1
      <4> QED BY <4>4, <4>5, <1>1
    <3>3. ASSUME NEW i \in 1 .. Len(waiters'), waiters'[i] = r
          PROVE  stage'[r] = "waiting"
      <4>1. i \in 1 .. Len(q) - k /\ k + i \in 1 .. Len(q) /\ k + i > k BY <1>1, <1>4
      <4>2. q[k + i] = r BY <4>1, <3>3, <1>1
      <4>3. st[r] = "waiting" BY <4>1, <4>2, <1>3
      <4>4. r \notin {q[j] : j \in 1 .. k}
        <5> SUFFICES ASSUME NEW j \in 1 .. k, q[j] = r PROVE FALSE OBVIOUS
        <5>1. j \in 1 .. Len(q) BY <1>4
        <5>2. j = k + i BY <5>1, <4>1, <4>2, <1>2
        <5> QED BY <5>2, <4>1, <1>4
      <4> QED BY <4>3, <4>4, <3>1
    <3> QED BY <3>2, <3>3
  <2> QED BY <2>1, <2>2, <1>1 DEF Queued
<1>8. waiters' # <<>> => high \/ active' >= most
  <2>1. waiters' # <<>> => Len(waiters') > 0 BY <1>1, EmptySeq
  <2>2. waiters' # <<>> => k < Len(q) BY <2>1, <1>1, <1>4
  <2> QED BY <2>2, <1>1
<1>9. ASSUME NEW l \in Request, held[l] = 0, refs'[l] > 0
      PROVE  /\ active' <= most /\ ~high
             /\ \A w \in Range(waiters') :
                  l \in Range(q) /\ Place(q, l) < Place(q, w)
  <2>1. refs'[l] = IF l \in {q[i] : i \in 1 .. k} THEN 1 ELSE held[l] BY <1>1
  <2>2. PICK i \in 1 .. k : q[i] = l BY <2>1, <1>9
  <2>3. k > 0 /\ i \in 1 .. Len(q) /\ i <= k BY <1>4
  <2>4. Place(q, l) = i BY <2>2, <2>3, <1>2, PlaceOf
  <2>5. l \in Range(q) BY <2>2, <2>3, <1>6 DEF Range
  <2>6. ASSUME NEW w \in Range(waiters')
        PROVE  Place(q, l) < Place(q, w)
    <3>1. PICK a \in 1 .. Len(q) - k : waiters'[a] = w BY <1>5 DEF Range
    <3>2. k + a \in 1 .. Len(q) /\ k + a > k BY <1>4
    <3>3. q[k + a] = w BY <3>1, <1>1
    <3>4. Place(q, w) = k + a BY <3>2, <3>3, <1>2, PlaceOf
    <3> QED BY <3>4, <2>4, <2>3, <3>2, <1>4
  <2> QED BY <2>3, <2>5, <2>6, <1>1
<1> QED BY <1>7, <1>8, <1>9

\* Nobody holds the lease of a request that has not been admitted.
LEMMA Unused ==
    ASSUME NEW held, NEW st, NEW ls, NEW wk, NEW ca, Sound(held, st, ls, wk, ca)
    PROVE  \A l \in Request : st[l] \in {"new", "waiting"} =>
             Guards(st, ls, l) = {} /\ Workers(wk, ls, l) = {} /\ held[l] = 0
<1> SUFFICES ASSUME NEW l \in Request, st[l] \in {"new", "waiting"}
             PROVE  Guards(st, ls, l) = {} /\ Workers(wk, ls, l) = {} /\ held[l] = 0
  OBVIOUS
<1>1. wk[l] = "none" /\ \A r \in Request : ls[r] = l => r = l BY DEF Sound, Fresh
<1>2. Guards(st, ls, l) = {} BY <1>1 DEF Guards
<1>3. Workers(wk, ls, l) = {} BY <1>1 DEF Workers
<1>4. Cardinality(Guards(st, ls, l)) = 0 /\ Cardinality(Workers(wk, ls, l)) = 0
  BY <1>2, <1>3, Empties
<1>5. held[l] = Cardinality(Guards(st, ls, l)) + Cardinality(Workers(wk, ls, l))
  BY DEF Sound, Counted
<1> QED BY <1>2, <1>3, <1>4, <1>5

\* A waiter that is admitted has a lease of its own with one guard; everything else
\* is as it was.
LEMMA DrainSound ==
    ASSUME NEW n, NEW q, NEW held, NEW st, NEW ls, NEW wk, NEW ca,
           NEW high \in BOOLEAN, NEW most \in Nat,
           Sound(held, st, ls, wk, ca), Queued(q, st), n = Cardinality(Alive(held)),
           Drain(n, q, held, st, high, most)
    PROVE  /\ Sound(refs', stage', ls, wk, ca)
           /\ Queued(waiters', stage')
           /\ active' = Cardinality(Alive(refs'))
           /\ waiters' # <<>> => high \/ active' >= most
           /\ \A l \in Request : refs'[l] >= held[l]
           /\ \A l \in Request : held[l] = 0 /\ refs'[l] > 0 =>
                /\ active' <= most /\ ~high
                /\ \A w \in Range(waiters') :
                     l \in Range(q) /\ Place(q, l) < Place(q, w)
<1>1. Typed(held, st, ls, wk, ca) BY DEF Sound
<1>2. /\ held \in [Request -> Nat] /\ st \in [Request -> Stages]
      /\ ls \in [Request -> Request] /\ wk \in [Request -> Works]
      /\ ca \in [Request -> BOOLEAN]
  BY <1>1 DEF Typed
<1>3. /\ Fresh(st, ls, wk) /\ JobsRun(st, ls, wk)
      /\ Counted(held, st, ls, wk) /\ OneChild(st, ls, ca)
  BY DEF Sound
<1>4. Alive(held) \in SUBSET Request BY DEF Alive
<1>5. n \in Nat BY <1>4, RequestsFinite
<1>6. \A l \in Request : st[l] \in {"new", "waiting"} =>
        Guards(st, ls, l) = {} /\ Workers(wk, ls, l) = {} /\ held[l] = 0
  BY Unused
<1>7. \A r \in Request : st[r] = "waiting" => held[r] = 0 BY <1>6
<1>8. /\ Queued(waiters', stage')
      /\ waiters' # <<>> => high \/ active' >= most
      /\ \A l \in Request : held[l] = 0 /\ refs'[l] > 0 =>
           /\ active' <= most /\ ~high
           /\ \A w \in Range(waiters') :
                l \in Range(q) /\ Place(q, l) < Place(q, w)
  BY <1>2, <1>5, <1>7, DrainKeepsQueue
<1>9. PICK k \in 0 .. Len(q) : Drained(k, n, q, held, st, high, most)
  BY <1>2, <1>5, DrainParts
<1> DEFINE A == {q[i] : i \in 1 .. k}
<1>10. q \in Seq(Request) /\ \A i, j \in 1 .. Len(q) : q[i] = q[j] => i = j BY DEF Queued
<1>11. Cardinality(A) = k BY <1>10, Fronts
<1>12. k \in Nat /\ k <= Len(q) /\ Len(q) \in Nat BY <1>10
<1>13. A \in SUBSET Request /\ \A r \in A : st[r] = "waiting"
  <2> SUFFICES ASSUME NEW i \in 1 .. k PROVE q[i] \in Request /\ st[q[i]] = "waiting" OBVIOUS
  <2>1. i \in 1 .. Len(q) BY <1>12
  <2>2. q[i] \in Request BY <2>1, <1>10, ElementOfSeq
  <2> QED BY <2>1, <2>2 DEF Queued
<1>14. /\ active' = n + k
       /\ refs' = [l \in Request |-> IF l \in A THEN 1 ELSE held[l]]
       /\ stage' = [r \in Request |-> IF r \in A THEN "granted" ELSE st[r]]
  BY <1>9 DEF Drained
<1> HIDE DEF A
<1>15. refs' \in [Request -> Nat] /\ stage' \in [Request -> Stages]
  <2>1. \A r \in Request : (IF r \in A THEN 1 ELSE held[r]) \in Nat BY <1>2
  <2>2. \A r \in Request : (IF r \in A THEN "granted" ELSE st[r]) \in Stages BY <1>2 DEF Stages
  <2> QED BY <2>1, <2>2, <1>14
<1>16. \A r \in Request :
         /\ r \in A => /\ refs'[r] = 1 /\ stage'[r] = "granted" /\ st[r] = "waiting"
                       /\ held[r] = 0
         /\ r \notin A => refs'[r] = held[r] /\ stage'[r] = st[r]
  BY <1>14, <1>13, <1>7
<1>17. active' = Cardinality(Alive(refs'))
  <2>1. Alive(refs') = Alive(held) \cup A
    <3>1. \A r \in Request : refs'[r] > 0 <=> (held[r] > 0 \/ r \in A) BY <1>16
    <3> QED BY <3>1, <1>13 DEF Alive
  <2>2. Alive(held) \cap A = {}
    <3>1. \A r \in Request : r \in A => ~(held[r] > 0) BY <1>16
    <3> QED BY <3>1 DEF Alive
  <2>3. IsFiniteSet(Alive(held)) /\ IsFiniteSet(A) BY <1>4, <1>13, RequestsFinite
  <2>4. Cardinality(Alive(refs')) = n + k - Cardinality({})
    BY <2>1, <2>2, <2>3, <1>11, FS_Union
  <2> QED BY <2>4, Empties, <1>14, <1>5, <1>12
<1>18. \A r \in Request : r \in A => ls[r] = r /\ wk[r] = "none" /\ \A x \in Request : ls[x] = r => x = r
  BY <1>16, <1>3 DEF Fresh
<1>19. Fresh(stage', ls, wk)
  <2>1. \A l \in Request : stage'[l] \in {"new", "waiting"} => stage'[l] = st[l] BY <1>16
  <2> QED BY <2>1, <1>3 DEF Fresh
<1>20. JobsRun(stage', ls, wk)
  <2>1. ASSUME NEW r \in Job PROVE stage'[r] = st[r]
    <3>1. r \in Request BY AIAssumption
    <3>2. st[r] # "waiting" BY <1>3 DEF JobsRun
    <3> QED BY <3>1, <3>2, <1>16
  <2> QED BY <2>1, <1>3 DEF JobsRun
<1>21. Counted(refs', stage', ls, wk)
  <2> SUFFICES ASSUME NEW l \in Request
               PROVE  refs'[l] = Cardinality(Guards(stage', ls, l)) + Cardinality(Workers(wk, ls, l))
    BY DEF Counted
  <2>1. CASE l \in A
    <3>1. Guards(stage', ls, l) = {l}
      <4>1. \A r \in Request : ls[r] = l => r = l BY <2>1, <1>18
      <4>2. ls[l] = l /\ stage'[l] = "granted" BY <2>1, <1>18, <1>16
      <4> QED BY <4>1, <4>2 DEF Guards
    <3>2. Workers(wk, ls, l) = {} BY <2>1, <1>16, <1>6
    <3>3. refs'[l] = 1 BY <2>1, <1>16
    <3>4. Cardinality({l}) = 1 /\ Cardinality({}) = 0 BY Empties
    <3>5. Cardinality(Guards(stage', ls, l)) = 1 BY <3>1, <3>4
    <3>6. Cardinality(Workers(wk, ls, l)) = 0 BY <3>2, <3>4
    <3> QED BY <3>3, <3>5, <3>6
  <2>2. CASE l \notin A
    <3>1. \A r \in Request : ls[r] = l => stage'[r] = st[r] BY <2>2, <1>18, <1>16
    <3>2. Guards(stage', ls, l) = Guards(st, ls, l) BY <3>1 DEF Guards
    <3>3. refs'[l] = held[l] BY <2>2, <1>16
    <3> QED BY <3>2, <3>3, <1>3 DEF Counted
  <2> QED BY <2>1, <2>2
<1>22. OneChild(stage', ls, ca)
  <2>1. ASSUME NEW l \in Request PROVE Children(stage', ls, l) = Children(st, ls, l)
    <3>1. \A r \in Request : ls[r] # r => stage'[r] = st[r] BY <1>18, <1>16
    <3> QED BY <3>1 DEF Children, Guards
  <2> QED BY <2>1, <1>3 DEF OneChild
<1>23. Sound(refs', stage', ls, wk, ca)
  <2>1. Typed(refs', stage', ls, wk, ca) BY <1>2, <1>15 DEF Typed
  <2> QED BY <2>1, <1>19, <1>20, <1>21, <1>22 DEF Sound
<1>24. \A l \in Request : refs'[l] >= held[l]
  <2> TAKE l \in Request
  <2>1. held[l] \in Nat BY <1>2
  <2> QED BY <2>1, <1>16
<1> QED BY <1>8, <1>17, <1>23, <1>24

\* The release of a reference that a guard or a piece of work has given up: the lease
\* is kept, or its slot is given back and drain called.
LEMMA ReleaseSound ==
    ASSUME NEW l \in Request, NEW st, NEW ls, NEW wk, NEW ca,
           Types, refs \in [Request -> Nat], refs[l] > 0,
           Sound([refs EXCEPT ![l] = @ - 1], st, ls, wk, ca), Queued(waiters, st),
           active = Cardinality(Alive(refs)), NoIdleSlot,
           TicketsUsed, ReleaseRef(l, st)
    PROVE  /\ Sound(refs', stage', ls, wk, ca)
           /\ Queued(waiters', stage')
           /\ active' = Cardinality(Alive(refs'))
           /\ waiters' # <<>> => pressured \/ active' >= limit
           /\ \A x \in Request : refs[x] = 0 /\ refs'[x] > 0 =>
                /\ active' <= limit /\ ~pressured
                /\ \A w \in Range(waiters') :
                     x \in Range(waiters) /\ Place(waiters, x) < Place(waiters, w)
           /\ hops' \in [Ticket -> Request \cup {NoLease}]
           /\ \A t \in Ticket : hops'[t] = hops[t] \/ hops'[t] = NoLease
           /\ \A t \in Ticket : hops'[t] # NoLease => refs'[hops'[t]] > 0
<1> DEFINE held == [refs EXCEPT ![l] = @ - 1]
<1>1. /\ held[l] = refs[l] - 1
      /\ \A x \in Request : x # l => held[x] = refs[x]
      /\ DOMAIN held = Request
  OBVIOUS
<1>2. /\ limit \in Nat /\ pressured \in BOOLEAN
      /\ hops \in [Ticket -> Request \cup {NoLease}]
  <2>1. Limits \subseteq Nat \ {0} BY AIAssumption, Zenon
  <2> QED BY <2>1 DEF Types
<1>3. Alive(refs) \in SUBSET Request BY DEF Alive
<1>4. active \in Nat BY <1>3, RequestsFinite
<1>5. refs[l] \in Nat OBVIOUS
<1>6. \A t \in Ticket : hops[t] # NoLease => hops[t] \in Request /\ refs[hops[t]] > 0
  BY <1>2 DEF TicketsUsed
<1> HIDE DEF held
<1>7. CASE refs[l] > 1
  <2>1. refs' = held /\ stage' = st /\ active' = active /\ waiters' = waiters /\ hops' = hops
    BY <1>7 DEF ReleaseRef, held
  <2>2. Alive(held) = Alive(refs)
    <3>1. \A x \in Request : held[x] > 0 <=> refs[x] > 0 BY <1>1, <1>5, <1>7
    <3> QED BY <3>1 DEF Alive
  <2>3. Sound(held, st, ls, wk, ca) BY DEF held
  <2>4. waiters' # <<>> => pressured \/ active' >= limit BY <2>1 DEF NoIdleSlot
  <2>5. \A x \in Request : held[x] > 0 <=> refs[x] > 0 BY <1>1, <1>5, <1>7
  <2>6. \A x \in Request : ~(refs[x] = 0 /\ refs'[x] > 0) BY <2>1, <2>5
  <2>7. \A t \in Ticket : hops'[t] # NoLease => refs'[hops'[t]] > 0 BY <2>1, <2>5, <1>6
  <2> QED BY <2>1, <2>2, <2>3, <2>4, <2>6, <2>7, <1>2
<1>8. CASE ~(refs[l] > 1)
  <2>1. refs[l] = 1 BY <1>5, <1>8
  <2>2. Drain(active - 1, waiters, [refs EXCEPT ![l] = 0], st, pressured, limit)
        /\ hops' = WithoutTickets(l)
    BY <1>8 DEF ReleaseRef, FinishLease
  <2>3. held = [refs EXCEPT ![l] = 0] BY <2>1 DEF held
  <2>4. Drain(active - 1, waiters, held, st, pressured, limit) BY <2>2, <2>3
  <2>5. Alive(held) = Alive(refs) \ {l}
    <3>1. \A x \in Request : held[x] > 0 <=> (refs[x] > 0 /\ x # l) BY <1>1, <2>1
    <3> QED BY <3>1 DEF Alive
  <2>6. active - 1 = Cardinality(Alive(held))
    <3>1. l \in Alive(refs) BY DEF Alive
    <3> QED BY <3>1, <2>5, <1>3, OneLess
  <2>7. Sound(held, st, ls, wk, ca) BY DEF held
  <2>8. /\ Sound(refs', stage', ls, wk, ca)
        /\ Queued(waiters', stage')
        /\ active' = Cardinality(Alive(refs'))
        /\ waiters' # <<>> => pressured \/ active' >= limit
        /\ \A x \in Request : refs'[x] >= held[x]
        /\ \A x \in Request : held[x] = 0 /\ refs'[x] > 0 =>
             /\ active' <= limit /\ ~pressured
             /\ \A w \in Range(waiters') :
                  x \in Range(waiters) /\ Place(waiters, x) < Place(waiters, w)
    BY <2>4, <2>6, <2>7, <1>2, DrainSound
  <2>9. \A x \in Request : refs[x] = 0 => held[x] = 0 BY <1>1, <2>1
  <2>10. \A t \in Ticket : hops'[t] = IF hops[t] = l THEN NoLease ELSE hops[t]
    BY <2>2 DEF WithoutTickets
  <2>11. hops' \in [Ticket -> Request \cup {NoLease}] BY <2>2, <1>2 DEF WithoutTickets
  <2>12. ASSUME NEW t \in Ticket, hops'[t] # NoLease PROVE refs'[hops'[t]] > 0
    <3>1. hops'[t] = hops[t] /\ hops[t] # l /\ hops[t] # NoLease BY <2>10, <2>12
    <3>2. hops[t] \in Request /\ refs[hops[t]] > 0 BY <3>1, <1>6
    <3>3. held[hops[t]] > 0 BY <3>1, <3>2, <1>1
    <3>4. refs'[hops[t]] >= held[hops[t]] BY <3>2, <2>8
    <3>5. held[hops[t]] \in Nat /\ refs'[hops[t]] \in Nat
      BY <3>2, <2>7, <2>8 DEF Sound, Typed
    <3> QED BY <3>1, <3>3, <3>4, <3>5
  <2> QED BY <2>8, <2>9, <2>10, <2>11, <2>12
<1> QED BY <1>7, <1>8

-----------------------------------------------------------------------------
(***************************************************************************)
(* What a guard and a piece of work do to the leases.                      *)
(***************************************************************************)

\* The counts are numbers.
LEMMA Counts ==
    \A st, ls, wk : \A l \in Request :
        /\ Cardinality(Guards(st, ls, l)) \in Nat
        /\ Cardinality(Workers(wk, ls, l)) \in Nat
        /\ Cardinality(Children(st, ls, l)) \in Nat
<1> TAKE st, ls, wk
<1> TAKE l \in Request
<1>1. /\ Guards(st, ls, l) \in SUBSET Request
      /\ Workers(wk, ls, l) \in SUBSET Request
      /\ Children(st, ls, l) \in SUBSET Request
  BY DEF Guards, Workers, Children
<1> QED BY <1>1, RequestsFinite

\* A request that is refused, waits or goes on holds what it held before.
LEMMA StageMoves ==
    ASSUME NEW held, NEW st, NEW st2 \in [Request -> Stages], NEW ls, NEW wk, NEW ca,
           Sound(held, st, ls, wk, ca),
           \A r \in Request : \/ st2[r] = st[r]
                              \/ st[r] = "granted" /\ st2[r] = "running"
                              \/ /\ st[r] \in {"new", "waiting"} /\ r \notin Job
                                 /\ st2[r] \in {"waiting", "refused"}
    PROVE  Sound(held, st2, ls, wk, ca)
<1>1. /\ Typed(held, st, ls, wk, ca) /\ Fresh(st, ls, wk) /\ JobsRun(st, ls, wk)
      /\ Counted(held, st, ls, wk) /\ OneChild(st, ls, ca)
  BY DEF Sound
<1>2. \A r \in Request : st2[r] \in {"granted", "running"} <=> st[r] \in {"granted", "running"}
  OBVIOUS
<1>3. \A l \in Request : Guards(st2, ls, l) = Guards(st, ls, l) BY <1>2 DEF Guards
<1>4. \A l \in Request : Children(st2, ls, l) = Children(st, ls, l) BY <1>3 DEF Children
<1>5. Typed(held, st2, ls, wk, ca) BY <1>1 DEF Typed
<1>6. Fresh(st2, ls, wk)
  <2>1. \A r \in Request : st2[r] \in {"new", "waiting"} => st[r] \in {"new", "waiting"}
    OBVIOUS
  <2> QED BY <2>1, <1>1 DEF Fresh
<1>7. JobsRun(st2, ls, wk)
  <2>1. ASSUME NEW r \in Job PROVE st2[r] = st[r]
    <3>1. r \in Request BY AIAssumption
    <3>2. st[r] # "granted" BY <1>1 DEF JobsRun
    <3> QED BY <3>1, <3>2
  <2> QED BY <2>1, <1>1 DEF JobsRun
<1>8. Counted(held, st2, ls, wk) BY <1>1, <1>3 DEF Counted
<1>9. OneChild(st2, ls, ca) BY <1>1, <1>4 DEF OneChild
<1> QED BY <1>5, <1>6, <1>7, <1>8, <1>9 DEF Sound

\* A table of references, stages or hops served, with one entry changed.
Fewer(held, l) == [held EXCEPT ![l] = @ - 1]
More(held, l) == [held EXCEPT ![l] = @ + 1]
Put(f, r, v) == [f EXCEPT ![r] = v]
Cleared(ca, ls, r) == IF ls[r] # r THEN [ca EXCEPT ![ls[r]] = FALSE] ELSE ca
Served(ca, h, r) == IF h = r THEN ca ELSE [ca EXCEPT ![h] = TRUE]

\* A request that is admitted holds a new lease, or the lease its hop names.
LEMMA GuardEnters ==
    ASSUME NEW held, NEW st, NEW ls, NEW wk, NEW ca, Sound(held, st, ls, wk, ca),
           NEW r \in Request, NEW h \in Request, NEW s \in {"granted", "running"},
           NEW wk2 \in [Request -> Works],
           st[r] = "new",
           h # r => held[h] > 0 /\ ~ca[h] /\ r \notin Job,
           \A x \in Request : x # r => wk2[x] = wk[x],
           IF r \in Job THEN wk2[r] # "none" /\ s = "running" ELSE wk2[r] = wk[r]
    PROVE  Sound(More(held, h), Put(st, r, s), Put(ls, r, h), wk2, Served(ca, h, r))
<1> DEFINE held2 == More(held, h)
           st2 == Put(st, r, s)
           ls2 == Put(ls, r, h)
           ca2 == Served(ca, h, r)
<1>1. /\ Typed(held, st, ls, wk, ca) /\ Fresh(st, ls, wk) /\ JobsRun(st, ls, wk)
      /\ Counted(held, st, ls, wk) /\ OneChild(st, ls, ca)
  BY DEF Sound
<1>2. /\ held \in [Request -> Nat] /\ st \in [Request -> Stages]
      /\ ls \in [Request -> Request] /\ wk \in [Request -> Works]
      /\ ca \in [Request -> BOOLEAN]
  BY <1>1 DEF Typed
<1>3. /\ held2 \in [Request -> Nat] /\ st2 \in [Request -> Stages]
      /\ ls2 \in [Request -> Request] /\ ca2 \in [Request -> BOOLEAN]
  BY <1>2 DEF Stages, More, Put, Served
<1>4. /\ \A x \in Request : held2[x] = IF x = h THEN held[x] + 1 ELSE held[x]
      /\ \A x \in Request : st2[x] = IF x = r THEN s ELSE st[x]
      /\ \A x \in Request : ls2[x] = IF x = r THEN h ELSE ls[x]
      /\ \A x \in Request : ca2[x] = IF x = h /\ h # r THEN TRUE ELSE ca[x]
  BY <1>2 DEF More, Put, Served
<1> HIDE DEF held2, st2, ls2, ca2
<1>5. wk[r] = "none" /\ ls[r] = r /\ (\A x \in Request : ls[x] = r => x = r)
  BY <1>1 DEF Fresh
<1>6. Typed(held2, st2, ls2, wk2, ca2) BY <1>3 DEF Typed
<1>7. Fresh(st2, ls2, wk2)
  <2> SUFFICES ASSUME NEW l \in Request, st2[l] \in {"new", "waiting"}
               PROVE  /\ wk2[l] = "none" /\ ls2[l] = l
                      /\ \A x \in Request : ls2[x] = l => x = l
    BY DEF Fresh
  <2>1. l # r /\ st[l] \in {"new", "waiting"} BY <1>4
  <2>2. wk[l] = "none" /\ ls[l] = l /\ \A x \in Request : ls[x] = l => x = l
    BY <2>1, <1>1 DEF Fresh
  <2>3. held[l] = 0 BY <2>1, Unused
  <2>4. h # l BY <2>1, <2>3
  <2> QED BY <2>1, <2>2, <2>4, <1>4
<1>8. JobsRun(st2, ls2, wk2)
  <2> SUFFICES ASSUME NEW x \in Job
               PROVE  /\ ls2[x] = x /\ st2[x] \in {"new", "running", "over"}
                      /\ st2[x] # "new" => wk2[x] # "none"
    BY DEF JobsRun
  <2>1. x \in Request BY AIAssumption
  <2>2. CASE x = r BY <2>1, <2>2, <1>4
  <2>3. CASE x # r
    <3>1. /\ ls[x] = x /\ st[x] \in {"new", "running", "over"}
          /\ st[x] # "new" => wk[x] # "none"
      BY <1>1 DEF JobsRun
    <3> QED BY <3>1, <2>1, <2>3, <1>4
  <2> QED BY <2>2, <2>3
<1>9. \A l \in Request : Workers(wk2, ls2, l) = Workers(wk, ls, l)
  <2> TAKE l \in Request
  <2>1. \A x \in Request \ Job : (ls2[x] = l /\ wk2[x] = "working") <=> (ls[x] = l /\ wk[x] = "working")
    BY <1>4, <1>5
  <2> QED BY <2>1 DEF Workers
<1>10. r \notin Guards(st, ls, h) /\ Guards(st, ls, h) \in SUBSET Request BY DEF Guards
<1>11. Guards(st2, ls2, h) = Guards(st, ls, h) \cup {r}
  <2>1. \A x \in Request : (ls2[x] = h /\ st2[x] \in {"granted", "running"})
                             <=> ((ls[x] = h /\ st[x] \in {"granted", "running"}) \/ x = r)
    BY <1>4
  <2> QED BY <2>1 DEF Guards
<1>12. \A l \in Request : l # h => Guards(st2, ls2, l) = Guards(st, ls, l)
  <2> SUFFICES ASSUME NEW l \in Request, l # h PROVE Guards(st2, ls2, l) = Guards(st, ls, l)
    OBVIOUS
  <2>1. \A x \in Request : (ls2[x] = l /\ st2[x] \in {"granted", "running"})
                             <=> (ls[x] = l /\ st[x] \in {"granted", "running"})
    BY <1>4
  <2> QED BY <2>1 DEF Guards
<1>13. Counted(held2, st2, ls2, wk2)
  <2> SUFFICES ASSUME NEW l \in Request
               PROVE  held2[l] = Cardinality(Guards(st2, ls2, l)) + Cardinality(Workers(wk2, ls2, l))
    BY DEF Counted
  <2>1. held[l] = Cardinality(Guards(st, ls, l)) + Cardinality(Workers(wk, ls, l))
    BY <1>1 DEF Counted
  <2>2. Cardinality(Workers(wk2, ls2, l)) = Cardinality(Workers(wk, ls, l)) BY <1>9
  <2>3. /\ Cardinality(Guards(st, ls, l)) \in Nat /\ Cardinality(Workers(wk, ls, l)) \in Nat
    BY Counts
  <2>4. CASE l = h
    <3>1. Cardinality(Guards(st2, ls2, l)) = Cardinality(Guards(st, ls, l)) + 1
      BY <2>4, <1>10, <1>11, OneMore
    <3>2. held2[l] = held[l] + 1 BY <2>4, <1>4
    <3> QED BY <3>1, <3>2, <2>1, <2>2, <2>3
  <2>5. CASE l # h
    <3>1. Cardinality(Guards(st2, ls2, l)) = Cardinality(Guards(st, ls, l)) BY <2>5, <1>12
    <3>2. held2[l] = held[l] BY <2>5, <1>4
    <3> QED BY <3>1, <3>2, <2>1, <2>2
  <2> QED BY <2>4, <2>5
<1>14. OneChild(st2, ls2, ca2)
  <2> SUFFICES ASSUME NEW l \in Request
               PROVE  Cardinality(Children(st2, ls2, l)) = IF ca2[l] THEN 1 ELSE 0
    BY DEF OneChild
  <2>1. Cardinality(Children(st, ls, l)) = IF ca[l] THEN 1 ELSE 0 BY <1>1 DEF OneChild
  <2>2. CASE l = h /\ h # r
    <3>1. Children(st2, ls2, l) = Children(st, ls, l) \cup {r}
      <4>1. \A x \in Guards(st, ls, l) : ls2[x] = ls[x] BY <2>2, <1>4, <1>10 DEF Guards
      <4>2. ls2[r] # r BY <2>2, <1>4
      <4> QED BY <4>1, <4>2, <2>2, <1>11 DEF Children
    <3>2. Cardinality(Children(st, ls, l)) = 0 BY <2>1, <2>2
    <3>3. Children(st, ls, l) \in SUBSET Request /\ r \notin Children(st, ls, l)
      BY <2>2, <1>10 DEF Children
    <3>4. Cardinality(Children(st2, ls2, l)) = 0 + 1 BY <3>1, <3>2, <3>3, OneMore
    <3>5. ca2[l] = TRUE BY <2>2, <1>4
    <3> QED BY <3>4, <3>5
  <2>3. CASE ~(l = h /\ h # r)
    <3>1. Children(st2, ls2, l) = Children(st, ls, l)
      <4>1. CASE l # h
        <5>1. \A x \in Guards(st, ls, l) : ls2[x] = ls[x] BY <1>4 DEF Guards
        <5> QED BY <5>1, <4>1, <1>12 DEF Children
      <4>2. CASE l = h
        <5>1. h = r BY <4>2, <2>3
        <5>2. \A x \in Guards(st, ls, l) : ls2[x] = ls[x] BY <1>4 DEF Guards
        <5>3. ls2[r] = r BY <5>1, <1>4
        <5> QED BY <5>2, <5>3, <4>2, <1>11 DEF Children
      <4> QED BY <4>1, <4>2
    <3>2. ca2[l] = ca[l] BY <2>3, <1>4
    <3> QED BY <3>1, <3>2, <2>1
  <2> QED BY <2>2, <2>3
<1>15. Sound(held2, st2, ls2, wk2, ca2) BY <1>6, <1>7, <1>8, <1>13, <1>14 DEF Sound
<1> QED BY <1>15 DEF held2, st2, ls2, ca2

\* A guard that lets its lease go; only the guard of a hop clears childActive.
LEMMA GuardLeaves ==
    ASSUME NEW held, NEW st, NEW ls, NEW wk, NEW ca, Sound(held, st, ls, wk, ca),
           NEW r \in Request, NEW s \in {"refused", "over"},
           st[r] \in {"granted", "running"}, r \in Job => s = "over"
    PROVE  held[ls[r]] > 0 /\ Sound(Fewer(held, ls[r]), Put(st, r, s), ls, wk, Cleared(ca, ls, r))
<1> DEFINE h == ls[r]
           held2 == Fewer(held, h)
           st2 == Put(st, r, s)
           ca2 == Cleared(ca, ls, r)
<1>1. /\ Typed(held, st, ls, wk, ca) /\ Fresh(st, ls, wk) /\ JobsRun(st, ls, wk)
      /\ Counted(held, st, ls, wk) /\ OneChild(st, ls, ca)
  BY DEF Sound
<1>2. /\ held \in [Request -> Nat] /\ st \in [Request -> Stages]
      /\ ls \in [Request -> Request] /\ wk \in [Request -> Works]
      /\ ca \in [Request -> BOOLEAN]
  BY <1>1 DEF Typed
<1>3. h \in Request BY <1>2
<1>4. /\ DOMAIN held2 = Request
      /\ st2 \in [Request -> Stages] /\ ca2 \in [Request -> BOOLEAN]
  BY <1>2 DEF Stages, Fewer, Put, Cleared
<1>5. /\ \A x \in Request : held2[x] = IF x = h THEN held[x] - 1 ELSE held[x]
      /\ \A x \in Request : st2[x] = IF x = r THEN s ELSE st[x]
      /\ \A x \in Request : ca2[x] = IF x = h /\ h # r THEN FALSE ELSE ca[x]
      /\ ls[r] = h
  BY <1>2, <1>3 DEF Fewer, Put, Cleared
<1>6. held2 = [x \in Request |-> held2[x]] BY <1>2 DEF Fewer
<1> HIDE DEF h, held2, st2, ca2
<1>7. r \in Guards(st, ls, h) /\ Guards(st, ls, h) \in SUBSET Request BY <1>5 DEF Guards
<1>8. Guards(st2, ls, h) = Guards(st, ls, h) \ {r}
  <2>1. \A x \in Request : (ls[x] = h /\ st2[x] \in {"granted", "running"})
                             <=> ((ls[x] = h /\ st[x] \in {"granted", "running"}) /\ x # r)
    BY <1>5
  <2> QED BY <2>1 DEF Guards
<1>9. \A l \in Request : l # h => Guards(st2, ls, l) = Guards(st, ls, l)
  <2> SUFFICES ASSUME NEW l \in Request, l # h PROVE Guards(st2, ls, l) = Guards(st, ls, l)
    OBVIOUS
  <2>1. \A x \in Request : (ls[x] = l /\ st2[x] \in {"granted", "running"})
                             <=> (ls[x] = l /\ st[x] \in {"granted", "running"})
    BY <1>5
  <2> QED BY <2>1 DEF Guards
<1>10. /\ held[h] = Cardinality(Guards(st, ls, h)) + Cardinality(Workers(wk, ls, h))
       /\ Cardinality(Guards(st, ls, h)) > 0
       /\ Cardinality(Guards(st2, ls, h)) = Cardinality(Guards(st, ls, h)) - 1
       /\ Cardinality(Guards(st, ls, h)) \in Nat /\ Cardinality(Workers(wk, ls, h)) \in Nat
  BY <1>1, <1>3, <1>7, <1>8, OneLess, Counts DEF Counted
<1>11. held[h] > 0 BY <1>10
<1>12. \A x \in Request : held2[x] \in Nat
  <2> TAKE x \in Request
  <2>1. held[x] \in Nat BY <1>2
  <2> QED BY <2>1, <1>11, <1>5
<1>13. held2 \in [Request -> Nat] BY <1>6, <1>12
<1>14. Typed(held2, st2, ls, wk, ca2) BY <1>13, <1>2, <1>4 DEF Typed
<1>15. Fresh(st2, ls, wk)
  <2>1. \A x \in Request : st2[x] \in {"new", "waiting"} => st[x] \in {"new", "waiting"}
    BY <1>5
  <2> QED BY <2>1, <1>1 DEF Fresh
<1>16. JobsRun(st2, ls, wk)
  <2> SUFFICES ASSUME NEW x \in Job
               PROVE  /\ ls[x] = x /\ st2[x] \in {"new", "running", "over"}
                      /\ st2[x] # "new" => wk[x] # "none"
    BY DEF JobsRun
  <2>1. x \in Request BY AIAssumption
  <2>2. /\ ls[x] = x /\ st[x] \in {"new", "running", "over"}
        /\ st[x] # "new" => wk[x] # "none"
    BY <1>1 DEF JobsRun
  <2> QED BY <2>1, <2>2, <1>5
<1>17. Counted(held2, st2, ls, wk)
  <2> SUFFICES ASSUME NEW l \in Request
               PROVE  held2[l] = Cardinality(Guards(st2, ls, l)) + Cardinality(Workers(wk, ls, l))
    BY DEF Counted
  <2>1. CASE l = h
    <3>1. held2[h] = held[h] - 1 BY <1>3, <1>5
    <3> QED BY <3>1, <2>1, <1>10
  <2>2. CASE l # h
    <3>1. held2[l] = held[l] BY <2>2, <1>5
    <3>2. Cardinality(Guards(st2, ls, l)) = Cardinality(Guards(st, ls, l)) BY <2>2, <1>9
    <3> QED BY <3>1, <3>2, <1>1 DEF Counted
  <2> QED BY <2>1, <2>2
<1>18. OneChild(st2, ls, ca2)
  <2> SUFFICES ASSUME NEW l \in Request
               PROVE  Cardinality(Children(st2, ls, l)) = IF ca2[l] THEN 1 ELSE 0
    BY DEF OneChild
  <2>1. Cardinality(Children(st, ls, l)) = IF ca[l] THEN 1 ELSE 0 BY <1>1 DEF OneChild
  <2>2. CASE l = h /\ h # r
    <3>1. Children(st2, ls, l) = Children(st, ls, l) \ {r} BY <2>2, <1>8 DEF Children
    <3>2. r \in Children(st, ls, l) BY <2>2, <1>5, <1>7 DEF Children
    <3>3. Children(st, ls, l) \in SUBSET Request BY DEF Children, Guards
    <3>4. /\ Cardinality(Children(st, ls, l)) > 0
          /\ Cardinality(Children(st2, ls, l)) = Cardinality(Children(st, ls, l)) - 1
      BY <3>1, <3>2, <3>3, OneLess
    <3>5. Cardinality(Children(st, ls, l)) = 1 BY <3>4, <2>1
    <3>6. Cardinality(Children(st2, ls, l)) = 0 BY <3>4, <3>5
    <3>7. ca2[l] = FALSE BY <2>2, <1>5
    <3> QED BY <3>6, <3>7
  <2>3. CASE ~(l = h /\ h # r)
    <3>1. Children(st2, ls, l) = Children(st, ls, l)
      <4>1. CASE l # h BY <4>1, <1>9 DEF Children
      <4>2. CASE l = h
        <5>1. h = r /\ ls[r] = r BY <4>2, <2>3, <1>5
        <5> QED BY <5>1, <4>2, <1>8 DEF Children
      <4> QED BY <4>1, <4>2
    <3>2. ca2[l] = ca[l] BY <2>3, <1>5
    <3> QED BY <3>1, <3>2, <2>1
  <2> QED BY <2>2, <2>3
<1>19. Sound(held2, st2, ls, wk, ca2) BY <1>14, <1>15, <1>16, <1>17, <1>18 DEF Sound
<1> QED BY <1>11, <1>19 DEF h, held2, st2, ca2

\* The record of a background job's work counts for nothing.
LEMMA JobWork ==
    ASSUME NEW held, NEW st, NEW ls, NEW wk, NEW ca, Sound(held, st, ls, wk, ca),
           NEW r \in Job, st[r] # "new"
    PROVE  Sound(held, st, ls, Put(wk, r, "over"), ca)
<1> DEFINE wk2 == Put(wk, r, "over")
<1>1. /\ Typed(held, st, ls, wk, ca) /\ Fresh(st, ls, wk) /\ JobsRun(st, ls, wk)
      /\ Counted(held, st, ls, wk) /\ OneChild(st, ls, ca)
  BY DEF Sound
<1>2. wk \in [Request -> Works] BY <1>1 DEF Typed
<1>3. wk2 \in [Request -> Works] BY <1>2 DEF Works, Put
<1>4. \A x \in Request : wk2[x] = IF x = r THEN "over" ELSE wk[x] BY <1>2 DEF Put
<1> HIDE DEF wk2
<1>5. r \in Request BY AIAssumption
<1>6. st[r] # "waiting" BY <1>1 DEF JobsRun
<1>7. Typed(held, st, ls, wk2, ca) BY <1>1, <1>3 DEF Typed
<1>8. Fresh(st, ls, wk2)
  <2>1. \A x \in Request : st[x] \in {"new", "waiting"} => wk2[x] = wk[x] BY <1>4, <1>6
  <2> QED BY <2>1, <1>1 DEF Fresh
<1>9. JobsRun(st, ls, wk2)
  <2>1. \A x \in Job : wk[x] # "none" => wk2[x] # "none"
    <3> TAKE x \in Job
    <3>1. x \in Request BY AIAssumption
    <3> QED BY <3>1, <1>4
  <2> QED BY <2>1, <1>1 DEF JobsRun
<1>10. \A l \in Request : Workers(wk2, ls, l) = Workers(wk, ls, l)
  <2> TAKE l \in Request
  <2>1. \A x \in Request \ Job : wk2[x] = wk[x] BY <1>4
  <2> QED BY <2>1 DEF Workers
<1>11. Counted(held, st, ls, wk2) BY <1>1, <1>10 DEF Counted
<1>12. Sound(held, st, ls, wk2, ca) BY <1>1, <1>7, <1>8, <1>9, <1>11 DEF Sound
<1> QED BY <1>12 DEF wk2

\* A piece of work that begins holds one more reference, or none.
LEMMA WorkEnters ==
    ASSUME NEW held, NEW st, NEW ls, NEW wk, NEW ca, Sound(held, st, ls, wk, ca),
           NEW r \in Request, st[r] \in {"running", "over"}, wk[r] = "none"
    PROVE  /\ Sound(More(held, ls[r]), st, ls, Put(wk, r, "working"), ca)
           /\ Sound(held, st, ls, Put(wk, r, "over"), ca)
<1>1. /\ Typed(held, st, ls, wk, ca) /\ Fresh(st, ls, wk) /\ JobsRun(st, ls, wk)
      /\ Counted(held, st, ls, wk) /\ OneChild(st, ls, ca)
  BY DEF Sound
<1>2. /\ held \in [Request -> Nat] /\ st \in [Request -> Stages]
      /\ ls \in [Request -> Request] /\ wk \in [Request -> Works]
      /\ ca \in [Request -> BOOLEAN]
  BY <1>1 DEF Typed
<1>3. r \notin Job BY <1>1 DEF JobsRun
<1>4. ASSUME NEW v \in {"working", "over"}
      PROVE  /\ Put(wk, r, v) \in [Request -> Works]
             /\ Fresh(st, ls, Put(wk, r, v))
             /\ JobsRun(st, ls, Put(wk, r, v))
  <2> DEFINE wk2 == Put(wk, r, v)
  <2>1. wk2 \in [Request -> Works] BY <1>2 DEF Works, Put
  <2>2. \A x \in Request : wk2[x] = IF x = r THEN v ELSE wk[x] BY <1>2 DEF Put
  <2> HIDE DEF wk2
  <2>3. Fresh(st, ls, wk2)
    <3>1. \A x \in Request : st[x] \in {"new", "waiting"} => wk2[x] = wk[x] BY <2>2
    <3> QED BY <3>1, <1>1 DEF Fresh
  <2>4. JobsRun(st, ls, wk2)
    <3>1. \A x \in Job : wk2[x] = wk[x]
      <4> TAKE x \in Job
      <4>1. x \in Request BY AIAssumption
      <4> QED BY <4>1, <2>2, <1>3
    <3> QED BY <3>1, <1>1 DEF JobsRun
  <2> QED BY <2>1, <2>3, <2>4 DEF wk2
<1>5. Sound(More(held, ls[r]), st, ls, Put(wk, r, "working"), ca)
  <2> DEFINE h == ls[r]
             wk2 == Put(wk, r, "working")
             held2 == More(held, h)
  <2>1. \A x \in Request : wk2[x] = IF x = r THEN "working" ELSE wk[x] BY <1>2 DEF Put
  <2>2. h \in Request BY <1>2
  <2>3. \A x \in Request : held2[x] = IF x = h THEN held[x] + 1 ELSE held[x]
    BY <1>2, <2>2 DEF More
  <2>4. held2 \in [Request -> Nat] BY <1>2, <2>2 DEF More
  <2>5. wk2 \in [Request -> Works] /\ Fresh(st, ls, wk2) /\ JobsRun(st, ls, wk2) BY <1>4
  <2>6. ls[r] = h OBVIOUS
  <2> HIDE DEF wk2, held2, h
  <2>7. Typed(held2, st, ls, wk2, ca) BY <1>2, <2>4, <2>5 DEF Typed
  <2>8. Workers(wk2, ls, h) = Workers(wk, ls, h) \cup {r} BY <2>1, <2>6, <1>3 DEF Workers
  <2>9. Workers(wk, ls, h) \in SUBSET Request /\ r \notin Workers(wk, ls, h) BY DEF Workers
  <2>10. \A l \in Request : l # h => Workers(wk2, ls, l) = Workers(wk, ls, l)
    BY <2>1, <2>6 DEF Workers
  <2>11. Counted(held2, st, ls, wk2)
    <3> SUFFICES ASSUME NEW l \in Request
                 PROVE  held2[l] = Cardinality(Guards(st, ls, l)) + Cardinality(Workers(wk2, ls, l))
      BY DEF Counted
    <3>1. held[l] = Cardinality(Guards(st, ls, l)) + Cardinality(Workers(wk, ls, l))
      BY <1>1 DEF Counted
    <3>2. Cardinality(Guards(st, ls, l)) \in Nat /\ Cardinality(Workers(wk, ls, l)) \in Nat
      BY Counts
    <3>3. CASE l = h
      <4>1. Cardinality(Workers(wk2, ls, l)) = Cardinality(Workers(wk, ls, l)) + 1
        BY <3>3, <2>8, <2>9, OneMore
      <4>2. held2[l] = held[l] + 1 BY <3>3, <2>3
      <4> QED BY <4>1, <4>2, <3>1, <3>2
    <3>4. CASE l # h
      <4>1. Workers(wk2, ls, l) = Workers(wk, ls, l) BY <3>4, <2>10
      <4>2. held2[l] = held[l] BY <3>4, <2>3
      <4> QED BY <4>1, <4>2, <3>1
    <3> QED BY <3>3, <3>4
  <2>12. Sound(held2, st, ls, wk2, ca) BY <2>5, <2>7, <2>11, <1>1 DEF Sound
  <2> QED BY <2>12 DEF held2, wk2, h
<1>6. Sound(held, st, ls, Put(wk, r, "over"), ca)
  <2> DEFINE wk2 == Put(wk, r, "over")
  <2>1. \A x \in Request : wk2[x] = IF x = r THEN "over" ELSE wk[x] BY <1>2 DEF Put
  <2>2. wk2 \in [Request -> Works] /\ Fresh(st, ls, wk2) /\ JobsRun(st, ls, wk2) BY <1>4
  <2> HIDE DEF wk2
  <2>3. \A l \in Request : Workers(wk2, ls, l) = Workers(wk, ls, l)
    <3>1. \A x \in Request : wk2[x] = "working" <=> wk[x] = "working" BY <2>1
    <3> QED BY <3>1 DEF Workers
  <2>4. Typed(held, st, ls, wk2, ca) BY <1>2, <2>2 DEF Typed
  <2>5. Counted(held, st, ls, wk2) BY <1>1, <2>3 DEF Counted
  <2>6. Sound(held, st, ls, wk2, ca) BY <2>2, <2>4, <2>5, <1>1 DEF Sound
  <2> QED BY <2>6 DEF wk2
<1> QED BY <1>5, <1>6

\* A piece of work that ends gives its reference up.
LEMMA WorkLeaves ==
    ASSUME NEW held, NEW st, NEW ls, NEW wk, NEW ca, Sound(held, st, ls, wk, ca),
           NEW r \in Request \ Job, wk[r] = "working"
    PROVE  /\ held[ls[r]] > 0
           /\ Sound(Fewer(held, ls[r]), st, ls, Put(wk, r, "over"), ca)
<1> DEFINE h == ls[r]
           wk2 == Put(wk, r, "over")
           held2 == Fewer(held, h)
<1>1. /\ Typed(held, st, ls, wk, ca) /\ Fresh(st, ls, wk) /\ JobsRun(st, ls, wk)
      /\ Counted(held, st, ls, wk) /\ OneChild(st, ls, ca)
  BY DEF Sound
<1>2. /\ held \in [Request -> Nat] /\ st \in [Request -> Stages]
      /\ ls \in [Request -> Request] /\ wk \in [Request -> Works]
      /\ ca \in [Request -> BOOLEAN]
  BY <1>1 DEF Typed
<1>3. h \in Request /\ ls[r] = h BY <1>2
<1>4. wk2 \in [Request -> Works] BY <1>2 DEF Works, Put
<1>5. /\ \A x \in Request : wk2[x] = IF x = r THEN "over" ELSE wk[x]
      /\ \A x \in Request : held2[x] = IF x = h THEN held[x] - 1 ELSE held[x]
  BY <1>2, <1>3 DEF Put, Fewer
<1>6. held2 = [x \in Request |-> held2[x]] BY <1>2 DEF Fewer
<1> HIDE DEF wk2, held2, h
<1>7. Workers(wk2, ls, h) = Workers(wk, ls, h) \ {r} BY <1>5, <1>3 DEF Workers
<1>8. Workers(wk, ls, h) \in SUBSET Request /\ r \in Workers(wk, ls, h) BY <1>3 DEF Workers
<1>9. \A l \in Request : l # h => Workers(wk2, ls, l) = Workers(wk, ls, l)
  BY <1>5, <1>3 DEF Workers
<1>10. /\ held[h] = Cardinality(Guards(st, ls, h)) + Cardinality(Workers(wk, ls, h))
       /\ Cardinality(Workers(wk, ls, h)) > 0
       /\ Cardinality(Workers(wk2, ls, h)) = Cardinality(Workers(wk, ls, h)) - 1
       /\ Cardinality(Guards(st, ls, h)) \in Nat /\ Cardinality(Workers(wk, ls, h)) \in Nat
  BY <1>1, <1>3, <1>7, <1>8, OneLess, Counts DEF Counted
<1>11. held[h] > 0 BY <1>10
<1>12. \A x \in Request : held2[x] \in Nat
  <2> TAKE x \in Request
  <2>1. held[x] \in Nat BY <1>2
  <2> QED BY <2>1, <1>11, <1>5
<1>13. Typed(held2, st, ls, wk2, ca)
  <2>1. held2 \in [Request -> Nat] BY <1>6, <1>12
  <2> QED BY <2>1, <1>2, <1>4 DEF Typed
<1>14. Fresh(st, ls, wk2)
  <2>1. \A x \in Request : wk[x] = "none" => wk2[x] = "none" BY <1>5
  <2> QED BY <2>1, <1>1 DEF Fresh
<1>15. JobsRun(st, ls, wk2)
  <2>1. \A x \in Job : wk2[x] = wk[x]
    <3> TAKE x \in Job
    <3>1. x \in Request BY AIAssumption
    <3> QED BY <3>1, <1>5
  <2> QED BY <2>1, <1>1 DEF JobsRun
<1>16. Counted(held2, st, ls, wk2)
  <2> SUFFICES ASSUME NEW l \in Request
               PROVE  held2[l] = Cardinality(Guards(st, ls, l)) + Cardinality(Workers(wk2, ls, l))
    BY DEF Counted
  <2>1. CASE l = h
    <3>1. held2[h] = held[h] - 1 BY <1>3, <1>5
    <3> QED BY <3>1, <2>1, <1>10
  <2>2. CASE l # h
    <3>1. held2[l] = held[l] BY <2>2, <1>5
    <3>2. Workers(wk2, ls, l) = Workers(wk, ls, l) BY <2>2, <1>9
    <3> QED BY <3>1, <3>2, <1>1 DEF Counted
  <2> QED BY <2>1, <2>2
<1>17. Sound(held2, st, ls, wk2, ca) BY <1>13, <1>14, <1>15, <1>16, <1>1 DEF Sound
<1> QED BY <1>11, <1>17 DEF held2, wk2, h

-----------------------------------------------------------------------------
(***************************************************************************)
(* The queue, when requests enter and leave it.                            *)
(***************************************************************************)

LEMMA QueueKept ==
    ASSUME NEW q, NEW st, NEW st2, Queued(q, st),
           \A r \in Request : st2[r] = "waiting" <=> st[r] = "waiting"
    PROVE  Queued(q, st2)
BY DEF Queued

LEMMA QueueJoined ==
    ASSUME NEW q, NEW st \in [Request -> Stages], NEW r \in Request,
           Queued(q, st), st[r] = "new"
    PROVE  Queued(Append(q, r), [st EXCEPT ![r] = "waiting"])
<1> DEFINE q2 == Append(q, r)
           st2 == [st EXCEPT ![r] = "waiting"]
<1>1. /\ q \in Seq(Request) /\ \A i, j \in 1 .. Len(q) : q[i] = q[j] => i = j
      /\ \A x \in Request : st[x] = "waiting" <=> \E i \in 1 .. Len(q) : q[i] = x
  BY DEF Queued
<1>2. /\ q2 \in Seq(Request) /\ Len(q2) = Len(q) + 1
      /\ \A i \in 1 .. Len(q) : q2[i] = q[i]
      /\ q2[Len(q) + 1] = r
  BY <1>1, AppendProperties
<1>3. \A x \in Request : st2[x] = IF x = r THEN "waiting" ELSE st[x] OBVIOUS
<1>4. Len(q) \in Nat BY <1>1
<1> HIDE DEF q2, st2
<1>5. \A i \in 1 .. Len(q) : q[i] # r BY <1>1
<1>6. \A i \in 1 .. Len(q2) : i \in 1 .. Len(q) \/ i = Len(q) + 1 BY <1>2, <1>4
<1>7. \A i, j \in 1 .. Len(q2) : q2[i] = q2[j] => i = j
  <2> TAKE i, j \in 1 .. Len(q2)
  <2>1. CASE i \in 1 .. Len(q) /\ j \in 1 .. Len(q) BY <2>1, <1>1, <1>2
  <2>2. CASE i \in 1 .. Len(q) /\ j = Len(q) + 1 BY <2>2, <1>2, <1>5
  <2>3. CASE i = Len(q) + 1 /\ j \in 1 .. Len(q) BY <2>3, <1>2, <1>5
  <2>4. CASE i = Len(q) + 1 /\ j = Len(q) + 1 BY <2>4
  <2> QED BY <2>1, <2>2, <2>3, <2>4, <1>6
<1>8. ASSUME NEW x \in Request
      PROVE  st2[x] = "waiting" <=> \E i \in 1 .. Len(q2) : q2[i] = x
  <2>1. 1 .. Len(q) \subseteq 1 .. Len(q2) /\ Len(q) + 1 \in 1 .. Len(q2) BY <1>2, <1>4
  <2>2. CASE x = r BY <2>1, <2>2, <1>2, <1>3
  <2>3. CASE x # r
    <3>1. (\E i \in 1 .. Len(q2) : q2[i] = x) <=> \E i \in 1 .. Len(q) : q[i] = x
      BY <2>1, <2>3, <1>2, <1>6
    <3>2. st2[x] = st[x] BY <2>3, <1>3
    <3> QED BY <3>1, <3>2, <1>1
  <2> QED BY <2>2, <2>3
<1>9. Queued(q2, st2) BY <1>2, <1>7, <1>8 DEF Queued
<1> QED BY <1>9 DEF q2, st2

\* The queue without the request at place a.
LEMMA Removed ==
    ASSUME NEW q \in Seq(Request), NEW a \in 1 .. Len(q),
           \A i, j \in 1 .. Len(q) : q[i] = q[j] => i = j
    PROVE  /\ RemoveFirst(q, q[a]) \in Seq(Request)
           /\ Len(RemoveFirst(q, q[a])) = Len(q) - 1
           /\ \A i \in 1 .. Len(q) - 1 :
                RemoveFirst(q, q[a])[i] = IF i < a THEN q[i] ELSE q[i + 1]
<1> DEFINE front == SubSeq(q, 1, a - 1)
           back == SubSeq(q, a + 1, Len(q))
<1>1. Len(q) \in Nat /\ a \in Nat /\ 1 <= a /\ a <= Len(q) OBVIOUS
<1>2. /\ front \in Seq(Request) /\ Len(front) = a - 1
      /\ \A i \in 1 .. a - 1 : front[i] = q[i]
  BY <1>1
<1>3. /\ back \in Seq(Request) /\ Len(back) = Len(q) - a
      /\ \A i \in 1 .. Len(q) - a : back[i] = q[a + i]
  BY <1>1
<1>4. RemoveFirst(q, q[a]) = front \o back
  <2>1. SelectInSeq(q, LAMBDA v : v = q[a]) = a
    <3> DEFINE I == {i \in 1 .. Len(q) : q[i] = q[a]}
    <3>1. I = {a} OBVIOUS
    <3>2. SelectInSeq(q, LAMBDA v : v = q[a]) = IF I # {} THEN Min(I) ELSE 0 BY DEF SelectInSeq
    <3>3. Min({a}) = a
      <4>1. a \in Nat /\ a <= a BY <1>1
      <4> QED BY <4>1 DEF Min
    <3> QED BY <3>1, <3>2, <3>3
  <2>2. RemoveFirst(q, q[a]) = RemoveAt(q, SelectInSeq(q, LAMBDA v : v = q[a]))
    BY DEF RemoveFirst
  <2> QED BY <2>1, <2>2 DEF RemoveAt
<1> HIDE DEF front, back
<1>5. /\ front \o back \in Seq(Request)
      /\ Len(front \o back) = Len(front) + Len(back)
      /\ \A i \in 1 .. Len(front) + Len(back) : (front \o back)[i] =
           IF i <= Len(front) THEN front[i] ELSE back[i - Len(front)]
  <2>1. front \in Seq(Request) /\ back \in Seq(Request) BY <1>2, <1>3
  <2> QED BY <2>1, ConcatProperties, Zenon
<1>6. Len(front \o back) = Len(q) - 1 BY <1>1, <1>2, <1>3, <1>5
<1>7. ASSUME NEW i \in 1 .. Len(q) - 1
      PROVE  (front \o back)[i] = IF i < a THEN q[i] ELSE q[i + 1]
  <2>1. (front \o back)[i] = IF i <= a - 1 THEN front[i] ELSE back[i - (a - 1)]
    BY <1>1, <1>2, <1>3, <1>5
  <2>2. CASE i < a
    <3>1. i \in 1 .. a - 1 BY <2>2, <1>1
    <3> QED BY <3>1, <2>1, <2>2, <1>1, <1>2
  <2>3. CASE ~(i < a)
    <3>1. i - (a - 1) \in 1 .. Len(q) - a /\ a + (i - (a - 1)) = i + 1 BY <2>3, <1>1
    <3>2. back[i - (a - 1)] = q[i + 1] BY <3>1, <1>3
    <3>3. ~(i <= a - 1) BY <2>3, <1>1
    <3> QED BY <3>2, <3>3, <2>1, <2>3
  <2> QED BY <2>2, <2>3
<1> QED BY <1>4, <1>5, <1>6, <1>7

LEMMA QueueLeft ==
    ASSUME NEW q, NEW st \in [Request -> Stages], NEW r \in Request,
           Queued(q, st), st[r] = "waiting"
    PROVE  Queued(RemoveFirst(q, r), [st EXCEPT ![r] = "refused"])
<1> DEFINE q2 == RemoveFirst(q, r)
           st2 == [st EXCEPT ![r] = "refused"]
<1>1. /\ q \in Seq(Request) /\ \A i, j \in 1 .. Len(q) : q[i] = q[j] => i = j
      /\ \A x \in Request : st[x] = "waiting" <=> \E i \in 1 .. Len(q) : q[i] = x
  BY DEF Queued
<1>2. PICK a \in 1 .. Len(q) : q[a] = r BY <1>1
<1>3. /\ q2 \in Seq(Request) /\ Len(q2) = Len(q) - 1
      /\ \A i \in 1 .. Len(q) - 1 : q2[i] = IF i < a THEN q[i] ELSE q[i + 1]
  <2>1. /\ RemoveFirst(q, q[a]) \in Seq(Request)
        /\ Len(RemoveFirst(q, q[a])) = Len(q) - 1
        /\ \A i \in 1 .. Len(q) - 1 :
             RemoveFirst(q, q[a])[i] = IF i < a THEN q[i] ELSE q[i + 1]
    BY <1>1, Removed
  <2>2. RemoveFirst(q, q[a]) = q2 BY <1>2
  <2> QED BY <2>1, <2>2
<1>4. \A x \in Request : st2[x] = IF x = r THEN "refused" ELSE st[x] OBVIOUS
<1>5. Len(q) \in Nat /\ a \in Nat /\ 1 <= a /\ a <= Len(q) BY <1>1
<1> HIDE DEF q2, st2
<1> DEFINE From(i) == IF i < a THEN i ELSE i + 1
<1>6. \A i \in 1 .. Len(q2) : From(i) \in 1 .. Len(q) /\ From(i) # a /\ q2[i] = q[From(i)]
  BY <1>3, <1>5
<1>7. \A i, j \in 1 .. Len(q2) : From(i) = From(j) => i = j BY <1>3, <1>5
<1>8. \A b \in 1 .. Len(q) : b # a => \E i \in 1 .. Len(q2) : From(i) = b
  <2> SUFFICES ASSUME NEW b \in 1 .. Len(q), b # a
               PROVE  \E i \in 1 .. Len(q2) : From(i) = b
    OBVIOUS
  <2>1. CASE b < a
    <3>1. b \in 1 .. Len(q2) /\ From(b) = b BY <2>1, <1>3, <1>5
    <3> QED BY <3>1
  <2>2. CASE b > a
    <3>1. b - 1 \in 1 .. Len(q2) /\ From(b - 1) = b BY <2>2, <1>3, <1>5
    <3> QED BY <3>1
  <2> QED BY <2>1, <2>2, <1>5
<1> HIDE DEF From
<1>9. \A i, j \in 1 .. Len(q2) : q2[i] = q2[j] => i = j
  <2> TAKE i, j \in 1 .. Len(q2)
  <2> HAVE q2[i] = q2[j]
  <2>1. /\ From(i) \in 1 .. Len(q) /\ q2[i] = q[From(i)]
        /\ From(j) \in 1 .. Len(q) /\ q2[j] = q[From(j)]
    BY <1>6
  <2>2. q[From(i)] = q[From(j)] BY <2>1
  <2>3. \A b, c \in 1 .. Len(q) : q[b] = q[c] => b = c BY <1>1
  <2>4. From(i) = From(j) BY <2>1, <2>2, <2>3, Zenon
  <2>5. From(i) = From(j) => i = j BY <1>7
  <2> QED BY <2>4, <2>5
<1>10. ASSUME NEW x \in Request
       PROVE  st2[x] = "waiting" <=> \E i \in 1 .. Len(q2) : q2[i] = x
  <2>1. ASSUME st2[x] = "waiting" PROVE \E i \in 1 .. Len(q2) : q2[i] = x
    <3>1. x # r /\ st[x] = "waiting" BY <2>1, <1>4
    <3>2. PICK b \in 1 .. Len(q) : q[b] = x BY <3>1, <1>1
    <3>3. PICK i \in 1 .. Len(q2) : From(i) = b BY <3>1, <3>2, <1>2, <1>8
    <3> QED BY <3>2, <3>3, <1>6
  <2>2. ASSUME NEW i \in 1 .. Len(q2), q2[i] = x PROVE st2[x] = "waiting"
    <3>1. From(i) \in 1 .. Len(q) /\ From(i) # a /\ q[From(i)] = x BY <2>2, <1>6
    <3>2. x # r BY <3>1, <1>1, <1>2
    <3>3. st[x] = "waiting" BY <3>1, <1>1
    <3> QED BY <3>2, <3>3, <1>4
  <2> QED BY <2>1, <2>2
<1>11. Queued(q2, st2) BY <1>3, <1>9, <1>10 DEF Queued
<1> QED BY <1>11 DEF q2, st2

-----------------------------------------------------------------------------
(***************************************************************************)
(* The actions.                                                            *)
(***************************************************************************)

\* A request that gets a lease in this step gets it within the limit and in turn.
InTurn ==
    \A l \in Request : refs[l] = 0 /\ refs'[l] > 0 =>
        /\ active' <= limit' /\ ~pressured'
        /\ \A w \in Range(waiters') :
             l \in Range(waiters) /\ Place(waiters, l) < Place(waiters, w)

\* What an action has to show for its next state.
Settled ==
    /\ limit' \in Limits /\ pressured' \in BOOLEAN
    /\ aborted' \in [Request -> BOOLEAN] /\ completed' \in [Request -> BOOLEAN]
    /\ hops' \in [Ticket -> Request \cup {NoLease}] /\ entered' \in [Ticket -> Nat]
    /\ phase' \in Phases
    /\ Sound(refs', stage', lease', work', childActive')
    /\ Queued(waiters', stage') /\ active' = Cardinality(Alive(refs'))
    /\ waiters' # <<>> => pressured' \/ active' >= limit'
    /\ \A t \in Ticket : /\ t \notin issued' => entered'[t] = 0 /\ hops'[t] = NoLease
                         /\ entered'[t] <= 1 /\ (entered'[t] = 1 => hops'[t] = NoLease)
                         /\ hops'[t] # NoLease => refs'[hops'[t]] > 0

LEMMA SettledKeeps == Settled => AIInv'
<1> SUFFICES ASSUME Settled PROVE AIInv' OBVIOUS
<1>1. Types' BY DEF Settled, Types
<1>2. Sound(refs, stage, lease, work, childActive)'
  BY DEF Settled, Sound, Typed, Fresh, JobsRun, Counted, OneChild, Guards, Workers, Children
<1>3. Queued(waiters, stage)' BY DEF Settled, Queued
<1>4. (active = Cardinality(Alive(refs)))' BY DEF Settled, Alive
<1>5. TicketsUsed' BY DEF Settled, TicketsUsed
<1>6. NoIdleSlot' BY DEF Settled, NoIdleSlot
<1> QED BY <1>1, <1>2, <1>3, <1>4, <1>5, <1>6 DEF AIInv

\* The parts of the invariant.
LEMMA Held ==
    AIInv =>
      /\ limit \in Limits /\ limit \in Nat /\ pressured \in BOOLEAN
      /\ aborted \in [Request -> BOOLEAN] /\ completed \in [Request -> BOOLEAN]
      /\ hops \in [Ticket -> Request \cup {NoLease}] /\ entered \in [Ticket -> Nat]
      /\ phase \in Phases
      /\ Sound(refs, stage, lease, work, childActive)
      /\ Queued(waiters, stage) /\ active = Cardinality(Alive(refs))
      /\ refs \in [Request -> Nat] /\ stage \in [Request -> Stages]
      /\ lease \in [Request -> Request] /\ work \in [Request -> Works]
      /\ childActive \in [Request -> BOOLEAN]
      /\ active \in Nat /\ waiters \in Seq(Request)
      /\ waiters # <<>> => pressured \/ active >= limit
      /\ \A t \in Ticket : /\ t \notin issued => entered[t] = 0 /\ hops[t] = NoLease
                           /\ entered[t] <= 1 /\ (entered[t] = 1 => hops[t] = NoLease)
                           /\ hops[t] # NoLease => refs[hops[t]] > 0
<1> SUFFICES ASSUME AIInv
             PROVE  /\ limit \in Limits /\ limit \in Nat /\ pressured \in BOOLEAN
                    /\ aborted \in [Request -> BOOLEAN] /\ completed \in [Request -> BOOLEAN]
                    /\ hops \in [Ticket -> Request \cup {NoLease}]
                    /\ entered \in [Ticket -> Nat] /\ phase \in Phases
                    /\ Sound(refs, stage, lease, work, childActive)
                    /\ Queued(waiters, stage) /\ active = Cardinality(Alive(refs))
                    /\ refs \in [Request -> Nat] /\ stage \in [Request -> Stages]
                    /\ lease \in [Request -> Request] /\ work \in [Request -> Works]
                    /\ childActive \in [Request -> BOOLEAN]
                    /\ active \in Nat /\ waiters \in Seq(Request)
                    /\ waiters # <<>> => pressured \/ active >= limit
                    /\ \A t \in Ticket :
                         /\ t \notin issued => entered[t] = 0 /\ hops[t] = NoLease
                         /\ entered[t] <= 1 /\ (entered[t] = 1 => hops[t] = NoLease)
                         /\ hops[t] # NoLease => refs[hops[t]] > 0
  OBVIOUS
<1>1. Types /\ Sound(refs, stage, lease, work, childActive) BY DEF AIInv
<1>2. Queued(waiters, stage) /\ active = Cardinality(Alive(refs)) /\ NoIdleSlot /\ TicketsUsed
  BY DEF AIInv
<1>3. Typed(refs, stage, lease, work, childActive) BY <1>1 DEF Sound
<1>4. /\ refs \in [Request -> Nat] /\ stage \in [Request -> Stages]
      /\ lease \in [Request -> Request] /\ work \in [Request -> Works]
      /\ childActive \in [Request -> BOOLEAN]
  BY <1>3 DEF Typed
<1>5. active \in Nat
  <2>1. Alive(refs) \in SUBSET Request BY DEF Alive
  <2> QED BY <2>1, <1>2, RequestsFinite
<1>6. waiters \in Seq(Request) BY <1>2 DEF Queued
<1>7. /\ limit \in Limits /\ limit \in Nat /\ pressured \in BOOLEAN
      /\ aborted \in [Request -> BOOLEAN] /\ completed \in [Request -> BOOLEAN]
      /\ hops \in [Ticket -> Request \cup {NoLease}] /\ entered \in [Ticket -> Nat]
      /\ phase \in Phases
  <2>1. Limits \subseteq Nat \ {0} BY AIAssumption, Zenon
  <2> QED BY <2>1, <1>1 DEF Types
<1>8. waiters # <<>> => pressured \/ active >= limit BY <1>2 DEF NoIdleSlot
<1>9. \A t \in Ticket : /\ t \notin issued => entered[t] = 0 /\ hops[t] = NoLease
                        /\ entered[t] <= 1 /\ (entered[t] = 1 => hops[t] = NoLease)
                        /\ hops[t] # NoLease => refs[hops[t]] > 0
  BY <1>2 DEF TicketsUsed
<1> QED BY <1>1, <1>2, <1>4, <1>5, <1>6, <1>7, <1>8, <1>9

\* A reference that is given up.
LEMMA Released ==
    ASSUME AIInv, NEW l \in Request, NEW st, refs[l] > 0,
           Sound([refs EXCEPT ![l] = @ - 1], st, lease', work', childActive'),
           Queued(waiters, st), ReleaseRef(l, st),
           aborted' \in [Request -> BOOLEAN], completed' \in [Request -> BOOLEAN],
           UNCHANGED <<limit, pressured, issued, entered, phase>>
    PROVE  Settled /\ InTurn
<1>1. /\ refs \in [Request -> Nat] /\ limit \in Limits /\ pressured \in BOOLEAN
      /\ entered \in [Ticket -> Nat] /\ phase \in Phases
      /\ active = Cardinality(Alive(refs))
      /\ \A t \in Ticket : /\ t \notin issued => entered[t] = 0 /\ hops[t] = NoLease
                           /\ entered[t] <= 1 /\ (entered[t] = 1 => hops[t] = NoLease)
  BY Held
<1>2. Types /\ TicketsUsed /\ NoIdleSlot BY DEF AIInv
<1>3. /\ Sound(refs', stage', lease', work', childActive')
      /\ Queued(waiters', stage')
      /\ active' = Cardinality(Alive(refs'))
      /\ waiters' # <<>> => pressured \/ active' >= limit
      /\ \A x \in Request : refs[x] = 0 /\ refs'[x] > 0 =>
           /\ active' <= limit /\ ~pressured
           /\ \A w \in Range(waiters') :
                x \in Range(waiters) /\ Place(waiters, x) < Place(waiters, w)
      /\ hops' \in [Ticket -> Request \cup {NoLease}]
      /\ \A t \in Ticket : hops'[t] = hops[t] \/ hops'[t] = NoLease
      /\ \A t \in Ticket : hops'[t] # NoLease => refs'[hops'[t]] > 0
  BY <1>1, <1>2, ReleaseSound
<1>4. /\ limit' = limit /\ pressured' = pressured /\ issued' = issued /\ entered' = entered
      /\ phase' = phase
  OBVIOUS
<1>5. \A t \in Ticket : /\ t \notin issued' => entered'[t] = 0 /\ hops'[t] = NoLease
                        /\ entered'[t] <= 1 /\ (entered'[t] = 1 => hops'[t] = NoLease)
                        /\ hops'[t] # NoLease => refs'[hops'[t]] > 0
  BY <1>1, <1>3, <1>4
<1>6. InTurn BY <1>3, <1>4 DEF InTurn
<1>7. Settled BY <1>1, <1>3, <1>4, <1>5 DEF Settled
<1> QED BY <1>6, <1>7

\* A step that gives no lease and gives none back.
LEMMA Kept ==
    ASSUME AIInv, UNCHANGED <<limit, pressured, active>>, phase' \in Phases,
           aborted' \in [Request -> BOOLEAN], completed' \in [Request -> BOOLEAN],
           Sound(refs', stage', lease', work', childActive'), Queued(waiters', stage'),
           \A x \in Request : refs'[x] > 0 <=> refs[x] > 0,
           waiters' # <<>> => pressured \/ active >= limit,
           hops' \in [Ticket -> Request \cup {NoLease}], entered' \in [Ticket -> Nat],
           \A t \in Ticket : /\ t \notin issued' => entered'[t] = 0 /\ hops'[t] = NoLease
                             /\ entered'[t] <= 1 /\ (entered'[t] = 1 => hops'[t] = NoLease)
                             /\ hops'[t] # NoLease => refs[hops'[t]] > 0
    PROVE  Settled /\ InTurn
<1>1. /\ refs \in [Request -> Nat] /\ limit \in Limits /\ pressured \in BOOLEAN
      /\ active = Cardinality(Alive(refs))
  BY Held
<1>2. limit' = limit /\ pressured' = pressured /\ active' = active OBVIOUS
<1>3. Alive(refs') = Alive(refs) BY DEF Alive
<1>4. InTurn
  <2>1. \A x \in Request : ~(refs[x] = 0 /\ refs'[x] > 0)
    <3> TAKE x \in Request
    <3>1. refs[x] \in Nat BY <1>1
    <3> QED BY <3>1
  <2> QED BY <2>1 DEF InTurn
<1>5. active' = Cardinality(Alive(refs')) BY <1>1, <1>2, <1>3
<1>6. waiters' # <<>> => pressured' \/ active' >= limit' BY <1>2
<1>7. ASSUME NEW t \in Ticket, hops'[t] # NoLease PROVE refs'[hops'[t]] > 0
  <2>1. hops'[t] \in Request BY <1>7
  <2> QED BY <2>1, <1>7
<1>8. \A t \in Ticket : /\ t \notin issued' => entered'[t] = 0 /\ hops'[t] = NoLease
                        /\ entered'[t] <= 1 /\ (entered'[t] = 1 => hops'[t] = NoLease)
                        /\ hops'[t] # NoLease => refs'[hops'[t]] > 0
  BY <1>7
<1>9. limit' \in Limits /\ pressured' \in BOOLEAN BY <1>1, <1>2
<1>10. Settled BY <1>5, <1>6, <1>8, <1>9 DEF Settled
<1> QED BY <1>4, <1>10

LEMMA InTurnOnUnchanged == AIInv /\ refs' = refs => InTurn
<1> SUFFICES ASSUME AIInv, refs' = refs PROVE InTurn OBVIOUS
<1>1. refs \in [Request -> Nat] BY Held
<1>2. \A x \in Request : ~(refs[x] = 0 /\ refs'[x] > 0)
  <2> TAKE x \in Request
  <2>1. refs[x] \in Nat BY <1>1
  <2> QED BY <2>1
<1> QED BY <1>2 DEF InTurn

\* A guard that gives its lease up.
LEMMA GuardReleased ==
    ASSUME AIInv, NEW r \in Request, NEW s \in {"refused", "over"},
           stage[r] \in {"granted", "running"}, r \notin Job,
           ReleaseGuard(r, [stage EXCEPT ![r] = s]),
           aborted' \in [Request -> BOOLEAN], completed' \in [Request -> BOOLEAN],
           UNCHANGED <<limit, pressured, issued, entered, lease, work, phase>>
    PROVE  Settled /\ InTurn
<1> DEFINE held2 == Fewer(refs, lease[r])
           st2 == Put(stage, r, s)
           ca2 == Cleared(childActive, lease, r)
<1>1. /\ refs \in [Request -> Nat] /\ stage \in [Request -> Stages]
      /\ lease \in [Request -> Request]
      /\ Sound(refs, stage, lease, work, childActive) /\ Queued(waiters, stage)
  BY Held
<1>2. lease[r] \in Request BY <1>1
<1>3. /\ refs[lease[r]] > 0
      /\ Sound(held2, st2, lease, work, ca2)
  <2>1. Sound(refs, stage, lease, work, childActive) BY <1>1
  <2>2. r \in Job => s = "over" OBVIOUS
  <2> QED BY <2>1, <2>2, GuardLeaves
<1>4. childActive' = ca2 BY DEF ReleaseGuard, ChildAfter, ByHop, Cleared
<1>5. lease' = lease /\ work' = work OBVIOUS
<1>6. Queued(waiters, st2)
  <2>1. \A x \in Request : st2[x] = "waiting" <=> stage[x] = "waiting" BY <1>1 DEF Put
  <2> QED BY <2>1, <1>1, QueueKept
<1>7. ReleaseRef(lease[r], st2) BY DEF ReleaseGuard, Put
<1> HIDE DEF st2, ca2
<1>8. Sound(held2, st2, lease', work', childActive')
  <2> HIDE DEF held2
  <2> QED BY <1>3, <1>4, <1>5
<1>9. UNCHANGED <<limit, pressured, issued, entered, phase>> OBVIOUS
<1>10. Sound([refs EXCEPT ![lease[r]] = @ - 1], st2, lease', work', childActive')
  BY <1>8 DEF held2, Fewer
<1> QED BY <1>2, <1>3, <1>6, <1>7, <1>9, <1>10, Released

\* The continuation of a background job's guard does not exist.
LEMMA JobStages ==
    AIInv => \A r \in Job : /\ r \in Request /\ lease[r] = r
                            /\ stage[r] \in {"new", "running", "over"}
                            /\ stage[r] # "new" => work[r] # "none"
<1> SUFFICES ASSUME AIInv, NEW r \in Job
             PROVE  /\ r \in Request /\ lease[r] = r
                    /\ stage[r] \in {"new", "running", "over"}
                    /\ stage[r] # "new" => work[r] # "none"
  OBVIOUS
<1>1. JobsRun(stage, lease, work) BY DEF AIInv, Sound
<1>2. r \in Request BY AIAssumption
<1> QED BY <1>1, <1>2 DEF JobsRun

LEMMA ContinueSettles == \A r \in Request : AIInv /\ Continue(r) => Settled /\ InTurn
<1> SUFFICES ASSUME NEW r \in Request, AIInv, Continue(r) PROVE Settled /\ InTurn OBVIOUS
<1>1. /\ stage \in [Request -> Stages] /\ refs \in [Request -> Nat]
      /\ aborted \in [Request -> BOOLEAN] /\ completed \in [Request -> BOOLEAN]
      /\ hops \in [Ticket -> Request \cup {NoLease}] /\ entered \in [Ticket -> Nat]
      /\ phase \in Phases
      /\ Sound(refs, stage, lease, work, childActive) /\ Queued(waiters, stage)
      /\ waiters # <<>> => pressured \/ active >= limit
      /\ \A t \in Ticket : /\ t \notin issued => entered[t] = 0 /\ hops[t] = NoLease
                           /\ entered[t] <= 1 /\ (entered[t] = 1 => hops[t] = NoLease)
                           /\ hops[t] # NoLease => refs[hops[t]] > 0
  BY Held
<1>2. /\ stage[r] = "granted"
      /\ UNCHANGED <<limit, pressured, aborted, issued, entered, completed, lease, work, phase>>
  BY DEF Continue
<1>3. r \notin Job BY <1>2, JobStages
<1>4. aborted' \in [Request -> BOOLEAN] /\ completed' \in [Request -> BOOLEAN] BY <1>1, <1>2
<1>5. CASE completed[r]
  <2>1. ReleaseGuard(r, [stage EXCEPT ![r] = "refused"]) BY <1>5 DEF Continue
  <2>2. UNCHANGED <<limit, pressured, issued, entered, lease, work, phase>> BY <1>2
  <2> QED BY <2>1, <2>2, <1>2, <1>3, <1>4, GuardReleased
<1>6. CASE ~completed[r]
  <2> DEFINE st2 == [stage EXCEPT ![r] = "running"]
  <2>1. stage' = st2 /\ UNCHANGED <<active, waiters, refs, hops, childActive>>
    BY <1>6 DEF Continue
  <2>2. st2 \in [Request -> Stages] BY <1>1 DEF Stages
  <2>3. \A x \in Request : st2[x] = IF x = r THEN "running" ELSE stage[x] BY <1>1
  <2> HIDE DEF st2
  <2>4. Sound(refs, st2, lease, work, childActive)
    <3>1. \A x \in Request : \/ st2[x] = stage[x]
                             \/ stage[x] = "granted" /\ st2[x] = "running"
      BY <2>3, <1>2
    <3> QED BY <3>1, <2>2, <1>1, StageMoves
  <2>5. Queued(waiters, st2)
    <3>1. \A x \in Request : st2[x] = "waiting" <=> stage[x] = "waiting" BY <2>3, <1>2
    <3> QED BY <3>1, <1>1, QueueKept
  <2>6. Sound(refs', stage', lease', work', childActive') BY <2>1, <2>4, <1>2
  <2>7. Queued(waiters', stage') BY <2>1, <2>5
  <2>8. UNCHANGED <<limit, pressured, active>> BY <2>1, <1>2
  <2>9. \A x \in Request : refs'[x] > 0 <=> refs[x] > 0 BY <2>1
  <2>10. waiters' # <<>> => pressured \/ active >= limit BY <2>1, <1>1
  <2>11. /\ hops' \in [Ticket -> Request \cup {NoLease}] /\ entered' \in [Ticket -> Nat]
         /\ phase' \in Phases
    BY <2>1, <1>1, <1>2
  <2>12. \A t \in Ticket : /\ t \notin issued' => entered'[t] = 0 /\ hops'[t] = NoLease
                           /\ entered'[t] <= 1 /\ (entered'[t] = 1 => hops'[t] = NoLease)
                           /\ hops'[t] # NoLease => refs[hops'[t]] > 0
    BY <2>1, <1>1, <1>2
  <2> QED BY <2>6, <2>7, <2>8, <2>9, <2>10, <2>11, <2>12, <1>4, Kept
<1> QED BY <1>5, <1>6

\* A waiter whose promise is rejected.
LEMMA LeaveSettles ==
    ASSUME AIInv, NEW r \in Request, LeaveQueue(r),
           UNCHANGED <<limit, pressured, active, refs, aborted, tickets, lease, work, phase>>
    PROVE  Settled /\ InTurn
<1> DEFINE st2 == [stage EXCEPT ![r] = "refused"]
<1>1. /\ stage \in [Request -> Stages] /\ refs \in [Request -> Nat]
      /\ aborted \in [Request -> BOOLEAN] /\ completed \in [Request -> BOOLEAN]
      /\ hops \in [Ticket -> Request \cup {NoLease}] /\ entered \in [Ticket -> Nat]
      /\ phase \in Phases
      /\ Sound(refs, stage, lease, work, childActive) /\ Queued(waiters, stage)
      /\ waiters # <<>> => pressured \/ active >= limit
      /\ \A t \in Ticket : /\ t \notin issued => entered[t] = 0 /\ hops[t] = NoLease
                           /\ entered[t] <= 1 /\ (entered[t] = 1 => hops[t] = NoLease)
                           /\ hops[t] # NoLease => refs[hops[t]] > 0
  BY Held
<1>2. /\ stage[r] = "waiting" /\ waiters' = RemoveFirst(waiters, r) /\ stage' = st2
      /\ completed' = [completed EXCEPT ![r] = TRUE]
  BY DEF LeaveQueue
<1>3. /\ UNCHANGED <<limit, pressured, active>> /\ refs' = refs /\ aborted' = aborted
      /\ hops' = hops /\ issued' = issued /\ entered' = entered /\ childActive' = childActive
      /\ lease' = lease /\ work' = work /\ phase' = phase
  BY DEF tickets
<1>4. r \notin Job BY <1>2, JobStages
<1>5. st2 \in [Request -> Stages] BY <1>1 DEF Stages
<1>6. \A x \in Request : st2[x] = IF x = r THEN "refused" ELSE stage[x] BY <1>1
<1>7. Queued(RemoveFirst(waiters, r), st2) BY <1>1, <1>2, QueueLeft
<1> HIDE DEF st2
<1>8. Sound(refs, st2, lease, work, childActive)
  <2>1. \A x \in Request : \/ st2[x] = stage[x]
                           \/ /\ stage[x] \in {"new", "waiting"} /\ x \notin Job
                              /\ st2[x] \in {"waiting", "refused"}
    BY <1>2, <1>4, <1>6
  <2> QED BY <2>1, <1>1, <1>5, StageMoves
<1>9. waiters # <<>>
  <2>1. PICK i \in 1 .. Len(waiters) : waiters[i] = r BY <1>1, <1>2 DEF Queued
  <2> QED BY <2>1
<1>10. Sound(refs', stage', lease', work', childActive') BY <1>2, <1>3, <1>8
<1>11. Queued(waiters', stage') BY <1>2, <1>7
<1>12. aborted' \in [Request -> BOOLEAN] /\ completed' \in [Request -> BOOLEAN]
  BY <1>1, <1>2, <1>3
<1>13. /\ hops' \in [Ticket -> Request \cup {NoLease}] /\ entered' \in [Ticket -> Nat]
       /\ phase' \in Phases
  BY <1>1, <1>3
<1>14. \A x \in Request : refs'[x] > 0 <=> refs[x] > 0 BY <1>3
<1>15. waiters' # <<>> => pressured \/ active >= limit BY <1>1, <1>9
<1>16. \A t \in Ticket : /\ t \notin issued' => entered'[t] = 0 /\ hops'[t] = NoLease
                         /\ entered'[t] <= 1 /\ (entered'[t] = 1 => hops'[t] = NoLease)
                         /\ hops'[t] # NoLease => refs[hops'[t]] > 0
  BY <1>1, <1>3
<1> QED BY <1>3, <1>10, <1>11, <1>12, <1>13, <1>14, <1>15, <1>16, Kept

LEMMA ExpireSettles == \A r \in Request : AIInv /\ Expire(r) => Settled /\ InTurn
<1> SUFFICES ASSUME NEW r \in Request, AIInv, Expire(r) PROVE Settled /\ InTurn OBVIOUS
<1>1. /\ LeaveQueue(r)
      /\ UNCHANGED <<limit, pressured, active, refs, aborted, tickets, lease, work, phase>>
  BY DEF Expire
<1> QED BY <1>1, LeaveSettles

LEMMA FinishSettles == \A r \in Request : AIInv /\ Finish(r) => Settled /\ InTurn
<1> SUFFICES ASSUME NEW r \in Request, AIInv, Finish(r) PROVE Settled /\ InTurn OBVIOUS
<1>1. /\ stage[r] \in {"granted", "running"} /\ r \notin Job
      /\ ReleaseGuard(r, [stage EXCEPT ![r] = "over"])
      /\ completed' = [completed EXCEPT ![r] = TRUE] /\ aborted' = aborted
      /\ UNCHANGED <<limit, pressured, issued, entered, lease, work, phase>>
  BY DEF Finish
<1>2. completed \in [Request -> BOOLEAN] /\ aborted \in [Request -> BOOLEAN] BY Held
<1>3. completed' \in [Request -> BOOLEAN] /\ aborted' \in [Request -> BOOLEAN] BY <1>1, <1>2
<1>4. "over" \in {"refused", "over"} OBVIOUS
<1> QED BY <1>1, <1>3, <1>4, GuardReleased

LEMMA AbortSettles == \A r \in Request : AIInv /\ Abort(r) => Settled /\ InTurn
<1> SUFFICES ASSUME NEW r \in Request, AIInv, Abort(r) PROVE Settled /\ InTurn OBVIOUS
<1>1. /\ aborted \in [Request -> BOOLEAN] /\ completed \in [Request -> BOOLEAN]
      /\ lease \in [Request -> Request]
  BY Held
<1>2. r \notin Job /\ UNCHANGED <<limit, pressured, issued, entered, lease, work, phase>>
  BY DEF Abort
<1>3. CASE LeaveQueue(r) /\ UNCHANGED <<active, refs, aborted, hops, childActive>>
  <2>1. UNCHANGED <<limit, pressured, active, refs, aborted, tickets, lease, work, phase>>
    BY <1>2, <1>3 DEF tickets
  <2> QED BY <2>1, <1>3, LeaveSettles
<1>4. CASE /\ stage[r] = "granted" /\ completed' = [completed EXCEPT ![r] = TRUE]
           /\ UNCHANGED <<active, waiters, refs, aborted, hops, childActive, stage>>
  <2>1. completed' \in [Request -> BOOLEAN] /\ aborted' \in [Request -> BOOLEAN] BY <1>1, <1>4
  <2>2. /\ active' = active /\ waiters' = waiters /\ refs' = refs /\ hops' = hops
        /\ childActive' = childActive /\ stage' = stage /\ limit' = limit
        /\ pressured' = pressured /\ issued' = issued /\ entered' = entered
        /\ lease' = lease /\ work' = work /\ phase' = phase
    BY <1>2, <1>4
  <2>3. /\ hops \in [Ticket -> Request \cup {NoLease}] /\ entered \in [Ticket -> Nat]
        /\ phase \in Phases
        /\ Sound(refs, stage, lease, work, childActive) /\ Queued(waiters, stage)
        /\ waiters # <<>> => pressured \/ active >= limit
        /\ \A t \in Ticket : /\ t \notin issued => entered[t] = 0 /\ hops[t] = NoLease
                             /\ entered[t] <= 1 /\ (entered[t] = 1 => hops[t] = NoLease)
                             /\ hops[t] # NoLease => refs[hops[t]] > 0
    BY Held
  <2>4. UNCHANGED <<limit, pressured, active>> BY <2>2
  <2>5. /\ hops' \in [Ticket -> Request \cup {NoLease}] /\ entered' \in [Ticket -> Nat]
        /\ phase' \in Phases
    BY <2>2, <2>3
  <2>6. Sound(refs', stage', lease', work', childActive') /\ Queued(waiters', stage')
    BY <2>2, <2>3
  <2>7. waiters' # <<>> => pressured \/ active >= limit BY <2>2, <2>3
  <2>8. \A t \in Ticket : /\ t \notin issued' => entered'[t] = 0 /\ hops'[t] = NoLease
                          /\ entered'[t] <= 1 /\ (entered'[t] = 1 => hops'[t] = NoLease)
                          /\ hops'[t] # NoLease => refs[hops'[t]] > 0
    BY <2>2, <2>3
  <2>9. \A x \in Request : refs'[x] > 0 <=> refs[x] > 0 BY <2>2
  <2> QED BY <2>1, <2>4, <2>5, <2>6, <2>7, <2>8, <2>9, Kept
<1>5. CASE /\ stage[r] = "running" /\ completed' = [completed EXCEPT ![r] = TRUE]
           /\ aborted' = [aborted EXCEPT ![lease[r]] = TRUE]
           /\ ReleaseGuard(r, [stage EXCEPT ![r] = "over"])
  <2>1. completed' \in [Request -> BOOLEAN] BY <1>1, <1>5
  <2>2. aborted' \in [Request -> BOOLEAN] BY <1>1, <1>5
  <2>3. "over" \in {"refused", "over"} /\ stage[r] \in {"granted", "running"} BY <1>5
  <2>4. ReleaseGuard(r, [stage EXCEPT ![r] = "over"]) BY <1>5
  <2> QED BY <2>1, <2>2, <2>3, <2>4, <1>2, GuardReleased
<1> QED BY <1>3, <1>4, <1>5 DEF Abort

LEMMA BeginWorkSettles == \A r \in Request : AIInv /\ BeginWork(r) => Settled /\ InTurn
<1> SUFFICES ASSUME NEW r \in Request, AIInv, BeginWork(r) PROVE Settled /\ InTurn OBVIOUS
<1>1. /\ aborted \in [Request -> BOOLEAN] /\ completed \in [Request -> BOOLEAN]
      /\ refs \in [Request -> Nat] /\ lease \in [Request -> Request]
      /\ work \in [Request -> Works]
      /\ hops \in [Ticket -> Request \cup {NoLease}] /\ entered \in [Ticket -> Nat]
      /\ phase \in Phases
      /\ Sound(refs, stage, lease, work, childActive) /\ Queued(waiters, stage)
      /\ waiters # <<>> => pressured \/ active >= limit
      /\ \A t \in Ticket : /\ t \notin issued => entered[t] = 0 /\ hops[t] = NoLease
                           /\ entered[t] <= 1 /\ (entered[t] = 1 => hops[t] = NoLease)
                           /\ hops[t] # NoLease => refs[hops[t]] > 0
  BY Held
<1>2. stage[r] \in {"running", "over"} /\ work[r] = "none" BY DEF BeginWork
<1>3. /\ limit' = limit /\ pressured' = pressured /\ active' = active /\ waiters' = waiters
      /\ aborted' = aborted /\ hops' = hops /\ issued' = issued /\ entered' = entered
      /\ childActive' = childActive /\ stage' = stage /\ completed' = completed
      /\ lease' = lease /\ phase' = phase
  BY DEF BeginWork, queue, tickets, guard
<1>4. /\ Sound(More(refs, lease[r]), stage, lease, Put(work, r, "working"), childActive)
      /\ Sound(refs, stage, lease, Put(work, r, "over"), childActive)
  BY <1>1, <1>2, WorkEnters
<1>5. /\ Sound(refs', stage', lease', work', childActive')
      /\ \A x \in Request : refs'[x] > 0 <=> refs[x] > 0
  <2>1. CASE Usable(lease[r])
    <3>1. refs' = More(refs, lease[r]) /\ work' = Put(work, r, "working")
      BY <2>1 DEF BeginWork, Retained, More, Put
    <3>2. lease[r] \in Request /\ refs[lease[r]] > 0 BY <2>1, <1>1 DEF Usable, Live
    <3>3. \A x \in Request : refs'[x] = IF x = lease[r] THEN refs[x] + 1 ELSE refs[x]
      BY <3>1, <1>1 DEF More
    <3>4. ASSUME NEW x \in Request PROVE refs'[x] > 0 <=> refs[x] > 0
      <4>1. refs[x] \in Nat BY <1>1
      <4> QED BY <4>1, <3>2, <3>3
    <3> QED BY <3>1, <3>4, <1>3, <1>4
  <2>2. CASE ~Usable(lease[r])
    <3>1. refs' = refs /\ work' = Put(work, r, "over") BY <2>2 DEF BeginWork, Put
    <3> QED BY <3>1, <1>3, <1>4
  <2> QED BY <2>1, <2>2
<1>6. UNCHANGED <<limit, pressured, active>> BY <1>3
<1>7. /\ hops' \in [Ticket -> Request \cup {NoLease}] /\ entered' \in [Ticket -> Nat]
      /\ phase' \in Phases /\ aborted' \in [Request -> BOOLEAN]
      /\ completed' \in [Request -> BOOLEAN]
  BY <1>1, <1>3
<1>8. Queued(waiters', stage') BY <1>1, <1>3
<1>9. waiters' # <<>> => pressured \/ active >= limit BY <1>1, <1>3
<1>10. \A t \in Ticket : /\ t \notin issued' => entered'[t] = 0 /\ hops'[t] = NoLease
                         /\ entered'[t] <= 1 /\ (entered'[t] = 1 => hops'[t] = NoLease)
                         /\ hops'[t] # NoLease => refs[hops'[t]] > 0
  BY <1>1, <1>3
<1> QED BY <1>5, <1>6, <1>7, <1>8, <1>9, <1>10, Kept

LEMMA EndWorkSettles == \A r \in Request : AIInv /\ EndWork(r) => Settled /\ InTurn
<1> SUFFICES ASSUME NEW r \in Request, AIInv, EndWork(r) PROVE Settled /\ InTurn OBVIOUS
<1>1. /\ aborted \in [Request -> BOOLEAN] /\ completed \in [Request -> BOOLEAN]
      /\ lease \in [Request -> Request]
      /\ Sound(refs, stage, lease, work, childActive) /\ Queued(waiters, stage)
  BY Held
<1>2. /\ work[r] = "working" /\ r \in Request \ Job /\ work' = Put(work, r, "over")
      /\ ReleaseRef(lease[r], stage)
      /\ UNCHANGED <<limit, pressured, issued, entered, phase>>
      /\ aborted' = aborted /\ completed' = completed /\ childActive' = childActive
      /\ lease' = lease
  BY DEF EndWork, Put
<1>3. /\ refs[lease[r]] > 0
      /\ Sound(Fewer(refs, lease[r]), stage, lease, Put(work, r, "over"), childActive)
  BY <1>1, <1>2, WorkLeaves
<1>4. Sound(Fewer(refs, lease[r]), stage, lease', work', childActive') BY <1>2, <1>3
<1>5. Sound([refs EXCEPT ![lease[r]] = @ - 1], stage, lease', work', childActive')
  BY <1>4 DEF Fewer
<1>6. aborted' \in [Request -> BOOLEAN] /\ completed' \in [Request -> BOOLEAN] BY <1>1, <1>2
<1>7. lease[r] \in Request BY <1>1
<1> QED BY <1>1, <1>2, <1>3, <1>5, <1>6, <1>7, Released

LEMMA EndJobSettles == \A r \in Request : AIInv /\ EndJob(r) => Settled /\ InTurn
<1> SUFFICES ASSUME NEW r \in Request, AIInv, EndJob(r) PROVE Settled /\ InTurn OBVIOUS
<1> DEFINE st2 == Put(stage, r, "over")
           held2 == Fewer(refs, r)
<1>1. /\ aborted \in [Request -> BOOLEAN] /\ completed \in [Request -> BOOLEAN]
      /\ stage \in [Request -> Stages] /\ childActive \in [Request -> BOOLEAN]
      /\ Sound(refs, stage, lease, work, childActive) /\ Queued(waiters, stage)
  BY Held
<1>2. /\ r \in Job /\ stage[r] = "running" /\ work' = Put(work, r, "over")
      /\ ReleaseRef(r, st2)
      /\ completed' = [completed EXCEPT ![r] = TRUE]
      /\ UNCHANGED <<limit, pressured, issued, entered, phase>>
      /\ aborted' = aborted /\ childActive' = childActive /\ lease' = lease
  BY DEF EndJob, Put
<1>3. lease[r] = r BY <1>2, JobStages
<1>4. /\ refs[lease[r]] > 0
      /\ Sound(Fewer(refs, lease[r]), st2, lease, work, Cleared(childActive, lease, r))
  <2>1. "over" \in {"refused", "over"} /\ stage[r] \in {"granted", "running"} BY <1>2
  <2>2. r \in Job => "over" = "over" OBVIOUS
  <2> QED BY <2>1, <2>2, <1>1, GuardLeaves
<1>5. Cleared(childActive, lease, r) = childActive BY <1>3 DEF Cleared
<1>6. refs[r] > 0 /\ Sound(held2, st2, lease, work, childActive) BY <1>3, <1>4, <1>5
<1>7. st2[r] # "new" BY <1>1 DEF Put
<1>8. Queued(waiters, st2)
  <2>1. \A x \in Request : st2[x] = "waiting" <=> stage[x] = "waiting" BY <1>1, <1>2 DEF Put
  <2> QED BY <2>1, <1>1, QueueKept
<1>9. completed' \in [Request -> BOOLEAN] /\ aborted' \in [Request -> BOOLEAN] BY <1>1, <1>2
<1> HIDE DEF st2, held2
<1>10. Sound(held2, st2, lease, Put(work, r, "over"), childActive)
  BY <1>2, <1>6, <1>7, JobWork
<1>11. Sound(held2, st2, lease', work', childActive') BY <1>2, <1>10
<1>12. Sound([refs EXCEPT ![r] = @ - 1], st2, lease', work', childActive')
  BY <1>11 DEF held2, Fewer
<1> QED BY <1>2, <1>6, <1>8, <1>9, <1>12, Released

LEMMA IssueTicketSettles ==
    \A r \in Request : \A t \in Ticket : AIInv /\ IssueTicket(r, t) => Settled /\ InTurn
<1> SUFFICES ASSUME NEW r \in Request, NEW t \in Ticket, AIInv, IssueTicket(r, t)
             PROVE  Settled /\ InTurn
  OBVIOUS
<1>1. /\ aborted \in [Request -> BOOLEAN] /\ completed \in [Request -> BOOLEAN]
      /\ refs \in [Request -> Nat] /\ lease \in [Request -> Request]
      /\ hops \in [Ticket -> Request \cup {NoLease}] /\ entered \in [Ticket -> Nat]
      /\ phase \in Phases
      /\ Sound(refs, stage, lease, work, childActive) /\ Queued(waiters, stage)
      /\ waiters # <<>> => pressured \/ active >= limit
      /\ \A u \in Ticket : /\ u \notin issued => entered[u] = 0 /\ hops[u] = NoLease
                           /\ entered[u] <= 1 /\ (entered[u] = 1 => hops[u] = NoLease)
                           /\ hops[u] # NoLease => refs[hops[u]] > 0
  BY Held
<1>2. /\ limit' = limit /\ pressured' = pressured /\ active' = active /\ waiters' = waiters
      /\ refs' = refs /\ aborted' = aborted /\ entered' = entered
      /\ childActive' = childActive /\ stage' = stage /\ completed' = completed
      /\ lease' = lease /\ work' = work /\ phase' = phase
  BY DEF IssueTicket, queue, guard
<1>3. /\ t \notin issued /\ refs[lease[r]] > 0 /\ issued' = issued \cup {t}
      /\ hops' = [WithoutTickets(lease[r]) EXCEPT ![t] = lease[r]]
  BY DEF IssueTicket, Usable, Live
<1>4. lease[r] \in Request BY <1>1
<1>5. WithoutTickets(lease[r]) \in [Ticket -> Request \cup {NoLease}]
  BY <1>1 DEF WithoutTickets
<1>6. hops' \in [Ticket -> Request \cup {NoLease}] BY <1>3, <1>4, <1>5
<1>7. \A u \in Ticket : hops'[u] = IF u = t THEN lease[r]
                                   ELSE IF hops[u] = lease[r] THEN NoLease ELSE hops[u]
  BY <1>3, <1>5 DEF WithoutTickets
<1>8. ASSUME NEW u \in Ticket
      PROVE  /\ u \notin issued' => entered'[u] = 0 /\ hops'[u] = NoLease
             /\ entered'[u] <= 1 /\ (entered'[u] = 1 => hops'[u] = NoLease)
             /\ hops'[u] # NoLease => refs[hops'[u]] > 0
  <2>1. /\ u \notin issued => entered[u] = 0 /\ hops[u] = NoLease
        /\ entered[u] <= 1 /\ (entered[u] = 1 => hops[u] = NoLease)
        /\ hops[u] # NoLease => refs[hops[u]] > 0
    BY <1>1
  <2>2. CASE u = t
    <3>1. entered'[u] = 0 /\ u \in issued' /\ hops'[u] = lease[r]
      BY <2>1, <2>2, <1>2, <1>3, <1>7
    <3> QED BY <3>1, <1>3
  <2>3. CASE u # t
    <3>1. hops'[u] = NoLease \/ hops'[u] = hops[u] BY <2>3, <1>7
    <3>2. u \notin issued' => u \notin issued BY <1>3
    <3> QED BY <3>1, <3>2, <2>1, <1>2
  <2> QED BY <2>2, <2>3
<1>9. Sound(refs', stage', lease', work', childActive') /\ Queued(waiters', stage')
  BY <1>1, <1>2
<1>10. /\ entered' \in [Ticket -> Nat] /\ phase' \in Phases
       /\ aborted' \in [Request -> BOOLEAN] /\ completed' \in [Request -> BOOLEAN]
       /\ UNCHANGED <<limit, pressured, active>>
       /\ \A x \in Request : refs'[x] > 0 <=> refs[x] > 0
  BY <1>1, <1>2
<1>11. waiters' # <<>> => pressured \/ active >= limit BY <1>1, <1>2
<1> QED BY <1>6, <1>8, <1>9, <1>10, <1>11, Kept

LEMMA ArriveByHopSettles ==
    \A r \in Request : \A t \in Ticket : AIInv /\ ArriveByHop(r, t) => Settled /\ InTurn
<1> SUFFICES ASSUME NEW r \in Request, NEW t \in Ticket, AIInv, ArriveByHop(r, t)
             PROVE  Settled /\ InTurn
  OBVIOUS
<1> DEFINE h == hops[t]
<1>1. /\ aborted \in [Request -> BOOLEAN] /\ completed \in [Request -> BOOLEAN]
      /\ refs \in [Request -> Nat] /\ lease \in [Request -> Request]
      /\ stage \in [Request -> Stages] /\ work \in [Request -> Works]
      /\ hops \in [Ticket -> Request \cup {NoLease}] /\ entered \in [Ticket -> Nat]
      /\ phase \in Phases
      /\ Sound(refs, stage, lease, work, childActive) /\ Queued(waiters, stage)
      /\ waiters # <<>> => pressured \/ active >= limit
      /\ \A u \in Ticket : /\ u \notin issued => entered[u] = 0 /\ hops[u] = NoLease
                           /\ entered[u] <= 1 /\ (entered[u] = 1 => hops[u] = NoLease)
                           /\ hops[u] # NoLease => refs[hops[u]] > 0
  BY Held
<1>2. /\ stage[r] = "new" /\ r \notin Job /\ h # NoLease /\ refs[h] > 0 /\ ~childActive[h]
      /\ lease' = Put(lease, r, h) /\ hops' = [hops EXCEPT ![t] = NoLease]
      /\ entered' = [entered EXCEPT ![t] = @ + 1]
      /\ childActive' = [childActive EXCEPT ![h] = TRUE]
      /\ refs' = More(refs, h) /\ stage' = Put(stage, r, "granted")
  BY DEF ArriveByHop, Consumable, Usable, Live, TakeTicket, Put, More
<1>3. /\ limit' = limit /\ pressured' = pressured /\ active' = active /\ waiters' = waiters
      /\ aborted' = aborted /\ issued' = issued /\ completed' = completed
      /\ work' = work /\ phase' = phase
  BY DEF ArriveByHop, queue
<1>4. h \in Request BY <1>1, <1>2
<1> HIDE DEF h
<1>5. refs[r] = 0 BY <1>1, <1>2, Unused
<1>6. h # r BY <1>2, <1>5
<1>7. childActive' = Served(childActive, h, r) BY <1>2, <1>6 DEF Served
<1>8. Sound(More(refs, h), Put(stage, r, "granted"), Put(lease, r, h), work, Served(childActive, h, r))
  <2>1. "granted" \in {"granted", "running"} OBVIOUS
  <2>2. h # r => refs[h] > 0 /\ ~childActive[h] /\ r \notin Job BY <1>2
  <2>3. \A x \in Request : x # r => work[x] = work[x] OBVIOUS
  <2>4. IF r \in Job THEN work[r] # "none" /\ "granted" = "running" ELSE work[r] = work[r]
    BY <1>2
  <2> QED BY <2>1, <2>2, <2>3, <2>4, <1>1, <1>2, <1>4, GuardEnters
<1>9. Sound(refs', stage', lease', work', childActive') BY <1>2, <1>3, <1>7, <1>8
<1>10. Queued(waiters', stage')
  <2>1. \A x \in Request : stage'[x] = "waiting" <=> stage[x] = "waiting"
    BY <1>1, <1>2 DEF Put
  <2>2. Queued(waiters, stage') BY <2>1, <1>1, QueueKept
  <2> QED BY <2>2, <1>3
<1>11. \A x \in Request : refs'[x] > 0 <=> refs[x] > 0
  <2> TAKE x \in Request
  <2>1. refs[x] \in Nat BY <1>1
  <2>2. refs'[x] = IF x = h THEN refs[x] + 1 ELSE refs[x] BY <1>1, <1>2 DEF More
  <2> QED BY <2>1, <2>2, <1>2
<1>12. hops' \in [Ticket -> Request \cup {NoLease}] /\ entered' \in [Ticket -> Nat]
  BY <1>1, <1>2
<1>13. ASSUME NEW u \in Ticket
       PROVE  /\ u \notin issued' => entered'[u] = 0 /\ hops'[u] = NoLease
              /\ entered'[u] <= 1 /\ (entered'[u] = 1 => hops'[u] = NoLease)
              /\ hops'[u] # NoLease => refs[hops'[u]] > 0
  <2>1. /\ u \notin issued => entered[u] = 0 /\ hops[u] = NoLease
        /\ entered[u] <= 1 /\ (entered[u] = 1 => hops[u] = NoLease)
        /\ hops[u] # NoLease => refs[hops[u]] > 0
    BY <1>1
  <2>2. /\ hops'[u] = IF u = t THEN NoLease ELSE hops[u]
        /\ entered'[u] = IF u = t THEN entered[u] + 1 ELSE entered[u]
    BY <1>1, <1>2
  <2>3. CASE u = t
    <3>1. hops[u] # NoLease BY <2>3, <1>2 DEF h
    <3>2. entered[u] \in Nat BY <1>1
    <3>3. entered[u] = 0 /\ u \in issued BY <2>1, <3>1, <3>2
    <3> QED BY <3>3, <2>2, <2>3, <1>3
  <2>4. CASE u # t BY <2>1, <2>2, <2>4, <1>3
  <2> QED BY <2>3, <2>4
<1>14. /\ phase' \in Phases
       /\ aborted' \in [Request -> BOOLEAN] /\ completed' \in [Request -> BOOLEAN]
       /\ UNCHANGED <<limit, pressured, active>>
       /\ (waiters' # <<>> => pressured \/ active >= limit)
  BY <1>1, <1>3
<1> QED BY <1>9, <1>10, <1>11, <1>12, <1>13, <1>14, Kept

\* A request or a job that finds a slot free.
LEMMA SlotTaken ==
    ASSUME AIInv, NEW r \in Request, NEW s \in {"granted", "running"},
           active < limit, waiters = <<>>,
           stage[r] = "new", active' = active + 1, refs' = [refs EXCEPT ![r] = 1],
           stage' = [stage EXCEPT ![r] = s], work' \in [Request -> Works],
           \A x \in Request : x # r => work'[x] = work[x],
           IF r \in Job THEN work'[r] # "none" /\ s = "running" ELSE work'[r] = work[r],
           pressured' = FALSE, phase' \in Phases,
           UNCHANGED <<limit, waiters, aborted, tickets, completed, lease>>
    PROVE  Settled /\ InTurn
<1>1. /\ limit \in Limits /\ limit \in Nat /\ pressured \in BOOLEAN
      /\ aborted \in [Request -> BOOLEAN] /\ completed \in [Request -> BOOLEAN]
      /\ refs \in [Request -> Nat] /\ lease \in [Request -> Request]
      /\ stage \in [Request -> Stages] /\ work \in [Request -> Works]
      /\ hops \in [Ticket -> Request \cup {NoLease}] /\ entered \in [Ticket -> Nat]
      /\ phase \in Phases /\ active \in Nat /\ active = Cardinality(Alive(refs))
      /\ Sound(refs, stage, lease, work, childActive) /\ Queued(waiters, stage)
      /\ \A u \in Ticket : /\ u \notin issued => entered[u] = 0 /\ hops[u] = NoLease
                           /\ entered[u] <= 1 /\ (entered[u] = 1 => hops[u] = NoLease)
                           /\ hops[u] # NoLease => refs[hops[u]] > 0
  BY Held
<1>2. active < limit /\ waiters = <<>> OBVIOUS
<1>3. /\ limit' = limit /\ waiters' = waiters /\ aborted' = aborted
      /\ hops' = hops /\ issued' = issued /\ entered' = entered /\ childActive' = childActive
      /\ completed' = completed /\ lease' = lease
  BY DEF tickets
<1>4. refs[r] = 0 BY <1>1, Unused
<1>5. refs' = More(refs, r)
  <2>1. refs[r] + 1 = 1 BY <1>4
  <2> QED BY <2>1 DEF More
<1>6. lease[r] = r BY <1>1 DEF Sound, Fresh
<1>7. lease = Put(lease, r, r) BY <1>1, <1>6 DEF Put
<1>8. childActive = Served(childActive, r, r) BY DEF Served
<1>9. stage' = Put(stage, r, s) BY DEF Put
<1>10. Sound(refs', stage', lease', work', childActive')
  <2>1. r # r => refs[r] > 0 /\ ~childActive[r] /\ r \notin Job OBVIOUS
  <2>2. Sound(More(refs, r), Put(stage, r, s), Put(lease, r, r), work', Served(childActive, r, r))
    BY <2>1, <1>1, GuardEnters
  <2> QED BY <2>2, <1>3, <1>5, <1>7, <1>8, <1>9
<1>11. Queued(waiters', stage')
  <2>1. \A x \in Request : Put(stage, r, s)[x] = "waiting" <=> stage[x] = "waiting"
    BY <1>1 DEF Put
  <2>2. Queued(waiters, stage) BY <1>1
  <2>3. Queued(waiters, Put(stage, r, s)) BY <2>1, <2>2, QueueKept
  <2> QED BY <2>3, <1>3, <1>9
<1>12. \A x \in Request : refs'[x] = IF x = r THEN 1 ELSE refs[x] BY <1>1
<1>13. active' = Cardinality(Alive(refs'))
  <2>1. Alive(refs') = Alive(refs) \cup {r} BY <1>12 DEF Alive
  <2>2. r \notin Alive(refs) /\ Alive(refs) \in SUBSET Request BY <1>4 DEF Alive
  <2> QED BY <2>1, <2>2, <1>1, OneMore
<1>14. ASSUME NEW u \in Ticket
       PROVE  /\ u \notin issued' => entered'[u] = 0 /\ hops'[u] = NoLease
              /\ entered'[u] <= 1 /\ (entered'[u] = 1 => hops'[u] = NoLease)
              /\ hops'[u] # NoLease => refs'[hops'[u]] > 0
  <2>1. /\ u \notin issued => entered[u] = 0 /\ hops[u] = NoLease
        /\ entered[u] <= 1 /\ (entered[u] = 1 => hops[u] = NoLease)
        /\ hops[u] # NoLease => refs[hops[u]] > 0
    BY <1>1
  <2>2. hops[u] # NoLease => hops[u] \in Request BY <1>1
  <2>3. hops[u] # NoLease => refs'[hops[u]] > 0 BY <2>1, <2>2, <1>12
  <2> QED BY <2>1, <2>3, <1>3
<1>15. waiters' = <<>> /\ Range(waiters') = {}
  <2>1. waiters' = <<>> BY <1>2, <1>3
  <2>2. Range(<<>>) = {}
    <3>1. Len(<<>>) = 0 /\ <<>> \in Seq(Request) BY EmptySeq
    <3>2. DOMAIN <<>> = {} OBVIOUS
    <3> QED BY <3>2 DEF Range
  <2> QED BY <2>1, <2>2
<1>16. InTurn
  <2>1. active' <= limit' /\ ~pressured' BY <1>1, <1>2, <1>3
  <2> QED BY <2>1, <1>15 DEF InTurn
<1>17. /\ limit' \in Limits /\ pressured' \in BOOLEAN
       /\ aborted' \in [Request -> BOOLEAN] /\ completed' \in [Request -> BOOLEAN]
       /\ hops' \in [Ticket -> Request \cup {NoLease}] /\ entered' \in [Ticket -> Nat]
       /\ phase' \in Phases
  BY <1>1, <1>3
<1>18. waiters' # <<>> => pressured' \/ active' >= limit' BY <1>15
<1>19. Settled BY <1>10, <1>11, <1>13, <1>14, <1>17, <1>18 DEF Settled
<1> QED BY <1>16, <1>19

\* A probe run takes a slot.
LEMMA JobTakesSlot ==
    ASSUME AIInv, NEW r \in Job, stage[r] = "new", active < limit, waiters = <<>>,
           TakeSlot(r), limit' = limit, pressured' = FALSE, phase' \in Phases
    PROVE  Settled /\ InTurn
<1>1. /\ r \in Request /\ active' = active + 1
      /\ refs' = [refs EXCEPT ![r] = 1] /\ stage' = [stage EXCEPT ![r] = "running"]
      /\ work' = [work EXCEPT ![r] = "working"]
      /\ UNCHANGED <<limit, waiters, aborted, tickets, completed, lease>>
  BY AIAssumption DEF TakeSlot
<1>2. work \in [Request -> Works] BY Held
<1>3. work' \in [Request -> Works] BY <1>1, <1>2 DEF Works
<1>4. \A x \in Request : work'[x] = IF x = r THEN "working" ELSE work[x] BY <1>1, <1>2
<1>5. \A x \in Request : x # r => work'[x] = work[x] BY <1>4
<1>6. IF r \in Job THEN work'[r] # "none" /\ "running" = "running" ELSE work'[r] = work[r]
  BY <1>1, <1>4
<1>7. "running" \in {"granted", "running"} OBVIOUS
<1> QED BY <1>1, <1>3, <1>5, <1>6, <1>7, SlotTaken

LEMMA StartJobSettles == \A r \in Request : AIInv /\ StartJob(r) => Settled /\ InTurn
<1> SUFFICES ASSUME NEW r \in Request, AIInv, StartJob(r) PROVE Settled /\ InTurn OBVIOUS
<1>1. /\ r \in Job /\ stage[r] = "new" /\ Vacant /\ TakeSlot(r)
      /\ limit' = limit /\ pressured' = pressured /\ phase' = phase
  BY DEF StartJob
<1>2. pressured \in BOOLEAN /\ phase \in Phases BY Held
<1>3. pressured' = FALSE /\ active < limit /\ waiters = <<>>
  BY <1>1, <1>2 DEF Vacant, VacantAt
<1>4. phase' \in Phases BY <1>1, <1>2
<1> QED BY <1>1, <1>3, <1>4, JobTakesSlot

LEMMA ArriveSettles == \A r \in Request : AIInv /\ Arrive(r) => Settled /\ InTurn
<1> SUFFICES ASSUME NEW r \in Request, AIInv, Arrive(r) PROVE Settled /\ InTurn OBVIOUS
<1>1. /\ aborted \in [Request -> BOOLEAN] /\ completed \in [Request -> BOOLEAN]
      /\ refs \in [Request -> Nat] /\ stage \in [Request -> Stages]
      /\ work \in [Request -> Works] /\ limit \in Nat /\ active \in Nat
      /\ pressured \in BOOLEAN
      /\ hops \in [Ticket -> Request \cup {NoLease}] /\ entered \in [Ticket -> Nat]
      /\ phase \in Phases
      /\ Sound(refs, stage, lease, work, childActive) /\ Queued(waiters, stage)
      /\ waiters # <<>> => pressured \/ active >= limit
      /\ \A t \in Ticket : /\ t \notin issued => entered[t] = 0 /\ hops[t] = NoLease
                           /\ entered[t] <= 1 /\ (entered[t] = 1 => hops[t] = NoLease)
                           /\ hops[t] # NoLease => refs[hops[t]] > 0
  BY Held
<1>2. /\ stage[r] = "new" /\ r \notin Job
      /\ UNCHANGED <<limit, pressured, aborted, tickets, lease, work, phase>>
  BY DEF Arrive
<1>3. /\ limit' = limit /\ pressured' = pressured /\ aborted' = aborted
      /\ hops' = hops /\ issued' = issued /\ entered' = entered /\ childActive' = childActive
      /\ lease' = lease /\ work' = work /\ phase' = phase
  BY <1>2 DEF tickets
<1>4. CASE Vacant
  <2>1. /\ active' = active + 1 /\ refs' = [refs EXCEPT ![r] = 1]
        /\ stage' = [stage EXCEPT ![r] = "granted"] /\ UNCHANGED <<waiters, completed>>
    BY <1>4 DEF Arrive
  <2>6. active < limit /\ waiters = <<>> /\ pressured = FALSE
    BY <1>1, <1>4 DEF Vacant, VacantAt
  <2>2. work' \in [Request -> Works] /\ \A x \in Request : x # r => work'[x] = work[x]
    BY <1>1, <1>3
  <2>3. IF r \in Job THEN work'[r] # "none" /\ "granted" = "running" ELSE work'[r] = work[r]
    BY <1>2, <1>3
  <2>4. "granted" \in {"granted", "running"} OBVIOUS
  <2>5. /\ UNCHANGED <<limit, waiters, aborted, tickets, completed, lease>>
        /\ pressured' = FALSE /\ phase' \in Phases
    BY <2>1, <2>6, <1>1, <1>2
  <2> QED BY <2>1, <2>2, <2>3, <2>4, <2>5, <2>6, <1>2, SlotTaken
<1>5. ASSUME NEW s \in {"waiting", "refused"}, stage' = [stage EXCEPT ![r] = s],
             Queued(waiters', stage'), completed' \in [Request -> BOOLEAN],
             active' = active, refs' = refs,
             waiters' # <<>> => pressured \/ active >= limit
      PROVE  Settled /\ InTurn
  <2>1. Sound(refs, stage', lease, work, childActive)
    <3>1. stage' \in [Request -> Stages] BY <1>1, <1>5 DEF Stages
    <3>2. \A x \in Request : stage'[x] = IF x = r THEN s ELSE stage[x] BY <1>1, <1>5
    <3>3. \A x \in Request : \/ stage'[x] = stage[x]
                             \/ stage[x] = "granted" /\ stage'[x] = "running"
                             \/ /\ stage[x] \in {"new", "waiting"} /\ x \notin Job
                                /\ stage'[x] \in {"waiting", "refused"}
      BY <3>2, <1>2
    <3> QED BY <3>1, <3>3, <1>1, StageMoves
  <2>2. Sound(refs', stage', lease', work', childActive') BY <2>1, <1>3, <1>5
  <2>3. /\ UNCHANGED <<limit, pressured, active>> /\ phase' \in Phases
        /\ aborted' \in [Request -> BOOLEAN]
        /\ hops' \in [Ticket -> Request \cup {NoLease}] /\ entered' \in [Ticket -> Nat]
        /\ \A x \in Request : refs'[x] > 0 <=> refs[x] > 0
    BY <1>1, <1>3, <1>5
  <2>4. \A t \in Ticket : /\ t \notin issued' => entered'[t] = 0 /\ hops'[t] = NoLease
                          /\ entered'[t] <= 1 /\ (entered'[t] = 1 => hops'[t] = NoLease)
                          /\ hops'[t] # NoLease => refs[hops'[t]] > 0
    BY <1>1, <1>3
  <2> QED BY <2>2, <2>3, <2>4, <1>5, Kept
<1>6. CASE ~Vacant /\ (pressured \/ Len(waiters) >= MaxQueued)
  <2>1. /\ stage' = [stage EXCEPT ![r] = "refused"]
        /\ completed' = [completed EXCEPT ![r] = TRUE]
        /\ active' = active /\ refs' = refs /\ waiters' = waiters
    BY <1>6 DEF Arrive
  <2>2. Queued(waiters', stage')
    <3>1. \A x \in Request : stage'[x] = "waiting" <=> stage[x] = "waiting"
      BY <2>1, <1>1, <1>2
    <3>2. Queued(waiters, stage') BY <3>1, <1>1, QueueKept
    <3> QED BY <3>2, <2>1
  <2>3. completed' \in [Request -> BOOLEAN] BY <2>1, <1>1
  <2>4. waiters' # <<>> => pressured \/ active >= limit BY <2>1, <1>1
  <2>5. "refused" \in {"waiting", "refused"} OBVIOUS
  <2> QED BY <2>1, <2>2, <2>3, <2>4, <2>5, <1>5
<1>7. CASE ~Vacant /\ ~(pressured \/ Len(waiters) >= MaxQueued)
  <2>1. /\ waiters' = Append(waiters, r) /\ stage' = [stage EXCEPT ![r] = "waiting"]
        /\ active' = active /\ refs' = refs /\ completed' = completed
    BY <1>7 DEF Arrive
  <2>2. Queued(waiters', stage') BY <2>1, <1>1, <1>2, QueueJoined
  <2>3. active >= limit
    <3>1. ~(active < limit) \/ waiters # <<>> BY <1>7 DEF Vacant, VacantAt
    <3> QED BY <3>1, <1>1, <1>7
  <2>4. "waiting" \in {"waiting", "refused"} OBVIOUS
  <2>5. completed' \in [Request -> BOOLEAN] BY <2>1, <1>1
  <2> QED BY <2>1, <2>2, <2>3, <2>4, <2>5, <1>5
<1> QED BY <1>4, <1>6, <1>7

\* The sampling of the memory, under the limit in force or a new one.
LEMMA SampledSettles ==
    ASSUME AIInv, NEW level \in {"high", "between", "resume"}, NEW most \in Limits,
           limit' = most, Sampled(level, most), phase' \in Phases
    PROVE  Settled /\ InTurn
<1> DEFINE high == High(level)
<1>1. /\ aborted \in [Request -> BOOLEAN] /\ completed \in [Request -> BOOLEAN]
      /\ refs \in [Request -> Nat] /\ pressured \in BOOLEAN
      /\ hops \in [Ticket -> Request \cup {NoLease}] /\ entered \in [Ticket -> Nat]
      /\ phase \in Phases /\ active = Cardinality(Alive(refs))
      /\ Sound(refs, stage, lease, work, childActive) /\ Queued(waiters, stage)
      /\ \A t \in Ticket : /\ t \notin issued => entered[t] = 0 /\ hops[t] = NoLease
                           /\ entered[t] <= 1 /\ (entered[t] = 1 => hops[t] = NoLease)
                           /\ hops[t] # NoLease => refs[hops[t]] > 0
  BY Held
<1>2. /\ pressured' = high /\ Drain(active, waiters, refs, stage, high, most)
      /\ UNCHANGED <<aborted, tickets, completed, lease, work>>
  BY DEF Sampled
<1>3. high \in BOOLEAN BY <1>1 DEF High
<1>4. most \in Nat \ {0} /\ most \in Nat
  <2>1. Limits \subseteq Nat \ {0} BY AIAssumption, Zenon
  <2> QED BY <2>1
<1>5. /\ aborted' = aborted /\ completed' = completed /\ hops' = hops /\ issued' = issued
      /\ entered' = entered /\ childActive' = childActive /\ lease' = lease
      /\ work' = work
  BY <1>2 DEF tickets
<1> HIDE DEF high
<1>6. /\ Sound(refs', stage', lease, work, childActive)
      /\ Queued(waiters', stage')
      /\ active' = Cardinality(Alive(refs'))
      /\ waiters' # <<>> => high \/ active' >= most
      /\ \A l \in Request : refs'[l] >= refs[l]
      /\ \A l \in Request : refs[l] = 0 /\ refs'[l] > 0 =>
           /\ active' <= most /\ ~high
           /\ \A w \in Range(waiters') :
                l \in Range(waiters) /\ Place(waiters, l) < Place(waiters, w)
  <2>1. high \in BOOLEAN /\ most \in Nat BY <1>3, <1>4
  <2>2. Sound(refs, stage, lease, work, childActive) /\ Queued(waiters, stage) BY <1>1
  <2>3. active = Cardinality(Alive(refs)) BY <1>1
  <2>4. Drain(active, waiters, refs, stage, high, most) BY <1>2
  <2> QED BY <2>1, <2>2, <2>3, <2>4, DrainSound
<1>7. InTurn BY <1>2, <1>6 DEF InTurn
<1>8. refs' \in [Request -> Nat] BY <1>6 DEF Sound, Typed
<1>9. ASSUME NEW t \in Ticket
      PROVE  /\ t \notin issued' => entered'[t] = 0 /\ hops'[t] = NoLease
             /\ entered'[t] <= 1 /\ (entered'[t] = 1 => hops'[t] = NoLease)
             /\ hops'[t] # NoLease => refs'[hops'[t]] > 0
  <2>1. /\ t \notin issued => entered[t] = 0 /\ hops[t] = NoLease
        /\ entered[t] <= 1 /\ (entered[t] = 1 => hops[t] = NoLease)
        /\ hops[t] # NoLease => refs[hops[t]] > 0
    BY <1>1
  <2>2. ASSUME hops[t] # NoLease PROVE refs'[hops[t]] > 0
    <3>1. hops[t] \in Request BY <2>2, <1>1
    <3>2. refs'[hops[t]] >= refs[hops[t]] BY <3>1, <1>6
    <3>3. refs'[hops[t]] \in Nat /\ refs[hops[t]] \in Nat BY <3>1, <1>1, <1>8
    <3> QED BY <3>2, <3>3, <2>1, <2>2
  <2> QED BY <2>1, <2>2, <1>5
<1>10. Sound(refs', stage', lease', work', childActive') BY <1>5, <1>6
<1>11. /\ limit' \in Limits /\ pressured' \in BOOLEAN
       /\ aborted' \in [Request -> BOOLEAN] /\ completed' \in [Request -> BOOLEAN]
       /\ hops' \in [Ticket -> Request \cup {NoLease}] /\ entered' \in [Ticket -> Nat]
       /\ phase' \in Phases
  BY <1>1, <1>2, <1>3, <1>4, <1>5
<1>12. waiters' # <<>> => pressured' \/ active' >= limit' BY <1>2, <1>6
<1>13. Settled BY <1>6, <1>9, <1>10, <1>11, <1>12 DEF Settled
<1> QED BY <1>7, <1>13

\* A probe run that comes after stop: the sample finds nobody to admit, or the run its slot.
LEMMA StartJobLateSettles ==
    ASSUME AIInv, NEW level \in {"high", "between", "resume"}, NEW r \in Job,
           StartJobLate(r, level)
    PROVE  Settled /\ InTurn
<1>1. stage[r] = "new" /\ phase' = "resumed" /\ limit' = limit
  BY DEF StartJobLate
<1>2. phase' \in Phases BY <1>1 DEF Phases
<1>3. CASE VacantAt(High(level))
  <2>1. pressured' = FALSE /\ TakeSlot(r) /\ active < limit /\ waiters = <<>>
    BY <1>3 DEF StartJobLate, VacantAt
  <2> QED BY <2>1, <1>1, <1>2, JobTakesSlot
<1>4. CASE ~VacantAt(High(level))
  <2>1. Sampled(level, limit)
    BY <1>4 DEF StartJobLate
  <2>2. limit \in Limits
    BY DEF AIInv, Types
  <2> QED BY <2>1, <2>2, <1>1, <1>2, SampledSettles
<1> QED BY <1>3, <1>4

LEMMA StopSettles == AIInv /\ Stop => Settled /\ InTurn
<1> SUFFICES ASSUME AIInv, Stop PROVE Settled /\ InTurn OBVIOUS
<1>1. /\ aborted \in [Request -> BOOLEAN] /\ completed \in [Request -> BOOLEAN]
      /\ refs \in [Request -> Nat] /\ stage \in [Request -> Stages]
      /\ hops \in [Ticket -> Request \cup {NoLease}] /\ entered \in [Ticket -> Nat]
      /\ Sound(refs, stage, lease, work, childActive)
      /\ \A t \in Ticket : /\ t \notin issued => entered[t] = 0
                           /\ entered[t] <= 1
  BY Held
<1>2. /\ phase' = "stopped" /\ waiters' = <<>>
      /\ stage' = [r \in Request |-> IF stage[r] = "waiting" THEN "refused" ELSE stage[r]]
      /\ completed' = [r \in Request |-> completed[r] \/ stage[r] = "waiting"]
      /\ hops' = [t \in Ticket |-> NoLease]
      /\ limit' = limit /\ pressured' = pressured /\ active' = active /\ refs' = refs
      /\ aborted' = aborted /\ issued' = issued /\ entered' = entered
      /\ childActive' = childActive /\ lease' = lease /\ work' = work
  BY DEF Stop
<1>3. \A r \in Request : stage'[r] = IF stage[r] = "waiting" THEN "refused" ELSE stage[r]
  <2>1. stage' = [r \in Request |-> IF stage[r] = "waiting" THEN "refused" ELSE stage[r]]
    BY <1>2
  <2> QED BY <2>1
<1>4. stage' \in [Request -> Stages]
  <2>1. \A r \in Request : (IF stage[r] = "waiting" THEN "refused" ELSE stage[r]) \in Stages
    BY <1>1 DEF Stages
  <2> QED BY <2>1, <1>2
<1>5. Sound(refs, stage', lease, work, childActive)
  <2>1. ASSUME NEW r \in Request, stage[r] = "waiting" PROVE r \notin Job
    BY <2>1, JobStages
  <2>2. \A r \in Request : \/ stage'[r] = stage[r]
                           \/ /\ stage[r] \in {"new", "waiting"} /\ r \notin Job
                              /\ stage'[r] \in {"waiting", "refused"}
    BY <2>1, <1>3
  <2> QED BY <2>2, <1>1, <1>4, StageMoves
<1>6. Sound(refs', stage', lease', work', childActive') BY <1>2, <1>5
<1>7. Queued(waiters', stage')
  <2>1. <<>> \in Seq(Request) /\ Len(<<>>) = 0 OBVIOUS
  <2>2. \A r \in Request : stage'[r] # "waiting" BY <1>3
  <2>3. Queued(<<>>, stage') BY <2>1, <2>2 DEF Queued
  <2> QED BY <2>3, <1>2
<1>8. /\ UNCHANGED <<limit, pressured, active>> /\ phase' \in Phases
      /\ aborted' \in [Request -> BOOLEAN] /\ entered' \in [Ticket -> Nat]
      /\ \A x \in Request : refs'[x] > 0 <=> refs[x] > 0
  <2>1. phase' = "stopped" BY <1>2
  <2>2. phase' \in Phases BY <2>1 DEF Phases
  <2>3. /\ limit' = limit /\ pressured' = pressured /\ active' = active /\ refs' = refs
        /\ aborted' = aborted /\ entered' = entered
    BY <1>2
  <2> QED BY <2>2, <2>3, <1>1
<1>9. completed' \in [Request -> BOOLEAN] BY <1>2
<1>10. hops' \in [Ticket -> Request \cup {NoLease}] BY <1>2
<1>11. waiters' # <<>> => pressured \/ active >= limit BY <1>2
<1>12. \A t \in Ticket : /\ t \notin issued' => entered'[t] = 0 /\ hops'[t] = NoLease
                         /\ entered'[t] <= 1 /\ (entered'[t] = 1 => hops'[t] = NoLease)
                         /\ hops'[t] # NoLease => refs[hops'[t]] > 0
  BY <1>1, <1>2
<1> QED BY <1>6, <1>7, <1>8, <1>9, <1>10, <1>11, <1>12, Kept

LEMMA StutterSettles == AIInv /\ UNCHANGED vars => Settled /\ InTurn
<1> SUFFICES ASSUME AIInv, UNCHANGED vars PROVE Settled /\ InTurn OBVIOUS
<1>1. /\ aborted \in [Request -> BOOLEAN] /\ completed \in [Request -> BOOLEAN]
      /\ hops \in [Ticket -> Request \cup {NoLease}] /\ entered \in [Ticket -> Nat]
      /\ phase \in Phases
      /\ Sound(refs, stage, lease, work, childActive) /\ Queued(waiters, stage)
      /\ waiters # <<>> => pressured \/ active >= limit
      /\ \A t \in Ticket : /\ t \notin issued => entered[t] = 0 /\ hops[t] = NoLease
                           /\ entered[t] <= 1 /\ (entered[t] = 1 => hops[t] = NoLease)
                           /\ hops[t] # NoLease => refs[hops[t]] > 0
  BY Held
<1>2. /\ limit' = limit /\ pressured' = pressured /\ active' = active /\ waiters' = waiters
      /\ refs' = refs /\ aborted' = aborted /\ hops' = hops /\ issued' = issued
      /\ entered' = entered /\ childActive' = childActive /\ stage' = stage
      /\ completed' = completed /\ lease' = lease /\ work' = work /\ phase' = phase
  BY DEF vars
<1>3. Sound(refs', stage', lease', work', childActive') /\ Queued(waiters', stage')
  BY <1>1, <1>2
<1>4. /\ UNCHANGED <<limit, pressured, active>> /\ phase' \in Phases
      /\ aborted' \in [Request -> BOOLEAN] /\ completed' \in [Request -> BOOLEAN]
      /\ hops' \in [Ticket -> Request \cup {NoLease}] /\ entered' \in [Ticket -> Nat]
      /\ \A x \in Request : refs'[x] > 0 <=> refs[x] > 0
  BY <1>1, <1>2
<1>5. waiters' # <<>> => pressured \/ active >= limit BY <1>1, <1>2
<1>6. \A t \in Ticket : /\ t \notin issued' => entered'[t] = 0 /\ hops'[t] = NoLease
                        /\ entered'[t] <= 1 /\ (entered'[t] = 1 => hops'[t] = NoLease)
                        /\ hops'[t] # NoLease => refs[hops'[t]] > 0
  BY <1>1, <1>2
<1> QED BY <1>3, <1>4, <1>5, <1>6, Kept

LEMMA InitHolds == Init => AIInv
<1> SUFFICES ASSUME Init PROVE AIInv OBVIOUS
<1>1. Limits \subseteq Nat \ {0} /\ NoLease \notin Request BY AIAssumption, Zenon
<1>2. limit \in Limits /\ pressured \in BOOLEAN /\ active = 0 /\ waiters = <<>> BY DEF Init
<1>3. /\ refs = [l \in Request |-> 0] /\ aborted = [l \in Request |-> FALSE]
      /\ childActive = [l \in Request |-> FALSE] /\ hops = [t \in Ticket |-> NoLease]
      /\ issued = {} /\ entered = [t \in Ticket |-> 0]
      /\ stage = [r \in Request |-> "new"] /\ completed = [r \in Request |-> FALSE]
      /\ lease = [r \in Request |-> r] /\ work = [r \in Request |-> "none"]
      /\ phase = "serving"
  BY DEF Init
<1>4. Types BY <1>1, <1>2, <1>3 DEF Types, Phases
<1>5. Typed(refs, stage, lease, work, childActive) BY <1>3 DEF Typed, Stages, Works
<1>6. Fresh(stage, lease, work) BY <1>3 DEF Fresh
<1>7. JobsRun(stage, lease, work)
  <2> SUFFICES ASSUME NEW r \in Job PROVE lease[r] = r /\ stage[r] = "new" BY DEF JobsRun
  <2>1. r \in Request BY AIAssumption
  <2> QED BY <2>1, <1>3
<1>8. \A l \in Request : /\ Guards(stage, lease, l) = {} /\ Workers(work, lease, l) = {}
                         /\ Children(stage, lease, l) = {}
  BY <1>3 DEF Guards, Workers, Children
<1>9. Cardinality({}) = 0 BY Empties
<1>10. Counted(refs, stage, lease, work)
  <2> SUFFICES ASSUME NEW l \in Request
               PROVE  refs[l] = Cardinality(Guards(stage, lease, l))
                                  + Cardinality(Workers(work, lease, l))
    BY DEF Counted
  <2>1. Cardinality(Guards(stage, lease, l)) = 0 /\ Cardinality(Workers(work, lease, l)) = 0
    BY <1>8, <1>9
  <2> QED BY <2>1, <1>3
<1>11. OneChild(stage, lease, childActive)
  <2> SUFFICES ASSUME NEW l \in Request
               PROVE  Cardinality(Children(stage, lease, l)) = IF childActive[l] THEN 1 ELSE 0
    BY DEF OneChild
  <2> QED BY <1>3, <1>8, <1>9
<1>12. Queued(waiters, stage)
  <2>1. <<>> \in Seq(Request) /\ Len(<<>>) = 0 OBVIOUS
  <2>2. \A r \in Request : stage[r] # "waiting" BY <1>3
  <2>3. Queued(<<>>, stage) BY <2>1, <2>2 DEF Queued
  <2> QED BY <2>3, <1>2
<1>13. active = Cardinality(Alive(refs))
  <2>1. Alive(refs) = {} BY <1>3 DEF Alive
  <2> QED BY <2>1, <1>2, <1>9
<1>14. TicketsUsed BY <1>3 DEF TicketsUsed
<1>15. NoIdleSlot BY <1>2 DEF NoIdleSlot
<1>16. Sound(refs, stage, lease, work, childActive)
  BY <1>5, <1>6, <1>7, <1>10, <1>11 DEF Sound
<1> QED BY <1>4, <1>12, <1>13, <1>14, <1>15, <1>16 DEF AIInv

LEMMA StepSettles == AIInv /\ [Next]_vars => Settled /\ InTurn
<1> SUFFICES ASSUME AIInv, [Next]_vars PROVE Settled /\ InTurn OBVIOUS
<1>1. ASSUME NEW r \in Request, Admit(r) PROVE Settled /\ InTurn
  BY <1>1, ArriveSettles, StartJobSettles, ArriveByHopSettles DEF Admit
<1>2. ASSUME NEW r \in Request, Proceed(r) PROVE Settled /\ InTurn
  BY <1>2, ContinueSettles, ExpireSettles, FinishSettles, EndWorkSettles, EndJobSettles
     DEF Proceed
<1>3. ASSUME NEW level \in {"high", "between", "resume"}, Sample(level)
      PROVE  Settled /\ InTurn
  <2>1. Sampled(level, limit) /\ limit' = limit /\ phase' = phase BY <1>3 DEF Sample
  <2>2. limit \in Limits /\ phase' \in Phases
    BY <2>1 DEF AIInv, Types
  <2> QED BY <2>1, <2>2, SampledSettles
<1>4. ASSUME NEW level \in {"high", "between", "resume"}, NEW n \in Limits,
             Reconfigure(n, level)
      PROVE  Settled /\ InTurn
  <2>1. Sampled(level, n) /\ limit' = n /\ phase' = phase BY <1>4 DEF Reconfigure
  <2>2. phase' \in Phases
    BY <2>1 DEF AIInv, Types
  <2> QED BY <2>1, <2>2, SampledSettles
<1>7. ASSUME NEW level \in {"high", "between", "resume"}, NEW r \in Job,
             StartJobLate(r, level)
      PROVE  Settled /\ InTurn
  BY <1>7, StartJobLateSettles
<1>5. CASE Next
  <2>1. \/ \E r \in Request : Admit(r) \/ Proceed(r) \/ Abort(r) \/ BeginWork(r)
                              \/ \E t \in Ticket : IssueTicket(r, t)
        \/ \E level \in {"high", "between", "resume"} :
             \/ Sample(level)
             \/ \E n \in Limits : Reconfigure(n, level)
             \/ \E r \in Job : StartJobLate(r, level)
        \/ Stop
    BY <1>5 DEF Next
  <2> QED BY <2>1, <1>1, <1>2, <1>3, <1>4, <1>7, AbortSettles, BeginWorkSettles,
             IssueTicketSettles, StopSettles
<1>6. CASE UNCHANGED vars BY <1>6, StutterSettles
<1> QED BY <1>5, <1>6

\* In every reachable state the references of each lease are the guards and the work
\* that use it, the queue holds the requests that wait, each once, and the slots in use
\* are the leases that are alive.
THEOREM AIInvariant == Spec => []AIInv
<1>1. Init => AIInv BY InitHolds
<1>2. AIInv /\ [Next]_vars => AIInv' BY StepSettles, SettledKeeps
<1> QED BY <1>1, <1>2, PTL DEF Spec

\* A slot is in use exactly as long as a guard, a hop or a piece of work uses its
\* lease, for every number of requests and every limit (acquire, retain, release and
\* drain of AIResourceService).
THEOREM SlotsAreHeldHolds == Spec => []SlotsAreHeld
<1>1. AIInv => SlotsAreHeld
  <2> SUFFICES ASSUME AIInv PROVE SlotsAreHeld OBVIOUS
  <2>1. active = Cardinality(Alive(refs)) /\ Counted(refs, stage, lease, work)
    BY DEF AIInv, Sound
  <2>2. {l \in Request : Live(l)} = Alive(refs) BY DEF Live, Alive
  <2>3. \A l \in Request : HeldByGuard(l) = Guards(stage, lease, l) BY DEF HeldByGuard, Guards
  <2>4. \A l \in Request : HeldByWork(l) = Workers(work, lease, l) BY DEF HeldByWork, Workers
  <2> QED BY <2>1, <2>2, <2>3, <2>4 DEF SlotsAreHeld, Counted
<1> QED BY <1>1, AIInvariant, PTL

\* No waiter is left in the queue while there is a free slot and memory.
THEOREM NoIdleSlotHolds == Spec => []NoIdleSlot
<1>1. AIInv => NoIdleSlot BY DEF AIInv
<1> QED BY <1>1, AIInvariant, PTL

\* A ticket admits one request, never outlives its lease, and one hop of a lease is
\* served at a time (hopHeaders and consumeHop).
THEOREM HopsAreOwnedHolds == Spec => []HopsAreOwned
<1>1. AIInv => HopsAreOwned
  <2> SUFFICES ASSUME AIInv PROVE HopsAreOwned OBVIOUS
  <2>1. TicketsUsed /\ OneChild(stage, lease, childActive) BY DEF AIInv, Sound
  <2>2. ASSUME NEW t \in Ticket
        PROVE  /\ entered[t] <= 1 /\ (entered[t] = 1 => hops[t] = NoLease)
               /\ hops[t] # NoLease => Live(hops[t])
    BY <2>1 DEF TicketsUsed, Live
  <2>3. ASSUME NEW l \in Request
        PROVE  Cardinality({r \in HeldByGuard(l) : ByHop(r)}) = IF childActive[l] THEN 1 ELSE 0
    <3>1. {r \in HeldByGuard(l) : ByHop(r)} = Children(stage, lease, l)
      BY DEF HeldByGuard, ByHop, Children, Guards
    <3> QED BY <3>1, <2>1 DEF OneChild
  <2> QED BY <2>2, <2>3 DEF HopsAreOwned
<1> QED BY <1>1, AIInvariant, PTL

\* Waiters are admitted in the order in which they came, within the limit and never
\* under memory pressure, and nobody overtakes them.
THEOREM AdmissionInOrderHolds == Spec => AdmissionInOrder
<1> DEFINE A == \A l \in Request :
                  ~Live(l) /\ refs'[l] > 0 =>
                      /\ active' <= limit' /\ ~pressured'
                      /\ \A w \in Range(waiters') :
                           /\ l \in Range(waiters)
                           /\ Place(waiters, l) < Place(waiters, w)
<1>1. AIInv /\ [Next]_vars => [A]_vars
  <2> SUFFICES ASSUME AIInv, [Next]_vars PROVE A OBVIOUS
  <2>1. InTurn BY StepSettles
  <2>2. refs \in [Request -> Nat] BY Held
  <2>3. \A l \in Request : ~Live(l) => refs[l] = 0
    <3> TAKE l \in Request
    <3>1. refs[l] \in Nat BY <2>2
    <3> QED BY <3>1 DEF Live
  <2> QED BY <2>1, <2>3 DEF InTurn
<1> HIDE DEF A
<1>2. Spec => [][A]_vars BY <1>1, AIInvariant, PTL DEF Spec
<1> QED BY <1>2 DEF A, AdmissionInOrder
=============================================================================
