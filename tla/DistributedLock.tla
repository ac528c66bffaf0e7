--------------------------- MODULE DistributedLock ---------------------------
(***************************************************************************)
(* DistributedLockService: one Redis key per lock, set with NX and a TTL   *)
(* that nothing extends, deleted only by the owner whose token it holds.   *)
(* The name of a task stands for the owner token of its one acquisition.   *)
(* A Redis command is carried out and answered, carried out and its answer *)
(* lost, or never carried out; the last two look the same to the caller.   *)
(***************************************************************************)
CONSTANTS
    Task,          \* the callers of runWithLock
    LockKey,       \* the locks
    Unowned,       \* the value of a key that does not exist
    FailClosed,    \* failClosed of the caller, or DISTRIBUTED_LOCK_FAIL_CLOSED
    RedisFails,    \* may a command fail, or its answer be lost?
    Outlasts       \* may a task run longer than the TTL of its key?

VARIABLES
    owner,     \* the owner token each key holds
    handle     \* the lock handle of each task

lockVars == <<owner, handle>>

ASSUME LockAssumption ==
    /\ Unowned \notin Task
    /\ FailClosed \in BOOLEAN /\ RedisFails \in BOOLEAN /\ Outlasts \in BOOLEAN

LockInit ==
    /\ owner = [k \in LockKey |-> Unowned]
    /\ handle = [t \in Task |-> "none"]

\* setIfNotExists answers true.
Acquired(t, k) ==
    /\ owner[k] = Unowned
    /\ owner' = [owner EXCEPT ![k] = t]
    /\ handle' = [handle EXCEPT ![t] = "acquired"]

\* It answers null: the key may have been set all the same.
BackendUnavailable(t, k) ==
    /\ RedisFails
    /\ \/ owner[k] = Unowned /\ owner' = [owner EXCEPT ![k] = t]
       \/ UNCHANGED owner
    /\ handle' = [handle EXCEPT ![t] = IF FailClosed THEN "refused" ELSE "open"]

\* The key stays somebody else's until the acquire timeout.
AcquireTimesOut(t, k) ==
    /\ owner[k] # Unowned
    /\ handle' = [handle EXCEPT ![t] = "refused"]
    /\ UNCHANGED owner

\* Mutant: a delete that does not compare the token.
AnyToken(t, k) == TRUE

\* deleteIfValueMatches
OwnsKey(t, k) == owner[k] = t

\* release: only a handle that was acquired has a key to delete.
Release(t, k) ==
    /\ \/ /\ handle[t] = "acquired" /\ OwnsKey(t, k)
          /\ owner' = [owner EXCEPT ![k] = Unowned]
       \/ /\ handle[t] = "acquired" => ~OwnsKey(t, k) \/ RedisFails
          /\ UNCHANGED owner
    /\ handle' = [handle EXCEPT ![t] = "none"]

\* The TTL of a key runs out.
Lapse(k) ==
    /\ owner[k] # Unowned
    /\ Outlasts \/ handle[owner[k]] # "acquired"
    /\ owner' = [owner EXCEPT ![k] = Unowned]
    /\ UNCHANGED handle
=============================================================================
