-------------------------- MODULE WorkerConnections --------------------------
(***************************************************************************)
(* The coordinator's pool of connections to the workers (executor/flight.rs*)
(* WorkerConnectionPool) under the calls that use it: submit_to_worker,    *)
(* which drops the cached connection when the call fails, fetch_output and *)
(* cancel_stage, which do not.                                             *)
(*                                                                         *)
(* A caller is a future, and several of them may be one task: the stages   *)
(* of a level are joined (join_all), so that a thread of the runtime polls *)
(* one of them at a time, from one await to the next.  Tasks run on        *)
(* threads of their own, in parallel.                                      *)
(*                                                                         *)
(* A worker has a slot behind a fair asynchronous mutex, and the slots are *)
(* in a concurrent map, here with all workers in one shard.  The map's own *)
(* lock is a thread's: remove_connection keeps a read guard of the shard   *)
(* while it awaits the slot, and get_connection, which asks for the slot   *)
(* with entry(), blocks its thread, and with it every future of its task,  *)
(* until there is no such guard.                                           *)
(***************************************************************************)
EXTENDS Naturals, Sequences, FiniteSets

CONSTANTS
    Callers,        \* futures that use the pool, one call at a time
    TaskOf,         \* the task each of them is part of
    Peers,          \* registered workers
    MaxConnections, \* effective_max_connections
    Threads,        \* threads of the runtime
    MaxCalls        \* calls they make in all (a bound)

(* The limit is at least one: it is the number of registered workers when  *)
(* it is configured as zero.                                               *)
ASSUME PoolAssumption ==
    /\ IsFiniteSet(Callers) /\ IsFiniteSet(Peers) /\ Peers # {}
    /\ MaxConnections \in Nat \ {0} /\ Threads \in Nat \ {0}

VARIABLES
    calls,   \* calls still to be made
    poolPc,  \* "idle", "entry", "validate", "lock", "health", "count", "choose",
             \* "connect", "use" or "remove"
    target,  \* the worker a caller calls
    lockq,   \* of each slot's mutex: the caller that has it, then those that wait
    unseen,  \* the slots a caller's walk over the map has yet to look at
    seen,    \* in "count": those with a connection; in "choose": the oldest so far
    live,    \* the workers with a cached connection
    expired  \* of live: the connection is older than connection_ttl

walkVars == <<unseen, seen>>
connVars == <<live, expired>>
poolVars == <<calls, poolPc, target, lockq, walkVars, connVars>>

PoolInit ==
    /\ calls = MaxCalls
    /\ poolPc = [c \in Callers |-> "idle"]
    /\ target \in [Callers -> {CHOOSE w \in Peers : TRUE}]
    /\ lockq = [w \in Peers |-> <<>>]
    /\ unseen = [c \in Callers |-> {}] /\ seen = [c \in Callers |-> {}]
    /\ live = {} /\ expired = {}

(* Mutant: whoever has asked for the slot may go on, without a mutex. *)
HasAsked(c) == lockq[target[c]] # <<>>

Owns(c) == lockq[target[c]] # <<>> /\ Head(lockq[target[c]]) = c
Unlocked(w) == lockq[w] = <<>>                                  \* try_lock
ShardRead == \E c \in Callers : poolPc[c] = "remove"

(* A future on a thread, between two awaits or blocked in entry(). *)
OnThread == {c \in Callers : poolPc[c] \in {"entry", "validate", "count", "choose"}}

(* The future has a thread, or can be polled by a free one. *)
CanRun(c) == \/ c \in OnThread
             \/ /\ Cardinality(OnThread) < Threads
                /\ \A d \in OnThread : TaskOf[d] # TaskOf[c]

(* Another thread is looking at slots, and has one of them locked. *)
OthersLook(c) == \E d \in Callers \ {c} : poolPc[d] \in {"count", "choose"}

Go(c, where) == poolPc' = [poolPc EXCEPT ![c] = where]
Enqueue(c) == lockq' = [lockq EXCEPT ![target[c]] = Append(@, c)]
Unlock(c) == lockq' = [lockq EXCEPT ![target[c]] = Tail(@)]
Drop(ws) == live' = live \ ws /\ expired' = expired \ ws
Walk(c, ws) == unseen' = [unseen EXCEPT ![c] = ws] /\ seen' = [seen EXCEPT ![c] = {}]

----------------------------------------------------------------------------
(* get_connection *)
BeginCall(c) ==
    /\ poolPc[c] = "idle" /\ calls > 0 /\ CanRun(c)
    /\ calls' = calls - 1
    /\ \E w \in Peers : target' = [target EXCEPT ![c] = w]
    /\ Go(c, "entry")
    /\ UNCHANGED <<lockq, walkVars, connVars>>

(* entry().or_insert_with(): a write to the shard; it then has the slot or *)
(* awaits it.                                                              *)
TakeSlot(c) ==
    /\ poolPc[c] = "entry" /\ ~ShardRead
    /\ Enqueue(c)
    /\ Go(c, IF Unlocked(target[c]) THEN "validate" ELSE "lock")
    /\ UNCHANGED <<calls, target, walkVars, connVars>>

(* A cached connection that is not expired has to answer a health check. *)
Validate(c) ==
    /\ poolPc[c] \in {"validate", "lock"} /\ Owns(c) /\ CanRun(c)
    /\ LET w == target[c] IN
       IF w \in live /\ w \notin expired
       THEN Go(c, "health") /\ UNCHANGED <<walkVars, connVars>>
       ELSE Go(c, "count") /\ Drop({w}) /\ Walk(c, Peers)
    /\ UNCHANGED <<calls, target, lockq>>

Healthy(c) ==
    /\ poolPc[c] = "health" /\ CanRun(c)
    /\ Unlock(c)
    /\ Go(c, "use")
    /\ UNCHANGED <<calls, target, walkVars, connVars>>

(* Mutant: the unhealthy connection is evicted through remove_connection. *)
RemoveUnhealthy(c) ==
    /\ poolPc[c] = "health" /\ CanRun(c)
    /\ Enqueue(c)
    /\ Go(c, "remove")
    /\ UNCHANGED <<calls, target, walkVars, connVars>>

Unhealthy(c) ==
    /\ poolPc[c] = "health" /\ CanRun(c)
    /\ Drop({target[c]}) /\ Walk(c, Peers)
    /\ Go(c, "count")
    /\ UNCHANGED <<calls, target, lockq>>

(* active_connection_count: one slot after the other.  try_lock misses a   *)
(* slot that a caller has, and one that another thread is looking at.      *)
CountSlot(c) ==
    /\ poolPc[c] = "count"
    /\ \E w \in unseen[c] :
         /\ unseen' = [unseen EXCEPT ![c] = @ \ {w}]
         /\ \/ w \in live /\ Unlocked(w) /\ seen' = [seen EXCEPT ![c] = @ \cup {w}]
            \/ (w \notin live \/ ~Unlocked(w) \/ OthersLook(c)) /\ UNCHANGED seen
    /\ UNCHANGED <<calls, poolPc, target, lockq, connVars>>

AtCap(c) == Cardinality(seen[c]) >= MaxConnections

Counted(c) ==
    /\ poolPc[c] = "count" /\ unseen[c] = {}
    /\ IF AtCap(c) THEN Go(c, "choose") /\ Walk(c, Peers \ {target[c]})
                   ELSE Go(c, "connect") /\ Walk(c, {})
    /\ UNCHANGED <<calls, target, lockq, connVars>>

(* try_evict_oldest: again one slot after the other, and each that can be  *)
(* looked at is older than the oldest so far or not.  Ages are left out.   *)
ChooseSlot(c) ==
    /\ poolPc[c] = "choose"
    /\ \E w \in unseen[c] :
         /\ unseen' = [unseen EXCEPT ![c] = @ \ {w}]
         /\ \/ w \in live /\ Unlocked(w) /\ seen' = [seen EXCEPT ![c] = {w}]
            \/ UNCHANGED seen
    /\ UNCHANGED <<calls, poolPc, target, lockq, connVars>>

(* The slot chosen is emptied if it can be locked, whatever it now holds. *)
EvictOldest(c) ==
    /\ poolPc[c] = "choose" /\ unseen[c] = {}
    /\ \/ (\A w \in seen[c] : Unlocked(w)) /\ Drop(seen[c])
       \/ (OthersLook(c) \/ \E w \in seen[c] : ~Unlocked(w)) /\ UNCHANGED connVars
    /\ Go(c, "connect") /\ Walk(c, {})
    /\ UNCHANGED <<calls, target, lockq>>

Connect(c) ==
    /\ poolPc[c] = "connect" /\ CanRun(c)
    /\ live' = live \cup {target[c]}
    /\ Unlock(c)
    /\ Go(c, "use")
    /\ UNCHANGED <<calls, target, walkVars, expired>>

(* No endpoint, or nobody answers. *)
CannotConnect(c) ==
    /\ poolPc[c] = "connect" /\ CanRun(c)
    /\ Unlock(c)
    /\ Go(c, "idle")
    /\ UNCHANGED <<calls, target, walkVars, connVars>>

----------------------------------------------------------------------------
CallEnds(c) ==
    /\ poolPc[c] = "use" /\ CanRun(c)
    /\ Go(c, "idle")
    /\ UNCHANGED <<calls, target, lockq, walkVars, connVars>>

(* remove_connection, of submit_to_worker *)
CallFails(c) ==
    /\ poolPc[c] = "use" /\ CanRun(c)
    /\ IF Unlocked(target[c])
       THEN Drop({target[c]}) /\ Go(c, "idle") /\ UNCHANGED lockq
       ELSE Enqueue(c) /\ Go(c, "remove") /\ UNCHANGED connVars
    /\ UNCHANGED <<calls, target, walkVars>>

RemoveConnection(c) ==
    /\ poolPc[c] = "remove" /\ Owns(c) /\ CanRun(c)
    /\ Drop({target[c]})
    /\ Unlock(c)
    /\ Go(c, "idle")
    /\ UNCHANGED <<calls, target, walkVars>>

(* Time passes, and evict_stale_connections comes to a slot. *)
ConnectionExpires(w) ==
    /\ w \in live /\ w \notin expired
    /\ expired' = expired \cup {w}
    /\ UNCHANGED <<calls, poolPc, target, lockq, walkVars, live>>

EvictStale(w) ==
    /\ w \in expired /\ Unlocked(w)
    /\ Drop({w})
    /\ UNCHANGED <<calls, poolPc, target, lockq, walkVars>>

CallerStep(c) ==
    \/ TakeSlot(c) \/ Validate(c) \/ Healthy(c) \/ Unhealthy(c)
    \/ CountSlot(c) \/ Counted(c) \/ ChooseSlot(c) \/ EvictOldest(c)
    \/ Connect(c) \/ CannotConnect(c) \/ CallEnds(c) \/ CallFails(c) \/ RemoveConnection(c)

PoolNext ==
    \/ \E c \in Callers : BeginCall(c) \/ CallerStep(c)
    \/ \E w \in Peers : ConnectionExpires(w) \/ EvictStale(w)

(* Futures that can be polled are; health checks and connects come back. *)
PoolFairness == \A c \in Callers : WF_poolVars(CallerStep(c))

PoolSpec == PoolInit /\ [][PoolNext]_poolVars /\ PoolFairness

----------------------------------------------------------------------------
(* A caller that found no usable connection, up to the one it makes. *)
Connecting(c) == poolPc[c] \in {"count", "choose", "connect"}

(* "No double-connect race: the per-worker AsyncMutex ensures only one     *)
(* caller at a time attempts to establish a new connection to any given    *)
(* worker" (get_connection), and its slot stays empty until it has: nobody *)
(* is given a connection that is about to be replaced, whatever evictions, *)
(* removals and other callers do to the slots in between.                  *)
ConnectsOnce ==
    \A c \in Callers : Connecting(c) =>
        /\ target[c] \notin live
        /\ \A d \in Callers \ {c} : Connecting(d) => target[d] # target[c]

(* remove_connection awaits a slot under the guard of the shard, and the   *)
(* owner of the slot cannot be polled: the thread of its task, or every    *)
(* thread, is blocked in entry() until there is no guard.                  *)
GuardCircle ==
    \E c \in Callers :
        /\ poolPc[c] = "remove"
        /\ LET owner == Head(lockq[target[c]])
               blocked == {d \in Callers : poolPc[d] = "entry"}
           IN  \/ \E d \in blocked : TaskOf[d] = TaskOf[owner]
               \/ Cardinality(blocked) >= Threads

(* Nothing but the guard of remove_connection can keep a call of the pool  *)
(* from returning: callers that hold their worker's slot and look at those *)
(* of the others never wait for each other ("using try_lock to avoid       *)
(* blocking or deadlocking").                                              *)
CallsReturnOrCircle ==
    \A c \in Callers : poolPc[c] # "idle" ~> poolPc[c] = "idle" \/ GuardCircle

(* What compute_execution_levels says of the stages of a level, that they  *)
(* may be executed in parallel "since they don't depend on each other",    *)
(* for their calls to the workers: each of them returns.                   *)
CallsReturn == \A c \in Callers : poolPc[c] # "idle" ~> poolPc[c] = "idle"
=============================================================================
