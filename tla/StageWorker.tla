----------------------------- MODULE StageWorker -----------------------------
(***************************************************************************)
(* What a coordinator may rely on of a worker that runs its stages (the    *)
(* submit_stage and cancel_query actions and the do_get of a stage result),*)
(* without connections, blocking tasks, temporary tables or handles: a     *)
(* call is answered once, an answer of success and the result it names     *)
(* come in the same step, only such a call's result is ever held, and a    *)
(* cancellation that is over has left none of its query's.                 *)
(***************************************************************************)
CONSTANTS Calls, Keys, QueryOf, Queries, None

VARIABLES
    stage,   \* the stage each call is for
    said,    \* per call: "nothing", "working", "ok", "error" or "timeout"
    held,    \* per stage, the call whose result can be fetched, or None
    asked    \* the query being cancelled, or None

workerVars == <<stage, said, held, asked>>

WorkerInit ==
    /\ stage \in [Calls -> Keys]
    /\ said = [c \in Calls |-> "nothing"]
    /\ held = [k \in Keys |-> None]
    /\ asked = None

Say(c, what) == said' = [said EXCEPT ![c] = what]

Begin(c) ==
    /\ said[c] = "nothing" /\ Say(c, "working")
    /\ UNCHANGED <<stage, held, asked>>

(* The newest result of a stage replaces an older one. *)
Succeed(c) ==
    /\ said[c] \in {"nothing", "working"} /\ Say(c, "ok")
    /\ held' = [held EXCEPT ![stage[c]] = c]
    /\ UNCHANGED <<stage, asked>>

Fail(c) ==
    /\ said[c] \in {"nothing", "working"}
    /\ Say(c, "error") \/ Say(c, "timeout")
    /\ UNCHANGED <<stage, held, asked>>

Keeping(ks) == held' = [k \in Keys |-> IF k \in ks THEN held[k] ELSE None]

Cancel(q) ==
    /\ asked = None /\ asked' = q
    /\ UNCHANGED <<stage, said, held>>

CancelEnds ==
    /\ asked # None /\ asked' = None
    /\ Keeping({k \in Keys : QueryOf[k] # asked})
    /\ UNCHANGED <<stage, said>>

(* Results that are too old go together. *)
Expire ==
    /\ \E ks \in SUBSET Keys : Keeping(ks)
    /\ UNCHANGED <<stage, said, asked>>

WorkerNext ==
    \/ \E c \in Calls : Begin(c) \/ Succeed(c) \/ Fail(c)
    \/ \E q \in Queries : Cancel(q)
    \/ CancelEnds \/ Expire

WorkerSpec == WorkerInit /\ [][WorkerNext]_workerVars
=============================================================================
