----------------------------- MODULE EpochStore -----------------------------
(***************************************************************************)
(* What the storage engine promises of an epoch (the StorageEngine trait,  *)
(* engine/storage_engine.rs), without channel, actor, buffers or callers:  *)
(* its rows become visible all at once, never change, and go all at once.  *)
(* A load the engine fails (flush, finish, shutdown), and a drop that      *)
(* fails, leave a wreck: a table that holds the epoch's name for as long   *)
(* as the worker runs.  A load whose source fails stays open.              *)
(***************************************************************************)
EXTENDS Naturals

CONSTANT Keys

VARIABLES
    state,  \* per key: "fresh", "loading", "visible" or "wreck"
    size    \* rows of the visible epochs

storeVars == <<state, size>>

StoreInit == state = [k \in Keys |-> "fresh"] /\ size = [k \in Keys |-> 0]

Load(k) ==
    /\ state[k] = "fresh"
    /\ state' = [state EXCEPT ![k] = "loading"]
    /\ UNCHANGED size

Publish(k) ==
    /\ state[k] = "loading"
    /\ state' = [state EXCEPT ![k] = "visible"]
    /\ size'[k] \in Nat \ {0}
    /\ size' = [size EXCEPT ![k] = size'[k]]

(* Some of the loads fail; all of them when the engine is shut down. *)
Abort ==
    /\ \E failed \in SUBSET {k \in Keys : state[k] = "loading"} :
         state' = [k \in Keys |-> IF k \in failed THEN "wreck" ELSE state[k]]
    /\ UNCHANGED size

Drop(k) ==
    /\ state[k] = "visible"
    /\ \E after \in {"fresh", "wreck"} : state' = [state EXCEPT ![k] = after]
    /\ size' = [size EXCEPT ![k] = 0]

StoreNext == Abort \/ \E k \in Keys : Load(k) \/ Publish(k) \/ Drop(k)

StoreSpec == StoreInit /\ [][StoreNext]_storeVars
=============================================================================
