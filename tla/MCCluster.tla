----------------------------- MODULE MCCluster ------------------------------
(***************************************************************************)
(* The coordinator's side of a cluster: the execution of a plan, and the   *)
(* refresh of the metadata the planner reads.  They share no state, so a   *)
(* behaviour is one of one of them, and the other is over.                 *)
(***************************************************************************)
EXTENDS Coordinator, PlacementMetadata, TLC

CONSTANTS a, b

allVars == <<clusterVars, metaVars>>

(* A producer on two workers, executed twice; two producers and their      *)
(* join; a producer on two workers whose output is broadcast.              *)
MCPlans ==
    {[levels |-> <<{1}, {2}>>, sources |-> <<{}, {1}>>, broadcast |-> {},
      homes |-> <<<<a, b>>, <<a>>>>, runs |-> 2],
     [levels |-> <<{1, 2}, {3}>>, sources |-> <<{}, {}, {1, 2}>>, broadcast |-> {},
      homes |-> <<<<a>>, <<b>>, <<a>>>>, runs |-> 1],
     [levels |-> <<{1}, {2}>>, sources |-> <<{}, {1}>>, broadcast |-> {<<1, 2>>},
      homes |-> <<<<a, b>>, <<a>>>>, runs |-> 1]}

(* Two epochs of a dataset that overlap in time. *)
MCTimeRange == <<"d1", "e1">> :> <<0, 2>> @@ <<"d1", "e2">> :> <<1, 3>>

CoordinatorOver ==
    /\ plan = (CHOOSE p \in Plans : p.runs = 1 /\ p.broadcast = {}) /\ distributed = FALSE
    /\ run = MaxRuns /\ phase = "failed" /\ level = 1 /\ cancelled = FALSE
    /\ fut = NoFutures /\ status = [s \in AllStages |-> "none"]
    /\ jobs = {} /\ stored = {} /\ cancels = {}

(* Once its refreshes are over the metadata changes no more. *)
Refreshing == \E r \in Refreshes : refresh[r].at # "over"
MetadataOver ==
    /\ held = {} /\ refresh = [r \in Refreshes |-> [NoRefresh EXCEPT !.at = "over"]]
    /\ published = NothingKnown

Init ==
    \/ CoordinatorInit /\ MetadataOver
    \/ CoordinatorOver /\ MetadataInit

Next ==
    \/ CoordinatorNext /\ UNCHANGED metaVars
    \/ Refreshing /\ MetadataNext /\ UNCHANGED clusterVars

Spec == Init /\ [][Next]_allVars /\ CoordinatorFairness
=============================================================================
