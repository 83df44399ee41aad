-------------------------- MODULE PlacementMetadata --------------------------
(***************************************************************************)
(* What the planner knows of the epochs a worker holds                     *)
(* (planner/storage_metadata.rs): StorageEngineMetadata::refresh asks the  *)
(* engine, call by call, and publishes a ClusterMetadata from which        *)
(* epochs_for answers.  The engine commits and drops epochs meanwhile, and *)
(* refreshes overlap.                                                      *)
(***************************************************************************)
EXTENDS Naturals, FiniteSets, Functions

CONSTANTS
    Refreshes,   \* calls of refresh
    TimeRange,   \* (dataset, epoch) -> <<start inclusive, end exclusive>>
    MaxTime      \* u64::MAX

ASSUME TimesAssumption ==
    /\ MaxTime \in Nat
    /\ \A k \in DOMAIN TimeRange : TimeRange[k] \in (0..MaxTime) \X (0..MaxTime)

VARIABLES
    held,        \* the epochs the engine holds
    refresh,     \* each call: [at, snap, toList, views, toStat, stayed], see NoRefresh
    published    \* cached_metadata, and what had stayed when it was published

metaVars == <<held, refresh, published>>

AllEpochs == DOMAIN TimeRange
DatasetOf(k) == k[1]
Datasets == {DatasetOf(k) : k \in AllEpochs}

(* at: "no", "list", "stats" or "over"; snap: memory_stats; toList and     *)
(* toStat: calls still to make; views: the epochs whose view was found;    *)
(* stayed: the epochs held ever since the call began.                      *)
NoRefresh == [at |-> "no", snap |-> {}, toList |-> {}, views |-> {}, toStat |-> {}, stayed |-> {}]
NothingKnown == [index |-> [d \in Datasets |-> <<>>], stayed |-> {}]

MetadataInit ==
    /\ held \in SUBSET AllEpochs
    /\ refresh = [r \in Refreshes |-> NoRefresh]
    /\ published = NothingKnown

----------------------------------------------------------------------------
(* A ClusterMetadata: the placements of each dataset, sorted by time. *)
Placement(k, range) == [epoch |-> k, range |-> range]

(* epoch_start < query_end && epoch_end > query_start *)
OverlapsTimeRange(p, start, end) == p.range[1] < end /\ p.range[2] > start

(* Mutant: an epoch without a view gets an empty range. *)
EmptyRange(k, views) == IF k \in views THEN TimeRange[k] ELSE <<0, 0>>

(* The default of an epoch whose view was not found matches every query. *)
RangeKnown(k, views) == IF k \in views THEN TimeRange[k] ELSE <<0, MaxTime>>

(* sort_epochs_by_time: the orders the epochs of a dataset may be in.  The *)
(* sort is by the start alone, and of two that start together the one that *)
(* was registered first comes first: either, memory_stats has no order.    *)
SortEpochsByTime(ps) ==
    {s \in Bijection(1..Cardinality(ps), ps) :
        \A i, j \in DOMAIN s : i < j => s[i].range[1] <= s[j].range[1]}

RegisterEpochs(ks, views) ==
    LET orders == [d \in Datasets |->
            SortEpochsByTime({Placement(k, RangeKnown(k, views)) :
                                k \in {e \in ks : DatasetOf(e) = d}})]
    IN  {index \in [Datasets -> UNION Range(orders)] : \A d \in Datasets : index[d] \in orders[d]}

(* The places in the dataset's list that are returned, in their order.     *)
(* None is the whole of that side: 0 and u64::MAX.                         *)
EpochsFor(index, d, start, end) ==
    {i \in DOMAIN index[d] : OverlapsTimeRange(index[d][i], start, end)}

----------------------------------------------------------------------------
(* The engine. *)
CommitEpoch(k) ==
    /\ k \notin held /\ held' = held \cup {k}
    /\ UNCHANGED <<refresh, published>>

DropEpoch(k) ==
    /\ k \in held /\ held' = held \ {k}
    /\ refresh' = [r \in Refreshes |-> [refresh[r] EXCEPT !.stayed = @ \ {k}]]
    /\ published' = [published EXCEPT !.stayed = @ \ {k}]

(* refresh *)
MemoryStats(r) ==
    /\ refresh[r].at = "no"
    /\ refresh' = [refresh EXCEPT ![r] =
           [at |-> "list", snap |-> held, toList |-> {DatasetOf(k) : k \in held}, views |-> {},
            toStat |-> held, stayed |-> held]]
    /\ UNCHANGED <<held, published>>

(* A dataset that cannot be listed is warned about. *)
ListEpochs(r, d) ==
    /\ refresh[r].at = "list" /\ d \in refresh[r].toList
    /\ \E found \in {{}, {k \in held : DatasetOf(k) = d}} :
         refresh' = [refresh EXCEPT ![r].toList = @ \ {d}, ![r].views = @ \cup found]
    /\ UNCHANGED <<held, published>>

Listed(r) ==
    /\ refresh[r].at = "list" /\ refresh[r].toList = {}
    /\ refresh' = [refresh EXCEPT ![r].at = "stats"]
    /\ UNCHANGED <<held, published>>

(* An epoch that is gone keeps the counts of memory_stats. *)
GetEpochStats(r, k) ==
    /\ refresh[r].at = "stats" /\ k \in refresh[r].toStat
    /\ refresh' = [refresh EXCEPT ![r].toStat = @ \ {k}]
    /\ UNCHANGED <<held, published>>

(* memory_stats or get_epoch_stats fails. *)
RefreshFails(r) ==
    /\ refresh[r].at = "no" \/ (refresh[r].at = "stats" /\ refresh[r].toStat # {})
    /\ refresh' = [refresh EXCEPT ![r] = [NoRefresh EXCEPT !.at = "over"]]
    /\ UNCHANGED <<held, published>>

Publish(r) ==
    /\ refresh[r].at = "stats" /\ refresh[r].toStat = {}
    /\ \E index \in RegisterEpochs(refresh[r].snap, refresh[r].views) :
         published' = [index |-> index, stayed |-> refresh[r].stayed]
    /\ refresh' = [refresh EXCEPT ![r] = [NoRefresh EXCEPT !.at = "over"]]
    /\ UNCHANGED held

MetadataNext ==
    \/ \E k \in AllEpochs : CommitEpoch(k) \/ DropEpoch(k)
    \/ \E r \in Refreshes :
         \/ MemoryStats(r) \/ Listed(r) \/ RefreshFails(r) \/ Publish(r)
         \/ \E d \in Datasets : ListEpochs(r, d)
         \/ \E k \in AllEpochs : GetEpochStats(r, k)

MetadataSpec == MetadataInit /\ [][MetadataNext]_metaVars

----------------------------------------------------------------------------
(* An epoch that has been held since before the refresh that was published *)
(* last is in the answer to every query whose time range it overlaps,      *)
(* once, whatever was committed, dropped or could not be listed while the  *)
(* refresh ran (refresh, overlaps_time_range).                             *)
StableEpochsAreFound ==
    \A k \in published.stayed : \A start, end \in 0..MaxTime :
        OverlapsTimeRange(Placement(k, TimeRange[k]), start, end) =>
            LET found == EpochsFor(published.index, DatasetOf(k), start, end)
            IN  Cardinality({i \in found : published.index[DatasetOf(k)][i].epoch = k}) = 1
=============================================================================
