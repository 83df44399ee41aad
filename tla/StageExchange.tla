--------------------------- MODULE StageExchange ---------------------------
(***************************************************************************)
(* Moving rows between stages (executor/exchange.rs, executor/skew.rs and  *)
(* the output side of executor/stage.rs).                                  *)
(*                                                                         *)
(* A batch is a relation (module StageSql).  A stage leaves, on each of    *)
(* its workers, a sequence of batches; an exchange turns the batches of    *)
(* all source workers into the batches one target worker gets.  Hashing is *)
(* abstract: the typed hash of a key is the sum of its values, the hash of *)
(* the key's text (which only skewed batches use) is that plus one.        *)
(***************************************************************************)
EXTENDS StageSql

CONSTANT MinRowsForSkew     \* SkewHandlingConfig::min_rows_for_skew_detection

(* A table no batch arrived for is not registered: SQL naming it fails. *)
Registered(batches) ==
    IF batches = <<>> \/ (\E i \in DOMAIN batches : ~batches[i].ok) THEN Bad
    ELSE Rel(batches[1].cols, FlattenSeq([i \in DOMAIN batches |-> batches[i].rows]))

----------------------------------------------------------------------------
(* resolve_column_indices: the qualified name, then the bare name. *)
FindColumn(cols, c) ==
    IF c \in cols THEN {c} ELSE {d \in cols : d[2] = c[2]}

Resolvable(b, keys) == \A i \in DOMAIN keys : FindColumn(b.cols, keys[i]) # {}

KeyOf(b, keys, r) ==
    [i \in DOMAIN keys |-> r[CHOOSE d \in FindColumn(b.cols, keys[i]) : TRUE] - NULL]

HashColumnValue(b, keys, r) == SumOf(KeyOf(b, keys, r))

HashPartitionBatchTraditional(b, keys, parts) ==
    [p \in 1..parts |->
        SelectSeq(b.rows, LAMBDA r : (HashColumnValue(b, keys, r) % parts) + 1 = p)]

(* Skew: the coefficient of variation of the rows per key exceeds 3/2.     *)
(* With n keys, T rows and S the sum of the squared counts that is         *)
(* n*S/T^2 - 1 > 9/4.                                                      *)
AnalyzeKeyDistribution(b, keys) ==
    LET ks == {KeyOf(b, keys, b.rows[i]) : i \in DOMAIN b.rows} IN
    [k \in ks |-> Cardinality({i \in DOMAIN b.rows : KeyOf(b, keys, b.rows[i]) = k})]

SkewThresholdExceeded(counts, total) ==
    LET squares == FoldFunction(LAMBDA c, acc : acc + c * c, 0, counts)
    IN  4 * Cardinality(DOMAIN counts) * squares > 13 * total * total

DetectSkew(b, keys) ==
    /\ Len(b.rows) >= MinRowsForSkew
    /\ b.rows # <<>>
    /\ SkewThresholdExceeded(AnalyzeKeyDistribution(b, keys), Len(b.rows))

(* The most frequent five percent of the keys, at most twenty, in one of   *)
(* the orders the hash set of their texts can iterate in.                  *)
TopKeys(counts) ==
    LET n == Cardinality(DOMAIN counts)
        most == (n * 5) \div 100
        byCount == SetToSortSeq(DOMAIN counts, LAMBDA j, k : counts[j] > counts[k])
    IN  SubSeq(byCount, 1, IF most > 20 THEN 20 ELSE most)

SkewedPartition(b, keys, parts, r) ==
    LET top == TopKeys(AnalyzeKeyDistribution(b, keys))
        k == KeyOf(b, keys, r)
    IN  IF k \in Range(top) THEN (((CHOOSE i \in DOMAIN top : top[i] = k) - 1) % parts) + 1
        ELSE ((HashColumnValue(b, keys, r) + 1) % parts) + 1

(* concatenate_batches_with_schema keeps the second of two non-empty       *)
(* batches, so a partition ends with the last row put into it.             *)
ConcatenateBatchesWithSchema(b1, b2) ==
    IF b1 = <<>> THEN b2 ELSE IF b2 = <<>> THEN b1 ELSE b2

HandleSkewedPartitioning(b, keys, parts) ==
    [p \in 1..parts |->
        FoldLeft(LAMBDA acc, r : ConcatenateBatchesWithSchema(acc, <<r>>), <<>>,
                 SelectSeq(b.rows, LAMBDA r : SkewedPartition(b, keys, parts, r) = p))]

HashPartitionBatch(b, keys, parts) ==
    IF DetectSkew(b, keys) THEN HandleSkewedPartitioning(b, keys, parts)
    ELSE HashPartitionBatchTraditional(b, keys, parts)

----------------------------------------------------------------------------
(* What submit_stage stores of a stage's result: the one batch (empty but  *)
(* with its schema when there are no rows), or the non-empty partitions of *)
(* an output that a hash exchange will read.                               *)
PartitionBatches(rel, out) ==
    LET parts == HashPartitionBatch(rel, out.keys, out.parts) IN
    [p \in 1..out.parts |-> IF parts[p] = <<>> THEN <<>> ELSE <<Rel(rel.cols, parts[p])>>]

StoreOutput(rel, out) ==
    CASE ~rel.ok -> <<Bad>>
      [] out.parts = 0 -> <<rel>>
      [] rel.rows = <<>> -> <<>>
      [] ~Resolvable(rel, out.keys) -> <<Bad>>
      [] OTHER -> FlattenSeq(PartitionBatches(rel, out))

----------------------------------------------------------------------------
(* The in-process exchange. *)

(* execute_gather, execute_broadcast: everything every source produced. *)
ExecuteGather(sources) == FlattenSeq(sources)

(* Mutant: every reader takes every partition. *)
EveryPartition(sources, x, owner, w) == ExecuteGather(sources)

(* execute_hash_partition_for_worker: the rows of the partitions w owns,   *)
(* or an empty batch that keeps the schema.                                *)
ExecuteHashPartitionForWorker(sources, x, owner, w) ==
    LET all == FlattenSeq(sources)
        mine(b) == LET parts == HashPartitionBatch(b, x.keys, x.parts)
                       local == SelectSeq([p \in 1..x.parts |-> p], LAMBDA p : owner[p] = w)
                   IN  FlattenSeq([i \in DOMAIN local |-> parts[local[i]]])
    IN  IF all = <<>> THEN <<>>
        ELSE IF ~Resolvable(all[1], x.keys) THEN <<Bad>>
        ELSE <<Rel(all[1].cols, FlattenSeq([i \in DOMAIN all |-> mine(all[i])]))>>

ExchangeForWorker(e, sources, w) ==
    IF e.kind.kind = "hash" THEN ExecuteHashPartitionForWorker(sources, e.kind, e.owner, w)
    ELSE ExecuteGather(sources)

----------------------------------------------------------------------------
(* The exchange over Flight: a worker the exchange does not target gets no *)
(* batches; a broadcast fetches from the first source only; the tickets    *)
(* made up for the partitions of an output name nothing a worker could     *)
(* serve, and any source that cannot be fetched fails the exchange.        *)
FetchFromWorker(batches, partitioned) == IF partitioned THEN <<Bad>> ELSE batches

DistributedInput(e, sources, w) ==
    LET fetched == [i \in DOMAIN sources |-> FetchFromWorker(sources[i], e.kind.kind = "hash")] IN
    CASE e.kind.kind = "hash" -> ExecuteHashPartitionForWorker(fetched, e.kind, e.owner, w)
      [] w \notin Range(e.kind.targets) -> <<>>
      [] e.kind.kind = "broadcast" -> fetched[1]
      [] OTHER -> ExecuteGather(fetched)
=============================================================================
