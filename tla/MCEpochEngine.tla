--------------------------- MODULE MCEpochEngine ---------------------------
(***************************************************************************)
(* TLC instance of EpochEngine: the engine with arbitrary callers.         *)
(***************************************************************************)
EXTENDS EpochEngine

CONSTANTS k1, ds

MCDatasetOf == [k \in Keys |-> ds]
MCPrefixed  == [d \in Datasets |-> {k \in Keys : DatasetOf[k] = d}]

=============================================================================
