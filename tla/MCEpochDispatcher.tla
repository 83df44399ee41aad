------------------------- MODULE MCEpochDispatcher -------------------------
(***************************************************************************)
(* TLC instances of EpochDispatcher.                                       *)
(***************************************************************************)
EXTENDS EpochDispatcher, TLC

CONSTANTS k1, k2, t1, t2, recv, ds

MCClients   == Tasks \cup {recv}
MCDatasetOf == [k \in Keys |-> ds]
MCPrefixed  == [d \in Datasets |-> {k \in Keys : DatasetOf[k] = d}]

=============================================================================
