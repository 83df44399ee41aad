------------------------------ MODULE LdpPlan ------------------------------
(***************************************************************************)
(* A plan cut into stages (ldp/types.rs): its stages in the order the      *)
(* cutter made them, the last being the root, and the edges between them,  *)
(* each an exchange.                                                       *)
(***************************************************************************)
EXTENDS Sequences, FiniteSets, SequencesExt

Exchange(kind, keys, parts, targets) ==
    [kind |-> kind, keys |-> keys, parts |-> parts, targets |-> targets]
Gather(w) == Exchange("gather", <<>>, 0, <<w>>)
Broadcast(ws) == Exchange("broadcast", <<>>, 0, ws)
HashPartition(keys, n) == Exchange("hash", keys, n, <<>>)

(* The stages that can run once those of done have. *)
ReadyStages(p, done) ==
    {s \in DOMAIN p.stages \ done :
        \A i \in DOMAIN p.edges : p.edges[i].to = s => p.edges[i].from \in done}
=============================================================================
