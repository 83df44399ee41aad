--------------------------- MODULE MCStageService ---------------------------
(***************************************************************************)
(* TLC instances of StageService.                                          *)
(***************************************************************************)
EXTENDS StageService, TLC

CONSTANTS k1, k2, q1, q2

MCQueryOf == [k \in Keys |-> IF k = k1 THEN q1 ELSE q2]

=============================================================================
