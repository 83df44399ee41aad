------------------------------- MODULE MCPool -------------------------------
(***************************************************************************)
(* TLC instances of WorkerConnections.                                     *)
(***************************************************************************)
EXTENDS WorkerConnections, TLC

CONSTANTS x1, x2, x3

(* Two stages of a level, and a caller of another query. *)
TwoTasks == x1 :> "level" @@ x2 :> "level" @@ x3 :> "other"

(* Three stages of one level. *)
OneLevel == [c \in Callers |-> "level"]
=============================================================================
