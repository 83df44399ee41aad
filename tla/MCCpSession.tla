---------------------------- MODULE MCCpSession ----------------------------
(***************************************************************************)
(* TLC instances of CpSession.                                             *)
(***************************************************************************)
EXTENDS CpSession, TLC

CONSTANTS k1, k2, recv

=============================================================================
