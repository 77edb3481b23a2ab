--------------------------- MODULE MCCoordinator ----------------------------
(***************************************************************************)
(* Small instances of Coordinator for TLC.  One status stands for each way *)
(* the retry policy and the verdict treat an attempt: ERROR_SETUP,         *)
(* ERROR_TEARDOWN and TIMEOUT are treated as FAIL, SKIP as XFAIL.          *)
(***************************************************************************)
EXTENDS Coordinator

RepresentativeStatuses ==
  {"PASS", "FAIL", "XFAIL", "XPASS", "CRASH", "INFRA_ERROR", "CANCELLED"}
=============================================================================
