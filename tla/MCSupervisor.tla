---------------------------- MODULE MCSupervisor ----------------------------
(***************************************************************************)
(* Small instances of Supervisor for TLC.                                  *)
(***************************************************************************)
EXTENDS Supervisor

CONSTANTS a, b

\* One shard that runs a, then b.
InOneShard == [i \in {a, b} |-> IF i = b THEN {a} ELSE {}]
=============================================================================
