----------------------------- MODULE MCEventLog -----------------------------
(***************************************************************************)
(* Two shards.  The first loses a worker and runs the test again; the      *)
(* second has a test that fails twice, alike, in its teardown.  A third    *)
(* test is finalized without being selected, and the controller calls      *)
(* passed what was never seen to pass.                                     *)
(***************************************************************************)
EXTENDS EventLog

Result(phase, status) == [phase |-> phase, status |-> status]

Run(test, attempt, status, phases) ==
  [test |-> test, attempt |-> attempt, status |-> status, phases |-> phases]

TwoShards ==
  [first |-> << Run("a", 1, "CRASH", << >>),
                Run("a", 2, "INFRA_ERROR", << >>) >>,
   second |-> << Run("b", 1, "ERROR_TEARDOWN",
                     <<Result("teardown", "ERROR_TEARDOWN"),
                       Result("teardown", "ERROR_TEARDOWN")>>) >>]

Selection ==
  << Fact("test_selected", "a", 0, "none", << >>),
     Fact("test_selected", "b", 0, "none", << >>) >>

Finalization ==
  << Fact("test_finalized", "a", 0, "PASS", << >>),
     Fact("test_finalized", "c", 0, "PASS", << >>) >>

Renumbered == {Event(3, Fact("attempt_started", "d", 1, "none", << >>))}
=============================================================================
