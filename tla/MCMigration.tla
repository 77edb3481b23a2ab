---------------------------- MODULE MCMigration ----------------------------
(***************************************************************************)
(* Two migrations of one suite of two files to one output: the first in    *)
(* any mode and with a report, the second to publish, without one.         *)
(***************************************************************************)
EXTENDS Migration

AnyThenPublish ==
  [first |-> {"dry-run", "check", "publish"}, second |-> {"publish"}]

FirstReports == [first |-> "report.json", second |-> "none"]
=============================================================================
