-------------------------- MODULE MCFixtureRuntime --------------------------
(***************************************************************************)
(* A batch of seven tests of two modules in turn, the fifth skipped.  The  *)
(* session's connection is below the module's table, which is below a      *)
(* test's row and cursor; the clock of the session has no finalizer; ring  *)
(* and knot need each other, wide asks for what does not outlive a test,   *)
(* and a test asks for something that is not a fixture.                    *)
(***************************************************************************)
EXTENDS FixtureRuntime

Registry ==
  {"connection", "clock", "table", "row", "cursor", "ring", "knot", "wide"}

Scopes ==
  [f \in Registry |->
     CASE f \in {"connection", "clock", "wide"} -> "session"
       [] f = "table" -> "module"
       [] OTHER -> "test"]

Dependencies ==
  [connection |-> << >>, clock |-> <<"connection">>, table |-> <<"clock">>,
   row |-> <<"table", "connection">>, cursor |-> <<"row">>,
   ring |-> <<"knot">>, knot |-> <<"ring">>, wide |-> <<"clock", "row">>]

Generators == {"connection", "table", "row", "cursor", "ring"}

Interleaved == <<"m", "n", "m", "n", "m", "n", "n">>

Requests ==
  << <<"cursor">>, <<"connection", "ring">>, <<"table", "absent">>, <<"row">>,
     << >>, <<"table">>, <<"wide">> >>
=============================================================================
