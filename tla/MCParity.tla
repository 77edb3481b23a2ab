------------------------------ MODULE MCParity ------------------------------
(***************************************************************************)
(* Suites of one to three files: modules of the same name in two packages, *)
(* in a package and beside one, and below each other; rows with and        *)
(* without identifiers; suites of both frameworks, and what is refused.    *)
(***************************************************************************)
EXTENDS Parity

TestCase == [kind |-> "TestCase", name |-> <<"C", "f">>, cases |-> <<"none">>]
Function(name) == [kind |-> "function", name |-> <<name>>, cases |-> <<"none">>]
Method == [kind |-> "Test class", name |-> <<"Test", "f">>, cases |-> <<"none">>]
Rows == [kind |-> "function", name |-> <<"f">>,
         cases |-> <<"case-0001", "slow", "case-0003">>]
Neither == [kind |-> "neither", name |-> <<"K", "f">>, cases |-> <<"none">>]
Import == [kind |-> "import pytest", name |-> << >>, cases |-> << >>]

\* A file of which the runner drops depth parts, and the migration root parts.
At(path, depth, root, declares) ==
  [path |-> path, depth |-> depth, root |-> root, target |-> Last(path),
   named |-> TRUE, declares |-> declares]

Suite(framework, files) == [framework |-> framework, files |-> files]

Helper == [At(<<"t", "helper">>, 0, 1, << >>) EXCEPT !.named = FALSE]
Oddly == [At(<<"t", "x_test">>, 0, 1, <<Function("f")>>) EXCEPT !.target = "test_x"]

MCSuites == {
  Suite("unittest", <<At(<<"p", "test_x">>, 0, 0, <<TestCase>>),
                      At(<<"q", "test_x">>, 0, 0, <<TestCase>>)>>),
  Suite("unittest", <<At(<<"p", "a", "test_x">>, 2, 0, <<TestCase>>),
                      At(<<"q", "a", "test_x">>, 1, 0, <<TestCase>>)>>),
  Suite("unittest", <<At(<<"p", "test_x">>, 1, 0, <<TestCase>>),
                      At(<<"q", "test_x">>, 1, 0, <<TestCase>>)>>),
  Suite("unittest", <<At(<<"p", "test_x">>, 0, 0, <<TestCase>>),
                      At(<<"p", "test_y">>, 0, 0, <<TestCase>>)>>),
  Suite("pytest", <<At(<<"t", "test_x">>, 0, 1, <<Rows>>)>>),
  Suite("pytest", <<At(<<"t", "test_x">>, 0, 1, <<Function("f")>>),
                    At(<<"t", "unit", "test_x">>, 0, 1, <<Function("f")>>)>>),
  Suite("pytest", <<At(<<"p", "test_x">>, 0, 0, <<Function("f")>>),
                    At(<<"q", "test_x">>, 0, 0, <<Function("f"), Method>>)>>),
  Suite("auto", <<Helper, At(<<"t", "test_u">>, 1, 1, <<Import, TestCase>>),
                  At(<<"t", "test_x">>, 1, 1, <<Function("f"), Method>>)>>),
  Suite("auto", <<Helper, At(<<"t", "test_u">>, 0, 1, <<TestCase>>)>>),
  Suite("auto", <<At(<<"t", "test_x">>, 0, 1, <<Function("f"), TestCase>>)>>),
  Suite("auto", <<At(<<"t", "test_x">>, 0, 1, <<Neither>>)>>),
  Suite("auto", <<At(<<"t", "test_x">>, 0, 1, << >>)>>),
  Suite("pytest", <<At(<<"t", "test_x">>, 0, 1, <<Function("f")>>), Oddly>>)}

Numbered == <<"case-0001", "case-0002", "case-0003">>
=============================================================================
