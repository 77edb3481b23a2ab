------------------------------- MODULE Parity -------------------------------
(***************************************************************************)
(* What a migration is validated by (migration_service.py): the sources    *)
(* are sorted out between the converters, the originals run once and the   *)
(* generated suite twice, every test a runner reports is matched with one  *)
(* the converters mapped, and the three runs must agree test by test.      *)
(* Migration takes the verdict for granted; here it is computed.           *)
(*                                                                         *)
(* The sources and the runners may disagree with the converters: tests the *)
(* converters do not know, tests the runner does not collect, a generated  *)
(* suite that lacks tests or has others, and any outcome of any test.      *)
(*                                                                         *)
(* A path is the sequence of its parts, and the dotted name by which a     *)
(* runner reports a module is the path without its first parts.            *)
(***************************************************************************)
EXTENDS Naturals, SequencesExt

CONSTANTS
  Suites,          \* [framework, files]: the files in the order of their paths
  SourceStatuses,  \* what a test of the originals may come to
  NativeStatuses,  \* and one of the generated suite
  Generated,       \* the identifiers of rows that have none, in order
  MaxSurprises     \* bound: tests of which runners and converters disagree

VARIABLES
  pc,
  suite,
  surprises,  \* pairs of a test and where it is missing, or "added"
  mappings,   \* the tests the converters mapped, in order
  did,        \* of each run: what every test did, and whether it was orderly
  summaries   \* the ValidationSummary of each run

vars == <<pc, suite, surprises, mappings, did, summaries>>

Files == DOMAIN suite.files
File(f) == suite.files[f]
Without(parts, n) == SubSeq(parts, n + 1, Len(parts))

-----------------------------------------------------------------------------
(***************************************************************************)
(* _convert_sources.  What a file declares has a kind: "function",         *)
(* "Test class", "TestCase", a class with tests that is "neither", or      *)
(* "import pytest".                                                        *)
(***************************************************************************)
Declares(f, kinds) == \E d \in Range(File(f).declares) : d.kind \in kinds

HasInventory(f) == Declares(f, {"function", "Test class", "TestCase", "neither"})
DetectPytest(f) == Declares(f, {"function", "Test class", "TestCase", "import pytest"})
DetectUnittest(f) == Declares(f, {"TestCase"})
HasNonUnittest(f) == Declares(f, {"function", "Test class", "neither"})

TestFile(f) == File(f).named \/ HasInventory(f)

ConvertedBy(f) ==
  CASE ~TestFile(f)                             -> "none"
    [] suite.framework # "auto"                 -> suite.framework
    [] DetectUnittest(f) /\ HasNonUnittest(f)   -> "mixed module"
    [] DetectUnittest(f) /\ ~HasNonUnittest(f)  -> "unittest"
    [] ~DetectUnittest(f) /\ DetectPytest(f)    -> "pytest"
    [] ~DetectPytest(f) /\ HasInventory(f)      -> "unknown"
    [] OTHER                                    -> "none"

Converters == {ConvertedBy(f) : f \in Files} \ {"none"}

\* Who runs the originals: pytest, if it may.
SourceRunner == IF "pytest" \in Converters THEN "pytest" ELSE "unittest"

\* migration_relative, under the name of a test module
Target(f) ==
  LET path == Without(File(f).path, File(f).root)
  IN IF ConvertedBy(f) = "none" THEN path ELSE Append(Front(path), File(f).target)

TestsOf(f, kinds) ==
  LET Rows(d) == [c \in DOMAIN d.cases |-> [file |-> f, kind |-> d.kind, name |-> d.name,
                                            case |-> d.cases[c]]]
  IN FlattenSeq([k \in DOMAIN File(f).declares |->
       IF File(f).declares[k].kind \in kinds THEN Rows(File(f).declares[k]) ELSE << >>])

KindsOf(framework) ==
  CASE framework = "pytest" -> {"function", "Test class"}
    [] framework = "unittest" -> {"TestCase"}
    [] OTHER -> {}

Convertible == FlattenSeq([f \in Files |-> TestsOf(f, KindsOf(ConvertedBy(f)))])

Present(tests, place) == SelectSeq(tests, LAMBDA t : <<t, place>> \notin surprises)

\* Diagnostics that block: modules of both kinds, or of none, and _merge_bundles.
Blocked ==
  \/ Converters \intersect {"mixed module", "unknown"} # {}
  \/ \E f, g \in Files : f # g /\ Target(f) = Target(g)
  \/ mappings = << >>

-----------------------------------------------------------------------------
(***************************************************************************)
(* The runs.  A runner reports entries: the path (dotted name) and the     *)
(* name of a test, its row, and what it came to.                           *)
(***************************************************************************)
Dotted(f) == Without(File(f).path, File(f).depth)

\* pytest runs the tests of unittest too, and unittest one test of each identity.
SourceTests ==
  LET all == FlattenSeq([f \in Files |->
               TestsOf(f, IF SourceRunner = "unittest" THEN {"TestCase"}
                          ELSE {"function", "Test class", "TestCase"})]) IN
  IF SourceRunner = "pytest" THEN all
  ELSE FoldLeft(LAMBDA unique, t :
                  IF \E u \in Range(unique) : Dotted(u.file) = Dotted(t.file) /\ u.name = t.name
                    THEN unique ELSE Append(unique, t),
                << >>, all)

\* A function that stands for a method is named after the method and its file.
TargetFunction(t) ==
  IF t.kind = "function" THEN t.name ELSE File(t.file).path \o t.name

\* _native_status
Collapsed(status) ==
  CASE status \in {"pass", "cached_pass"} -> "pass"
    [] status \in {"fail", "flaky"} -> "fail"
    [] status \in {"skip", "xfail", "xpass"} -> status
    [] OTHER -> "error"

Outcomes == {"pass", "fail", "error", "skip", "xfail", "xpass"}

-----------------------------------------------------------------------------
(***************************************************************************)
(* Matching: pairs of a mapping and the entry it is matched with.  No      *)
(* entry serves twice, and failing to match one mapping fails everything.  *)
(***************************************************************************)
Unmatched == [ok |-> TRUE, pairs |-> {}]
Unused(entries, found) == DOMAIN entries \ {pair[2] : pair \in found.pairs}

Take(found, m, candidates) ==
  IF found.ok /\ Cardinality(candidates) = 1
    THEN [found EXCEPT !.pairs = @ \union ({m} \X candidates)]
    ELSE [found EXCEPT !.ok = FALSE]

\* _pytest_class_matches
ClassMatches(entry, m) ==
  LET class == Front(m.name)
      classname == entry.path \o Front(entry.name)
      module == SubSeq(classname, 1, Len(classname) - Len(class))
      path == File(m.file).path
  IN /\ IsStrictSuffix(class, classname)
     /\ IsSuffix(module, path) \/ IsSuffix(path, module)

\* The rows of a function: those with an identifier by it, the others in order.
MatchRows(entries, found, rows) ==
  LET base == Head(rows)
      cases == {i \in Unused(entries, found) :
                  ClassMatches(entries[i], base) /\ Last(entries[i].name) = Last(base.name)}
      Explicit(m) == m.case \notin Range(Generated) \union {"none"}
      Labelled(m) == {i \in cases : entries[i].case = m.case}
      rest == SetToSortSeq(cases \ UNION {Labelled(m) : m \in {n \in Range(rows) : Explicit(n)}},
                           LAMBDA i, j : i < j)
      implicit == SelectSeq(rows, LAMBDA m : ~Explicit(m))
      Match(sofar, m) ==
        IF Explicit(m) THEN Take(sofar, m, Labelled(m))
        ELSE Take(sofar, m, {rest[k] : k \in {k \in DOMAIN rest : implicit[k] = m}})
  IN IF Cardinality(cases) # Len(rows) \/ Len(rest) # Len(implicit)
       THEN [found EXCEPT !.ok = FALSE]
       ELSE FoldLeft(Match, found, rows)

\* _map_pytest_outcomes, function by function in the order of the mappings
MatchPytest(entries) ==
  LET First(k) == \A j \in 1 .. k - 1 : \/ mappings[j].file # mappings[k].file
                                         \/ mappings[j].name # mappings[k].name
      RowsOf(m) == SelectSeq(mappings, LAMBDA n : n.file = m.file /\ n.name = m.name)
  IN FoldLeft(LAMBDA found, k : IF First(k) THEN MatchRows(entries, found, RowsOf(mappings[k]))
                                ELSE found,
              Unmatched, [k \in DOMAIN mappings |-> k])

\* _unittest_module_match_score
Score(module, path) == Len(LongestCommonPrefix({Reverse(module), Reverse(path)}))

\* Mutant: any module that ends like the path will do.
AnyScore(scores, i) == scores[i] > 0

BestScore(scores, i) == scores[i] > 0 /\ \A j \in DOMAIN scores : scores[j] <= scores[i]

\* _map_unittest_outcomes
MatchUnittest(entries) ==
  LET Match(found, m) ==
        LET scores == [i \in {i \in Unused(entries, found) : entries[i].name = m.name}
                         |-> Score(entries[i].path, File(m.file).path)]
        IN Take(found, m, {i \in DOMAIN scores : BestScore(scores, i)})
  IN FoldLeft(Match, Unmatched, mappings)

\* _map_native_outcomes
MatchNative(entries) ==
  LET Match(found, m) ==
        Take(found, m, {i \in Unused(entries, found) :
                          /\ entries[i].name = TargetFunction(m)
                          /\ IsSuffix(Target(m.file), entries[i].path)
                          /\ entries[i].case = m.case})
  IN FoldLeft(Match, Unmatched, mappings)

-----------------------------------------------------------------------------
(***************************************************************************)
(* Summaries and the verdict.                                              *)
(***************************************************************************)
Failed == [tests |-> 0, counts |-> [s \in Outcomes |-> IF s = "error" THEN 1 ELSE 0],
           exit |-> 1, outcomes |-> << >>]

\* Every mapping has its entry, and every entry its mapping.
Summary(entries, found) ==
  LET Of(s) == {i \in DOMAIN entries : entries[i].status = s}
  IN IF ~found.ok \/ Unused(entries, found) # {} THEN Failed
     ELSE [tests    |-> Len(entries),
           counts   |-> [s \in Outcomes |-> Cardinality(Of(s))],
           exit     |-> IF Of("fail") \union Of("error") \union Of("xpass") = {} THEN 0 ELSE 1,
           outcomes |-> [m \in Range(mappings) |->
                           entries[CHOOSE i \in DOMAIN entries : <<m, i>> \in found.pairs].status]]

Green(summary) ==
  /\ summary.exit = 0
  /\ summary.counts["fail"] + summary.counts["error"] + summary.counts["xpass"] = 0

\* _baseline_problem
BaselineHolds(summary) == Green(summary) /\ summary.tests = Len(mappings)

\* Mutant: the totals are compared.
SameTotals(baseline, candidate) ==
  baseline.tests = candidate.tests /\ baseline.counts = candidate.counts

SameOutcomes(baseline, candidate) ==
  /\ baseline.tests = candidate.tests /\ baseline.counts = candidate.counts
  /\ baseline.outcomes = candidate.outcomes

\* _candidate_problem
CandidateHolds(summary) == Green(summary) /\ SameOutcomes(summaries[1], summary)

-----------------------------------------------------------------------------
Init ==
  /\ pc = "convert"
  /\ suite \in Suites
  /\ surprises = {} /\ mappings = << >>
  /\ did = << >> /\ summaries = << >>

\* Something the converters did not see: a test of which one of the inventories
\* lacks, or a generated one that is nobody's.
Surprises ==
  {<<t, place>> : t \in Range(SourceTests), place \in {"mapping", "source", "candidate"}}
    \union {<<[t EXCEPT !.name = <<"more">>, !.kind = "function"], "added">> :
              t \in Range(Convertible)}

Convert ==
  /\ pc = "convert"
  /\ UNCHANGED <<suite, did, summaries>>
  /\ surprises' \in UNION {kSubset(n, Surprises) : n \in 0 .. MaxSurprises}
  /\ mappings' = SelectSeq(Convertible, LAMBDA t : <<t, "mapping">> \notin surprises')
  /\ pc' = IF Blocked' THEN "unsupported" ELSE "validate"

\* A run that is not orderly is out of time, has no report or fails by itself.
Conclude(behaviour, orderly, summary, holds) ==
  /\ did' = Append(did, [of |-> behaviour, orderly |-> orderly])
  /\ summaries' = Append(summaries, summary)
  /\ pc' = IF ~holds THEN "refused" ELSE IF Len(did) = 2 THEN "accepted" ELSE pc
  /\ UNCHANGED <<suite, surprises, mappings>>

\* _run_source_baseline
RunSource ==
  LET tests == Present(SourceTests, "source") IN
  /\ pc = "validate" /\ Len(did) = 0
  /\ \E behaviour \in [Range(tests) -> SourceStatuses], orderly \in BOOLEAN :
       LET entries == [k \in DOMAIN tests |->
                         [path |-> Dotted(tests[k].file), name |-> tests[k].name,
                          case |-> IF tests[k].case \in Range(Generated) THEN "unnamed"
                                   ELSE tests[k].case,
                          status |-> behaviour[tests[k]]]]
           found == IF SourceRunner = "pytest" THEN MatchPytest(entries)
                    ELSE MatchUnittest(entries)
           summary == IF orderly THEN Summary(entries, found) ELSE Failed
       IN Conclude(behaviour, orderly, summary, BaselineHolds(summary))

CandidateTests ==
  Present(mappings, "candidate")
    \o SetToSeq({s[1] : s \in {s \in surprises : s[2] = "added"}})

\* _run_native_candidate, serially and then in parallel, each in a fresh copy
RunCandidate ==
  LET tests == CandidateTests IN
  /\ pc = "validate" /\ Len(did) > 0
  /\ \E behaviour \in [Range(tests) -> NativeStatuses], orderly \in BOOLEAN :
       LET entries == [k \in DOMAIN tests |->
                         [path |-> <<"testenix_migrated">> \o Target(tests[k].file),
                          name |-> TargetFunction(tests[k]), case |-> tests[k].case,
                          status |-> Collapsed(behaviour[tests[k]])]]
           summary == IF orderly THEN Summary(entries, MatchNative(entries)) ELSE Failed
       IN Conclude(behaviour, orderly, summary, CandidateHolds(summary))

Ended == pc \in {"unsupported", "refused", "accepted"} /\ UNCHANGED vars

Next == Convert \/ RunSource \/ RunCandidate \/ Ended

Spec == Init /\ [][Next]_vars

-----------------------------------------------------------------------------
SourceInventory == Range(Present(SourceTests, "source"))

SameInventories == {SourceInventory, Range(CandidateTests)} = {Range(mappings)}

TestFiles == {f \in Files : TestFile(f)}

\* No test file is reported, or written, under the tail of another's name; where
\* unittest does not run the very tests that were mapped, no two test files are
\* called the same; and every mapped row that is told by its place only was run.
Distinguishable ==
  /\ \A f, g \in TestFiles : f # g =>
       /\ ~IsSuffix(Dotted(f), File(g).path) /\ ~IsSuffix(Target(f), Target(g))
       /\ SourceRunner = "unittest" /\ Last(File(f).path) = Last(File(g).path) =>
            SourceInventory = Range(mappings)
  /\ \A t \in Range(mappings) \ SourceInventory : t.case \notin Range(Generated)

Agree(k) ==
  /\ did[k].orderly
  /\ \A t \in Range(mappings) : /\ Collapsed(did[k].of[t]) = did[1].of[t]
                                /\ did[k].of[t] \in {"pass", "skip", "xfail"}

\* A suite that passes the validation is equivalent test by test: the originals,
\* the mappings and the generated suite have the very same tests, and in both
\* runs of the candidate each did what its original did, so that no two outcomes
\* that are swapped, and no two tests missing on opposite sides, make up for each
\* other.  Where the name of one module is the tail of another's, an outcome may
\* be taken for that of the wrong test (migrate, _candidate_problem).
ParityIsPerTest ==
  pc = "accepted" /\ Distinguishable => SameInventories /\ \A k \in 1 .. 3 : Agree(k)

\* And one that is equivalent is let pass: under the same condition the validation
\* fails for no other reason than a run that failed, an inventory that differs or
\* a test that did something else.
EquivalentSuitesPass ==
  pc = "refused" /\ Distinguishable => ~SameInventories \/ \E k \in DOMAIN did : ~Agree(k)
=============================================================================
