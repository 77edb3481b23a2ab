---------------------------- MODULE Coordinator -----------------------------
(***************************************************************************)
(* _run of src/testenix/runner.py: collection, the first round of          *)
(* attempts, the retry rounds, finalization, and the reduction of the      *)
(* recorded events to the result.                                          *)
(*                                                                         *)
(* A round of attempts is what Pool promises of execute_shards, seen       *)
(* through the results the coordinator makes of it: every test handed out  *)
(* comes back with one status.  Tests are numbered in collection order,    *)
(* the order in which every loop of _run visits them.                      *)
(***************************************************************************)
EXTENDS Outcome

CONSTANTS
  Tests,           \* the tests the files may hold
  Retries,         \* config.retries
  UsesTags,        \* config.tags is not empty
  Matching,        \* the tests with every required tag
  SinkMayRaise,    \* the caller's event sink may raise
  AttemptStatuses  \* the statuses an attempt can end with

ASSUME ConstantsAssumption ==
  /\ Tests \subseteq Nat
  /\ Retries \in Nat
  /\ UsesTags \in BOOLEAN
  /\ Matching \subseteq Tests
  /\ SinkMayRaise \in BOOLEAN
  /\ AttemptStatuses \subseteq Statuses \ {"NOT_RUN", "FLAKY"}
  /\ "CANCELLED" \in AttemptStatuses

VARIABLES
  stage,         \* where _run is
  selected,      \* the tests left after the tag filter
  issues,        \* whether there are collection issues
  round,         \* 0 before the first round, 1 in it, 2 in the retry rounds
  pending,       \* the tests of the current, or next, round
  number,        \* the number each test's attempt has in that round
  refused,       \* the round was handed over after the cancellation
  waiting,       \* the tests of the round whose result is yet to be absorbed
  latest,        \* the status of the last attempt of each test
  attempts,      \* attempts_by_test
  retriesLeft,   \* user_retries_left
  recoveryUsed,  \* infrastructure_recovery_used
  verdict,       \* statuses published by TEST_FINALIZED
  log,           \* the events of the in-memory sink that the reducer reads
  result,        \* statuses of the RunResult
  cancelled      \* the supervisor was cancelled

vars == <<stage, selected, issues, round, pending, number, refused, waiting,
          latest, attempts, retriesLeft, recoveryUsed, verdict, log, result,
          cancelled>>

Stages == {"collecting", "scheduling", "running", "absorbing", "finalizing",
           "finishing", "recording", "returned", "aborted"}
Over == {"returned", "aborted"}

Events ==
  [kind : {"attempt"}, test : Tests, number : Nat, status : Statuses]
    \union [kind : {"final"}, test : Tests, number : {0}, status : Statuses]

First(tests) == CHOOSE t \in tests : \A u \in tests : t <= u

Init ==
  /\ stage = "collecting"
  /\ selected = {}
  /\ issues = FALSE
  /\ round = 0
  /\ pending = {}
  /\ number = [t \in Tests |-> 1]
  /\ refused = FALSE
  /\ waiting = {}
  /\ latest = [t \in Tests |-> "none"]
  /\ attempts = [t \in Tests |-> << >>]
  /\ retriesLeft = [t \in Tests |-> Retries]
  /\ recoveryUsed = [t \in Tests |-> FALSE]
  /\ verdict = [t \in Tests |-> "none"]
  /\ log = << >>
  /\ result = [t \in Tests |-> "none"]
  /\ cancelled = FALSE

-----------------------------------------------------------------------------
(***************************************************************************)
(* Collection and selection.                                               *)
(***************************************************************************)
\* Mutant: a tag filter that leaves nothing is not reported.
IssuesOfFiles(broken, collected) == broken \/ collected = {}

Selected(collected) == IF UsesTags THEN collected \intersect Matching ELSE collected

\* An empty collection, and a tag filter that selects nothing, are issues.
CollectionIssues(broken, collected) ==
  broken \/ collected = {} \/ (UsesTags /\ Selected(collected) = {})

\* Where the caller's sink may raise, an emission may also end the run.
AfterEmitting(next) == {next} \union (IF SinkMayRaise THEN {"aborted"} ELSE {})

\* A broken file is an issue of its own and leaves the other files' tests.  A
\* verified trusted manifest needs no worker: a cancellation leaves it usable.
Collect ==
  /\ stage = "collecting"
  /\ \E collected \in SUBSET Tests, broken \in BOOLEAN :
       /\ selected' = Selected(collected)
       /\ pending' = Selected(collected)
       /\ issues' = CollectionIssues(broken, collected)
       /\ stage' \in AfterEmitting(IF Selected(collected) = {}
                                   THEN "finalizing" ELSE "scheduling")
  /\ UNCHANGED <<round, number, refused, waiting, latest, attempts,
                 retriesLeft, recoveryUsed, verdict, log, result, cancelled>>

\* A cancelled collection worker raises CancelledError out of _run.
CollectionCancelled ==
  /\ stage = "collecting" /\ cancelled
  /\ stage' = "aborted"
  /\ UNCHANGED <<selected, issues, round, pending, number, refused, waiting,
                 latest, attempts, retriesLeft, recoveryUsed, verdict, log,
                 result, cancelled>>

-----------------------------------------------------------------------------
(***************************************************************************)
(* Rounds of attempts.                                                     *)
(***************************************************************************)
BeginRound ==
  /\ stage = "scheduling"
  /\ stage' = "running"
  /\ round' = IF round = 0 THEN 1 ELSE 2
  /\ refused' = cancelled
  /\ UNCHANGED <<selected, issues, pending, number, waiting, latest, attempts,
                 retriesLeft, recoveryUsed, verdict, log, result, cancelled>>

\* Every test of the round has a status.  A supervisor cancelled before the
\* round starts nothing; one never cancelled cancels nothing.
RoundReturns ==
  /\ stage = "running"
  /\ \E outcome \in [pending -> AttemptStatuses] :
       /\ refused => \A t \in pending : outcome[t] = "CANCELLED"
       /\ ~cancelled => \A t \in pending : outcome[t] # "CANCELLED"
       /\ latest' = [t \in Tests |-> IF t \in pending THEN outcome[t] ELSE latest[t]]
  /\ waiting' = pending
  /\ pending' = {}
  /\ stage' = "absorbing"
  /\ UNCHANGED <<selected, issues, round, number, refused, attempts,
                 retriesLeft, recoveryUsed, verdict, log, result, cancelled>>

Decision(t) == ShouldRetry(latest[t], retriesLeft[t], recoveryUsed[t])

\* Mutant: a retry is published under the number of the attempt it repeats.
SameNumber(t) == number[t]

NextNumber(t) == number[t] + 1

\* Charge the retries of the given tests to their budgets.
ScheduleRetries(tests) ==
  LET chosen(budget) == {t \in tests : Decision(t) = budget}
  IN /\ retriesLeft' = [t \in Tests |-> IF t \in chosen("user")
                                        THEN retriesLeft[t] - 1 ELSE retriesLeft[t]]
     /\ recoveryUsed' = [t \in Tests |-> recoveryUsed[t] \/ t \in chosen("recovery")]
     /\ pending' = pending \union {t \in tests : Decision(t) # "no"}
     /\ number' = [t \in Tests |-> IF t \in tests /\ Decision(t) # "no"
                                   THEN NextNumber(t) ELSE number[t]]

\* The attempt joins attempts_by_test and is published.
AbsorbResult(t) ==
  /\ attempts' = [attempts EXCEPT ![t] = Append(@, latest[t])]
  /\ log' = Append(log, [kind |-> "attempt", test |-> t,
                         number |-> number[t], status |-> latest[t]])
  /\ waiting' = waiting \ {t}

\* In the first round all results are absorbed before any retry is decided.
AbsorbFirst ==
  /\ stage = "absorbing" /\ round = 1 /\ waiting # {}
  /\ AbsorbResult(First(waiting))
  /\ UNCHANGED <<stage, selected, issues, round, pending, number, refused,
                 latest, retriesLeft, recoveryUsed, verdict, result,
                 cancelled>>

DecideFirst ==
  /\ stage = "absorbing" /\ round = 1 /\ waiting = {} /\ pending = {}
  /\ ScheduleRetries(selected)
  /\ stage' = IF pending' = {} THEN "finalizing" ELSE "scheduling"
  /\ UNCHANGED <<selected, issues, round, refused, waiting, latest, attempts,
                 verdict, log, result, cancelled>>

\* In the later rounds each result is absorbed and decided on in one go.
AbsorbRetry ==
  /\ stage = "absorbing" /\ round > 1 /\ waiting # {}
  /\ AbsorbResult(First(waiting))
  /\ ScheduleRetries({First(waiting)})
  /\ UNCHANGED <<stage, selected, issues, round, refused, latest, verdict,
                 result, cancelled>>

\* Mutant: the loop goes on without anything to retry.
AlwaysAnotherRound == TRUE

\* while pending
AnotherRound == pending # {}

NextRound ==
  /\ stage = "absorbing" /\ round > 1 /\ waiting = {}
  /\ stage' = IF AnotherRound THEN "scheduling" ELSE "finalizing"
  /\ UNCHANGED <<selected, issues, round, pending, number, refused, waiting,
                 latest, attempts, retriesLeft, recoveryUsed, verdict, log,
                 result, cancelled>>

\* The caller's sink raises after the event reached the coordinator's own log.
SinkRaises ==
  /\ SinkMayRaise
  /\ stage = "absorbing" /\ waiting # {}
  /\ AbsorbResult(First(waiting))
  /\ stage' = "aborted"
  /\ UNCHANGED <<selected, issues, round, pending, number, refused, latest,
                 retriesLeft, recoveryUsed, verdict, result, cancelled>>

-----------------------------------------------------------------------------
(***************************************************************************)
(* Finalization, reduction and history.                                    *)
(***************************************************************************)
Unfinalized == {t \in selected : verdict[t] = "none"}

Finalize ==
  /\ stage = "finalizing" /\ Unfinalized # {}
  /\ LET t == First(Unfinalized)
         status == FinalizeStatus(attempts[t], "none")
     IN /\ verdict' = [verdict EXCEPT ![t] = status]
        /\ log' = Append(log, [kind |-> "final", test |-> t, number |-> 0,
                               status |-> status])
  /\ stage' \in AfterEmitting("finalizing")
  /\ UNCHANGED <<selected, issues, round, pending, number, refused, waiting,
                 latest, attempts, retriesLeft, recoveryUsed, result,
                 cancelled>>

\* RUN_FINISHED is emitted and the sink is closed.
FinishEvents ==
  /\ stage = "finalizing" /\ Unfinalized = {}
  /\ stage' \in AfterEmitting("finishing")
  /\ UNCHANGED <<selected, issues, round, pending, number, refused, waiting,
                 latest, attempts, retriesLeft, recoveryUsed, verdict, log,
                 result, cancelled>>

\* reduce_events: the attempts of a test by number, the last fact of a number
\* winning, and its last explicit status.
Facts(kind, t) ==
  {k \in DOMAIN log : log[k].kind = kind /\ log[k].test = t}

LastFact(facts) == log[CHOOSE k \in facts : \A j \in facts : j <= k].status

ReducedAttempts(t) ==
  [n \in {log[k].number : k \in Facts("attempt", t)} |->
     LastFact({k \in Facts("attempt", t) : log[k].number = n})]

Explicit(t) == IF Facts("final", t) = {} THEN "none" ELSE LastFact(Facts("final", t))

Reduce ==
  /\ stage = "finishing"
  /\ result' = [t \in Tests |-> IF t \in selected
                                THEN FinalizeStatus(ReducedAttempts(t), Explicit(t))
                                ELSE "none"]
  /\ stage' = "recording"
  /\ UNCHANGED <<selected, issues, round, pending, number, refused, waiting,
                 latest, attempts, retriesLeft, recoveryUsed, verdict, log,
                 cancelled>>

\* history.record_run may fail; the result is returned only if it does not.
Record ==
  /\ stage = "recording"
  /\ stage' \in Over
  /\ UNCHANGED <<selected, issues, round, pending, number, refused, waiting,
                 latest, attempts, retriesLeft, recoveryUsed, verdict, log,
                 result, cancelled>>

-----------------------------------------------------------------------------
\* The embedding task is cancelled: run_async calls cancel_all().
Cancel ==
  /\ ~cancelled /\ stage \notin Over
  /\ cancelled' = TRUE
  /\ UNCHANGED <<stage, selected, issues, round, pending, number, refused,
                 waiting, latest, attempts, retriesLeft, recoveryUsed, verdict,
                 log, result>>

\* KeyboardInterrupt, or any other exception out of execute_shards.
Interrupt ==
  /\ stage = "running"
  /\ stage' = "aborted"
  /\ cancelled' = TRUE
  /\ UNCHANGED <<selected, issues, round, pending, number, refused, waiting,
                 latest, attempts, retriesLeft, recoveryUsed, verdict, log,
                 result>>

RunOver == stage \in Over /\ UNCHANGED vars

Progress ==
  \/ Collect \/ CollectionCancelled \/ BeginRound \/ RoundReturns
  \/ AbsorbFirst \/ DecideFirst \/ AbsorbRetry \/ NextRound \/ SinkRaises
  \/ Finalize \/ FinishEvents \/ Reduce \/ Record

Next == Progress \/ Cancel \/ Interrupt \/ RunOver

Spec == Init /\ [][Next]_vars

\* The coordinator thread runs, and every round returns: what the supervisor
\* provides when every process can be stopped.
FairSpec == Spec /\ WF_vars(Progress)

-----------------------------------------------------------------------------
TypeOK ==
  /\ stage \in Stages
  /\ selected \in SUBSET Tests
  /\ issues \in BOOLEAN
  /\ round \in 0..2
  /\ pending \in SUBSET selected
  /\ number \in [Tests -> Nat]
  /\ refused \in BOOLEAN
  /\ waiting \in SUBSET selected
  /\ latest \in [Tests -> AttemptStatuses \union {"none"}]
  /\ attempts \in [Tests -> Seq(AttemptStatuses)]
  /\ retriesLeft \in [Tests -> 0..Retries]
  /\ recoveryUsed \in [Tests -> BOOLEAN]
  /\ verdict \in [Tests -> Statuses \union {"none"}]
  /\ log \in Seq(Events)
  /\ result \in [Tests -> Statuses \union {"none"}]
  /\ cancelled \in BOOLEAN

\* A test is attempted once, once more for every user retry it was charged, and
\* once for its automatic recovery: however crashes, infrastructure errors and
\* failures alternate, nothing else pays for an attempt.
AttemptsArePaidFor ==
  \A t \in Tests :
    Len(attempts[t]) <= 1 + (Retries - retriesLeft[t])
                          + (IF recoveryUsed[t] THEN 1 ELSE 0)

\* FAIL -> PASS is never a pass, and neither is CRASH -> PASS: a test the result calls
\* passed never failed, crashed or timed out in any of its attempts (finalize_status,
\* docs/architecture.md, tests/test_runtime_core.py; the docstring of finalize_status
\* says otherwise of a crash, see RecoveredTestsPass).
PassedTestsNeverFailed ==
  stage = "returned" =>
    \A t \in selected : result[t] \in Passing =>
      \A k \in DOMAIN attempts[t] : attempts[t][k] \in Passing \union Infrastructure

\* What the docstring of finalize_status says (aggregate.py:223): INFRA_ERROR -> PASS
\* and CRASH -> PASS are plain PASS, because no test failure was observed.
RecoveredTestsPass ==
  stage = "returned" =>
    \A t \in selected :
      LET last == Len(attempts[t])
      IN (last > 0 /\ attempts[t][last] = "PASS"
            /\ \A k \in 1..(last - 1) : attempts[t][k] \in Recoverable)
         => result[t] = "PASS"

\* Exit code 0 says that something was selected, that all of it was attempted,
\* and that no attempt was lost to a cancellation.
GreenRunIsComplete ==
  stage = "returned" /\ ExitCode(issues, {result[t] : t \in selected}) = 0 =>
    /\ selected # {}
    /\ \A t \in selected :
         /\ attempts[t] # << >>
         /\ \A k \in DOMAIN attempts[t] : attempts[t][k] # "CANCELLED"

\* The events alone, replayed by the reducer, give the verdicts the coordinator
\* computed from its own lists and published.
ReplayAgrees ==
  stage = "returned" =>
    \A t \in selected : /\ ReducedAttempts(t) = attempts[t]
                        /\ result[t] = verdict[t]

\* Whatever the tests do, the run comes to an end: the retries run out.
RunEnds == <>(stage \in Over)

\* The coordinator's counters implement the budget of the abstract run.
AbstractRun == INSTANCE TestRun
ImplementsTestRun == AbstractRun!Spec
=============================================================================
