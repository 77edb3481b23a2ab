------------------------------ MODULE Outcome -------------------------------
(***************************************************************************)
(* The pure decisions of a run: src/testenix/contracts.py (statuses and    *)
(* exit codes), finalize_status of aggregate.py and _should_retry of       *)
(* runner.py.  A test's attempts are the sequence of their statuses.       *)
(***************************************************************************)
EXTENDS Naturals, Sequences

Statuses == {"PASS", "FAIL", "ERROR_SETUP", "ERROR_TEARDOWN", "SKIP", "XFAIL",
             "XPASS", "TIMEOUT", "CRASH", "INFRA_ERROR", "CANCELLED", "NOT_RUN",
             "FLAKY", "CACHED_PASS"}

\* INFRASTRUCTURE_STATUSES and TEST_FAILURE_STATUSES of aggregate.py
Infrastructure == {"INFRA_ERROR"}
TestFailures == {"FAIL", "ERROR_SETUP", "ERROR_TEARDOWN", "XPASS", "TIMEOUT",
                 "CRASH", "FLAKY"}
Passing == {"PASS", "CACHED_PASS"}

\* The statuses RunResult.exit_code counts as failing.
Gating == TestFailures \union {"INFRA_ERROR", "CANCELLED", "NOT_RUN"}

\* _RETRYABLE_TEST_STATUSES and _AUTOMATIC_RECOVERY_STATUSES of runner.py
Retryable == {"FAIL", "ERROR_SETUP", "ERROR_TEARDOWN", "TIMEOUT"}
Recoverable == {"INFRA_ERROR", "CRASH"}

-----------------------------------------------------------------------------
\* The attempts that say something of the test itself.
Substantive(attempts) ==
  {k \in DOMAIN attempts : attempts[k] \notin Infrastructure}

LastSubstantive(attempts) ==
  CHOOSE k \in Substantive(attempts) :
    \A j \in Substantive(attempts) : j <= k

FailedBefore(attempts, k) ==
  \E j \in Substantive(attempts) : j < k /\ attempts[j] \in TestFailures

\* Mutant: only the last attempt decides.
LastStatusWins(attempts, explicit) ==
  IF attempts = << >> THEN "NOT_RUN" ELSE attempts[Len(attempts)]

\* explicit is the status of a TEST_FINALIZED event, or "none".
FinalizeStatus(attempts, explicit) ==
  LET last == LastSubstantive(attempts)
  IN IF attempts = << >>
       THEN IF explicit = "none" THEN "NOT_RUN" ELSE explicit
     ELSE IF Substantive(attempts) = {}
       THEN attempts[Len(attempts)]
     ELSE IF \/ attempts[last] \in Passing /\ FailedBefore(attempts, last)
             \/ explicit = "FLAKY"
       THEN "FLAKY"
     ELSE attempts[last]

-----------------------------------------------------------------------------
\* Mutant: the automatic recovery is available after every crash.
RecoversForEver(status, userRetriesLeft, recoveryUsed) ==
  IF status \in Recoverable THEN "recovery"
  ELSE IF status \in Retryable /\ userRetriesLeft > 0 THEN "user" ELSE "no"

\* Mutant: the retries a test has left are not looked at.
RetriesForEver(status, userRetriesLeft, recoveryUsed) ==
  IF status \in Recoverable /\ ~recoveryUsed THEN "recovery"
  ELSE IF status \in Retryable \union Recoverable THEN "user" ELSE "no"

\* Which budget, if any, pays for another attempt after this status.
ShouldRetry(status, userRetriesLeft, recoveryUsed) ==
  IF status \in Recoverable /\ ~recoveryUsed THEN "recovery"
  ELSE IF status \in Retryable \union Recoverable /\ userRetriesLeft > 0 THEN "user"
  ELSE "no"

\* verdicts: the statuses of the tests of the run.
ExitCode(issues, verdicts) ==
  IF issues THEN 2 ELSE IF verdicts \intersect Gating # {} THEN 1 ELSE 0
=============================================================================
