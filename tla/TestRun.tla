------------------------------ MODULE TestRun -------------------------------
(***************************************************************************)
(* What a run promises about every selected test, whatever the processes   *)
(* that execute it do: attempts accumulate and are never revised, another  *)
(* attempt is made only of a test that did not succeed and within its      *)
(* budget, and the verdict is given once, from all the attempts.           *)
(*                                                                         *)
(* The budget is stated from the history of the attempts alone; the        *)
(* coordinator keeps counters instead.                                     *)
(***************************************************************************)
EXTENDS Outcome

CONSTANTS Tests, Retries

VARIABLES attempts, verdict

vars == <<attempts, verdict>>

\* The first attempt that a broken worker ended was paid for by the framework.
Recovered(history) ==
  \E k \in DOMAIN history : k < Len(history) /\ history[k] \in Recoverable

PaidByUser(history) == Len(history) - 1 - (IF Recovered(history) THEN 1 ELSE 0)

MayAttempt(history) ==
  \/ history = << >>
  \/ LET last == history[Len(history)]
     IN \/ last \in Recoverable /\ ~Recovered(history)
        \/ last \in Retryable \union Recoverable /\ PaidByUser(history) < Retries

Init ==
  /\ attempts = [t \in Tests |-> << >>]
  /\ verdict = [t \in Tests |-> "none"]

Attempt(t) ==
  /\ verdict[t] = "none"
  /\ MayAttempt(attempts[t])
  /\ \E status \in Statuses : attempts' = [attempts EXCEPT ![t] = Append(@, status)]
  /\ UNCHANGED verdict

\* A test is given up only when nothing entitles it to another attempt.
Conclude(t) ==
  /\ verdict[t] = "none"
  /\ attempts[t] # << >> /\ ~MayAttempt(attempts[t])
  /\ verdict' = [verdict EXCEPT ![t] = FinalizeStatus(attempts[t], "none")]
  /\ UNCHANGED attempts

Next == \E t \in Tests : Attempt(t) \/ Conclude(t)

Spec == Init /\ [][Next]_vars
=============================================================================
