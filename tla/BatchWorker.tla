---------------------------- MODULE BatchWorker -----------------------------
(***************************************************************************)
(* One batch of tests in one worker process: execute_tests_async of        *)
(* src/testenix/executor.py publishes each attempt as soon as it is known  *)
(* and again when a fixture's teardown changes it; the process may be lost *)
(* at any point; _results_from_batch_execution of runner.py makes one      *)
(* result per test of what arrived.                                        *)
(*                                                                         *)
(* What arrives is what Supervisor shows: everything the worker wrote,     *)
(* unless the item timed out or was cancelled, and then a prefix of it.    *)
(***************************************************************************)
EXTENDS Outcome, FiniteSets

CONSTANTS
  NumTests,  \* bound on the size of a batch
  ModuleOf,  \* the module of each test, in batch order
  Expected,  \* tests marked as expected to fail
  Skipped    \* tests marked to be skipped

ASSUME ConstantsAssumption ==
  /\ NumTests \in Nat \ {0}
  /\ DOMAIN ModuleOf = 1..NumTests
  /\ Expected \subseteq 1..NumTests
  /\ Skipped \subseteq 1..NumTests

VARIABLES
  size,      \* the number of tests of this batch
  phase,     \* what the worker is doing
  next,      \* the test it executes next
  results,   \* the statuses in its list of results
  outbox,    \* results to publish before anything else
  stream,    \* the attempts published so far
  received,  \* how many of them the supervisor kept
  ending,    \* the verdict of the supervisor on the work item
  report     \* the coordinator's result for each test

vars == <<size, phase, next, results, outbox, stream, received, ending, report>>

Batch == 1..size
Tests == 1..NumTests

\* The statuses a worker and its supervisor can give an attempt.
WorkerStatuses == {"PASS", "FAIL", "ERROR_SETUP", "ERROR_TEARDOWN", "SKIP",
                   "XFAIL", "XPASS", "TIMEOUT"}
Endings == {"VALUE", "INFRA_ERROR", "CRASH", "TIMEOUT", "CANCELLED"}

Init ==
  /\ size \in Tests
  /\ phase = "importing"
  /\ next = 1
  /\ results = [t \in Tests |-> "none"]
  /\ outbox = << >>
  /\ stream = << >>
  /\ received = 0
  /\ ending = "none"
  /\ report = [t \in Tests |-> "none"]

-----------------------------------------------------------------------------
(***************************************************************************)
(* The worker.                                                             *)
(***************************************************************************)
\* _execute_one: the setup error outranks a failed teardown, which outranks
\* what the call did.
CallStatus(t, call) ==
  CASE call = "timed out" -> "TIMEOUT"
    [] call = "raised"    -> IF t \in Expected THEN "XFAIL" ELSE "FAIL"
    [] call = "returned"  -> IF t \in Expected THEN "XPASS" ELSE "PASS"

AttemptStatus(t, setupFails, call, teardownFails) ==
  IF t \in Skipped THEN "SKIP"
  ELSE IF setupFails THEN "ERROR_SETUP"
  ELSE IF teardownFails THEN "ERROR_TEARDOWN"
  ELSE CallStatus(t, call)

\* Mutant: closing a scope without failures stands for the outcome of its owner.
TornDownAfresh(status, fails) == IF fails THEN "ERROR_TEARDOWN" ELSE "PASS"

\* _append_scope_teardown
TornDown(status, fails) ==
  IF fails /\ status # "ERROR_SETUP" THEN "ERROR_TEARDOWN" ELSE status

\* The orders in which the failures of a scope may name their owners.
Orders(owners) ==
  {order \in [1..Cardinality(owners) -> owners] :
     \A t \in owners : \E k \in DOMAIN order : order[k] = t}

\* Closing a scope after test t touches the owners of its failed finalizers or,
\* if finalizers only wrote output, t itself.
ScopeClosings(t, users) ==
  {<<owners, TRUE>> : owners \in (SUBSET users) \ {{}}}
    \union {<<{t}, FALSE>>, <<{}, FALSE>>}

CloseScope(memory, owners, fails) ==
  [u \in Tests |-> IF u \in owners THEN TornDown(memory[u], fails) ELSE memory[u]]

Working == phase \in {"importing", "testing", "closing"} /\ ending = "none"

Import ==
  /\ Working /\ phase = "importing"
  /\ phase' = "testing"
  /\ UNCHANGED <<size, next, results, outbox, stream, received, ending, report>>

LastOfModule(t) == \A u \in Batch : u > t => ModuleOf[u] # ModuleOf[t]

\* One turn of the loop: the test, and its module's fixtures if none is left to
\* use them.  The test itself is published first unless the closing updates it.
ExecuteTest ==
  LET t == next
      users == {u \in 1..t : ModuleOf[u] = ModuleOf[t]}
  IN /\ Working /\ phase = "testing" /\ outbox = << >> /\ next <= size
     /\ \E setupFails, teardownFails \in BOOLEAN,
           call \in {"returned", "raised", "timed out"},
           closing \in (IF LastOfModule(t) THEN ScopeClosings(t, users)
                                           ELSE {<<{}, FALSE>>}) :
          LET memory == [results EXCEPT ![t] =
                           AttemptStatus(t, setupFails, call, teardownFails)]
          IN /\ results' = CloseScope(memory, closing[1], closing[2])
             /\ \E order \in Orders(closing[1]) :
                  outbox' = IF t \in closing[1] THEN order ELSE <<t>> \o order
     /\ next' = next + 1
     /\ UNCHANGED <<size, phase, stream, received, ending, report>>

\* on_result: the callback sends the last attempt over the pipe.
Publish ==
  /\ Working /\ outbox # << >>
  /\ stream' = Append(stream, [test |-> Head(outbox), status |-> results[Head(outbox)]])
  /\ outbox' = Tail(outbox)
  /\ UNCHANGED <<size, phase, next, results, received, ending, report>>

\* Mutant: the results a session finalizer changed are not published again.
NotRepublished(owners) == {<< >>}

Republished(owners) == Orders(owners)

CloseSession ==
  /\ Working /\ phase = "testing" /\ outbox = << >> /\ next > size
  /\ \E closing \in ScopeClosings(size, Batch) :
       /\ results' = CloseScope(results, closing[1], closing[2])
       /\ outbox' \in Republished(closing[1])
  /\ phase' = "closing"
  /\ UNCHANGED <<size, next, stream, received, ending, report>>

\* The empty tuple of the final envelope acknowledges the closed scopes.
Acknowledge ==
  /\ Working /\ phase = "closing" /\ outbox = << >>
  /\ phase' = "acknowledged"
  /\ UNCHANGED <<size, next, results, outbox, stream, received, ending, report>>

-----------------------------------------------------------------------------
(***************************************************************************)
(* The supervisor's observation of the batch.                              *)
(***************************************************************************)
Accept ==
  /\ ending = "none" /\ phase = "acknowledged"
  /\ ending' = "VALUE"
  /\ received' = Len(stream)
  /\ UNCHANGED <<size, phase, next, results, outbox, stream, report>>

\* The process died, or an exception left the batch, before the last envelope.
Lose ==
  /\ Working
  /\ ending' \in {"CRASH", "INFRA_ERROR"}
  /\ received' = Len(stream)
  /\ UNCHANGED <<size, phase, next, results, outbox, stream, report>>

\* The supervisor stopped reading.  Only a batch of one test has a deadline.
StopReading ==
  /\ ending = "none"
  /\ ending' \in {"CANCELLED"} \union (IF size = 1 THEN {"TIMEOUT"} ELSE {})
  /\ received' \in 0..Len(stream)
  /\ UNCHANGED <<size, phase, next, results, outbox, stream, report>>

-----------------------------------------------------------------------------
(***************************************************************************)
(* The coordinator's results.                                              *)
(***************************************************************************)
FactsOf(t) == {k \in 1..received : stream[k].test = t}

\* Mutant: what a lost worker streamed before is not trusted.
OnlyAcknowledged == IF ending = "VALUE" THEN {t \in Batch : FactsOf(t) # {}} ELSE {}

Streamed == {t \in Batch : FactsOf(t) # {}}

\* by_id: the last fact about a test wins.
StreamedStatus(t) ==
  stream[CHOOSE k \in FactsOf(t) : \A j \in FactsOf(t) : j <= k].status

\* Mutant: a batch whose tests all arrived counts as complete.
NoUnacknowledgedOwner == {}

\* The last test answers for a failure that came after every test was streamed.
UnacknowledgedOwner ==
  IF ending # "VALUE" /\ Streamed = Batch THEN {size} ELSE {}

\* _failure_for_execution
FailureStatus == IF ending = "VALUE" THEN "INFRA_ERROR" ELSE ending

ResultOf(t) ==
  IF t \in UnacknowledgedOwner
    THEN IF ending = "TIMEOUT" THEN "TIMEOUT" ELSE "ERROR_TEARDOWN"
  ELSE IF t \in Streamed THEN StreamedStatus(t)
  ELSE FailureStatus

Report ==
  /\ ending # "none" /\ report[1] = "none"
  /\ report' = [t \in Tests |-> IF t \in Batch THEN ResultOf(t) ELSE "none"]
  /\ UNCHANGED <<size, phase, next, results, outbox, stream, received, ending>>

Reported == report[1] # "none"

Done == Reported /\ UNCHANGED vars

Next == \/ Import \/ ExecuteTest \/ Publish \/ CloseSession \/ Acknowledge
        \/ Accept \/ Lose \/ StopReading \/ Report \/ Done

Spec == Init /\ [][Next]_vars

-----------------------------------------------------------------------------
TypeOK ==
  /\ size \in Tests
  /\ phase \in {"importing", "testing", "closing", "acknowledged"}
  /\ next \in 1..(size + 1)
  /\ results \in [Tests -> WorkerStatuses \union {"none"}]
  /\ outbox \in Seq(Batch)
  /\ stream \in Seq([test : Batch, status : WorkerStatuses])
  /\ received \in 0..Len(stream)
  /\ ending \in Endings \union {"none"}
  /\ report \in [Tests -> Statuses \union {"none"}]

\* A batch that was not acknowledged never reports only success, even if the
\* worker was lost after it had streamed a result for every test.
LostBatchIsNeverGreen ==
  Reported /\ ending # "VALUE" => \E t \in Batch : report[t] \in Gating

\* An acknowledged batch reports exactly the worker's own last word on every
\* test: a fixture finalizer that fails after its test was published counts.
AcknowledgedReportIsFinal ==
  Reported /\ ending = "VALUE" => \A t \in Batch : report[t] = results[t]

\* A worker that is lost later takes nothing back: a test it had published keeps
\* its status, save the one that answers for a failure after the last test.
PublishedResultsSurvive ==
  Reported /\ ending \in {"CRASH", "INFRA_ERROR"} =>
    \A t \in Batch :
      (\E k \in DOMAIN stream : stream[k].test = t)
        => \/ report[t] = StreamedStatus(t)
           \/ t = size /\ report[t] = "ERROR_TEARDOWN"

\* Closing scopes only ever makes an outcome worse: a status that fails the run
\* is not revised into one that does not.
FailuresAreNotRevised ==
  [][\A t \in Tests : results[t] \in Gating => results'[t] \in Gating]_vars
=============================================================================
