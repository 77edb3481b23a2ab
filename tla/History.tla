------------------------------ MODULE History -------------------------------
(***************************************************************************)
(* HistoryStore of src/testenix/history.py: the database the results of    *)
(* runs are recorded in, and the mean durations later runs are scheduled   *)
(* with.  A mean is the fraction total / parts: the column is REAL.        *)
(*                                                                         *)
(* record_run writes in one transaction.  SQLite (external) lets one       *)
(* connection write at a time and shows the others what is committed.  A   *)
(* run is recorded by the runner, and again by whoever hands its result    *)
(* on; a recorder that fails, is killed or waits too long for the lock     *)
(* leaves nothing behind and may be called again.                          *)
(***************************************************************************)
EXTENDS Naturals, Sequences, FiniteSets, SequencesExt

CONSTANTS
  Recorders,     \* the processes that record runs
  Runs,          \* the results there are: run ids
  ResultsOf,     \* run -> sequence of [test, status, attempts]
  MaxFailures    \* how many recordings fail

\* A test has one result in a run (reduce_events), and times are whole numbers.
ASSUME HistoryAssumption ==
  /\ "none" \notin Runs
  /\ MaxFailures \in Nat
  /\ \A run \in Runs :
       /\ ResultsOf[run] \in Seq(Range(ResultsOf[run]))
       /\ \A k \in DOMAIN ResultsOf[run] :
            ResultsOf[run][k].attempts \in Seq([status : STRING, duration : Nat])
       /\ \A j, k \in DOMAIN ResultsOf[run] :
            ResultsOf[run][j].test = ResultsOf[run][k].test => j = k

VARIABLES
  runs,          \* the rows of table runs: recorded run ids
  results,       \* the rows of test_results: run and test
  history,       \* test_history: test -> [mean: [total, parts], samples, status]
  writing,       \* recorder -> the run it records, or "none"
  next,          \* recorder -> the position of the next result to insert
  draft,         \* the tables as the writing transaction sees them
  failures       \* recordings that failed

vars == <<runs, results, history, writing, next, draft, failures>>

Nothing == "none"
InfrastructureStatuses == {"INFRA_ERROR", "CRASH"}

-----------------------------------------------------------------------------
(***************************************************************************)
(* What one result does to the tables.                                     *)
(***************************************************************************)
\* The attempts that say how long the test takes.
Timings(result) ==
  {k \in DOMAIN result.attempts : result.attempts[k].status \notin InfrastructureStatuses}

\* _scheduler_duration: of the last attempt that was not lost, or none.
SchedulerDuration(result) ==
  LET last == CHOOSE k \in Timings(result) : \A j \in Timings(result) : j <= k
  IN result.attempts[last].duration

\* The running mean, as the ON CONFLICT clause computes it:
\* (mean * samples + duration) / (samples + 1).
Averaged(row, duration) ==
  [total |-> row.mean.total * row.samples + duration * row.mean.parts,
   parts |-> row.mean.parts * (row.samples + 1)]

\* The mean of one duration.
Only(duration) == [total |-> duration, parts |-> 1]

WithRow(table, test, row) ==
  [t \in DOMAIN table \union {test} |-> IF t = test THEN row ELSE table[t]]

\* Mutant: a result that is there already counts again.
RecordAgain(tables, run, result) ==
  LET known == result.test \in DOMAIN tables.history
      duration == SchedulerDuration(result)
      row == IF known THEN tables.history[result.test] ELSE [mean |-> Only(0), samples |-> 0]
  IN [tables EXCEPT
        !.results = @ \union {<<run, result.test>>},
        !.history = IF Timings(result) = {} THEN @
                    ELSE WithRow(@, result.test,
                                 [mean |-> Averaged(row, duration),
                                  samples |-> row.samples + 1,
                                  status |-> result.status])]

\* _record_result
Record(tables, run, result) ==
  LET known == result.test \in DOMAIN tables.history
      row == tables.history[result.test]
      duration == SchedulerDuration(result)
  IN IF <<run, result.test>> \in tables.results
       THEN tables
     ELSE [tables EXCEPT
             !.results = @ \union {<<run, result.test>>},
             !.history =
                IF Timings(result) = {} /\ ~known THEN @
                ELSE IF Timings(result) = {}
                  THEN [@ EXCEPT ![result.test].status = result.status]
                ELSE WithRow(@, result.test,
                             [mean |-> IF known THEN Averaged(row, duration) ELSE Only(duration),
                              samples |-> IF known THEN row.samples + 1 ELSE 1,
                              status |-> result.status])]

-----------------------------------------------------------------------------
Committed == [runs |-> runs, results |-> results, history |-> history]
Idle == \A r \in Recorders : writing[r] = Nothing

Init ==
  /\ runs = {}
  /\ results = {}
  /\ history = [t \in {} |-> Nothing]
  /\ writing = [r \in Recorders |-> Nothing]
  /\ next = [r \in Recorders |-> 1]
  /\ draft = Committed
  /\ failures = 0

\* The first INSERT takes the write lock: a busy database makes it wait.
Begin(r, run) ==
  /\ Idle
  /\ writing' = [writing EXCEPT ![r] = run]
  /\ draft' = [Committed EXCEPT !.runs = @ \union {run}]
  /\ UNCHANGED <<runs, results, history, next, failures>>

InsertResult(r) ==
  /\ writing[r] # Nothing
  /\ next[r] <= Len(ResultsOf[writing[r]])
  /\ draft' = Record(draft, writing[r], ResultsOf[writing[r]][next[r]])
  /\ next' = [next EXCEPT ![r] = @ + 1]
  /\ UNCHANGED <<runs, results, history, writing, failures>>

\* Leaving the connection's context commits ...
Commit(r) ==
  /\ writing[r] # Nothing
  /\ next[r] > Len(ResultsOf[writing[r]])
  /\ runs' = draft.runs
  /\ results' = draft.results
  /\ history' = draft.history
  /\ writing' = [writing EXCEPT ![r] = Nothing]
  /\ next' = [next EXCEPT ![r] = 1]
  /\ UNCHANGED <<draft, failures>>

\* ... unless an exception leaves it, or the process dies: the transaction is
\* rolled back, by the connection or by the next one that opens the database.
Rollback(r) ==
  /\ writing[r] # Nothing
  /\ failures < MaxFailures
  /\ failures' = failures + 1
  /\ writing' = [writing EXCEPT ![r] = Nothing]
  /\ draft' = Committed
  /\ next' = [next EXCEPT ![r] = 1]
  /\ UNCHANGED <<runs, results, history>>

Next ==
  \E r \in Recorders :
    \/ \E run \in Runs : Begin(r, run)
    \/ InsertResult(r)
    \/ Commit(r)
    \/ Rollback(r)

Spec == Init /\ [][Next]_vars

-----------------------------------------------------------------------------
(***************************************************************************)
(* What readers see.                                                       *)
(***************************************************************************)
\* estimated_durations, for the tests asked for: a whole number, as those who
\* schedule count time.
Durations(requested) ==
  [t \in requested \intersect DOMAIN history |->
     history[t].mean.total \div history[t].mean.parts]

-----------------------------------------------------------------------------
(***************************************************************************)
(* Properties.                                                             *)
(***************************************************************************)
\* The results of runs, each by its run and its place there.
Entries(of) == UNION {{run} \X DOMAIN ResultsOf[run] : run \in of}
ResultAt(entry) == ResultsOf[entry[1]][entry[2]]

AllTests == {ResultAt(entry).test : entry \in Entries(Runs)}

\* The results of recorded runs that say how long a test takes.
TimedResults(t) ==
  {entry \in Entries(runs) : ResultAt(entry).test = t /\ Timings(ResultAt(entry)) # {}}

\* Every variable keeps its type, and one process writes at a time.
TypeOK ==
  /\ runs \subseteq Runs
  /\ results \subseteq Runs \X AllTests
  /\ DOMAIN history \subseteq AllTests
  /\ \A t \in DOMAIN history :
       /\ history[t].mean \in [total : Nat, parts : Nat \ {0}]
       /\ history[t].samples \in Nat
  /\ writing \in [Recorders -> Runs \union {Nothing}]
  /\ next \in [Recorders -> Nat]
  /\ Idle => draft = Committed
  /\ failures \in 0 .. MaxFailures

\* The time of the execution that came to an end of its own and after which all
\* were lost.
TimeTaken(result) ==
  LET lost(k) == result.attempts[k].status \in InfrastructureStatuses
      last == CHOOSE k \in DOMAIN result.attempts :
                ~lost(k) /\ \A j \in DOMAIN result.attempts : j > k => lost(j)
  IN result.attempts[last].duration

\* What the scheduler is told is the mean of what happened: over the runs that
\* were recorded, each once however often it was recorded, and over the
\* executions that were not lost.  A run is there with all its results or not
\* at all, so no failure in the middle leaves a part of it in the mean
\* (HistoryStore.record_run and _record_result).
RunsAreWhole == results = {<<entry[1], ResultAt(entry).test>> : entry \in Entries(runs)}

SamplesAreCounted ==
  /\ DOMAIN history = {t \in AllTests : TimedResults(t) # {}}
  /\ \A t \in DOMAIN history : history[t].samples = Cardinality(TimedResults(t))

EstimatesAreMeans ==
  /\ RunsAreWhole
  /\ SamplesAreCounted
  /\ \A t \in DOMAIN history :
       history[t].mean.total * history[t].samples =
         history[t].mean.parts *
           MapThenSumSet(LAMBDA entry : TimeTaken(ResultAt(entry)), TimedResults(t))
=============================================================================
