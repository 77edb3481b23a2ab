------------------------------ MODULE EventLog ------------------------------
(***************************************************************************)
(* The event stream of a run (src/testenix/events.py) and its reduction    *)
(* (aggregate.py), as an embedder of ProcessSupervisor uses them.  The     *)
(* threads of execute_shards share one EventFactory and publish what       *)
(* happened in each execution (_emit of worker.py); a reader is given the  *)
(* events in another order, some of them twice, and reduces them to        *)
(* attempts and verdicts.                                                  *)
(*                                                                         *)
(* An event is a fact with the number the factory gave it, which is also   *)
(* its identifier.  Timestamps and durations are left out, since no        *)
(* verdict depends on them, and so are test specifications: no test here   *)
(* is skipped by its declaration.                                          *)
(***************************************************************************)
EXTENDS Outcome, FiniteSets, SequencesExt

CONSTANTS
  Shards,      \* the threads that execute tests
  Executions,  \* Executions[s]: what happens in each shard, in order
  Prologue,    \* the facts of the coordinator before the executions ...
  Epilogue,    \* ... and after them
  Foreign,     \* facts with numbers of another factory of the same run
  Window,      \* bound: how far ahead of a missing event another may arrive
  MaxRepeats   \* bound: events delivered once more

ASSUME ConstantsAssumption ==
  /\ Shards # {} /\ DOMAIN Executions = Shards
  /\ \A s \in Shards : Executions[s] \in Seq([test : STRING, attempt : Nat \ {0},
       status : Statuses, phases : Seq([phase : STRING, status : Statuses])])
  /\ Prologue \in Seq(Range(Prologue)) /\ Epilogue \in Seq(Range(Epilogue))
  /\ \A e \in Foreign : e.sequence \in Nat
  /\ Window \in Nat \ {0} /\ MaxRepeats \in Nat

Phases == <<"setup", "call", "teardown">>

Fact(type, test, attempt, status, phases) ==
  [type |-> type, test |-> test, attempt |-> attempt, status |-> status,
   phases |-> phases]

\* What _emit publishes of one execution.
EmittedBy(e) ==
  <<Fact("attempt_started", e.test, e.attempt, "none", << >>)>>
  \o [k \in DOMAIN e.phases |->
        Fact("phase_finished", e.test, e.attempt, "none", <<e.phases[k]>>)]
  \o (IF e.status = "CRASH"
        THEN <<Fact("worker_lost", e.test, e.attempt, "CRASH", << >>)>>
        ELSE << >>)
  \o <<Fact("attempt_finished", e.test, e.attempt, e.status, e.phases)>>

Script == [s \in Shards |->
             FlattenSeq([k \in DOMAIN Executions[s] |->
                           EmittedBy(Executions[s][k])])]

Event(sequence, fact) == [sequence |-> sequence, fact |-> fact]

VARIABLES
  emitted,    \* how many of its facts each shard has published
  log,        \* the events published, by number
  stage,      \* "writing", "reading", "reduced" or "rejected"
  delivered,  \* the events the reader was given
  repeats,    \* how many of them for a second time
  byId,       \* by_id: the first event of each number, in order of arrival
  ordered,    \* whether they arrived in the order of their numbers
  canonical   \* the events that are reduced, once all have arrived

logVars == <<emitted, log, stage, delivered, repeats, byId, ordered, canonical>>

LogInit ==
  /\ emitted = [s \in Shards |-> 0]
  /\ log = [k \in DOMAIN Prologue |-> Event(k, Prologue[k])]
  /\ stage = "writing"
  /\ delivered = {}
  /\ repeats = 0
  /\ byId = << >>
  /\ ordered = TRUE
  /\ canonical = << >>

-----------------------------------------------------------------------------
(***************************************************************************)
(* Writing.                                                                *)
(***************************************************************************)
\* EventFactory.create and emit; whether the thread is overtaken between the
\* two does not matter, since the reader may get events in another order.
Emit(s) ==
  /\ stage = "writing" /\ emitted[s] < Len(Script[s])
  /\ emitted' = [emitted EXCEPT ![s] = @ + 1]
  /\ log' = Append(log, Event(Len(log) + 1, Script[s][emitted[s] + 1]))
  /\ UNCHANGED <<stage, delivered, repeats, byId, ordered, canonical>>

Complete == \A s \in Shards : emitted[s] = Len(Script[s])

FinishWriting ==
  /\ stage = "writing" /\ Complete
  /\ stage' = "reading"
  /\ log' = log \o [k \in DOMAIN Epilogue |-> Event(Len(log) + k, Epilogue[k])]
  /\ UNCHANGED <<emitted, delivered, repeats, byId, ordered, canonical>>

\* The process ends before the run does; the log is read as far as it goes,
\* each event being a line that was written in one piece.
StopWriting ==
  /\ stage = "writing" /\ ~Complete
  /\ stage' = "reading"
  /\ UNCHANGED <<emitted, log, delivered, repeats, byId, ordered, canonical>>

-----------------------------------------------------------------------------
(***************************************************************************)
(* Reading: _canonical_events.                                             *)
(***************************************************************************)
\* Mutant: only the last two events are compared.
LastTwoOrdered(e) == byId = << >> \/ Last(byId).sequence < e.sequence

StillOrdered(e) ==
  ordered /\ (byId = << >> \/ Last(byId).sequence < e.sequence)

Conflicts(e) ==
  \E k \in DOMAIN byId : byId[k].sequence = e.sequence /\ byId[k] # e

Seen(e) == \E k \in DOMAIN byId : byId[k].sequence = e.sequence

Consider(e) ==
  /\ delivered' = delivered \union {e}
  /\ stage' = IF Conflicts(e) THEN "rejected" ELSE stage
  /\ byId' = IF Seen(e) THEN byId ELSE Append(byId, e)
  /\ ordered' = IF Seen(e) THEN ordered ELSE StillOrdered(e)
  /\ UNCHANGED <<emitted, log, canonical>>

InOrder(d, e) == d.sequence < e.sequence

\* Sorted by their numbers, which differ.
InOrderOf(events) ==
  LET all == ToSet(events)
  IN [k \in DOMAIN events |->
        CHOOSE e \in all : Cardinality({d \in all : InOrder(d, e)}) = k - 1]

Missing == {k \in DOMAIN log : log[k] \notin delivered}

Deliver ==
  /\ stage = "reading"
  /\ \E k \in Missing :
       /\ \A j \in Missing : k < j + Window
       /\ Consider(log[k])
  /\ UNCHANGED repeats

\* An event that was delivered before, or one that another factory numbered.
DeliverAgain ==
  /\ stage = "reading" /\ repeats < MaxRepeats
  /\ repeats' = repeats + 1
  /\ \E e \in delivered \union Foreign : Consider(e)

FinishReading ==
  /\ stage = "reading" /\ Missing = {}
  /\ stage' = "reduced"
  /\ canonical' = IF ordered THEN byId ELSE InOrderOf(byId)
  /\ UNCHANGED <<emitted, log, delivered, repeats, byId, ordered>>

ReadingOver == stage \in {"reduced", "rejected"} /\ UNCHANGED logVars

LogNext ==
  \/ \E s \in Shards : Emit(s)
  \/ FinishWriting \/ StopWriting
  \/ Deliver \/ DeliverAgain \/ FinishReading \/ ReadingOver

LogSpec == LogInit /\ [][LogNext]_logVars

-----------------------------------------------------------------------------
(***************************************************************************)
(* Reducing: reduce_events.                                                *)
(***************************************************************************)
OfType(types) == SelectSeq(canonical, LAMBDA e : e.fact.type \in types)

AttemptTypes ==
  {"attempt_started", "phase_finished", "attempt_finished", "worker_lost"}

\* The events of one attempt, as the builder of that attempt sees them.
Observed(test, attempt, type) ==
  SelectSeq(OfType({type}),
            LAMBDA e : e.fact.test = test /\ e.fact.attempt = attempt)

Flattened(events) ==
  FlattenSeq([k \in DOMAIN events |-> events[k].fact.phases])

\* Mutant: of equal results only one finds its copy.
UnmatchedByValue(direct, summaries) ==
  FoldLeft(LAMBDA left, result : RemoveFirst(left, result),
           summaries, SetToSeq(ToSet(direct)))

\* The phases of the summaries that were not also reported one by one, copy
\* for copy.
Unmatched(direct, summaries) ==
  FoldLeft(LAMBDA left, result : RemoveFirst(left, result), summaries, direct)

\* _AttemptBuilder.build; results of one phase stay in the order they came.
PhasesOf(test, attempt) ==
  LET direct == Flattened(Observed(test, attempt, "phase_finished"))
      summaries == Flattened(Observed(test, attempt, "attempt_finished"))
      all == direct \o Unmatched(direct, summaries)
  IN FlattenSeq([k \in DOMAIN Phases |->
                   SelectSeq(all, LAMBDA result : result.phase = Phases[k])])

\* The last result of a phase, among those that did not pass if there are any.
LastOf(phases, name, passing) ==
  LET of == SelectSeq(phases, LAMBDA result :
              result.phase = name /\ (passing \/ result.status # "PASS"))
  IN IF of = << >> THEN "none" ELSE Last(of).status

\* _infer_attempt_status
Infer(phases) ==
  LET setup == LastOf(phases, "setup", FALSE)
      teardown == LastOf(phases, "teardown", FALSE)
      call == LastOf(phases, "call", TRUE)
  IN CASE phases = << >> -> "INFRA_ERROR"
       [] phases # << >> /\ setup # "none" ->
            IF setup \in {"SKIP", "XFAIL", "CANCELLED"} THEN setup
            ELSE "ERROR_SETUP"
       [] phases # << >> /\ setup = "none" /\ teardown # "none" ->
            IF teardown \in {"CRASH", "TIMEOUT", "INFRA_ERROR"} THEN teardown
            ELSE "ERROR_TEARDOWN"
       [] OTHER -> IF call # "none" THEN call ELSE "PASS"

\* A lost worker counts for more than a result, and a result than its phases.
StatusIn(test, attempt) ==
  LET lost == Observed(test, attempt, "worker_lost")
      finished == Observed(test, attempt, "attempt_finished")
  IN IF lost # << >> THEN Last(lost).fact.status
     ELSE IF finished # << >> THEN Last(finished).fact.status
     ELSE Infer(PhasesOf(test, attempt))

Facts(types) == {e.fact : e \in {d \in ToSet(canonical) : d.fact.type \in types}}

AttemptNumbers(test) ==
  {fact.attempt : fact \in {g \in Facts(AttemptTypes) : g.test = test}}

AttemptsOf(test) ==
  LET numbers == AttemptNumbers(test)
      place(n) == Cardinality({m \in numbers : m <= n})
  IN [k \in 1 .. Cardinality(numbers) |->
        StatusIn(test, CHOOSE n \in numbers : place(n) = k)]

\* Once anything was selected or excluded, only what was selected counts.
IncludedTests ==
  IF Facts({"test_selected", "test_excluded"}) # {}
    THEN {fact.test : fact \in Facts({"test_selected"})}
    ELSE {fact.test : fact \in Facts(AttemptTypes \union
                                     {"test_discovered", "test_finalized"})}

Explicit(test) ==
  LET finalized == SelectSeq(OfType({"test_finalized"}),
                             LAMBDA e : e.fact.test = test)
  IN IF finalized = << >> THEN "none" ELSE Last(finalized).fact.status

\* Mutant: the controller's word counts.
ControllerDecides(test) ==
  IF Explicit(test) = "none" THEN FinalizeStatus(AttemptsOf(test), "none")
  ELSE Explicit(test)

Verdict(test) == FinalizeStatus(AttemptsOf(test), Explicit(test))

-----------------------------------------------------------------------------
Events == [sequence : Nat \ {0}, fact : [type : STRING, test : STRING,
             attempt : Nat, status : Statuses \union {"none"},
             phases : Seq([phase : STRING, status : Statuses])]]

LogTypeOK ==
  /\ \A s \in Shards : emitted[s] \in 0..Len(Script[s])
  /\ stage \in {"writing", "reading", "reduced", "rejected"}
  /\ log \in Seq(Events) /\ byId \in Seq(Events) /\ canonical \in Seq(Events)
  /\ delivered = ToSet(byId) \/ stage = "rejected"
  /\ repeats \in 0..MaxRepeats
  /\ ordered \in BOOLEAN

\* What is reduced depends only on the set of events delivered: neither their
\* order nor repetition matters, and a stream that gives one identifier two
\* meanings is never reduced, whichever meaning arrives first.
DeliveryIsIrrelevant ==
  stage = "reduced" =>
    /\ ToSet(canonical) = delivered
    /\ IsSorted(canonical, InOrder)

\* An execution whose events were all published is reduced to its status and
\* its phases, equal ones counted; of one cut short no failure is invented.
ExecutionsAreReproduced ==
  stage = "reduced" =>
    \A s \in Shards : \A k \in DOMAIN Executions[s] :
      LET e == Executions[s][k]
          finished == Observed(e.test, e.attempt, "attempt_finished")
      IN IF finished # << >>
           THEN /\ StatusIn(e.test, e.attempt) = e.status
                /\ PhasesOf(e.test, e.attempt) = e.phases
           ELSE /\ e.attempt \in AttemptNumbers(e.test)
                /\ StatusIn(e.test, e.attempt) \in TestFailures
                => e.status \in TestFailures

\* A test that was attempted is reported as passed only if one of its attempts
\* passed, whatever a controller's TEST_FINALIZED says; and where anything was
\* selected or excluded, only a test that was selected is reported.
FinalizedIsNotBelieved ==
  stage = "reduced" =>
    \A test \in IncludedTests :
      /\ Verdict(test) \in Passing /\ AttemptsOf(test) # << >> =>
           \E k \in DOMAIN AttemptsOf(test) : AttemptsOf(test)[k] \in Passing
      /\ (\E e \in delivered : e.fact.type \in {"test_selected", "test_excluded"}) =>
           \E e \in delivered : e.fact.test = test /\ e.fact.type = "test_selected"
=============================================================================
