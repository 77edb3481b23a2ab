----------------------------- MODULE MCPlanning -----------------------------
(***************************************************************************)
(* Two processes record three runs of six tests; every history they leave  *)
(* is one a later run is planned with.  Durations are multiples of 24, so  *)
(* that the means of up to three of them, and their medians, are whole.    *)
(***************************************************************************)
EXTENDS History, Scheduling

\* Three files: the first has three tests, one of them timed, the second two.
MCTests == 1 .. 6
MCPathOf == <<1, 1, 1, 2, 2, 3>>
MCTimed == {2}

Done(d) == [status |-> "PASS", duration |-> d]
Lost(d) == [status |-> "CRASH", duration |-> d]
Result(t, attempts) ==
  [test |-> t, attempts |-> attempts,
   status |-> IF attempts = << >> THEN "NOT_RUN" ELSE attempts[Len(attempts)].status]

\* A run of long tests; one that is cancelled after a few, of which one takes no
\* time; one in which a worker is lost, before a second attempt or for good.
MCResultsOf ==
  [ a |-> <<Result(1, <<Done(9600)>>), Result(2, <<Done(4800)>>), Result(4, <<Done(0)>>),
            Result(5, <<Done(2400)>>), Result(6, <<Done(7200)>>)>>,
    b |-> <<Result(1, <<Done(0)>>), Result(3, <<Done(0)>>), Result(4, << >>)>>,
    c |-> <<Result(2, <<Lost(96), Done(24)>>), Result(4, <<Done(48), Lost(120)>>),
            Result(6, <<Lost(72)>>)>> ]
MCRuns == DOMAIN MCResultsOf

Workers == 1 .. 3
Files == {PathOf[t] : t \in Tests}

\* Whatever history says (what is being written is seen by nobody), whichever
\* files may be divided, and however many workers there are: every selected test
\* is run by one worker, once; timed tests and undivided files keep their
\* processes; no worker is left without work, not even when nothing takes any
\* time; the longest worker is within the bound of the algorithm; and the number
\* of workers chosen beforehand was chosen by the times of that very plan
\* (schedule_lpt, _initial_work_plan, _execute_retry_attempts, worker_estimates,
\* resolve_adaptive_workers).
PlansAreSound ==
  Idle =>
  LET durations == Durations(Tests) IN
  /\ \A shardable \in SUBSET Files, workers \in Workers :
       LET units == ExecutionUnits(Tests, durations, shardable)
           used == Min({workers, Cardinality(units)})
           plan == WorkPlan(Tests, workers, durations, shardable)
           adaptive == AdaptiveWorkers(Tests, durations, shardable, workers)
       IN /\ EveryTestOnce(plan, Tests)
          /\ AffinityIsKept(plan, shardable)
          /\ Len(plan) = used
          /\ LongestLoad(plan, durations) = Makespan(units, used)
          /\ Cardinality(units) <= 5 =>
               WithinLptBound(LongestLoad(plan, durations), units, used)
          /\ Len(WorkPlan(Tests, adaptive, durations, shardable)) = adaptive
          /\ ReliableDurations(Tests, durations, shardable) =>
               \A w \in 1 .. used :
                 NearBest(LongestLoad(WorkPlan(Tests, adaptive, durations, shardable), durations)
                            + Startup(adaptive),
                          TotalTime(units, w))
  /\ \A pending \in (SUBSET Tests) \ {{}}, workers \in Workers :
       LET shards == RetryPlan(pending, workers, durations)
       IN EveryTestOnce([w \in DOMAIN shards |->
                           [k \in DOMAIN shards[w] |-> shards[w][k].tests]], pending)
=============================================================================
