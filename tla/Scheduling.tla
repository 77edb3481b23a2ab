----------------------------- MODULE Scheduling -----------------------------
(***************************************************************************)
(* How a run is divided among workers: schedule_lpt of scheduler.py, the   *)
(* execution units and the work plan of runner.py, and the cost model of   *)
(* tuning.py that picks the number of workers before the plan is made.     *)
(*                                                                         *)
(* Tests are numbered in the order of their ids.  Time is counted in       *)
(* quarters of a millisecond, so that the medians and fractions the code   *)
(* computes in floating point are whole numbers here.                      *)
(***************************************************************************)
EXTENDS Integers, Sequences, FiniteSets, SequencesExt

CONSTANTS
  Tests,       \* the selected tests
  PathOf,      \* the file of each test, a number in the order of the paths
  Timed        \* the tests with a timeout

ASSUME SchedulingAssumption ==
  /\ Tests \subseteq Nat
  /\ PathOf \in [Tests -> Nat]
  /\ Timed \subseteq Tests

Second == 4000
SpawnCost == 240        \* estimate_spawn_cost("spawn") off Windows and macOS
NearBestFloor == 20     \* _NEAR_BEST_SECONDS
ColdStartWorkers == 4   \* _COLD_START_WORKERS

-----------------------------------------------------------------------------
(***************************************************************************)
(* Estimates.  durations gives what history knows: a function from some of *)
(* the tests to their mean duration.                                       *)
(***************************************************************************)
Sum(S, cost(_)) == MapThenSumSet(cost, S)

\* The elements of S in the order Before, a strict total order on S.
Sorted(S, Before(_, _)) ==
  [i \in 1 .. Cardinality(S) |->
     CHOOSE x \in S : Cardinality({y \in S : Before(y, x)}) = i - 1]

\* The tests are sorted, so that equal durations are counted each.
Median(durations) ==
  LET sorted == Sorted(DOMAIN durations,
                       LAMBDA t, u : \/ durations[t] < durations[u]
                                     \/ durations[t] = durations[u] /\ t < u)
      middle == (Len(sorted) + 1) \div 2
  IN IF Len(sorted) % 2 = 1
       THEN durations[sorted[middle]]
       ELSE (durations[sorted[middle]] + durations[sorted[middle + 1]]) \div 2

Fallback(durations) ==
  IF DOMAIN durations = {} THEN Second ELSE Median(durations)

Estimate(t, durations) ==
  IF t \in DOMAIN durations THEN durations[t] ELSE Fallback(durations)

-----------------------------------------------------------------------------
(***************************************************************************)
(* The greedy algorithm, longest processing time first.  An item has a key *)
(* that orders it among items of the same cost.                            *)
(***************************************************************************)
KeyBefore(a, b) ==
  \/ a[1] < b[1]
  \/ a[1] = b[1] /\ a[2] < b[2]

Heavier(x, y) ==
  \/ x.cost > y.cost
  \/ x.cost = y.cost /\ KeyBefore(x.key, y.key)

Load(shard) == Sum(ToSet(shard), LAMBDA item : item.cost)

\* Mutant: equal loads go to the first shard, whatever it already holds.
FirstOfLightest(shards) ==
  CHOOSE i \in DOMAIN shards :
    \A j \in DOMAIN shards :
      \/ Load(shards[i]) < Load(shards[j])
      \/ Load(shards[i]) = Load(shards[j]) /\ i <= j

Lightest(shards) ==
  CHOOSE i \in DOMAIN shards :
    \A j \in DOMAIN shards :
      \/ Load(shards[i]) < Load(shards[j])
      \/ /\ Load(shards[i]) = Load(shards[j])
         /\ \/ Len(shards[i]) < Len(shards[j])
            \/ Len(shards[i]) = Len(shards[j]) /\ i <= j

ScheduleLpt(items, shardCount) ==
  FoldLeft(LAMBDA shards, item :
             [shards EXCEPT ![Lightest(shards)] = Append(@, item)],
           [i \in 1 .. shardCount |-> << >>],
           Sorted(items, Heavier))

-----------------------------------------------------------------------------
(***************************************************************************)
(* Execution units: a timed test alone, a test of a file that may be       *)
(* divided alone, and the other tests of a file together.  The kinds are   *)
(* numbered in the order of the prefixes of the units' ids.                *)
(***************************************************************************)
Isolated == 1   \* isolated:<test>
Module == 2     \* module:<path>
Sharded == 3    \* test:<test>, sharded:<test> in the cost model

Kind(t, shardable) ==
  IF t \in Timed THEN Isolated
  ELSE IF PathOf[t] \in shardable THEN Sharded ELSE Module

UnitKey(t, shardable) ==
  <<Kind(t, shardable), IF Kind(t, shardable) = Module THEN PathOf[t] ELSE t>>

ExecutionUnits(tests, durations, shardable) ==
  LET In(key) == {t \in tests : UnitKey(t, shardable) = key}
  IN { [key |-> key, tests |-> In(key),
        cost |-> Sum(In(key), LAMBDA t : Estimate(t, durations))] :
         key \in {UnitKey(t, shardable) : t \in tests} }

\* The work items of one shard: first its undivided files and single tests, in
\* one process, then each timed test in a process of its own.
ItemsOf(shard) ==
  LET shared == SelectSeq(shard, LAMBDA unit : unit.key[1] # Isolated)
      alone == SelectSeq(shard, LAMBDA unit : unit.key[1] = Isolated)
      Tested(unit) == unit.tests
      Together == UNION {Tested(shared[i]) : i \in DOMAIN shared}
  IN (IF shared = << >> THEN << >> ELSE <<Together>>)
       \o [i \in DOMAIN alone |-> Tested(alone[i])]

\* _initial_work_plan: what each worker runs, work item by work item.
WorkPlan(tests, workerCount, durations, shardable) ==
  LET units == ExecutionUnits(tests, durations, shardable)
      count == IF workerCount < Cardinality(units)
                 THEN workerCount ELSE Cardinality(units)
  IN IF units = {} THEN << >>
     ELSE SelectSeq([i \in 1 .. count |-> ItemsOf(ScheduleLpt(units, count)[i])],
                    LAMBDA items : items # << >>)

\* A retry is scheduled by itself, with the test's own estimate.
RetryPlan(pending, workerCount, durations) ==
  LET items == { [key |-> <<Sharded, t>>, tests |-> {t},
                  cost |-> Estimate(t, durations)] : t \in pending }
      count == IF workerCount < Cardinality(items)
                 THEN workerCount ELSE Cardinality(items)
  IN ScheduleLpt(items, count)

-----------------------------------------------------------------------------
(***************************************************************************)
(* The cost model.                                                         *)
(***************************************************************************)
\* worker_estimates: loads and counts, without the shards themselves.
Place(loads, unit) ==
  LET least == CHOOSE i \in DOMAIN loads :
                 \A j \in DOMAIN loads :
                   \/ loads[i].cost < loads[j].cost
                   \/ /\ loads[i].cost = loads[j].cost
                      /\ \/ loads[i].units < loads[j].units
                         \/ loads[i].units = loads[j].units /\ i <= j
  IN [loads EXCEPT ![least] = [cost |-> @.cost + unit.cost, units |-> @.units + 1]]

Makespan(units, workers) ==
  LET loads == FoldLeft(Place, [i \in 1 .. workers |-> [cost |-> 0, units |-> 0]],
                        Sorted(units, Heavier))
  IN Max({loads[i].cost : i \in 1 .. workers})

\* Every further worker adds a quarter of the cost of the first.
Startup(workers) == SpawnCost + (SpawnCost \div 4) * (workers - 1)

TotalTime(units, workers) == Makespan(units, workers) + Startup(workers)

\* Is a total time within the tolerance of the best one?
NearBest(time, best) ==
  100 * time <= 100 * best + Max({100 * NearBestFloor, 2 * best})

\* _has_reliable_durations: half of the tests, and some test of every unit.
ReliableDurations(tests, durations, shardable) ==
  LET known == tests \intersect DOMAIN durations
  IN /\ tests # {}
     /\ 2 * Cardinality(known) >= Cardinality(tests)
     /\ \A unit \in ExecutionUnits(tests, durations, shardable) :
          unit.tests \intersect known # {}

\* resolve_adaptive_workers in auto mode.
AdaptiveWorkers(tests, durations, shardable, capacity) ==
  LET units == ExecutionUnits(tests, durations, shardable)
      maximum == IF capacity < Cardinality(units)
                   THEN capacity ELSE Cardinality(units)
      times == [w \in 1 .. maximum |-> TotalTime(units, w)]
      best == Min({times[w] : w \in 1 .. maximum})
  IN IF units = {} THEN 1
     ELSE IF ~ReliableDurations(tests, durations, shardable)
       THEN Min({ColdStartWorkers, maximum})
     ELSE Min({w \in 1 .. maximum : NearBest(times[w], best)})

\* default_worker_candidates
Candidates(unitCount, recommendation, capacity) ==
  LET limit == Min({unitCount, capacity, ColdStartWorkers})
  IN IF unitCount < 1 THEN {1}
     ELSE {1, limit, Min({limit, Max({1, recommendation})})}
            \union {w \in {2} : w < limit}

-----------------------------------------------------------------------------
(***************************************************************************)
(* What is expected of a plan.                                             *)
(***************************************************************************)
ItemsIn(plan) ==
  {<<w, k>> : w \in DOMAIN plan, k \in 1 .. Cardinality(Tests)}
    \intersect UNION {{w} \X DOMAIN plan[w] : w \in DOMAIN plan}

\* Every test is in one work item of one worker.
EveryTestOnce(plan, tests) ==
  /\ \A t \in tests : Cardinality({i \in ItemsIn(plan) : t \in plan[i[1]][i[2]]}) = 1
  /\ \A i \in ItemsIn(plan) : plan[i[1]][i[2]] \subseteq tests

\* A timed test shares its process with no other, and the other tests of a file
\* that may not be divided share one with each other.
AffinityIsKept(plan, shardable) ==
  \A i \in ItemsIn(plan) :
    LET item == plan[i[1]][i[2]] IN
    \A t \in item :
      IF t \in Timed THEN item = {t}
      ELSE PathOf[t] \notin shardable =>
             {u \in Tests : PathOf[u] = PathOf[t]} \ Timed \subseteq item

WorkerLoad(worker, durations) ==
  Sum(UNION ToSet(worker), LAMBDA t : Estimate(t, durations))

LongestLoad(plan, durations) ==
  Max({WorkerLoad(plan[w], durations) : w \in DOMAIN plan})

\* The least time in which so many workers could run the units at all.
Optimum(units, workers) ==
  Min({ Max({Sum({u \in units : f[u] = w}, LAMBDA u : u.cost) : w \in 1 .. workers}) :
          f \in [units -> 1 .. workers] })

\* Longest-first is never a third worse than that.
WithinLptBound(longest, units, workers) ==
  3 * workers * longest <= (4 * workers - 1) * Optimum(units, workers)
=============================================================================
