---------------------------- MODULE RecordProofs ----------------------------
(***************************************************************************)
(* What is proved of what is kept of a run.                                *)
(*                                                                         *)
(* Of History, for any number of recorders, runs, results and failures: a  *)
(* run is recorded as a whole or not at all, counts once, however often it *)
(* is recorded, and a mean is the mean of what was recorded.               *)
(*                                                                         *)
(* Of EventLog, for any executions, shards and foreign events: the order   *)
(* in which events arrive and their repetition make no difference, and     *)
(* nothing passes because a controller says so.                            *)
(***************************************************************************)
EXTENDS History, EventLog, FiniteSetTheorems, WellFoundedInduction, TLAPS

-----------------------------------------------------------------------------
(***************************************************************************)
(* The sum over a set of entries: MapThenSumSet takes them one by one, in  *)
(* an order it chooses, and any order gives the same.                      *)
(***************************************************************************)
TimeOf(entry) == TimeTaken(ResultAt(entry))
TotalTimeOf(entries) == MapThenSumSet(LAMBDA entry : TimeOf(entry), entries)

\* The sums of the subsets of S, as MapThenSumSet defines them.
Pick(s) == CHOOSE x \in s : TRUE
AddsUp(g, s) == g[s] = IF s = {} THEN 0 ELSE TimeOf(Pick(s)) + g[s \ {Pick(s)}]
Sums(S) ==
  CHOOSE g : g = [s \in SUBSET S |->
                    IF s = {} THEN 0 ELSE TimeOf(Pick(s)) + g[s \ {Pick(s)}]]

LEMMA TotalIsLastSum ==
  ASSUME NEW S
  PROVE  TotalTimeOf(S) = Sums(S)[S]
  BY DEF TotalTimeOf, MapThenSumSet, MapThenFoldSet, Sums, Pick

LEMMA Picked ==
  ASSUME NEW s, s # {}
  PROVE  Pick(s) \in s
  BY DEF Pick

\* One element less: what the inductions on the size of a set need.
LEMMA OneLess ==
  ASSUME NEW S, IsFiniteSet(S), NEW x \in S
  PROVE  /\ IsFiniteSet(S \ {x})
         /\ Cardinality(S) \in Nat \ {0}
         /\ Cardinality(S \ {x}) = Cardinality(S) - 1
         /\ S = (S \ {x}) \cup {x}
<1>1. IsFiniteSet(S \ {x})
  BY FS_RemoveElement
<1>2. Cardinality(S) = Cardinality(S \ {x}) + 1
  <2>1. (S \ {x}) \cup {x} = S
    OBVIOUS
  <2> QED BY <1>1, <2>1, FS_AddElement
<1>3. Cardinality(S \ {x}) \in Nat
  BY <1>1, FS_CardinalityType
<1> QED BY <1>1, <1>2, <1>3

\* Some number of a set of numbers is the least.
LEMMA LeastExists ==
  ASSUME NEW S \in SUBSET Nat, S # {}
  PROVE  \E k \in S : \A j \in S : ~ (j < k)
<1> PICK m \in S : \A l \in S : <<l, m>> \notin OpToRel(<, Nat)
  BY NatLessThanWellFounded, WFMin
<1> QED BY DEF OpToRel

\* There are such sums.
LEMMA SumsUpTo ==
  ASSUME NEW S, IsFiniteSet(S)
  PROVE  \A n \in Nat : \E g : \A s \in SUBSET S : Cardinality(s) <= n => AddsUp(g, s)
<1> DEFINE Good(n) == \E g : \A s \in SUBSET S : Cardinality(s) <= n => AddsUp(g, s)
           Bad == {n \in Nat : ~Good(n)}
<1>0. \A s \in SUBSET S : IsFiniteSet(s) /\ Cardinality(s) \in Nat
  BY FS_Subset, FS_CardinalityType
<1>1. Good(0)
  <2> DEFINE g == [s \in SUBSET S |-> 0]
  <2>1. \A s \in SUBSET S : Cardinality(s) <= 0 => s = {}
    BY <1>0, FS_EmptySet
  <2>2. \A s \in SUBSET S : Cardinality(s) <= 0 => AddsUp(g, s)
    BY <2>1 DEF AddsUp
  <2> HIDE DEF g
  <2> QED BY <2>2
<1>2. ASSUME NEW n \in Nat, Good(n) PROVE Good(n + 1)
  <2> PICK g : \A s \in SUBSET S : Cardinality(s) <= n => AddsUp(g, s)
    BY <1>2
  <2> DEFINE h == [s \in SUBSET S |->
                     IF Cardinality(s) <= n THEN g[s]
                     ELSE TimeOf(Pick(s)) + g[s \ {Pick(s)}]]
  <2>1. ASSUME NEW s \in SUBSET S, Cardinality(s) <= n + 1
        PROVE  AddsUp(h, s)
    <3>1. CASE s = {}
      <4>1. Cardinality(s) <= n /\ s \in SUBSET S
        BY <3>1, FS_EmptySet
      <4> QED BY <3>1, <4>1 DEF AddsUp
    <3>2. CASE s # {}
      <4> PICK x : x = Pick(s)
        OBVIOUS
      <4>1. x \in s
        BY <3>2, Picked
      <4>2. /\ s \ {x} \in SUBSET S
            /\ Cardinality(s \ {x}) <= n
            /\ Cardinality(s \ {x}) = Cardinality(s) - 1
        BY <1>0, <2>1, <4>1, OneLess
      <4>3. h[s \ {x}] = g[s \ {x}]
        BY <4>2
      <4>4. h[s] = TimeOf(x) + g[s \ {x}]
        <5>1. CASE Cardinality(s) <= n
          <6>1. h[s] = g[s]
            BY <5>1
          <6>2. AddsUp(g, s)
            BY <5>1
          <6> QED BY <3>2, <6>1, <6>2 DEF AddsUp
        <5>2. CASE ~(Cardinality(s) <= n)
          BY <5>2
        <5> QED BY <5>1, <5>2
      <4> QED BY <3>2, <4>3, <4>4 DEF AddsUp
    <3> QED BY <3>1, <3>2
  <2> HIDE DEF h
  <2> QED BY <2>1
<1> SUFFICES ASSUME Bad # {} PROVE FALSE
  OBVIOUS
<1>3. PICK m \in Bad : \A j \in Bad : ~ (j < m)
  BY LeastExists
<1>4. m # 0 /\ m \in Nat
  BY <1>1
<1>5. m - 1 \in Nat /\ m - 1 \notin Bad /\ (m - 1) + 1 = m
  BY <1>3, <1>4
<1>6. Good(m - 1)
  BY <1>5
<1> HIDE DEF Good
<1> QED BY <1>2, <1>5, <1>6

LEMMA SumsExist ==
  ASSUME NEW S, IsFiniteSet(S)
  PROVE  \A s \in SUBSET S : AddsUp(Sums(S), s)
<1> PICK n : n = Cardinality(S)
  OBVIOUS
<1>1. n \in Nat /\ \A s \in SUBSET S : Cardinality(s) <= n
  BY FS_CardinalityType, FS_Subset
<1> PICK g : \A s \in SUBSET S : Cardinality(s) <= n => AddsUp(g, s)
  BY <1>1, SumsUpTo
<1> DEFINE Equation(f) ==
      f = [s \in SUBSET S |-> IF s = {} THEN 0 ELSE TimeOf(Pick(s)) + f[s \ {Pick(s)}]]
<1> PICK f : f = [s \in SUBSET S |-> g[s]]
  OBVIOUS
<1>2. \A s \in SUBSET S : f[s] = IF s = {} THEN 0 ELSE TimeOf(Pick(s)) + f[s \ {Pick(s)}]
  <2> TAKE s \in SUBSET S
  <2>1. AddsUp(g, s) /\ s \ {Pick(s)} \in SUBSET S
    BY <1>1
  <2> QED BY <2>1 DEF AddsUp
<1>3. Equation(f)
  BY <1>2
<1>4. Sums(S) = CHOOSE e : Equation(e)
  BY DEF Sums
<1>5. Equation(Sums(S))
  BY <1>3, <1>4
<1> QED BY <1>5 DEF AddsUp

\* The sums of a set are those of a larger one.
LEMMA SumsAgree ==
  ASSUME NEW S, IsFiniteSet(S), NEW T \in SUBSET S
  PROVE  Sums(S)[T] = TotalTimeOf(T)
<1> PICK g, f : g = Sums(S) /\ f = Sums(T)
  OBVIOUS
<1>1. /\ \A s \in SUBSET T : AddsUp(f, s)
      /\ \A s \in SUBSET T : AddsUp(g, s)
      /\ \A s \in SUBSET T : IsFiniteSet(s) /\ Cardinality(s) \in Nat
  BY SumsExist, FS_Subset, FS_CardinalityType
<1> DEFINE Bad == {Cardinality(s) : s \in {r \in SUBSET T : f[r] # g[r]}}
<1> SUFFICES ASSUME f[T] # g[T] PROVE FALSE
  BY TotalIsLastSum
<1>2. Bad # {} /\ Bad \in SUBSET Nat
  BY <1>1
<1>3. PICK m \in Bad : \A j \in Bad : ~ (j < m)
  BY <1>2, LeastExists
<1>4. PICK s \in SUBSET T : f[s] # g[s] /\ m = Cardinality(s)
  OBVIOUS
<1>5. s # {}
  BY <1>1, <1>4 DEF AddsUp
<1> PICK x : x = Pick(s)
  OBVIOUS
<1>6. x \in s
  BY <1>5, Picked
<1>7. Cardinality(s \ {x}) < m
  BY <1>1, <1>4, <1>6, OneLess
<1>8. f[s \ {x}] = g[s \ {x}]
  BY <1>3, <1>7
<1> QED BY <1>1, <1>4, <1>5, <1>8 DEF AddsUp

LEMMA TotalUnfolds ==
  ASSUME NEW S, IsFiniteSet(S)
  PROVE  TotalTimeOf(S) = IF S = {} THEN 0 ELSE TimeOf(Pick(S)) + TotalTimeOf(S \ {Pick(S)})
<1>1. AddsUp(Sums(S), S)
  BY SumsExist
<1>2. /\ Sums(S)[S] = TotalTimeOf(S)
      /\ Sums(S)[S \ {Pick(S)}] = TotalTimeOf(S \ {Pick(S)})
  BY SumsAgree
<1> QED BY <1>1, <1>2 DEF AddsUp

\* Whichever is taken first.
LEMMA TotalTakesAny ==
  ASSUME NEW S, IsFiniteSet(S), \A x \in S : TimeOf(x) \in Nat
  PROVE  /\ TotalTimeOf(S) \in Nat
         /\ \A y \in S : TotalTimeOf(S) = TimeOf(y) + TotalTimeOf(S \ {y})
<1> DEFINE Fine(s) == /\ TotalTimeOf(s) \in Nat
                      /\ \A y \in s : TotalTimeOf(s) = TimeOf(y) + TotalTimeOf(s \ {y})
           Bad == {Cardinality(s) : s \in {r \in SUBSET S : ~Fine(r)}}
<1>1. \A s \in SUBSET S : IsFiniteSet(s) /\ Cardinality(s) \in Nat
  BY FS_Subset, FS_CardinalityType
<1> SUFFICES ASSUME ~Fine(S) PROVE FALSE
  OBVIOUS
<1>2. Bad # {} /\ Bad \in SUBSET Nat
  <2> HIDE DEF Fine
  <2> QED BY <1>1
<1>3. PICK m \in Bad : \A j \in Bad : ~ (j < m)
  BY <1>2, LeastExists
<1>4. PICK s \in SUBSET S : ~Fine(s) /\ m = Cardinality(s)
  <2> HIDE DEF Fine
  <2> QED OBVIOUS
<1>5. ASSUME NEW y \in s PROVE s \ {y} \in SUBSET S /\ Fine(s \ {y}) /\ IsFiniteSet(s \ {y})
  <2>1. Cardinality(s \ {y}) < m /\ IsFiniteSet(s \ {y})
    BY <1>1, <1>4, OneLess
  <2>2. s \ {y} \in SUBSET S
    OBVIOUS
  <2> HIDE DEF Fine
  <2> QED BY <1>3, <2>1, <2>2
<1>6. CASE s = {}
  <2>1. TotalTimeOf(s) = 0
    BY <1>1, <1>6, TotalUnfolds
  <2> QED BY <1>4, <1>6, <2>1
<1>7. CASE s # {}
  <2> PICK x : x = Pick(s)
    OBVIOUS
  <2>1. x \in s /\ TotalTimeOf(s) = TimeOf(x) + TotalTimeOf(s \ {x})
    BY <1>1, <1>7, Picked, TotalUnfolds
  <2>2. TotalTimeOf(s) \in Nat
    BY <1>5, <2>1
  <2>3. ASSUME NEW y \in s PROVE TotalTimeOf(s) = TimeOf(y) + TotalTimeOf(s \ {y})
    <3>1. CASE y = x
      BY <2>1, <3>1
    <3>2. CASE y # x
      <4> PICK rest : rest = (s \ {x}) \ {y}
        OBVIOUS
      <4>1. rest = (s \ {y}) \ {x} /\ y \in s \ {x} /\ x \in s \ {y}
        BY <2>1, <3>2
      <4>2. TotalTimeOf(s \ {x}) = TimeOf(y) + TotalTimeOf(rest)
        BY <1>5, <2>1, <4>1
      <4>3. TotalTimeOf(s \ {y}) = TimeOf(x) + TotalTimeOf(rest)
        BY <1>5, <4>1
      <4>4. TotalTimeOf(rest) \in Nat
        <5>1. Fine(s \ {x}) /\ TotalTimeOf(s \ {y}) \in Nat
          BY <1>5, <2>1
        <5>2. Cardinality(rest) < m
          <6>1. IsFiniteSet(s \ {x}) /\ Cardinality(s \ {x}) = m - 1 /\ m \in Nat
            BY <1>1, <1>4, <2>1, OneLess
          <6>2. Cardinality(rest) = Cardinality(s \ {x}) - 1
            BY <4>1, <6>1, OneLess
          <6> QED BY <6>1, <6>2
        <5>3. Fine(rest)
          <6> HIDE DEF Fine
          <6> QED BY <1>3, <1>4, <4>1, <5>2
        <5> QED BY <5>3
      <4>5. TimeOf(x) \in Nat /\ TimeOf(y) \in Nat
        BY <2>1
      <4> QED BY <2>1, <4>2, <4>3, <4>4, <4>5
    <3> QED BY <3>1, <3>2
  <2> QED BY <1>4, <2>2, <2>3
<1> QED BY <1>6, <1>7

\* One entry more is its time more.
LEMMA TotalAdds ==
  ASSUME NEW S, IsFiniteSet(S), NEW y, y \notin S, \A x \in S \cup {y} : TimeOf(x) \in Nat
  PROVE  /\ TotalTimeOf(S) \in Nat
         /\ TotalTimeOf(S \cup {y}) = TotalTimeOf(S) + TimeOf(y)
<1>1. IsFiniteSet(S \cup {y}) /\ (S \cup {y}) \ {y} = S
  BY FS_AddElement
<1>2. TotalTimeOf(S) \in Nat /\ TotalTimeOf(S \cup {y}) \in Nat
  BY <1>1, TotalTakesAny
<1>3. TotalTimeOf(S \cup {y}) = TimeOf(y) + TotalTimeOf((S \cup {y}) \ {y})
  BY <1>1, TotalTakesAny
<1> QED BY <1>1, <1>2, <1>3

\* Some number of a bounded set is the largest.
LEMMA LargestExists ==
  ASSUME NEW n \in Nat, NEW S \in SUBSET (1 .. n), S # {}
  PROVE  \E k \in S : \A j \in S : j <= k
<1> DEFINE T == {n - k : k \in S}
<1>0. \A k \in S : k \in Nat /\ k <= n
  OBVIOUS
<1>1. T \subseteq Nat /\ T # {}
  <2>1. \A k \in S : n - k \in Nat
    BY <1>0
  <2> QED BY <2>1
<1>3. PICK m \in T : \A l \in T : ~ (l < m)
  BY <1>1, LeastExists
<1>4. PICK k \in S : m = n - k
  OBVIOUS
<1>5. \A j \in S : j <= k
  <2> TAKE j \in S
  <2>1. n - j \in T /\ ~ (n - j < n - k)
    BY <1>3, <1>4
  <2>2. j \in Nat /\ k \in Nat
    BY <1>0
  <2> HIDE DEF T
  <2> QED BY <2>1, <2>2
<1> QED BY <1>5

LEMMA ElementsOf ==
  ASSUME NEW S, NEW s \in Seq(S)
  PROVE  \A j \in 1 .. Len(s) : s[j] \in S
  OBVIOUS

\* _scheduler_duration: a time if there is one.
LEMMA DurationsAreNumbers ==
  ASSUME NEW run \in Runs, NEW k \in DOMAIN ResultsOf[run], Timings(ResultsOf[run][k]) # {}
  PROVE  SchedulerDuration(ResultsOf[run][k]) \in Nat
<1> PICK result, attempts : result = ResultsOf[run][k] /\ attempts = result.attempts
  OBVIOUS
<1> PICK Attempt : Attempt = [status : STRING, duration : Nat]
  OBVIOUS
<1>1. attempts \in Seq(Attempt)
  BY HistoryAssumption
<1>2. DOMAIN attempts = 1 .. Len(attempts) /\ Len(attempts) \in Nat
  BY <1>1
<1>3. Timings(result) \subseteq 1 .. Len(attempts)
  BY <1>2 DEF Timings
<1>4. \E last \in Timings(result) : \A j \in Timings(result) : j <= last
  BY <1>2, <1>3, LargestExists
<1> DEFINE last == CHOOSE l \in Timings(result) : \A j \in Timings(result) : j <= l
<1>5. last \in DOMAIN attempts
  BY <1>2, <1>3, <1>4
<1> PICK place : place = last
  OBVIOUS
<1>6. attempts[place] \in Attempt
  <2>1. \A j \in 1 .. Len(attempts) : attempts[j] \in Attempt
    BY <1>1, ElementsOf
  <2>2. place \in 1 .. Len(attempts)
    BY <1>2, <1>5
  <2> HIDE DEF last
  <2> QED BY <2>1, <2>2
<1>7. attempts[place].duration \in Nat
  BY <1>6
<1> QED BY <1>7 DEF SchedulerDuration

\* _scheduler_duration takes the time of the last attempt that was not lost.
LEMMA SameDuration ==
  ASSUME NEW run \in Runs, NEW k \in DOMAIN ResultsOf[run], Timings(ResultsOf[run][k]) # {}
  PROVE  TimeTaken(ResultsOf[run][k]) = SchedulerDuration(ResultsOf[run][k])
<1> PICK result, attempts : result = ResultsOf[run][k] /\ attempts = result.attempts
  OBVIOUS
<1> DEFINE lost(j) == attempts[j].status \in InfrastructureStatuses
           IsLast(j) == j \in Timings(result) /\ \A i \in Timings(result) : i <= j
           EndsLast(j) == /\ j \in DOMAIN attempts
                          /\ ~lost(j) /\ \A i \in DOMAIN attempts : i > j => lost(i)
<1>1. attempts \in Seq([status : STRING, duration : Nat])
  BY HistoryAssumption
<1>2. DOMAIN attempts = 1 .. Len(attempts) /\ Len(attempts) \in Nat
  BY <1>1
<1>3. \A j : j \in Timings(result) <=> j \in DOMAIN attempts /\ ~lost(j)
  BY DEF Timings
<1>4. \A j : IsLast(j) <=> EndsLast(j)
  <2> HIDE DEF lost
  <2> QED BY <1>2, <1>3
<1>5. (CHOOSE j : IsLast(j)) = (CHOOSE j : EndsLast(j))
  <2> HIDE DEF IsLast, EndsLast
  <2> QED BY <1>4
<1>6. SchedulerDuration(result) = attempts[CHOOSE j : IsLast(j)].duration
  BY DEF SchedulerDuration
<1>7. TimeTaken(result) = attempts[CHOOSE j : EndsLast(j)].duration
  BY DEF TimeTaken
<1> QED BY <1>5, <1>6, <1>7

-----------------------------------------------------------------------------
(***************************************************************************)
(* The inductive invariant.                                                *)
(***************************************************************************)
IsTimed(entry) == Timings(ResultAt(entry)) # {}

TimedIn(entries, t) == {entry \in entries : ResultAt(entry).test = t /\ IsTimed(entry)}

RowsOf(entries) == {<<entry[1], ResultAt(entry).test>> : entry \in entries}

IsRow(row) == row = [mean |-> row.mean, samples |-> row.samples, status |-> row.status]

\* The mean is a fraction, of the time of the entries over their number.
IsMeanOf(row, timed) ==
  /\ row.mean \in [total : Nat, parts : Nat \ {0}]
  /\ row.mean.total * row.samples = row.mean.parts * TotalTimeOf(timed)

\* The tables hold what those entries say, and nothing else.
RowsHold(rows, entries) == rows = RowsOf(entries)

TestsHold(table, entries) ==
  /\ table = [t \in DOMAIN table |-> table[t]]
  /\ DOMAIN table = {t \in AllTests : TimedIn(entries, t) # {}}
  /\ \A t \in DOMAIN table :
       /\ IsRow(table[t]) /\ table[t].samples = Cardinality(TimedIn(entries, t))
       /\ IsMeanOf(table[t], TimedIn(entries, t))
  /\ \A t \in AllTests : IsFiniteSet(TimedIn(entries, t))

Hold(tables, entries) ==
  /\ tables = [runs |-> tables.runs, results |-> tables.results, history |-> tables.history]
  /\ RowsHold(tables.results, entries)
  /\ TestsHold(tables.history, entries)

\* What the transaction of a recorder has written before the place it is at.
Written(run, place) == {run} \X (1 .. place - 1)
Drafted(r) == Entries(runs) \cup Written(writing[r], next[r])

CommittedHolds == runs \subseteq Runs /\ Hold(Committed, Entries(runs))

OneWriter ==
  \A r, s \in Recorders : writing[r] # Nothing /\ writing[s] # Nothing => r = s

RecorderTypes ==
  /\ writing \in [Recorders -> Runs \cup {Nothing}]
  /\ next \in [Recorders -> Nat \ {0}]
  /\ \A r \in Recorders : writing[r] = Nothing => next[r] = 1

DraftHolds ==
  \A r \in Recorders : writing[r] # Nothing =>
    /\ next[r] <= Len(ResultsOf[writing[r]]) + 1
    /\ draft.runs = runs \cup {writing[r]}
    /\ Hold(draft, Drafted(r))

Inv == CommittedHolds /\ OneWriter /\ RecorderTypes /\ DraftHolds

-----------------------------------------------------------------------------
(***************************************************************************)
(* What one more result does to the tables.                                *)
(***************************************************************************)
\* A result of a run is the only one of its test.
LEMMA Distinct ==
  ASSUME NEW run \in Runs, NEW j \in DOMAIN ResultsOf[run], NEW k \in DOMAIN ResultsOf[run],
         ResultsOf[run][j].test = ResultsOf[run][k].test
  PROVE  j = k
  BY HistoryAssumption

LEMMA EntriesAreResults ==
  ASSUME NEW of, NEW entry \in Entries(of)
  PROVE  /\ entry[1] \in of /\ entry[2] \in DOMAIN ResultsOf[entry[1]]
         /\ entry = <<entry[1], entry[2]>>
  BY DEF Entries

\* A row is there exactly if its result is among those that were written.
LEMMA KnownByItsRow ==
  ASSUME NEW entries \in SUBSET Entries(Runs), NEW run \in Runs,
         NEW k \in DOMAIN ResultsOf[run]
  PROVE  <<run, ResultsOf[run][k].test>> \in RowsOf(entries) <=> <<run, k>> \in entries
<1>1. ASSUME <<run, ResultsOf[run][k].test>> \in RowsOf(entries)
      PROVE  <<run, k>> \in entries
  <2> PICK entry \in entries : <<run, ResultsOf[run][k].test>> = <<entry[1], ResultAt(entry).test>>
    BY <1>1 DEF RowsOf
  <2>1. /\ entry[1] = run /\ entry[2] \in DOMAIN ResultsOf[run]
        /\ entry = <<entry[1], entry[2]>>
    BY EntriesAreResults
  <2>2. entry[2] = k
    BY <2>1, Distinct DEF ResultAt
  <2> QED BY <2>1, <2>2
<1>2. ASSUME <<run, k>> \in entries
      PROVE  <<run, ResultsOf[run][k].test>> \in RowsOf(entries)
  BY <1>2 DEF RowsOf, ResultAt
<1> QED BY <1>1, <1>2

\* What is timed, with one more entry.
LEMMA OneMoreTimed ==
  ASSUME NEW entries, NEW run, NEW k, NEW t
  PROVE  LET entry == <<run, k>>
         IN TimedIn(entries \cup {entry}, t) =
              IF ResultAt(entry).test = t /\ IsTimed(entry)
                THEN TimedIn(entries, t) \cup {entry} ELSE TimedIn(entries, t)
  BY DEF TimedIn

LEMMA TimesAreNumbers ==
  ASSUME NEW entry \in Entries(Runs), IsTimed(entry)
  PROVE  TimeOf(entry) \in Nat
  BY EntriesAreResults, SameDuration, DurationsAreNumbers DEF TimeOf, IsTimed, ResultAt

LEMMA ProductsAreNumbers ==
  ASSUME NEW total \in Nat, NEW parts \in Nat \ {0}, NEW samples \in Nat, NEW duration \in Nat
  PROVE  /\ total * samples + duration * parts \in Nat
         /\ parts * (samples + 1) \in Nat \ {0}
  OBVIOUS

\* The running mean: (m n + d) / (n + 1) is the mean of one more.
LEMMA OneMoreInTheMean ==
  ASSUME NEW total \in Nat, NEW parts \in Nat, NEW samples \in Nat, NEW duration \in Nat,
         NEW time \in Nat, total * samples = parts * time
  PROVE  (total * samples + duration * parts) * (samples + 1) =
           (parts * (samples + 1)) * (time + duration)
  OBVIOUS

\* _record_result: a new row of a test, or one sample more of a known one.
LEMMA TableAdds ==
  ASSUME NEW entries \in SUBSET Entries(Runs), NEW run \in Runs,
         NEW k \in DOMAIN ResultsOf[run], <<run, k>> \notin entries,
         NEW table, TestsHold(table, entries), IsTimed(<<run, k>>),
         NEW duration, duration = SchedulerDuration(ResultsOf[run][k]),
         NEW mean, NEW status, NEW samples,
         mean = IF ResultsOf[run][k].test \in DOMAIN table
                THEN Averaged(table[ResultsOf[run][k].test], duration) ELSE Only(duration),
         samples = IF ResultsOf[run][k].test \in DOMAIN table
                   THEN table[ResultsOf[run][k].test].samples + 1 ELSE 1
  PROVE  TestsHold(WithRow(table, ResultsOf[run][k].test,
                           [mean |-> mean, samples |-> samples, status |-> status]),
                   entries \cup {<<run, k>>})
<1> DEFINE entry == <<run, k>>
           test == ResultsOf[run][k].test
           row == [mean |-> mean, samples |-> samples, status |-> status]
           after == WithRow(table, test, row)
           more == entries \cup {entry}
<1>1. ResultAt(entry).test = test /\ test \in AllTests
  <2>1. entry \in Entries(Runs)
    BY DEF Entries
  <2> QED BY <2>1 DEF ResultAt, AllTests
<1>2. TimedIn(more, test) = TimedIn(entries, test) \cup {entry}
  BY <1>1, OneMoreTimed
<1>3. \A t : t # test => TimedIn(more, t) = TimedIn(entries, t)
  BY <1>1, OneMoreTimed
<1>4. entry \notin TimedIn(entries, test)
  BY DEF TimedIn
<1>5. /\ IsFiniteSet(TimedIn(more, test))
      /\ Cardinality(TimedIn(more, test)) = Cardinality(TimedIn(entries, test)) + 1
  <2> PICK timed : timed = TimedIn(entries, test)
    OBVIOUS
  <2>1. IsFiniteSet(timed) /\ entry \notin timed
    BY <1>1, <1>4 DEF TestsHold
  <2>2. IsFiniteSet(timed \cup {entry}) /\ Cardinality(timed \cup {entry}) = Cardinality(timed) + 1
    BY <2>1, FS_AddElement
  <2> QED BY <1>2, <2>2
<1>6. samples = Cardinality(TimedIn(more, test))
  <2>1. CASE test \in DOMAIN table
    BY <1>5, <2>1 DEF TestsHold
  <2>2. CASE test \notin DOMAIN table
    <3>1. TimedIn(entries, test) = {}
      BY <1>1, <2>2 DEF TestsHold
    <3> QED BY <1>5, <2>2, <3>1, FS_EmptySet
  <2> QED BY <2>1, <2>2
<1>7. after = [t \in DOMAIN table \cup {test} |-> IF t = test THEN row ELSE table[t]]
  BY DEF WithRow
<1>8. DOMAIN after = {t \in AllTests : TimedIn(more, t) # {}}
  BY <1>1, <1>2, <1>3, <1>7 DEF TestsHold
<1>11. IsMeanOf(row, TimedIn(more, test))
  <2>1. TimeOf(entry) = duration /\ duration \in Nat
    <3>1. ResultAt(entry) = ResultsOf[run][k] /\ Timings(ResultsOf[run][k]) # {}
      BY DEF ResultAt, IsTimed
    <3> QED BY <3>1, SameDuration, DurationsAreNumbers DEF TimeOf
  <2>2. \A e \in TimedIn(entries, test) \cup {entry} : TimeOf(e) \in Nat
    BY <2>1, TimesAreNumbers DEF TimedIn
  <2> PICK timed, mean0, samples0 :
        /\ timed = TimedIn(entries, test)
        /\ mean0 = table[test].mean /\ samples0 = table[test].samples
    OBVIOUS
  <2>3. /\ IsFiniteSet(timed) /\ entry \notin timed
        /\ TimedIn(more, test) = timed \cup {entry}
    BY <1>1, <1>2, <1>4 DEF TestsHold
  <2>4. /\ TotalTimeOf(timed) \in Nat
        /\ TotalTimeOf(TimedIn(more, test)) = TotalTimeOf(timed) + duration
    BY <2>1, <2>2, <2>3, TotalAdds
  <2>5. CASE test \in DOMAIN table
    <3>1. /\ mean0 \in [total : Nat, parts : Nat \ {0}]
          /\ mean0.total * samples0 = mean0.parts * TotalTimeOf(timed)
          /\ samples0 = Cardinality(timed)
      BY <2>5 DEF TestsHold, IsMeanOf
    <3>2. samples0 \in Nat
      BY <2>3, <3>1, FS_CardinalityType
    <3>3. /\ mean = [total |-> mean0.total * samples0 + duration * mean0.parts,
                     parts |-> mean0.parts * (samples0 + 1)]
          /\ samples = samples0 + 1
      BY <2>5 DEF Averaged
    <3>4. mean \in [total : Nat, parts : Nat \ {0}]
      <4>1. mean0.total \in Nat /\ mean0.parts \in Nat \ {0}
        BY <3>1
      <4>2. /\ mean0.total * samples0 + duration * mean0.parts \in Nat
            /\ mean0.parts * (samples0 + 1) \in Nat \ {0}
        BY <2>1, <3>2, <4>1, ProductsAreNumbers
      <4> QED BY <3>3, <4>2
    <3>5. mean.total * samples = mean.parts * (TotalTimeOf(timed) + duration)
      BY <2>1, <2>4, <3>1, <3>2, <3>3, OneMoreInTheMean
    <3> QED BY <2>4, <3>4, <3>5 DEF IsMeanOf
  <2>6. CASE test \notin DOMAIN table
    <3>1. timed = {}
      BY <1>1, <2>6 DEF TestsHold
    <3>2. TotalTimeOf(timed) = 0
      BY <3>1, FS_EmptySet, TotalUnfolds
    <3>3. mean = [total |-> duration, parts |-> 1] /\ samples = 1
      BY <2>6 DEF Only
    <3> QED BY <2>1, <2>4, <3>2, <3>3 DEF IsMeanOf
  <2> QED BY <2>5, <2>6
<1>9. \A t \in DOMAIN after :
        /\ IsRow(after[t]) /\ after[t].samples = Cardinality(TimedIn(more, t))
        /\ IsMeanOf(after[t], TimedIn(more, t))
  <2>3. IsRow(row)
    BY <1>11 DEF IsRow, IsMeanOf
  <2>4. row.samples = samples
    OBVIOUS
  <2> HIDE DEF row, after
  <2> TAKE t \in DOMAIN after
  <2>1. CASE t = test
    <3>1. after[t] = row
      BY <1>7, <2>1
    <3> QED BY <1>6, <1>11, <2>1, <2>3, <2>4, <3>1
  <2>2. CASE t # test
    <3>1. t \in DOMAIN table /\ after[t] = table[t]
      BY <1>7, <2>2
    <3>2. t \in AllTests /\ TimedIn(more, t) = TimedIn(entries, t)
      BY <1>3, <2>2, <3>1 DEF TestsHold
    <3> QED BY <3>1, <3>2 DEF TestsHold
  <2> QED BY <2>1, <2>2
<1>10. \A t \in AllTests : IsFiniteSet(TimedIn(more, t))
  BY <1>3, <1>5 DEF TestsHold
<1> QED BY <1>7, <1>8, <1>9, <1>10 DEF TestsHold

\* What it is to have one result more.
Adds(tables, after, entries, run, k) ==
  Hold(after, entries \cup {<<run, k>>}) /\ after.runs = tables.runs

\* _record_result: the tables with one more result, which counts for nothing if it
\* is there.
LEMMA RecordAdds ==
  ASSUME NEW tables, NEW entries \in SUBSET Entries(Runs), Hold(tables, entries),
         NEW run \in Runs, NEW k \in DOMAIN ResultsOf[run],
         NEW after, after = Record(tables, run, ResultsOf[run][k])
  PROVE  Adds(tables, after, entries, run, k)
<1> DEFINE entry == <<run, k>>
           result == ResultsOf[run][k]
           more == entries \cup {entry}
<1> SUFFICES Hold(after, more) /\ after.runs = tables.runs
  BY DEF Adds
<1> PICK runRows, resultRows, table :
      runRows = tables.runs /\ resultRows = tables.results /\ table = tables.history
  OBVIOUS
<1>1. /\ tables = [runs |-> runRows, results |-> resultRows, history |-> table]
      /\ RowsHold(resultRows, entries) /\ TestsHold(table, entries)
  BY DEF Hold
<1>2. <<run, result.test>> \in resultRows <=> entry \in entries
  BY <1>1, KnownByItsRow DEF RowsHold
<1>3. ResultAt(entry) = result /\ (IsTimed(entry) <=> Timings(result) # {})
  BY DEF ResultAt, IsTimed
<1>4. CASE entry \in entries
  <2>1. after = tables /\ more = entries
    BY <1>1, <1>2, <1>4 DEF Record
  <2> QED BY <2>1
<1>5. CASE entry \notin entries
  <2> DEFINE known == result.test \in DOMAIN table
             written == resultRows \cup {<<run, result.test>>}
  <2>1. RowsHold(written, more)
    BY <1>1, <1>3 DEF RowsHold, RowsOf
  <2>2. ASSUME NEW filled, TestsHold(filled, more),
               after = [tables EXCEPT !.results = written, !.history = filled]
        PROVE  Hold(after, more) /\ after.runs = tables.runs
    <3>1. after = [runs |-> runRows, results |-> written, history |-> filled]
      BY <1>1, <2>2
    <3> QED BY <1>1, <2>1, <2>2, <3>1 DEF Hold
  <2>3. CASE Timings(result) = {} /\ ~known
    <3>1. TestsHold(table, more)
      <4>1. \A t : TimedIn(more, t) = TimedIn(entries, t)
        BY <1>3, <2>3 DEF TimedIn
      <4> QED BY <1>1, <4>1 DEF TestsHold
    <3>2. after = [tables EXCEPT !.results = written, !.history = table]
      BY <1>1, <1>2, <1>5, <2>3 DEF Record
    <3> QED BY <2>2, <3>1, <3>2
  <2>4. CASE Timings(result) = {} /\ known
    <3> PICK filled : filled = [table EXCEPT ![result.test].status = result.status]
      OBVIOUS
    <3>1. \A t : TimedIn(more, t) = TimedIn(entries, t)
      BY <1>3, <2>4 DEF TimedIn
    <3>2. DOMAIN filled = DOMAIN table /\ filled = [t \in DOMAIN filled |-> filled[t]]
      OBVIOUS
    <3>3. \A t \in DOMAIN table :
            /\ IsRow(filled[t]) /\ filled[t].samples = table[t].samples
            /\ filled[t].mean = table[t].mean
      <4> SUFFICES ASSUME NEW t \in DOMAIN table
                   PROVE  /\ IsRow(filled[t]) /\ filled[t].samples = table[t].samples
                          /\ filled[t].mean = table[t].mean
        OBVIOUS
      <4> PICK row : row = table[t]
        OBVIOUS
      <4>1. IsRow(row)
        BY <1>1 DEF TestsHold
      <4>2. CASE t = result.test
        <5>1. filled[t] = [row EXCEPT !.status = result.status]
          BY <4>2
        <5> QED BY <4>1, <5>1 DEF IsRow
      <4>3. CASE t # result.test
        BY <4>1, <4>3
      <4> QED BY <4>2, <4>3
    <3>4. TestsHold(filled, more)
      <4>1. DOMAIN filled = {t \in AllTests : TimedIn(more, t) # {}}
        BY <1>1, <3>1, <3>2 DEF TestsHold
      <4>2. \A t \in DOMAIN filled :
              /\ IsRow(filled[t]) /\ filled[t].samples = Cardinality(TimedIn(more, t))
              /\ IsMeanOf(filled[t], TimedIn(more, t))
        <5> TAKE t \in DOMAIN filled
        <5>1. /\ IsRow(filled[t]) /\ filled[t].samples = table[t].samples /\ t \in DOMAIN table
              /\ filled[t].mean = table[t].mean
          BY <3>2, <3>3
        <5>2. /\ table[t].samples = Cardinality(TimedIn(entries, t))
              /\ IsMeanOf(table[t], TimedIn(entries, t))
          BY <1>1, <5>1 DEF TestsHold
        <5>3. TimedIn(more, t) = TimedIn(entries, t)
          BY <3>1
        <5> QED BY <5>1, <5>2, <5>3 DEF IsMeanOf
      <4>3. \A t \in AllTests : IsFiniteSet(TimedIn(more, t))
        BY <1>1, <3>1 DEF TestsHold
      <4> QED BY <3>2, <4>1, <4>2, <4>3 DEF TestsHold
    <3>5. after = [tables EXCEPT !.results = written, !.history = filled]
      BY <1>1, <1>2, <1>5, <2>4 DEF Record
    <3> QED BY <2>2, <3>4, <3>5
  <2>5. CASE Timings(result) # {}
    <3> DEFINE duration == SchedulerDuration(result)
               row == table[result.test]
    <3> PICK mean, samples, filled :
          /\ mean = IF known THEN Averaged(row, duration) ELSE Only(duration)
          /\ samples = IF known THEN row.samples + 1 ELSE 1
          /\ filled = WithRow(table, result.test,
                              [mean |-> mean, samples |-> samples, status |-> result.status])
      OBVIOUS
    <3>1. TestsHold(filled, more)
      BY <1>1, <1>3, <1>5, <2>5, TableAdds
    <3>2. after = [tables EXCEPT !.results = written, !.history = filled]
      BY <1>1, <1>2, <1>5, <2>5 DEF Record
    <3> QED BY <2>2, <3>1, <3>2
  <2> QED BY <2>3, <2>4, <2>5
<1> QED BY <1>4, <1>5


-----------------------------------------------------------------------------
(***************************************************************************)
(* The invariant.                                                          *)
(***************************************************************************)
LEMMA EntriesWithin ==
  ASSUME NEW of \in SUBSET Runs
  PROVE  Entries(of) \subseteq Entries(Runs)
  BY DEF Entries

LEMMA ResultsAreCounted ==
  ASSUME NEW run \in Runs
  PROVE  Len(ResultsOf[run]) \in Nat /\ DOMAIN ResultsOf[run] = 1 .. Len(ResultsOf[run])
  BY HistoryAssumption

\* Init: the tables are empty.
LEMMA InitHolds ==
  ASSUME Init
  PROVE  Inv
<1>1. Entries({}) = {}
  BY DEF Entries
<1>2. Committed = [runs |-> {}, results |-> {}, history |-> [t \in {} |-> Nothing]]
  BY DEF Init, Committed
<1>3. \A t : TimedIn({}, t) = {}
  BY DEF TimedIn
<1>4. TestsHold([t \in {} |-> Nothing], {})
  BY <1>3, FS_EmptySet DEF TestsHold
<1>5. Hold([runs |-> {}, results |-> {}, history |-> [t \in {} |-> Nothing]], {})
  BY <1>4 DEF Hold, RowsHold, RowsOf
<1>6. CommittedHolds
  BY <1>1, <1>2, <1>5 DEF CommittedHolds, Init
<1>7. OneWriter /\ RecorderTypes /\ DraftHolds
  BY DEF OneWriter, RecorderTypes, DraftHolds, Init
<1> QED BY <1>6, <1>7 DEF Inv

\* Begin: the transaction starts from what is committed.
LEMMA BeginHolds ==
  ASSUME Inv, NEW r \in Recorders, NEW run \in Runs, Begin(r, run)
  PROVE  Inv'
<1>1. /\ writing' = [writing EXCEPT ![r] = run] /\ next' = next
      /\ runs' = runs /\ results' = results /\ history' = history
      /\ draft' = [Committed EXCEPT !.runs = @ \cup {run}]
      /\ \A s \in Recorders : writing[s] = Nothing
  BY DEF Begin, Idle
<1>2. run # Nothing
  BY HistoryAssumption DEF Nothing
<1>3. RecorderTypes' /\ OneWriter'
  BY <1>1, <1>2 DEF Inv, RecorderTypes, OneWriter
<1>4. CommittedHolds'
  BY <1>1 DEF Inv, CommittedHolds, Committed
<1>5. DraftHolds'
  <2> SUFFICES ASSUME NEW s \in Recorders, writing'[s] # Nothing
               PROVE  /\ next'[s] <= Len(ResultsOf[writing'[s]]) + 1
                      /\ draft'.runs = runs' \cup {writing'[s]}
                      /\ Hold(draft', Entries(runs') \cup Written(writing'[s], next'[s]))
    BY DEF DraftHolds, Drafted
  <2>1. writing'[s] = run /\ next'[s] = 1
    BY <1>1 DEF Inv, RecorderTypes
  <2>2. Written(run, 1) = {}
    BY DEF Written
  <2> PICK rows, table, entries : rows = results /\ table = history /\ entries = Entries(runs)
    OBVIOUS
  <2>3. draft' = [runs |-> runs \cup {run}, results |-> rows, history |-> table]
    BY <1>1 DEF Committed
  <2>4. RowsHold(rows, entries) /\ TestsHold(table, entries)
    BY DEF Inv, CommittedHolds, Hold, Committed
  <2>5. Hold(draft', entries)
    BY <2>3, <2>4 DEF Hold
  <2>6. Entries(runs') \cup Written(writing'[s], next'[s]) = entries
    BY <1>1, <2>1, <2>2
  <2>7. next'[s] <= Len(ResultsOf[writing'[s]]) + 1
    BY <2>1, ResultsAreCounted
  <2>8. draft'.runs = runs' \cup {writing'[s]}
    BY <1>1, <2>1, <2>3
  <2> QED
    BY <2>5, <2>6, <2>7, <2>8
<1> QED BY <1>3, <1>4, <1>5 DEF Inv

\* InsertResult: one result more.
LEMMA InsertResultHolds ==
  ASSUME Inv, NEW r \in Recorders, InsertResult(r)
  PROVE  Inv'
<1> PICK run, place, entries :
      run = writing[r] /\ place = next[r] /\ entries = Entries(runs) \cup Written(run, place)
  OBVIOUS
<1>1. /\ run \in Runs /\ place \in DOMAIN ResultsOf[run] /\ place \in Nat \ {0}
      /\ place <= Len(ResultsOf[run]) /\ Len(ResultsOf[run]) \in Nat
  BY ResultsAreCounted DEF Inv, RecorderTypes, InsertResult
<1>2. /\ writing' = writing /\ next' = [next EXCEPT ![r] = place + 1]
      /\ runs' = runs /\ results' = results /\ history' = history
      /\ draft' = Record(draft, run, ResultsOf[run][place])
  BY DEF InsertResult, Inv, RecorderTypes
<1>3. RecorderTypes' /\ OneWriter'
  BY <1>1, <1>2 DEF Inv, RecorderTypes, OneWriter, InsertResult
<1>4. CommittedHolds'
  BY <1>2 DEF Inv, CommittedHolds, Committed
<1>5. DraftHolds'
  <2>1. Hold(draft, entries) /\ draft.runs = runs \cup {run}
    BY DEF Inv, DraftHolds, Drafted, InsertResult
  <2>2. entries \in SUBSET Entries(Runs)
    <3>1. Entries(runs) \subseteq Entries(Runs)
      BY EntriesWithin DEF Inv, CommittedHolds
    <3>2. Written(run, place) \subseteq Entries(Runs)
      BY <1>1, ResultsAreCounted DEF Written, Entries
    <3> QED BY <3>1, <3>2
  <2> PICK before, after : before = draft /\ after = draft'
    OBVIOUS
  <2>3. Hold(after, entries \cup {<<run, place>>}) /\ after.runs = before.runs
    <3>1. Hold(before, entries) /\ after = Record(before, run, ResultsOf[run][place])
      BY <1>2, <2>1
    <3>2. run \in Runs /\ place \in DOMAIN ResultsOf[run]
      BY <1>1
    <3>3. Adds(before, after, entries, run, place)
      BY <2>2, <3>1, <3>2, RecordAdds
    <3> QED BY <3>3 DEF Adds
  <2>4. entries \cup {<<run, place>>} = Entries(runs) \cup Written(run, place + 1)
    BY <1>1 DEF Written
  <2> SUFFICES ASSUME NEW s \in Recorders, writing'[s] # Nothing
               PROVE  /\ next'[s] <= Len(ResultsOf[writing'[s]]) + 1
                      /\ draft'.runs = runs' \cup {writing'[s]}
                      /\ Hold(draft', Entries(runs') \cup Written(writing'[s], next'[s]))
    BY DEF DraftHolds, Drafted
  <2>5. s = r
    BY <1>2 DEF Inv, OneWriter, InsertResult
  <2>6. writing'[s] = run /\ next'[s] = place + 1
    BY <1>2, <2>5 DEF Inv, RecorderTypes
  <2>7. Entries(runs') \cup Written(writing'[s], next'[s]) = entries \cup {<<run, place>>}
    BY <1>2, <2>4, <2>6
  <2>8. next'[s] <= Len(ResultsOf[writing'[s]]) + 1
    BY <1>1, <2>6
  <2>9. draft'.runs = runs' \cup {writing'[s]}
    BY <1>2, <2>1, <2>3, <2>6
  <2> QED BY <2>3, <2>7, <2>8, <2>9
<1> QED BY <1>3, <1>4, <1>5 DEF Inv

\* When a transaction is over nobody writes.
LEMMA NobodyWrites ==
  ASSUME Inv, NEW r \in Recorders, writing[r] # Nothing,
         writing' = [writing EXCEPT ![r] = Nothing], next' = [next EXCEPT ![r] = 1],
         CommittedHolds'
  PROVE  Inv'
<1>1. \A s \in Recorders : writing'[s] = Nothing
  BY DEF Inv, OneWriter, RecorderTypes
<1>2. RecorderTypes'
  BY DEF Inv, RecorderTypes
<1> QED BY <1>1, <1>2 DEF Inv, OneWriter, DraftHolds

\* Commit: the whole run is there.
LEMMA CommitHolds ==
  ASSUME Inv, NEW r \in Recorders, Commit(r)
  PROVE  Inv'
<1> PICK run, place, known :
      run = writing[r] /\ place = next[r] /\ known = runs
  OBVIOUS
<1>1. /\ run \in Runs /\ place = Len(ResultsOf[run]) + 1
      /\ DOMAIN ResultsOf[run] = 1 .. place - 1
  BY ResultsAreCounted DEF Inv, RecorderTypes, DraftHolds, Commit
<1>2. Entries(known) \cup Written(run, place) = Entries(known \cup {run})
  BY <1>1 DEF Written, Entries
<1>3. /\ Hold(draft, Entries(known \cup {run})) /\ draft.runs = known \cup {run}
  BY <1>2 DEF Inv, DraftHolds, Drafted, Commit
<1>4. Committed' = draft
  BY <1>3 DEF Committed, Commit, Hold
<1>5. runs' = known \cup {run}
  BY <1>3 DEF Commit
<1>6. CommittedHolds'
  BY <1>1, <1>3, <1>4, <1>5 DEF Inv, CommittedHolds
<1> QED BY <1>6, NobodyWrites DEF Commit

\* Rollback: nothing of the run is there.
LEMMA RollbackHolds ==
  ASSUME Inv, NEW r \in Recorders, Rollback(r)
  PROVE  Inv'
<1>1. CommittedHolds'
  BY DEF Inv, CommittedHolds, Committed, Rollback
<1> QED BY <1>1, NobodyWrites DEF Rollback

LEMMA NextHolds ==
  ASSUME Inv, [Next]_vars
  PROVE  Inv'
<1>1. CASE Next
  BY <1>1, BeginHolds, InsertResultHolds, CommitHolds, RollbackHolds DEF Next
<1>2. CASE UNCHANGED vars
  BY <1>2 DEF vars, Inv, CommittedHolds, OneWriter, RecorderTypes, DraftHolds, Drafted, Committed
<1> QED BY <1>1, <1>2

\* The tables hold what the recorded runs say, and the draft what has been written
\* of one more.
THEOREM Invariance == Spec => []Inv
<1>1. Init => Inv
  BY InitHolds
<1>2. Inv /\ [Next]_vars => Inv'
  BY NextHolds
<1> QED BY <1>1, <1>2, PTL DEF Spec

-----------------------------------------------------------------------------
(***************************************************************************)
(* The theorems.                                                           *)
(***************************************************************************)
LEMMA InvMakesWhole == Inv => RunsAreWhole
  BY DEF Inv, CommittedHolds, Committed, Hold, RowsHold, RowsOf, RunsAreWhole

LEMMA InvCounts == Inv => SamplesAreCounted
<1> SUFFICES ASSUME Inv PROVE SamplesAreCounted
  OBVIOUS
<1>1. \A t : TimedIn(Entries(runs), t) = TimedResults(t)
  BY DEF TimedIn, TimedResults, IsTimed
<1>2. TestsHold(history, Entries(runs))
  BY DEF Inv, CommittedHolds, Committed, Hold
<1> QED BY <1>1, <1>2 DEF TestsHold, SamplesAreCounted

\* A run is in the history with all its results or with none, whatever fails in the
\* middle of a recording and however many processes record: the first part of
\* EstimatesAreMeans (record_run).
THEOREM RecordedAsAWhole == Spec => []RunsAreWhole
  BY InvMakesWhole, Invariance, PTL

\* Every result that says how long a test takes counts exactly once, however often
\* its run is recorded, and no other counts: the second part of EstimatesAreMeans
\* (_record_result).
THEOREM CountedOnce == Spec => []SamplesAreCounted
  BY InvCounts, Invariance, PTL

\* What a run is scheduled with is the mean of the times of the results recorded,
\* each counted once: the third part and with it all of EstimatesAreMeans
\* (_record_result).
THEOREM EstimatesAreExact == Spec => []EstimatesAreMeans
<1>1. Inv => EstimatesAreMeans
  <2> SUFFICES ASSUME Inv PROVE EstimatesAreMeans
    OBVIOUS
  <2>1. \A t : TimedIn(Entries(runs), t) = TimedResults(t)
    BY DEF TimedIn, TimedResults, IsTimed
  <2>2. TestsHold(history, Entries(runs))
    BY DEF Inv, CommittedHolds, Committed, Hold
  <2>3. \A t \in DOMAIN history :
          history[t].mean.total * history[t].samples =
            history[t].mean.parts * TotalTimeOf(TimedResults(t))
    BY <2>1, <2>2 DEF TestsHold, IsMeanOf
  <2>4. \A S : TotalTimeOf(S) = MapThenSumSet(LAMBDA entry : TimeTaken(ResultAt(entry)), S)
    BY DEF TotalTimeOf, TimeOf, MapThenSumSet, MapThenFoldSet
  <2> QED BY <2>3, <2>4, InvMakesWhole, InvCounts DEF EstimatesAreMeans
<1> QED BY <1>1, Invariance, PTL

-----------------------------------------------------------------------------
(***************************************************************************)
(* The types.                                                              *)
(***************************************************************************)
\* What the type invariant needs besides: the draft of nobody is what is committed.
TypeInv ==
  /\ Idle => draft = Committed
  /\ failures \in 0 .. MaxFailures

LEMMA TypesInit == Init => TypeInv
  BY HistoryAssumption DEF Init, TypeInv, Committed

\* Only a recorder that writes changes the draft.
LEMMA TypesNext ==
  ASSUME Inv, TypeInv, [Next]_vars
  PROVE  TypeInv'
<1>1. ASSUME NEW r \in Recorders, NEW run \in Runs, Begin(r, run)
      PROVE  TypeInv'
  <2>1. writing'[r] # Nothing
    BY <1>1, HistoryAssumption DEF Inv, RecorderTypes, Begin, Nothing
  <2> QED BY <1>1, <2>1 DEF TypeInv, Begin, Idle
<1>2. ASSUME NEW r \in Recorders, InsertResult(r)
      PROVE  TypeInv'
  BY <1>2 DEF TypeInv, InsertResult, Idle
<1>3. ASSUME NEW r \in Recorders, Commit(r)
      PROVE  TypeInv'
  <2>1. Committed' = draft
    BY <1>3 DEF Committed, Commit, Inv, DraftHolds, Hold
  <2> QED BY <1>3, <2>1 DEF TypeInv, Commit
<1>4. ASSUME NEW r \in Recorders, Rollback(r)
      PROVE  TypeInv'
  <2>1. draft' = Committed /\ Committed' = Committed
    BY <1>4 DEF Rollback, Committed
  <2>2. failures' \in 0 .. MaxFailures
    BY <1>4, HistoryAssumption DEF TypeInv, Rollback
  <2> QED BY <2>1, <2>2 DEF TypeInv, Committed
<1>5. CASE UNCHANGED vars
  BY <1>5 DEF vars, TypeInv, Committed, Idle
<1> QED BY <1>1, <1>2, <1>3, <1>4, <1>5 DEF Next

\* Every variable keeps its type: a mean is a fraction, and while nobody writes there
\* is nothing that is not committed.
THEOREM TypeCorrect == Spec => []TypeOK
<1>1. Inv /\ TypeInv => TypeOK
  <2> SUFFICES ASSUME Inv, TypeInv PROVE TypeOK
    OBVIOUS
  <2> PICK entries : entries = Entries(runs)
    OBVIOUS
  <2>1. results = RowsOf(entries) /\ TestsHold(history, entries)
    BY DEF Inv, CommittedHolds, Committed, Hold, RowsHold
  <2>2. entries \subseteq Entries(Runs)
    BY EntriesWithin DEF Inv, CommittedHolds
  <2>3. results \subseteq Runs \X AllTests
    BY <2>1, <2>2, EntriesAreResults DEF RowsOf, AllTests
  <2>4. DOMAIN history \subseteq AllTests
    BY <2>1 DEF TestsHold
  <2>5. \A t \in DOMAIN history : history[t].samples \in Nat
    <3> SUFFICES ASSUME NEW t \in DOMAIN history PROVE history[t].samples \in Nat
      OBVIOUS
    <3> PICK timed : timed = TimedIn(entries, t)
      OBVIOUS
    <3>1. IsFiniteSet(timed) /\ history[t].samples = Cardinality(timed)
      BY <2>1 DEF TestsHold
    <3> QED BY <3>1, FS_CardinalityType
  <2>6. \A t \in DOMAIN history : history[t].mean \in [total : Nat, parts : Nat \ {0}]
    BY <2>1 DEF TestsHold, IsMeanOf
  <2> QED
    BY <2>3, <2>4, <2>5, <2>6
    DEF Inv, CommittedHolds, RecorderTypes, TypeInv, TypeOK
<1>2. Init => Inv /\ TypeInv
  BY InitHolds, TypesInit
<1>3. (Inv /\ TypeInv) /\ [Next]_vars => (Inv /\ TypeInv)'
  BY NextHolds, TypesNext
<1> QED BY <1>1, <1>2, <1>3, PTL DEF Spec

-----------------------------------------------------------------------------
(***************************************************************************)
(* The event log.  A reader has, of each number, the event that came       *)
(* first, until two events share a number.                                 *)
(***************************************************************************)
IncreasesIn(events) ==
  \A j, k \in DOMAIN events : j < k => events[j].sequence < events[k].sequence

IsList(events) ==
  /\ Len(events) \in Nat
  /\ events = [k \in 1 .. Len(events) |-> events[k]]

NumbersAre(events) == \A e \in events : e.sequence \in Nat

\* The log is numbered by its places.
LogIs ==
  IsList(log) /\ \A k \in DOMAIN log : log[k].sequence = k

ReaderHas ==
  /\ IsList(byId)
  /\ NumbersAre(delivered) /\ ToSet(byId) \subseteq delivered
  /\ stage # "rejected" => delivered \subseteq ToSet(byId)
  /\ \A j, k \in DOMAIN byId : byId[j].sequence = byId[k].sequence => j = k
  /\ ordered => IncreasesIn(byId)

\* Nothing is reduced that is not in order.
ReducedIs ==
  stage = "reduced" =>
    /\ IsList(canonical) /\ ToSet(canonical) = delivered /\ IncreasesIn(canonical)

LogInv == LogIs /\ ReaderHas /\ ReducedIs

LEMMA ListsAre ==
  ASSUME NEW events, IsList(events)
  PROVE  /\ DOMAIN events = 1 .. Len(events)
         /\ ToSet(events) = {events[k] : k \in 1 .. Len(events)}
         /\ \A e : e \in ToSet(events) <=> \E k \in 1 .. Len(events) : e = events[k]
         /\ events \in Seq({events[k] : k \in 1 .. Len(events)})
  BY DEF IsList, ToSet

LEMMA FunctionsAreSequences ==
  ASSUME NEW n \in Nat, NEW S, NEW events \in [1 .. n -> S]
  PROVE  events \in Seq(S)
  OBVIOUS

LEMMA FunctionsAreLists ==
  ASSUME NEW n \in Nat, NEW events, events = [k \in 1 .. n |-> events[k]]
  PROVE  IsList(events) /\ Len(events) = n
<1> PICK S : S = {events[k] : k \in 1 .. n}
  OBVIOUS
<1>1. events \in [1 .. n -> S]
  OBVIOUS
<1>2. events \in Seq(S)
  BY <1>1
<1>3. Len(events) = n
  BY <1>1
<1> QED BY <1>3 DEF IsList

LEMMA SequencesAreLists ==
  ASSUME NEW S, NEW events \in Seq(S)
  PROVE  IsList(events)
  BY DEF IsList

LEMMA ListWithOneMore ==
  ASSUME NEW events, IsList(events), NEW e
  PROVE  LET more == Append(events, e)
         IN /\ IsList(more) /\ Len(more) = Len(events) + 1
            /\ \A k \in 1 .. Len(events) : more[k] = events[k]
            /\ more[Len(events) + 1] = e
            /\ ToSet(more) = ToSet(events) \cup {e}
<1> PICK n, S : n = Len(events) /\ S = {events[k] : k \in 1 .. Len(events)} \cup {e}
  OBVIOUS
<1>1. n \in Nat /\ events \in Seq(S) /\ e \in S
  BY ListsAre DEF IsList
<1> PICK more : more = Append(events, e)
  OBVIOUS
<1>2. /\ more \in Seq(S) /\ Len(more) = n + 1
      /\ \A k \in 1 .. n : more[k] = events[k]
      /\ more[n + 1] = e
  BY <1>1
<1>3. IsList(more)
  BY <1>2, SequencesAreLists
<1>4. ToSet(more) = ToSet(events) \cup {e}
  <2>1. \A x : /\ x \in ToSet(more) <=> \E k \in 1 .. n + 1 : x = more[k]
               /\ x \in ToSet(events) <=> \E k \in 1 .. n : x = events[k]
    <3>1. \A x : x \in ToSet(more) <=> \E k \in 1 .. Len(more) : x = more[k]
      BY <1>3, ListsAre
    <3>2. \A x : x \in ToSet(events) <=> \E k \in 1 .. Len(events) : x = events[k]
      BY ListsAre
    <3>3. Len(more) = n + 1 /\ Len(events) = n
      BY <1>2
    <3> QED BY <3>1, <3>2, <3>3
  <2>2. 1 .. n + 1 = (1 .. n) \cup {n + 1}
    BY <1>1
  <2>3. \A x : x \in ToSet(more) <=> x \in ToSet(events) \cup {e}
    BY <1>2, <2>1, <2>2
  <2> QED BY <2>3
<1> QED BY <1>2, <1>3, <1>4

LEMMA ListsJoined ==
  ASSUME NEW events, NEW others, IsList(events), IsList(others)
  PROVE  LET both == events \o others
         IN /\ IsList(both) /\ Len(both) = Len(events) + Len(others)
            /\ \A k \in 1 .. Len(events) : both[k] = events[k]
            /\ \A k \in 1 .. Len(others) : both[Len(events) + k] = others[k]
<1> PICK both, S :
      /\ both = events \o others
      /\ S = {events[k] : k \in 1 .. Len(events)} \cup {others[k] : k \in 1 .. Len(others)}
  OBVIOUS
<1>0. events \in Seq(S) /\ others \in Seq(S)
  <2>1. /\ Len(events) \in Nat /\ events \in [1 .. Len(events) -> S]
        /\ Len(others) \in Nat /\ others \in [1 .. Len(others) -> S]
    BY DEF IsList
  <2> QED BY <2>1, FunctionsAreSequences
<1>1. both \in Seq(S)
  BY <1>0
<1>2. IsList(both)
  BY <1>1, SequencesAreLists
<1>3. Len(both) = Len(events) + Len(others)
  BY <1>0
<1>4. \A k \in 1 .. Len(events) : both[k] = events[k]
  BY <1>0
<1>5. \A k \in 1 .. Len(others) : both[Len(events) + k] = others[k]
  BY <1>0
<1> QED BY <1>2, <1>3, <1>4, <1>5

\* A list holds finitely many.
LEMMA ListsAreFinite ==
  ASSUME NEW events, IsList(events)
  PROVE  IsFiniteSet(ToSet(events))
<1> PICK n, S : n = Len(events) /\ S = ToSet(events)
  OBVIOUS
<1>1. n \in Nat /\ S = {events[k] : k \in 1 .. n}
  BY ListsAre DEF IsList
<1> DEFINE f == [k \in 1 .. n |-> events[k]]
<1>2. f \in Surjection(1 .. n, S)
  BY <1>1 DEF Surjection
<1>3. IsFiniteSet(1 .. n)
  BY <1>1, FS_Interval
<1> HIDE DEF f
<1> QED BY <1>2, <1>3, FS_Surjection

-----------------------------------------------------------------------------
(***************************************************************************)
(* Sorting by counting: an event has the place that the number of events   *)
(* before it says.                                                         *)
(***************************************************************************)
Before(S, e) == {d \in S : InOrder(d, e)}
Rank(S, e) == Cardinality(Before(S, e))

Numbered(S) ==
  /\ IsFiniteSet(S) /\ NumbersAre(S)
  /\ \A d, e \in S : d.sequence = e.sequence => d = e

LEMMA RanksGrow ==
  ASSUME NEW S, Numbered(S), NEW d \in S, NEW e \in S, InOrder(d, e)
  PROVE  Rank(S, d) < Rank(S, e)
<1> PICK D, E : D = Before(S, d) /\ E = Before(S, e)
  OBVIOUS
<1>1. IsFiniteSet(E)
  BY FS_Subset DEF Before, Numbered
<1>2. /\ D \in SUBSET E
      /\ d \in E /\ d \notin D
  BY DEF Before, InOrder, Numbered, NumbersAre
<1>3. /\ Cardinality(D) <= Cardinality(E) /\ Cardinality(E) # Cardinality(D)
      /\ IsFiniteSet(D)
  BY <1>1, <1>2, FS_Subset
<1>4. Cardinality(D) \in Nat /\ Cardinality(E) \in Nat
  BY <1>1, <1>3, FS_CardinalityType
<1> QED BY <1>3, <1>4 DEF Rank

LEMMA RanksAreBelow ==
  ASSUME NEW S, Numbered(S), NEW e \in S
  PROVE  Rank(S, e) \in 0 .. Cardinality(S) - 1
<1> PICK E : E = Before(S, e)
  OBVIOUS
<1>1. E \in SUBSET S /\ e \notin E
  BY DEF Before, InOrder, Numbered, NumbersAre
<1>2. IsFiniteSet(E) /\ Cardinality(E) <= Cardinality(S) /\ Cardinality(E) # Cardinality(S)
  BY <1>1, FS_Subset DEF Numbered
<1>3. Cardinality(E) \in Nat /\ Cardinality(S) \in Nat
  BY <1>2, FS_CardinalityType DEF Numbered
<1> QED BY <1>2, <1>3 DEF Rank

LEMMA RanksDiffer ==
  ASSUME NEW S, Numbered(S), NEW d \in S, NEW e \in S, Rank(S, d) = Rank(S, e)
  PROVE  d = e
<1>1. ~InOrder(d, e) /\ ~InOrder(e, d)
  <2>1. Rank(S, d) \in Int
    BY RanksAreBelow
  <2> QED BY <2>1, RanksGrow
<1> QED BY <1>1 DEF InOrder, Numbered, NumbersAre

LEMMA EveryRankIsTaken ==
  ASSUME NEW S, Numbered(S), NEW k \in 1 .. Cardinality(S)
  PROVE  \E e \in S : Rank(S, e) = k - 1
<1> PICK n : n = Cardinality(S)
  OBVIOUS
<1>1. n \in Nat
  BY FS_CardinalityType DEF Numbered
<1> PICK T : T = 0 .. n - 1
  OBVIOUS
<1>2. IsFiniteSet(T) /\ Cardinality(T) = n
  BY <1>1, FS_Interval
<1> PICK f : f = [e \in S |-> Rank(S, e)]
  OBVIOUS
<1>3. f \in Injection(S, T)
  <2>1. f \in [S -> T]
    BY RanksAreBelow
  <2>2. IsInjective(f)
    BY RanksDiffer DEF IsInjective
  <2> QED BY <2>1, <2>2 DEF Injection
<1>4. f \in Surjection(S, T)
  BY <1>2, <1>3, FS_Injection
<1>5. k - 1 \in T
  BY <1>1
<1>6. PICK e \in S : f[e] = k - 1
  BY <1>4, <1>5 DEF Surjection
<1> QED BY <1>6

LEMMA SortingSorts ==
  ASSUME NEW events, IsList(events), NumbersAre(ToSet(events)),
         \A j, k \in DOMAIN events : events[j].sequence = events[k].sequence => j = k
  PROVE  LET sorted == InOrderOf(events)
         IN IsList(sorted) /\ ToSet(sorted) = ToSet(events) /\ IncreasesIn(sorted)
<1> PICK n, S, sorted :
      n = Len(events) /\ S = ToSet(events) /\ sorted = InOrderOf(events)
  OBVIOUS
<1>1. n \in Nat /\ DOMAIN events = 1 .. n /\ S = {events[k] : k \in 1 .. n}
  BY ListsAre DEF IsList
<1>2. Numbered(S)
  BY <1>1, ListsAreFinite DEF Numbered
<1>3. Cardinality(S) = n
  <2> PICK f : f = [k \in 1 .. n |-> events[k]]
    OBVIOUS
  <2>1. f \in Surjection(1 .. n, S) /\ f \in Injection(1 .. n, S)
    BY <1>1 DEF Surjection, Injection, IsInjective
  <2>2. IsFiniteSet(1 .. n) /\ Cardinality(1 .. n) = n
    <3>1. 1 \in Int /\ n \in Int /\ (IF 1 > n THEN 0 ELSE n - 1 + 1) = n
      BY <1>1
    <3> QED BY <3>1, FS_Interval
  <2> QED BY <2>1, <2>2, FS_Surjection
<1>4. sorted = [k \in 1 .. n |-> CHOOSE e \in S : Rank(S, e) = k - 1]
  BY <1>1 DEF InOrderOf, Rank, Before
<1>5. \A k \in 1 .. n : sorted[k] \in S /\ Rank(S, sorted[k]) = k - 1
  <2> TAKE k \in 1 .. n
  <2>1. \E e \in S : Rank(S, e) = k - 1
    BY <1>2, <1>3, EveryRankIsTaken
  <2>2. sorted[k] = CHOOSE e \in S : Rank(S, e) = k - 1
    BY <1>4
  <2> QED BY <2>1, <2>2
<1>6. IsList(sorted) /\ Len(sorted) = n
  <2>1. sorted = [k \in 1 .. n |-> sorted[k]]
    BY <1>4
  <2> QED BY <1>1, <2>1, FunctionsAreLists
<1>7. IncreasesIn(sorted)
  <2> SUFFICES ASSUME NEW j \in 1 .. n, NEW k \in 1 .. n, j < k
               PROVE  sorted[j].sequence < sorted[k].sequence
    BY <1>4 DEF IncreasesIn
  <2> PICK d, e : d = sorted[j] /\ e = sorted[k]
    OBVIOUS
  <2>1. /\ d \in S /\ e \in S /\ Rank(S, d) = j - 1 /\ Rank(S, e) = k - 1
        /\ d.sequence \in Nat /\ e.sequence \in Nat
    BY <1>2, <1>5 DEF Numbered, NumbersAre
  <2>2. ~InOrder(e, d) /\ d # e
    BY <1>1, <1>2, <2>1, RanksGrow
  <2>3. d.sequence # e.sequence
    BY <1>2, <2>1, <2>2 DEF Numbered
  <2> QED BY <2>1, <2>2, <2>3 DEF InOrder
<1>8. ToSet(sorted) = S
  <2>1. \A x : x \in ToSet(sorted) <=> \E k \in 1 .. n : x = sorted[k]
    BY <1>6, ListsAre
  <2>2. ASSUME NEW e \in S PROVE e \in ToSet(sorted)
    <3>1. Rank(S, e) + 1 \in 1 .. n
      <4>1. Rank(S, e) \in 0 .. n - 1
        BY <1>2, <1>3, RanksAreBelow
      <4> QED BY <1>1, <4>1
    <3> PICK k : k = Rank(S, e) + 1
      OBVIOUS
    <3>2. Rank(S, sorted[k]) = k - 1 /\ Rank(S, e) = k - 1
      BY <1>2, <1>5, <3>1, RanksAreBelow
    <3>3. sorted[k] = e
      BY <1>2, <1>5, <3>1, <3>2, RanksDiffer
    <3> QED BY <2>1, <3>1, <3>3
  <2>3. ASSUME NEW e \in ToSet(sorted) PROVE e \in S
    BY <1>5, <2>1
  <2> QED BY <2>2, <2>3
<1> QED BY <1>6, <1>7, <1>8

-----------------------------------------------------------------------------
(***************************************************************************)
(* What each step leaves of it.                                            *)
(***************************************************************************)
LEMMA LogInitHolds ==
  ASSUME LogInit
  PROVE  LogInv
<1>1. IsList(Prologue)
  BY ConstantsAssumption, SequencesAreLists
<1> PICK n : n = Len(Prologue)
  OBVIOUS
<1>2. n \in Nat /\ DOMAIN Prologue = 1 .. n
  BY <1>1, ListsAre DEF IsList
<1>3. log = [k \in 1 .. n |-> Event(k, Prologue[k])]
  BY <1>2 DEF LogInit
<1>4. IsList(log)
  BY <1>2, <1>3, FunctionsAreLists
<1>5. LogIs
  BY <1>3, <1>4 DEF LogIs, Event
<1>6. byId = << >> /\ delivered = {} /\ stage = "writing"
  BY DEF LogInit
<1>7. ToSet(byId) = {}
  BY <1>6 DEF ToSet
<1>8. IsList(byId) /\ DOMAIN byId = {}
  BY <1>6 DEF IsList
<1> QED BY <1>5, <1>6, <1>7, <1>8 DEF LogInv, ReaderHas, ReducedIs, NumbersAre, IncreasesIn

\* Writing adds at the end.
LEMMA WritingHolds ==
  ASSUME LogInv, (\E s \in Shards : Emit(s)) \/ FinishWriting \/ StopWriting
  PROVE  LogInv'
<1>1. /\ UNCHANGED <<delivered, byId, ordered, canonical>>
      /\ stage = "writing" /\ stage' \in {"writing", "reading"}
  BY DEF Emit, FinishWriting, StopWriting
<1>2. ReaderHas' /\ ReducedIs'
  BY <1>1 DEF LogInv, ReaderHas, ReducedIs
<1> PICK events : events = log
  OBVIOUS
<1>3. /\ IsList(events) /\ Len(events) \in Nat /\ DOMAIN events = 1 .. Len(events)
      /\ \A k \in DOMAIN events : events[k].sequence = k
  BY ListsAre DEF LogInv, LogIs, IsList
<1>4. ASSUME NEW s \in Shards, Emit(s)
      PROVE  LogIs'
  <2> PICK e, more : e = Event(Len(log) + 1, Script[s][emitted[s] + 1]) /\ more = Append(events, e)
    OBVIOUS
  <2>1. log' = more /\ e.sequence = Len(events) + 1
    BY <1>4 DEF Emit, Event
  <2>2. /\ IsList(more) /\ Len(more) = Len(events) + 1 /\ more[Len(events) + 1] = e
        /\ \A k \in 1 .. Len(events) : more[k] = events[k]
    BY <1>3, ListWithOneMore
  <2>3. DOMAIN more = 1 .. Len(events) + 1
    BY <2>2, ListsAre
  <2>4. \A k \in DOMAIN more : more[k].sequence = k
    <3> TAKE k \in DOMAIN more
    <3>1. k \in 1 .. Len(events) \/ k = Len(events) + 1
      BY <1>3, <2>3
    <3> QED BY <1>3, <2>1, <2>2, <3>1
  <2> QED BY <2>1, <2>2, <2>4 DEF LogIs
<1>5. CASE FinishWriting
  <2> PICK others, both :
        /\ others = [k \in DOMAIN Epilogue |-> Event(Len(log) + k, Epilogue[k])]
        /\ both = events \o others
    OBVIOUS
  <2>1. log' = both
    BY <1>5 DEF FinishWriting
  <2>2. IsList(Epilogue)
    BY ConstantsAssumption, SequencesAreLists
  <2>3. DOMAIN Epilogue = 1 .. Len(Epilogue) /\ Len(Epilogue) \in Nat
    BY <2>2, ListsAre DEF IsList
  <2>4. others = [k \in 1 .. Len(Epilogue) |-> others[k]]
    BY <2>3
  <2>5. IsList(others) /\ Len(others) = Len(Epilogue)
    BY <2>3, <2>4, FunctionsAreLists
  <2>6. \A k \in 1 .. Len(others) : others[k].sequence = Len(events) + k
    BY <2>3, <2>5 DEF Event
  <2>7. /\ IsList(both) /\ Len(both) = Len(events) + Len(others)
        /\ \A k \in 1 .. Len(events) : both[k] = events[k]
        /\ \A k \in 1 .. Len(others) : both[Len(events) + k] = others[k]
    BY <1>3, <2>5, ListsJoined
  <2>8. DOMAIN both = 1 .. Len(events) + Len(others)
    BY <2>7, ListsAre
  <2>9. \A k \in DOMAIN both : both[k].sequence = k
    <3> TAKE k \in DOMAIN both
    <3> PICK m, n : m = Len(events) /\ n = Len(others)
      OBVIOUS
    <3>1. m \in Nat /\ n \in Nat /\ k \in 1 .. m + n
      BY <1>3, <2>3, <2>5, <2>8
    <3>2. CASE k \in 1 .. m
      BY <1>3, <2>7, <3>2
    <3>3. CASE k \notin 1 .. m
      <4> PICK j : j = k - m
        OBVIOUS
      <4>1. j \in 1 .. n /\ m + j = k
        BY <3>1, <3>3
      <4>2. both[m + j] = others[j] /\ others[j].sequence = m + j
        BY <2>6, <2>7, <4>1
      <4> QED BY <4>1, <4>2
    <3> QED BY <3>2, <3>3
  <2>10. LogIs'
    BY <2>1, <2>7, <2>9 DEF LogIs
  <2> QED BY <1>2, <2>10 DEF LogInv
<1>6. CASE StopWriting
  <2>1. LogIs'
    BY <1>6 DEF LogInv, LogIs, StopWriting
  <2> QED BY <1>2, <2>1 DEF LogInv
<1> QED BY <1>2, <1>4, <1>5, <1>6 DEF LogInv

\* _canonical_events: one event more is kept, known already, or a conflict.
LEMMA ConsiderHolds ==
  ASSUME LogInv, stage = "reading", NEW e, e.sequence \in Nat, Consider(e)
  PROVE  LogInv'
<1>1. LogIs'
  BY DEF LogInv, LogIs, Consider
<1>2. ReducedIs'
  BY DEF ReducedIs, Consider
<1> PICK events : events = byId
  OBVIOUS
<1>3. /\ IsList(events) /\ Len(events) \in Nat /\ DOMAIN events = 1 .. Len(events)
      /\ \A x : x \in ToSet(events) <=> \E k \in 1 .. Len(events) : x = events[k]
      /\ NumbersAre(ToSet(events)) /\ ToSet(events) = delivered
      /\ \A j, k \in DOMAIN events : events[j].sequence = events[k].sequence => j = k
      /\ ordered => IncreasesIn(events)
  <2>1. IsList(events)
    BY DEF LogInv, ReaderHas
  <2>2. /\ Len(events) \in Nat /\ DOMAIN events = 1 .. Len(events)
        /\ \A x : x \in ToSet(events) <=> \E k \in 1 .. Len(events) : x = events[k]
    BY <2>1, ListsAre DEF IsList
  <2>3. ToSet(events) = delivered /\ NumbersAre(delivered)
    BY DEF LogInv, ReaderHas
  <2> QED BY <2>1, <2>2, <2>3 DEF LogInv, ReaderHas
<1>4. NumbersAre(delivered') /\ delivered' = delivered \cup {e}
  BY <1>3 DEF NumbersAre, Consider
<1>5. CASE Seen(e)
  <2>1. byId' = byId /\ ordered' = ordered
    BY <1>5 DEF Consider
  <2>2. stage' # "rejected" => e \in ToSet(events)
    BY <1>3, <1>5 DEF Consider, Conflicts, Seen
  <2> QED BY <1>1, <1>2, <1>3, <1>4, <2>1, <2>2 DEF LogInv, ReaderHas
<1>6. CASE ~Seen(e)
  <2> PICK more : more = Append(events, e)
    OBVIOUS
  <2>1. byId' = more /\ ordered' = StillOrdered(e)
    BY <1>6 DEF Consider
  <2>2. /\ IsList(more) /\ Len(more) = Len(events) + 1 /\ more[Len(events) + 1] = e
        /\ \A k \in 1 .. Len(events) : more[k] = events[k]
        /\ ToSet(more) = ToSet(events) \cup {e}
    BY <1>3, ListWithOneMore
  <2>3. DOMAIN more = 1 .. Len(events) + 1
    BY <2>2, ListsAre
  <2>4. \A k \in DOMAIN more : k \in 1 .. Len(events) \/ k = Len(events) + 1
    BY <1>3, <2>3
  <2>5. \A k \in 1 .. Len(events) : events[k].sequence # e.sequence /\ events[k].sequence \in Nat
    BY <1>3, <1>6 DEF Seen, NumbersAre
  <2>6. \A j, k \in DOMAIN more : more[j].sequence = more[k].sequence => j = k
    BY <1>3, <2>2, <2>4, <2>5
  <2>7. ordered' => IncreasesIn(more)
    <3> SUFFICES ASSUME ordered', NEW j \in DOMAIN more, NEW k \in DOMAIN more, j < k
                 PROVE  more[j].sequence < more[k].sequence
      BY DEF IncreasesIn
    <3> PICK n : n = Len(events)
      OBVIOUS
    <3>1. IncreasesIn(events) /\ (events = << >> \/ events[n].sequence < e.sequence)
      BY <1>3, <2>1 DEF StillOrdered, Last
    <3>2. n \in Nat /\ j \in 1 .. n /\ (k \in 1 .. n \/ k = n + 1)
      BY <1>3, <2>3
    <3>3. CASE k \in 1 .. n
      BY <1>3, <2>2, <3>1, <3>2, <3>3 DEF IncreasesIn
    <3>4. CASE k = n + 1
      <4>1. events # << >>
        BY <1>3, <3>2
      <4>2. events[j].sequence <= events[n].sequence
        <5>1. CASE j = n
          BY <2>5, <3>2, <5>1
        <5>2. CASE j # n
          <6>1. n \in 1 .. n /\ j < n
            BY <3>2, <5>2
          <6>2. events[j].sequence < events[n].sequence
            BY <1>3, <3>1, <3>2, <6>1 DEF IncreasesIn
          <6>3. events[j].sequence \in Nat /\ events[n].sequence \in Nat
            BY <2>5, <3>2, <6>1
          <6> QED BY <6>2, <6>3
        <5> QED BY <5>1, <5>2
      <4>3. events[j].sequence \in Nat /\ events[n].sequence \in Nat
        BY <2>5, <3>2
      <4>4. more[j] = events[j] /\ more[k] = e
        BY <2>2, <3>2, <3>4
      <4> QED BY <3>1, <4>1, <4>2, <4>3, <4>4
    <3> QED BY <3>2, <3>3, <3>4
  <2> QED BY <1>1, <1>2, <1>3, <1>4, <2>1, <2>2, <2>6, <2>7 DEF LogInv, ReaderHas
<1> QED BY <1>5, <1>6

LEMMA ReadingHolds ==
  ASSUME LogInv, Deliver \/ DeliverAgain
  PROVE  LogInv'
<1>1. CASE Deliver
  <2> PICK k \in Missing : Consider(log[k])
    BY <1>1 DEF Deliver
  <2>1. log[k].sequence = k /\ k \in Nat
    <3>1. DOMAIN log = 1 .. Len(log)
      BY ListsAre DEF LogInv, LogIs
    <3> QED BY <3>1 DEF LogInv, LogIs, Missing
  <2>2. stage = "reading"
    BY <1>1 DEF Deliver
  <2>3. log[k].sequence \in Nat
    BY <2>1
  <2> QED BY <2>2, <2>3, ConsiderHolds
<1>2. CASE DeliverAgain
  <2> PICK e \in delivered \cup Foreign : Consider(e)
    BY <1>2 DEF DeliverAgain
  <2>1. e.sequence \in Nat
    BY ConstantsAssumption DEF LogInv, ReaderHas, NumbersAre
  <2>2. stage = "reading"
    BY <1>2 DEF DeliverAgain
  <2> QED BY <2>1, <2>2, ConsiderHolds
<1> QED BY <1>1, <1>2

\* The end of _canonical_events: sorted, unless they came in order.
LEMMA FinishReadingHolds ==
  ASSUME LogInv, FinishReading
  PROVE  LogInv'
<1>1. LogIs'
  BY DEF LogInv, LogIs, FinishReading
<1>2. ReaderHas'
  BY DEF LogInv, ReaderHas, FinishReading
<1> PICK events : events = byId
  OBVIOUS
<1>3. /\ IsList(events) /\ ToSet(events) = delivered /\ NumbersAre(ToSet(events))
      /\ \A j, k \in DOMAIN events : events[j].sequence = events[k].sequence => j = k
      /\ ordered => IncreasesIn(events)
  BY DEF LogInv, ReaderHas, FinishReading, NumbersAre
<1>4. CASE ordered
  <2>1. canonical' = events /\ delivered' = delivered
    BY <1>4 DEF FinishReading
  <2> QED BY <1>1, <1>2, <1>3, <1>4, <2>1 DEF LogInv, ReducedIs
<1>5. CASE ~ordered
  <2> PICK sorted : sorted = InOrderOf(events)
    OBVIOUS
  <2>1. canonical' = sorted /\ delivered' = delivered
    BY <1>5 DEF FinishReading
  <2>2. IsList(sorted) /\ ToSet(sorted) = ToSet(events) /\ IncreasesIn(sorted)
    BY <1>3, SortingSorts
  <2> QED BY <1>1, <1>2, <1>3, <2>1, <2>2 DEF LogInv, ReducedIs
<1> QED BY <1>4, <1>5

LEMMA LogNextHolds ==
  ASSUME LogInv, [LogNext]_logVars
  PROVE  LogInv'
<1>1. CASE UNCHANGED logVars
  BY <1>1 DEF logVars, LogInv, LogIs, ReaderHas, ReducedIs
<1>2. CASE LogNext
  BY <1>1, <1>2, WritingHolds, ReadingHolds, FinishReadingHolds DEF LogNext, ReadingOver
<1> QED BY <1>1, <1>2

THEOREM LogInvariance == LogSpec => []LogInv
  BY LogInitHolds, LogNextHolds, PTL DEF LogSpec

-----------------------------------------------------------------------------
(***************************************************************************)
(* What a reader may rely on.                                              *)
(***************************************************************************)
\* In whatever order events arrive and however often, what is reduced is the set of
\* them, in the order of their numbers; two events of one number are never reduced
\* (_canonical_events).
THEOREM ArrivalIsIrrelevant == LogSpec => []DeliveryIsIrrelevant
<1>1. LogInv => DeliveryIsIrrelevant
  <2> SUFFICES ASSUME LogInv, stage = "reduced" PROVE DeliveryIsIrrelevant
    BY DEF DeliveryIsIrrelevant
  <2>1. /\ DOMAIN canonical = 1 .. Len(canonical) /\ ToSet(canonical) = delivered
        /\ IncreasesIn(canonical)
    BY ListsAre DEF LogInv, ReducedIs
  <2>2. \A i, j \in 1 .. Len(canonical) :
          i < j => canonical[i].sequence < canonical[j].sequence
    BY <2>1 DEF IncreasesIn
  <2>3. IsSorted(canonical, InOrder)
    BY <2>2 DEF IsSorted, InOrder
  <2> QED BY <2>1, <2>3 DEF DeliveryIsIrrelevant
<1> QED BY <1>1, LogInvariance, PTL

\* finalize_status: with attempts, passed is the status of one of them.
LEMMA PassingIsEarned ==
  ASSUME NEW attempts, IsList(attempts), attempts # << >>, NEW explicit,
         FinalizeStatus(attempts, explicit) \in Passing
  PROVE  \E k \in DOMAIN attempts : attempts[k] \in Passing
<1> PICK n : n = Len(attempts)
  OBVIOUS
<1>1. n \in Nat \ {0} /\ DOMAIN attempts = 1 .. n
  BY ListsAre DEF IsList
<1>2. CASE Substantive(attempts) = {}
  <2>1. FinalizeStatus(attempts, explicit) = attempts[n]
    BY <1>2 DEF FinalizeStatus
  <2> QED BY <1>1, <2>1
<1>3. CASE Substantive(attempts) # {}
  <2> PICK last : last = LastSubstantive(attempts)
    OBVIOUS
  <2>1. Substantive(attempts) \in SUBSET (1 .. n)
    BY <1>1 DEF Substantive
  <2>2. last \in Substantive(attempts)
    BY <1>1, <1>3, <2>1, LargestExists DEF LastSubstantive
  <2>3. FinalizeStatus(attempts, explicit) \in {"FLAKY", attempts[last]}
    BY <1>3 DEF FinalizeStatus
  <2>4. "FLAKY" \notin Passing
    BY DEF Passing
  <2> QED BY <1>1, <2>1, <2>2, <2>3, <2>4
<1> QED BY <1>2, <1>3

LEMMA AttemptsAreListed ==
  ASSUME LogInv, stage = "reduced", NEW test
  PROVE  IsList(AttemptsOf(test))
<1> PICK events, n, numbers :
      /\ events = canonical /\ n = Len(canonical) /\ numbers = AttemptNumbers(test)
  OBVIOUS
<1>1. /\ n \in Nat /\ IsFiniteSet(1 .. n)
      /\ \A e : e \in ToSet(events) <=> \E k \in 1 .. n : e = events[k]
  <2>1. IsList(events)
    BY DEF LogInv, ReducedIs
  <2>2. n \in Nat
    BY <2>1 DEF IsList
  <2>3. IsFiniteSet(1 .. n)
    BY <2>2, FS_Interval
  <2>4. \A e : e \in ToSet(events) <=> \E k \in 1 .. n : e = events[k]
    BY <2>1, ListsAre
  <2> QED BY <2>2, <2>3, <2>4
<1> PICK all, f : all = {events[k].fact.attempt : k \in 1 .. n}
                  /\ f = [k \in 1 .. n |-> events[k].fact.attempt]
  OBVIOUS
<1>2. f \in Surjection(1 .. n, all)
  BY DEF Surjection
<1>3. IsFiniteSet(all)
  BY <1>1, <1>2, FS_Surjection
<1>4. numbers \in SUBSET all
  BY <1>1 DEF AttemptNumbers, Facts
<1>5. IsFiniteSet(numbers)
  BY <1>3, <1>4, FS_Subset
<1>6. Cardinality(numbers) \in Nat
  BY <1>5, FS_CardinalityType
<1>7. AttemptsOf(test) = [k \in 1 .. Cardinality(numbers) |-> AttemptsOf(test)[k]]
  BY DEF AttemptsOf
<1> QED BY <1>6, <1>7, FunctionsAreLists

\* A controller's TEST_FINALIZED makes nothing pass that was attempted and did not,
\* and adds no test to a selection (reduce_events, finalize_status).
THEOREM PassesAreEarned == LogSpec => []FinalizedIsNotBelieved
<1>1. LogInv => FinalizedIsNotBelieved
  <2> SUFFICES ASSUME LogInv, stage = "reduced", NEW test \in IncludedTests
               PROVE  /\ Verdict(test) \in Passing /\ AttemptsOf(test) # << >> =>
                            \E k \in DOMAIN AttemptsOf(test) : AttemptsOf(test)[k] \in Passing
                      /\ (\E e \in delivered : e.fact.type \in {"test_selected", "test_excluded"}) =>
                            \E e \in delivered :
                              e.fact.test = test /\ e.fact.type = "test_selected"
    BY DEF FinalizedIsNotBelieved
  <2>1. Verdict(test) \in Passing /\ AttemptsOf(test) # << >> =>
          \E k \in DOMAIN AttemptsOf(test) : AttemptsOf(test)[k] \in Passing
    BY AttemptsAreListed, PassingIsEarned DEF Verdict
  <2>2. ASSUME NEW e \in delivered, e.fact.type \in {"test_selected", "test_excluded"}
        PROVE  \E d \in delivered : d.fact.test = test /\ d.fact.type = "test_selected"
    <3>1. ToSet(canonical) = delivered
      BY DEF LogInv, ReducedIs
    <3>2. Facts({"test_selected", "test_excluded"}) # {}
      BY <2>2, <3>1 DEF Facts
    <3>3. test \in {fact.test : fact \in Facts({"test_selected"})}
      BY <3>2 DEF IncludedTests
    <3> QED BY <3>1, <3>3 DEF Facts
  <2> QED BY <2>1, <2>2
<1> QED BY <1>1, LogInvariance, PTL
=============================================================================
