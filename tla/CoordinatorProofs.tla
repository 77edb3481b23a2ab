------------------------- MODULE CoordinatorProofs --------------------------
(***************************************************************************)
(* Proofs about the coordinator of a run, for any set of tests, any number *)
(* of retries, any tag filter and any set of attempt statuses.             *)
(***************************************************************************)
EXTENDS Coordinator, SequenceTheorems, WellFoundedInduction, TLAPS

-----------------------------------------------------------------------------
(***************************************************************************)
(* Least and greatest elements.                                            *)
(***************************************************************************)
\* A set of numbers that has an element has a least one.
LEMMA LeastExists ==
  ASSUME NEW S \in SUBSET Nat, S # {}
  PROVE  \E x \in S : \A y \in S : x <= y
  <1>1. PICK x \in S : \A y \in S : <<y, x>> \notin OpToRel(<, Nat)
    BY NatLessThanWellFounded, WFMin
  <1>2. \A y \in S : ~ (y < x)
    BY <1>1 DEF OpToRel
  <1> QED
    BY <1>2

\* The loops of _run visit the first test in collection order.
LEMMA FirstIsLeast ==
  ASSUME NEW S \in SUBSET Nat, S # {}
  PROVE  First(S) \in S /\ \A y \in S : First(S) <= y
  BY LeastExists DEF First

\* A finite set of numbers that has an element has a greatest one.
LEMMA GreatestExists ==
  ASSUME NEW n \in Nat, NEW S \in SUBSET (1..n), S # {}
  PROVE  \E x \in S : \A y \in S : y <= x
  <1> DEFINE T == {n - x : x \in S}
  <1>1. T \in SUBSET Nat
    OBVIOUS
  <1>2. T # {}
    OBVIOUS
  <1>3. PICK m \in T : \A y \in T : m <= y
    BY <1>1, <1>2, LeastExists
  <1>4. PICK x \in S : m = n - x
    BY <1>3
  <1>5. ASSUME NEW y \in S PROVE y <= x
    <2>1. n - x <= n - y
      BY <1>3, <1>4
    <2> QED
      BY <2>1
  <1> QED
    BY <1>5

-----------------------------------------------------------------------------
(***************************************************************************)
(* finalize_status.                                                        *)
(***************************************************************************)
\* finalize_status looks at the last attempt that says something of the test.
LEMMA LastSubstantiveIsLast ==
  ASSUME NEW s \in Seq(Statuses), Substantive(s) # {}
  PROVE  /\ LastSubstantive(s) \in Substantive(s)
         /\ \A k \in Substantive(s) : k <= LastSubstantive(s)
  <1>1. Substantive(s) \in SUBSET (1..Len(s)) /\ Len(s) \in Nat
    BY DEF Substantive
  <1>2. \E x \in Substantive(s) : \A y \in Substantive(s) : y <= x
    BY <1>1, GreatestExists
  <1> QED
    BY <1>2 DEF LastSubstantive

\* A verdict is always a status.
LEMMA FinalizeStatusType ==
  ASSUME NEW s \in Seq(Statuses), NEW explicit \in Statuses \union {"none"}
  PROVE  FinalizeStatus(s, explicit) \in Statuses
  <1>1. CASE s = << >>
    BY <1>1 DEF FinalizeStatus, Statuses
  <1>2. CASE s # << >> /\ Substantive(s) = {}
    <2>1. s[Len(s)] \in Statuses
      BY <1>2
    <2> QED
      BY <1>2, <2>1 DEF FinalizeStatus
  <1>3. CASE s # << >> /\ Substantive(s) # {}
    <2>1. s[LastSubstantive(s)] \in Statuses
      BY <1>3, LastSubstantiveIsLast DEF Substantive
    <2>2. "FLAKY" \in Statuses
      BY DEF Statuses
    <2> QED
      BY <1>3, <2>1, <2>2 DEF FinalizeStatus
  <1> QED
    BY <1>1, <1>2, <1>3

\* The reducer, which is told the verdict, computes that verdict again.
LEMMA FinalizeStatusTwice ==
  ASSUME NEW s \in Seq(Statuses)
  PROVE  FinalizeStatus(s, FinalizeStatus(s, "none")) = FinalizeStatus(s, "none")
  BY DEF FinalizeStatus

-----------------------------------------------------------------------------
(***************************************************************************)
(* The inductive invariant.                                                *)
(***************************************************************************)
\* The tests of the round under way: due another attempt.
Due == pending \union waiting

\* A test is due through pending or through waiting, not both; once collection
\* is over, a selected test is due or has been attempted; nothing selected means
\* that there is an issue to report.
Rounds ==
  /\ pending \intersect waiting = {}
  /\ \A t \in waiting : latest[t] \in AttemptStatuses
  /\ stage = "collecting" => /\ selected = {} /\ waiting = {} /\ pending = {}
                             /\ \A t \in Tests : attempts[t] = << >>
  /\ stage \in {"scheduling", "running"} => waiting = {}
  /\ stage \notin {"collecting", "aborted"} =>
       /\ selected = {} => issues
       /\ \A t \in selected : t \in Due \/ attempts[t] # << >>

Paid(t) ==
  1 + (Retries - retriesLeft[t]) + (IF recoveryUsed[t] THEN 1 ELSE 0)

\* An attempt is numbered by its place; the attempts made and due are paid for;
\* and every attempt but the last, whose retry is yet to be decided, was one
\* that is retried.
Account(t) ==
  /\ Len(attempts[t]) + (IF t \in Due THEN 1 ELSE 0) <= Paid(t)
  /\ t \in Due \/ attempts[t] = << >> => number[t] = Len(attempts[t]) + 1
  /\ t \notin Due /\ attempts[t] # << >> =>
       /\ number[t] = Len(attempts[t])
       /\ attempts[t][Len(attempts[t])] = latest[t]
  /\ \A k \in 1..Len(attempts[t]) :
       k < Len(attempts[t]) \/ t \in Due
         => attempts[t][k] \in Retryable \union Recoverable

Accounts == \A t \in Tests : Account(t)

Fact(t, n) ==
  [kind |-> "attempt", test |-> t, number |-> n, status |-> attempts[t][n]]

\* The log says the same as attempts_by_test and the published verdicts.
Replay ==
  /\ \A k \in 1..Len(log) :
       LET event == log[k]
       IN /\ event.kind = "attempt" =>
               /\ event.number \in 1..Len(attempts[event.test])
               /\ event.status = attempts[event.test][event.number]
          /\ event.kind = "final" => event.status = verdict[event.test]
  /\ \A t \in Tests : \A n \in 1..Len(attempts[t]) :
       \E k \in 1..Len(log) : log[k] = Fact(t, n)
  /\ \A t \in Tests : verdict[t] # "none" =>
       \E k \in 1..Len(log) : log[k].kind = "final" /\ log[k].test = t

Late == {"finalizing", "finishing", "recording", "returned", "aborted"}

\* A verdict is finalize_status of all the attempts, and the result repeats it.
Verdicts ==
  /\ \A t \in Tests : verdict[t] # "none" =>
       stage \in Late /\ verdict[t] = FinalizeStatus(attempts[t], "none")
  /\ stage \in {"finishing", "recording", "returned"} =>
       \A t \in selected : verdict[t] # "none"
  /\ stage \in {"recording", "returned"} =>
       \A t \in selected : result[t] = verdict[t]

Inv == TypeOK /\ Rounds /\ Accounts /\ Replay /\ Verdicts

\* The invariant holds before the collection.
LEMMA InitInv == Init => Inv
  <1> SUFFICES ASSUME Init PROVE Inv
    OBVIOUS
  <1> USE ConstantsAssumption DEF Init
  <1>1. TypeOK
    <2>1. retriesLeft \in [Tests -> 0..Retries]
      OBVIOUS
    <2>2. attempts \in [Tests -> Seq(AttemptStatuses)] /\ log \in Seq(Events)
      OBVIOUS
    <2>3. round \in 0..2
      OBVIOUS
    <2> QED
      BY <2>1, <2>2, <2>3 DEF TypeOK, Stages
  <1>2. Rounds
    BY DEF Rounds
  <1>3. Accounts
    BY DEF Accounts, Account, Due, Paid
  <1>4. Replay
    BY DEF Replay
  <1>5. Verdicts
    BY DEF Verdicts
  <1> QED
    BY <1>1, <1>2, <1>3, <1>4, <1>5 DEF Inv

-----------------------------------------------------------------------------
(***************************************************************************)
(* The steps of the coordinator.                                           *)
(***************************************************************************)
\* What attempts end with are statuses.
LEMMA StatusesOfAttempts ==
  /\ AttemptStatuses \subseteq Statuses
  /\ "none" \notin Statuses
  BY ConstantsAssumption DEF Statuses

\* Absorbing a result that is due: what it does to the accounts and to the log.
LEMMA Absorbing ==
  ASSUME Inv, waiting # {}, AbsorbResult(First(waiting))
  PROVE  /\ First(waiting) \in waiting
         /\ attempts' \in [Tests -> Seq(AttemptStatuses)]
         /\ log' \in Seq(Events)
         /\ waiting' \in SUBSET selected
  <1> DEFINE t == First(waiting)
  <1>1. waiting \in SUBSET Nat /\ waiting \in SUBSET Tests
    BY ConstantsAssumption DEF Inv, TypeOK
  <1>2. t \in waiting /\ t \in Tests
    BY <1>1, FirstIsLeast
  <1>3. latest[t] \in AttemptStatuses /\ latest[t] \in Statuses
    BY <1>2, StatusesOfAttempts DEF Inv, Rounds
  <1>4. [kind |-> "attempt", test |-> t, number |-> number[t],
         status |-> latest[t]] \in Events
    BY <1>2, <1>3 DEF Events, Inv, TypeOK
  <1> HIDE DEF t
  <1>5. log' \in Seq(Events)
    BY <1>4, AppendProperties DEF AbsorbResult, Inv, TypeOK, t
  <1>6. attempts' \in [Tests -> Seq(AttemptStatuses)]
    BY <1>2, <1>3 DEF AbsorbResult, Inv, TypeOK, t
  <1> QED
    BY <1>2, <1>5, <1>6 DEF AbsorbResult, Inv, TypeOK, t

\* The tests an absorption leaves alone, and the one it does not.
LEMMA AbsorbingAttempts ==
  ASSUME Inv, waiting # {}, AbsorbResult(First(waiting)),
         NEW t, t = First(waiting)
  PROVE  /\ t \in waiting /\ t \in Tests /\ t \in selected /\ t \notin pending
         /\ attempts'[t] = Append(attempts[t], latest[t])
         /\ Len(attempts'[t]) = Len(attempts[t]) + 1
         /\ attempts'[t][Len(attempts[t]) + 1] = latest[t]
         /\ \A n \in 1..Len(attempts[t]) : attempts'[t][n] = attempts[t][n]
         /\ \A u \in Tests \ {t} : attempts'[u] = attempts[u]
         /\ waiting' = waiting \ {t}
  <1>1. t \in waiting /\ t \in Tests /\ t \in selected /\ t \notin pending
    BY Absorbing DEF Inv, TypeOK, Rounds
  <1>2. attempts[t] \in Seq(Statuses) /\ latest[t] \in Statuses
    BY <1>1, StatusesOfAttempts DEF Inv, TypeOK, Rounds
  <1>3. attempts' = [attempts EXCEPT ![t] = Append(@, latest[t])]
    BY DEF AbsorbResult
  <1>4. attempts'[t] = Append(attempts[t], latest[t])
    BY <1>1, <1>3 DEF Inv, TypeOK
  <1>5. \A u \in Tests \ {t} : attempts'[u] = attempts[u]
    BY <1>3 DEF Inv, TypeOK
  <1> QED
    BY <1>1, <1>2, <1>4, <1>5, AppendProperties DEF AbsorbResult

\* Publishing an attempt under its own number keeps the events a faithful
\* record of attempts_by_test.
LEMMA AbsorbingReplay ==
  ASSUME Inv, waiting # {}, AbsorbResult(First(waiting)), UNCHANGED verdict
  PROVE  Replay'
  <1> DEFINE t == First(waiting)
             event == [kind |-> "attempt", test |-> t, number |-> number[t],
                       status |-> latest[t]]
  <1>1. /\ t \in Tests
        /\ Len(attempts'[t]) = Len(attempts[t]) + 1
        /\ attempts'[t][Len(attempts[t]) + 1] = latest[t]
        /\ \A n \in 1..Len(attempts[t]) : attempts'[t][n] = attempts[t][n]
        /\ \A u \in Tests \ {t} : attempts'[u] = attempts[u]
    BY AbsorbingAttempts
  <1>2. number[t] = Len(attempts[t]) + 1 /\ Len(attempts[t]) \in Nat
    BY Absorbing, <1>1 DEF Inv, TypeOK, Accounts, Account, Due
  <1>3. /\ log' = Append(log, event)
        /\ Len(log') = Len(log) + 1
        /\ log'[Len(log) + 1] = event
        /\ \A k \in 1..Len(log) : log'[k] = log[k] /\ log[k].test \in Tests
    <2>1. log' = Append(log, event)
      BY DEF AbsorbResult
    <2>2. event \in Events
      BY <1>1, Absorbing, StatusesOfAttempts DEF Events, Inv, TypeOK, Rounds
    <2>3. ASSUME NEW k \in 1..Len(log) PROVE log[k].test \in Tests
      <3>1. log[k] \in Events
        BY DEF Inv, TypeOK
      <3> QED
        BY <3>1 DEF Events
    <2> HIDE DEF event
    <2> QED
      BY <2>1, <2>2, <2>3, AppendProperties DEF Inv, TypeOK
  <1>4. Len(log) \in Nat /\ \A u \in Tests : Len(attempts[u]) \in Nat
    BY DEF Inv, TypeOK
  <1> HIDE DEF t
  <1>5. ASSUME NEW k \in 1..Len(log')
        PROVE  LET e == log'[k]
               IN /\ e.kind = "attempt" =>
                       /\ e.number \in 1..Len(attempts'[e.test])
                       /\ e.status = attempts'[e.test][e.number]
                  /\ e.kind = "final" => e.status = verdict'[e.test]
    <2>1. CASE k = Len(log) + 1
      BY <1>1, <1>2, <1>3, <2>1
    <2>2. CASE k \in 1..Len(log)
      <3>1. log'[k] = log[k] /\ log[k].test \in Tests
        BY <1>3, <2>2
      <3>2. /\ log[k].kind = "attempt" =>
                 /\ log[k].number \in 1..Len(attempts[log[k].test])
                 /\ log[k].status = attempts[log[k].test][log[k].number]
            /\ log[k].kind = "final" => log[k].status = verdict[log[k].test]
        BY <2>2 DEF Inv, Replay
      <3>3. \A u \in Tests : \A n \in 1..Len(attempts[u]) :
              n \in 1..Len(attempts'[u]) /\ attempts'[u][n] = attempts[u][n]
        BY <1>1, <1>4
      <3> QED
        BY <3>1, <3>2, <3>3
    <2> QED
      BY <1>3, <1>4, <2>1, <2>2
  <1>6. ASSUME NEW u \in Tests, NEW n \in 1..Len(attempts'[u])
        PROVE  \E k \in 1..Len(log') : log'[k] = Fact(u, n)'
    <2>1. CASE u = t /\ n = Len(attempts[t]) + 1
      BY <1>1, <1>2, <1>3, <1>4, <2>1 DEF Fact
    <2>2. CASE ~(u = t /\ n = Len(attempts[t]) + 1)
      <3>1. n \in 1..Len(attempts[u]) /\ attempts'[u][n] = attempts[u][n]
        BY <1>1, <1>4, <2>2
      <3>2. PICK k \in 1..Len(log) : log[k] = Fact(u, n)
        BY <3>1 DEF Inv, Replay
      <3> QED
        BY <1>3, <1>4, <3>1, <3>2 DEF Fact
    <2> QED
      BY <2>1, <2>2
  <1>7. ASSUME NEW u \in Tests, verdict'[u] # "none"
        PROVE  \E k \in 1..Len(log') : log'[k].kind = "final" /\ log'[k].test = u
    <2>1. PICK k \in 1..Len(log) : log[k].kind = "final" /\ log[k].test = u
      BY <1>7 DEF Inv, Replay
    <2> QED
      BY <1>3, <1>4, <2>1
  <1> QED
    BY <1>5, <1>6, <1>7 DEF Replay

\* A decision to retry charges one budget with the attempt it makes due.
LEMMA Scheduling ==
  ASSUME Inv, NEW tests \in SUBSET selected, ScheduleRetries(tests)
  PROVE  /\ retriesLeft' \in [Tests -> 0..Retries]
         /\ recoveryUsed' \in [Tests -> BOOLEAN]
         /\ number' \in [Tests -> Nat]
         /\ pending' \in SUBSET selected
         /\ \A t \in Tests :
              LET retried == t \in tests /\ Decision(t) # "no"
              IN /\ t \in pending' <=> t \in pending \/ retried
                 /\ number'[t] = IF retried THEN number[t] + 1 ELSE number[t]
                 /\ retried => latest[t] \in Retryable \union Recoverable
                 /\ Paid(t)' = IF retried THEN Paid(t) + 1 ELSE Paid(t)
  <1> USE DEF Inv, TypeOK
  <1>1. tests \in SUBSET Tests
    OBVIOUS
  <1>2. \A t \in Tests :
          /\ Decision(t) \in {"no", "user", "recovery"}
          /\ Decision(t) = "user" => retriesLeft[t] > 0
          /\ Decision(t) = "recovery" => ~recoveryUsed[t]
          /\ Decision(t) # "no" => latest[t] \in Retryable \union Recoverable
    BY DEF Decision, ShouldRetry
  <1>3. /\ retriesLeft' = [t \in Tests |-> IF t \in tests /\ Decision(t) = "user"
                                           THEN retriesLeft[t] - 1 ELSE retriesLeft[t]]
        /\ recoveryUsed' = [t \in Tests |->
                              recoveryUsed[t] \/ (t \in tests /\ Decision(t) = "recovery")]
        /\ pending' = pending \union {t \in tests : Decision(t) # "no"}
        /\ number' = [t \in Tests |-> IF t \in tests /\ Decision(t) # "no"
                                      THEN number[t] + 1 ELSE number[t]]
    BY DEF ScheduleRetries, NextNumber
  <1>4. ASSUME NEW t \in Tests
        PROVE  Paid(t)' = IF t \in tests /\ Decision(t) # "no" THEN Paid(t) + 1
                                                               ELSE Paid(t)
    <2>1. retriesLeft[t] \in Nat /\ Retries \in Nat
      BY ConstantsAssumption
    <2>2. CASE t \in tests /\ Decision(t) = "user"
      <3>1. retriesLeft'[t] = retriesLeft[t] - 1 /\ (recoveryUsed'[t] <=> recoveryUsed[t])
        BY <1>3, <2>2
      <3> QED
        BY <2>1, <2>2, <3>1 DEF Paid
    <2>3. CASE t \in tests /\ Decision(t) = "recovery"
      <3>1. retriesLeft'[t] = retriesLeft[t] /\ recoveryUsed'[t] /\ ~recoveryUsed[t]
        BY <1>2, <1>3, <2>3
      <3> QED
        BY <2>1, <2>3, <3>1 DEF Paid
    <2>4. CASE t \notin tests \/ Decision(t) = "no"
      <3>1. retriesLeft'[t] = retriesLeft[t] /\ (recoveryUsed'[t] <=> recoveryUsed[t])
        BY <1>3, <2>4
      <3> QED
        BY <2>1, <2>4, <3>1 DEF Paid
    <2> QED
      BY <1>2, <2>2, <2>3, <2>4
  <1>5. retriesLeft' \in [Tests -> 0..Retries]
    BY <1>2, <1>3, ConstantsAssumption
  <1>6. recoveryUsed' \in [Tests -> BOOLEAN] /\ number' \in [Tests -> Nat]
    BY <1>3
  <1> QED
    BY <1>1, <1>2, <1>3, <1>4, <1>5, <1>6

\* What leaves attempts, events and verdicts alone leaves Replay alone.
LEMMA ReplayUntouched ==
  ASSUME Inv, UNCHANGED <<attempts, log, verdict>>
  PROVE  Replay'
  BY DEF Inv, Replay, Fact

\* The steps that move between stages and touch neither rounds nor events.
LEMMA MovingInv ==
  ASSUME Inv,
         \/ CollectionCancelled \/ BeginRound \/ NextRound \/ FinishEvents
         \/ Record \/ Cancel \/ Interrupt \/ UNCHANGED vars
  PROVE  Inv'
  <1>1. /\ UNCHANGED <<selected, issues, pending, number, waiting, latest, attempts,
                       retriesLeft, recoveryUsed, verdict, log, result>>
        /\ round' \in 0..2 /\ refused' \in BOOLEAN /\ cancelled' \in BOOLEAN
        /\ \/ stage' = stage \/ stage' = "aborted"
           \/ stage = "scheduling" /\ stage' = "running"
           \/ stage = "absorbing" /\ waiting = {} /\ stage' \in {"scheduling", "finalizing"}
           \/ stage = "finalizing" /\ Unfinalized = {} /\ stage' = "finishing"
           \/ stage = "recording" /\ stage' = "returned"
    <2> USE DEF Inv, TypeOK
    <2>1. CASE CollectionCancelled \/ Cancel \/ Interrupt \/ UNCHANGED vars
      BY <2>1 DEF CollectionCancelled, Cancel, Interrupt, vars
    <2>2. CASE BeginRound \/ NextRound
      BY <2>2 DEF BeginRound, NextRound
    <2>3. CASE FinishEvents
      BY <2>3 DEF FinishEvents, AfterEmitting
    <2>4. CASE Record
      BY <2>4 DEF Record, Over
    <2> QED
      BY <2>1, <2>2, <2>3, <2>4
  <1>2. TypeOK'
    BY <1>1 DEF Inv, TypeOK, Stages
  <1>3. Rounds'
    BY <1>1 DEF Inv, Rounds, Due
  <1>4. Accounts'
    BY <1>1 DEF Inv, Accounts, Account, Due, Paid
  <1>5. Replay'
    BY <1>1, ReplayUntouched
  <1>6. Verdicts'
    BY <1>1 DEF Inv, Verdicts, Late, Unfinalized
  <1> QED
    BY <1>2, <1>3, <1>4, <1>5, <1>6 DEF Inv

\* Collection and the tag filter establish the first round.
LEMMA CollectInv ==
  ASSUME Inv, Collect
  PROVE  Inv'
  <1> USE DEF Collect
  <1>1. /\ selected' \in SUBSET Tests /\ pending' = selected'
        /\ issues' \in BOOLEAN
        /\ selected' = {} => issues'
        /\ stage' \in {"finalizing", "scheduling", "aborted"}
        /\ stage = "collecting"
    BY DEF Selected, CollectionIssues, AfterEmitting
  <1>2. TypeOK'
    BY <1>1 DEF Inv, TypeOK, Stages, Rounds
  <1>3. Rounds'
    BY <1>1 DEF Inv, TypeOK, Rounds, Due
  <1>4. Accounts'
    <2>1. ASSUME NEW t \in Tests
          PROVE  /\ attempts'[t] = << >> /\ Len(attempts'[t]) = 0
                 /\ number'[t] = 1 /\ Paid(t)' \in Nat /\ Paid(t)' >= 1
      BY <1>1, ConstantsAssumption DEF Inv, TypeOK, Rounds, Accounts, Account, Paid
    <2> QED
      BY <2>1 DEF Inv, TypeOK, Accounts, Account
  <1>5. Replay'
    BY ReplayUntouched
  <1>6. Verdicts'
    BY <1>1 DEF Inv, TypeOK, Verdicts, Late
  <1> QED
    BY <1>2, <1>3, <1>4, <1>5, <1>6 DEF Inv

\* The results of a round are due to exactly the tests that were handed out.
LEMMA RoundReturnsInv ==
  ASSUME Inv, RoundReturns
  PROVE  Inv'
  <1> USE DEF RoundReturns
  <1>1. TypeOK'
    BY DEF Inv, TypeOK, Stages
  <1>2. Rounds'
    BY DEF Inv, TypeOK, Rounds, Due
  <1>3. Accounts'
    <2>1. Due' = Due
      BY DEF Inv, Rounds, Due
    <2>2. \A t \in Tests \ Due : latest'[t] = latest[t]
      BY DEF Due
    <2> QED
      BY <2>1, <2>2 DEF Inv, Accounts, Account, Paid
  <1>4. Replay'
    BY ReplayUntouched
  <1>5. Verdicts'
    BY DEF Inv, TypeOK, Verdicts, Late
  <1> QED
    BY <1>1, <1>2, <1>3, <1>4, <1>5 DEF Inv

\* An absorption without a decision: the first round, and a sink that raises.
LEMMA AbsorbInv ==
  ASSUME Inv, AbsorbFirst \/ SinkRaises
  PROVE  Inv'
  <1>0. PICK t \in Tests : t = First(waiting)
    BY Absorbing DEF AbsorbFirst, SinkRaises, Inv, TypeOK
  <1>1. /\ waiting # {} /\ AbsorbResult(t)
        /\ stage = "absorbing" /\ stage' \in {"absorbing", "aborted"}
        /\ UNCHANGED <<selected, issues, round, pending, number, refused, latest,
                       retriesLeft, recoveryUsed, verdict, result, cancelled>>
    BY <1>0 DEF AbsorbFirst, SinkRaises
  <1>2. /\ t \in waiting /\ t \in Tests /\ t \notin pending
        /\ Len(attempts'[t]) = Len(attempts[t]) + 1
        /\ attempts'[t][Len(attempts[t]) + 1] = latest[t]
        /\ \A n \in 1..Len(attempts[t]) : attempts'[t][n] = attempts[t][n]
        /\ \A u \in Tests \ {t} : attempts'[u] = attempts[u]
        /\ waiting' = waiting \ {t}
    BY <1>0, <1>1, AbsorbingAttempts
  <1>3. TypeOK'
    BY <1>0, <1>1, Absorbing DEF Inv, TypeOK, Stages
  <1>4. \A u \in Tests : Len(attempts[u]) \in Nat /\ Len(attempts'[u]) \in Nat
    BY <1>3 DEF Inv, TypeOK
  <1>5. attempts'[t] # << >>
    BY <1>2, <1>4
  <1>6. Rounds'
    BY <1>1, <1>2, <1>5 DEF Inv, TypeOK, Rounds, Due
  <1>7. Accounts'
    <2>1. ASSUME NEW u \in Tests \ {t}
          PROVE  attempts'[u] = attempts[u] /\ (u \in Due' <=> u \in Due)
      BY <1>1, <1>2 DEF Due
    <2>2. t \in Due /\ t \notin Due'
      BY <1>1, <1>2 DEF Due
    <2>3. \A u \in Tests : Paid(u)' = Paid(u)
      BY <1>1 DEF Paid
    <2>4. \A k \in 1..Len(attempts[t]) : attempts[t][k] \in Retryable \union Recoverable
      BY <1>2, <2>2 DEF Inv, Accounts, Account
    <2>5. ASSUME NEW u \in Tests \ {t} PROVE Account(u)'
      BY <1>1, <2>1, <2>3 DEF Inv, Accounts, Account
    <2>6. Account(t)'
      <3>1. /\ Len(attempts[t]) + 1 <= Paid(t)
            /\ number[t] = Len(attempts[t]) + 1
        BY <1>2, <2>2 DEF Inv, Accounts, Account
      <3>2. number'[t] = Len(attempts'[t]) /\ latest'[t] = latest[t]
        BY <1>1, <1>2, <3>1
      <3>3. Len(attempts'[t]) <= Paid(t)'
        BY <1>2, <2>3, <3>1
      <3>4. attempts'[t][Len(attempts'[t])] = latest'[t]
        BY <1>2, <3>2
      <3>5. ASSUME NEW k \in 1..Len(attempts'[t]), k < Len(attempts'[t])
            PROVE  attempts'[t][k] \in Retryable \union Recoverable
        BY <1>2, <1>4, <2>4, <3>5
      <3> QED
        BY <1>4, <1>5, <2>2, <3>2, <3>3, <3>4, <3>5 DEF Account
    <2> QED
      BY <2>5, <2>6 DEF Accounts
  <1>8. Replay'
    BY <1>0, <1>1, AbsorbingReplay
  <1>9. Verdicts'
    BY <1>1 DEF Inv, Verdicts, Late
  <1> QED
    BY <1>3, <1>6, <1>7, <1>8, <1>9 DEF Inv

\* The decisions after the first round charge a budget for each retry they make.
LEMMA DecideFirstInv ==
  ASSUME Inv, DecideFirst
  PROVE  Inv'
  <1>1. /\ ScheduleRetries(selected) /\ selected \in SUBSET selected
        /\ stage = "absorbing" /\ stage' \in {"scheduling", "finalizing"}
        /\ waiting = {} /\ pending = {}
        /\ UNCHANGED <<selected, issues, round, refused, waiting, latest, attempts,
                       verdict, log, result, cancelled>>
    BY DEF DecideFirst
  <1>2. \A t \in Tests :
          LET retried == t \in selected /\ Decision(t) # "no"
          IN /\ t \in pending' <=> retried
             /\ number'[t] = IF retried THEN number[t] + 1 ELSE number[t]
             /\ retried => latest[t] \in Retryable \union Recoverable
             /\ Paid(t)' = IF retried THEN Paid(t) + 1 ELSE Paid(t)
    BY <1>1, Scheduling
  <1>3. TypeOK'
    BY <1>1, Scheduling DEF Inv, TypeOK, Stages
  <1>4. \A t \in selected : t \in Tests /\ attempts[t] # << >>
    BY <1>1 DEF Inv, TypeOK, Rounds, Due
  <1>5. Rounds'
    BY <1>1, <1>4 DEF Inv, TypeOK, Rounds, Due
  <1>6. Accounts'
    <2>1. ASSUME NEW t \in Tests
          PROVE  /\ t \notin Due /\ attempts'[t] = attempts[t] /\ latest'[t] = latest[t]
                 /\ t \in Due' <=> t \in pending'
                 /\ Len(attempts[t]) \in Nat
                 /\ Paid(t) \in Int
      BY <1>1, ConstantsAssumption DEF Inv, TypeOK, Due, Paid
    <2>2. ASSUME NEW t \in Tests, t \in selected /\ Decision(t) # "no"
          PROVE  Account(t)'
      <3>1. /\ t \in Due' /\ attempts[t] # << >>
            /\ number'[t] = number[t] + 1 /\ Paid(t)' = Paid(t) + 1
            /\ latest[t] \in Retryable \union Recoverable
        BY <1>2, <1>4, <2>1, <2>2
      <3>2. /\ Len(attempts[t]) <= Paid(t) /\ number[t] = Len(attempts[t])
            /\ attempts[t][Len(attempts[t])] = latest[t]
            /\ \A k \in 1..Len(attempts[t]) : k < Len(attempts[t])
                 => attempts[t][k] \in Retryable \union Recoverable
        <4>1. Account(t)
          BY DEF Inv, Accounts
        <4>2. t \notin Due /\ Len(attempts[t]) \in Nat /\ Paid(t) \in Int
          BY <2>1
        <4>3. Len(attempts[t]) <= Paid(t)
          BY <4>1, <4>2 DEF Account
        <4>4. /\ number[t] = Len(attempts[t])
              /\ attempts[t][Len(attempts[t])] = latest[t]
          BY <3>1, <4>1, <4>2 DEF Account
        <4>5. \A k \in 1..Len(attempts[t]) : k < Len(attempts[t])
                => attempts[t][k] \in Retryable \union Recoverable
          BY <4>1, <4>2 DEF Account
        <4> QED
          BY <4>3, <4>4, <4>5
      <3>3. \A k \in 1..Len(attempts[t]) :
              attempts[t][k] \in Retryable \union Recoverable
        BY <2>1, <3>1, <3>2
      <3> QED
        BY <2>1, <3>1, <3>2, <3>3 DEF Account
    <2>3. ASSUME NEW t \in Tests, ~(t \in selected /\ Decision(t) # "no")
          PROVE  Account(t)'
      <3>1. /\ t \notin Due'
            /\ number'[t] = number[t] /\ Paid(t)' = Paid(t)
        BY <1>2, <2>1, <2>3
      <3> QED
        BY <2>1, <3>1 DEF Inv, Accounts, Account
    <2> QED
      BY <2>2, <2>3 DEF Accounts
  <1>7. Replay'
    BY <1>1, ReplayUntouched
  <1>8. Verdicts'
    BY <1>1 DEF Inv, Verdicts, Late
  <1> QED
    BY <1>3, <1>5, <1>6, <1>7, <1>8 DEF Inv

\* A result of a later round is absorbed and decided on in one step.
LEMMA AbsorbRetryInv ==
  ASSUME Inv, AbsorbRetry
  PROVE  Inv'
  <1>0. PICK t \in Tests : t = First(waiting)
    BY Absorbing DEF AbsorbRetry, Inv, TypeOK
  <1>1. /\ waiting # {} /\ AbsorbResult(t) /\ ScheduleRetries({t})
        /\ stage = "absorbing"
        /\ UNCHANGED <<stage, selected, issues, round, refused, latest, verdict,
                       result, cancelled>>
    BY <1>0 DEF AbsorbRetry
  <1>2. /\ t \in waiting /\ t \in Tests /\ t \in selected /\ t \notin pending
        /\ Len(attempts'[t]) = Len(attempts[t]) + 1
        /\ attempts'[t][Len(attempts[t]) + 1] = latest[t]
        /\ \A n \in 1..Len(attempts[t]) : attempts'[t][n] = attempts[t][n]
        /\ \A u \in Tests \ {t} : attempts'[u] = attempts[u]
        /\ waiting' = waiting \ {t}
    BY <1>0, <1>1, AbsorbingAttempts
  <1>3. /\ retriesLeft' \in [Tests -> 0..Retries]
        /\ recoveryUsed' \in [Tests -> BOOLEAN]
        /\ number' \in [Tests -> Nat]
        /\ pending' \in SUBSET selected
        /\ \A u \in Tests :
             LET again == u \in {t} /\ Decision(u) # "no"
             IN /\ u \in pending' <=> u \in pending \/ again
                /\ number'[u] = IF again THEN number[u] + 1 ELSE number[u]
                /\ again => latest[u] \in Retryable \union Recoverable
                /\ Paid(u)' = IF again THEN Paid(u) + 1 ELSE Paid(u)
    BY <1>1, <1>2, Scheduling
  <1>4. TypeOK'
    BY <1>0, <1>1, <1>3, Absorbing DEF Inv, TypeOK
  <1>5. \A u \in Tests : Len(attempts[u]) \in Nat /\ Len(attempts'[u]) \in Nat
    BY <1>4 DEF Inv, TypeOK
  <1>6. attempts'[t] # << >>
    BY <1>2, <1>5
  <1>7. /\ pending' = pending \union (IF Decision(t) # "no" THEN {t} ELSE {})
    BY <1>1 DEF ScheduleRetries
  <1>8. Rounds'
    BY <1>1, <1>2, <1>6, <1>7 DEF Inv, TypeOK, Rounds, Due
  <1>9. Accounts'
    <2>1. ASSUME NEW u \in Tests \ {t}
          PROVE  /\ attempts'[u] = attempts[u] /\ (u \in Due' <=> u \in Due)
                 /\ number'[u] = number[u] /\ Paid(u)' = Paid(u)
      BY <1>2, <1>3, <1>7 DEF Due
    <2>2. /\ t \in Due /\ (t \in Due' <=> Decision(t) # "no")
          /\ number'[t] = IF Decision(t) # "no" THEN number[t] + 1 ELSE number[t]
          /\ Decision(t) # "no" => latest[t] \in Retryable \union Recoverable
          /\ Paid(t)' = IF Decision(t) # "no" THEN Paid(t) + 1 ELSE Paid(t)
      BY <1>2, <1>3, <1>7 DEF Due
    <2>3. /\ Len(attempts[t]) + 1 <= Paid(t)
          /\ number[t] = Len(attempts[t]) + 1
          /\ \A k \in 1..Len(attempts[t]) :
               attempts[t][k] \in Retryable \union Recoverable
      BY <1>2, <2>2 DEF Inv, Accounts, Account
    <2>4. ASSUME NEW k \in 1..Len(attempts'[t]), k < Len(attempts'[t]) \/ t \in Due'
          PROVE  attempts'[t][k] \in Retryable \union Recoverable
      BY <1>2, <1>5, <2>2, <2>3, <2>4
    <2>5. Paid(t) \in Int
      BY <1>2, ConstantsAssumption DEF Paid, Inv, TypeOK
    <2>6. ASSUME NEW u \in Tests \ {t} PROVE Account(u)'
      BY <1>1, <2>1 DEF Inv, Accounts, Account
    <2>7. Account(t)'
      <3>1. CASE Decision(t) # "no"
        <4>1. t \in Due' /\ number'[t] = number[t] + 1 /\ Paid(t)' = Paid(t) + 1
          BY <2>2, <3>1
        <4>2. /\ Len(attempts'[t]) + 1 <= Paid(t)'
              /\ number'[t] = Len(attempts'[t]) + 1
          BY <1>2, <1>5, <2>3, <2>5, <4>1
        <4> QED
          BY <2>4, <4>1, <4>2 DEF Account
      <3>2. CASE Decision(t) = "no"
        <4>1. t \notin Due' /\ number'[t] = number[t] /\ Paid(t)' = Paid(t)
          BY <2>2, <3>2
        <4>2. /\ Len(attempts'[t]) + 0 <= Paid(t)'
              /\ number'[t] = Len(attempts'[t])
          BY <1>2, <1>5, <2>3, <2>5, <4>1
        <4>3. attempts'[t][Len(attempts'[t])] = latest'[t]
          BY <1>1, <1>2
        <4> QED
          BY <1>6, <2>4, <4>1, <4>2, <4>3 DEF Account
      <3> QED
        BY <3>1, <3>2
    <2> QED
      BY <2>6, <2>7 DEF Accounts
  <1>10. Replay'
    BY <1>0, <1>1, AbsorbingReplay
  <1>11. Verdicts'
    BY <1>1 DEF Inv, Verdicts, Late
  <1> QED
    BY <1>4, <1>8, <1>9, <1>10, <1>11 DEF Inv

\* A verdict is published once, and from all the attempts of its test.
LEMMA FinalizeInv ==
  ASSUME Inv, Finalize
  PROVE  Inv'
  <1>1. Unfinalized \in SUBSET Nat /\ Unfinalized \in SUBSET Tests /\ Unfinalized # {}
    BY ConstantsAssumption DEF Inv, TypeOK, Unfinalized, Finalize
  <1>2. PICK t \in Tests : t = First(Unfinalized) /\ t \in Unfinalized
    BY <1>1, FirstIsLeast
  <1>3. PICK status : status = FinalizeStatus(attempts[t], "none")
    OBVIOUS
  <1> DEFINE event == [kind |-> "final", test |-> t, number |-> 0, status |-> status]
  <1>4. attempts[t] \in Seq(Statuses)
    BY StatusesOfAttempts DEF Inv, TypeOK
  <1>5. status \in Statuses /\ status # "none"
    BY <1>3, <1>4, FinalizeStatusType, StatusesOfAttempts
  <1>6. /\ stage = "finalizing" /\ stage' \in {"finalizing", "aborted"}
        /\ verdict[t] = "none" /\ verdict' = [verdict EXCEPT ![t] = status]
        /\ log' = Append(log, event)
        /\ UNCHANGED <<selected, issues, round, pending, number, refused, waiting,
                       latest, attempts, retriesLeft, recoveryUsed, result, cancelled>>
    BY <1>2, <1>3 DEF Finalize, AfterEmitting, Unfinalized
  <1>7. event \in Events
    BY <1>5 DEF Events
  <1>8. /\ log' \in Seq(Events) /\ Len(log') = Len(log) + 1 /\ Len(log) \in Nat
        /\ log'[Len(log) + 1] = event
        /\ \A k \in 1..Len(log) : log'[k] = log[k] /\ log[k] \in Events
    <2> HIDE DEF event
    <2> QED
      BY <1>6, <1>7, AppendProperties, ElementOfSeq DEF Inv, TypeOK
  <1>9. TypeOK'
    BY <1>5, <1>6, <1>8 DEF Inv, TypeOK, Stages
  <1>10. Rounds'
    BY <1>6 DEF Inv, Rounds, Due
  <1>11. Accounts'
    BY <1>6 DEF Inv, Accounts, Account, Due, Paid
  <1>12. /\ verdict'[t] = status
         /\ \A u \in Tests \ {t} : verdict'[u] = verdict[u]
    BY <1>6 DEF Inv, TypeOK
  <1>13. Replay'
    <2>1. ASSUME NEW k \in 1..Len(log')
          PROVE  LET e == log'[k]
                 IN /\ e.kind = "attempt" =>
                         /\ e.number \in 1..Len(attempts'[e.test])
                         /\ e.status = attempts'[e.test][e.number]
                    /\ e.kind = "final" => e.status = verdict'[e.test]
      <3>1. CASE k = Len(log) + 1
        BY <1>8, <1>12, <3>1
      <3>2. CASE k \in 1..Len(log)
        <4>1. /\ log'[k] = log[k] /\ log[k].test \in Tests
              /\ log[k].status \in Statuses
          BY <1>8, <3>2 DEF Events
        <4>2. log[k].kind = "final" =>
                log[k].test # t /\ log[k].status = verdict[log[k].test]
          BY <1>6, <3>2, <4>1, StatusesOfAttempts DEF Inv, Replay
        <4>3. log[k].kind = "attempt" =>
                /\ log[k].number \in 1..Len(attempts[log[k].test])
                /\ log[k].status = attempts[log[k].test][log[k].number]
          BY <3>2 DEF Inv, Replay
        <4> QED
          BY <1>6, <1>12, <4>1, <4>2, <4>3
      <3> QED
        BY <1>8, <3>1, <3>2
    <2>2. ASSUME NEW u \in Tests, NEW n \in 1..Len(attempts'[u])
          PROVE  \E k \in 1..Len(log') : log'[k] = Fact(u, n)'
      <3>1. PICK k \in 1..Len(log) : log[k] = Fact(u, n)
        BY <1>6 DEF Inv, Replay
      <3> QED
        BY <1>6, <1>8, <3>1 DEF Fact
    <2>3. ASSUME NEW u \in Tests, verdict'[u] # "none"
          PROVE  \E k \in 1..Len(log') : log'[k].kind = "final" /\ log'[k].test = u
      <3>1. CASE u = t
        BY <1>8, <3>1
      <3>2. CASE u # t
        <4>1. PICK k \in 1..Len(log) : log[k].kind = "final" /\ log[k].test = u
          BY <1>12, <2>3, <3>2 DEF Inv, Replay
        <4> QED
          BY <1>8, <4>1
      <3> QED
        BY <3>1, <3>2
    <2> QED
      BY <2>1, <2>2, <2>3 DEF Replay
  <1>14. Verdicts'
    BY <1>3, <1>6, <1>12 DEF Inv, Verdicts, Late
  <1> QED
    BY <1>9, <1>10, <1>11, <1>13, <1>14 DEF Inv

-----------------------------------------------------------------------------
(***************************************************************************)
(* The reducer.                                                            *)
(***************************************************************************)
\* The last fact about an attempt is one of the facts about it.
LEMMA LastFactIsOne ==
  ASSUME Inv, NEW facts \in SUBSET (1..Len(log)), facts # {}
  PROVE  \E k \in facts : LastFact(facts) = log[k].status
  <1>1. Len(log) \in Nat
    BY DEF Inv, TypeOK
  <1>2. \E k \in facts : \A j \in facts : j <= k
    BY <1>1, GreatestExists
  <1> QED
    BY <1>2 DEF LastFact

\* The attempts the reducer reads from the events are attempts_by_test.
LEMMA ReducedAttemptsAgree ==
  ASSUME Inv, NEW t \in Tests
  PROVE  ReducedAttempts(t) = attempts[t]
  <1> DEFINE facts == Facts("attempt", t)
             numbered(n) == {k \in facts : log[k].number = n}
  <1>1. DOMAIN log = 1..Len(log)
    BY DEF Inv, TypeOK
  <1>2. \A k \in facts : /\ k \in 1..Len(log)
                         /\ log[k].number \in 1..Len(attempts[t])
                         /\ log[k].status = attempts[t][log[k].number]
    BY <1>1 DEF Facts, Inv, Replay
  <1>3. \A n \in 1..Len(attempts[t]) : \E k \in facts : log[k].number = n
    <2> SUFFICES ASSUME NEW n \in 1..Len(attempts[t])
                 PROVE  \E k \in facts : log[k].number = n
      OBVIOUS
    <2>1. PICK k \in 1..Len(log) : log[k] = Fact(t, n)
      BY DEF Inv, Replay
    <2>2. log[k].kind = "attempt" /\ log[k].test = t /\ log[k].number = n
      BY <2>1 DEF Fact
    <2> QED
      BY <1>1, <2>2 DEF Facts
  <1>4. {log[k].number : k \in facts} = 1..Len(attempts[t])
    BY <1>2, <1>3
  <1>5. ASSUME NEW n \in 1..Len(attempts[t])
        PROVE  LastFact(numbered(n)) = attempts[t][n]
    <2>1. numbered(n) \in SUBSET (1..Len(log)) /\ numbered(n) # {}
      BY <1>2, <1>3
    <2>2. PICK k \in numbered(n) : LastFact(numbered(n)) = log[k].status
      BY <2>1, LastFactIsOne
    <2> QED
      BY <1>2, <2>2
  <1>6. attempts[t] = [n \in 1..Len(attempts[t]) |-> attempts[t][n]]
    BY LenProperties DEF Inv, TypeOK
  <1> HIDE DEF facts
  <1>7. ReducedAttempts(t) = [n \in 1..Len(attempts[t]) |-> LastFact(numbered(n))]
    BY <1>4 DEF ReducedAttempts, facts
  <1> HIDE DEF numbered
  <1> QED
    BY <1>5, <1>6, <1>7

\* The reducer finds the verdict that TEST_FINALIZED published.
LEMMA ExplicitIsVerdict ==
  ASSUME Inv, NEW t \in Tests, verdict[t] # "none"
  PROVE  Explicit(t) = verdict[t]
  <1> DEFINE facts == Facts("final", t)
  <1>1. DOMAIN log = 1..Len(log)
    BY DEF Inv, TypeOK
  <1>2. facts \in SUBSET (1..Len(log)) /\ facts # {}
    BY <1>1 DEF Facts, Inv, Replay
  <1>3. PICK k \in facts : LastFact(facts) = log[k].status
    BY <1>2, LastFactIsOne
  <1>4. log[k].status = verdict[t]
    BY <1>1 DEF Facts, Inv, Replay
  <1> QED
    BY <1>2, <1>3, <1>4 DEF Explicit

\* The reducer repeats the verdicts that were published.
LEMMA ReduceInv ==
  ASSUME Inv, Reduce
  PROVE  Inv'
  <1>1. /\ stage = "finishing" /\ stage' = "recording"
        /\ result' = [t \in Tests |->
                        IF t \in selected
                          THEN FinalizeStatus(ReducedAttempts(t), Explicit(t))
                          ELSE "none"]
        /\ UNCHANGED <<selected, issues, round, pending, number, refused, waiting,
                       latest, attempts, retriesLeft, recoveryUsed, verdict, log,
                       cancelled>>
    BY DEF Reduce
  <1>2. ASSUME NEW t \in selected PROVE t \in Tests /\ result'[t] = verdict[t]
    <2>1. t \in Tests /\ verdict[t] # "none"
      BY <1>1 DEF Inv, TypeOK, Verdicts
    <2>2. verdict[t] = FinalizeStatus(attempts[t], "none") /\ attempts[t] \in Seq(Statuses)
      BY <2>1, StatusesOfAttempts DEF Inv, TypeOK, Verdicts
    <2>3. result'[t] = FinalizeStatus(attempts[t], verdict[t])
      BY <1>1, <2>1, ReducedAttemptsAgree, ExplicitIsVerdict
    <2> QED
      BY <2>1, <2>2, <2>3, FinalizeStatusTwice
  <1>3. result' \in [Tests -> Statuses \union {"none"}]
    <2>1. \A t \in Tests : result'[t] \in Statuses \union {"none"}
      BY <1>1, <1>2 DEF Inv, TypeOK
    <2> QED
      BY <1>1, <2>1
  <1>4. TypeOK'
    BY <1>1, <1>3 DEF Inv, TypeOK, Stages
  <1>5. Rounds'
    BY <1>1 DEF Inv, Rounds, Due
  <1>6. Accounts'
    BY <1>1 DEF Inv, Accounts, Account, Due, Paid
  <1>7. Replay'
    BY <1>1, ReplayUntouched
  <1>8. Verdicts'
    BY <1>1, <1>2 DEF Inv, Verdicts, Late
  <1> QED
    BY <1>4, <1>5, <1>6, <1>7, <1>8 DEF Inv

-----------------------------------------------------------------------------
\* Every step of the run keeps the invariant.
LEMMA NextInv == Inv /\ [Next]_vars => Inv'
  <1> SUFFICES ASSUME Inv, [Next]_vars PROVE Inv'
    OBVIOUS
  <1>1. CASE Collect
    BY <1>1, CollectInv
  <1>2. CASE RoundReturns
    BY <1>2, RoundReturnsInv
  <1>3. CASE AbsorbFirst \/ SinkRaises
    BY <1>3, AbsorbInv
  <1>4. CASE DecideFirst
    BY <1>4, DecideFirstInv
  <1>5. CASE AbsorbRetry
    BY <1>5, AbsorbRetryInv
  <1>6. CASE Finalize
    BY <1>6, FinalizeInv
  <1>7. CASE Reduce
    BY <1>7, ReduceInv
  <1>8. CASE \/ CollectionCancelled \/ BeginRound \/ NextRound \/ FinishEvents
             \/ Record \/ Cancel \/ Interrupt \/ UNCHANGED vars
    BY <1>8, MovingInv
  <1> QED
    BY <1>1, <1>2, <1>3, <1>4, <1>5, <1>6, <1>7, <1>8 DEF Next, Progress, RunOver

\* In every state of a run its rounds, its budgets, its events and its verdicts
\* agree with one another.
THEOREM Invariance == Spec => []Inv
  BY InitInv, NextInv, PTL DEF Spec

-----------------------------------------------------------------------------
(***************************************************************************)
(* What follows from it.                                                   *)
(***************************************************************************)
\* Every variable of the coordinator keeps its type; in particular the events
\* of a test always make a sequence of attempts without gaps.
THEOREM TypeCorrect == Spec => []TypeOK
  <1>1. Inv => TypeOK
    BY DEF Inv
  <1> QED
    BY <1>1, Invariance, PTL

\* However crashes, infrastructure errors and failures alternate over the
\* rounds, a test is attempted no more often than its budgets were charged for.
THEOREM BudgetsAreRespected == Spec => []AttemptsArePaidFor
  <1>1. ASSUME Inv PROVE AttemptsArePaidFor
    <2> SUFFICES ASSUME NEW t \in Tests PROVE Len(attempts[t]) <= Paid(t)
      BY DEF AttemptsArePaidFor, Paid
    <2>1. Len(attempts[t]) \in Nat /\ Paid(t) \in Int
      BY <1>1, ConstantsAssumption DEF Inv, TypeOK, Paid
    <2>2. Len(attempts[t]) + (IF t \in Due THEN 1 ELSE 0) <= Paid(t)
      BY <1>1 DEF Inv, Accounts, Account
    <2>3. CASE t \in Due
      BY <2>1, <2>2, <2>3
    <2>4. CASE t \notin Due
      BY <2>1, <2>2, <2>4
    <2> QED
      BY <2>3, <2>4
  <1> QED
    BY <1>1, Invariance, PTL

\* The event log alone is enough to reproduce a run: the reducer recovers the
\* attempts of every test and the verdict that was published.
THEOREM EventsReproduceTheRun == Spec => []ReplayAgrees
  <1>1. ASSUME Inv PROVE ReplayAgrees
    <2> SUFFICES ASSUME stage = "returned", NEW t \in selected
                 PROVE  ReducedAttempts(t) = attempts[t] /\ result[t] = verdict[t]
      BY DEF ReplayAgrees
    <2>1. t \in Tests /\ result[t] = verdict[t]
      BY <1>1 DEF Inv, TypeOK, Verdicts
    <2> QED
      BY <1>1, <2>1, ReducedAttemptsAgree
  <1> QED
    BY <1>1, Invariance, PTL

\* The result of a selected test is finalize_status of all its attempts, of
\* which every one but the last was one that is retried.
LEMMA ReturnedResults ==
  ASSUME Inv, stage = "returned", NEW t \in selected
  PROVE  /\ attempts[t] \in Seq(Statuses) /\ Len(attempts[t]) \in Nat
         /\ result[t] = FinalizeStatus(attempts[t], "none")
         /\ \A k \in 1..Len(attempts[t]) : k < Len(attempts[t])
              => attempts[t][k] \in Retryable \union Recoverable
  <1>1. t \in Tests
    BY DEF Inv, TypeOK
  <1>2. attempts[t] \in Seq(Statuses) /\ Len(attempts[t]) \in Nat
    BY <1>1, StatusesOfAttempts DEF Inv, TypeOK
  <1>3. result[t] = FinalizeStatus(attempts[t], "none")
    BY <1>1 DEF Inv, Verdicts
  <1> QED
    BY <1>1, <1>2, <1>3 DEF Inv, Accounts, Account

\* A passing verdict means that nothing before it was a failure of the test.
THEOREM PassesAreHonest == Spec => []PassedTestsNeverFailed
  <1>1. ASSUME Inv PROVE PassedTestsNeverFailed
    <2> SUFFICES ASSUME stage = "returned", NEW t \in selected,
                        result[t] \in Passing, NEW k \in DOMAIN attempts[t]
                 PROVE  attempts[t][k] \in Passing \union Infrastructure
      BY DEF PassedTestsNeverFailed
    <2> DEFINE s == attempts[t]
               last == LastSubstantive(s)
    <2>1. /\ s \in Seq(Statuses) /\ Len(s) \in Nat /\ k \in 1..Len(s)
          /\ result[t] = FinalizeStatus(s, "none")
          /\ \A j \in 1..Len(s) : j < Len(s) => s[j] \in Retryable \union Recoverable
      BY <1>1, ReturnedResults
    <2>2. s # << >>
      BY <2>1
    <2>3. /\ Substantive(s) # {}
          /\ ~FailedBefore(s, last) /\ s[last] \in Passing
      <3>1. Substantive(s) = {} => s[Len(s)] \in Infrastructure
        BY <2>1, <2>2 DEF Substantive
      <3> QED
        BY <2>1, <2>2, <3>1 DEF FinalizeStatus, Passing, Infrastructure
    <2>4. last \in Substantive(s) /\ \A j \in Substantive(s) : j <= last
      BY <2>1, <2>3, LastSubstantiveIsLast
    <2>5. CASE k \notin Substantive(s)
      BY <2>1, <2>5 DEF Substantive
    <2>6. CASE k \in Substantive(s) /\ k = last
      BY <2>3, <2>6
    <2>7. CASE k \in Substantive(s) /\ k # last
      <3>1. last \in 1..Len(s)
        BY <2>1, <2>4 DEF Substantive
      <3>2. k < last /\ k < Len(s)
        BY <2>1, <2>4, <2>7, <3>1
      <3>3. s[k] \notin TestFailures
        BY <2>3, <2>7, <3>2 DEF FailedBefore
      <3>4. s[k] \in Retryable \union Recoverable /\ s[k] \notin Infrastructure
        BY <2>1, <2>7, <3>2 DEF Substantive
      <3> QED
        BY <3>3, <3>4 DEF TestFailures, Retryable, Recoverable, Infrastructure
    <2> QED
      BY <2>5, <2>6, <2>7
  <1> QED
    BY <1>1, Invariance, PTL

\* A run that exits with 0 ran something, all of it, and cancelled nothing.
THEOREM GreenIsComplete == Spec => []GreenRunIsComplete
  <1>1. ASSUME Inv PROVE GreenRunIsComplete
    <2> SUFFICES ASSUME stage = "returned",
                        ExitCode(issues, {result[t] : t \in selected}) = 0
                 PROVE  /\ selected # {}
                        /\ \A t \in selected :
                             /\ attempts[t] # << >>
                             /\ \A k \in DOMAIN attempts[t] :
                                  attempts[t][k] # "CANCELLED"
      BY DEF GreenRunIsComplete
    <2>1. ~issues /\ \A t \in selected : result[t] \notin Gating
      BY DEF ExitCode
    <2>2. selected # {}
      BY <1>1, <2>1 DEF Inv, Rounds
    <2>3. ASSUME NEW t \in selected
          PROVE  /\ attempts[t] # << >>
                 /\ \A k \in DOMAIN attempts[t] : attempts[t][k] # "CANCELLED"
      <3> DEFINE s == attempts[t]
                 last == LastSubstantive(s)
      <3>1. /\ s \in Seq(Statuses) /\ Len(s) \in Nat
            /\ result[t] = FinalizeStatus(s, "none")
            /\ \A j \in 1..Len(s) : j < Len(s) => s[j] \in Retryable \union Recoverable
        BY <1>1, ReturnedResults
      <3>2. s # << >>
        BY <2>1, <3>1 DEF FinalizeStatus, Gating
      <3>3. ASSUME NEW k \in 1..Len(s), s[k] = "CANCELLED" PROVE FALSE
        <4>1. k = Len(s)
          BY <3>1, <3>3 DEF Retryable, Recoverable
        <4>2. k \in Substantive(s)
          BY <3>1, <3>3 DEF Substantive, Infrastructure
        <4>3. last \in Substantive(s) /\ k <= last /\ last \in 1..Len(s)
          BY <3>1, <4>2, LastSubstantiveIsLast DEF Substantive
        <4>4. last = k
          BY <3>1, <4>1, <4>3
        <4>5. result[t] \in {"FLAKY", "CANCELLED"}
          BY <3>1, <3>2, <3>3, <4>2, <4>4 DEF FinalizeStatus
        <4> QED
          BY <2>1, <4>5 DEF Gating, TestFailures
      <3> QED
        BY <3>1, <3>2, <3>3
    <2> QED
      BY <2>2, <2>3
  <1> QED
    BY <1>1, Invariance, PTL

-----------------------------------------------------------------------------
(***************************************************************************)
(* The run implements TestRun: the counters say what the history says.     *)
(***************************************************************************)
\* A recovery is paid for as soon as another attempt is due.
Charged(history) == \E k \in DOMAIN history : history[k] \in Recoverable

\* The counters when the last attempt of the history was made, and when the next
\* one is due.
Exact(history, left, used) ==
  /\ used <=> AbstractRun!Recovered(history)
  /\ Len(history) = 1 + (Retries - left) + (IF used THEN 1 ELSE 0)

Ahead(history, left, used) ==
  /\ AbstractRun!MayAttempt(history)
  /\ used <=> Charged(history)
  /\ Len(history) = (Retries - left) + (IF used THEN 1 ELSE 0)

Balance(t) ==
  IF t \in Due THEN Ahead(attempts[t], retriesLeft[t], recoveryUsed[t])
  ELSE IF attempts[t] = << >> THEN retriesLeft[t] = Retries /\ ~recoveryUsed[t]
  ELSE Exact(attempts[t], retriesLeft[t], recoveryUsed[t])

Balances == \A t \in Tests : Balance(t)

\* A test that is not due was given up, unless the first round is being absorbed.
GivenUp ==
  /\ stage \notin {"collecting", "aborted"} /\ ~(stage = "absorbing" /\ round = 1) =>
       \A t \in selected : t \in Due \/ Decision(t) = "no"
  /\ stage \in {"finalizing", "finishing", "recording", "returned"} => Due = {}

BudgetInv == Inv /\ Balances /\ GivenUp

LEMMA SameWords ==
  /\ AbstractRun!Recoverable = Recoverable /\ AbstractRun!Retryable = Retryable
  /\ \A h : AbstractRun!FinalizeStatus(h, "none") = FinalizeStatus(h, "none")
  /\ AbstractRun!Statuses = Statuses
  BY DEF AbstractRun!Recoverable, Recoverable, AbstractRun!Retryable, Retryable,
     AbstractRun!Statuses, Statuses,
     AbstractRun!FinalizeStatus, FinalizeStatus, AbstractRun!LastSubstantive, LastSubstantive,
     AbstractRun!Substantive, Substantive, AbstractRun!Infrastructure, Infrastructure,
     AbstractRun!FailedBefore, FailedBefore, AbstractRun!TestFailures, TestFailures,
     AbstractRun!Passing, Passing

\* An attempt that was due is made.
LEMMA AttemptMade ==
  ASSUME NEW h \in Seq(AttemptStatuses), NEW status \in AttemptStatuses,
         NEW left \in 0 .. Retries, NEW used \in BOOLEAN, Ahead(h, left, used)
  PROVE  Exact(Append(h, status), left, used)
  <1>1. /\ Len(h) \in Nat /\ DOMAIN h = 1 .. Len(h)
        /\ Len(Append(h, status)) = Len(h) + 1
        /\ DOMAIN Append(h, status) = 1 .. Len(h) + 1
        /\ \A k \in 1 .. Len(h) : Append(h, status)[k] = h[k]
    OBVIOUS
  <1>2. Charged(h) <=> AbstractRun!Recovered(Append(h, status))
    BY <1>1, SameWords DEF Charged, AbstractRun!Recovered
  <1>3. Retries \in Nat /\ left \in Nat
    BY ConstantsAssumption
  <1> QED
    BY <1>1, <1>2, <1>3 DEF Ahead, Exact

\* A decision to retry charges one budget, and only when the history entitles the
\* test to another attempt.
LEMMA AttemptDue ==
  ASSUME NEW h \in Seq(AttemptStatuses), h # << >>,
         NEW left \in 0 .. Retries, NEW used \in BOOLEAN, Exact(h, left, used),
         NEW budget, budget = ShouldRetry(h[Len(h)], left, used)
  PROVE  /\ budget \in {"no", "user", "recovery"}
         /\ budget = "no" => ~AbstractRun!MayAttempt(h)
         /\ budget = "user" => Ahead(h, left - 1, used)
         /\ budget = "recovery" => Ahead(h, left, TRUE)
  <1>1. Len(h) \in Nat \ {0} /\ DOMAIN h = 1 .. Len(h)
    OBVIOUS
  <1>2. Retries \in Nat /\ left \in Nat /\ left <= Retries
    BY ConstantsAssumption
  <1>3. PICK last : last = h[Len(h)]
    OBVIOUS
  <1>4. (used <=> AbstractRun!Recovered(h)) /\ Len(h) = 1 + (Retries - left) + (IF used THEN 1 ELSE 0)
    BY DEF Exact
  <1>5. AbstractRun!PaidByUser(h) = Retries - left
    BY <1>1, <1>2, <1>4 DEF AbstractRun!PaidByUser
  <1>6. (AbstractRun!PaidByUser(h) < Retries) <=> left > 0
    BY <1>2, <1>5
  <1>7. AbstractRun!MayAttempt(h) <=>
          \/ last \in Recoverable /\ ~used
          \/ last \in Retryable \union Recoverable /\ left > 0
    BY <1>3, <1>4, <1>6, SameWords DEF AbstractRun!MayAttempt
  <1>8. Charged(h) <=> used \/ last \in Recoverable
    BY <1>1, <1>3, <1>4, SameWords DEF Charged, AbstractRun!Recovered
  <1>9. budget = IF last \in Recoverable /\ ~used THEN "recovery"
                 ELSE IF last \in Retryable \union Recoverable /\ left > 0 THEN "user" ELSE "no"
    BY <1>3 DEF ShouldRetry
  <1>10. budget \in {"no", "user", "recovery"} /\ (budget = "no" => ~AbstractRun!MayAttempt(h))
    BY <1>7, <1>9
  <1>11. ASSUME budget = "user" PROVE Ahead(h, left - 1, used)
    <2>1. last \in Retryable \union Recoverable /\ left > 0 /\ ~(last \in Recoverable /\ ~used)
      BY <1>9, <1>11
    <2>2. Len(h) = (Retries - (left - 1)) + (IF used THEN 1 ELSE 0)
      BY <1>1, <1>2, <1>4, <2>1
    <2> QED
      BY <1>7, <1>8, <2>1, <2>2 DEF Ahead
  <1>12. ASSUME budget = "recovery" PROVE Ahead(h, left, TRUE)
    <2>1. last \in Recoverable /\ ~used
      BY <1>9, <1>12
    <2>2. Len(h) = (Retries - left) + 1
      BY <1>1, <1>2, <1>4, <2>1
    <2> QED
      BY <1>7, <1>8, <2>1, <2>2 DEF Ahead
  <1> QED
    BY <1>10, <1>11, <1>12

\* A retry is charged to the budget that was decided on.
LEMMA SchedulingCounters ==
  ASSUME Inv, NEW tests \in SUBSET selected, ScheduleRetries(tests), NEW t \in Tests
  PROVE  /\ t \in pending' <=> t \in pending \/ (t \in tests /\ Decision(t) # "no")
         /\ t \notin tests => retriesLeft'[t] = retriesLeft[t] /\ recoveryUsed'[t] = recoveryUsed[t]
         /\ t \in tests =>
              /\ Decision(t) = "no" => retriesLeft'[t] = retriesLeft[t] /\ recoveryUsed'[t] = recoveryUsed[t]
              /\ Decision(t) = "user" => retriesLeft'[t] = retriesLeft[t] - 1 /\ recoveryUsed'[t] = recoveryUsed[t]
              /\ Decision(t) = "recovery" => retriesLeft'[t] = retriesLeft[t] /\ recoveryUsed'[t] = TRUE
  <1>1. /\ retriesLeft' = [u \in Tests |-> IF u \in tests /\ Decision(u) = "user"
                                           THEN retriesLeft[u] - 1 ELSE retriesLeft[u]]
        /\ recoveryUsed' = [u \in Tests |->
                              recoveryUsed[u] \/ (u \in tests /\ Decision(u) = "recovery")]
        /\ pending' = pending \union {u \in tests : Decision(u) # "no"}
    BY DEF ScheduleRetries
  <1>2. /\ retriesLeft'[t] = IF t \in tests /\ Decision(t) = "user"
                             THEN retriesLeft[t] - 1 ELSE retriesLeft[t]
        /\ recoveryUsed'[t] = (recoveryUsed[t] \/ (t \in tests /\ Decision(t) = "recovery"))
        /\ recoveryUsed[t] \in BOOLEAN
    BY <1>1 DEF Inv, TypeOK
  <1> HIDE DEF Decision
  <1> QED
    BY <1>1, <1>2

\* What has been attempted, and is not due, has its last attempt in latest.
LEMMA DecisionOnLast ==
  ASSUME Inv, NEW t \in Tests, t \notin Due, attempts[t] # << >>
  PROVE  /\ attempts[t] \in Seq(AttemptStatuses)
         /\ retriesLeft[t] \in 0 .. Retries /\ recoveryUsed[t] \in BOOLEAN
         /\ Decision(t) = ShouldRetry(attempts[t][Len(attempts[t])], retriesLeft[t], recoveryUsed[t])
  <1>1. attempts[t][Len(attempts[t])] = latest[t]
    BY DEF Inv, Accounts, Account
  <1> QED
    BY <1>1 DEF Inv, TypeOK, Decision

\* The steps that leave rounds and budgets alone.
LEMMA BudgetsKept ==
  ASSUME BudgetInv,
         \/ CollectionCancelled \/ BeginRound \/ NextRound \/ Finalize \/ FinishEvents
         \/ Reduce \/ Record \/ Cancel \/ Interrupt \/ UNCHANGED vars
  PROVE  Balances' /\ GivenUp'
  <1>1. /\ UNCHANGED <<selected, pending, waiting, latest, attempts, retriesLeft, recoveryUsed>>
        /\ \/ stage' = stage /\ round' = round
           \/ stage' = "aborted"
           \/ stage = "scheduling" /\ stage' = "running"
           \/ /\ stage = "absorbing" /\ round > 1 /\ waiting = {}
              /\ \/ stage' = "scheduling"
                 \/ stage' = "finalizing" /\ pending = {}
           \/ /\ stage \in {"finalizing", "finishing", "recording"}
              /\ stage' \in {"finalizing", "finishing", "recording", "returned"}
    <2>1. CASE CollectionCancelled \/ Cancel \/ Interrupt \/ UNCHANGED vars \/ BeginRound
      BY <2>1 DEF CollectionCancelled, Cancel, Interrupt, vars, BeginRound
    <2>2. CASE NextRound
      BY <2>2 DEF NextRound, AnotherRound
    <2>3. CASE Finalize \/ FinishEvents \/ Reduce \/ Record
      BY <2>3 DEF Finalize, FinishEvents, Reduce, Record, AfterEmitting, Over
    <2> QED
      BY <2>1, <2>2, <2>3
  <1>2. Due' = Due /\ \A t : Decision(t)' = Decision(t)
    BY <1>1 DEF Due, Decision
  <1>3. Balances'
    BY <1>1, <1>2 DEF BudgetInv, Balances, Balance
  <1>4. stage \notin {"collecting", "aborted"} /\ ~(stage = "absorbing" /\ round = 1) =>
          \A t \in selected : t \in Due \/ Decision(t) = "no"
    BY DEF BudgetInv, GivenUp
  <1>5. stage \in {"finalizing", "finishing", "recording", "returned"} => Due = {}
    BY DEF BudgetInv, GivenUp
  <1>6. round > 1 => round # 1
    BY DEF BudgetInv, Inv, TypeOK
  <1>7. (\A t \in selected : t \in Due \/ Decision(t) = "no")
          => (\A t \in selected : t \in Due' \/ Decision(t)' = "no")
    BY <1>2
  <1>8. /\ stage' \notin {"collecting", "aborted"} /\ ~(stage' = "absorbing" /\ round' = 1) =>
             \A t \in selected : t \in Due' \/ Decision(t)' = "no"
        /\ stage' \in {"finalizing", "finishing", "recording", "returned"} => Due' = {}
    <2>1. CASE stage' = stage /\ round' = round
      BY <1>2, <1>4, <1>5, <1>7, <2>1
    <2>2. CASE stage' = "aborted"
      BY <2>2
    <2>3. CASE stage = "scheduling" /\ stage' = "running"
      BY <1>4, <1>7, <2>3
    <2>4. CASE /\ stage = "absorbing" /\ round > 1 /\ waiting = {}
               /\ \/ stage' = "scheduling"
                  \/ stage' = "finalizing" /\ pending = {}
      BY <1>2, <1>4, <1>6, <1>7, <2>4 DEF Due
    <2>5. CASE /\ stage \in {"finalizing", "finishing", "recording"}
               /\ stage' \in {"finalizing", "finishing", "recording", "returned"}
      BY <1>2, <1>4, <1>5, <1>7, <2>5
    <2> QED
      BY <1>1, <2>1, <2>2, <2>3, <2>4, <2>5
  <1>9. selected' = selected
    BY <1>1
  <1> QED
    BY <1>3, <1>8, <1>9 DEF GivenUp

LEMMA CollectBudgets == ASSUME BudgetInv, Collect PROVE Balances' /\ GivenUp'
  <1>1. /\ Inv /\ stage = "collecting" /\ pending' = selected' /\ waiting' = waiting
        /\ selected' = {} => stage' \in {"finalizing", "aborted"}
        /\ selected' # {} => stage' \in {"scheduling", "aborted"}
        /\ UNCHANGED <<latest, attempts, retriesLeft, recoveryUsed>>
    BY DEF Collect, AfterEmitting, BudgetInv
  <1>2. waiting = {} /\ pending = {} /\ Due = {} /\ \A t \in Tests : attempts[t] = << >>
    BY <1>1 DEF Inv, Rounds, Due
  <1>3. Due' = selected'
    BY <1>1, <1>2 DEF Due
  <1>4. ASSUME NEW t \in Tests PROVE Balance(t)'
    <2>1. retriesLeft[t] = Retries /\ ~recoveryUsed[t] /\ attempts[t] = << >>
      BY <1>2 DEF BudgetInv, Balances, Balance
    <2>2. Ahead(<< >>, Retries, FALSE)
      <3>1. AbstractRun!MayAttempt(<< >>)
        BY DEF AbstractRun!MayAttempt
      <3>2. ~Charged(<< >>)
        BY DEF Charged
      <3> QED
        BY <3>1, <3>2, ConstantsAssumption DEF Ahead
    <2>3. /\ attempts'[t] = << >> /\ retriesLeft'[t] = Retries
          /\ recoveryUsed'[t] = FALSE
      BY <1>1, <2>1 DEF Inv, TypeOK
    <2> QED
      BY <2>2, <2>3 DEF Balance
  <1> QED
    BY <1>1, <1>3, <1>4 DEF Balances, GivenUp

LEMMA RoundReturnsBudgets == ASSUME BudgetInv, RoundReturns PROVE Balances' /\ GivenUp'
  <1>1. /\ Inv /\ stage = "running" /\ stage' = "absorbing"
        /\ waiting' = pending /\ pending' = {}
        /\ UNCHANGED <<selected, round, attempts, retriesLeft, recoveryUsed>>
    BY DEF RoundReturns, BudgetInv
  <1>2. waiting = {}
    BY <1>1 DEF Inv, Rounds
  <1>3. Due' = Due /\ Due = pending
    BY <1>1, <1>2 DEF Due
  <1>4. \A t \in Tests \ Due : latest'[t] = latest[t]
    BY <1>3 DEF RoundReturns
  <1>5. Balances'
    BY <1>1, <1>3 DEF BudgetInv, Balances, Balance
  <1>6. \A t \in selected : t \in Due \/ Decision(t) = "no"
    BY <1>1 DEF BudgetInv, GivenUp
  <1>7. \A t \in selected : t \in Due' \/ Decision(t)' = "no"
    BY <1>1, <1>3, <1>4, <1>6 DEF Decision, Inv, TypeOK
  <1> QED
    BY <1>1, <1>5, <1>7 DEF GivenUp

\* A result is absorbed: the test was entitled to the attempt.
LEMMA AbsorbBudgets ==
  ASSUME BudgetInv, waiting # {}, AbsorbResult(First(waiting)), NEW t, t = First(waiting)
  PROVE  /\ t \in Tests /\ t \in Due /\ t \in selected /\ t \notin pending
         /\ latest[t] \in AttemptStatuses
         /\ attempts' = [attempts EXCEPT ![t] = Append(@, latest[t])]
         /\ attempts'[t] \in Seq(AttemptStatuses) /\ attempts'[t] # << >>
         /\ attempts'[t][Len(attempts'[t])] = latest[t]
         /\ AbstractRun!MayAttempt(attempts[t])
         /\ retriesLeft[t] \in 0 .. Retries /\ recoveryUsed[t] \in BOOLEAN
         /\ Exact(attempts'[t], retriesLeft[t], recoveryUsed[t])
         /\ \A u \in Tests \ {t} : attempts'[u] = attempts[u]
         /\ waiting' = waiting \ {t}
  <1>1. /\ Inv /\ t \in waiting /\ t \in Tests /\ t \in selected /\ t \notin pending
        /\ attempts'[t] = Append(attempts[t], latest[t])
        /\ \A u \in Tests \ {t} : attempts'[u] = attempts[u]
        /\ waiting' = waiting \ {t}
    BY AbsorbingAttempts DEF BudgetInv
  <1>2. /\ latest[t] \in AttemptStatuses /\ attempts[t] \in Seq(AttemptStatuses)
        /\ retriesLeft[t] \in 0 .. Retries /\ recoveryUsed[t] \in BOOLEAN
    BY <1>1 DEF Inv, TypeOK, Rounds
  <1>3. t \in Due
    BY <1>1 DEF Due
  <1>4. Ahead(attempts[t], retriesLeft[t], recoveryUsed[t])
    BY <1>1, <1>3 DEF BudgetInv, Balances, Balance
  <1>5. Exact(attempts'[t], retriesLeft[t], recoveryUsed[t])
    BY <1>1, <1>2, <1>4, AttemptMade
  <1>6. /\ attempts'[t] \in Seq(AttemptStatuses) /\ attempts'[t] # << >>
        /\ attempts'[t][Len(attempts'[t])] = latest[t]
    BY <1>1, <1>2
  <1>7. attempts' = [attempts EXCEPT ![t] = Append(@, latest[t])]
    BY DEF AbsorbResult
  <1>8. AbstractRun!MayAttempt(attempts[t])
    BY <1>4 DEF Ahead
  <1> QED
    BY <1>1, <1>2, <1>3, <1>5, <1>6, <1>7, <1>8

LEMMA AbsorbFirstBudgets ==
  ASSUME BudgetInv, AbsorbFirst \/ SinkRaises
  PROVE  Balances' /\ GivenUp'
  <1>0. PICK t : t = First(waiting)
    OBVIOUS
  <1>1. /\ waiting # {} /\ AbsorbResult(First(waiting))
        /\ \/ stage' = "absorbing" /\ round' = 1
           \/ stage' = "aborted"
        /\ UNCHANGED <<selected, pending, latest, retriesLeft, recoveryUsed>>
    BY DEF AbsorbFirst, SinkRaises
  <1>2. /\ t \in Tests /\ t \notin pending
        /\ attempts'[t] # << >>
        /\ Exact(attempts'[t], retriesLeft[t], recoveryUsed[t])
        /\ \A u \in Tests \ {t} : attempts'[u] = attempts[u]
        /\ waiting' = waiting \ {t}
    BY <1>0, <1>1, AbsorbBudgets
  <1>3. t \notin Due' /\ \A u \in Tests \ {t} : u \in Due' <=> u \in Due
    BY <1>1, <1>2 DEF Due
  <1>4. Balance(t)'
    BY <1>1, <1>2, <1>3 DEF Balance
  <1>5. \A u \in Tests \ {t} : Balance(u)'
    BY <1>1, <1>2, <1>3 DEF Balance, Balances, BudgetInv
  <1> QED
    BY <1>1, <1>4, <1>5 DEF Balances, GivenUp

LEMMA DecideFirstBudgets == ASSUME BudgetInv, DecideFirst PROVE Balances' /\ GivenUp'
  <1>1. /\ Inv /\ ScheduleRetries(selected) /\ selected \in SUBSET selected
        /\ stage = "absorbing" /\ waiting = {} /\ pending = {}
        /\ stage' = IF pending' = {} THEN "finalizing" ELSE "scheduling"
        /\ UNCHANGED <<selected, waiting, latest, attempts>>
    BY DEF DecideFirst, BudgetInv
  <1>2. Due = {} /\ Due' = pending'
    BY <1>1 DEF Due
  <1>3. selected \in SUBSET Tests /\ \A t \in selected : attempts[t] # << >>
    BY <1>1, <1>2 DEF Inv, TypeOK, Rounds
  <1>4. ASSUME NEW t \in Tests
        PROVE  Balance(t)' /\ (t \in selected => t \in Due' \/ Decision(t)' = "no")
    <2>0. Balance(t) /\ t \notin Due
      BY <1>2 DEF BudgetInv, Balances
    <2>1. CASE t \notin selected
      <3>1. retriesLeft'[t] = retriesLeft[t] /\ recoveryUsed'[t] = recoveryUsed[t] /\ t \notin pending'
        BY <1>1, <2>1, SchedulingCounters
      <3> QED
        BY <1>1, <1>2, <2>0, <2>1, <3>1 DEF Balance
    <2>2. CASE t \in selected
      <3>1. /\ Exact(attempts[t], retriesLeft[t], recoveryUsed[t])
            /\ attempts[t] \in Seq(AttemptStatuses) /\ attempts[t] # << >>
            /\ retriesLeft[t] \in 0 .. Retries /\ recoveryUsed[t] \in BOOLEAN
            /\ Decision(t) = ShouldRetry(attempts[t][Len(attempts[t])], retriesLeft[t], recoveryUsed[t])
        BY <1>1, <1>3, <2>0, <2>2, DecisionOnLast DEF Balance
      <3>2. PICK budget : budget = Decision(t)
        OBVIOUS
      <3>3. /\ budget \in {"no", "user", "recovery"}
            /\ budget = "user" => Ahead(attempts[t], retriesLeft[t] - 1, recoveryUsed[t])
            /\ budget = "recovery" => Ahead(attempts[t], retriesLeft[t], TRUE)
        BY <3>1, <3>2, AttemptDue
      <3>4. /\ t \in pending' <=> Decision(t) # "no"
            /\ Decision(t) = "no" => retriesLeft'[t] = retriesLeft[t] /\ recoveryUsed'[t] = recoveryUsed[t]
            /\ Decision(t) = "user" => retriesLeft'[t] = retriesLeft[t] - 1 /\ recoveryUsed'[t] = recoveryUsed[t]
            /\ Decision(t) = "recovery" => retriesLeft'[t] = retriesLeft[t] /\ recoveryUsed'[t] = TRUE
        BY <1>1, <2>2, SchedulingCounters
      <3>5. CASE budget = "no"
        BY <1>1, <1>2, <3>1, <3>2, <3>4, <3>5 DEF Balance, Decision
      <3>6. CASE budget = "user"
        BY <1>1, <1>2, <3>2, <3>3, <3>4, <3>6 DEF Balance
      <3>7. CASE budget = "recovery"
        BY <1>1, <1>2, <3>2, <3>3, <3>4, <3>7 DEF Balance
      <3> QED
        BY <3>3, <3>5, <3>6, <3>7
    <2> QED
      BY <2>1, <2>2
  <1> QED
    BY <1>1, <1>2, <1>3, <1>4 DEF Balances, GivenUp

LEMMA AbsorbRetryBudgets == ASSUME BudgetInv, AbsorbRetry PROVE Balances' /\ GivenUp'
  <1>0. PICK t : t = First(waiting)
    OBVIOUS
  <1>1. /\ Inv /\ waiting # {} /\ AbsorbResult(First(waiting)) /\ ScheduleRetries({t})
        /\ stage = "absorbing" /\ round > 1 /\ round # 1
        /\ UNCHANGED <<stage, round, selected, latest>>
    BY <1>0 DEF AbsorbRetry, BudgetInv, Inv, TypeOK
  <1>2. /\ t \in Tests /\ t \in selected /\ t \notin pending /\ t \in Due
        /\ attempts'[t] \in Seq(AttemptStatuses) /\ attempts'[t] # << >>
        /\ attempts'[t][Len(attempts'[t])] = latest[t]
        /\ retriesLeft[t] \in 0 .. Retries /\ recoveryUsed[t] \in BOOLEAN
        /\ Exact(attempts'[t], retriesLeft[t], recoveryUsed[t])
        /\ \A u \in Tests \ {t} : attempts'[u] = attempts[u]
        /\ waiting' = waiting \ {t}
    BY <1>0, <1>1, AbsorbBudgets
  <1>3. ASSUME NEW u \in Tests \ {t}
        PROVE  Balance(u)' /\ (u \in selected => u \in Due' \/ Decision(u)' = "no")
    <2>1. /\ retriesLeft'[u] = retriesLeft[u] /\ recoveryUsed'[u] = recoveryUsed[u]
          /\ u \in pending' <=> u \in pending
      BY <1>1, <1>2, SchedulingCounters
    <2>2. u \in Due' <=> u \in Due
      BY <1>2, <2>1 DEF Due
    <2>3. Balance(u) /\ (u \in selected => u \in Due \/ Decision(u) = "no")
      BY <1>1 DEF BudgetInv, Balances, GivenUp
    <2> QED
      BY <1>1, <1>2, <2>1, <2>2, <2>3 DEF Balance, Decision
  <1>4. Balance(t)' /\ (t \in Due' \/ Decision(t)' = "no")
    <2>1. PICK budget : budget = Decision(t)
      OBVIOUS
    <2>2. /\ budget \in {"no", "user", "recovery"}
          /\ budget = "user" => Ahead(attempts'[t], retriesLeft[t] - 1, recoveryUsed[t])
          /\ budget = "recovery" => Ahead(attempts'[t], retriesLeft[t], TRUE)
      <3>1. budget = ShouldRetry(attempts'[t][Len(attempts'[t])], retriesLeft[t], recoveryUsed[t])
        BY <1>2, <2>1 DEF Decision
      <3>2. PICK h \in Seq(AttemptStatuses) : h = attempts'[t]
        BY <1>2
      <3> QED
        BY <1>2, <3>1, <3>2, AttemptDue
    <2>3. /\ t \in pending' <=> Decision(t) # "no"
          /\ Decision(t) = "no" => retriesLeft'[t] = retriesLeft[t] /\ recoveryUsed'[t] = recoveryUsed[t]
          /\ Decision(t) = "user" => retriesLeft'[t] = retriesLeft[t] - 1 /\ recoveryUsed'[t] = recoveryUsed[t]
          /\ Decision(t) = "recovery" => retriesLeft'[t] = retriesLeft[t] /\ recoveryUsed'[t] = TRUE
      BY <1>1, <1>2, SchedulingCounters
    <2>4. t \in Due' <=> t \in pending'
      BY <1>2 DEF Due
    <2>5. CASE budget = "no"
      BY <1>1, <1>2, <2>1, <2>3, <2>4, <2>5 DEF Balance, Decision
    <2>6. CASE budget = "user"
      BY <2>1, <2>2, <2>3, <2>4, <2>6 DEF Balance
    <2>7. CASE budget = "recovery"
      BY <2>1, <2>2, <2>3, <2>4, <2>7 DEF Balance
    <2> QED
      BY <2>2, <2>5, <2>6, <2>7
  <1>5. selected \in SUBSET Tests
    BY <1>1 DEF Inv, TypeOK
  <1> QED
    BY <1>1, <1>3, <1>4, <1>5 DEF Balances, GivenUp

LEMMA BudgetStep == BudgetInv /\ [Next]_vars => BudgetInv'
  <1> SUFFICES ASSUME BudgetInv, [Next]_vars PROVE BudgetInv'
    OBVIOUS
  <1>1. Inv'
    BY NextInv DEF BudgetInv
  <1>2. CASE Collect
    BY <1>1, <1>2, CollectBudgets DEF BudgetInv
  <1>3. CASE RoundReturns
    BY <1>1, <1>3, RoundReturnsBudgets DEF BudgetInv
  <1>4. CASE AbsorbFirst \/ SinkRaises
    BY <1>1, <1>4, AbsorbFirstBudgets DEF BudgetInv
  <1>5. CASE DecideFirst
    BY <1>1, <1>5, DecideFirstBudgets DEF BudgetInv
  <1>6. CASE AbsorbRetry
    BY <1>1, <1>6, AbsorbRetryBudgets DEF BudgetInv
  <1>7. CASE \/ CollectionCancelled \/ BeginRound \/ NextRound \/ Finalize \/ FinishEvents
             \/ Reduce \/ Record \/ Cancel \/ Interrupt \/ UNCHANGED vars
    BY <1>1, <1>7, BudgetsKept DEF BudgetInv
  <1> QED
    BY <1>2, <1>3, <1>4, <1>5, <1>6, <1>7 DEF Next, Progress, RunOver

LEMMA BudgetInit == Init => BudgetInv
  <1> SUFFICES ASSUME Init PROVE Balances /\ GivenUp
    BY InitInv DEF BudgetInv
  <1>1. \A t \in Tests : t \notin Due /\ attempts[t] = << >> /\ retriesLeft[t] = Retries
                         /\ ~recoveryUsed[t]
    BY DEF Init, Due
  <1> QED
    BY <1>1 DEF Init, Balances, Balance, GivenUp

\* In every state of a run the counters of _run say what the history of each
\* test says, and a test that is not due was given up.
THEOREM BudgetInvariance == Spec => []BudgetInv
  BY BudgetInit, BudgetStep, PTL DEF Spec

\* Absorbing a result is an attempt the history entitles the test to.
LEMMA AbsorbRefines ==
  ASSUME BudgetInv, AbsorbFirst \/ SinkRaises \/ AbsorbRetry
  PROVE  AbstractRun!Next
  <1>0. PICK t : t = First(waiting)
    OBVIOUS
  <1>1. /\ Inv /\ waiting # {} /\ AbsorbResult(First(waiting)) /\ stage = "absorbing"
        /\ UNCHANGED verdict
    BY DEF AbsorbFirst, SinkRaises, AbsorbRetry, BudgetInv
  <1>2. /\ t \in Tests /\ latest[t] \in AttemptStatuses
        /\ attempts' = [attempts EXCEPT ![t] = Append(@, latest[t])]
        /\ AbstractRun!MayAttempt(attempts[t])
    BY <1>0, <1>1, AbsorbBudgets
  <1>3. verdict[t] = "none"
    BY <1>1, <1>2 DEF Inv, Verdicts, Late
  <1>4. latest[t] \in AbstractRun!Statuses
    BY <1>2, StatusesOfAttempts, SameWords
  <1>5. AbstractRun!Attempt(t)
    BY <1>1, <1>2, <1>3, <1>4 DEF AbstractRun!Attempt
  <1> QED
    BY <1>2, <1>5 DEF AbstractRun!Next

\* A verdict is given to a test that nothing entitles to another attempt.
LEMMA FinalizeRefines ==
  ASSUME BudgetInv, Finalize
  PROVE  AbstractRun!Next
  <1>0. PICK t : t = First(Unfinalized)
    OBVIOUS
  <1>1. /\ Inv /\ stage = "finalizing" /\ Unfinalized # {}
        /\ verdict' = [verdict EXCEPT ![t] = FinalizeStatus(attempts[t], "none")]
        /\ UNCHANGED attempts
    BY <1>0 DEF Finalize, BudgetInv
  <1>2. Unfinalized \in SUBSET Nat /\ selected \in SUBSET Tests
    BY <1>1, ConstantsAssumption DEF Unfinalized, Inv, TypeOK
  <1>3. t \in Unfinalized
    BY <1>0, <1>1, <1>2, FirstIsLeast
  <1>4. t \in selected /\ t \in Tests /\ verdict[t] = "none"
    BY <1>2, <1>3 DEF Unfinalized
  <1>5. Due = {} /\ Decision(t) = "no"
    BY <1>1, <1>4 DEF BudgetInv, GivenUp
  <1>6. attempts[t] # << >>
    BY <1>1, <1>4, <1>5 DEF Inv, Rounds
  <1>7. Exact(attempts[t], retriesLeft[t], recoveryUsed[t])
    BY <1>4, <1>5, <1>6 DEF BudgetInv, Balances, Balance
  <1>8. PICK budget : budget = Decision(t)
    OBVIOUS
  <1>9. ~AbstractRun!MayAttempt(attempts[t])
    <2>1. /\ attempts[t] \in Seq(AttemptStatuses)
          /\ retriesLeft[t] \in 0 .. Retries /\ recoveryUsed[t] \in BOOLEAN
          /\ budget = ShouldRetry(attempts[t][Len(attempts[t])], retriesLeft[t], recoveryUsed[t])
      BY <1>1, <1>4, <1>5, <1>6, <1>8, DecisionOnLast
    <2> QED
      BY <1>5, <1>6, <1>7, <1>8, <2>1, AttemptDue
  <1>10. AbstractRun!Conclude(t)
    BY <1>1, <1>4, <1>6, <1>9, SameWords DEF AbstractRun!Conclude
  <1> QED
    BY <1>4, <1>10 DEF AbstractRun!Next

\* However the rounds go, the attempts of a test and its verdict are those of the
\* abstract run: an attempt is made only when the history of the test pays for it,
\* and the verdict is given when nothing does any more (_run, _should_retry).
THEOREM RunImplemented == Spec => ImplementsTestRun
  <1>1. Init => AbstractRun!Init
    BY DEF Init, AbstractRun!Init
  <1>2. BudgetInv /\ [Next]_vars => [AbstractRun!Next]_(AbstractRun!vars)
    <2> SUFFICES ASSUME BudgetInv, [Next]_vars
                 PROVE  AbstractRun!Next \/ UNCHANGED AbstractRun!vars
      OBVIOUS
    <2>1. CASE AbsorbFirst \/ SinkRaises \/ AbsorbRetry
      BY <2>1, AbsorbRefines
    <2>2. CASE Finalize
      BY <2>2, FinalizeRefines
    <2>3. CASE UNCHANGED <<attempts, verdict>>
      BY <2>3 DEF AbstractRun!vars
    <2>4. \/ AbsorbFirst \/ SinkRaises \/ AbsorbRetry \/ Finalize
          \/ UNCHANGED <<attempts, verdict>>
      BY DEF Next, vars, Progress, Collect, CollectionCancelled, BeginRound, RoundReturns,
         DecideFirst, NextRound, FinishEvents, Reduce, Record, Cancel, Interrupt, RunOver
    <2> QED
      BY <2>1, <2>2, <2>3, <2>4
  <1> QED
    BY <1>1, <1>2, BudgetInvariance, PTL DEF Spec, ImplementsTestRun, AbstractRun!Spec
=============================================================================
