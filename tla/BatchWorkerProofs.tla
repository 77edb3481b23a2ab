------------------------- MODULE BatchWorkerProofs --------------------------
(***************************************************************************)
(* Proofs about one batch in one worker, for any number of tests, any      *)
(* grouping into modules and any point at which the worker is lost.        *)
(***************************************************************************)
EXTENDS BatchWorker, SequenceTheorems, FiniteSetTheorems, WellFoundedInduction, TLAPS

-----------------------------------------------------------------------------
(***************************************************************************)
(* The inductive invariant.                                                *)
(***************************************************************************)
\* The tests before next have a result, the others have none.
Executed == \A t \in Tests : results[t] # "none" <=> t < next

\* Nothing is published of a test that was not executed.
Publishable == \A k \in DOMAIN outbox : outbox[k] < next

\* The scopes are closed after the last test, and acknowledged when all is published.
InPhase ==
  /\ phase \in {"closing", "acknowledged"} => next = size + 1
  /\ phase = "acknowledged" => outbox = << >>

\* The last word published on t is its present result.
LastWord(t) ==
  \E k \in DOMAIN stream :
    /\ stream[k] = [test |-> t, status |-> results[t]]
    /\ \A j \in DOMAIN stream : j > k => stream[j].test # t

\* What an executed test came to is published, or about to be.
NothingForgotten ==
  \A t \in Tests : t < next => LastWord(t) \/ \E k \in DOMAIN outbox : outbox[k] = t

\* How much of the stream each ending leaves.
Received ==
  /\ ending = "VALUE" => phase = "acknowledged"
  /\ ending \in {"VALUE", "CRASH", "INFRA_ERROR"} => received = Len(stream)

\* A report is what the coordinator makes of the ending and of what it received.
ReportedOnce ==
  \/ report = [t \in Tests |-> "none"]
  \/ /\ ending # "none"
     /\ report = [t \in Tests |-> IF t \in Batch THEN ResultOf(t) ELSE "none"]

Inv ==
  /\ TypeOK
  /\ Executed
  /\ Publishable
  /\ InPhase
  /\ NothingForgotten
  /\ Received
  /\ ReportedOnce

-----------------------------------------------------------------------------
(***************************************************************************)
(* Numbers and sequences.                                                  *)
(***************************************************************************)
\* A set of numbers that has an element has a least one.
LEMMA LeastNumber ==
  ASSUME NEW S \in SUBSET Nat, S # {}
  PROVE  \E x \in S : \A y \in S : x <= y
  <1>1. PICK x \in S : \A y \in S : <<y, x>> \notin OpToRel(<, Nat)
    BY NatLessThanWellFounded, WFMin
  <1>2. \A y \in S : ~ (y < x)
    BY <1>1 DEF OpToRel
  <1> QED
    BY <1>2

\* The facts about a test have a last one.
LEMMA LastNumber ==
  ASSUME NEW n \in Nat, NEW S \in SUBSET (1..n), S # {}
  PROVE  \E x \in S : \A y \in S : y <= x
  <1> DEFINE T == {n - x : x \in S}
  <1>1. T \in SUBSET Nat
    OBVIOUS
  <1>5. T # {}
    OBVIOUS
  <1>2. PICK m \in T : \A y \in T : m <= y
    BY <1>1, <1>5, LeastNumber
  <1>3. PICK x \in S : m = n - x
    BY <1>2
  <1>4. ASSUME NEW y \in S PROVE y <= x
    <2>1. n - x <= n - y
      BY <1>2, <1>3
    <2> QED
      BY <2>1
  <1> QED
    BY <1>4

\* A sequence that names all of these tests, and nobody else.
Names(box, owners) ==
  box \in Seq(owners) /\ \A u \in owners : \E k \in DOMAIN box : box[k] = u

\* Whatever the order, every owner is named, and nobody else.
LEMMA OrdersNameTheOwners ==
  ASSUME NEW n \in Nat, NEW owners \in SUBSET (1..n), NEW order \in Orders(owners)
  PROVE  /\ order \in Seq(owners)
         /\ DOMAIN order = 1..Len(order)
         /\ \A t \in owners : \E k \in DOMAIN order : order[k] = t
  <1>1. IsFiniteSet(1..n)
    BY FS_Interval
  <1>2. Cardinality(owners) \in Nat
    BY <1>1, FS_Subset, FS_CardinalityType
  <1>3. order \in [1..Cardinality(owners) -> owners]
    BY DEF Orders
  <1>4. order \in Seq(owners)
    BY <1>2, <1>3
  <1> QED
    BY <1>4 DEF Orders

-----------------------------------------------------------------------------
(***************************************************************************)
(* The worker's own operators.                                             *)
(***************************************************************************)
\* A batch has a test, and next never passes its end by more than one.
LEMMA SizesAreNumbers ==
  ASSUME TypeOK
  PROVE  /\ size \in Nat /\ size >= 1 /\ size <= NumTests /\ NumTests \in Nat
         /\ next \in Nat /\ next >= 1 /\ next <= size + 1
         /\ Batch \in SUBSET Tests /\ 1 \in Batch /\ size \in Batch
  BY ConstantsAssumption DEF TypeOK, Tests, Batch

\* Whatever happens to an attempt, it has a status.
LEMMA AttemptStatusType ==
  ASSUME NEW t, NEW setupFails \in BOOLEAN, NEW teardownFails \in BOOLEAN,
         NEW call \in {"returned", "raised", "timed out"}
  PROVE  AttemptStatus(t, setupFails, call, teardownFails) \in WorkerStatuses
  BY DEF AttemptStatus, CallStatus, WorkerStatuses

\* Closing a scope leaves a status, and none better than a failure.
LEMMA TornDownType ==
  ASSUME NEW status \in WorkerStatuses, NEW fails \in BOOLEAN
  PROVE  /\ TornDown(status, fails) \in WorkerStatuses
         /\ status \in Gating => TornDown(status, fails) \in Gating
  BY DEF TornDown, WorkerStatuses, Gating, TestFailures

\* Closing a scope names users of it or the last test.
LEMMA ScopeClosingsType ==
  ASSUME NEW t, NEW users, NEW closing \in ScopeClosings(t, users)
  PROVE  closing[1] \in SUBSET (users \union {t}) /\ closing[2] \in BOOLEAN
  <1>1. CASE closing = <<{t}, FALSE>>
    BY <1>1
  <1>3. CASE closing = <<{}, FALSE>>
    BY <1>3
  <1>2. CASE \E owners \in (SUBSET users) \ {{}} : closing = <<owners, TRUE>>
    BY <1>2
  <1> QED
    BY <1>1, <1>3, <1>2 DEF ScopeClosings

\* What is published after test t, if its scopes' failures have these owners.
TurnOrders(t, owners) ==
  {IF t \in owners THEN order ELSE <<t>> \o order : order \in Orders(owners)}

\* The test itself is published, and every owner of a failure.
LEMMA TurnNamesTheOwners ==
  ASSUME NEW n \in Nat, NEW t \in 1..n, NEW owners \in SUBSET (1..n),
         NEW box \in TurnOrders(t, owners)
  PROVE  Names(box, owners \union {t})
  <1> DEFINE both == owners \union {t}
  <1>5. PICK order \in Orders(owners) : box = IF t \in owners THEN order ELSE <<t>> \o order
    BY DEF TurnOrders
  <1>1. /\ order \in Seq(owners)
        /\ \A u \in owners : \E k \in DOMAIN order : order[k] = u
    BY OrdersNameTheOwners
  <1>2. order \in Seq(both) /\ t \in both
    BY <1>1, SeqMonotonic
  <1>3. CASE t \in owners
    BY <1>1, <1>2, <1>3, <1>5 DEF Names
  <1>4. CASE t \notin owners
    <2>1. box = <<t>> \o order
      BY <1>4, <1>5
    <2> HIDE DEF both
    <2>2. Len(order) \in Nat /\ DOMAIN order = 1..Len(order)
      BY <1>2
    <2>3. /\ box \in Seq(both) /\ Len(box) = 1 + Len(order)
          /\ box[1] = t
          /\ \A k \in 1..Len(order) : box[k + 1] = order[k]
      BY <1>2, <2>1
    <2>4. DOMAIN box = 1..(1 + Len(order))
      BY <2>3
    <2>5. 1 \in DOMAIN box /\ \A k \in 1..Len(order) : k + 1 \in DOMAIN box
      BY <2>2, <2>4
    <2>6. \A u \in owners : \E k \in DOMAIN box : box[k] = u
      BY <1>1, <2>2, <2>3, <2>5
    <2> QED
      BY <2>3, <2>5, <2>6 DEF both, Names
  <1> QED
    BY <1>3, <1>4

\* The scopes that are closed after a test name tests executed so far.
LEMMA ClosingsAfterTest ==
  ASSUME NEW t \in Nat, t >= 1,
         NEW closing \in (IF LastOfModule(t)
                            THEN ScopeClosings(t, {u \in 1..t : ModuleOf[u] = ModuleOf[t]})
                            ELSE {<<{}, FALSE>>})
  PROVE  closing[1] \in SUBSET (1..t) /\ closing[2] \in BOOLEAN
  <1> DEFINE users == {u \in 1..t : ModuleOf[u] = ModuleOf[t]}
  <1>1. users \subseteq 1..t
    OBVIOUS
  <1> HIDE DEF users
  <1>2. users \union {t} \in SUBSET (1..t)
    BY <1>1
  <1>3. CASE LastOfModule(t)
    <2>1. closing \in ScopeClosings(t, users)
      BY <1>3 DEF users
    <2>2. closing[1] \in SUBSET (users \union {t}) /\ closing[2] \in BOOLEAN
      BY <2>1, ScopeClosingsType
    <2> QED
      BY <1>2, <2>2
  <1>4. CASE ~LastOfModule(t)
    <2>1. closing = <<{}, FALSE>>
      BY <1>4
    <2>2. closing[1] = {} /\ closing[2] = FALSE
      BY <2>1
    <2> QED
      BY <2>2
  <1> QED
    BY <1>3, <1>4

\* What a turn of the loop does to the results and what it will publish.
LEMMA ExecuteTestFacts ==
  ASSUME TypeOK, ExecuteTest
  PROVE  /\ next \in Batch
         /\ \E owners \in SUBSET (1..next), fails \in BOOLEAN, status \in WorkerStatuses :
              /\ results' = CloseScope([results EXCEPT ![next] = status], owners, fails)
              /\ Names(outbox', owners \union {next})
  <1>1. next \in Batch /\ next \in Nat /\ next >= 1
    <2>1. next <= size
      BY DEF ExecuteTest
    <2> QED
      BY <2>1, SizesAreNumbers DEF Batch
  <1>2. PICK owners \in SUBSET (1..next), fails \in BOOLEAN, status \in WorkerStatuses :
          /\ results' = CloseScope([results EXCEPT ![next] = status], owners, fails)
          /\ outbox' \in TurnOrders(next, owners)
    <2>1. PICK setupFails \in BOOLEAN, teardownFails \in BOOLEAN,
               call \in {"returned", "raised", "timed out"},
               closing \in (IF LastOfModule(next)
                              THEN ScopeClosings(next,
                                     {u \in 1..next : ModuleOf[u] = ModuleOf[next]})
                              ELSE {<<{}, FALSE>>}) :
            /\ results' = CloseScope([results EXCEPT ![next] =
                                        AttemptStatus(next, setupFails, call, teardownFails)],
                                     closing[1], closing[2])
            /\ \E order \in Orders(closing[1]) :
                 outbox' = IF next \in closing[1] THEN order ELSE <<next>> \o order
      BY DEF ExecuteTest
    <2>2. closing[1] \in SUBSET (1..next) /\ closing[2] \in BOOLEAN
      BY <1>1, ClosingsAfterTest
    <2>3. AttemptStatus(next, setupFails, call, teardownFails) \in WorkerStatuses
      BY AttemptStatusType
    <2>4. outbox' \in TurnOrders(next, closing[1])
      BY <2>1 DEF TurnOrders
    <2> QED
      BY <2>1, <2>2, <2>3, <2>4
  <1>5. next \in 1..next
    BY <1>1
  <1>4. Names(outbox', owners \union {next})
    BY <1>1, <1>2, <1>5, TurnNamesTheOwners
  <1> QED
    BY <1>1, <1>2, <1>4

\* What closing the session does to the results and what it will publish.
LEMMA CloseSessionFacts ==
  ASSUME TypeOK, CloseSession
  PROVE  /\ next = size + 1
         /\ \E owners \in SUBSET Batch, fails \in BOOLEAN :
              /\ results' = CloseScope(results, owners, fails)
              /\ Names(outbox', owners)
  <1>1. next = size + 1 /\ size \in Nat /\ size \in Batch
    <2>1. next > size
      BY DEF CloseSession
    <2> QED
      BY <2>1, SizesAreNumbers DEF Batch
  <1>2. PICK closing \in ScopeClosings(size, Batch) :
          /\ results' = CloseScope(results, closing[1], closing[2])
          /\ outbox' \in Orders(closing[1])
    BY DEF CloseSession, Republished
  <1>3. closing[1] \in SUBSET Batch /\ closing[2] \in BOOLEAN
    BY <1>1, ScopeClosingsType
  <1>4. Names(outbox', closing[1])
    BY <1>1, <1>2, <1>3, OrdersNameTheOwners DEF Batch, Names
  <1> QED
    BY <1>1, <1>2, <1>3, <1>4

\* What a closing may do to the results: revise those of the owners, for the worse.
Revised(before, owners, after) ==
  /\ after \in [Tests -> WorkerStatuses \union {"none"}]
  /\ \A u \in Tests :
       /\ after[u] # "none" <=> before[u] # "none"
       /\ u \notin owners => after[u] = before[u]
       /\ before[u] \in Gating => after[u] \in Gating

\* Closing a scope touches its owners and nobody else, and forgives nothing.
LEMMA CloseScopeFacts ==
  ASSUME NEW memory \in [Tests -> WorkerStatuses \union {"none"}],
         NEW owners \in SUBSET Tests, \A u \in owners : memory[u] # "none",
         NEW fails \in BOOLEAN
  PROVE  Revised(memory, owners, CloseScope(memory, owners, fails))
  <1> DEFINE closed == CloseScope(memory, owners, fails)
  <1>1. ASSUME NEW u \in owners
        PROVE  memory[u] \in WorkerStatuses
    BY <1>1
  <1>2. ASSUME NEW u \in Tests
        PROVE  /\ closed[u] \in WorkerStatuses \union {"none"}
               /\ closed[u] # "none" <=> memory[u] # "none"
               /\ u \notin owners => closed[u] = memory[u]
               /\ memory[u] \in Gating => closed[u] \in Gating
    <2>1. CASE u \in owners
      <3>1. closed[u] = TornDown(memory[u], fails)
        BY <2>1 DEF CloseScope
      <3>2. "none" \notin WorkerStatuses
        BY DEF WorkerStatuses
      <3> QED
        BY <1>1, <2>1, <3>1, <3>2, TornDownType
    <2>2. CASE u \notin owners
      BY <2>2 DEF CloseScope
    <2> QED
      BY <2>1, <2>2
  <1>3. closed \in [Tests -> WorkerStatuses \union {"none"}]
    BY <1>2 DEF CloseScope
  <1> QED
    BY <1>2, <1>3 DEF Revised

-----------------------------------------------------------------------------
(***************************************************************************)
(* The coordinator's operators.                                            *)
(***************************************************************************)
\* by_id holds the last fact about a test that arrived.
LEMMA StreamedStatusIsLast ==
  ASSUME TypeOK, NEW t \in Streamed
  PROVE  \E k \in 1..received :
           /\ k \in DOMAIN stream /\ stream[k].test = t
           /\ StreamedStatus(t) = stream[k].status
           /\ \A j \in 1..received : stream[j].test = t => j <= k
  <1>1. FactsOf(t) \in SUBSET (1..received) /\ FactsOf(t) # {} /\ received \in Nat
    BY DEF Streamed, FactsOf, TypeOK
  <1>2. \E k \in FactsOf(t) : \A j \in FactsOf(t) : j <= k
    BY <1>1, LastNumber
  <1> DEFINE last == CHOOSE k \in FactsOf(t) : \A j \in FactsOf(t) : j <= k
  <1>3. last \in FactsOf(t) /\ \A j \in FactsOf(t) : j <= last
    BY <1>2
  <1>4. StreamedStatus(t) = stream[last].status
    BY DEF StreamedStatus
  <1>5. 1..received \subseteq DOMAIN stream
    BY DEF TypeOK
  <1> HIDE DEF last
  <1> QED
    BY <1>3, <1>4, <1>5 DEF FactsOf

\* What arrived of a test is a status.
LEMMA StreamedStatusType ==
  ASSUME TypeOK, NEW t \in Streamed
  PROVE  StreamedStatus(t) \in WorkerStatuses
  <1>1. PICK k \in 1..received :
          k \in DOMAIN stream /\ StreamedStatus(t) = stream[k].status
    BY StreamedStatusIsLast
  <1>2. stream[k] \in [test : Batch, status : WorkerStatuses]
    <2> DEFINE Fact == [test : Batch, status : WorkerStatuses]
    <2>1. stream \in Seq(Fact)
      BY DEF TypeOK
    <2> HIDE DEF Fact
    <2>2. stream[k] \in Fact
      BY <1>1, <2>1
    <2> QED
      BY <2>2 DEF Fact
  <1> QED
    BY <1>1, <1>2

\* A report has a status for every test of the batch.
LEMMA ResultOfType ==
  ASSUME TypeOK, ending # "none", NEW t \in Batch
  PROVE  ResultOf(t) \in Statuses
  <1>1. WorkerStatuses \subseteq Statuses
    BY DEF WorkerStatuses, Statuses
  <1>2. t \in Streamed => StreamedStatus(t) \in Statuses
    BY <1>1, StreamedStatusType
  <1>3. FailureStatus \in Statuses
    BY DEF FailureStatus, TypeOK, Endings, Statuses
  <1>4. {"TIMEOUT", "ERROR_TEARDOWN"} \subseteq Statuses
    BY DEF Statuses
  <1> QED
    BY <1>2, <1>3, <1>4 DEF ResultOf

\* A report does not depend on what the worker still remembers.
LEMMA ResultOfUnchanged ==
  ASSUME UNCHANGED <<size, stream, received, ending>>, NEW t
  PROVE  ResultOf(t)' = ResultOf(t)
  BY DEF ResultOf, UnacknowledgedOwner, Streamed, StreamedStatus, FactsOf,
         FailureStatus, Batch

-----------------------------------------------------------------------------
(***************************************************************************)
(* The steps of the worker.                                                *)
(***************************************************************************)
\* A step of the worker leaves the coordinator's side alone.
LEMMA NothingReported ==
  ASSUME Inv, ending = "none", UNCHANGED <<ending, report>>
  PROVE  ReportedOnce' /\ report = [t \in Tests |-> "none"]
  BY DEF Inv, ReportedOnce

\* What was published and not revised still stands.
LEMMA LastWordStands ==
  ASSUME NEW t, LastWord(t), UNCHANGED stream, results'[t] = results[t]
  PROVE  LastWord(t)'
  BY DEF LastWord

\* The turn of a test: its result is new, some earlier ones are revised, and all
\* of these are about to be published.
LEMMA ExecuteTestPreserves ==
  ASSUME Inv, ExecuteTest
  PROVE  Inv'
  <1>1. /\ next \in Nat /\ next >= 1 /\ next <= size /\ size \in Nat
        /\ Batch \in SUBSET Tests /\ Batch = 1..size /\ 1..next \subseteq Batch
        /\ TypeOK /\ Executed /\ Publishable /\ InPhase /\ NothingForgotten /\ Received
    <2>1. next <= size
      BY DEF ExecuteTest
    <2> QED
      BY <2>1, SizesAreNumbers DEF Inv, Batch
  <1>2. /\ phase = "testing" /\ ending = "none" /\ outbox = << >> /\ next' = next + 1
        /\ UNCHANGED <<size, phase, stream, received, ending, report>>
    BY DEF ExecuteTest, Working
  <1>3. PICK owners \in SUBSET (1..next), fails \in BOOLEAN, status \in WorkerStatuses :
          /\ results' = CloseScope([results EXCEPT ![next] = status], owners, fails)
          /\ Names(outbox', owners \union {next})
    BY <1>1, ExecuteTestFacts
  <1> DEFINE memory == [results EXCEPT ![next] = status]
  <1>4. /\ memory \in [Tests -> WorkerStatuses \union {"none"}]
        /\ memory[next] = status /\ status # "none"
        /\ \A u \in Tests \ {next} : memory[u] = results[u]
    <2>1. "none" \notin WorkerStatuses
      BY DEF WorkerStatuses
    <2>2. results \in [Tests -> WorkerStatuses \union {"none"}] /\ next \in Tests
      BY <1>1 DEF TypeOK
    <2> QED
      BY <2>1, <2>2
  <1>5. \A u \in Tests : memory[u] # "none" <=> u < next + 1
    <2>1. \A u \in Tests : u \in Nat
      BY DEF Tests
    <2> QED
      BY <1>1, <1>4, <2>1 DEF Executed
  <1>6. /\ owners \in SUBSET Tests /\ owners \union {next} \in SUBSET Batch
        /\ \A u \in owners : memory[u] # "none"
    BY <1>1, <1>5
  <1>7. Revised(memory, owners, results')
    <2> HIDE DEF memory
    <2> QED
      BY <1>3, <1>4, <1>6, CloseScopeFacts DEF memory
  <1> HIDE DEF memory
  <1>8. outbox' \in Seq(owners \union {next}) /\ outbox' \in Seq(Batch)
    BY <1>3, <1>6, SeqMonotonic DEF Names
  <1>9. TypeOK'
    BY <1>1, <1>2, <1>7, <1>8 DEF TypeOK, Batch, Revised
  <1>10. Executed'
    BY <1>2, <1>5, <1>7 DEF Executed, Revised
  <1>11. Publishable'
    <2>1. \A k \in DOMAIN outbox' : outbox'[k] \in owners \union {next}
      BY <1>8
    <2>2. \A u \in owners \union {next} : u < next + 1
      BY <1>1
    <2> QED
      BY <1>2, <2>1, <2>2 DEF Publishable
  <1>12. NothingForgotten'
    <2> SUFFICES ASSUME NEW t \in Tests, t < next + 1,
                        ~ \E k \in DOMAIN outbox' : outbox'[k] = t
                 PROVE  LastWord(t)'
      BY <1>2 DEF NothingForgotten
    <2>1. t \notin owners /\ t # next
      BY <1>3 DEF Names
    <2>2. results'[t] = results[t]
      BY <1>4, <1>7, <2>1 DEF Revised
    <2>3. t < next
      BY <1>1, <2>1 DEF Tests
    <2>4. LastWord(t)
      BY <1>1, <1>2, <2>3 DEF NothingForgotten
    <2> QED
      BY <1>2, <2>2, <2>4, LastWordStands
  <1>13. InPhase' /\ Received'
    BY <1>1, <1>2 DEF InPhase, Received
  <1>14. ReportedOnce'
    BY <1>2, NothingReported
  <1> QED
    BY <1>9, <1>10, <1>11, <1>12, <1>13, <1>14 DEF Inv

\* The end of the session: results of any test are revised, and all of these are
\* about to be published.
LEMMA CloseSessionPreserves ==
  ASSUME Inv, CloseSession
  PROVE  Inv'
  <1>1. /\ next = size + 1 /\ size \in Nat /\ next \in Nat
        /\ Batch \in SUBSET Tests /\ Batch = 1..size
        /\ TypeOK /\ Executed /\ Publishable /\ InPhase /\ NothingForgotten /\ Received
    BY SizesAreNumbers, CloseSessionFacts DEF Inv, Batch
  <1>2. /\ phase = "testing" /\ ending = "none" /\ outbox = << >> /\ phase' = "closing"
        /\ UNCHANGED <<size, next, stream, received, ending, report>>
    BY DEF CloseSession, Working
  <1>3. PICK owners \in SUBSET Batch, fails \in BOOLEAN :
          results' = CloseScope(results, owners, fails) /\ Names(outbox', owners)
    BY <1>1, CloseSessionFacts
  <1>4. owners \in SUBSET Tests /\ \A u \in owners : results[u] # "none"
    BY <1>1 DEF Executed
  <1>5. results \in [Tests -> WorkerStatuses \union {"none"}]
    BY <1>1 DEF TypeOK
  <1>6. Revised(results, owners, results')
    BY <1>3, <1>4, <1>5, CloseScopeFacts
  <1>7. outbox' \in Seq(owners) /\ outbox' \in Seq(Batch)
    BY <1>3, SeqMonotonic DEF Names
  <1>8. TypeOK'
    BY <1>1, <1>2, <1>6, <1>7 DEF TypeOK, Batch, Revised
  <1>9. Executed'
    BY <1>1, <1>2, <1>6 DEF Executed, Revised
  <1>10. Publishable'
    <2>1. \A k \in DOMAIN outbox' : outbox'[k] \in owners
      BY <1>7
    <2>2. \A u \in owners : u < next
      BY <1>1
    <2> QED
      BY <1>2, <2>1, <2>2 DEF Publishable
  <1>11. NothingForgotten'
    <2> SUFFICES ASSUME NEW t \in Tests, t < next,
                        ~ \E k \in DOMAIN outbox' : outbox'[k] = t
                 PROVE  LastWord(t)'
      BY <1>2 DEF NothingForgotten
    <2>1. t \notin owners
      BY <1>3 DEF Names
    <2>2. results'[t] = results[t]
      BY <1>6, <2>1 DEF Revised
    <2>3. LastWord(t)
      BY <1>1, <1>2 DEF NothingForgotten
    <2> QED
      BY <1>2, <2>2, <2>3, LastWordStands
  <1>12. InPhase' /\ Received'
    BY <1>1, <1>2 DEF InPhase, Received
  <1>13. ReportedOnce'
    BY <1>2, NothingReported
  <1> QED
    BY <1>8, <1>9, <1>10, <1>11, <1>12, <1>13 DEF Inv

\* The callback: the first of the tests to publish gets a new last word.
LEMMA PublishPreserves ==
  ASSUME Inv, Publish
  PROVE  Inv'
  <1> DEFINE h == Head(outbox)
             Fact == [test : Batch, status : WorkerStatuses]
             fact == [test |-> h, status |-> results[h]]
  <1>1. /\ next \in Nat /\ size \in Nat /\ Batch \in SUBSET Tests
        /\ TypeOK /\ Executed /\ Publishable /\ InPhase /\ NothingForgotten /\ Received
    BY SizesAreNumbers DEF Inv
  <1>2. /\ phase \in {"importing", "testing", "closing"} /\ ending = "none"
        /\ outbox # << >> /\ outbox' = Tail(outbox) /\ stream' = Append(stream, fact)
        /\ UNCHANGED <<size, phase, next, results, received, ending, report>>
    BY DEF Publish, Working
  <1>3. /\ outbox \in Seq(Batch) /\ stream \in Seq(Fact) /\ received \in 0..Len(stream)
        /\ results \in [Tests -> WorkerStatuses \union {"none"}]
    BY <1>1 DEF TypeOK
  <1>4. /\ h \in Batch /\ 1 \in DOMAIN outbox /\ h = outbox[1]
        /\ outbox' \in Seq(Batch)
        /\ \A k \in DOMAIN outbox' : k + 1 \in DOMAIN outbox /\ outbox'[k] = outbox[k + 1]
        /\ \A k \in DOMAIN outbox : k # 1 => k - 1 \in DOMAIN outbox' /\ outbox'[k - 1] = outbox[k]
    BY <1>2, <1>3
  <1>5. h < next /\ results[h] \in WorkerStatuses
    <2>1. h < next
      BY <1>1, <1>4 DEF Publishable
    <2> QED
      BY <1>1, <1>3, <1>4, <2>1 DEF Executed
  <1>6. fact \in Fact
    BY <1>4, <1>5
  <1> HIDE DEF Fact
  <1>7. /\ stream' \in Seq(Fact) /\ Len(stream') = Len(stream) + 1 /\ Len(stream) \in Nat
        /\ DOMAIN stream = 1..Len(stream) /\ DOMAIN stream' = 1..(Len(stream) + 1)
        /\ \A k \in 1..Len(stream) : stream'[k] = stream[k]
        /\ stream'[Len(stream) + 1] = fact
    BY <1>2, <1>3, <1>6
  <1> HIDE DEF h
  <1>8. TypeOK'
    <2>1. received \in 0..Len(stream')
      BY <1>3, <1>7
    <2> QED
      BY <1>1, <1>2, <1>4, <1>7, <2>1 DEF TypeOK, Batch, Fact
  <1>9. Executed' /\ InPhase' /\ Received'
    BY <1>1, <1>2 DEF Executed, InPhase, Received
  <1>10. Publishable'
    BY <1>1, <1>2, <1>4 DEF Publishable
  <1>11. NothingForgotten'
    <2> SUFFICES ASSUME NEW t \in Tests, t < next,
                        ~ \E k \in DOMAIN outbox' : outbox'[k] = t
                 PROVE  LastWord(t)'
      BY <1>2 DEF NothingForgotten
    <2>1. CASE t = h
      <3>1. \A j \in DOMAIN stream' : ~ (j > Len(stream) + 1)
        BY <1>7
      <3>2. Len(stream) + 1 \in DOMAIN stream'
        BY <1>7
      <3>3. stream'[Len(stream) + 1] = [test |-> t, status |-> results'[t]]
        BY <1>2, <1>7, <2>1
      <3> QED
        BY <3>1, <3>2, <3>3 DEF LastWord
    <2>2. CASE t # h
      <3>1. \A k \in DOMAIN outbox : outbox[k] # t
        BY <1>4, <2>2
      <3>2. LastWord(t)
        BY <1>1, <3>1 DEF NothingForgotten
      <3>3. PICK k \in DOMAIN stream :
              /\ stream[k] = [test |-> t, status |-> results[t]]
              /\ \A j \in DOMAIN stream : j > k => stream[j].test # t
        BY <3>2 DEF LastWord
      <3>4. k \in DOMAIN stream' /\ stream'[k] = [test |-> t, status |-> results'[t]]
        BY <1>2, <1>7, <3>3
      <3>5. ASSUME NEW j \in DOMAIN stream', j > k PROVE stream'[j].test # t
        <4>1. CASE j = Len(stream) + 1
          BY <1>7, <2>2, <4>1
        <4>2. CASE j # Len(stream) + 1
          BY <1>7, <3>3, <3>5, <4>2
        <4> QED
          BY <4>1, <4>2
      <3> QED
        BY <3>4, <3>5 DEF LastWord
    <2> QED
      BY <2>1, <2>2
  <1>12. ReportedOnce'
    BY <1>2, NothingReported
  <1> QED
    BY <1>8, <1>9, <1>10, <1>11, <1>12 DEF Inv

-----------------------------------------------------------------------------
(***************************************************************************)
(* The other steps, and the invariant.                                     *)
(***************************************************************************)
\* A step that touches neither results nor stream keeps every last word.
LEMMA NothingForgottenStands ==
  ASSUME NothingForgotten, UNCHANGED <<next, results, outbox, stream>>
  PROVE  NothingForgotten'
  BY DEF NothingForgotten, LastWord

LEMMA InitEstablishesInv == Init => Inv
  <1> SUFFICES ASSUME Init PROVE Inv
    OBVIOUS
  <1>1. size \in Nat /\ size >= 1
    BY ConstantsAssumption DEF Init, Tests
  <1>2. TypeOK
    BY <1>1, ConstantsAssumption DEF Init, TypeOK
  <1>3. Executed
    BY ConstantsAssumption DEF Init, Executed, Tests
  <1>4. NothingForgotten
    BY ConstantsAssumption DEF Init, NothingForgotten, Tests
  <1>5. Publishable /\ InPhase /\ Received /\ ReportedOnce
    BY DEF Init, Publishable, InPhase, Received, ReportedOnce
  <1> QED
    BY <1>2, <1>3, <1>4, <1>5 DEF Inv

LEMMA NextPreservesInv == Inv /\ [Next]_vars => Inv'
  <1> SUFFICES ASSUME Inv, [Next]_vars PROVE Inv'
    OBVIOUS
  <1>1. /\ TypeOK /\ Executed /\ Publishable /\ InPhase /\ NothingForgotten
        /\ Received /\ ReportedOnce
    BY DEF Inv
  <1>2. Len(stream) \in Nat /\ received \in 0..Len(stream)
    BY <1>1 DEF TypeOK
  <1>3. CASE Import
    <2>1. /\ phase = "importing" /\ phase' = "testing" /\ ending = "none"
          /\ UNCHANGED <<size, next, results, outbox, stream, received, ending, report>>
      BY <1>3 DEF Import, Working
    <2>2. TypeOK' /\ Executed' /\ Publishable' /\ InPhase' /\ Received'
      BY <1>1, <2>1 DEF TypeOK, Executed, Publishable, InPhase, Received, Batch
    <2>3. NothingForgotten' /\ ReportedOnce'
      BY <1>1, <2>1, NothingForgottenStands, NothingReported
    <2> QED
      BY <2>2, <2>3 DEF Inv
  <1>4. CASE ExecuteTest
    BY <1>4, ExecuteTestPreserves
  <1>5. CASE Publish
    BY <1>5, PublishPreserves
  <1>6. CASE CloseSession
    BY <1>6, CloseSessionPreserves
  <1>7. CASE Acknowledge
    <2>1. /\ phase = "closing" /\ phase' = "acknowledged" /\ ending = "none" /\ outbox = << >>
          /\ UNCHANGED <<size, next, results, outbox, stream, received, ending, report>>
      BY <1>7 DEF Acknowledge, Working
    <2>2. TypeOK' /\ Executed' /\ Publishable' /\ InPhase' /\ Received'
      BY <1>1, <2>1 DEF TypeOK, Executed, Publishable, InPhase, Received, Batch
    <2>3. NothingForgotten' /\ ReportedOnce'
      BY <1>1, <2>1, NothingForgottenStands, NothingReported
    <2> QED
      BY <2>2, <2>3 DEF Inv
  <1>8. CASE Accept \/ Lose \/ StopReading
    <2>1. /\ ending = "none" /\ ending' \in Endings
          /\ UNCHANGED <<size, phase, next, results, outbox, stream, report>>
      BY <1>8 DEF Accept, Lose, StopReading, Working, Endings
    <2>2. /\ received' \in 0..Len(stream)
          /\ ending' = "VALUE" => phase = "acknowledged"
          /\ ending' \in {"VALUE", "CRASH", "INFRA_ERROR"} => received' = Len(stream)
      BY <1>2, <1>8 DEF Accept, Lose, StopReading
    <2>3. TypeOK' /\ Executed' /\ Publishable' /\ InPhase' /\ Received'
      BY <1>1, <2>1, <2>2 DEF TypeOK, Executed, Publishable, InPhase, Received, Batch
    <2>4. NothingForgotten'
      BY <1>1, <2>1, NothingForgottenStands
    <2>5. ReportedOnce'
      BY <1>1, <2>1 DEF ReportedOnce
    <2> QED
      BY <2>3, <2>4, <2>5 DEF Inv
  <1>9. CASE Report
    <2>1. /\ ending # "none"
          /\ report' = [t \in Tests |-> IF t \in Batch THEN ResultOf(t) ELSE "none"]
          /\ UNCHANGED <<size, phase, next, results, outbox, stream, received, ending>>
      BY <1>9 DEF Report
    <2>2. report' \in [Tests -> Statuses \union {"none"}]
      BY <1>1, <2>1, ResultOfType
    <2>3. TypeOK' /\ Executed' /\ Publishable' /\ InPhase' /\ Received'
      BY <1>1, <2>1, <2>2 DEF TypeOK, Executed, Publishable, InPhase, Received, Batch
    <2>4. NothingForgotten'
      BY <1>1, <2>1, NothingForgottenStands
    <2>5. ReportedOnce'
      BY <2>1, ResultOfUnchanged DEF ReportedOnce, Batch
    <2> QED
      BY <2>3, <2>4, <2>5 DEF Inv
  <1>10. CASE Done \/ UNCHANGED vars
    <2>1. UNCHANGED vars
      BY <1>10 DEF Done
    <2>2. TypeOK' /\ Executed' /\ Publishable' /\ InPhase' /\ Received'
      BY <1>1, <2>1 DEF TypeOK, Executed, Publishable, InPhase, Received, Batch, vars
    <2>3. NothingForgotten'
      BY <1>1, <2>1, NothingForgottenStands DEF vars
    <2>4. ReportedOnce'
      BY <1>1, <2>1, ResultOfUnchanged DEF ReportedOnce, Batch, vars
    <2> QED
      BY <2>2, <2>3, <2>4 DEF Inv
  <1> QED
    BY <1>3, <1>4, <1>5, <1>6, <1>7, <1>8, <1>9, <1>10 DEF Next

THEOREM Invariance == Spec => []Inv
  BY InitEstablishesInv, NextPreservesInv, PTL DEF Spec

-----------------------------------------------------------------------------
(***************************************************************************)
(* The theorems.                                                           *)
(***************************************************************************)
\* Every variable keeps its type: what is published is a status of a test of this
\* batch, and the coordinator never reports on another.
THEOREM TypeCorrect == Spec => []TypeOK
  <1>1. Inv => TypeOK
    BY DEF Inv
  <1> QED
    BY <1>1, Invariance, PTL

\* When there is a report, it is the coordinator's result of every test.
LEMMA ReportedResults ==
  ASSUME Inv, Reported
  PROVE  /\ TypeOK /\ ending # "none" /\ ending \in Endings
         /\ size \in Batch /\ Batch \in SUBSET Tests
         /\ \A t \in Batch : report[t] = ResultOf(t)
  <1>1. /\ TypeOK /\ ReportedOnce
        /\ size \in Batch /\ Batch \in SUBSET Tests /\ 1 \in Batch
    BY SizesAreNumbers DEF Inv
  <1>2. report # [t \in Tests |-> "none"]
    BY <1>1 DEF Reported
  <1>3. /\ ending # "none"
        /\ report = [t \in Tests |-> IF t \in Batch THEN ResultOf(t) ELSE "none"]
    BY <1>1, <1>2 DEF ReportedOnce
  <1> QED
    BY <1>1, <1>3 DEF TypeOK

\* A batch that was not acknowledged never reports only success: either some test
\* has no result and gets the ending's, or the last one answers for it.
THEOREM LostIsNeverGreen == Spec => []LostBatchIsNeverGreen
  <1>1. ASSUME Inv PROVE LostBatchIsNeverGreen
    <2> SUFFICES ASSUME Reported, ending # "VALUE"
                 PROVE  \E t \in Batch : report[t] \in Gating
      BY DEF LostBatchIsNeverGreen
    <2>1. /\ ending \in Endings \ {"VALUE"} /\ size \in Batch
          /\ \A t \in Batch : report[t] = ResultOf(t)
      BY <1>1, ReportedResults
    <2>2. CASE Streamed = Batch
      <3>1. ResultOf(size) \in {"TIMEOUT", "ERROR_TEARDOWN"}
        BY <2>2 DEF ResultOf, UnacknowledgedOwner
      <3> QED
        BY <2>1, <3>1 DEF Gating, TestFailures
    <2>3. CASE Streamed # Batch
      <3>1. PICK t \in Batch : t \notin Streamed
        BY <2>3 DEF Streamed
      <3>2. ResultOf(t) = ending
        BY <2>3, <3>1 DEF ResultOf, UnacknowledgedOwner, FailureStatus
      <3> QED
        BY <2>1, <3>1, <3>2 DEF Endings, Gating, TestFailures
    <2> QED
      BY <2>2, <2>3
  <1> QED
    BY <1>1, Invariance, PTL

\* An acknowledged batch reports exactly the worker's own last word on every test,
\* whatever finalizers failed after the test was published first.
THEOREM AcknowledgedIsFinal == Spec => []AcknowledgedReportIsFinal
  <1>1. ASSUME Inv PROVE AcknowledgedReportIsFinal
    <2> SUFFICES ASSUME Reported, ending = "VALUE", NEW t \in Batch
                 PROVE  report[t] = results[t]
      BY DEF AcknowledgedReportIsFinal
    <2>1. report[t] = ResultOf(t) /\ TypeOK /\ t \in Tests
      BY <1>1, ReportedResults
    <2>2. received = Len(stream) /\ DOMAIN stream = 1..received /\ received \in Nat
      BY <1>1 DEF Inv, Received, TypeOK
    <2>3. LastWord(t)
      <3>1. outbox = << >> /\ next = size + 1
        BY <1>1 DEF Inv, Received, InPhase
      <3>2. t < next
        BY <2>1, <3>1, SizesAreNumbers DEF Batch
      <3> QED
        BY <1>1, <2>1, <3>1, <3>2 DEF Inv, NothingForgotten
    <2>4. PICK k \in 1..received :
            /\ stream[k].test = t /\ stream[k].status = results[t]
            /\ \A j \in 1..received : j > k => stream[j].test # t
      BY <2>2, <2>3 DEF LastWord
    <2>5. t \in Streamed
      BY <2>4 DEF Streamed, FactsOf
    <2>6. PICK j \in 1..received :
            /\ stream[j].test = t /\ StreamedStatus(t) = stream[j].status
            /\ \A i \in 1..received : stream[i].test = t => i <= j
      BY <2>1, <2>5, StreamedStatusIsLast
    <2>7. j = k
      BY <2>2, <2>4, <2>6
    <2>8. ResultOf(t) = StreamedStatus(t)
      BY <2>5 DEF ResultOf, UnacknowledgedOwner
    <2> QED
      BY <2>1, <2>4, <2>6, <2>7, <2>8
  <1> QED
    BY <1>1, Invariance, PTL

\* A worker that is lost takes nothing back that it had published.
THEOREM PublishedSurvives == Spec => []PublishedResultsSurvive
  <1>1. ASSUME Inv PROVE PublishedResultsSurvive
    <2> SUFFICES ASSUME Reported, ending \in {"CRASH", "INFRA_ERROR"}, NEW t \in Batch,
                        NEW k \in DOMAIN stream, stream[k].test = t
                 PROVE  \/ report[t] = StreamedStatus(t)
                        \/ t = size /\ report[t] = "ERROR_TEARDOWN"
      BY DEF PublishedResultsSurvive
    <2>1. report[t] = ResultOf(t) /\ TypeOK
      BY <1>1, ReportedResults
    <2>2. k \in 1..received
      BY <1>1 DEF Inv, Received, TypeOK
    <2>3. t \in Streamed
      BY <2>2 DEF Streamed, FactsOf
    <2> QED
      BY <2>1, <2>3 DEF ResultOf, UnacknowledgedOwner
  <1> QED
    BY <1>1, Invariance, PTL

\* No step makes an outcome better: a test is executed once, and closing a scope
\* revises outcomes for the worse only.
THEOREM NotRevised == Spec => FailuresAreNotRevised
  <1> DEFINE Step == \A t \in Tests : results[t] \in Gating => results'[t] \in Gating
  <1>1. ASSUME Inv, Next PROVE Step
    <2>1. CASE ExecuteTest
      <3>1. /\ TypeOK /\ Executed /\ next \in Batch /\ next \in Nat
            /\ Batch \in SUBSET Tests /\ 1..next \subseteq Batch
        BY <1>1, <2>1, SizesAreNumbers, ExecuteTestFacts DEF Inv, Batch
      <3>2. PICK owners \in SUBSET (1..next), fails \in BOOLEAN, status \in WorkerStatuses :
              results' = CloseScope([results EXCEPT ![next] = status], owners, fails)
        BY <2>1, <3>1, ExecuteTestFacts
      <3> DEFINE memory == [results EXCEPT ![next] = status]
      <3>3. /\ memory \in [Tests -> WorkerStatuses \union {"none"}]
            /\ memory[next] # "none"
            /\ \A u \in Tests \ {next} : memory[u] = results[u]
        BY <3>1 DEF TypeOK, WorkerStatuses
      <3>4. results[next] = "none"
        BY <3>1 DEF Executed
      <3>5. owners \in SUBSET Tests /\ \A u \in owners : memory[u] # "none"
        BY <3>1, <3>3 DEF Executed
      <3> HIDE DEF memory
      <3>6. Revised(memory, owners, results')
        BY <3>2, <3>3, <3>5, CloseScopeFacts DEF memory
      <3>7. "none" \notin Gating
        BY DEF Gating, TestFailures
      <3> QED
        BY <3>3, <3>4, <3>6, <3>7 DEF Revised
    <2>2. CASE CloseSession
      <3>1. TypeOK /\ Executed /\ Batch \in SUBSET Tests /\ next = size + 1
        BY <1>1, <2>2, SizesAreNumbers, CloseSessionFacts DEF Inv
      <3>2. PICK owners \in SUBSET Batch, fails \in BOOLEAN :
              results' = CloseScope(results, owners, fails)
        BY <2>2, <3>1, CloseSessionFacts
      <3>3. owners \in SUBSET Tests /\ \A u \in owners : results[u] # "none"
        BY <3>1, SizesAreNumbers DEF Executed, Batch
      <3>4. Revised(results, owners, results')
        BY <3>1, <3>2, <3>3, CloseScopeFacts DEF TypeOK
      <3> QED
        BY <3>4 DEF Revised
    <2>3. CASE \/ Import \/ Publish \/ Acknowledge \/ Accept \/ Lose \/ StopReading
               \/ Report \/ Done
      BY <2>3 DEF Import, Publish, Acknowledge, Accept, Lose, StopReading, Report, Done, vars
    <2> QED
      BY <1>1, <2>1, <2>2, <2>3 DEF Next
  <1>2. ASSUME Inv, [Next]_vars PROVE [Step]_vars
    BY <1>1, <1>2
  <1> QED
    BY <1>2, Invariance, PTL DEF Spec, FailuresAreNotRevised
=============================================================================
