--------------------------- MODULE FixtureRuntime ---------------------------
(***************************************************************************)
(* FixtureRuntime of src/testenix/fixtures.py, driven by one batch of      *)
(* execute_tests_async (executor.py): fixtures are resolved depth first,   *)
(* cached in the context of their scope, and finalized in reverse when the *)
(* test, its module or the session ends.                                   *)
(*                                                                         *)
(* The recursion of _resolve is the stack of frames, each of which holds   *)
(* what a fixture (or, at the bottom, the test) has still to be given.     *)
(***************************************************************************)
EXTENDS Naturals, SequencesExt

CONSTANTS
  Fixtures,  \* the definitions of the registry
  Scope,     \* the scope of each fixture
  Needs,     \* the parameters of each fixture, in order
  Yields,    \* the fixtures that have a finalizer
  NumTests,  \* the tests of the batch are 1..NumTests
  ModuleOf,  \* the module of each test
  Wants,     \* the autouse fixtures and the parameters of each test, in order
  Skipped,   \* tests that are skipped
  Test       \* what stands for the test itself at the bottom of the stack

Tests    == 1..NumTests
Modules  == {ModuleOf[t] : t \in Tests}
Contexts == Modules \union {"test", "session"}
ScopeRank == [test |-> 0, module |-> 1, session |-> 2]

\* "absent" is a parameter for which there is no fixture, or no usable one.
Parameters == Fixtures \union {"absent"}

ASSUME ConstantsAssumption ==
  /\ {Test, "absent"} \intersect Fixtures = {}
  /\ Scope \in [Fixtures -> DOMAIN ScopeRank]
  /\ DOMAIN Needs = Fixtures
  /\ \A f \in Fixtures : Needs[f] \in Seq(Parameters)
  /\ Yields \subseteq Fixtures
  /\ NumTests \in Nat \ {0}
  /\ DOMAIN ModuleOf = Tests /\ {"test", "session", "nothing"} \intersect Modules = {}
  /\ DOMAIN Wants = Tests /\ \A t \in Tests : Wants[t] \in Seq(Parameters)
  /\ Skipped \subseteq Tests

VARIABLES
  current,       \* the last test begun
  phase,         \* what the batch is doing
  stack,         \* frames of the resolution under way
  cache,         \* pairs of a fixture and the context that caches its value
  finalizers,    \* the finalizers of each context, oldest first
  dependencies,  \* _dependency_keys: what resolutions have found out
  users,         \* _session_last_users and _module_last_users, 0 for none
  outcome,       \* how far each test came
  charges        \* pairs of a test and the failed finalizer it answers for

vars == <<current, phase, stack, cache, finalizers, dependencies, users,
          outcome, charges>>

Frames == [for : Fixtures \union {Test}, todo : Seq(Parameters)]
Phases == {"ready", "resolving", "finishing_test", "closing_module",
           "closing_session", "closed", "aborted"}

NoUsers == [f \in Fixtures |-> 0]

Init ==
  /\ current = 0
  /\ phase = "ready"
  /\ stack = << >>
  /\ cache = {}
  /\ finalizers = [c \in Contexts |-> << >>]
  /\ dependencies = [f \in Fixtures |-> {}]
  /\ users = [c \in Contexts |-> NoUsers]
  /\ outcome = [t \in Tests |-> "none"]
  /\ charges = {}

-----------------------------------------------------------------------------
\* _storage_for: the context that holds a fixture on behalf of this test.
Context(f) == IF Scope[f] = "module" THEN ModuleOf[current] ELSE Scope[f]

\* Mutant: a module's fixtures are cached for every module.
CachedAnywhere(f) == \E c \in Contexts : <<f, c>> \in cache

Cached(f) == <<f, Context(f)>> \in cache

\* The least set that holds some fixtures and whatever is below any it holds.
Reachable(from, below) ==
  {f \in Fixtures :
     \A S \in SUBSET Fixtures :
       from \subseteq S /\ (\A g \in S : below[g] \subseteq S) => f \in S}

\* Mutant: the fixtures below the one in use are not looked at.
UsedDirectly(f, below) == {f}

Used(f, below) == Reachable({f}, below)

\* _record_scope_usage; the caches of a test need no record of their users.
Recorded(f, below) ==
  [c \in Contexts |-> [g \in Fixtures |->
     IF g \in Used(f, below) /\ Context(g) = c /\ c # "test"
       THEN current ELSE users[c][g]]]

-----------------------------------------------------------------------------
(***************************************************************************)
(* Setting up.                                                             *)
(***************************************************************************)
\* A module is closed with the last of its tests.
LastOfModule(t) == \A u \in Tests : u > t => ModuleOf[u] # ModuleOf[t]

AfterTest(t) == IF LastOfModule(t) THEN "closing_module" ELSE "ready"

SkipTest ==
  /\ phase = "ready" /\ current + 1 \in Skipped
  /\ current' = current + 1
  /\ outcome' = [outcome EXCEPT ![current + 1] = "skipped"]
  /\ phase' = AfterTest(current + 1)
  /\ UNCHANGED <<stack, cache, finalizers, dependencies, users, charges>>

BeginTest ==
  /\ phase = "ready" /\ current + 1 \in Tests \ Skipped
  /\ current' = current + 1
  /\ phase' = "resolving"
  /\ stack' = <<[for |-> Test, todo |-> Wants[current + 1]]>>
  /\ UNCHANGED <<cache, finalizers, dependencies, users, outcome, charges>>

Top    == stack[Len(stack)]
Parent == Top.for
Wanted == Head(Top.todo)

\* The parent of the top frame has been given what it waited for.
Supplied(frames) == [frames EXCEPT ![Len(frames)].todo = Tail(@)]

Resolving == phase = "resolving" /\ Top.todo # << >>

\* finish_test follows whether or not the setup succeeded.
SetupFails ==
  /\ outcome' = [outcome EXCEPT ![current] = "setup_failed"]
  /\ stack' = << >>
  /\ phase' = "finishing_test"

MissingFixture ==
  /\ Resolving /\ Wanted \notin Fixtures
  /\ SetupFails
  /\ UNCHANGED <<current, cache, finalizers, dependencies, users, charges>>

\* What the parent depends on is noted before anything can go wrong.
Noted ==
  IF Parent = Test THEN dependencies
  ELSE [dependencies EXCEPT ![Parent] = @ \union {Wanted}]

BreaksScope ==
  Parent # Test /\ ScopeRank[Scope[Wanted]] < ScopeRank[Scope[Parent]]

Cyclic(f) == \E k \in DOMAIN stack : stack[k].for = f

RefuseFixture ==
  /\ Resolving /\ Wanted \in Fixtures
  /\ BreaksScope \/ (~Cached(Wanted) /\ Cyclic(Wanted))
  /\ dependencies' = Noted
  /\ SetupFails
  /\ UNCHANGED <<current, cache, finalizers, users, charges>>

ReuseFixture ==
  /\ Resolving /\ Wanted \in Fixtures
  /\ ~BreaksScope /\ Cached(Wanted)
  /\ dependencies' = Noted
  /\ users' = Recorded(Wanted, Noted)
  /\ stack' = Supplied(stack)
  /\ UNCHANGED <<current, phase, cache, finalizers, outcome, charges>>

EnterFixture ==
  /\ Resolving /\ Wanted \in Fixtures
  /\ ~BreaksScope /\ ~Cached(Wanted) /\ ~Cyclic(Wanted)
  /\ dependencies' = Noted
  /\ stack' = Append(stack, [for |-> Wanted, todo |-> Needs[Wanted]])
  /\ UNCHANGED <<current, phase, cache, finalizers, users, outcome, charges>>

\* Mutant: finalizers run in the order in which the fixtures were started.
Queued(seq, f) == <<f>> \o seq

Pushed(seq, f) == Append(seq, f)

\* The provider has all its parameters and is called.
Supplying == phase = "resolving" /\ Top.todo = << >> /\ Parent # Test

StartFixture ==
  LET f == Parent
  IN /\ Supplying
     /\ cache' = cache \union {<<f, Context(f)>>}
     /\ users' = Recorded(f, dependencies)
     /\ finalizers' = IF f \in Yields
                      THEN [finalizers EXCEPT ![Context(f)] = Pushed(@, f)]
                      ELSE finalizers
     /\ stack' = Supplied(Front(stack))
     /\ UNCHANGED <<current, phase, dependencies, outcome, charges>>

FixtureRaises ==
  /\ Supplying
  /\ SetupFails
  /\ UNCHANGED <<current, cache, finalizers, dependencies, users, charges>>

ReadyToCall == phase = "resolving" /\ Top.todo = << >> /\ Parent = Test

CallTest ==
  /\ ReadyToCall
  /\ outcome' = [outcome EXCEPT ![current] = "called"]
  /\ stack' = << >>
  /\ phase' = "finishing_test"
  /\ UNCHANGED <<current, cache, finalizers, dependencies, users, charges>>

-----------------------------------------------------------------------------
(***************************************************************************)
(* Tearing down.                                                           *)
(***************************************************************************)
Closing ==
  CASE phase = "finishing_test"  -> "test"
    [] phase = "closing_module"  -> ModuleOf[current]
    [] phase = "closing_session" -> "session"
    [] OTHER -> "nothing"

Owner(c, f) == IF c = "test" THEN current ELSE users[c][f]

\* The last finalizer that is left; one that raises does not stop the others.
RunFinalizer ==
  /\ Closing \in Contexts /\ finalizers[Closing] # << >>
  /\ LET left == finalizers[Closing]
         f == left[Len(left)]
     IN /\ finalizers' = [finalizers EXCEPT ![Closing] = Front(@)]
        /\ charges' \in {charges, charges \union {<<Owner(Closing, f), f>>}}
  /\ UNCHANGED <<current, phase, stack, cache, dependencies, users, outcome>>

CloseContext(c) ==
  /\ Closing = c /\ finalizers[c] = << >>
  /\ cache' = {entry \in cache : entry[2] # c}
  /\ users' = [users EXCEPT ![c] = NoUsers]

FinishTest ==
  /\ CloseContext("test")
  /\ phase' = AfterTest(current)
  /\ UNCHANGED <<current, stack, finalizers, dependencies, outcome, charges>>

CloseModule ==
  /\ \E m \in Modules : CloseContext(m)
  /\ phase' = "ready"
  /\ UNCHANGED <<current, stack, finalizers, dependencies, outcome, charges>>

BeginClosing ==
  /\ phase = "ready" /\ current = NumTests
  /\ phase' = "closing_session"
  /\ UNCHANGED <<current, stack, cache, finalizers, dependencies, users,
                 outcome, charges>>

CloseSession ==
  /\ CloseContext("session")
  /\ dependencies' = [f \in Fixtures |-> {}]
  /\ phase' = "closed"
  /\ UNCHANGED <<current, stack, finalizers, outcome, charges>>

\* A CancelledError out of a fixture, a test or a finalizer ends the batch.
Aborts ==
  /\ \/ Supplying \/ ReadyToCall
     \/ Closing \in Contexts /\ finalizers[Closing] # << >>
  /\ phase' = "aborted"
  /\ UNCHANGED <<current, stack, cache, finalizers, dependencies, users,
                 outcome, charges>>

BatchOver == phase \in {"closed", "aborted"} /\ UNCHANGED vars

Next ==
  \/ SkipTest \/ BeginTest
  \/ MissingFixture \/ RefuseFixture \/ ReuseFixture \/ EnterFixture
  \/ StartFixture \/ FixtureRaises \/ CallTest
  \/ RunFinalizer \/ FinishTest \/ CloseModule \/ BeginClosing \/ CloseSession
  \/ Aborts \/ BatchOver

Spec == Init /\ [][Next]_vars

-----------------------------------------------------------------------------
TypeOK ==
  /\ current \in 0..NumTests
  /\ phase \in Phases
  /\ stack \in Seq(Frames)
  /\ cache \in SUBSET (Fixtures \X Contexts)
  /\ finalizers \in [Contexts -> Seq(Yields)]
  /\ dependencies \in [Fixtures -> SUBSET Fixtures]
  /\ users \in [Contexts -> [Fixtures -> 0..NumTests]]
  /\ outcome \in [Tests -> {"none", "skipped", "setup_failed", "called"}]
  /\ charges \in SUBSET (Tests \X Fixtures)

\* The fixtures a test asks for, and all they rest on.
Declared == [f \in Fixtures |-> Range(Needs[f]) \intersect Fixtures]
UsedBy(t) == Reachable(Range(Wants[t]) \intersect Fixtures, Declared)

\* A test body runs with every fixture it asks for, directly or not, in the
\* cache of the right context and not yet finalized, whatever earlier tests
\* started, failed to start or closed.
TestsHaveTheirFixtures ==
  ReadyToCall =>
    \A f \in UsedBy(current) :
      Cached(f) /\ (f \in Yields => f \in Range(finalizers[Context(f)]))

Shares(t, u, f) ==
  Scope[f] = "session" \/ (Scope[f] = "module" /\ ModuleOf[t] = ModuleOf[u])

\* A failed finalizer is charged to a test that used its fixture, and no later
\* test that shared that fixture was called: the one charged is the last user.
LastUserIsCharged ==
  \A charge \in charges :
    LET t == charge[1]
        f == charge[2]
    IN /\ f \in UsedBy(t)
       /\ \A u \in Tests : u > t /\ outcome[u] = "called" /\ Shares(t, u, f)
                             => f \notin UsedBy(u)

\* Fixtures are finalized after whatever rests on them, and at most one of each
\* is alive in a context.
Resources ==
  INSTANCE Lifetimes WITH
    Below <- [f \in Fixtures |->
                Reachable(Declared[f], Declared) \intersect Yields],
    live  <- {held \in Fixtures \X Contexts : held[1] \in Range(finalizers[held[2]])}
ImplementsLifetimes == Resources!Spec
=============================================================================
