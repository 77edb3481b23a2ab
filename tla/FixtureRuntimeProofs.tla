------------------------ MODULE FixtureRuntimeProofs ------------------------
(***************************************************************************)
(* Proofs about the fixture runtime: for any registry of fixtures, scopes  *)
(* and parameters, any tests and modules, and any failures.                *)
(***************************************************************************)
EXTENDS FixtureRuntime, TLAPS

-----------------------------------------------------------------------------
(***************************************************************************)
(* What fixtures rest on, and where they are kept.                         *)
(***************************************************************************)
\* Everything that must be there before f is started.
Rests(f) == Reachable(Declared[f], Declared)

\* The context that holds f on behalf of a test of module m.
Place(f, m) == IF Scope[f] = "module" THEN m ELSE Scope[f]

\* A fixture may rest on what lives as long as it does.
InScope(f, g) == ScopeRank[Scope[f]] <= ScopeRank[Scope[g]]

\* What a fixture in context c rests on: in c, in the module of the current test
\* if c is that test, or in the session.
Held(g, c) ==
  \/ Scope[g] = "session" /\ <<g, "session">> \in cache
  \/ Scope[g] = "module" /\ c \in Modules /\ <<g, c>> \in cache
  \/ Scope[g] = "module" /\ c = "test" /\ <<g, ModuleOf[current]>> \in cache
  \/ Scope[g] = "test" /\ c = "test" /\ <<g, "test">> \in cache

\* A module has tests to come, or is not yet closed after its last one.
Open(m) ==
  \/ \E t \in Tests : t > current /\ ModuleOf[t] = m
  \/ /\ phase \in {"resolving", "finishing_test", "closing_module", "aborted"}
     /\ current # 0 /\ ModuleOf[current] = m

-----------------------------------------------------------------------------
(***************************************************************************)
(* The inductive invariant.                                                *)
(***************************************************************************)
\* How far the batch is.
Progress ==
  /\ current = 0 => phase = "ready"
  /\ phase = "closing_module" => LastOfModule(current)
  /\ phase \in {"closing_session", "closed"} => current = NumTests
  /\ \A u \in Tests : outcome[u] = "called" => u <= current

\* What is cached is complete, where it belongs, and closed in time.
CacheInv ==
  \A f \in Fixtures, c \in Contexts : <<f, c>> \in cache =>
    /\ Scope[f] = "module" => c \in Modules
    /\ Scope[f] # "module" => c = Scope[f]
    /\ \A g \in Declared[f] : Held(g, c)
    /\ Declared[f] \subseteq dependencies[f]
    /\ c = "test" => f \in UsedBy(current) /\ phase \in {"resolving", "finishing_test", "aborted"}
    /\ c \in Modules => Open(c)
    /\ phase # "closed"

\* Finalizers belong to what is cached, all of it has one until its context is
\* closed, and nothing comes after what rests on it.
FinalizersInv ==
  /\ \A c \in Contexts : \A i \in DOMAIN finalizers[c] : <<finalizers[c][i], c>> \in cache
  /\ \A f \in Yields, c \in Contexts :
       <<f, c>> \in cache /\ Closing # c /\ phase # "aborted" => f \in Range(finalizers[c])
  /\ \A c \in Contexts : \A i, j \in DOMAIN finalizers[c] :
       /\ i <= j => finalizers[c][j] \notin Rests(finalizers[c][i])
       /\ finalizers[c][i] = finalizers[c][j] => i = j

\* What frame k was asked for, and what it has been given of it.
Asked(k) == IF k = 1 THEN Range(Wants[current]) ELSE Range(Needs[stack[k].for])

Noticed(f, g) == f = Test \/ (InScope(f, g) /\ g \in dependencies[f])

Given(k) == {g \in Fixtures : Cached(g) /\ Noticed(stack[k].for, g)}

\* A frame still waits for what it has not been given; all but the last wait for
\* the next.
FrameInv(k) ==
  /\ stack[k].for = Test <=> k = 1
  /\ k > 1 => stack[k].for \in UsedBy(current) /\ ~Cached(stack[k].for)
  /\ Range(stack[k].todo) \subseteq Asked(k)
  /\ Asked(k) \subseteq Range(stack[k].todo) \union Given(k)
  /\ k < Len(stack) =>
       /\ stack[k].todo # << >> /\ Head(stack[k].todo) = stack[k + 1].for
       /\ Noticed(stack[k].for, stack[k + 1].for)

StackInv ==
  phase = "resolving" =>
    /\ stack # << >>
    /\ \A k \in DOMAIN stack : FrameInv(k)
    /\ \A j, k \in DOMAIN stack : stack[j].for = stack[k].for => j = k

DependenciesInv == \A f \in Fixtures : dependencies[f] \subseteq Declared[f]

\* The users that are recorded: of everything the current test was given, the
\* current test; of anything, a test that uses it, and no test that was called
\* comes after it.
UsersInv ==
  /\ phase = "resolving" =>
       \A p \in Range(Wants[current]) :
         \/ p \in Range(stack[1].todo)
         \/ \A g \in Reachable({p}, Declared) :
              Scope[g] # "test" => users[Context(g)][g] = current
  /\ \A c \in Contexts, f \in Fixtures : users[c][f] # 0 =>
       /\ users[c][f] <= current
       /\ f \in UsedBy(users[c][f])
       /\ c = Place(f, ModuleOf[users[c][f]])
  /\ \A f \in Fixtures, c \in Contexts \ {"test"} : <<f, c>> \in cache => users[c][f] # 0
  /\ phase # "aborted" =>
       \A u \in Tests : \A f \in UsedBy(u) :
         LET c == Place(f, ModuleOf[u]) IN
           outcome[u] = "called" /\ (Open(c) \/ (c = "session" /\ phase # "closed"))
             => users[c][f] >= u

\* Whoever was charged has no successor that is still to be called.
Callable(m) ==
  \/ \E u \in Tests : u > current /\ ModuleOf[u] = m
  \/ phase = "resolving" /\ ModuleOf[current] = m

ChargesInv ==
  \A charge \in charges :
    LET t == charge[1]
        f == charge[2]
    IN /\ f \in UsedBy(t)
       /\ \A u \in Tests : u > t /\ outcome[u] = "called" /\ Shares(t, u, f) => f \notin UsedBy(u)
       /\ Scope[f] = "module" => ~Callable(ModuleOf[t])
       /\ Scope[f] = "session" => phase \in {"closing_session", "closed", "aborted"}

Inv ==
  /\ TypeOK /\ Progress /\ CacheInv /\ FinalizersInv /\ StackInv
  /\ DependenciesInv /\ UsersInv /\ ChargesInv

-----------------------------------------------------------------------------
(***************************************************************************)
(* Reachable.                                                              *)
(***************************************************************************)
\* Reachable has what it starts from, is closed, and is the least such set.
LEMMA ReachableFacts ==
  ASSUME NEW from \in SUBSET Fixtures, NEW below \in [Fixtures -> SUBSET Fixtures]
  PROVE  /\ Reachable(from, below) \in SUBSET Fixtures
         /\ from \subseteq Reachable(from, below)
         /\ \A g \in Reachable(from, below) : below[g] \subseteq Reachable(from, below)
  BY DEF Reachable

LEMMA ReachableIsLeast ==
  ASSUME NEW from, NEW below, NEW S \in SUBSET Fixtures, from \subseteq S,
         \A g \in S : below[g] \subseteq S
  PROVE  Reachable(from, below) \subseteq S
  BY DEF Reachable

LEMMA DeclaredType == Declared \in [Fixtures -> SUBSET Fixtures]
  BY DEF Declared

\* What a fixture or a test rests on, rests on nothing else.
LEMMA RestsFacts ==
  ASSUME NEW f \in Fixtures
  PROVE  /\ Rests(f) \in SUBSET Fixtures
         /\ Declared[f] \subseteq Rests(f)
         /\ \A g \in Rests(f) : Declared[g] \subseteq Rests(f)
  BY DeclaredType, ReachableFacts DEF Rests

LEMMA RestsWithin ==
  ASSUME NEW S \in SUBSET Fixtures, \A g \in S : Declared[g] \subseteq S
  PROVE  \A f \in S : Rests(f) \subseteq S /\ Reachable({f}, Declared) \subseteq S
  BY ReachableIsLeast DEF Rests

LEMMA ReachedFromOne ==
  ASSUME NEW f \in Fixtures
  PROVE  /\ Reachable({f}, Declared) = {f} \union Rests(f)
  <1>1. /\ Reachable({f}, Declared) \in SUBSET Fixtures
        /\ f \in Reachable({f}, Declared)
        /\ \A g \in Reachable({f}, Declared) : Declared[g] \subseteq Reachable({f}, Declared)
    BY DeclaredType, ReachableFacts
  <1>2. Rests(f) \subseteq Reachable({f}, Declared)
    BY <1>1, RestsWithin
  <1>3. Reachable({f}, Declared) \subseteq {f} \union Rests(f)
    <2> DEFINE S == {f} \union Rests(f)
    <2>1. S \in SUBSET Fixtures /\ {f} \subseteq S /\ \A g \in S : Declared[g] \subseteq S
      BY RestsFacts
    <2> HIDE DEF S
    <2>2. Reachable({f}, Declared) \subseteq S
      BY <2>1, ReachableIsLeast
    <2> QED
      BY <2>2 DEF S
  <1> QED
    BY <1>1, <1>2, <1>3

LEMMA UsedByFacts ==
  ASSUME NEW t \in Tests
  PROVE  /\ UsedBy(t) \in SUBSET Fixtures
         /\ Range(Wants[t]) \intersect Fixtures \subseteq UsedBy(t)
         /\ \A g \in UsedBy(t) : Declared[g] \subseteq UsedBy(t)
  BY DeclaredType, ReachableFacts DEF UsedBy

\* What is recorded as used is used, if nothing but declared parameters was noted.
LEMMA UsedIsDeclared ==
  ASSUME NEW below \in [Fixtures -> SUBSET Fixtures],
         \A g \in Fixtures : below[g] \subseteq Declared[g],
         NEW f \in Fixtures
  PROVE  Used(f, below) \subseteq Reachable({f}, Declared)
  <1> DEFINE S == Reachable({f}, Declared)
  <1>1. S \in SUBSET Fixtures /\ f \in S /\ \A g \in S : Declared[g] \subseteq S
    BY DeclaredType, ReachableFacts
  <1>2. \A g \in S : below[g] \subseteq S
    BY <1>1
  <1> HIDE DEF S
  <1>3. Reachable({f}, below) \subseteq S
    BY <1>1, <1>2, ReachableIsLeast
  <1> QED
    BY <1>3 DEF S, Used

\* It is all of that, if everything below was noted.
LEMMA UsedIsAll ==
  ASSUME NEW below \in [Fixtures -> SUBSET Fixtures],
         NEW C \in SUBSET Fixtures, NEW f \in C,
         \A g \in C : Declared[g] \subseteq C /\ Declared[g] \subseteq below[g]
  PROVE  Reachable({f}, Declared) \subseteq Used(f, below)
  <1> DEFINE S == Reachable({f}, below) \intersect C
  <1>1. /\ Reachable({f}, below) \in SUBSET Fixtures /\ f \in Reachable({f}, below)
        /\ \A g \in Reachable({f}, below) : below[g] \subseteq Reachable({f}, below)
    BY ReachableFacts
  <1>2. S \in SUBSET Fixtures /\ {f} \subseteq S /\ \A g \in S : Declared[g] \subseteq S
    BY <1>1
  <1> HIDE DEF S
  <1>3. Reachable({f}, Declared) \subseteq S
    BY <1>2, ReachableIsLeast
  <1> QED
    BY <1>3 DEF S, Used

-----------------------------------------------------------------------------
(***************************************************************************)
(* Contexts and what they hold.                                            *)
(***************************************************************************)
LEMMA ContextFacts ==
  ASSUME NEW t \in Tests
  PROVE  /\ ModuleOf[t] \in Modules
         /\ \A f \in Fixtures : Place(f, ModuleOf[t]) \in Contexts
         /\ \A f \in Fixtures : Scope[f] \in {"test", "module", "session"}
  BY ConstantsAssumption DEF Modules, Place, Contexts, ScopeRank

\* Tests are numbered.
LEMMA TestNumbers ==
  /\ NumTests \in Nat \ {0} /\ Tests \subseteq Nat /\ Skipped \subseteq Tests /\ 0 \notin Tests
  /\ \A t \in Nat : t \in Tests <=> 1 <= t /\ t <= NumTests
  BY ConstantsAssumption DEF Tests

LEMMA CurrentTest ==
  ASSUME TypeOK
  PROVE  /\ current \in Nat /\ current <= NumTests
         /\ current \in Tests <=> current # 0
         /\ current + 1 \in Tests <=> current # NumTests
  <1>1. current \in 0 .. NumTests
    BY DEF TypeOK
  <1> QED
    BY <1>1, TestNumbers

LEMMA UsersAreTests ==
  ASSUME TypeOK
  PROVE  \A c \in Contexts, f \in Fixtures :
           users[c][f] \in Nat /\ (users[c][f] # 0 => users[c][f] \in Tests)
  <1>1. \A c \in Contexts, f \in Fixtures : users[c][f] \in 0 .. NumTests
    BY DEF TypeOK
  <1> QED
    BY <1>1, TestNumbers

LEMMA NamesDiffer ==
  /\ "test" \notin Modules /\ "session" \notin Modules /\ "nothing" \notin Contexts
  /\ \A m \in Modules : m \in Contexts /\ m # "test" /\ m # "session"
  BY ConstantsAssumption DEF Contexts

\* A context that is open as a module is one.
LEMMA OpenAreModules ==
  ASSUME TypeOK, NEW m, Open(m)
  PROVE  m \in Modules
  BY CurrentTest DEF Open, Modules

\* While no context is being closed, all finalizers are there.
LEMMA FinalizersStay ==
  ASSUME FinalizersInv, UNCHANGED <<finalizers, cache>>, phase # "aborted", Closing \notin Contexts
  PROVE  FinalizersInv'
  <1>1. finalizers' = finalizers /\ cache' = cache
    OBVIOUS
  <1>2. \A f \in Yields, c \in Contexts :
          <<f, c>> \in cache /\ Closing # c /\ phase # "aborted" => f \in Range(finalizers[c])
    BY DEF FinalizersInv
  <1>3. \A f \in Yields, c \in Contexts : <<f, c>> \in cache => f \in Range(finalizers[c])
    BY <1>2
  <1> QED
    BY <1>1, <1>3 DEF FinalizersInv, Rests, Reachable

\* While a test is prepared, the cache holds what a cached fixture rests on.
LEMMA CachedIsComplete ==
  ASSUME CacheInv, current \in Tests
  PROVE  /\ {g \in Fixtures : Cached(g)} \in SUBSET Fixtures
         /\ \A g \in {h \in Fixtures : Cached(h)} :
              /\ Declared[g] \subseteq {h \in Fixtures : Cached(h)}
              /\ Declared[g] \subseteq dependencies[g]
  <1> SUFFICES ASSUME NEW g \in Fixtures, Cached(g)
               PROVE  /\ \A h \in Declared[g] : h \in Fixtures /\ Cached(h)
                      /\ Declared[g] \subseteq dependencies[g]
    OBVIOUS
  <1>1. <<g, Context(g)>> \in cache /\ Context(g) \in Contexts
    BY ContextFacts DEF Cached, Context, Place
  <1>2. (\A h \in Declared[g] : Held(h, Context(g))) /\ Declared[g] \subseteq dependencies[g]
    BY <1>1 DEF CacheInv
  <1>3. \A h \in Declared[g] : h \in Fixtures
    BY DeclaredType
  <1>4. \A h \in Declared[g] : Cached(h)
    BY <1>2, <1>3, NamesDiffer, ContextFacts DEF Held, Cached, Context
  <1> QED
    BY <1>2, <1>3, <1>4

-----------------------------------------------------------------------------
(***************************************************************************)
(* The stack of frames.                                                    *)
(***************************************************************************)
LEMMA RangeOfTail ==
  ASSUME NEW P, NEW s \in Seq(P), s # << >>
  PROVE  /\ Range(s) = {Head(s)} \union Range(Tail(s))
         /\ Range(s) \subseteq P /\ Head(s) \in P /\ Tail(s) \in Seq(P)
  <1>1. \A i \in DOMAIN s : i = 1 \/ (i - 1 \in DOMAIN Tail(s) /\ s[i] = Tail(s)[i - 1])
    OBVIOUS
  <1>2. \A i \in DOMAIN Tail(s) : i + 1 \in DOMAIN s /\ s[i + 1] = Tail(s)[i]
    OBVIOUS
  <1>3. 1 \in DOMAIN s /\ Head(s) = s[1]
    OBVIOUS
  <1>4. Range(s) = {Head(s)} \union Range(Tail(s))
    <2>1. \A x \in Range(s) : x \in {Head(s)} \union Range(Tail(s))
      BY <1>1, <1>3 DEF Range
    <2>2. \A x \in Range(Tail(s)) : x \in Range(s)
      BY <1>2 DEF Range
    <2>3. Head(s) \in Range(s)
      BY <1>3 DEF Range
    <2> QED
      BY <2>1, <2>2, <2>3
  <1>5. Range(s) \subseteq P /\ Head(s) \in P /\ Tail(s) \in Seq(P)
    BY DEF Range
  <1> QED
    BY <1>4, <1>5

LEMMA RangeOfNone == Range(<< >>) = {}
  BY DEF Range

\* t is the stack s without its last n frames, whose top has been given what it
\* waited for if fed.
Shape(s, t, n, fed) ==
  /\ t \in Seq(Frames) /\ Len(t) = Len(s) - n /\ Len(t) \in Nat
  /\ DOMAIN t = 1 .. Len(t) /\ DOMAIN s = 1 .. Len(s)
  /\ \A k \in DOMAIN t :
       /\ t[k].for = s[k].for
       /\ t[k].todo = IF fed /\ k = Len(t) THEN Tail(s[k].todo) ELSE s[k].todo

LEMMA SuppliedShape ==
  ASSUME NEW s \in Seq(Frames), s # << >>, s[Len(s)].todo # << >>
  PROVE  Shape(s, Supplied(s), 0, TRUE)
  <1>1. Len(s) \in Nat \ {0} /\ DOMAIN s = 1 .. Len(s) /\ s[Len(s)] \in Frames
    OBVIOUS
  <1> DEFINE top == [s[Len(s)] EXCEPT !.todo = Tail(@)]
  <1>2. Tail(s[Len(s)].todo) \in Seq(Parameters)
    BY <1>1 DEF Frames
  <1>3. top \in Frames /\ top.for = s[Len(s)].for /\ top.todo = Tail(s[Len(s)].todo)
    BY <1>1, <1>2 DEF Frames
  <1>4. Supplied(s) = [s EXCEPT ![Len(s)] = top]
    BY DEF Supplied
  <1> HIDE DEF top
  <1>5. Supplied(s) \in Seq(Frames) /\ Len(Supplied(s)) = Len(s)
    BY <1>1, <1>3, <1>4
  <1>6. \A k \in 1 .. Len(s) : Supplied(s)[k] = IF k = Len(s) THEN top ELSE s[k]
    BY <1>1, <1>4
  <1>7. DOMAIN Supplied(s) = 1 .. Len(Supplied(s))
    BY <1>5
  <1>8. \A k \in DOMAIN Supplied(s) :
          /\ Supplied(s)[k].for = s[k].for
          /\ Supplied(s)[k].todo = IF k = Len(Supplied(s)) THEN Tail(s[k].todo) ELSE s[k].todo
    BY <1>3, <1>5, <1>6, <1>7
  <1>9. /\ Supplied(s) \in Seq(Frames) /\ Len(Supplied(s)) = Len(s) - 0
        /\ Len(Supplied(s)) \in Nat
        /\ DOMAIN Supplied(s) = 1 .. Len(Supplied(s)) /\ DOMAIN s = 1 .. Len(s)
    BY <1>1, <1>5, <1>7
  <1> QED
    BY <1>8, <1>9 DEF Shape

LEMMA FrontShape ==
  ASSUME NEW s \in Seq(Frames), s # << >>
  PROVE  Shape(s, Front(s), 1, FALSE)
  <1>1. Len(s) \in Nat \ {0} /\ DOMAIN s = 1 .. Len(s)
    OBVIOUS
  <1>2. Front(s) = SubSeq(s, 1, Len(s) - 1)
    BY DEF Front
  <1>3. /\ Front(s) \in Seq(Frames) /\ Len(Front(s)) = Len(s) - 1
        /\ \A k \in 1 .. Len(s) - 1 : Front(s)[k] = s[k]
    BY <1>1, <1>2
  <1>4. DOMAIN Front(s) = 1 .. Len(Front(s))
    BY <1>3
  <1> QED
    BY <1>1, <1>3, <1>4 DEF Shape

LEMMA SuppliedFrontShape ==
  ASSUME NEW s \in Seq(Frames), s # << >>, Len(s) > 1, s[Len(s) - 1].todo # << >>
  PROVE  Shape(s, Supplied(Front(s)), 1, TRUE)
  <1>1. Shape(s, Front(s), 1, FALSE)
    BY FrontShape
  <1>2. Front(s) \in Seq(Frames) /\ Front(s) # << >> /\ Front(s)[Len(Front(s))].todo # << >>
    BY <1>1 DEF Shape
  <1>3. Shape(Front(s), Supplied(Front(s)), 0, TRUE)
    BY <1>2, SuppliedShape
  <1> QED
    BY <1>1, <1>3 DEF Shape

\* t is the stack s with one frame more.
LEMMA PushedShape ==
  ASSUME NEW s \in Seq(Frames), NEW frame \in Frames
  PROVE  Shape(Append(s, frame), s, 1, FALSE) /\ Append(s, frame) \in Seq(Frames)
         /\ Len(Append(s, frame)) = Len(s) + 1 /\ Append(s, frame)[Len(s) + 1] = frame
  BY DEF Shape

\* The bottom and the top of the stack.
LEMMA StackFacts ==
  ASSUME TypeOK, StackInv, phase = "resolving"
  PROVE  /\ stack \in Seq(Frames) /\ DOMAIN stack = 1 .. Len(stack)
         /\ Len(stack) \in Nat \ {0}
         /\ FrameInv(1) /\ FrameInv(Len(stack))
         /\ Top \in Frames /\ Top = stack[Len(stack)]
         /\ (Parent = Test <=> Len(stack) = 1)
         /\ (Parent # Test => Parent \in Fixtures)
  <1>1. stack \in Seq(Frames) /\ stack # << >>
    BY DEF TypeOK, StackInv
  <1>2. DOMAIN stack = 1 .. Len(stack) /\ Len(stack) \in Nat \ {0}
    BY <1>1
  <1>3. FrameInv(1) /\ FrameInv(Len(stack))
    BY <1>2 DEF StackInv
  <1>4. stack[Len(stack)] \in Frames
    BY <1>1, <1>2
  <1> QED
    BY <1>1, <1>2, <1>3, <1>4 DEF Top, Parent, FrameInv, Frames

-----------------------------------------------------------------------------
(***************************************************************************)
(* Tests begin.                                                            *)
(***************************************************************************)
\* What a new test changes, whether it is skipped or not.
NewTest ==
  /\ phase = "ready" /\ current + 1 \in Tests /\ current' = current + 1
  /\ \/ phase' = "resolving"
     \/ phase' = "closing_module" /\ LastOfModule(current + 1)
     \/ phase' = "ready" /\ ~LastOfModule(current + 1)
  /\ \A u \in Tests : outcome'[u] = "called" => outcome[u] = "called"
  /\ UNCHANGED <<cache, finalizers, dependencies, users, charges>>

LEMMA OpenForNewTest ==
  ASSUME TypeOK, NewTest, NEW m
  PROVE  Open(m)' <=> Open(m)
  <1>1. /\ current \in Nat /\ current' = current + 1 /\ current + 1 \in Tests
        /\ Tests \subseteq Nat /\ phase = "ready" /\ 0 \notin Tests
    <2>1. current \in Nat
      BY CurrentTest
    <2>2. Tests \subseteq Nat /\ 0 \notin Tests
      BY TestNumbers
    <2>3. current' = current + 1 /\ current + 1 \in Tests /\ phase = "ready"
      BY DEF NewTest
    <2> QED
      BY <2>1, <2>2, <2>3
  <1>2. Open(m) <=> \E t \in Tests : t > current /\ ModuleOf[t] = m
    BY <1>1 DEF Open
  <1>3. (\E t \in Tests : t > current /\ ModuleOf[t] = m)
          <=> ModuleOf[current + 1] = m \/ \E t \in Tests : t > current + 1 /\ ModuleOf[t] = m
    BY <1>1
  <1>4. ~LastOfModule(current + 1) /\ ModuleOf[current + 1] = m
          => \E t \in Tests : t > current + 1 /\ ModuleOf[t] = m
    BY DEF LastOfModule
  <1> QED
    BY <1>1, <1>2, <1>3, <1>4 DEF Open, NewTest

LEMMA NewTestStep ==
  ASSUME Inv, NewTest
  PROVE  /\ Progress' /\ CacheInv' /\ FinalizersInv' /\ DependenciesInv' /\ ChargesInv'
         /\ (phase' # "resolving" => UsersInv')
         /\ (phase' = "resolving" /\ stack'[1].todo = Wants[current + 1] => UsersInv')
  <1>1. /\ TypeOK /\ Progress /\ CacheInv /\ FinalizersInv /\ DependenciesInv /\ UsersInv
        /\ ChargesInv
    BY DEF Inv
  <1>2. /\ current \in Nat /\ current' = current + 1 /\ Tests \subseteq Nat
        /\ phase = "ready" /\ phase' \in {"resolving", "closing_module", "ready"}
        /\ current + 1 \in Tests
        /\ UNCHANGED <<cache, finalizers, dependencies, users, charges>>
    BY <1>1, CurrentTest, TestNumbers DEF NewTest
  <1>3. \A m : Open(m)' <=> Open(m)
    BY <1>1, OpenForNewTest
  <1>4. Progress'
    <2>1. current' # 0 /\ phase' \notin {"closing_session", "closed"}
      BY <1>2
    <2>2. phase' = "closing_module" => LastOfModule(current')
      BY <1>2 DEF NewTest
    <2>3. \A u \in Tests : outcome'[u] = "called" => u <= current'
      BY <1>1, <1>2 DEF Progress, NewTest
    <2> QED
      BY <2>1, <2>2, <2>3 DEF Progress, LastOfModule
  <1>5. CacheInv'
    <2> SUFFICES ASSUME NEW f \in Fixtures, NEW c \in Contexts, <<f, c>> \in cache
                 PROVE  /\ Scope[f] = "module" => c \in Modules
                        /\ Scope[f] # "module" => c = Scope[f]
                        /\ \A g \in Declared[f] : Held(g, c)'
                        /\ Declared[f] \subseteq dependencies[f]
                        /\ c # "test"
                        /\ c \in Modules => Open(c)'
      BY <1>2 DEF CacheInv
    <2>1. c # "test" /\ \A g \in Declared[f] : Held(g, c)
      BY <1>1, <1>2 DEF CacheInv
    <2>2. \A g \in Declared[f] : Held(g, c)'
      BY <1>2, <2>1 DEF Held
    <2> QED
      BY <1>1, <1>3, <2>1, <2>2 DEF CacheInv
  <1>6. FinalizersInv'
    <2>1. Closing \notin Contexts
      BY <1>2, NamesDiffer DEF Closing
    <2> QED
      BY <1>1, <1>2, <2>1, FinalizersStay
  <1>7. DependenciesInv'
    BY <1>1, <1>2 DEF DependenciesInv
  <1>8. \A m : Callable(m)' => Callable(m)
    <2> TAKE m
    <2>1. CASE \E u \in Tests : u > current' /\ ModuleOf[u] = m
      BY <1>2, <2>1 DEF Callable
    <2>2. CASE phase' = "resolving" /\ ModuleOf[current'] = m
      BY <1>2, <2>2 DEF Callable
    <2> QED
      BY <2>1, <2>2 DEF Callable
  <1>9. ChargesInv'
    BY <1>1, <1>2, <1>8 DEF ChargesInv, NewTest, UsedBy, Shares
  <1>10. /\ \A c \in Contexts, f \in Fixtures : users'[c][f] # 0 =>
             /\ users'[c][f] <= current'
             /\ f \in UsedBy(users'[c][f])
             /\ c = Place(f, ModuleOf[users'[c][f]])
         /\ \A f \in Fixtures, c \in Contexts \ {"test"} : <<f, c>> \in cache' => users'[c][f] # 0
    BY <1>1, <1>2, UsersAreTests DEF UsersInv
  <1>11. \A u \in Tests : \A f \in UsedBy(u) :
           LET c == Place(f, ModuleOf[u]) IN
             outcome'[u] = "called" /\ (Open(c)' \/ (c = "session" /\ phase' # "closed"))
               => users'[c][f] >= u
    BY <1>1, <1>2, <1>3 DEF UsersInv, NewTest
  <1> QED
    BY <1>2, <1>4, <1>5, <1>6, <1>7, <1>9, <1>10, <1>11 DEF UsersInv

LEMMA SkipTestStep == ASSUME Inv, SkipTest PROVE Inv'
  <1>1. TypeOK
    BY DEF Inv
  <1>2. current + 1 \in Tests /\ current \in Nat
    BY <1>1, CurrentTest, TestNumbers DEF SkipTest
  <1>3. NewTest /\ phase' # "resolving"
    <2>1. outcome' = [outcome EXCEPT ![current + 1] = "skipped"]
          /\ outcome \in [Tests -> {"none", "skipped", "setup_failed", "called"}]
      BY <1>1 DEF SkipTest, TypeOK
    <2>2. \A u \in Tests : outcome'[u] = "called" => outcome[u] = "called"
      BY <1>2, <2>1 DEF SkipTest
    <2> QED
      BY <1>2, <2>2 DEF SkipTest, NewTest, AfterTest
  <1>4. TypeOK'
    BY <1>1, <1>2 DEF SkipTest, TypeOK, AfterTest, Phases, Tests
  <1>5. StackInv'
    BY <1>3 DEF StackInv
  <1> QED
    BY <1>3, <1>4, <1>5, NewTestStep DEF Inv

LEMMA BeginTestStep == ASSUME Inv, BeginTest PROVE Inv'
  <1>1. TypeOK
    BY DEF Inv
  <1> DEFINE t == current + 1
             frame == [for |-> Test, todo |-> Wants[t]]
  <1>2. t \in Tests /\ current \in Nat
    BY <1>1, CurrentTest DEF BeginTest
  <1>3. frame \in Frames /\ frame.for = Test /\ frame.todo = Wants[t]
    BY <1>2, ConstantsAssumption DEF Frames
  <1>4. /\ stack' = <<frame>> /\ current' = t /\ phase' = "resolving"
        /\ UNCHANGED <<cache, finalizers, dependencies, users, outcome, charges>>
        /\ phase = "ready"
    BY DEF BeginTest
  <1>5. NewTest
    BY <1>2, <1>4 DEF NewTest
  <1> HIDE DEF frame
  <1>6. stack' \in Seq(Frames) /\ DOMAIN stack' = {1} /\ stack'[1] = frame /\ Len(stack') = 1
        /\ stack' # << >>
    BY <1>3, <1>4
  <1>7. TypeOK'
    BY <1>1, <1>2, <1>4, <1>6 DEF TypeOK, Phases, Tests
  <1>8. FrameInv(1)'
    BY <1>3, <1>4, <1>6 DEF FrameInv, Asked
  <1>9. StackInv'
    BY <1>6, <1>8 DEF StackInv
  <1> QED
    BY <1>3, <1>4, <1>5, <1>6, <1>7, <1>9, NewTestStep DEF Inv

-----------------------------------------------------------------------------
(***************************************************************************)
(* The end of the preparation of a test, called or not.                    *)
(***************************************************************************)
\* Whatever the fixtures of a module rest on, the module is the current one.
LEMMA ContextIsPlace ==
  ASSUME NEW f
  PROVE  Context(f) = Place(f, ModuleOf[current])
  BY DEF Context, Place

EndsResolving(result) ==
  /\ phase = "resolving" /\ phase' = "finishing_test"
  /\ outcome' = [outcome EXCEPT ![current] = result]
  /\ stack' = << >>
  /\ UNCHANGED <<current, cache, finalizers, users, charges>>

LEMMA EndsResolvingStep ==
  ASSUME Inv, NEW result \in {"setup_failed", "called"}, EndsResolving(result),
         dependencies' \in [Fixtures -> SUBSET Fixtures],
         \A f \in Fixtures : dependencies[f] \subseteq dependencies'[f]
                           /\ dependencies'[f] \subseteq Declared[f],
         result = "called" => \A g \in UsedBy(current) :
                                Scope[g] # "test" => users[Context(g)][g] = current
  PROVE  Inv'
  <1>1. /\ TypeOK /\ Progress /\ CacheInv /\ FinalizersInv /\ DependenciesInv /\ UsersInv
        /\ ChargesInv
    BY DEF Inv
  <1>2. /\ phase = "resolving" /\ phase' = "finishing_test" /\ stack' = << >>
        /\ outcome' = [outcome EXCEPT ![current] = result]
        /\ UNCHANGED <<current, cache, finalizers, users, charges>>
    BY DEF EndsResolving
  <1>3. current \in Tests /\ current \in Nat /\ current # 0
    BY <1>1, <1>2, CurrentTest DEF Progress
  <1>4. TypeOK'
    BY <1>1, <1>2, <1>3 DEF TypeOK, Phases
  <1>5. \A u \in Tests : outcome'[u] = IF u = current THEN result ELSE outcome[u]
    BY <1>1, <1>2 DEF TypeOK
  <1>6. Progress'
    BY <1>1, <1>2, <1>3, <1>5, TestNumbers DEF Progress
  <1>7. \A m : Open(m)' <=> Open(m)
    BY <1>2 DEF Open
  <1>8. \A g, c : Held(g, c)' <=> Held(g, c)
    BY <1>2 DEF Held
  <1>9. CacheInv'
    BY <1>1, <1>2, <1>7, <1>8 DEF CacheInv, UsedBy, Reachable
  <1>10. Closing \notin Contexts
    BY <1>2, NamesDiffer DEF Closing
  <1>11. FinalizersInv'
    BY <1>1, <1>2, <1>10, FinalizersStay
  <1>12. StackInv' /\ DependenciesInv'
    BY <1>2 DEF StackInv, DependenciesInv
  <1>13. UsersInv'
    <2>1. \A u \in Tests : \A f \in UsedBy(u) :
            LET c == Place(f, ModuleOf[u]) IN
              outcome'[u] = "called" /\ (Open(c) \/ (c = "session" /\ phase' # "closed"))
                => users[c][f] >= u
      <3> SUFFICES ASSUME NEW u \in Tests, NEW f \in UsedBy(u), outcome'[u] = "called",
                          Open(Place(f, ModuleOf[u])) \/ Place(f, ModuleOf[u]) = "session"
                   PROVE  users[Place(f, ModuleOf[u])][f] >= u
        OBVIOUS
      <3>1. CASE u # current
        BY <1>1, <1>2, <1>5, <3>1 DEF UsersInv
      <3>2. CASE u = current
        <4>1. f \in Fixtures
          BY UsedByFacts
        <4>2. Scope[f] # "test"
          BY <1>1, <4>1, OpenAreModules, NamesDiffer DEF Place
        <4>3. users[Place(f, ModuleOf[u])][f] = current
          BY <1>5, <3>2, <4>2, ContextIsPlace
        <4> QED
          BY <1>3, <3>2, <4>3
      <3> QED
        BY <3>1, <3>2
    <2> QED
      BY <1>1, <1>2, <1>7, <2>1 DEF UsersInv
  <1>14. ChargesInv'
    <2> SUFFICES ASSUME NEW charge \in charges
                 PROVE  LET t == charge[1]
                            f == charge[2]
                        IN /\ f \in UsedBy(t)
                           /\ \A u \in Tests : u > t /\ outcome'[u] = "called" /\ Shares(t, u, f)
                                                 => f \notin UsedBy(u)
                           /\ Scope[f] = "module" => ~Callable(ModuleOf[t])'
                           /\ Scope[f] # "session"
      BY <1>2 DEF ChargesInv
    <2> DEFINE t == charge[1]
               f == charge[2]
    <2>1. /\ f \in UsedBy(t)
          /\ \A u \in Tests : u > t /\ outcome[u] = "called" /\ Shares(t, u, f) => f \notin UsedBy(u)
          /\ Scope[f] = "module" => ~Callable(ModuleOf[t])
          /\ Scope[f] # "session"
      BY <1>1, <1>2 DEF ChargesInv
    <2>2. ~Shares(t, current, f)
      BY <1>2, <2>1 DEF Shares, Callable
    <2>3. Callable(ModuleOf[t])' => Callable(ModuleOf[t])
      BY <1>2 DEF Callable
    <2> HIDE DEF t, f
    <2>4. \A u \in Tests : u > t /\ outcome'[u] = "called" /\ Shares(t, u, f) => f \notin UsedBy(u)
      BY <1>5, <2>1, <2>2
    <2> QED
      BY <2>1, <2>3, <2>4 DEF t, f
  <1> QED
    BY <1>4, <1>6, <1>9, <1>11, <1>12, <1>13, <1>14 DEF Inv

\* Everything a test uses is below something it asks for.
LEMMA UsedIsBelow ==
  ASSUME NEW t \in Tests, NEW g \in UsedBy(t)
  PROVE  \E p \in Range(Wants[t]) \intersect Fixtures : g \in Reachable({p}, Declared)
  <1> DEFINE from == Range(Wants[t]) \intersect Fixtures
             S == {h \in Fixtures : \E p \in from : h \in Reachable({p}, Declared)}
  <1>1. \A p \in from : /\ Reachable({p}, Declared) \in SUBSET Fixtures
                        /\ p \in Reachable({p}, Declared)
                        /\ \A h \in Reachable({p}, Declared) :
                             Declared[h] \subseteq Reachable({p}, Declared)
    BY DeclaredType, ReachableFacts
  <1>2. S \in SUBSET Fixtures /\ from \subseteq S
    BY <1>1
  <1>3. \A h \in S : Declared[h] \subseteq S
    BY <1>1
  <1> HIDE DEF S, from
  <1>4. Reachable(from, Declared) \subseteq S
    BY <1>2, <1>3, ReachableIsLeast
  <1> QED
    BY <1>4 DEF S, from, UsedBy

\* A frame asks for what its fixture or test declares, and that is noted.
LEMMA WantedFacts ==
  ASSUME Inv, Resolving
  PROVE  /\ current \in Tests /\ current # 0 /\ phase = "resolving"
         /\ Top.todo \in Seq(Parameters) /\ Wanted \in Range(Top.todo)
         /\ Wanted \in Fixtures =>
              /\ Wanted \in UsedBy(current)
              /\ Parent # Test => Wanted \in Declared[Parent] /\ Wanted \in Noted[Parent]
              /\ Noted \in [Fixtures -> SUBSET Fixtures]
              /\ \A f \in Fixtures : dependencies[f] \subseteq Noted[f]
                                  /\ Noted[f] \subseteq Declared[f]
  <1>1. TypeOK /\ StackInv /\ Progress /\ DependenciesInv /\ phase = "resolving" /\ Top.todo # << >>
    BY DEF Inv, Resolving
  <1>2. current \in Tests /\ current # 0
    BY <1>1, CurrentTest DEF Progress
  <1>3. /\ FrameInv(Len(stack)) /\ Top \in Frames /\ Top = stack[Len(stack)]
        /\ (Parent = Test <=> Len(stack) = 1)
        /\ (Parent # Test => Parent \in Fixtures)
        /\ Len(stack) \in Nat \ {0}
    BY <1>1, StackFacts
  <1>4. Top.todo \in Seq(Parameters)
    BY <1>3 DEF Frames
  <1>5. Wanted \in Range(Top.todo)
    BY <1>1, <1>4, RangeOfTail DEF Wanted
  <1>6. Wanted \in Asked(Len(stack))
    BY <1>3, <1>5 DEF FrameInv
  <1>7. ASSUME Wanted \in Fixtures
        PROVE  /\ Wanted \in UsedBy(current)
               /\ Parent # Test => Wanted \in Declared[Parent] /\ Wanted \in Noted[Parent]
               /\ Noted \in [Fixtures -> SUBSET Fixtures]
               /\ \A f \in Fixtures : dependencies[f] \subseteq Noted[f]
                                   /\ Noted[f] \subseteq Declared[f]
    <2>0. dependencies \in [Fixtures -> SUBSET Fixtures]
      BY <1>1 DEF TypeOK
    <2>1. CASE Parent = Test
      <3>1. Wanted \in Range(Wants[current])
        BY <1>3, <1>6, <2>1 DEF Asked
      <3>2. Noted = dependencies
        BY <2>1 DEF Noted
      <3> QED
        BY <1>1, <1>2, <1>7, <2>0, <2>1, <3>1, <3>2, UsedByFacts DEF DependenciesInv
    <2>2. CASE Parent # Test
      <3>1. Wanted \in Range(Needs[Parent]) /\ Parent \in Fixtures
        BY <1>3, <1>6, <2>2 DEF Asked, Parent
      <3>2. Wanted \in Declared[Parent]
        BY <1>7, <3>1 DEF Declared
      <3>3. Parent \in UsedBy(current)
        <4>1. Len(stack) > 1
          <5>1. Len(stack) # 1
            BY <1>3, <2>2
          <5>2. \A n \in Nat \ {0} : n # 1 => n > 1
            OBVIOUS
          <5> QED
            BY <1>3, <5>1, <5>2
        <4>2. stack[Len(stack)].for = Parent
          BY <1>3 DEF Parent
        <4> QED
          BY <1>3, <4>1, <4>2 DEF FrameInv
      <3>4. Wanted \in UsedBy(current)
        BY <1>2, <3>2, <3>3, UsedByFacts
      <3>5. Noted = [dependencies EXCEPT ![Parent] = @ \union {Wanted}]
        BY <2>2 DEF Noted
      <3>6. \A f \in Fixtures : Noted[f] = IF f = Parent THEN dependencies[f] \union {Wanted}
                                          ELSE dependencies[f]
        BY <2>0, <3>1, <3>5
      <3>7. Noted \in [Fixtures -> SUBSET Fixtures]
        BY <1>7, <2>0, <3>1, <3>5
      <3> HIDE DEF Noted
      <3> QED
        BY <1>1, <2>2, <3>1, <3>2, <3>4, <3>6, <3>7 DEF DependenciesInv
    <2> QED
      BY <2>1, <2>2
  <1> QED
    BY <1>1, <1>2, <1>4, <1>5, <1>7

LEMMA SetupFailsStep ==
  ASSUME Inv, MissingFixture \/ RefuseFixture \/ FixtureRaises
  PROVE  Inv'
  <1>0. TypeOK /\ DependenciesInv
    BY DEF Inv
  <1>1. EndsResolving("setup_failed")
    BY DEF MissingFixture, RefuseFixture, FixtureRaises, SetupFails, EndsResolving, Resolving,
       Supplying
  <1>2. CASE MissingFixture \/ FixtureRaises
    <2>1. dependencies' = dependencies
      BY <1>2 DEF MissingFixture, FixtureRaises
    <2>2. dependencies' \in [Fixtures -> SUBSET Fixtures]
      BY <1>0, <2>1 DEF TypeOK
    <2>3. \A f \in Fixtures : dependencies[f] \subseteq dependencies'[f]
                            /\ dependencies'[f] \subseteq Declared[f]
      BY <1>0, <2>1 DEF DependenciesInv
    <2> QED
      BY <1>1, <2>2, <2>3, EndsResolvingStep
  <1>3. CASE RefuseFixture
    <2>1. Resolving /\ Wanted \in Fixtures /\ dependencies' = Noted
      BY <1>3 DEF RefuseFixture
    <2>2. dependencies' \in [Fixtures -> SUBSET Fixtures]
      BY <2>1, WantedFacts
    <2>3. \A f \in Fixtures : dependencies[f] \subseteq dependencies'[f]
                            /\ dependencies'[f] \subseteq Declared[f]
      BY <2>1, WantedFacts
    <2> QED
      BY <1>1, <2>2, <2>3, EndsResolvingStep
  <1> QED
    BY <1>2, <1>3

\* All that the test uses was recorded.
LEMMA CalledHasRecorded ==
  ASSUME Inv, ReadyToCall
  PROVE  \A g \in UsedBy(current) : Cached(g) /\ (Scope[g] # "test" => users[Context(g)][g] = current)
  <1>1. /\ TypeOK /\ StackInv /\ Progress /\ CacheInv /\ UsersInv /\ phase = "resolving"
        /\ Top.todo = << >> /\ Parent = Test
    BY DEF Inv, ReadyToCall
  <1>2. current \in Tests /\ current # 0
    BY <1>1, CurrentTest DEF Progress
  <1>3. Len(stack) = 1 /\ FrameInv(1) /\ stack[1].todo = << >>
    BY <1>1, StackFacts
  <1>4. Range(stack[1].todo) = {}
    BY <1>3, RangeOfNone
  <1>5. \A p \in Range(Wants[current]) : Cached(p) /\ p \in Fixtures
    BY <1>3, <1>4 DEF FrameInv, Asked, Given
  <1>6. \A p \in Range(Wants[current]) : \A g \in Reachable({p}, Declared) :
          Scope[g] # "test" => users[Context(g)][g] = current
    BY <1>1, <1>4 DEF UsersInv
  <1>7. \A p \in {h \in Fixtures : Cached(h)} :
          Reachable({p}, Declared) \subseteq {h \in Fixtures : Cached(h)}
    BY <1>1, <1>2, CachedIsComplete, RestsWithin
  <1> SUFFICES ASSUME NEW g \in UsedBy(current)
               PROVE  Cached(g) /\ (Scope[g] # "test" => users[Context(g)][g] = current)
    OBVIOUS
  <1>8. PICK p \in Range(Wants[current]) \intersect Fixtures : g \in Reachable({p}, Declared)
    BY <1>2, UsedIsBelow
  <1> QED
    BY <1>5, <1>6, <1>7, <1>8

LEMMA CallTestStep == ASSUME Inv, CallTest PROVE Inv'
  <1>0. TypeOK /\ DependenciesInv /\ ReadyToCall
    BY DEF Inv, CallTest
  <1>1. EndsResolving("called")
    BY DEF CallTest, EndsResolving, ReadyToCall
  <1>2. dependencies' = dependencies
    BY DEF CallTest
  <1>3. dependencies' \in [Fixtures -> SUBSET Fixtures]
    BY <1>0, <1>2 DEF TypeOK
  <1>4. \A f \in Fixtures : dependencies[f] \subseteq dependencies'[f]
                          /\ dependencies'[f] \subseteq Declared[f]
    BY <1>0, <1>2 DEF DependenciesInv
  <1>5. \A g \in UsedBy(current) : Scope[g] # "test" => users[Context(g)][g] = current
    BY <1>0, CalledHasRecorded
  <1> QED
    BY <1>1, <1>3, <1>4, <1>5, EndsResolvingStep

-----------------------------------------------------------------------------
(***************************************************************************)
(* Fixtures are reused, entered and started.                               *)
(***************************************************************************)
\* Recording f makes the current test the user of f and of all it rests on.
LEMMA RecordedFacts ==
  ASSUME TypeOK, DependenciesInv, CacheInv, current \in Tests,
         NEW below \in [Fixtures -> SUBSET Fixtures],
         \A g \in Fixtures : dependencies[g] \subseteq below[g] /\ below[g] \subseteq Declared[g],
         NEW f \in UsedBy(current),
         NEW C \in SUBSET Fixtures, f \in C,
         \A g \in C : Declared[g] \subseteq C /\ Declared[g] \subseteq below[g],
         users' = Recorded(f, below)
  PROVE  /\ users' \in [Contexts -> [Fixtures -> 0 .. NumTests]]
         /\ \A g \in Reachable({f}, Declared) : Scope[g] # "test" => users'[Context(g)][g] = current
         /\ \A c \in Contexts, g \in Fixtures :
              \/ users'[c][g] = users[c][g]
              \/ users'[c][g] = current /\ g \in UsedBy(current) /\ c = Context(g) /\ c # "test"
  <1>1. /\ Used(f, below) \subseteq Reachable({f}, Declared)
        /\ Reachable({f}, Declared) \subseteq Used(f, below)
    BY UsedByFacts, UsedIsDeclared, UsedIsAll
  <1>2. Reachable({f}, Declared) \subseteq UsedBy(current)
    BY UsedByFacts, RestsWithin
  <1>3. \A c \in Contexts, g \in Fixtures :
          users'[c][g] = IF g \in Used(f, below) /\ Context(g) = c /\ c # "test"
                         THEN current ELSE users[c][g]
    BY DEF Recorded
  <1>4. users' \in [Contexts -> [Fixtures -> 0 .. NumTests]]
    BY DEF Recorded, TypeOK
  <1>5. \A g \in Fixtures : Context(g) \in Contexts /\ (Scope[g] # "test" => Context(g) # "test")
    BY ContextFacts, ContextIsPlace, NamesDiffer DEF Place
  <1>6. UsedBy(current) \in SUBSET Fixtures
    BY UsedByFacts
  <1> QED
    BY <1>1, <1>2, <1>3, <1>4, <1>5, <1>6

\* A record keeps its invariant, but for what the current test has been given.
LEMMA RecordedUsers ==
  ASSUME Inv, phase = "resolving", current \in Tests, UNCHANGED <<current, phase, outcome>>,
         \A c \in Contexts, g \in Fixtures :
           \/ users'[c][g] = users[c][g]
           \/ users'[c][g] = current /\ g \in UsedBy(current) /\ c = Context(g) /\ c # "test"
  PROVE  /\ \A c \in Contexts, f \in Fixtures : users'[c][f] # 0 =>
              /\ users'[c][f] <= current
              /\ f \in UsedBy(users'[c][f])
              /\ c = Place(f, ModuleOf[users'[c][f]])
         /\ \A c \in Contexts, f \in Fixtures : users[c][f] # 0 => users'[c][f] # 0
         /\ \A u \in Tests : \A f \in UsedBy(u) :
              LET c == Place(f, ModuleOf[u]) IN
                outcome'[u] = "called" /\ (Open(c)' \/ (c = "session" /\ phase' # "closed"))
                  => users'[c][f] >= u
  <1>1. TypeOK /\ UsersInv /\ Progress
    BY DEF Inv
  <1>2. current # 0 /\ current \in Nat /\ Tests \subseteq Nat
    BY <1>1, CurrentTest, TestNumbers
  <1>3. \A c \in Contexts, f \in Fixtures : users'[c][f] # 0 =>
          /\ users'[c][f] <= current
          /\ f \in UsedBy(users'[c][f])
          /\ c = Place(f, ModuleOf[users'[c][f]])
    BY <1>1, <1>2, ContextIsPlace DEF UsersInv
  <1>4. \A c \in Contexts, f \in Fixtures : users[c][f] # 0 => users'[c][f] # 0
    BY <1>2
  <1>5. \A m : Open(m)' <=> Open(m)
    BY DEF Open
  <1>6. ASSUME NEW u \in Tests, NEW f \in UsedBy(u), outcome[u] = "called",
               Open(Place(f, ModuleOf[u])) \/ Place(f, ModuleOf[u]) = "session"
        PROVE  users'[Place(f, ModuleOf[u])][f] >= u
    <2>1. users[Place(f, ModuleOf[u])][f] >= u
      BY <1>1, <1>6 DEF UsersInv
    <2>2. u <= current
      BY <1>1, <1>6 DEF Progress
    <2>3. f \in Fixtures /\ Place(f, ModuleOf[u]) \in Contexts
      BY UsedByFacts, ContextFacts
    <2> QED
      BY <1>2, <2>1, <2>2, <2>3
  <1> QED
    BY <1>3, <1>4, <1>5, <1>6

\* The current test goes on, with more in the cache and more noted.
Grows ==
  /\ current' = current
  /\ \A g \in Fixtures : Cached(g) => Cached(g)'
  /\ \A f \in Fixtures : dependencies[f] \subseteq dependencies'[f]

LEMMA GivenGrows ==
  ASSUME Grows, NEW k, stack'[k].for = stack[k].for, stack[k].for \in Fixtures \union {Test}
  PROVE  Given(k) \subseteq Given(k)' /\ Asked(k)' = Asked(k)
  BY DEF Grows, Given, Noticed, InScope, Asked

\* A frame that is left alone.
LEMMA FrameKept ==
  ASSUME Grows, NEW k, FrameInv(k), stack[k].for \in Fixtures \union {Test},
         stack'[k].for = stack[k].for, stack'[k].todo = stack[k].todo,
         k > 1 => ~Cached(stack[k].for)',
         k < Len(stack') =>
           /\ stack[k].todo # << >> /\ Head(stack[k].todo) = stack'[k + 1].for
           /\ Noticed(stack[k].for, stack[k + 1].for)'
  PROVE  FrameInv(k)'
  <1>1. Given(k) \subseteq Given(k)' /\ Asked(k)' = Asked(k)
    BY GivenGrows
  <1>2. current' = current
    BY DEF Grows
  <1> QED
    BY <1>1, <1>2 DEF FrameInv, UsedBy, Reachable

\* The top frame, once it has been given what it waited for.
LEMMA FrameSupplied ==
  ASSUME Grows, NEW k, FrameInv(k), stack[k].for \in Fixtures \union {Test},
         stack'[k].for = stack[k].for, stack'[k].todo = Tail(stack[k].todo),
         stack[k].todo \in Seq(Parameters), stack[k].todo # << >>,
         NEW f \in Fixtures, f = Head(stack[k].todo),
         Cached(f)', Noticed(stack[k].for, f)',
         k > 1 => ~Cached(stack[k].for)',
         ~(k < Len(stack'))
  PROVE  FrameInv(k)'
  <1>1. Given(k) \subseteq Given(k)' /\ Asked(k)' = Asked(k)
    BY GivenGrows
  <1>2. current' = current
    BY DEF Grows
  <1>3. Range(stack[k].todo) = {f} \union Range(stack'[k].todo)
    BY RangeOfTail
  <1>4. f \in Given(k)'
    BY DEF Given
  <1>5. Asked(k)' \subseteq Range(stack'[k].todo) \union Given(k)'
    BY <1>1, <1>3, <1>4 DEF FrameInv
  <1>6. Range(stack'[k].todo) \subseteq Asked(k)'
    BY <1>1, <1>3 DEF FrameInv
  <1> QED
    BY <1>2, <1>5, <1>6 DEF FrameInv, UsedBy, Reachable

\* The parent of a fixture that was not refused lives no longer than it.
LEMMA NotRefused ==
  ASSUME ~BreaksScope, Wanted \in Fixtures, Parent \in Fixtures
  PROVE  InScope(Parent, Wanted)
  <1>1. ~(ScopeRank[Scope[Wanted]] < ScopeRank[Scope[Parent]])
    BY ConstantsAssumption DEF BreaksScope
  <1>2. \A f \in Fixtures : ScopeRank[Scope[f]] \in Nat
    BY ConstantsAssumption DEF ScopeRank
  <1> QED
    BY <1>1, <1>2 DEF InScope

\* Nothing but what is noted and who is recorded changes for the cache.
LEMMA CacheKept ==
  ASSUME CacheInv, phase = "resolving", UNCHANGED <<current, phase, cache>>,
         \A f \in Fixtures : dependencies[f] \subseteq dependencies'[f]
  PROVE  CacheInv'
  <1>1. \A m : Open(m)' <=> Open(m)
    BY DEF Open
  <1>2. \A g, c : Held(g, c)' <=> Held(g, c)
    BY DEF Held
  <1> QED
    BY <1>1, <1>2 DEF CacheInv, UsedBy, Reachable

LEMMA ChargesKept ==
  ASSUME ChargesInv, UNCHANGED <<current, phase, outcome, charges>>
  PROVE  ChargesInv'
  BY DEF ChargesInv, Callable, Shares, UsedBy, Reachable

LEMMA ReuseFixtureStep == ASSUME Inv, ReuseFixture PROVE Inv'
  <1>1. /\ TypeOK /\ Progress /\ CacheInv /\ FinalizersInv /\ DependenciesInv /\ UsersInv
        /\ ChargesInv /\ StackInv
    BY DEF Inv
  <1>2. /\ Resolving /\ Wanted \in Fixtures /\ ~BreaksScope /\ Cached(Wanted)
        /\ dependencies' = Noted /\ users' = Recorded(Wanted, Noted)
        /\ stack' = Supplied(stack)
        /\ UNCHANGED <<current, phase, cache, finalizers, outcome, charges>>
    BY DEF ReuseFixture
  <1>3. /\ current \in Tests /\ current # 0 /\ phase = "resolving"
        /\ Top.todo \in Seq(Parameters) /\ Top.todo # << >>
        /\ Wanted \in UsedBy(current)
        /\ Parent # Test => Wanted \in Noted[Parent]
        /\ Noted \in [Fixtures -> SUBSET Fixtures]
        /\ \A f \in Fixtures : dependencies[f] \subseteq Noted[f] /\ Noted[f] \subseteq Declared[f]
    BY <1>2, WantedFacts DEF Resolving
  <1>4. /\ stack \in Seq(Frames) /\ Len(stack) \in Nat \ {0} /\ Top = stack[Len(stack)]
        /\ stack # << >> /\ DOMAIN stack = 1 .. Len(stack)
        /\ Parent = stack[Len(stack)].for /\ (Parent # Test => Parent \in Fixtures)
        /\ (Parent = Test <=> Len(stack) = 1)
    BY <1>1, <1>3, StackFacts DEF Parent
  <1>5. Shape(stack, stack', 0, TRUE)
    BY <1>2, <1>3, <1>4, SuppliedShape
  <1>6. /\ stack' \in Seq(Frames) /\ Len(stack') = Len(stack) /\ stack' # << >>
        /\ DOMAIN stack' = DOMAIN stack
        /\ \A k \in DOMAIN stack :
             /\ stack'[k].for = stack[k].for
             /\ stack'[k].todo = IF k = Len(stack) THEN Tail(stack[k].todo) ELSE stack[k].todo
    BY <1>4, <1>5 DEF Shape
  <1>7. \A f \in Fixtures : dependencies[f] \subseteq dependencies'[f]
    BY <1>2, <1>3
  <1>8. Grows
    BY <1>2, <1>7 DEF Grows, Cached, Context
  <1>9. /\ users' \in [Contexts -> [Fixtures -> 0 .. NumTests]]
        /\ \A g \in Reachable({Wanted}, Declared) :
             Scope[g] # "test" => users'[Context(g)][g] = current
        /\ \A c \in Contexts, g \in Fixtures :
             \/ users'[c][g] = users[c][g]
             \/ users'[c][g] = current /\ g \in UsedBy(current) /\ c = Context(g) /\ c # "test"
    <2> DEFINE C == {h \in Fixtures : Cached(h)}
    <2>1. C \in SUBSET Fixtures /\ Wanted \in C
      BY <1>2
    <2>2. \A g \in C : Declared[g] \subseteq C /\ Declared[g] \subseteq Noted[g]
      BY <1>1, <1>3, CachedIsComplete
    <2> HIDE DEF C
    <2> QED
      BY <1>1, <1>2, <1>3, <2>1, <2>2, RecordedFacts
  <1>10. TypeOK'
    BY <1>1, <1>2, <1>3, <1>6, <1>9 DEF TypeOK
  <1>11. CacheInv'
    BY <1>1, <1>2, <1>3, <1>7, CacheKept
  <1>12. FinalizersInv'
    <2>1. Closing \notin Contexts
      BY <1>3, NamesDiffer DEF Closing
    <2> QED
      BY <1>1, <1>2, <1>3, <2>1, FinalizersStay
  <1>13. StackInv'
    <2>1. \A k \in DOMAIN stack : FrameInv(k) /\ stack[k] \in Frames
      BY <1>1, <1>3, <1>4 DEF StackInv
    <2>2. \A k \in DOMAIN stack : k > 1 => ~Cached(stack[k].for)'
      BY <1>2, <1>6, <2>1 DEF FrameInv, Cached, Context
    <2>3. PICK f \in Fixtures : f = Wanted
      BY <1>2
    <2>4. ASSUME NEW k \in DOMAIN stack PROVE FrameInv(k)'
      <3>0. FrameInv(k) /\ stack[k].for \in Fixtures \union {Test} /\ (k > 1 => ~Cached(stack[k].for)')
        BY <2>1, <2>2 DEF Frames
      <3>1. CASE k = Len(stack)
        <4>1. /\ stack'[k].for = stack[k].for /\ stack'[k].todo = Tail(stack[k].todo)
              /\ stack[k].todo \in Seq(Parameters) /\ stack[k].todo # << >>
              /\ f = Head(stack[k].todo) /\ ~(k < Len(stack'))
          BY <1>3, <1>4, <1>6, <2>3, <3>1 DEF Wanted
        <4>2. Cached(f)'
          BY <1>2, <2>3 DEF Cached, Context
        <4>3. stack[k].for = Test \/ (InScope(stack[k].for, f) /\ f \in dependencies'[stack[k].for])
          BY <1>2, <1>3, <1>4, <2>3, <3>1, NotRefused
        <4>4. Noticed(stack[k].for, f)'
          BY <4>1, <4>3 DEF Noticed, InScope
        <4> QED
          BY <1>8, <3>0, <4>1, <4>2, <4>4, FrameSupplied
      <3>2. CASE k # Len(stack)
        <4>1. k \in Nat /\ k < Len(stack) /\ k + 1 \in DOMAIN stack
          BY <1>4, <3>2
        <4>2. /\ stack'[k].for = stack[k].for /\ stack'[k].todo = stack[k].todo
              /\ stack'[k + 1].for = stack[k + 1].for
          BY <1>6, <3>2, <4>1
        <4>3. /\ stack[k].todo # << >> /\ Head(stack[k].todo) = stack'[k + 1].for
              /\ Noticed(stack[k].for, stack[k + 1].for)
          BY <2>1, <4>1, <4>2 DEF FrameInv
        <4>4. Noticed(stack[k].for, stack[k + 1].for)'
          BY <1>7, <3>0, <4>2, <4>3 DEF Noticed, InScope
        <4> QED
          BY <1>8, <3>0, <4>2, <4>3, <4>4, FrameKept
      <3> QED
        BY <3>1, <3>2
    <2>5. \A j, k \in DOMAIN stack' : stack'[j].for = stack'[k].for => j = k
      BY <1>1, <1>3, <1>6 DEF StackInv
    <2> QED
      BY <1>6, <2>4, <2>5 DEF StackInv
  <1>14. DependenciesInv'
    BY <1>2, <1>3 DEF DependenciesInv
  <1>15. UsersInv'
    <2>1. \A p \in Range(Wants[current]) :
            \/ p \in Range(stack'[1].todo)
            \/ \A g \in Reachable({p}, Declared) : Scope[g] # "test" => users'[Context(g)][g] = current
      <3> SUFFICES ASSUME NEW p \in Range(Wants[current]), p \notin Range(stack'[1].todo),
                          NEW g \in Reachable({p}, Declared), Scope[g] # "test"
                   PROVE  users'[Context(g)][g] = current
        OBVIOUS
      <3>1. CASE p \notin Range(stack[1].todo)
        <4>1. users[Context(g)][g] = current
          BY <1>1, <1>3, <3>1 DEF UsersInv
        <4>2. g \in Fixtures /\ Context(g) \in Contexts
          BY <1>3, ContextFacts, ContextIsPlace DEF Reachable
        <4> QED
          BY <1>9, <4>1, <4>2
      <3>2. CASE p \in Range(stack[1].todo)
        <4>1. Len(stack) = 1
          BY <1>4, <1>6, <3>2
        <4>2. stack'[1].todo = Tail(stack[1].todo) /\ Wanted = Head(stack[1].todo)
              /\ stack[1].todo \in Seq(Parameters) /\ stack[1].todo # << >>
          BY <1>3, <1>4, <1>6, <4>1 DEF Wanted
        <4>3. p = Wanted
          BY <3>2, <4>2, RangeOfTail
        <4> QED
          BY <1>9, <4>3
      <3> QED
        BY <3>1, <3>2
    <2>2. \A g : Context(g)' = Context(g)
      BY <1>2 DEF Context
    <2>3. /\ \A c \in Contexts, f \in Fixtures : users'[c][f] # 0 =>
               /\ users'[c][f] <= current
               /\ f \in UsedBy(users'[c][f])
               /\ c = Place(f, ModuleOf[users'[c][f]])
          /\ \A c \in Contexts, f \in Fixtures : users[c][f] # 0 => users'[c][f] # 0
          /\ \A u \in Tests : \A f \in UsedBy(u) :
               LET c == Place(f, ModuleOf[u]) IN
                 outcome'[u] = "called" /\ (Open(c)' \/ (c = "session" /\ phase' # "closed"))
                   => users'[c][f] >= u
      BY <1>2, <1>3, <1>9, RecordedUsers
    <2> QED
      BY <1>1, <1>2, <2>1, <2>2, <2>3 DEF UsersInv
  <1>16. ChargesInv' /\ Progress'
    BY <1>1, <1>2, ChargesKept DEF Progress, LastOfModule
  <1> QED
    BY <1>10, <1>11, <1>12, <1>13, <1>14, <1>15, <1>16 DEF Inv

LEMMA EnterFixtureStep == ASSUME Inv, EnterFixture PROVE Inv'
  <1>1. /\ TypeOK /\ Progress /\ CacheInv /\ FinalizersInv /\ DependenciesInv /\ UsersInv
        /\ ChargesInv /\ StackInv
    BY DEF Inv
  <1> DEFINE frame == [for |-> Wanted, todo |-> Needs[Wanted]]
  <1>2. /\ Resolving /\ Wanted \in Fixtures /\ ~BreaksScope /\ ~Cached(Wanted) /\ ~Cyclic(Wanted)
        /\ dependencies' = Noted /\ stack' = Append(stack, frame)
        /\ UNCHANGED <<current, phase, cache, finalizers, users, outcome, charges>>
    BY DEF EnterFixture
  <1>3. /\ current \in Tests /\ current # 0 /\ phase = "resolving"
        /\ Top.todo \in Seq(Parameters) /\ Top.todo # << >>
        /\ Wanted \in UsedBy(current)
        /\ Parent # Test => Wanted \in Noted[Parent]
        /\ Noted \in [Fixtures -> SUBSET Fixtures]
        /\ \A f \in Fixtures : dependencies[f] \subseteq Noted[f] /\ Noted[f] \subseteq Declared[f]
    BY <1>2, WantedFacts DEF Resolving
  <1>4. /\ stack \in Seq(Frames) /\ Len(stack) \in Nat \ {0} /\ Top = stack[Len(stack)]
        /\ stack # << >> /\ DOMAIN stack = 1 .. Len(stack)
        /\ Parent = stack[Len(stack)].for /\ (Parent # Test => Parent \in Fixtures)
    BY <1>1, <1>3, StackFacts DEF Parent
  <1>5. frame \in Frames /\ frame.for = Wanted /\ frame.todo = Needs[Wanted]
    BY <1>2, ConstantsAssumption DEF Frames
  <1> HIDE DEF frame
  <1>6. /\ stack' \in Seq(Frames) /\ Len(stack') = Len(stack) + 1 /\ stack' # << >>
        /\ DOMAIN stack' = 1 .. Len(stack) + 1 /\ stack'[Len(stack) + 1] = frame
        /\ \A k \in DOMAIN stack : stack'[k] = stack[k]
    BY <1>2, <1>4, <1>5
  <1>7. \A f \in Fixtures : dependencies[f] \subseteq dependencies'[f]
    BY <1>2, <1>3
  <1>8. Grows
    BY <1>2, <1>7 DEF Grows, Cached, Context
  <1>9. TypeOK'
    BY <1>1, <1>2, <1>3, <1>6 DEF TypeOK
  <1>10. CacheInv'
    BY <1>1, <1>2, <1>3, <1>7, CacheKept
  <1>11. FinalizersInv'
    <2>1. Closing \notin Contexts
      BY <1>3, NamesDiffer DEF Closing
    <2> QED
      BY <1>1, <1>2, <1>3, <2>1, FinalizersStay
  <1>12. StackInv'
    <2>1. \A k \in DOMAIN stack : FrameInv(k) /\ stack[k] \in Frames
      BY <1>1, <1>3, <1>4 DEF StackInv
    <2>2. PICK f \in Fixtures : f = Wanted
      BY <1>2
    <2>3. ASSUME NEW k \in DOMAIN stack PROVE FrameInv(k)'
      <3>0. /\ FrameInv(k) /\ stack[k].for \in Fixtures \union {Test}
            /\ stack'[k].for = stack[k].for /\ stack'[k].todo = stack[k].todo
        BY <1>6, <2>1 DEF Frames
      <3>1. k > 1 => ~Cached(stack[k].for)'
        BY <1>2, <3>0 DEF FrameInv, Cached, Context
      <3>2. CASE k = Len(stack)
        <4>1. /\ stack[k].todo # << >> /\ Head(stack[k].todo) = f
              /\ k \in Nat /\ stack'[k + 1].for = f
          BY <1>3, <1>4, <1>5, <1>6, <2>2, <3>2 DEF Wanted
        <4>2. stack[k].for = Test \/ (InScope(stack[k].for, f) /\ f \in dependencies'[stack[k].for])
          BY <1>2, <1>3, <1>4, <2>2, <3>2, NotRefused
        <4>3. Noticed(stack[k].for, stack[k + 1].for)'
          BY <3>0, <4>1, <4>2 DEF Noticed, InScope
        <4> QED
          BY <1>8, <3>0, <3>1, <4>1, <4>3, FrameKept
      <3>3. CASE k # Len(stack)
        <4>1. k \in Nat /\ k < Len(stack) /\ k + 1 \in DOMAIN stack
          BY <1>4, <3>3
        <4>2. stack'[k + 1].for = stack[k + 1].for
          BY <1>6, <4>1
        <4>3. /\ stack[k].todo # << >> /\ Head(stack[k].todo) = stack'[k + 1].for
              /\ Noticed(stack[k].for, stack[k + 1].for)
          BY <3>0, <4>1, <4>2 DEF FrameInv
        <4>4. Noticed(stack[k].for, stack[k + 1].for)'
          BY <1>7, <3>0, <4>2, <4>3 DEF Noticed, InScope
        <4> QED
          BY <1>8, <3>0, <3>1, <4>2, <4>3, <4>4, FrameKept
      <3> QED
        BY <3>2, <3>3
    <2>4. ASSUME NEW k, k = Len(stack) + 1 PROVE FrameInv(k)'
      <3>1. /\ k > 1 /\ k # 1 /\ ~(k < Len(stack'))
            /\ stack'[k].for = f /\ stack'[k].todo = Needs[f]
        BY <1>4, <1>5, <1>6, <2>2, <2>4
      <3>2. f # Test /\ f \in UsedBy(current) /\ ~Cached(f)
        BY <1>2, <1>3, <2>2, ConstantsAssumption
      <3>3. f \in UsedBy(current)' /\ ~Cached(f)'
        BY <1>2, <3>2 DEF UsedBy, Reachable, Cached, Context
      <3> QED
        BY <3>1, <3>2, <3>3 DEF FrameInv, Asked
    <2>5. \A j, k \in DOMAIN stack' : stack'[j].for = stack'[k].for => j = k
      <3>1. \A k \in DOMAIN stack : stack[k].for # Wanted
        BY <1>2 DEF Cyclic
      <3>2. \A k \in DOMAIN stack' : k \in DOMAIN stack \/ k = Len(stack) + 1
        BY <1>4, <1>6
      <3> QED
        BY <1>1, <1>3, <1>5, <1>6, <3>1, <3>2 DEF StackInv
    <2> QED
      BY <1>4, <1>6, <2>3, <2>4, <2>5 DEF StackInv
  <1>13. DependenciesInv'
    BY <1>2, <1>3 DEF DependenciesInv
  <1>14. UsersInv'
    <2>1. stack'[1].todo = stack[1].todo
      BY <1>4, <1>6
    <2>2. \A m : Open(m)' <=> Open(m)
      BY <1>2 DEF Open
    <2> QED
      BY <1>1, <1>2, <1>3, <2>1, <2>2 DEF UsersInv, Context, UsedBy, Reachable, Place
  <1>15. ChargesInv' /\ Progress'
    BY <1>1, <1>2, ChargesKept DEF Progress, LastOfModule
  <1> QED
    BY <1>9, <1>10, <1>11, <1>12, <1>13, <1>14, <1>15 DEF Inv

\* What a fixture may rest on is held for it, if it is cached at all.
LEMMA HeldWhereCached ==
  ASSUME current \in Tests, NEW f \in Fixtures, NEW g \in Fixtures, InScope(f, g), Cached(g)
  PROVE  Held(g, Context(f))
  <1>1. /\ Scope[f] \in {"test", "module", "session"} /\ Scope[g] \in {"test", "module", "session"}
        /\ ModuleOf[current] \in Modules
    BY ContextFacts
  <1>2. CASE Scope[g] = "session"
    BY <1>2 DEF Held, Cached, Context
  <1>3. CASE Scope[g] = "module"
    <2>1. Scope[f] # "session"
      BY <1>3, ConstantsAssumption DEF InScope, ScopeRank
    <2> QED
      BY <1>1, <1>3, <2>1 DEF Held, Cached, Context
  <1>4. CASE Scope[g] = "test"
    <2>1. Scope[f] = "test"
      BY <1>1, <1>4, ConstantsAssumption DEF InScope, ScopeRank
    <2> QED
      BY <1>4, <2>1 DEF Held, Cached, Context
  <1> QED
    BY <1>1, <1>2, <1>3, <1>4

\* The top of the stack is complete: everything its fixture declares was given.
LEMMA SuppliedFacts ==
  ASSUME Inv, Supplying
  PROVE  /\ current \in Tests /\ current # 0 /\ phase = "resolving"
         /\ Len(stack) > 1 /\ Parent \in Fixtures /\ Parent \in UsedBy(current) /\ ~Cached(Parent)
         /\ \A g \in Declared[Parent] :
              Cached(g) /\ InScope(Parent, g) /\ g \in dependencies[Parent]
         /\ stack[Len(stack) - 1].todo \in Seq(Parameters)
         /\ stack[Len(stack) - 1].todo # << >> /\ Head(stack[Len(stack) - 1].todo) = Parent
         /\ Noticed(stack[Len(stack) - 1].for, Parent)
  <1>1. /\ TypeOK /\ StackInv /\ Progress /\ phase = "resolving"
        /\ Top.todo = << >> /\ Parent # Test
    BY DEF Inv, Supplying
  <1>2. current \in Tests /\ current # 0
    BY <1>1, CurrentTest DEF Progress
  <1>3. /\ stack \in Seq(Frames) /\ DOMAIN stack = 1 .. Len(stack) /\ Len(stack) \in Nat \ {0}
        /\ FrameInv(Len(stack)) /\ Top = stack[Len(stack)] /\ Parent = stack[Len(stack)].for
        /\ Len(stack) # 1 /\ Parent \in Fixtures
    BY <1>1, StackFacts DEF Parent
  <1>4. Len(stack) > 1 /\ Len(stack) - 1 \in DOMAIN stack /\ Len(stack) - 1 < Len(stack)
        /\ (Len(stack) - 1) + 1 = Len(stack)
    BY <1>3
  <1>5. Asked(Len(stack)) = Range(Needs[Parent])
    BY <1>3 DEF Asked
  <1>6. Range(stack[Len(stack)].todo) = {}
    BY <1>1, <1>3, RangeOfNone
  <1>7. Range(Needs[Parent]) \subseteq Given(Len(stack))
    BY <1>3, <1>5, <1>6 DEF FrameInv
  <1>8. \A g \in Declared[Parent] : Cached(g) /\ InScope(Parent, g) /\ g \in dependencies[Parent]
    BY <1>1, <1>3, <1>7 DEF Given, Noticed, Declared
  <1>9. FrameInv(Len(stack) - 1) /\ stack[Len(stack) - 1] \in Frames
    BY <1>1, <1>3, <1>4 DEF StackInv
  <1>10. stack[Len(stack) - 1].todo \in Seq(Parameters)
    BY <1>9 DEF Frames
  <1>11. Parent \in UsedBy(current) /\ ~Cached(Parent)
    BY <1>3, <1>4 DEF FrameInv
  <1>12. /\ stack[Len(stack) - 1].todo # << >> /\ Head(stack[Len(stack) - 1].todo) = Parent
         /\ Noticed(stack[Len(stack) - 1].for, Parent)
    BY <1>3, <1>4, <1>9 DEF FrameInv
  <1> QED
    BY <1>1, <1>2, <1>3, <1>4, <1>8, <1>10, <1>11, <1>12

\* What is cached in the context of a fixture is cached for the current test.
LEMMA SameContext ==
  ASSUME CacheInv, current \in Tests, NEW f \in Fixtures, NEW h \in Fixtures,
         <<h, Context(f)>> \in cache
  PROVE  Context(h) = Context(f) /\ Cached(h)
  <1>1. Context(f) \in Contexts
    BY ContextFacts, ContextIsPlace
  <1>2. /\ Scope[h] = "module" => Context(f) \in Modules
        /\ Scope[h] # "module" => Context(f) = Scope[h]
    BY <1>1 DEF CacheInv
  <1>3. Scope[f] \in {"test", "module", "session"}
    BY ContextFacts
  <1>4. Context(h) = Context(f)
    BY <1>2, <1>3, NamesDiffer DEF Context
  <1> QED
    BY <1>4 DEF Cached

\* The finalizer of a started fixture comes last in its context.
LEMMA StartedFinalizers ==
  ASSUME TypeOK, CacheInv, FinalizersInv, current \in Tests, phase = "resolving",
         NEW f \in Fixtures, ~Cached(f), \A g \in Declared[f] : Cached(g),
         cache' = cache \union {<<f, Context(f)>>}, phase' = phase,
         finalizers' = IF f \in Yields
                       THEN [finalizers EXCEPT ![Context(f)] = Pushed(@, f)]
                       ELSE finalizers
  PROVE  FinalizersInv' /\ finalizers' \in [Contexts -> Seq(Yields)]
  <1>1. Closing # "test" /\ Closing \notin Contexts /\ phase # "aborted"
    BY NamesDiffer DEF Closing
  <1>2. Context(f) \in Contexts /\ finalizers \in [Contexts -> Seq(Yields)]
    BY ContextFacts, ContextIsPlace DEF TypeOK
  <1>3. \A c \in Contexts : finalizers[c] \in Seq(Yields)
    BY <1>2
  <1>4. PICK c0 \in Contexts : c0 = Context(f)
    BY <1>2
  <1>5. \A h \in Yields, c \in Contexts : <<h, c>> \in cache => h \in Range(finalizers[c])
    BY <1>1 DEF FinalizersInv
  <1>6. /\ \A c \in Contexts : \A i \in DOMAIN finalizers[c] : <<finalizers[c][i], c>> \in cache
        /\ \A c \in Contexts : \A i, j \in DOMAIN finalizers[c] :
             /\ i <= j => finalizers[c][j] \notin Rests(finalizers[c][i])
             /\ finalizers[c][i] = finalizers[c][j] => i = j
    BY DEF FinalizersInv
  <1>7. \A g : Rests(g)' = Rests(g)
    BY DEF Rests, Reachable
  <1>8. CASE f \notin Yields
    <2>1. finalizers' = finalizers
      BY <1>8
    <2>2. \A h \in Yields, c \in Contexts : <<h, c>> \in cache' => h \in Range(finalizers'[c])
      BY <1>5, <1>8, <2>1
    <2> QED
      BY <1>2, <1>6, <1>7, <2>1, <2>2 DEF FinalizersInv
  <1>9. CASE f \in Yields
    <2>1. finalizers' = [finalizers EXCEPT ![c0] = Append(finalizers[c0], f)]
      BY <1>4, <1>9 DEF Pushed
    <2> DEFINE n == Len(finalizers[c0]) + 1
    <2>2. finalizers' \in [Contexts -> Seq(Yields)]
      <3>1. Append(finalizers[c0], f) \in Seq(Yields)
        BY <1>3, <1>9
      <3> QED
        BY <1>2, <2>1, <3>1
    <2>3. \A c \in Contexts : c # c0 => finalizers'[c] = finalizers[c]
      BY <1>2, <2>1
    <2>4. /\ finalizers'[c0] = Append(finalizers[c0], f)
          /\ finalizers[c0] \in Seq(Yields)
      BY <1>2, <1>3, <2>1
    <2>5. /\ n \in Nat /\ DOMAIN finalizers'[c0] = DOMAIN finalizers[c0] \union {n}
          /\ DOMAIN finalizers[c0] \subseteq Nat
          /\ \A i \in DOMAIN finalizers[c0] : i < n /\ finalizers'[c0][i] = finalizers[c0][i]
          /\ finalizers'[c0][n] = f
      BY <2>4
    <2> HIDE DEF n
    <2>6. \A i \in DOMAIN finalizers[c0] :
            /\ finalizers[c0][i] # f
            /\ f \notin Rests(finalizers[c0][i])
      <3> SUFFICES ASSUME NEW i \in DOMAIN finalizers[c0]
                   PROVE  finalizers[c0][i] # f /\ f \notin Rests(finalizers[c0][i])
        OBVIOUS
      <3>1. PICK h \in Fixtures : h = finalizers[c0][i]
        BY <2>4, ConstantsAssumption
      <3>2. <<h, Context(f)>> \in cache
        BY <1>4, <1>6, <3>1
      <3>3. Cached(h) /\ h # f
        BY <3>2, SameContext DEF Cached
      <3>4. Rests(h) \subseteq {g \in Fixtures : Cached(g)}
        BY <3>3, CachedIsComplete, RestsWithin
      <3> QED
        BY <3>1, <3>3, <3>4
    <2>7. f \notin Rests(f)
      <3> DEFINE C == {g \in Fixtures : Cached(g)}
      <3>1. C \in SUBSET Fixtures /\ Declared[f] \subseteq C /\ \A g \in C : Declared[g] \subseteq C
        BY CachedIsComplete, DeclaredType
      <3>2. f \notin C
        OBVIOUS
      <3> HIDE DEF C
      <3>3. Rests(f) \subseteq C
        BY <3>1, ReachableIsLeast DEF Rests
      <3> QED
        BY <3>2, <3>3
    <2>8. \A c \in Contexts : \A i \in DOMAIN finalizers'[c] : <<finalizers'[c][i], c>> \in cache'
      <3>1. \A i \in DOMAIN finalizers'[c0] : <<finalizers'[c0][i], c0>> \in cache'
        BY <1>4, <1>6, <2>5
      <3> QED
        BY <1>6, <2>3, <3>1
    <2>9. \A h \in Yields, c \in Contexts : <<h, c>> \in cache' => h \in Range(finalizers'[c])
      <3> SUFFICES ASSUME NEW h \in Yields, NEW c \in Contexts, <<h, c>> \in cache'
                   PROVE  h \in Range(finalizers'[c])
        OBVIOUS
      <3>1. CASE <<h, c>> \in cache
        <4>1. h \in Range(finalizers[c])
          BY <1>5, <3>1
        <4> QED
          BY <2>3, <2>5, <4>1 DEF Range
      <3>2. CASE h = f /\ c = c0
        BY <2>5, <3>2 DEF Range
      <3> QED
        BY <1>4, <3>1, <3>2
    <2>10. \A c \in Contexts : \A i, j \in DOMAIN finalizers'[c] :
             /\ i <= j => finalizers'[c][j] \notin Rests(finalizers'[c][i])
             /\ finalizers'[c][i] = finalizers'[c][j] => i = j
      <3>1. ASSUME NEW i \in DOMAIN finalizers'[c0], NEW j \in DOMAIN finalizers'[c0]
            PROVE  /\ i <= j => finalizers'[c0][j] \notin Rests(finalizers'[c0][i])
                   /\ finalizers'[c0][i] = finalizers'[c0][j] => i = j
        <4>1. CASE i \in DOMAIN finalizers[c0] /\ j \in DOMAIN finalizers[c0]
          BY <1>6, <2>5, <4>1
        <4>2. CASE i = n /\ j = n
          BY <2>5, <2>7, <4>2
        <4>3. CASE i \in DOMAIN finalizers[c0] /\ j = n
          BY <2>5, <2>6, <4>3
        <4>4. CASE i = n /\ j \in DOMAIN finalizers[c0]
          <5>1. ~(i <= j)
            BY <2>5, <4>4
          <5> QED
            BY <2>5, <2>6, <4>4, <5>1
        <4> QED
          BY <2>5, <4>1, <4>2, <4>3, <4>4
      <3> QED
        BY <1>6, <2>3, <3>1
    <2> QED
      BY <1>7, <2>2, <2>8, <2>9, <2>10 DEF FinalizersInv
  <1> QED
    BY <1>8, <1>9

LEMMA StartFixtureStep == ASSUME Inv, StartFixture PROVE Inv'
  <1>1. /\ TypeOK /\ Progress /\ CacheInv /\ FinalizersInv /\ DependenciesInv /\ UsersInv
        /\ ChargesInv /\ StackInv
    BY DEF Inv
  <1>2. Supplying
    BY DEF StartFixture
  <1> DEFINE n == Len(stack)
  <1>3. PICK f \in Fixtures : f = Parent
    BY <1>2, SuppliedFacts
  <1>4. /\ cache' = cache \union {<<f, Context(f)>>}
        /\ users' = Recorded(f, dependencies)
        /\ finalizers' = IF f \in Yields
                         THEN [finalizers EXCEPT ![Context(f)] = Pushed(@, f)]
                         ELSE finalizers
        /\ stack' = Supplied(Front(stack))
        /\ UNCHANGED <<current, phase, dependencies, outcome, charges>>
    BY <1>3 DEF StartFixture
  <1>5. /\ current \in Tests /\ current # 0 /\ phase = "resolving"
        /\ n > 1 /\ f \in UsedBy(current) /\ ~Cached(f)
        /\ \A g \in Declared[f] : Cached(g) /\ InScope(f, g) /\ g \in dependencies[f]
        /\ stack[n - 1].todo \in Seq(Parameters)
        /\ stack[n - 1].todo # << >> /\ Head(stack[n - 1].todo) = f
        /\ Noticed(stack[n - 1].for, f)
    BY <1>2, <1>3, SuppliedFacts
  <1>6. /\ stack \in Seq(Frames) /\ n \in Nat \ {0} /\ stack # << >> /\ DOMAIN stack = 1 .. n
        /\ f = stack[n].for
    BY <1>1, <1>3, <1>5, StackFacts DEF Parent
  <1>7. Shape(stack, stack', 1, TRUE)
    BY <1>4, <1>5, <1>6, SuppliedFrontShape
  <1>8. n - 1 \in DOMAIN stack /\ n - 1 \in Nat /\ n - 1 # 0
    BY <1>5, <1>6
  <1>9. /\ stack' \in Seq(Frames) /\ Len(stack') = n - 1 /\ stack' # << >>
        /\ DOMAIN stack' = 1 .. n - 1
        /\ \A k \in DOMAIN stack' :
             /\ stack'[k].for = stack[k].for
             /\ stack'[k].todo = IF k = n - 1 THEN Tail(stack[k].todo) ELSE stack[k].todo
    BY <1>7, <1>8 DEF Shape
  <1>10. \A k \in DOMAIN stack' : k \in DOMAIN stack /\ k \in Nat /\ k # n
    BY <1>6, <1>9
  <1>11. \A g : Context(g)' = Context(g)
    BY <1>4 DEF Context
  <1>12. Context(f) \in Contexts
    BY <1>5, ContextFacts, ContextIsPlace
  <1>13. \A g \in Fixtures : Cached(g)' <=> Cached(g) \/ g = f
    BY <1>4, <1>11 DEF Cached
  <1>14. Grows
    BY <1>4, <1>13 DEF Grows
  <1>15. \A m : Open(m)' <=> Open(m)
    BY <1>4 DEF Open
  <1>16. /\ users' \in [Contexts -> [Fixtures -> 0 .. NumTests]]
         /\ \A g \in Reachable({f}, Declared) :
              Scope[g] # "test" => users'[Context(g)][g] = current
         /\ \A c \in Contexts, g \in Fixtures :
              \/ users'[c][g] = users[c][g]
              \/ users'[c][g] = current /\ g \in UsedBy(current) /\ c = Context(g) /\ c # "test"
    <2> DEFINE C == {h \in Fixtures : Cached(h)} \union {f}
    <2>1. C \in SUBSET Fixtures /\ f \in C
      OBVIOUS
    <2>2. \A g \in C : Declared[g] \subseteq C /\ Declared[g] \subseteq dependencies[g]
      <3>1. \A g \in Declared[f] : g \in Fixtures
        BY DeclaredType
      <3> QED
        BY <1>1, <1>5, <3>1, CachedIsComplete
    <2>3. dependencies \in [Fixtures -> SUBSET Fixtures]
          /\ \A g \in Fixtures : dependencies[g] \subseteq dependencies[g]
                              /\ dependencies[g] \subseteq Declared[g]
      BY <1>1 DEF TypeOK, DependenciesInv
    <2> HIDE DEF C
    <2> QED
      BY <1>1, <1>4, <1>5, <2>1, <2>2, <2>3, RecordedFacts
  <1>17. FinalizersInv' /\ finalizers' \in [Contexts -> Seq(Yields)]
    BY <1>1, <1>4, <1>5, StartedFinalizers
  <1>18. TypeOK'
    <2>1. cache' \in SUBSET (Fixtures \X Contexts)
      BY <1>1, <1>4, <1>12 DEF TypeOK
    <2> QED
      BY <1>1, <1>4, <1>9, <1>16, <1>17, <2>1 DEF TypeOK
  <1>19. CacheInv'
    <2> SUFFICES ASSUME NEW h \in Fixtures, NEW c \in Contexts, <<h, c>> \in cache'
                 PROVE  /\ Scope[h] = "module" => c \in Modules
                        /\ Scope[h] # "module" => c = Scope[h]
                        /\ \A g \in Declared[h] : Held(g, c)'
                        /\ Declared[h] \subseteq dependencies[h]
                        /\ c = "test" => h \in UsedBy(current)
                        /\ c \in Modules => Open(c)
      BY <1>4, <1>5, <1>15 DEF CacheInv, UsedBy, Reachable
    <2>1. \A g, d : Held(g, d) => Held(g, d)'
      BY <1>4 DEF Held
    <2>2. CASE <<h, c>> \in cache
      BY <1>1, <2>1, <2>2 DEF CacheInv
    <2>3. CASE h = f /\ c = Context(f)
      <3>1. \A g \in Declared[f] : Held(g, c)'
        BY <1>5, <2>1, <2>3, DeclaredType, HeldWhereCached
      <3>2. /\ Scope[h] = "module" => c \in Modules
            /\ Scope[h] # "module" => c = Scope[h]
        BY <1>5, <2>3, ContextFacts DEF Context
      <3>3. c \in Modules => Open(c)
        BY <1>5, <2>3, <3>2, ContextFacts, NamesDiffer DEF Context, Open
      <3> QED
        BY <1>5, <2>3, <3>1, <3>2, <3>3
    <2> QED
      BY <1>4, <2>2, <2>3
  <1>20. StackInv'
    <2>1. \A k \in DOMAIN stack : FrameInv(k) /\ stack[k] \in Frames
      BY <1>1, <1>5, <1>6 DEF StackInv
    <2>2. \A k \in DOMAIN stack' : stack[k].for # f
      BY <1>1, <1>5, <1>6, <1>8, <1>10 DEF StackInv
    <2>3. ASSUME NEW k \in DOMAIN stack' PROVE FrameInv(k)'
      <3>0. /\ k \in DOMAIN stack /\ k \in Nat
            /\ FrameInv(k) /\ stack[k].for \in Fixtures \union {Test}
            /\ stack'[k].for = stack[k].for
        BY <1>9, <1>10, <2>1 DEF Frames
      <3>1. k > 1 => ~Cached(stack[k].for)'
        <4> SUFFICES ASSUME k > 1 PROVE ~Cached(stack[k].for)'
          OBVIOUS
        <4>1. stack[k].for # Test /\ ~Cached(stack[k].for)
          BY <3>0 DEF FrameInv
        <4>2. PICK h \in Fixtures : h = stack[k].for
          BY <3>0, <4>1
        <4>3. <<h, Context(h)>> \notin cache /\ h # f
          BY <2>2, <4>1, <4>2 DEF Cached
        <4>4. <<h, Context(h)>> \notin cache'
          BY <1>4, <4>3
        <4>5. <<stack[k].for, Context(stack[k].for)>> \notin cache'
          BY <4>2, <4>4
        <4> QED
          BY <1>4, <1>9, <4>5 DEF Cached, Context
      <3>2. CASE k = n - 1
        <4>1. /\ stack'[k].todo = Tail(stack[k].todo)
              /\ stack[k].todo \in Seq(Parameters) /\ stack[k].todo # << >>
              /\ f = Head(stack[k].todo) /\ ~(k < Len(stack'))
          BY <1>5, <1>9, <3>0, <3>2
        <4>2. Cached(f)'
          BY <1>4 DEF Cached, Context
        <4>3. Noticed(stack[k].for, f)'
          BY <1>4, <1>5, <1>9, <3>0, <3>2 DEF Noticed, InScope
        <4> QED
          BY <1>14, <3>0, <3>1, <4>1, <4>2, <4>3, FrameSupplied
      <3>3. CASE k # n - 1
        <4>1. k < n /\ k + 1 \in DOMAIN stack'
          BY <1>6, <1>9, <3>0, <3>3
        <4>2. /\ stack'[k].todo = stack[k].todo /\ stack'[k + 1].for = stack[k + 1].for
          BY <1>9, <3>3, <4>1
        <4>3. /\ stack[k].todo # << >> /\ Head(stack[k].todo) = stack'[k + 1].for
              /\ Noticed(stack[k].for, stack[k + 1].for)
          BY <3>0, <4>1, <4>2 DEF FrameInv
        <4>4. Noticed(stack[k].for, stack[k + 1].for)'
          BY <1>4, <3>0, <4>2, <4>3 DEF Noticed, InScope
        <4> QED
          BY <1>14, <3>0, <3>1, <4>2, <4>3, <4>4, FrameKept
      <3> QED
        BY <3>2, <3>3
    <2>4. \A j, k \in DOMAIN stack' : stack'[j].for = stack'[k].for => j = k
      BY <1>1, <1>5, <1>9, <1>10 DEF StackInv
    <2> QED
      BY <1>9, <2>3, <2>4 DEF StackInv
  <1>21. DependenciesInv'
    BY <1>1, <1>4 DEF DependenciesInv
  <1>22. UsersInv'
    <2>1. \A p \in Range(Wants[current]) :
            \/ p \in Range(stack'[1].todo)
            \/ \A g \in Reachable({p}, Declared) : Scope[g] # "test" => users'[Context(g)][g] = current
      <3> SUFFICES ASSUME NEW p \in Range(Wants[current]), p \notin Range(stack'[1].todo),
                          NEW g \in Reachable({p}, Declared), Scope[g] # "test"
                   PROVE  users'[Context(g)][g] = current
        OBVIOUS
      <3>1. CASE p \notin Range(stack[1].todo)
        <4>1. users[Context(g)][g] = current
          BY <1>1, <1>5, <3>1 DEF UsersInv
        <4>2. g \in Fixtures /\ Context(g) \in Contexts
          BY <1>5, ContextFacts, ContextIsPlace DEF Reachable
        <4> QED
          BY <1>16, <4>1, <4>2
      <3>2. CASE p \in Range(stack[1].todo)
        <4>1. n - 1 = 1
          BY <1>5, <1>6, <1>9, <3>2
        <4>2. stack'[1].todo = Tail(stack[1].todo) /\ f = Head(stack[1].todo)
              /\ stack[1].todo \in Seq(Parameters) /\ stack[1].todo # << >>
          <5>1. 1 \in DOMAIN stack'
            BY <1>9, <4>1
          <5> QED
            BY <1>5, <1>9, <4>1, <5>1
        <4>3. p = f
          BY <3>2, <4>2, RangeOfTail
        <4> QED
          BY <1>16, <4>3
      <3> QED
        BY <3>1, <3>2
    <2>2. /\ \A c \in Contexts, h \in Fixtures : users'[c][h] # 0 =>
               /\ users'[c][h] <= current
               /\ h \in UsedBy(users'[c][h])
               /\ c = Place(h, ModuleOf[users'[c][h]])
          /\ \A c \in Contexts, h \in Fixtures : users[c][h] # 0 => users'[c][h] # 0
          /\ \A u \in Tests : \A h \in UsedBy(u) :
               LET c == Place(h, ModuleOf[u]) IN
                 outcome'[u] = "called" /\ (Open(c)' \/ (c = "session" /\ phase' # "closed"))
                   => users'[c][h] >= u
      BY <1>4, <1>5, <1>16, RecordedUsers
    <2>3. Context(f) # "test" => users'[Context(f)][f] # 0
      <3>1. f \in Reachable({f}, Declared)
        BY ReachedFromOne
      <3>2. Scope[f] = "test" => Context(f) = "test"
        BY DEF Context
      <3> QED
        BY <1>5, <1>16, <3>1, <3>2
    <2>4. \A h \in Fixtures, c \in Contexts \ {"test"} : <<h, c>> \in cache' => users'[c][h] # 0
      BY <1>1, <1>4, <2>2, <2>3 DEF UsersInv
    <2> QED
      BY <1>1, <1>4, <1>11, <2>1, <2>2, <2>4 DEF UsersInv
  <1>23. ChargesInv' /\ Progress'
    BY <1>1, <1>4, ChargesKept DEF Progress, LastOfModule
  <1> QED
    BY <1>17, <1>18, <1>19, <1>20, <1>21, <1>22, <1>23 DEF Inv

-----------------------------------------------------------------------------
(***************************************************************************)
(* Finalizers run, and contexts are closed.                                *)
(***************************************************************************)
\* Each phase of the teardown closes one context.
LEMMA ClosingFacts ==
  ASSUME Inv, Closing \in Contexts
  PROVE  /\ current \in Tests /\ current # 0 /\ ModuleOf[current] \in Modules
         /\ \/ Closing = "test" /\ phase = "finishing_test"
            \/ /\ Closing \in Modules /\ phase = "closing_module" /\ Closing = ModuleOf[current]
               /\ LastOfModule(current)
            \/ Closing = "session" /\ phase = "closing_session" /\ current = NumTests
  <1>1. TypeOK /\ Progress
    BY DEF Inv
  <1>2. \/ phase = "finishing_test" /\ Closing = "test"
        \/ phase = "closing_module" /\ Closing = ModuleOf[current]
        \/ phase = "closing_session" /\ Closing = "session"
    BY NamesDiffer DEF Closing
  <1>3. current \in Tests /\ current # 0
    BY <1>1, <1>2, CurrentTest DEF Progress
  <1> QED
    BY <1>1, <1>2, <1>3, ContextFacts DEF Progress

LEMMA FrontFacts ==
  ASSUME NEW P, NEW s \in Seq(P), s # << >>
  PROVE  /\ Front(s) \in Seq(P) /\ DOMAIN Front(s) \subseteq DOMAIN s
         /\ DOMAIN s = DOMAIN Front(s) \union {Len(s)} /\ Len(s) \in DOMAIN s
         /\ \A i \in DOMAIN Front(s) : i \in Nat /\ i < Len(s) /\ Front(s)[i] = s[i]
  <1>1. Len(s) \in Nat \ {0} /\ DOMAIN s = 1 .. Len(s)
    OBVIOUS
  <1>2. Front(s) = SubSeq(s, 1, Len(s) - 1)
    BY DEF Front
  <1>3. /\ Front(s) \in Seq(P) /\ DOMAIN Front(s) = 1 .. Len(s) - 1
        /\ \A i \in 1 .. Len(s) - 1 : Front(s)[i] = s[i]
    BY <1>1, <1>2
  <1> QED
    BY <1>1, <1>3

\* Test t answers for f: it used it, and nobody after it can have.
Answers(t, f) ==
  /\ f \in Fixtures /\ t \in Tests /\ f \in UsedBy(t)
  /\ \A u \in Tests : u > t /\ outcome[u] = "called" /\ Shares(t, u, f) => f \notin UsedBy(u)
  /\ Scope[f] = "module" => ~Callable(ModuleOf[t])
  /\ Scope[f] = "session" => phase = "closing_session"

\* The finalizer that is left last is that of a cached fixture, whose users are
\* on record.
LEMMA LastFinalizer ==
  ASSUME Inv, NEW c \in Contexts, Closing = c, finalizers[c] # << >>,
         NEW f, f = finalizers[c][Len(finalizers[c])], NEW t, t = Owner(c, f)
  PROVE  <<f, c>> \in cache /\ Answers(t, f)
  <1>1. TypeOK /\ CacheInv /\ FinalizersInv /\ UsersInv /\ Progress
    BY DEF Inv
  <1>2. /\ current \in Tests
        /\ \/ c = "test" /\ phase = "finishing_test"
           \/ c \in Modules /\ phase = "closing_module" /\ c = ModuleOf[current] /\ LastOfModule(current)
           \/ c = "session" /\ phase = "closing_session"
    BY ClosingFacts
  <1>3. finalizers[c] \in Seq(Yields)
    BY <1>1 DEF TypeOK
  <1>4. Len(finalizers[c]) \in DOMAIN finalizers[c] /\ f \in Yields
    BY <1>3
  <1>5. f \in Fixtures /\ <<f, c>> \in cache
    BY <1>1, <1>4, ConstantsAssumption DEF FinalizersInv
  <1>6. /\ Scope[f] = "module" => c \in Modules
        /\ Scope[f] # "module" => c = Scope[f]
        /\ c = "test" => f \in UsedBy(current)
        /\ c \in Modules => Open(c)
    BY <1>1, <1>5 DEF CacheInv
  <1>7. CASE c = "test"
    <2>1. t = current /\ Scope[f] = "test"
      BY <1>6, <1>7, ContextFacts, NamesDiffer, <1>5 DEF Owner
    <2> QED
      BY <1>2, <1>5, <1>6, <1>7, <2>1 DEF Shares, Answers
  <1>8. CASE c # "test"
    <2>1. t = users[c][f] /\ users[c][f] # 0
      BY <1>1, <1>5, <1>8 DEF Owner, UsersInv
    <2>2. t \in Tests /\ t \in Nat
      BY <1>1, <1>5, <2>1, UsersAreTests
    <2>3. f \in UsedBy(t) /\ c = Place(f, ModuleOf[t])
      BY <1>1, <1>5, <2>1 DEF UsersInv
    <2>4. ASSUME NEW u \in Tests, u > t, outcome[u] = "called", Shares(t, u, f), f \in UsedBy(u)
          PROVE  FALSE
      <3>1. Place(f, ModuleOf[u]) = c
        BY <2>3, <2>4 DEF Shares, Place
      <3>2. Open(c) \/ (c = "session" /\ phase # "closed")
        BY <1>2, <1>6, <1>8
      <3>3. users[c][f] >= u
        BY <1>1, <1>2, <2>4, <3>1, <3>2 DEF UsersInv
      <3>4. u \in Nat
        BY TestNumbers
      <3> QED
        BY <2>1, <2>2, <2>4, <3>3, <3>4
    <2>5. ASSUME Scope[f] = "module" PROVE ~Callable(ModuleOf[t])
      <3>1. c \in Modules /\ c = ModuleOf[t]
        BY <1>6, <2>3, <2>5 DEF Place
      <3>2. phase = "closing_module" /\ c = ModuleOf[current] /\ LastOfModule(current)
        BY <1>2, <3>1, NamesDiffer
      <3> QED
        BY <3>1, <3>2 DEF Callable, LastOfModule
    <2>6. Scope[f] = "session" => phase = "closing_session"
      BY <1>2, <1>6, NamesDiffer
    <2> QED
      BY <1>5, <2>2, <2>3, <2>4, <2>5, <2>6 DEF Answers
  <1> QED
    BY <1>7, <1>8

LEMMA RunFinalizerStep == ASSUME Inv, RunFinalizer PROVE Inv'
  <1>1. /\ TypeOK /\ Progress /\ CacheInv /\ FinalizersInv /\ DependenciesInv /\ UsersInv
        /\ ChargesInv
    BY DEF Inv
  <1>2. PICK c \in Contexts : c = Closing
    BY DEF RunFinalizer
  <1>3. PICK f : f = finalizers[c][Len(finalizers[c])]
    OBVIOUS
  <1>4. PICK t : t = Owner(c, f)
    OBVIOUS
  <1>5. /\ finalizers[c] # << >>
        /\ finalizers' = [finalizers EXCEPT ![c] = Front(finalizers[c])]
        /\ charges' = charges \/ charges' = charges \union {<<t, f>>}
        /\ UNCHANGED <<current, phase, stack, cache, dependencies, users, outcome>>
    BY <1>2, <1>3, <1>4 DEF RunFinalizer
  <1>6. /\ f \in Fixtures /\ t \in Tests /\ f \in UsedBy(t)
        /\ \A u \in Tests : u > t /\ outcome[u] = "called" /\ Shares(t, u, f) => f \notin UsedBy(u)
        /\ Scope[f] = "module" => ~Callable(ModuleOf[t])
        /\ Scope[f] = "session" => phase = "closing_session"
    <2>1. Closing = c /\ finalizers[c] # << >>
      BY <1>2, <1>5
    <2>2. Answers(t, f)
      BY <1>3, <1>4, <2>1, LastFinalizer
    <2> QED
      BY <2>2 DEF Answers
  <1>7. /\ finalizers[c] \in Seq(Yields) /\ finalizers \in [Contexts -> Seq(Yields)]
    BY <1>1 DEF TypeOK
  <1>8. PICK left : left = Front(finalizers[c])
    OBVIOUS
  <1>9. /\ left \in Seq(Yields) /\ DOMAIN left \subseteq DOMAIN finalizers[c]
        /\ \A i \in DOMAIN left : left[i] = finalizers[c][i]
    BY <1>5, <1>7, <1>8, FrontFacts
  <1>10. /\ finalizers' \in [Contexts -> Seq(Yields)]
         /\ finalizers'[c] = left
         /\ \A d \in Contexts : d # c => finalizers'[d] = finalizers[d]
    BY <1>5, <1>7, <1>8, <1>9
  <1>11. TypeOK'
    BY <1>1, <1>5, <1>6, <1>10 DEF TypeOK
  <1>12. phase # "resolving" /\ phase # "aborted"
    BY <1>2, ClosingFacts
  <1>13. \A m : Open(m)' <=> Open(m)
    BY <1>5 DEF Open
  <1>14. CacheInv'
    <2>1. \A g, d : Held(g, d)' <=> Held(g, d)
      BY <1>5 DEF Held
    <2> QED
      BY <1>1, <1>5, <1>13, <2>1 DEF CacheInv, UsedBy, Reachable
  <1>15. FinalizersInv'
    <2>1. \A d \in Contexts : /\ DOMAIN finalizers'[d] \subseteq DOMAIN finalizers[d]
                              /\ \A i \in DOMAIN finalizers'[d] : finalizers'[d][i] = finalizers[d][i]
      BY <1>9, <1>10
    <2>2. Closing' = c
      BY <1>2, <1>5 DEF Closing
    <2>3. \A h \in Yields, d \in Contexts :
            <<h, d>> \in cache' /\ Closing' # d /\ phase' # "aborted" => h \in Range(finalizers'[d])
      BY <1>1, <1>2, <1>5, <1>10, <2>2 DEF FinalizersInv
    <2>4. \A d \in Contexts : \A i \in DOMAIN finalizers'[d] : <<finalizers'[d][i], d>> \in cache'
      BY <1>1, <1>5, <2>1 DEF FinalizersInv
    <2>5. \A d \in Contexts : \A i, j \in DOMAIN finalizers'[d] :
            /\ i <= j => finalizers'[d][j] \notin Rests(finalizers'[d][i])
            /\ finalizers'[d][i] = finalizers'[d][j] => i = j
      BY <1>1, <2>1 DEF FinalizersInv
    <2>6. \A g : Rests(g)' = Rests(g)
      BY DEF Rests, Reachable
    <2> QED
      BY <2>3, <2>4, <2>5, <2>6 DEF FinalizersInv
  <1>16. StackInv' /\ DependenciesInv' /\ Progress'
    BY <1>1, <1>5, <1>12 DEF StackInv, DependenciesInv, Progress, LastOfModule
  <1>17. UsersInv'
    BY <1>1, <1>5, <1>12, <1>13 DEF UsersInv, UsedBy, Reachable, Place
  <1>18. ChargesInv'
    <2>1. CASE charges' = charges
      BY <1>1, <1>5, <2>1, ChargesKept
    <2>2. CASE charges' = charges \union {<<t, f>>}
      <3>1. \A m : Callable(m)' <=> Callable(m)
        BY <1>5 DEF Callable
      <3> SUFFICES ASSUME NEW charge \in charges'
                   PROVE  LET s == charge[1]
                              g == charge[2]
                          IN /\ g \in UsedBy(s)
                             /\ \A u \in Tests : u > s /\ outcome[u] = "called" /\ Shares(s, u, g)
                                                   => g \notin UsedBy(u)
                             /\ Scope[g] = "module" => ~Callable(ModuleOf[s])
                             /\ Scope[g] = "session" => phase \in {"closing_session", "closed", "aborted"}
        BY <1>5, <3>1 DEF ChargesInv, UsedBy, Reachable, Shares
      <3>2. CASE charge \in charges
        BY <1>1, <3>2 DEF ChargesInv
      <3>3. CASE charge = <<t, f>>
        BY <1>6, <3>3
      <3> QED
        BY <2>2, <3>2, <3>3
    <2> QED
      BY <1>5, <2>1, <2>2
  <1> QED
    BY <1>11, <1>14, <1>15, <1>16, <1>17, <1>18 DEF Inv

\* A context is closed, and the batch moves on.
Closes(c) ==
  /\ c \in Contexts /\ CloseContext(c)
  /\ \/ c = "test" /\ phase' = AfterTest(current)
     \/ c \in Modules /\ phase' = "ready"
     \/ c = "session" /\ phase' = "closed"
  /\ dependencies' = IF c = "session" THEN [f \in Fixtures |-> {}] ELSE dependencies
  /\ UNCHANGED <<current, stack, finalizers, outcome, charges>>

\* A module stays open when another context is closed, and only then.
LEMMA OpenAfterClosing ==
  ASSUME Inv, NEW c, Closes(c), NEW m \in Modules
  PROVE  /\ c # "session" /\ Open(m) /\ m # c => Open(m)'
         /\ Open(m)' => Open(m) /\ m # c
         /\ c = "session" => ~Open(m)
  <1>1. /\ current \in Tests /\ current # 0 /\ current' = current
        /\ \/ c = "test" /\ phase = "finishing_test" /\ phase' = AfterTest(current)
           \/ /\ c \in Modules /\ phase = "closing_module" /\ phase' = "ready"
              /\ c = ModuleOf[current] /\ LastOfModule(current)
           \/ c = "session" /\ phase = "closing_session" /\ phase' = "closed" /\ current = NumTests
    BY ClosingFacts, NamesDiffer DEF Closes, CloseContext
  <1>2. Tests \subseteq Nat /\ \A t \in Tests : ~(t > NumTests)
    <2>1. \A t \in Tests : t \in Nat /\ t <= NumTests /\ NumTests \in Nat
      BY TestNumbers
    <2> QED
      BY <2>1
  <1>3. CASE c = "test" /\ phase = "finishing_test" /\ phase' = AfterTest(current)
    <2>1. m # c
      BY <1>3, NamesDiffer
    <2>2. CASE LastOfModule(current)
      <3>1. phase' = "closing_module"
        BY <1>3, <2>2 DEF AfterTest
      <3> QED
        BY <1>1, <1>3, <2>1, <3>1 DEF Open
    <2>3. CASE ~LastOfModule(current)
      <3>1. phase' = "ready"
        BY <1>3, <2>3 DEF AfterTest
      <3>2. \E u \in Tests : u > current /\ ModuleOf[u] = ModuleOf[current]
        BY <2>3 DEF LastOfModule
      <3> QED
        BY <1>1, <1>3, <2>1, <3>1, <3>2 DEF Open
    <2> QED
      BY <2>2, <2>3
  <1>4. CASE /\ c \in Modules /\ phase = "closing_module" /\ phase' = "ready"
             /\ c = ModuleOf[current] /\ LastOfModule(current)
    BY <1>1, <1>4, NamesDiffer DEF Open, LastOfModule
  <1>5. CASE c = "session" /\ phase = "closing_session" /\ phase' = "closed" /\ current = NumTests
    BY <1>1, <1>2, <1>5, NamesDiffer DEF Open
  <1> QED
    BY <1>1, <1>3, <1>4, <1>5

LEMMA ClosesStep == ASSUME Inv, NEW c, Closes(c) PROVE Inv'
  <1>1. /\ TypeOK /\ Progress /\ CacheInv /\ FinalizersInv /\ DependenciesInv /\ UsersInv
        /\ ChargesInv
    BY DEF Inv
  <1>2. /\ c \in Contexts /\ Closing = c /\ finalizers[c] = << >>
        /\ cache' = {entry \in cache : entry[2] # c}
        /\ users' = [users EXCEPT ![c] = NoUsers]
        /\ dependencies' = IF c = "session" THEN [f \in Fixtures |-> {}] ELSE dependencies
        /\ UNCHANGED <<current, stack, finalizers, outcome, charges>>
    BY DEF Closes, CloseContext
  <1>3. /\ current \in Tests /\ current # 0
        /\ \/ c = "test" /\ phase = "finishing_test" /\ phase' = AfterTest(current)
           \/ /\ c \in Modules /\ phase = "closing_module" /\ phase' = "ready"
              /\ c = ModuleOf[current] /\ LastOfModule(current)
           \/ c = "session" /\ phase = "closing_session" /\ phase' = "closed" /\ current = NumTests
    BY ClosingFacts, NamesDiffer DEF Closes, CloseContext
  <1>4. /\ AfterTest(current) \in {"closing_module", "ready"}
        /\ (AfterTest(current) = "closing_module" => LastOfModule(current))
    BY DEF AfterTest
  <1>5. /\ phase' \in {"closing_module", "ready", "closed"}
        /\ phase' = "closed" <=> c = "session"
        /\ phase' = "closing_module" => LastOfModule(current)
        /\ phase' = "closed" => current = NumTests
        /\ phase \in {"finishing_test", "closing_module", "closing_session"}
    BY <1>3, <1>4, NamesDiffer
  <1>6. /\ \A f \in Fixtures, d \in Contexts :
             <<f, d>> \in cache' <=> <<f, d>> \in cache /\ d # c
        /\ \A d \in Contexts : d # c => users'[d] = users[d]
        /\ \A f \in Fixtures : users'[c][f] = 0
    BY <1>1, <1>2 DEF TypeOK, NoUsers
  <1>7. TypeOK'
    <2>1. NoUsers \in [Fixtures -> 0 .. NumTests]
      BY ConstantsAssumption DEF NoUsers
    <2>2. users' \in [Contexts -> [Fixtures -> 0 .. NumTests]]
      BY <1>1, <1>2, <2>1 DEF TypeOK
    <2>3. dependencies' \in [Fixtures -> SUBSET Fixtures]
      BY <1>1, <1>2 DEF TypeOK
    <2>4. phase' \in Phases /\ cache' \in SUBSET (Fixtures \X Contexts)
      BY <1>1, <1>2, <1>5 DEF TypeOK, Phases
    <2> QED
      BY <1>1, <1>2, <2>2, <2>3, <2>4 DEF TypeOK
  <1>8. Progress'
    BY <1>1, <1>2, <1>3, <1>5 DEF Progress, LastOfModule
  <1>9. \A m \in Modules : /\ c # "session" /\ Open(m) /\ m # c => Open(m)'
                           /\ Open(m)' => Open(m) /\ m # c
                           /\ c = "session" => ~Open(m)
    BY OpenAfterClosing
  <1>10. CacheInv'
    <2> SUFFICES ASSUME NEW f \in Fixtures, NEW d \in Contexts, <<f, d>> \in cache'
                 PROVE  /\ Scope[f] = "module" => d \in Modules
                        /\ Scope[f] # "module" => d = Scope[f]
                        /\ \A g \in Declared[f] : Held(g, d)'
                        /\ Declared[f] \subseteq dependencies'[f]
                        /\ d # "test"
                        /\ d \in Modules => Open(d)'
                        /\ phase' # "closed"
      BY DEF CacheInv
    <2>1. <<f, d>> \in cache /\ d # c
      BY <1>6
    <2>2. /\ Scope[f] = "module" => d \in Modules
          /\ Scope[f] # "module" => d = Scope[f]
          /\ \A g \in Declared[f] : Held(g, d)
          /\ Declared[f] \subseteq dependencies[f]
          /\ d = "test" => phase \in {"resolving", "finishing_test", "aborted"}
          /\ d \in Modules => Open(d)
      BY <1>1, <2>1 DEF CacheInv
    <2>3. d # "test"
      BY <1>3, <2>1, <2>2
    <2>4. c # "session"
      <3>1. Scope[f] \in {"test", "module", "session"}
        BY <1>3, ContextFacts
      <3> QED
        BY <1>9, <2>1, <2>2, <2>3, <3>1
    <2>5. \A g \in Declared[f] : Held(g, d)'
      <3>1. SUFFICES ASSUME NEW g \in Declared[f] PROVE Held(g, d)'
        OBVIOUS
      <3>2. g \in Fixtures /\ Held(g, d)
        BY <2>2, DeclaredType
      <3>3. CASE <<g, "session">> \in cache /\ Scope[g] = "session"
        <4>1. <<g, "session">> \in cache'
          BY <1>2, <2>4, <3>3
        <4> QED
          BY <3>3, <4>1 DEF Held
      <3>4. CASE Scope[g] = "module" /\ d \in Modules /\ <<g, d>> \in cache
        <4>1. <<g, d>> \in cache'
          BY <1>2, <2>1, <3>4
        <4> QED
          BY <3>4, <4>1 DEF Held
      <3> QED
        BY <2>3, <3>2, <3>3, <3>4 DEF Held
    <2> QED
      BY <1>2, <1>5, <1>9, <2>1, <2>2, <2>3, <2>4, <2>5
  <1>11. FinalizersInv'
    <2>1. \A d \in Contexts : \A i \in DOMAIN finalizers[d] : <<finalizers[d][i], d>> \in cache /\ d # c
      BY <1>1, <1>2 DEF FinalizersInv
    <2>2. \A d \in Contexts : \A i \in DOMAIN finalizers[d] : <<finalizers[d][i], d>> \in cache'
      BY <1>2, <2>1
    <2>3. \A f \in Yields, d \in Contexts : <<f, d>> \in cache' => f \in Range(finalizers[d])
      BY <1>1, <1>2, <1>5 DEF FinalizersInv
    <2>4. \A g : Rests(g)' = Rests(g)
      BY DEF Rests, Reachable
    <2>5. finalizers' = finalizers
      BY <1>2
    <2>6. \A d \in Contexts : \A i, j \in DOMAIN finalizers[d] :
            /\ i <= j => finalizers[d][j] \notin Rests(finalizers[d][i])
            /\ finalizers[d][i] = finalizers[d][j] => i = j
      BY <1>1 DEF FinalizersInv
    <2> QED
      BY <2>2, <2>3, <2>4, <2>5, <2>6 DEF FinalizersInv
  <1>12. StackInv' /\ DependenciesInv'
    BY <1>1, <1>2, <1>5 DEF StackInv, DependenciesInv
  <1>13. UsersInv'
    <2>1. \A d \in Contexts, f \in Fixtures : users'[d][f] # 0 =>
            /\ users'[d][f] <= current
            /\ f \in UsedBy(users'[d][f])
            /\ d = Place(f, ModuleOf[users'[d][f]])
      BY <1>1, <1>6 DEF UsersInv
    <2>2. \A f \in Fixtures, d \in Contexts \ {"test"} : <<f, d>> \in cache' => users'[d][f] # 0
      BY <1>1, <1>6 DEF UsersInv
    <2>3. ASSUME NEW u \in Tests, NEW f \in UsedBy(u), outcome[u] = "called",
                 \/ Open(Place(f, ModuleOf[u]))'
                 \/ Place(f, ModuleOf[u]) = "session" /\ phase' # "closed"
          PROVE  users'[Place(f, ModuleOf[u])][f] >= u
      <3>1. PICK d : d = Place(f, ModuleOf[u])
        OBVIOUS
      <3>2. d \in Contexts /\ f \in Fixtures
        BY <3>1, UsedByFacts, ContextFacts
      <3>3. d # c /\ (Open(d) \/ (d = "session" /\ phase # "closed"))
        <4>1. CASE Open(d)'
          <5>1. d \in Modules
            BY <1>2, <1>3, <4>1 DEF Open, Modules
          <5> QED
            BY <1>9, <4>1, <5>1
        <4>2. CASE d = "session" /\ phase' # "closed"
          BY <1>3, <1>5, <4>2
        <4> QED
          BY <2>3, <3>1, <4>1, <4>2
      <3>4. users[d][f] >= u
        BY <1>1, <1>5, <2>3, <3>1, <3>3 DEF UsersInv
      <3> QED
        BY <1>6, <3>1, <3>2, <3>3, <3>4
    <2> QED
      BY <1>2, <1>5, <2>1, <2>2, <2>3 DEF UsersInv, UsedBy, Reachable, Place
  <1>14. ChargesInv'
    <2>1. \A m : Callable(m)' => Callable(m)
      BY <1>2, <1>5 DEF Callable
    <2>2. phase \in {"closing_session", "closed", "aborted"}
            => phase' \in {"closing_session", "closed", "aborted"}
      BY <1>3
    <2> QED
      BY <1>1, <1>2, <2>1, <2>2 DEF ChargesInv, UsedBy, Reachable, Shares
  <1> QED
    BY <1>7, <1>8, <1>10, <1>11, <1>12, <1>13, <1>14 DEF Inv

LEMMA CloseStep == ASSUME Inv, FinishTest \/ CloseModule \/ CloseSession PROVE Inv'
  <1>1. CASE FinishTest
    <2>1. Closes("test")
      BY <1>1 DEF FinishTest, Closes, Contexts
    <2> QED
      BY <2>1, ClosesStep
  <1>2. CASE CloseModule
    <2>1. PICK m \in Modules : CloseContext(m)
      BY <1>2 DEF CloseModule
    <2>2. Closes(m)
      BY <1>2, <2>1, NamesDiffer DEF CloseModule, Closes
    <2> QED
      BY <2>2, ClosesStep
  <1>3. CASE CloseSession
    <2>1. Closes("session")
      BY <1>3 DEF CloseSession, Closes, Contexts
    <2> QED
      BY <2>1, ClosesStep
  <1> QED
    BY <1>1, <1>2, <1>3

LEMMA BeginClosingStep == ASSUME Inv, BeginClosing PROVE Inv'
  <1>1. /\ TypeOK /\ Progress /\ CacheInv /\ FinalizersInv /\ DependenciesInv /\ UsersInv
        /\ ChargesInv
    BY DEF Inv
  <1>2. /\ phase = "ready" /\ phase' = "closing_session" /\ current = NumTests
        /\ UNCHANGED <<current, stack, cache, finalizers, dependencies, users, outcome, charges>>
    BY DEF BeginClosing
  <1>3. current # 0 /\ \A t \in Tests : ~(t > current)
    <2>1. NumTests \in Nat \ {0} /\ \A t \in Tests : t \in Nat /\ t <= NumTests
      BY TestNumbers
    <2>2. NumTests # 0 /\ \A t \in Tests : ~(t > NumTests)
      BY <2>1
    <2> QED
      BY <1>2, <2>2
  <1>4. \A m : ~Open(m) /\ ~Open(m)'
    BY <1>2, <1>3 DEF Open
  <1>5. TypeOK'
    BY <1>1, <1>2 DEF TypeOK, Phases
  <1>6. Progress'
    BY <1>1, <1>2, <1>3 DEF Progress
  <1>7. CacheInv'
    <2>1. \A g, c : Held(g, c)' <=> Held(g, c)
      BY <1>2 DEF Held
    <2> QED
      BY <1>1, <1>2, <1>4, <2>1 DEF CacheInv
  <1>8. FinalizersInv'
    <2>1. Closing \notin Contexts /\ phase # "aborted"
      BY <1>2, NamesDiffer DEF Closing
    <2> QED
      BY <1>1, <1>2, <2>1, FinalizersStay
  <1>9. StackInv' /\ DependenciesInv'
    BY <1>1, <1>2 DEF StackInv, DependenciesInv
  <1>10. UsersInv'
    BY <1>1, <1>2, <1>4 DEF UsersInv, UsedBy, Reachable, Place
  <1>11. ChargesInv'
    <2>1. \A m : Callable(m)' => Callable(m)
      BY <1>2 DEF Callable
    <2> QED
      BY <1>1, <1>2, <2>1 DEF ChargesInv, UsedBy, Reachable, Shares
  <1> QED
    BY <1>5, <1>6, <1>7, <1>8, <1>9, <1>10, <1>11 DEF Inv

LEMMA AbortsStep == ASSUME Inv, Aborts PROVE Inv'
  <1>1. /\ TypeOK /\ Progress /\ CacheInv /\ FinalizersInv /\ DependenciesInv /\ UsersInv
        /\ ChargesInv
    BY DEF Inv
  <1>2. /\ phase \in {"resolving", "finishing_test", "closing_module", "closing_session"}
        /\ phase' = "aborted"
        /\ UNCHANGED <<current, stack, cache, finalizers, dependencies, users, outcome, charges>>
    <2>1. Closing \in Contexts => phase \in {"finishing_test", "closing_module", "closing_session"}
      BY NamesDiffer DEF Closing
    <2> QED
      BY <2>1 DEF Aborts, Supplying, ReadyToCall
  <1>3. \A m : Open(m) => Open(m)'
    BY <1>2 DEF Open
  <1>4. TypeOK' /\ Progress'
    BY <1>1, <1>2 DEF TypeOK, Phases, Progress
  <1>5. CacheInv'
    <2>1. \A g, c : Held(g, c)' <=> Held(g, c)
      BY <1>2 DEF Held
    <2> QED
      BY <1>1, <1>2, <1>3, <2>1 DEF CacheInv, UsedBy, Reachable
  <1>6. FinalizersInv'
    <2>1. \A g : Rests(g)' = Rests(g)
      BY DEF Rests, Reachable
    <2> QED
      BY <1>1, <1>2, <2>1 DEF FinalizersInv
  <1>7. StackInv' /\ DependenciesInv'
    BY <1>1, <1>2 DEF StackInv, DependenciesInv
  <1>8. UsersInv'
    BY <1>1, <1>2 DEF UsersInv, UsedBy, Reachable
  <1>9. ChargesInv'
    <2>1. \A m : Callable(m)' => Callable(m)
      BY <1>2 DEF Callable
    <2> QED
      BY <1>1, <1>2, <2>1 DEF ChargesInv, UsedBy, Reachable, Shares
  <1> QED
    BY <1>4, <1>5, <1>6, <1>7, <1>8, <1>9 DEF Inv

LEMMA StutterStep == ASSUME Inv, UNCHANGED vars PROVE Inv'
  <1>1. /\ TypeOK /\ Progress /\ CacheInv /\ FinalizersInv /\ StackInv /\ DependenciesInv
        /\ UsersInv /\ ChargesInv
    BY DEF Inv
  <1>2. UNCHANGED <<current, phase, stack, cache, finalizers, dependencies, users, outcome, charges>>
    BY DEF vars
  <1>3. TypeOK' /\ Progress' /\ DependenciesInv'
    BY <1>1, <1>2 DEF TypeOK, Progress, LastOfModule, DependenciesInv
  <1>4. \A m : Open(m)' <=> Open(m)
    BY <1>2 DEF Open
  <1>5. CacheInv'
    <2>1. \A g, c : Held(g, c)' <=> Held(g, c)
      BY <1>2 DEF Held
    <2> QED
      BY <1>1, <1>2, <1>4, <2>1 DEF CacheInv, UsedBy, Reachable
  <1>6. FinalizersInv'
    <2>1. Closing' = Closing
      BY <1>2 DEF Closing
    <2>2. \A g : Rests(g)' = Rests(g)
      BY DEF Rests, Reachable
    <2> QED
      BY <1>1, <1>2, <2>1, <2>2 DEF FinalizersInv
  <1>7. StackInv'
    <2>1. \A k : FrameInv(k)' <=> FrameInv(k)
      BY <1>2 DEF FrameInv, Asked, Given, Noticed, InScope, Cached, Context, UsedBy, Reachable
    <2> QED
      BY <1>1, <1>2, <2>1 DEF StackInv
  <1>8. UsersInv'
    BY <1>1, <1>2, <1>4 DEF UsersInv, Context, UsedBy, Reachable, Place
  <1>9. ChargesInv'
    BY <1>1, <1>2, ChargesKept
  <1> QED
    BY <1>3, <1>5, <1>6, <1>7, <1>8, <1>9 DEF Inv

-----------------------------------------------------------------------------
(***************************************************************************)
(* The theorems.                                                           *)
(***************************************************************************)
LEMMA InitInv == Init => Inv
  <1> SUFFICES ASSUME Init PROVE Inv
    OBVIOUS
  <1>1. /\ current = 0 /\ phase = "ready" /\ stack = << >> /\ cache = {}
        /\ finalizers = [c \in Contexts |-> << >>]
        /\ dependencies = [f \in Fixtures |-> {}]
        /\ users = [c \in Contexts |-> NoUsers]
        /\ outcome = [t \in Tests |-> "none"] /\ charges = {}
    BY DEF Init
  <1>2. TypeOK
    <2>1. << >> \in Seq(Yields) /\ << >> \in Seq(Frames) /\ 0 \in 0 .. NumTests
      BY TestNumbers
    <2>2. NoUsers \in [Fixtures -> 0 .. NumTests]
      BY <2>1 DEF NoUsers
    <2>3. /\ finalizers \in [Contexts -> Seq(Yields)] /\ dependencies \in [Fixtures -> SUBSET Fixtures]
          /\ users \in [Contexts -> [Fixtures -> 0 .. NumTests]]
          /\ outcome \in [Tests -> {"none", "skipped", "setup_failed", "called"}]
      BY <1>1, <2>1, <2>2
    <2> QED
      BY <1>1, <2>1, <2>3 DEF TypeOK, Phases
  <1>3. Progress
    BY <1>1 DEF Progress
  <1>4. CacheInv /\ StackInv /\ ChargesInv
    BY <1>1 DEF CacheInv, StackInv, ChargesInv
  <1>5. FinalizersInv
    <2>1. \A c \in Contexts : finalizers[c] = << >>
      BY <1>1
    <2> QED
      BY <1>1, <2>1 DEF FinalizersInv
  <1>6. DependenciesInv
    BY <1>1 DEF DependenciesInv
  <1>7. UsersInv
    BY <1>1 DEF UsersInv, NoUsers
  <1> QED
    BY <1>2, <1>3, <1>4, <1>5, <1>6, <1>7 DEF Inv

LEMMA NextInv == Inv /\ [Next]_vars => Inv'
  <1> SUFFICES ASSUME Inv, [Next]_vars PROVE Inv'
    OBVIOUS
  <1>1. CASE SkipTest
    BY <1>1, SkipTestStep
  <1>2. CASE BeginTest
    BY <1>2, BeginTestStep
  <1>3. CASE MissingFixture \/ RefuseFixture \/ FixtureRaises
    BY <1>3, SetupFailsStep
  <1>4. CASE ReuseFixture
    BY <1>4, ReuseFixtureStep
  <1>5. CASE EnterFixture
    BY <1>5, EnterFixtureStep
  <1>6. CASE StartFixture
    BY <1>6, StartFixtureStep
  <1>7. CASE CallTest
    BY <1>7, CallTestStep
  <1>8. CASE RunFinalizer
    BY <1>8, RunFinalizerStep
  <1>9. CASE FinishTest \/ CloseModule \/ CloseSession
    BY <1>9, CloseStep
  <1>10. CASE BeginClosing
    BY <1>10, BeginClosingStep
  <1>11. CASE Aborts
    BY <1>11, AbortsStep
  <1>12. CASE BatchOver \/ UNCHANGED vars
    BY <1>12, StutterStep DEF BatchOver
  <1> QED
    BY <1>1, <1>2, <1>3, <1>4, <1>5, <1>6, <1>7, <1>8, <1>9, <1>10, <1>11, <1>12 DEF Next

\* In every state of a batch the frames, the caches, the finalizers and the
\* recorded users agree with one another.
THEOREM Invariance == Spec => []Inv
  BY InitInv, NextInv, PTL DEF Spec

\* Every variable of the runtime keeps its type; in particular a failed finalizer
\* is always charged to a test of the batch, never to nobody.
THEOREM TypeCorrect == Spec => []TypeOK
  <1>1. Inv => TypeOK
    BY DEF Inv
  <1> QED
    BY <1>1, Invariance, PTL

\* A test is called only with every fixture it uses, directly or not, cached in
\* its context with the finalizer still to run, whatever the tests before it
\* shared, failed or closed (FixtureRuntime.resolve, finish_test, close_module).
THEOREM FixturesAreThere == Spec => []TestsHaveTheirFixtures
  <1>1. Inv => TestsHaveTheirFixtures
    <2> SUFFICES ASSUME Inv, ReadyToCall, NEW f \in UsedBy(current)
                 PROVE  Cached(f) /\ (f \in Yields => f \in Range(finalizers[Context(f)]))
      BY DEF TestsHaveTheirFixtures
    <2>1. Cached(f)
      BY CalledHasRecorded
    <2>2. TypeOK /\ Progress /\ FinalizersInv /\ phase = "resolving"
      BY DEF Inv, ReadyToCall
    <2>3. Closing \notin Contexts
      BY <2>2, NamesDiffer DEF Closing
    <2>4. current \in Tests
      BY <2>2, CurrentTest DEF Progress
    <2>5. f \in Fixtures /\ Context(f) \in Contexts
      BY <2>4, UsedByFacts, ContextFacts, ContextIsPlace
    <2>6. f \in Yields => f \in Range(finalizers[Context(f)])
      BY <2>1, <2>2, <2>3, <2>5 DEF FinalizersInv, Cached
    <2> QED
      BY <2>1, <2>6
  <1> QED
    BY <1>1, Invariance, PTL

\* The test that a failed finalizer is charged to used its fixture, and no test
\* after it that shared the fixture was called (_session_last_users,
\* _module_last_users and _record_scope_usage).
THEOREM ChargesAreJust == Spec => []LastUserIsCharged
  <1>1. Inv => LastUserIsCharged
    BY DEF Inv, ChargesInv, LastUserIsCharged
  <1> QED
    BY <1>1, Invariance, PTL

-----------------------------------------------------------------------------
(***************************************************************************)
(* The runtime implements Lifetimes.                                       *)
(***************************************************************************)
Alive == {held \in Fixtures \X Contexts : held[1] \in Range(finalizers[held[2]])}

LEMMA AliveFacts ==
  ASSUME NEW f \in Fixtures, NEW c \in Contexts
  PROVE  <<f, c>> \in Alive <=> f \in Range(finalizers[c])
  BY DEF Alive

\* What a fixture rests on is held by a context that encloses its own.
LEMMA HeldEncloses ==
  ASSUME CacheInv, current \in Tests, NEW f \in Fixtures, Cached(f), NEW g \in Declared[f]
  PROVE  g \in Fixtures /\ Cached(g) /\ Resources!Encloses(Context(g), Context(f))
  <1>1. g \in Fixtures /\ Cached(g)
    BY CachedIsComplete
  <1>2. <<f, Context(f)>> \in cache /\ Context(f) \in Contexts
    BY ContextFacts, ContextIsPlace DEF Cached
  <1>3. /\ Scope[f] = "module" => Context(f) \in Modules
        /\ Scope[f] # "module" => Context(f) = Scope[f]
        /\ Held(g, Context(f))
    BY <1>2 DEF CacheInv
  <1>4. Scope[f] = "module" => Context(f) = ModuleOf[current]
    BY DEF Context
  <1>5. Resources!Encloses(Context(g), Context(f))
    BY <1>3, <1>4, NamesDiffer, ContextFacts DEF Held, Context, Resources!Encloses
  <1> QED
    BY <1>1, <1>5

LEMMA RestsEnclose ==
  ASSUME Inv, Supplying, NEW f \in Fixtures, f = Parent, NEW g \in Rests(f)
  PROVE  g \in Fixtures /\ Cached(g) /\ Resources!Encloses(Context(g), Context(f))
  <1> DEFINE S == {h \in Fixtures : Cached(h) /\ Resources!Encloses(Context(h), Context(f))}
  <1>1. /\ CacheInv /\ current \in Tests
        /\ \A h \in Declared[f] : Cached(h) /\ InScope(f, h)
    BY SuppliedFacts DEF Inv
  <1>2. S \in SUBSET Fixtures
    OBVIOUS
  <1>3. \A h \in Declared[f] : h \in S
    <2> SUFFICES ASSUME NEW h \in Declared[f]
                 PROVE  Cached(h) /\ Resources!Encloses(Context(h), Context(f))
      BY DeclaredType
    <2>1. h \in Fixtures /\ Held(h, Context(f))
      BY <1>1, DeclaredType, HeldWhereCached
    <2>2. Resources!Encloses(Context(h), Context(f))
      BY <1>1, <2>1, NamesDiffer, ContextFacts DEF Held, Context, Resources!Encloses
    <2> QED
      BY <1>1, <2>2
  <1>4. \A h \in S : \A k \in Declared[h] : k \in S
    <2> SUFFICES ASSUME NEW h \in S, NEW k \in Declared[h] PROVE k \in S
      OBVIOUS
    <2>1. h \in Fixtures /\ Cached(h) /\ Resources!Encloses(Context(h), Context(f))
      OBVIOUS
    <2>2. k \in Fixtures /\ Cached(k) /\ Resources!Encloses(Context(k), Context(h))
      BY <1>1, <2>1, HeldEncloses
    <2>3. Scope[h] = "test" <=> Context(h) = "test"
      BY <1>1, <2>1, ContextFacts, NamesDiffer DEF Context
    <2>4. Resources!Encloses(Context(k), Context(f))
      BY <2>1, <2>2 DEF Resources!Encloses
    <2> QED
      BY <2>2, <2>4
  <1> HIDE DEF S
  <1>5. Rests(f) \subseteq S
    BY <1>2, <1>3, <1>4, ReachableIsLeast DEF Rests
  <1> QED
    BY <1>5 DEF S

\* A fixture with a finalizer is acquired when it is started.
LEMMA StartAcquires ==
  ASSUME Inv, StartFixture, NEW f \in Fixtures, f = Parent, f \in Yields
  PROVE  Resources!Next
  <1>1. TypeOK /\ CacheInv /\ FinalizersInv
    BY DEF Inv
  <1>2. Supplying
    BY DEF StartFixture
  <1>3. current \in Tests /\ phase = "resolving" /\ ~Cached(f)
    BY <1>2, SuppliedFacts
  <1>4. PICK c \in Contexts : c = Context(f)
    BY <1>3, ContextFacts, ContextIsPlace
  <1>5. finalizers' = [finalizers EXCEPT ![c] = Append(finalizers[c], f)]
    BY <1>4 DEF StartFixture, Pushed
  <1>6. finalizers \in [Contexts -> Seq(Yields)] /\ finalizers[c] \in Seq(Yields)
    BY <1>1 DEF TypeOK
  <1>7. /\ finalizers'[c] = Append(finalizers[c], f)
        /\ \A d \in Contexts : d # c => finalizers'[d] = finalizers[d]
    BY <1>5, <1>6
  <1>8. Range(finalizers'[c]) = Range(finalizers[c]) \union {f}
    <2>1. /\ DOMAIN finalizers'[c] = DOMAIN finalizers[c] \union {Len(finalizers[c]) + 1}
          /\ \A i \in DOMAIN finalizers[c] : finalizers'[c][i] = finalizers[c][i]
          /\ finalizers'[c][Len(finalizers[c]) + 1] = f
      BY <1>6, <1>7
    <2> QED
      BY <2>1 DEF Range
  <1>9. Alive' = Alive \union {<<f, c>>}
    <2>1. \A h \in Fixtures, d \in Contexts :
            h \in Range(finalizers'[d]) <=> h \in Range(finalizers[d]) \/ (h = f /\ d = c)
      BY <1>7, <1>8
    <2> QED
      BY <2>1 DEF Alive
  <1>10. <<f, c>> \notin Alive
    <2>1. f \notin Range(finalizers[c])
      BY <1>1, <1>3, <1>4 DEF FinalizersInv, Cached, Range
    <2> QED
      BY <2>1, AliveFacts
  <1>11. ASSUME NEW g \in Rests(f) \intersect Yields
         PROVE  \E outer \in Contexts : Resources!Encloses(outer, c) /\ <<g, outer>> \in Alive
    <2>1. g \in Fixtures /\ Cached(g) /\ Resources!Encloses(Context(g), Context(f))
      BY <1>2, RestsEnclose
    <2>2. Context(g) \in Contexts
      BY <1>3, <2>1, ContextFacts, ContextIsPlace
    <2>3. Closing \notin Contexts
      BY <1>3, NamesDiffer DEF Closing
    <2>4. g \in Range(finalizers[Context(g)])
      BY <1>1, <1>3, <2>1, <2>2, <2>3 DEF FinalizersInv, Cached
    <2>5. <<g, Context(g)>> \in Alive
      BY <2>1, <2>2, <2>4, AliveFacts
    <2> QED
      BY <1>4, <2>1, <2>2, <2>5
  <1>12. Resources!Acquire(f, c)
    BY <1>9, <1>10, <1>11 DEF Resources!Acquire, Alive, Rests
  <1> QED
    BY <1>12 DEF Resources!Next

\* It is released when its finalizer runs.
LEMMA RunReleases ==
  ASSUME Inv, RunFinalizer
  PROVE  Resources!Next
  <1>1. TypeOK /\ CacheInv /\ FinalizersInv
    BY DEF Inv
  <1>2. PICK c \in Contexts : c = Closing
    BY DEF RunFinalizer
  <1>3. PICK f : f = finalizers[c][Len(finalizers[c])]
    OBVIOUS
  <1>4. finalizers[c] # << >> /\ finalizers' = [finalizers EXCEPT ![c] = Front(finalizers[c])]
    BY <1>2 DEF RunFinalizer
  <1>5. finalizers \in [Contexts -> Seq(Yields)] /\ finalizers[c] \in Seq(Yields)
    BY <1>1 DEF TypeOK
  <1>6. PICK last \in Nat : /\ last = Len(finalizers[c]) /\ last \in DOMAIN finalizers[c]
                            /\ \A i \in DOMAIN finalizers[c] : i \in Nat /\ i <= last
    BY <1>4, <1>5
  <1>7. /\ DOMAIN finalizers[c] = DOMAIN Front(finalizers[c]) \union {last}
        /\ \A i \in DOMAIN Front(finalizers[c]) :
             i < last /\ Front(finalizers[c])[i] = finalizers[c][i]
    BY <1>4, <1>5, <1>6, FrontFacts
  <1>8. f \in Fixtures /\ f = finalizers[c][last]
    BY <1>3, <1>5, <1>6, ConstantsAssumption
  <1>9. /\ finalizers'[c] = Front(finalizers[c])
        /\ \A d \in Contexts : d # c => finalizers'[d] = finalizers[d]
    BY <1>4, <1>5
  <1>10. \A i \in DOMAIN finalizers[c] :
           /\ f \notin Rests(finalizers[c][i])
           /\ finalizers[c][i] = f => i = last
    BY <1>1, <1>6, <1>8 DEF FinalizersInv
  <1>11. Range(finalizers'[c]) = Range(finalizers[c]) \ {f}
    <2>1. \A x \in Range(finalizers[c]) : x = f \/ x \in Range(finalizers'[c])
      BY <1>7, <1>8, <1>9 DEF Range
    <2>2. \A x \in Range(finalizers'[c]) : x \in Range(finalizers[c]) /\ x # f
      BY <1>6, <1>7, <1>9, <1>10 DEF Range
    <2> QED
      BY <2>1, <2>2
  <1>12. Alive' = Alive \ {<<f, c>>}
    <2>1. \A h \in Fixtures, d \in Contexts :
            h \in Range(finalizers'[d]) <=> h \in Range(finalizers[d]) /\ ~(h = f /\ d = c)
      BY <1>9, <1>11
    <2> QED
      BY <2>1 DEF Alive
  <1>13. <<f, c>> \in Alive
    <2>1. f \in Range(finalizers[c])
      BY <1>6, <1>8 DEF Range
    <2> QED
      BY <1>8, <2>1, AliveFacts
  <1>14. ASSUME NEW h \in Fixtures, NEW d \in Contexts, h \in Range(finalizers[d]),
                f \in Rests(h), Resources!Encloses(c, d)
         PROVE  FALSE
    <2>1. <<h, d>> \in cache
      BY <1>1, <1>14 DEF FinalizersInv, Range
    <2>2. /\ d = "test" => phase \in {"resolving", "finishing_test", "aborted"}
          /\ d \in Modules => Open(d)
      BY <1>1, <2>1 DEF CacheInv
    <2>3. d # c
      BY <1>10, <1>14 DEF Range
    <2>4. \/ c = "test" /\ phase = "finishing_test"
          \/ c \in Modules /\ phase = "closing_module"
          \/ c = "session" /\ phase = "closing_session" /\ current = NumTests
      BY <1>2, ClosingFacts
    <2>5. (c = "session" \/ d = "test") /\ c # "test"
      <3>1. c = "session" \/ d = "test"
        BY <1>14, <2>3 DEF Resources!Encloses
      <3> QED
        BY <2>3, <3>1
    <2>6. d # "test"
      BY <2>2, <2>4, <2>5
    <2>7. c = "session" /\ d \in Modules /\ Open(d)
      BY <2>2, <2>3, <2>5, <2>6 DEF Contexts
    <2>8. current = NumTests /\ phase = "closing_session"
      BY <2>4, <2>7, NamesDiffer
    <2>9. \A t \in Tests : ~(t > NumTests)
      <3>1. NumTests \in Nat /\ \A t \in Tests : t \in Nat /\ t <= NumTests
        BY TestNumbers
      <3> QED
        BY <3>1
    <2> QED
      BY <2>7, <2>8, <2>9 DEF Open
  <1>15. ~\E held \in Alive : f \in Rests(held[1]) /\ Resources!Encloses(c, held[2])
    BY <1>14 DEF Alive
  <1>16. \A held \in Alive : held[1] \in Fixtures
    BY DEF Alive
  <1>17. Resources!Release(f, c)
    BY <1>12, <1>13, <1>15, <1>16 DEF Resources!Release, Alive, Rests
  <1> QED
    BY <1>8, <1>17 DEF Resources!Next

LEMMA StepRefines ==
  ASSUME Inv, [Next]_vars
  PROVE  Resources!Next \/ Alive' = Alive
  <1>1. CASE RunFinalizer
    BY <1>1, RunReleases
  <1>2. CASE StartFixture
    <2>1. PICK f \in Fixtures : f = Parent
      BY <1>2, SuppliedFacts DEF StartFixture
    <2>2. CASE f \in Yields
      BY <1>2, <2>1, <2>2, StartAcquires
    <2>3. CASE f \notin Yields
      <3>1. finalizers' = finalizers
        BY <1>2, <2>1, <2>3 DEF StartFixture
      <3> QED
        BY <3>1 DEF Alive
    <2> QED
      BY <2>2, <2>3
  <1>3. CASE finalizers' = finalizers
    BY <1>3 DEF Alive
  <1>4. RunFinalizer \/ StartFixture \/ finalizers' = finalizers
    BY DEF Next, vars, SkipTest, BeginTest, MissingFixture, RefuseFixture, ReuseFixture,
       EnterFixture, FixtureRaises, CallTest, FinishTest, CloseModule, BeginClosing,
       CloseSession, Aborts, BatchOver
  <1> QED
    BY <1>1, <1>2, <1>3, <1>4

\* Fixtures with a finalizer are acquired after all they rest on and released
\* before it, at most one of each in a context, in any run of the batch
\* (FixtureRuntime._resolve and _run_finalizers).
THEOREM LifetimesImplemented == Spec => ImplementsLifetimes
  <1>1. Init => Resources!Init
    <2>1. Init => \A c \in Contexts : Range(finalizers[c]) = {}
      BY RangeOfNone DEF Init
    <2> QED
      BY <2>1 DEF Resources!Init
  <1>2. Inv /\ [Next]_vars => [Resources!Next]_(Alive)
    BY StepRefines
  <1>3. Resources!Spec <=> Resources!Init /\ [][Resources!Next]_Alive
    BY DEF Resources!Spec, Alive
  <1> QED
    BY <1>1, <1>2, <1>3, Invariance, PTL DEF Spec, ImplementsLifetimes
=============================================================================
