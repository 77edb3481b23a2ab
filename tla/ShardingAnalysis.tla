-------------------------- MODULE ShardingAnalysis --------------------------
(***************************************************************************)
(* Which test modules may be divided among processes: the static analysis  *)
(* of sharding.py, next to what a module does when it is imported and its  *)
(* tests are run.                                                          *)
(*                                                                         *)
(* A module is a sequence of top-level statements, each told apart as far  *)
(* as the analysis, or what the statement does, tells it apart.  The body  *)
(* of a test is a sequence of operations on the names of its module.       *)
(***************************************************************************)
EXTENDS Integers, Sequences, FiniteSets, SequencesExt

CONSTANTS StarNames    \* what the helper exports: names of the test modules

\* from origin import name as local.  The helper is another file of the project;
\* a provider is a fixture that is defined in another file.
From(local, name, origin) ==
  [kind |-> "from", local |-> local, name |-> name, origin |-> origin]

\* from helper import *
Star == [kind |-> "star"]

\* name = value; a value is a constant, a list display, a call, or the call of a
\* mutable factory, such as list().
Bind(name, value) == [kind |-> "bind", local |-> name, value |-> value]

\* class name: attribute = value, and a later name.attribute = value.
Class(name, value) == [kind |-> "class", local |-> name, value |-> value]
SetAttribute(name, value) == [kind |-> "attribute", local |-> name, value |-> value]

\* A call, a condition around the definition of a test, and a syntax error.
Expression == [kind |-> "expression"]
Branch(definition) == [kind |-> "branch", definition |-> definition]
Unparsable == [kind |-> "unparsable"]

\* def name, with a decorator or None, the scope given to it, and whether the
\* default of a parameter is a call.
None == "none"
Def(name, decorator, scope, default, body) ==
  [kind |-> "def", local |-> name, decorator |-> decorator, scope |-> scope,
   default |-> default, body |-> body]
Test(name, body) == Def(name, None, "default", "constant", body)
Fixture(name, decorator, scope) == Def(name, decorator, scope, "constant", << >>)

\* The operations of a body: read and use (a fixture) observe; append and touch call
\* a method that changes the object, by a name the analysis knows or not; store
\* assigns to an item or attribute; alias changes the object through a local name;
\* rebind declares the name global and assigns to it.
Op(do, name) == [do |-> do, name |-> name]

Statements(module) == ToSet(module)
OfKind(module, kinds) == {s \in Statements(module) : s.kind \in kinds}
Parses(module) == OfKind(module, {"unparsable"}) = {}

IsSequence(s) == s \in Seq(ToSet(s))
Kinds == {"from", "star", "bind", "class", "attribute", "expression", "branch", "def", "unparsable"}

\* What the interpreter asks of a module: a decorator is a name that is bound before,
\* and an attribute is set on what has attributes, be it a class, a function,
\* something imported or the result of a call.
Binds(s, name) == s.kind \in {"from", "bind", "class", "def"} /\ s.local = name
StarBinds(s, name) == s.kind = "star" /\ name \in StarNames
HasAttributes(s, name) ==
  \/ s.kind \in {"from", "class", "def"} /\ s.local = name
  \/ s.kind = "bind" /\ s.local = name /\ s.value \in {"call", "factory call"}
  \/ StarBinds(s, name)
Defined(module, k, definition) ==
  /\ IsSequence(definition.body)
  /\ definition.decorator # None =>
       \E j \in 1 .. k - 1 : \/ Binds(module[j], definition.decorator)
                             \/ StarBinds(module[j], definition.decorator)

WellFormed(module) ==
  /\ IsSequence(module)
  /\ \A k \in DOMAIN module :
       /\ module[k].kind \in Kinds
       /\ module[k].kind = "def" => Defined(module, k, module[k])
       /\ module[k].kind = "branch" => Defined(module, k, module[k].definition)
       /\ module[k].kind = "attribute" =>
            \E j \in 1 .. k - 1 : HasAttributes(module[j], module[k].local)

-----------------------------------------------------------------------------
(***************************************************************************)
(* The analysis.                                                           *)
(***************************************************************************)
Factories == {"test", "fixture"}
MutatingMethods == {"append"}
IsCall(value) == value \in {"call", "factory call"}
IsMutableValue(value) == value \in {"list", "factory call"}

IsImportedFactory(s) ==
  s.kind = "from" /\ s.origin = "testenix" /\ s.name \in Factories

\* _testenix_decorator_names: a name imported from testenix and bound by no other
\* statement.  What a star import binds is not known, and not counted.
Imported(module) == {s.local : s \in {t \in Statements(module) : IsImportedFactory(t)}}
Rebound(module) ==
  {s.local : s \in {t \in OfKind(module, {"from", "bind", "class", "attribute", "def"}) :
                      ~IsImportedFactory(t)}}

\* A plausible slip: a decorator is believed as soon as it is imported from testenix.
ImportedDecorators(module) == Imported(module)

SafeDecorators(module) == Imported(module) \ Rebound(module)

\* _import_time_blocker
ImportTimeBlocker(s) == s.kind \in {"expression", "branch"}

\* _definition_time_call_blockers
DefinitionTimeCall(s, safe) ==
  \/ s.kind \in {"bind", "class", "attribute"} /\ IsCall(s.value)
  \/ s.kind = "def" /\ (IsCall(s.default) \/ s.decorator \notin safe \cup {None})

\* _fixture_scope_blockers: a fixture is known by the name of its decorator.
FixtureScopeBlocker(s, safe) ==
  /\ s.kind = "def"
  /\ s.decorator \in safe \cap {"fixture"}
  /\ s.scope \notin {"default", "test"}

\* _mutable_class_bindings and _mutable_module_bindings
MutableClasses(module) ==
  LET classes == OfKind(module, {"class"})
      names == {s.local : s \in classes}
  IN {s.local : s \in {t \in classes : IsMutableValue(t.value)}}
       \cup {s.local : s \in {t \in OfKind(module, {"attribute"}) :
                               IsMutableValue(t.value) /\ t.local \in names}}
MutableBindings(module) ==
  MutableClasses(module)
    \cup {s.local : s \in {t \in OfKind(module, {"bind"}) : IsMutableValue(t.value)}}

\* _StateHazardVisitor
StateHazard(op, mutable) ==
  \/ op.do = "rebind"
  \/ op.do \in MutatingMethods \cup {"store"} /\ op.name \in mutable

\* _source_blockers: whether nothing in the source speaks against dividing it.
SourceAllowsSharding(module) ==
  LET safe == SafeDecorators(module)
      mutable == MutableBindings(module)
  IN /\ Parses(module)
     /\ \A s \in Statements(module) : /\ ~ImportTimeBlocker(s)
                                      /\ ~DefinitionTimeCall(s, safe)
                                      /\ ~FixtureScopeBlocker(s, safe)
     /\ MutableClasses(module) = {}
     /\ \A s \in OfKind(module, {"def"}) : \A op \in ToSet(s.body) : ~StateHazard(op, mutable)

-----------------------------------------------------------------------------
(***************************************************************************)
(* What a module does.  bound says what the names are bound to, effects    *)
(* counts the calls of code from elsewhere, which may change anything      *)
(* outside of the process.                                                 *)
(***************************************************************************)
Kind(value) ==
  CASE IsMutableValue(value) -> "container"
    [] OTHER -> "plain"

\* The fixtures a name may stand for, and the scope of one that is given as a
\* variable from outside of the project.
ScopeOf(scope, outside) ==
  CASE scope = "dynamic" -> outside
    [] scope = "default" -> "test"
    [] OTHER -> scope

Rebind(names, name, what) == [n \in DOMAIN names \cup {name} |->
                                IF n = name THEN what ELSE names[n]]

Define(loaded, s, outside) ==
  LET decorates == IF s.decorator = None THEN "nothing" ELSE loaded.bound[s.decorator]
      isFixture == decorates = "fixture"
  IN [loaded EXCEPT
        !.bound = Rebind(@, s.local, "function"),
        !.effects = @ + (IF IsCall(s.default) THEN 1 ELSE 0)
                      + (IF decorates \in Factories \cup {"nothing"} THEN 0 ELSE 1),
        !.fixtures = IF isFixture THEN Rebind(@, s.local, ScopeOf(s.scope, outside)) ELSE @,
        !.tests = IF isFixture THEN @ ELSE Append(@, s)]

Execute(loaded, s, helper, outside) ==
  CASE s.kind = "from" ->
         [loaded EXCEPT
            !.bound = Rebind(@, s.local,
                             IF s.origin = "testenix" THEN s.name ELSE "foreign"),
            !.fixtures = IF s.origin = "provider" THEN Rebind(@, s.local, outside) ELSE @,
            !.imported = IF s.origin = "provider" THEN @ \cup {s.local} ELSE @]
    [] s.kind = "star" ->
         [loaded EXCEPT !.bound = [n \in DOMAIN @ \cup StarNames |->
                                     IF n \in StarNames THEN "foreign" ELSE @[n]]]
    [] s.kind = "bind" ->
         [loaded EXCEPT !.bound = Rebind(@, s.local, Kind(s.value)),
                        !.effects = @ + (IF IsCall(s.value) THEN 1 ELSE 0)]
    [] s.kind \in {"class", "attribute"} ->
         [loaded EXCEPT !.bound = Rebind(@, s.local,
                                         IF Kind(s.value) = "container" THEN "container"
                                         ELSE "class"),
                        !.effects = @ + (IF IsCall(s.value) THEN 1 ELSE 0)]
    [] s.kind = "expression" -> [loaded EXCEPT !.effects = @ + 1]
    [] s.kind = "branch" ->
         IF helper = 1 THEN Define(loaded, s.definition, outside) ELSE loaded
    [] s.kind = "def" -> Define(loaded, s, outside)

\* load_module, _defined_functions and the fixtures registered for the module.
NothingLoaded ==
  [bound |-> << >>, effects |-> 0, fixtures |-> << >>, imported |-> {}, tests |-> << >>]

LoadModule(module, helper, outside) ==
  LET loaded[k \in 0 .. Len(module)] ==
        IF k = 0 THEN NothingLoaded
        ELSE Execute(loaded[k - 1], module[k], helper, outside)
  IN loaded[Len(module)]

TestNames(loaded) == {s.local : s \in ToSet(loaded.tests)}

\* assess_collection_sharding: the fixtures of the module as it was loaded, and the
\* source as it is read again.
Eligible(source, loaded) ==
  /\ SourceAllowsSharding(source)
  /\ loaded.imported = {}
  /\ \A n \in DOMAIN loaded.fixtures : loaded.fixtures[n] = "test"

-----------------------------------------------------------------------------
(***************************************************************************)
(* What tests observe.  memory counts the changes made in a process to     *)
(* what each name stands for.                                              *)
(***************************************************************************)
Changes(op, what) ==
  \/ op.do = "rebind"
  \/ op.do = "store" /\ what # "plain"
  \/ op.do \in {"append", "touch", "alias"} /\ what \in {"container", "foreign"}

\* A fixture of module scope is shared by the tests of a process, and each user
\* changes it.
Perform(state, op, loaded) ==
  LET name == op.name
      shared == op.do = "use" /\ name \in DOMAIN loaded.fixtures
                              /\ loaded.fixtures[name] = "module"
      changed == name \in DOMAIN loaded.bound
                   /\ (shared \/ Changes(op, loaded.bound[name]))
      seen == IF name \in DOMAIN state.memory THEN state.memory[name] ELSE 0
  IN [memory |-> IF changed THEN Rebind(state.memory, name, seen + 1) ELSE state.memory,
      observed |-> IF op.do = "read" \/ shared THEN Append(state.observed, seen)
                   ELSE state.observed]

RunTest(state, test, loaded) ==
  LET now[k \in 0 .. Len(test.body)] ==
        IF k = 0 THEN [memory |-> state.memory, observed |-> << >>]
        ELSE Perform(now[k - 1], test.body[k], loaded)
      after == now[Len(test.body)]
  IN [memory |-> after.memory,
      results |-> Rebind(state.results, test.local, after.observed)]

\* The results of some tests of a module, run in their order in one process.
ResultsOf(loaded, names) ==
  LET state[k \in 0 .. Len(loaded.tests)] ==
        IF k = 0 THEN [memory |-> << >>, results |-> << >>]
        ELSE IF loaded.tests[k].local \in names
          THEN RunTest(state[k - 1], loaded.tests[k], loaded)
          ELSE state[k - 1]
  IN state[Len(loaded.tests)].results

-----------------------------------------------------------------------------
(***************************************************************************)
(* What no analysis of one file can see, and the documentation leaves to   *)
(* the project that asks for sharding: names bound by a star import, state *)
(* of other files, changes through an alias or an unlisted method, and     *)
(* attributes of classes and functions that hold no container.             *)
(***************************************************************************)
Undetected(module) ==
  LET imported == {s.local : s \in OfKind(module, {"from"})}
      plainClasses == {s.local : s \in OfKind(module, {"class"})} \ MutableClasses(module)
      functions == {s.local : s \in OfKind(module, {"def"})}
  IN \/ OfKind(module, {"star"}) # {}
     \/ \E s \in OfKind(module, {"def"}) :
          \E op \in ToSet(s.body) :
            \/ op.do \in {"touch", "alias"}
            \/ op.do \in {"append", "store"}
                 /\ op.name \in imported \cup plainClasses \cup functions

\* A fixture is recognised by the name of its decorator only, so that its scope is
\* not looked at when the decorator was imported under another name.
RenamedFixtureDecorator(module) ==
  \E s \in Statements(module) :
    s.kind = "from" /\ IsImportedFactory(s) /\ s.name = "fixture" /\ s.local # "fixture"
=============================================================================
