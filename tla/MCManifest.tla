----------------------------- MODULE MCManifest -----------------------------
(***************************************************************************)
(* Many modules that are left alone, for the analysis, and three that are  *)
(* edited, for the manifest: one that may be divided, one with a test that *)
(* is there only if the helper says so, and one that cannot be parsed.     *)
(***************************************************************************)
EXTENDS TrustedRun

Decorators == <<From("test", "test", "testenix"), From("fixture", "fixture", "testenix")>>

\* What a module may say before its tests, about one name or two.
Declarations ==
  { << >>, <<Star>>, <<Expression>>,
    <<From("x", "x", "helper")>>, <<From("x", "x", "provider")>>,
    <<From("test", "x", "helper")>>, <<Def("test", None, "default", "constant", << >>)>>,
    <<From("fx", "fixture", "testenix"), Fixture("x", "fx", "dynamic")>>,
    <<Class("x", "list")>>, <<Class("x", "constant")>>, <<Class("x", "call")>>,
    <<Class("x", "constant"), SetAttribute("x", "list")>> }
  \cup {<<Bind("x", value)>> : value \in {"constant", "list", "call", "factory call"}}
  \cup {<<Fixture("x", "fixture", scope)>> : scope \in {"default", "test", "module", "dynamic"}}

\* A test that does something to x, and one that looks at it.
Decorator == {None, "test"}
Defaults == {"constant", "call"}
Operations == {"read", "use", "append", "touch", "store", "alias", "rebind"}
Pairs ==
  { <<Def("test_a", decorator, "default", default, <<Op("read", "x"), Op(do, "x")>>),
      Def("test_b", None, "default", "constant", <<Op("read", "x"), Op("use", "x")>>)>> :
      decorator \in Decorator, default \in Defaults, do \in Operations }

Divisible == Decorators \o <<From("x", "x", "helper"), Test("test_a", <<Op("read", "x")>>),
                             Test("test_b", << >>)>>
Conditional == Decorators \o <<From("x", "x", "helper"), Test("test_a", << >>),
                               Branch(Test("test_b", << >>))>>
MCEdited == {Divisible, Conditional, <<Unparsable>>}
MCModules == {Decorators \o d \o p : d \in Declarations, p \in Pairs} \cup MCEdited

MCOther == <<From("x", "x", "helper"), Test("test_c", << >>)>>
MCStarNames == {"test", "x"}
=============================================================================
