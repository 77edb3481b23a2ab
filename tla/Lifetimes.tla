----------------------------- MODULE Lifetimes ------------------------------
(***************************************************************************)
(* What tests and fixtures may rely on: a resource is acquired after the   *)
(* resources it rests on and released before them, and a context (a test,  *)
(* a module, the session) holds at most one of each fixture at a time.     *)
(***************************************************************************)
CONSTANTS
  Fixtures,
  Contexts,  \* "test", "session" and the modules
  Below      \* Below[f]: the fixtures with a finalizer that f rests on

VARIABLE live  \* the pairs of a fixture and the context that holds it

Init == live = {}

\* Contexts nest: a test in its module, all of them in the session.
Encloses(outer, inner) == outer = inner \/ outer = "session" \/ inner = "test"

Acquire(f, context) ==
  /\ <<f, context>> \notin live
  /\ \A g \in Below[f] :
       \E outer \in Contexts : Encloses(outer, context) /\ <<g, outer>> \in live
  /\ live' = live \union {<<f, context>>}

Release(f, context) ==
  /\ <<f, context>> \in live
  /\ ~\E held \in live : f \in Below[held[1]] /\ Encloses(context, held[2])
  /\ live' = live \ {<<f, context>>}

Next == \E f \in Fixtures, context \in Contexts :
          Acquire(f, context) \/ Release(f, context)

Spec == Init /\ [][Next]_live
=============================================================================
