--------------------------- MODULE IntegerControl ---------------------------
(***************************************************************************)
(* The reference program and domain of kernel/conformance/integer.go: a    *)
(* counter that is bound to an objective, incremented twice to the marked  *)
(* mode and may be reset, with a recovery for each of these.  The runtime  *)
(* module is checked on it, as the repository's own conformance suite is.  *)
(***************************************************************************)
EXTENDS Integers

CONSTANT MaxValue   \* bound on the counter; at least 2, the marked value

IntegerModes == {"unbound", "zero", "one", "two"}

IntegerTransitions ==
  {"objective.bind", "counter.increment-first", "counter.increment-second",
   "counter.reset", "objective.recover", "counter.recover"}

Increments == {"counter.increment-first", "counter.increment-second"}

\* The transitions whose operation is counter.reset.
Resets == {"counter.reset", "objective.recover", "counter.recover"}

IntegerSources ==
  [t \in IntegerTransitions |->
     CASE t \in {"objective.bind", "objective.recover"} -> {"unbound"}
       [] t = "counter.increment-first"  -> {"zero"}
       [] t = "counter.increment-second" -> {"one"}
       [] t = "counter.reset"            -> {"one", "two"}
       [] t = "counter.recover"          -> {"zero", "one", "two"}]

IntegerTarget ==
  [t \in IntegerTransitions |->
     CASE t = "objective.recover"        -> "unbound"
       [] t = "counter.increment-first"  -> "one"
       [] t = "counter.increment-second" -> "two"
       [] OTHER                          -> "zero"]

IntegerRecovers ==
  [t \in IntegerTransitions |->
     CASE t = "objective.recover" -> {"objective.bind"}
       [] t = "counter.recover"   -> Increments \cup {"counter.reset"}
       [] OTHER                   -> {}]

IntegerScope ==
  [t \in IntegerTransitions |->
     CASE t = "objective.bind" -> "none"
       [] t \in Increments     -> "bound-exact"
       [] t \in Resets         -> "optional-preserve"]

IntegerMutation ==
  [t \in IntegerTransitions |->
     IF t = "objective.bind" THEN "bind" ELSE "preserve"]

IntegerCapability == {"objective.bind", "counter.increment", "counter.reset"}

IntegerRequired ==
  [t \in IntegerTransitions |->
     CASE t = "objective.bind" -> {"objective.bind"}
       [] t \in Increments     -> {"counter.increment"}
       [] t \in Resets         -> {"counter.reset"}]

IntegerPriority ==
  [t \in IntegerTransitions |->
     CASE t = "objective.bind" -> 5
       [] t \in Increments     -> 10
       [] t = "counter.reset"  -> 20
       [] OTHER                -> 1]

Values == 0..MaxValue

\* Admissible, apart from the objective (the program's scope already requires
\* it) and from an active recovery (KernelRuntime!DomainAdmits).
IntegerAdmits ==
  [t \in IntegerTransitions |->
     CASE t = "objective.bind" -> Values
       [] t \in Increments     -> {v \in Values : v < 2}
       [] t \in Resets         -> {v \in Values : v > 0}]

IntegerEffect ==
  [t \in IntegerTransitions |->
     [v \in Values |->
        CASE t = "objective.bind" -> v
          [] t \in Increments     -> IF v < MaxValue THEN v + 1 ELSE v
          [] t \in Resets         -> 0]]

IntegerVerified ==
  [t \in IntegerTransitions |->
     {p \in Values \X Values :
        CASE t = "objective.bind" -> p[2] = p[1]
          [] t \in Increments     -> p[2] = p[1] + 1
          [] t \in Resets         -> p[2] = 0}]
=============================================================================
