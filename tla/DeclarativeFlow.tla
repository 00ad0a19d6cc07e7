---------------------------- MODULE DeclarativeFlow ----------------------------
(***************************************************************************)
(* Declarative flows: transitions that only assign facets of a run.        *)
(*                                                                         *)
(* A document is accepted once, from its text; its runs take one step at a *)
(* time, from the facts an earlier step left behind.  What was accepted    *)
(* about a transition is conservative: a guard proves a precondition, an   *)
(* availability or a part of a target only where every way through its     *)
(* syntax requires it.                                                     *)
(*                                                                         *)
(* A predicate is a record; `of` holds its children.  A fact is known with *)
(* a value or absent.  The types of facets, entry inputs (which are there  *)
(* from the first step on) and authority are left out.                     *)
(***************************************************************************)
EXTENDS Integers, FiniteSets

CONSTANTS
  DocumentFacets,
  Texts,      \* values a facet may take and a host may answer with
  Goal,       \* target of the entry
  Drafted,    \* the transitions of the document
  Offered     \* transitions, one of which its author adds

VARIABLES
  document,   \* the transitions of the compiled flow
  facts       \* the facts of its run: a function on the facets that are known

flowVars == <<document, facts>>

FactStatuses == {"absent", "ambiguous", "conflicting", "known", "stale", "unknown"}

True(holds) == [op |-> "true", holds |-> holds]
FactIs(facet, statuses, values) ==
  [op |-> "fact", facet |-> facet, statuses |-> statuses, values |-> values]
AllOf(children) == [op |-> "all", of |-> children]
AnyOf(children) == [op |-> "any", of |-> children]
NotThat(child) == [op |-> "not", of |-> {child}]

-----------------------------------------------------------------------------
(***************************************************************************)
(* Compilation.                                                            *)
(***************************************************************************)
RECURSIVE NormalPredicate(_)
NormalPredicate(p) ==
  CASE p.op = "true" -> TRUE
    [] p.op = "fact" -> p.facet \in DocumentFacets /\ p.statuses \subseteq FactStatuses
    [] OTHER -> p.of # {} /\ \A q \in p.of : NormalPredicate(q)

\* Mutant: one path of an alternative is enough.
RECURSIVE RequiresFacetValueSomewhere(_, _, _)
RequiresFacetValueSomewhere(p, facet, values) ==
  CASE p.op = "fact" -> p.facet = facet /\ p.values # {} /\ p.values \subseteq values
    [] p.op \in {"all", "any"} ->
         \E q \in p.of : RequiresFacetValueSomewhere(q, facet, values)
    [] OTHER -> FALSE

\* Is one value of `values` required of the facet on every path?
RECURSIVE RequiresFacetValue(_, _, _)
RequiresFacetValue(p, facet, values) ==
  CASE p.op = "fact" -> p.facet = facet /\ p.values # {} /\ p.values \subseteq values
    [] p.op = "all"  -> \E q \in p.of : RequiresFacetValue(q, facet, values)
    [] p.op = "any"  -> \A q \in p.of : RequiresFacetValue(q, facet, values)
    [] OTHER         -> FALSE

RECURSIVE RequiresKnownFacet(_, _)
RequiresKnownFacet(p, facet) ==
  CASE p.op = "fact" -> p.facet = facet /\ (p.values # {} \/ p.statuses = {"known"})
    [] p.op = "all"  -> \E q \in p.of : RequiresKnownFacet(q, facet)
    [] p.op = "any"  -> \A q \in p.of : RequiresKnownFacet(q, facet)
    [] OTHER         -> FALSE

RECURSIVE PredicateImplies(_, _)
PredicateImplies(guard, condition) ==
  \/ condition \in {True(TRUE), guard}
  \/ CASE condition.op = "all" -> \A q \in condition.of : PredicateImplies(guard, q)
       [] condition.op # "all" /\ guard.op = "any" ->
            \A q \in guard.of : PredicateImplies(q, condition)
       [] OTHER ->
            \/ guard.op = "all" /\ \E q \in guard.of : PredicateImplies(q, condition)
            \/ condition.op = "any" /\ \E q \in condition.of : PredicateImplies(guard, q)

\* A parameter read from the state says when its facet is there, and the guard
\* says that it is then.
ProducersAreAvailable(t) ==
  \A name \in DOMAIN t.takes :
    t.takes[name].kind = "state" =>
      LET producer == t.takes[name] IN
      /\ producer.facet \in DocumentFacets
      /\ RequiresKnownFacet(producer.when, producer.facet)
      /\ PredicateImplies(t.guard, producer.when)

EffectIsNormal(t) ==
  /\ DOMAIN t.sets # {} /\ DOMAIN t.sets \subseteq DocumentFacets
  /\ DOMAIN t.pre \subseteq DocumentFacets /\ \A f \in DOMAIN t.pre : t.pre[f] # {}

\* A facet assigned from a parameter proves nothing about the target; one that
\* is not assigned keeps what the guard requires of it.
RECURSIVE Established(_, _)
Established(t, p) ==
  CASE p.op = "true" -> p.holds
    [] p.op = "fact" /\ p.facet \in DOMAIN t.sets ->
         /\ t.sets[p.facet].kind = "literal"
         /\ p.statuses = {} \/ "known" \in p.statuses
         /\ p.values = {} \/ t.sets[p.facet].value \in p.values
    [] p.op = "fact" /\ p.facet \notin DOMAIN t.sets ->
         RequiresFacetValue(t.guard, p.facet, p.values)
    [] p.op = "all" -> \A q \in p.of : Established(t, q)
    [] p.op = "any" -> \E q \in p.of : Established(t, q)
    [] OTHER        -> FALSE

AssignmentsEstablishTarget(t) == Established(t, t.target)

\* What the compiler and then the declarative adapter accept.
FlowAccepted(t) ==
  /\ NormalPredicate(t.guard) /\ NormalPredicate(t.target) /\ t.priority > 0
  /\ EffectIsNormal(t)
  /\ ProducersAreAvailable(t)
  /\ \A f \in DOMAIN t.pre : RequiresFacetValue(t.guard, f, t.pre[f])
  /\ \A f \in DOMAIN t.sets :
       t.sets[f].kind = "parameter" => t.sets[f].name \in DOMAIN t.takes
  /\ AssignmentsEstablishTarget(t)

-----------------------------------------------------------------------------
(***************************************************************************)
(* Runs.                                                                   *)
(***************************************************************************)
RECURSIVE Satisfied(_, _)
Satisfied(p, known) ==
  CASE p.op = "true" -> p.holds
    [] p.op = "fact" ->
         /\ \/ p.statuses = {}
            \/ (IF p.facet \in DOMAIN known THEN "known" ELSE "absent") \in p.statuses
         /\ p.values = {} \/ (p.facet \in DOMAIN known /\ known[p.facet] \in p.values)
    [] p.op = "all"  -> \A q \in p.of : Satisfied(q, known)
    [] p.op = "any"  -> \E q \in p.of : Satisfied(q, known)
    [] p.op = "not"  -> \A q \in p.of : ~Satisfied(q, known)

\* The transitions of the best priority whose target is still to be reached.
Frontier(known) ==
  LET open == {t \in document : Satisfied(t.guard, known) /\ ~Satisfied(t.target, known)}
  IN {t \in open : \A u \in open : t.priority <= u.priority}

Answered(t) == {name \in DOMAIN t.takes : t.takes[name].kind = "host"}

\* The parameters, from the facts of the run and the answers of a host.
Complete(t, known) ==
  \A name \in DOMAIN t.takes \ Answered(t) : t.takes[name].facet \in DOMAIN known

Materialized(t, known, answers) ==
  [name \in DOMAIN t.takes |->
     IF name \in Answered(t) THEN answers[name] ELSE known[t.takes[name].facet]]

PreconditionsHold(t, known) ==
  \A f \in DOMAIN t.pre : f \in DOMAIN known /\ known[f] \in t.pre[f]

Assign(t, known, values) ==
  [f \in DOMAIN known \cup DOMAIN t.sets |->
     CASE f \notin DOMAIN t.sets       -> known[f]
       [] f \in DOMAIN t.sets /\ t.sets[f].kind = "literal"   -> t.sets[f].value
       [] f \in DOMAIN t.sets /\ t.sets[f].kind = "parameter" -> values[t.sets[f].name]]

\* An accepted document, and a run of it that knows nothing yet.
FlowInit ==
  /\ document \in {Drafted \cup {t} : t \in {o \in Offered : FlowAccepted(o)}}
  /\ \A t \in document : FlowAccepted(t)
  /\ facts = [f \in {} |-> ""]

\* A host takes one transition of the frontier: the only one, or the one it
\* names.  Nothing is saved of a step that fails.
RunStep ==
  /\ ~Satisfied(Goal, facts)
  /\ \E t \in Frontier(facts) :
       /\ Complete(t, facts) /\ PreconditionsHold(t, facts)
       /\ \E answers \in [Answered(t) -> Texts] :
            facts' = Assign(t, facts, Materialized(t, facts, answers))
       /\ Satisfied(t.target, facts')
  /\ UNCHANGED document

\* A fact that names values wants them of a known facet: of an absent one it
\* never holds, and no rule refuses it.
RECURSIVE ValuesAreKnown(_)
ValuesAreKnown(p) ==
  CASE p.op = "true" -> TRUE
    [] p.op = "fact" -> p.values = {} \/ p.statuses = {} \/ "known" \in p.statuses
    [] OTHER -> \A q \in p.of : ValuesAreKnown(q)

\* A selected step of an accepted flow cannot fail, whatever the run has seen
\* and whatever a host answers: the facets its parameters read are known, its
\* preconditions hold, and its assignments establish its target
\* (flow_command.go L438-517 against declarative_flow.go L225-245).
SelectedStepsSucceed ==
  \A t \in Frontier(facts) :
    ValuesAreKnown(t.target) =>
      /\ Complete(t, facts)
      /\ PreconditionsHold(t, facts)
      /\ \A answers \in [Answered(t) -> Texts] :
           Satisfied(t.target, Assign(t, facts, Materialized(t, facts, answers)))
=============================================================================
