-------------------------- MODULE DeliverySupervisor --------------------------
(***************************************************************************)
(* The supervisor of software delivery: from one snapshot, the objective   *)
(* of the request, the authority it comes with and the transition it asks  *)
(* for (or none), the decision.  It filters the catalog by source, scope,  *)
(* objective binding and repository policy and leaves the rest to the      *)
(* canonical relation.                                                     *)
(*                                                                         *)
(* A snapshot is a record of facets, with `bound` the objective that is    *)
(* bound, `rules` the repository policy as read from the configuration     *)
(* file, and `evidence` the gates whose evidence bears the current         *)
(* revision.  Every fact is known here, except an objective that is not    *)
(* bound yet.                                                              *)
(***************************************************************************)
EXTENDS DeliveryCatalog, TransitionRelation

Satisfies(conditions, snapshot) ==
  \A condition \in conditions :
    \A facet \in DOMAIN condition : snapshot[facet] \in condition[facet]

SourceMatches(t, snapshot) ==
  snapshot.phase \in t.from /\ Satisfies(t.when, snapshot)

TargetMatches(t, snapshot) ==
  snapshot.phase \in t.to /\ Satisfies(t.then, snapshot)

SupportsObjective(t, objective) ==
  \/ t.scope = "optional-preserve"
  \/ t.targets = {}
  \/ objective.target \in t.targets

PreservesBinding(t, snapshot, objective) ==
  snapshot.objective = "known" => snapshot.bound = objective \/ t.binds

PolicyAllows(t, snapshot) == t.visual => snapshot.rules.visual # "off"

\* Mutant: what is done is selected again.
NeverSatisfied(t, snapshot, objective) == FALSE

\* targetAlreadySatisfied: an untargeted request does not repeat what is done.
TargetAlreadySatisfied(t, snapshot, objective) ==
  CASE t.rechecks -> FALSE
    [] t.binds -> snapshot.objective = "known" /\ snapshot.bound = objective
    [] t.visual /\ snapshot.rules.visual # "required" -> TRUE
    [] ~t.rechecks /\ ~t.binds /\ t.evidence # ""
         /\ ~(t.visual /\ snapshot.rules.visual # "required") -> t.evidence \in snapshot.evidence
    [] OTHER -> TargetMatches(t, snapshot)

\* relationAuthority: the repository policy may add a human to what is declared.
RequiredAll(t, snapshot) ==
  t.all
    \cup (IF t.rule = "plan-approval" /\ snapshot.rules.approval = "human"
            THEN {"human"} ELSE {})
    \cup (IF t.rule = "independent-high-risk-review" /\ snapshot.rules.independent
            THEN {"human"} ELSE {})

Admissible(snapshot, objective) ==
  {id \in DOMAIN Catalog :
     LET t == Catalog[id] IN
     /\ SourceMatches(t, snapshot)
     /\ SupportsObjective(t, objective)
     /\ PreservesBinding(t, snapshot, objective)
     /\ PolicyAllows(t, snapshot)}

Candidates(snapshot, objective) ==
  {LET t == Catalog[id] IN
     Candidate(id, Rank(t.selection), t.priority,
               ImplicitlySelectable(t) /\ ~TargetAlreadySatisfied(t, snapshot, objective),
               RequiredAll(t, snapshot), t.any) : id \in Admissible(snapshot, objective)}

Marked(snapshot, objective) ==
  /\ snapshot.objective = "known" /\ snapshot.bound = objective
  /\ Satisfies(Contract(objective.target), snapshot)

\* The one element of a set: a value that TLC computes once, also where it
\* evaluates ENABLED.
The(S) == CHOOSE v \in S : TRUE

Resolve(snapshot, objective, authority, requested) ==
  The({Relate(input) : input \in
        {[requested |-> requested,
          marked |-> Marked(snapshot, objective),
          noCandidate |-> IF snapshot.phase \in {"RECOVERY", "UNRESOLVED"}
                            THEN "BLOCKED" ELSE "UNRESOLVED",
          candidates |-> Candidates(snapshot, objective),
          available |-> authority]}})
=============================================================================
