---------------------------- MODULE DeliveryCatalog ----------------------------
(***************************************************************************)
(* The transitions that the compiled software-delivery program declares    *)
(* (core/transitions.json, flow/standard/transitions.json) and the         *)
(* contracts of its objectives (flow/standard/standard.go), as data.       *)
(*                                                                         *)
(* A transition declares the phases and facets it starts from (`from`,     *)
(* `when`), those it must end in (`to`, `then`), the objective targets it  *)
(* serves, its authority (one of `any`, each of `all`, and a rule of the   *)
(* repository policy) and how it is selected.  Conditions that hold of     *)
(* every worktree without an interrupted transaction (program current,     *)
(* recovery none, transaction none) are left out, and with them the        *)
(* recovery transitions, which DeliveryTransaction models.                 *)
(***************************************************************************)
EXTENDS Integers

Targets == {"approved-plan", "verified-implementation", "open-or-updated-pr",
            "merged-delivery", "safely-abandoned"}

Phases == {"DORMANT", "OBSERVED", "ACTIVE", "FRONTIER", "RECOVERY",
           "UNRESOLVED", "TERMINAL", "ABANDONED"}

\* SelectionClass.Rank.
Rank(selection) ==
  CASE selection = "SYSTEM_RECOVERY"    -> 1
    [] selection = "PROGRAM_RECOVERY"   -> 2
    [] selection = "EXTENSION_RECOVERY" -> 3
    [] selection = "OBJECTIVE_REQUIRED" -> 4
    [] selection = "PROGRAM_PROGRESS"   -> 5
    [] selection = "EXPLICIT_ONLY"      -> 6

ImplicitlySelectable(t) == t.selection # "EXPLICIT_ONLY"

Declared(selection, priority, from, to, any, when, then) ==
  [selection |-> selection, priority |-> priority, from |-> from, to |-> to,
   any |-> any, all |-> {}, when |-> when, then |-> then,
   targets |-> Targets, scope |-> "bound-exact", rule |-> "", evidence |-> "",
   visual |-> FALSE, rechecks |-> FALSE, binds |-> FALSE]

Required(priority, from, to, any, when, then) ==
  Declared("OBJECTIVE_REQUIRED", priority, from, to, any, when, then)

\* Mutant: among the steps of the program the last declared comes first.
ProgressReversed(priority, from, to, any, when, then) ==
  Declared("PROGRAM_PROGRESS", 100 - priority, from, to, any, when, then)

Progress(priority, from, to, any, when, then) ==
  Declared("PROGRAM_PROGRESS", priority, from, to, any, when, then)
Explicit(priority, from, to, any, when, then) ==
  Declared("EXPLICIT_ONLY", priority, from, to, any, when, then)

Human    == {"human"}
Agent    == {"human", "autonomy"}
Policy   == {"repository-policy"}
Reviewer == {"human", "repository-policy"}

Nonterminal == {[terminal |-> {"nonterminal"}]}
Unsettled   == {[terminal |-> {"nonterminal", "stale"}]}
Landed      == {[terminal |-> {"nonterminal", "established"}]}
Engaged     == {[engagement |-> {"command", "active"}, objective |-> {"known"}]}
Installed   == {[configuration |-> {"verified"}, runtime |-> {"verified"}]}
Steady      == Engaged \cup Installed
PolicyKnown == {[policy |-> {"known"}]}

ToOpen   == {"open-or-updated-pr", "merged-delivery"}
ToImplement == ToOpen \cup {"verified-implementation"}
ToAbandon == {"safely-abandoned"}

Gate(selection, priority, to, any, then, name) ==
  [Declared(selection, priority, {"ACTIVE"}, to, any,
            {[plan |-> {"locked"}, delivery |-> {"active", "gates-passed"}]}
              \cup Unsettled \cup Steady,
            {[verification |-> then]}) EXCEPT !.evidence = name]

Discardable == {"uninitialized", "planning", "approved", "active", "gates-passed",
                "published", "amendment", "invalid", "recovery"}

Abandonment(priority, from, when, then) ==
  [Explicit(priority, from, {"ABANDONED"}, Human, when \cup Nonterminal \cup Engaged, then)
     EXCEPT !.targets = ToAbandon]

CoreIds ==
  {"engagement.begin", "engagement.release", "objective.bind",
   "runtime.hydrate", "installation.update", "configuration.mutate"}

CoreTransition(id) ==
  CASE id = "engagement.begin" ->
      [Required(10, {"DORMANT", "OBSERVED"}, {"OBSERVED", "ACTIVE"}, Policy,
        {[engagement |-> {"dormant", "command"}, objective |-> {"known"}]}
          \cup Nonterminal \cup Installed,
        {[engagement |-> {"command"}]}) EXCEPT !.targets = {}]
    [] id = "engagement.release" ->
      Explicit(95, {"ACTIVE", "FRONTIER"}, {"DORMANT"}, Policy,
        {[engagement |-> {"active", "stale", "command"}, objective |-> {"known"}]}
          \cup Nonterminal \cup Installed,
        {[engagement |-> {"dormant"}]})
    [] id = "objective.bind" ->
      [Required(30,
        {"OBSERVED", "DORMANT", "ACTIVE", "FRONTIER", "TERMINAL", "ABANDONED"},
        {"OBSERVED", "ACTIVE", "FRONTIER"}, Agent,
        {[objective |-> {"known", "absent"}]}, {[objective |-> {"known"}]})
          EXCEPT !.targets = {}, !.scope = "none", !.binds = TRUE]
    [] id = "runtime.hydrate" ->
      [Required(20, {"OBSERVED", "RECOVERY", "UNRESOLVED"},
        {"OBSERVED", "ACTIVE", "TERMINAL"}, Policy,
        {[runtime |-> {"absent", "stale", "invalid", "conflicting", "wrong-source"}]}
          \cup Unsettled,
        {[runtime |-> {"verified"}]}) EXCEPT !.scope = "optional-preserve"]
    [] id = "installation.update" ->
      [Explicit(65, Phases \ {"RECOVERY", "UNRESOLVED"},
        Phases \ {"RECOVERY", "UNRESOLVED"}, Agent,
        {[configuration |-> {"verified"}]}, {[runtime |-> {"verified"}]})
          EXCEPT !.scope = "optional-preserve"]
    [] id = "configuration.mutate" ->
      [Explicit(60, {"OBSERVED", "ACTIVE", "FRONTIER", "UNRESOLVED"},
        {"OBSERVED", "ACTIVE", "TERMINAL"}, Agent,
        {[configuration |-> {"verified", "stale", "divergent", "conflicting"},
         runtime |-> {"verified"}]} \cup Unsettled \cup Engaged,
        {[configuration |-> {"verified"}]}) EXCEPT !.scope = "optional-preserve"]

PlanIds ==
  {"plan.create", "plan.validate", "plan.approve", "plan.activate",
   "plan.amend", "plan.approve-amendment", "plan.invalidate", "plan.abandon",
   "evidence.approval.revoke"}

PlanTransition(id) ==
  CASE id = "plan.create" ->
      Progress(35, {"OBSERVED", "ACTIVE"}, {"ACTIVE"}, Agent,
        {[plan |-> {"absent", "invalid", "stale"}]} \cup Unsettled \cup Steady,
        {[plan |-> {"draft"}]})
    [] id = "plan.validate" ->
      Progress(40, {"OBSERVED", "ACTIVE"}, {"ACTIVE", "FRONTIER"}, Policy,
        {[plan |-> {"draft"}]} \cup Unsettled \cup Steady, {[plan |-> {"valid"}]})
    [] id = "plan.approve" ->
      [Progress(45, {"ACTIVE", "FRONTIER"}, {"ACTIVE", "TERMINAL"}, Agent,
        {[plan |-> {"valid"}]} \cup Nonterminal \cup Steady \cup PolicyKnown,
        {[plan |-> {"approved"}]})
          EXCEPT !.rule = "plan-approval"]
    [] id = "plan.activate" ->
      [Progress(50, {"OBSERVED", "ACTIVE"}, {"ACTIVE"}, Agent,
        {[plan |-> {"approved"}]} \cup Nonterminal \cup Steady, {[plan |-> {"locked"}]})
          EXCEPT !.targets = ToImplement]
    [] id = "plan.amend" ->
      Explicit(42, {"ACTIVE", "FRONTIER"}, {"ACTIVE"}, Agent,
        {[plan |-> {"approved", "locked", "stale", "amendment-required"}]}
          \cup Unsettled \cup Steady,
        {[plan |-> {"amendment-required"}]})
    [] id = "plan.approve-amendment" ->
      [Progress(46, {"ACTIVE", "FRONTIER"}, {"ACTIVE"}, Agent,
        {[plan |-> {"amendment-required"}]} \cup Nonterminal \cup Steady \cup PolicyKnown,
        {[plan |-> {"approved"}]}) EXCEPT !.rule = "plan-approval"]
    [] id = "plan.invalidate" ->
      Explicit(41, {"ACTIVE", "OBSERVED"}, {"FRONTIER"}, Policy,
        {[plan |-> {"draft", "valid", "approved", "locked", "stale"}]}
          \cup Unsettled \cup Engaged,
        {[plan |-> {"invalid"}]})
    [] id = "plan.abandon" ->
      Abandonment(90, {"OBSERVED", "ACTIVE", "FRONTIER"},
        {[delivery |-> Discardable]}, {[delivery |-> {"discarded"}]})
    [] id = "evidence.approval.revoke" ->
      Explicit(44, {"ACTIVE", "FRONTIER"}, {"FRONTIER"}, Human,
        {[plan |-> {"approved", "locked"}]}
          \cup Nonterminal \cup Engaged, {[plan |-> {"valid"}]})

WorkspaceIds ==
  {"workspace.cut", "workspace.sync", "workspace.activate",
   "workspace.publish", "workspace.cleanup", "workspace.reap",
   "workspace.abandon"}

WorkspaceTransition(id) ==
  CASE id = "workspace.cut" ->
      Progress(52, {"OBSERVED", "ACTIVE"}, {"ACTIVE"}, Agent,
        {[workspace |-> {"absent"}]} \cup Nonterminal \cup Steady, {[workspace |-> {"cut"}]})
    [] id = "workspace.sync" ->
      Explicit(58, {"ACTIVE"}, {"ACTIVE", "FRONTIER"}, Agent,
        {[workspace |-> {"cut", "active"}]} \cup Nonterminal \cup Steady,
        {[workspace |-> {"active"}]})
    [] id = "workspace.activate" ->
      Progress(53, {"OBSERVED", "ACTIVE"}, {"ACTIVE"}, Policy,
        {[workspace |-> {"cut", "active"}]} \cup Nonterminal \cup Steady,
        {[workspace |-> {"active"}]})
    [] id = "workspace.publish" ->
      [Explicit(75, {"ACTIVE"}, {"ACTIVE"}, Policy,
        {[workspace |-> {"active"}]} \cup Nonterminal \cup Steady,
        {[workspace |-> {"published"}]})
          EXCEPT !.targets = ToOpen]
    [] id = "workspace.cleanup" ->
      Explicit(92, {"OBSERVED", "ACTIVE", "TERMINAL", "ABANDONED"},
        {"OBSERVED", "TERMINAL", "ABANDONED"}, Agent,
        {[workspace |-> {"landed", "abandoned"}]} \cup Landed \cup Steady,
        {[workspace |-> {"absent"}]})
    [] id = "workspace.reap" ->
      Explicit(98, {"OBSERVED", "TERMINAL", "ABANDONED"},
        {"OBSERVED", "TERMINAL", "ABANDONED"}, Human,
        {[workspace |-> {"landed", "abandoned"}]} \cup Landed \cup Steady,
        {[workspace |-> {"absent"}]})
    [] id = "workspace.abandon" ->
      Abandonment(91, {"ACTIVE", "FRONTIER"},
        {[workspace |-> {"cut", "active", "published", "attention-required"}]},
        {[workspace |-> {"abandoned"}]})

GateIds ==
  {"gate.build.record", "gate.test.record", "gate.review.record",
   "gate.change.record", "gate.journey.record", "evidence.visual.attach",
   "delivery.slice.advance"}

GateTransition(id) ==
  CASE id = "gate.build.record" ->
      Gate("PROGRAM_PROGRESS", 61, {"ACTIVE"}, Policy,
                                  {"current", "stale"}, "build")
    [] id = "gate.test.record" ->
      Gate("PROGRAM_PROGRESS", 62, {"ACTIVE", "TERMINAL"}, Policy,
                                 {"current", "stale"}, "test")
    [] id = "gate.review.record" ->
      [Gate("PROGRAM_PROGRESS", 63, {"ACTIVE", "TERMINAL"}, Reviewer,
                                    {"current", "stale"}, "review")
        EXCEPT !.rule = "independent-high-risk-review", !.when = @ \cup PolicyKnown]
    [] id = "gate.change.record" ->
      Gate("EXPLICIT_ONLY", 64, {"ACTIVE"}, Policy, {"current"}, "change")
    [] id = "gate.journey.record" ->
      Gate("EXPLICIT_ONLY", 64, {"ACTIVE"}, Policy, {"current"}, "journey")
    [] id = "evidence.visual.attach" ->
      [Progress(66, {"ACTIVE"}, {"ACTIVE", "TERMINAL"}, Reviewer,
        {[delivery |-> {"active", "gates-passed", "published"}]}
          \cup Unsettled \cup Steady \cup PolicyKnown,
        {}) EXCEPT !.evidence = "visual", !.visual = TRUE]
    [] id = "delivery.slice.advance" ->
      Explicit(68, {"ACTIVE"}, {"ACTIVE", "TERMINAL"}, Agent,
        {[delivery |-> {"active"}]} \cup Nonterminal \cup Steady, {[delivery |-> {"active"}]})

Publishable == {[verification |-> {"current"}, workspace |-> {"active", "published"}]}

PublicationIds ==
  {"publication.preview", "publication.execute", "publication.observe",
   "publication.correct", "publication.abandon"}

PublicationTransition(id) ==
  CASE id = "publication.preview" ->
      [Progress(72, {"ACTIVE"}, {"ACTIVE"}, Policy,
        {[publication |-> {"none"}, plan |-> {"locked"}]}
          \cup Publishable \cup Nonterminal \cup Steady,
        {[publication |-> {"candidate"}]}) EXCEPT !.targets = ToOpen]
    [] id = "publication.execute" ->
      [Progress(76, {"ACTIVE"}, {"ACTIVE", "RECOVERY"}, Agent,
        {[publication |-> {"candidate"}]} \cup Publishable \cup Nonterminal \cup Steady,
        {[publication |-> {"published-not-landed"}]})
          EXCEPT !.targets = ToOpen, !.all = {"external-provider"}]
    [] id = "publication.observe" ->
      [Progress(77, {"OBSERVED", "ACTIVE", "RECOVERY", "UNRESOLVED"},
        {"ACTIVE", "TERMINAL", "FRONTIER", "UNRESOLVED"}, Policy,
        {[publication |-> {"candidate", "published-not-landed", "open", "closed-unmerged",
                          "unavailable", "conflicting"}]} \cup Nonterminal \cup Steady,
        {[publication |-> {"open", "merged", "closed-unmerged", "unavailable", "conflicting"}]})
          EXCEPT !.targets = ToOpen, !.rechecks = TRUE]
    [] id = "publication.correct" ->
      [Explicit(80, {"OBSERVED", "ACTIVE", "TERMINAL"},
        {"ACTIVE", "RECOVERY"}, Agent,
        {[publication |-> {"open"}, verification |-> {"current"}]} \cup Steady,
        {[publication |-> {"published-not-landed"}]})
          EXCEPT !.targets = ToOpen, !.all = {"external-provider"}]
    [] id = "publication.abandon" ->
      Abandonment(93, {"ACTIVE", "FRONTIER"},
        {[delivery |-> Discardable]}, {[delivery |-> {"discarded"}]})

Catalog ==
  [id \in CoreIds \cup PlanIds \cup WorkspaceIds \cup GateIds \cup PublicationIds |->
     CASE id \in CoreIds        -> CoreTransition(id)
       [] id \in PlanIds        -> PlanTransition(id)
       [] id \in WorkspaceIds   -> WorkspaceTransition(id)
       [] id \in GateIds        -> GateTransition(id)
       [] id \in PublicationIds -> PublicationTransition(id)]

\* ObjectiveContracts: what a snapshot must say for an objective to be met.
Contract(target) ==
  CASE target = "approved-plan" -> {[plan |-> {"approved"}]}
    [] target = "verified-implementation" ->
         {[verification |-> {"current"}, delivery |-> {"terminal"}]} \cup Installed
    [] target = "open-or-updated-pr" ->
         {[verification |-> {"current"}, publication |-> {"open"}]} \cup Installed
    [] target = "merged-delivery" ->
         {[publication |-> {"merged"}, delivery |-> {"terminal"},
          workspace |-> {"landed", "absent"}]}
    [] target = "safely-abandoned" ->
         {[delivery |-> {"discarded"}, workspace |-> {"abandoned", "absent"}]}
=============================================================================
