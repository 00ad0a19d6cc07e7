--------------------------- MODULE DeliveryLifecycle ---------------------------
(***************************************************************************)
(* A delivery through the catalog: the durable state of one worktree, the  *)
(* files and the Git checkout it is about, its pull request, and the       *)
(* transitions that the supervisor prescribes from what the observer makes *)
(* of them.  A host continues (an untargeted request) or asks for one      *)
(* transition by name; users and the provider change what is observed at   *)
(* any moment.                                                             *)
(*                                                                         *)
(* A transition is one step here, from its snapshot to its verified        *)
(* target: the transaction within it is DeliveryTransaction's.  A request  *)
(* whose effect is refused before it starts, or whose target the fresh     *)
(* observation does not confirm, changes nothing.                          *)
(*                                                                         *)
(* Equal bytes are equal values.  A revision is a number, and the content  *)
(* of a checkout is its HEAD with the number of edits since.  The          *)
(* fingerprint of a worktree hashes HEAD with the lines of `git status`,   *)
(* which say that a file differs but not how.                              *)
(***************************************************************************)
EXTENDS DeliverySupervisor, FiniteSets

CONSTANTS
  Deliveries, Texts,
  None,
  Policies,        \* what project.json may say
  InitialPolicy,
  Authorities,     \* the sets of authority that requests come with
  Asked,           \* transitions that hosts ask for by name
  Disturbances,    \* kinds of outside change
  MaxRevision,     \* bound on commits
  MaxDeviations    \* bound on requests by name and on outside changes

ASSUME AskedAreDeclared == Asked \subseteq DOMAIN Catalog \ {NoTransition}
ASSUME PoliciesAreTyped ==
  /\ InitialPolicy \in Policies
  /\ Policies \subseteq [visual : {"off", "optional", "required"},
                         approval : {"human", "autonomy"}, independent : BOOLEAN]
ASSUME BoundsArePositive == MaxRevision \in Nat \ {0} /\ MaxDeviations \in Nat

Gates == {"build", "test", "review", "change", "journey", "visual"}
Revisions == 1..MaxRevision
Objectives == [delivery : Deliveries, target : Targets]
Checkouts == [head : Revisions, edits : 0..2]
Fingerprints == Revisions \X BOOLEAN

Engagements == {"dormant", "command"}
Plans == {"absent", "draft", "valid", "approved", "locked", "amendment-required", "invalid"}
Verifications == {"unverified", "current", "stale"}
Progresses == {"uninitialized", "planning", "approved", "active", "published",
               "amendment", "invalid", "discarded", "terminal"}
Workspaces == {"absent", "cut", "active", "published", "landed", "abandoned"}
Publications == {"none", "candidate", "published-not-landed", "open", "merged",
                 "closed-unmerged", "unavailable", "conflicting"}

\* state.json, as far as a delivery depends on it.
States ==
  [phase : Phases, engagement : Engagements, objective : Objectives \cup {None},
   plan : Plans, planText : Texts \cup {None}, approval : Texts \cup {None},
   gates : [Gates -> 0..MaxRevision], revision : 0..MaxRevision,
   worktree : Fingerprints \cup {None}, verification : Verifications,
   delivery : Progresses, workspace : Workspaces, publication : Publications,
   preview : Fingerprints \cup {None}, terminal : {"nonterminal", "established"},
   rules : Policies]

\* What a gate was recorded for.
Proofs == [delivery : Deliveries, content : Checkouts]

ASSUME NoneIsNothing == None \notin Texts \cup Objectives \cup Fingerprints \cup Proofs

\* What the worktree has of one delivery.
Artifacts ==
  [plan : Texts \cup {None}, approval : Texts \cup {None},
   preview : Fingerprints \cup {None}, evidence : [Gates -> 0..MaxRevision]]

NoFiles == [plan |-> None, approval |-> None, preview |-> None,
            evidence |-> [g \in Gates |-> 0]]

VARIABLES
  rec,         \* the durable state
  files,       \* [Deliveries -> plan, approval, gate evidence, preview] of the worktree
  config,      \* project.json
  repo,        \* [head, edits]: the checkout
  home,        \* the source checkout that a workspace was cut from
  pr,          \* [state, head]: the pull request of the branch
  installed,   \* the pinned runtime is in place
  proved,      \* history: what each recorded gate was recorded for
  granted,     \* history: plan texts approved and not revoked since
  shelved,     \* history: gates whose evidence is of abandoned work
  deviations

vars == <<rec, files, config, repo, home, pr, installed, proved, granted, shelved, deviations>>

-----------------------------------------------------------------------------
(* What the observer makes of the worktree. *)

Fingerprint == <<repo.head, repo.edits > 0>>

Configured == rec.objective # None
Here == IF Configured THEN files[rec.objective.delivery] ELSE NoFiles
Class == IF Configured THEN rec.objective.target ELSE None

\* State.HasCurrentGates and State.RequiredGateEvidenceCurrent.
HasCurrentGates(state, names) ==
  state.revision # 0 /\ \A g \in names : state.gates[g] = state.revision

RequiredGates(rules) ==
  {"build", "test", "review"} \cup (IF rules.visual = "required" THEN {"visual"} ELSE {})

\* Mutant: evidence for the visual policy is not asked for.
RequiredStandardEvidenceCurrent(state) == HasCurrentGates(state, {"build", "test", "review"})

RequiredGateEvidenceCurrent(state) == HasCurrentGates(state, RequiredGates(state.rules))

\* Mutant: the plan file is not compared with what was recorded.
PlanRecorded == rec.planText # None

\* observeRepositoryArtifacts: the plan and its approval.
PlanIntact == rec.planText # None /\ Here.plan = rec.planText

ApprovalIntact ==
  /\ rec.approval # None
  /\ Here.approval = rec.approval /\ rec.approval = rec.planText

ObservedPlan ==
  IF \/ ~Configured \/ rec.plan = "absent"
     \/ PlanIntact /\ (rec.plan \in {"approved", "locked"} => ApprovalIntact)
    THEN rec.plan ELSE "stale"

Recorded == {g \in Gates : rec.gates[g] # 0}

Intact(g) == rec.gates[g] # 0 /\ Here.evidence[g] = rec.gates[g]

EvidenceDamaged == Configured /\ \E g \in Recorded : ~Intact(g)

EvidenceOutrun ==
  Configured /\ rec.verification = "current" /\ ~RequiredGateEvidenceCurrent(rec)

ArtifactVerification ==
  IF EvidenceDamaged \/ EvidenceOutrun THEN "stale" ELSE rec.verification

SourceMoved ==
  \/ rec.revision # 0 /\ rec.revision # repo.head
  \/ rec.worktree # None /\ rec.worktree # Fingerprint

ObservedVerification ==
  IF ArtifactVerification # rec.verification THEN ArtifactVerification
    ELSE IF SourceMoved THEN "stale" ELSE rec.verification

ObservedConfiguration == IF config = rec.rules THEN "verified" ELSE "stale"

ObservedRuntime == IF installed THEN "verified" ELSE "absent"

ArtifactTerminal ==
  IF ObservedPlan # rec.plan \/ EvidenceDamaged \/ EvidenceOutrun THEN "stale" ELSE rec.terminal

CurrentDeliveryInvalid ==
  \/ ObservedVerification # "current"
  \/ ObservedConfiguration # "verified"
  \/ ObservedRuntime # "verified"

\* A verified or published implementation that is no longer current reopens.
Reopened ==
  /\ Class \in {"verified-implementation", "open-or-updated-pr"}
  /\ \/ ArtifactTerminal = "stale"
     \/ ArtifactTerminal = "established" /\ CurrentDeliveryInvalid

Replanned == Class = "approved-plan" /\ ArtifactTerminal = "stale"

MergedForGood ==
  /\ Class = "merged-delivery" /\ rec.publication = "merged"
  /\ rec.delivery = "terminal" /\ rec.workspace \in {"landed", "absent"}

AbandonedForGood ==
  /\ Class = "safely-abandoned" /\ rec.delivery = "discarded"
  /\ rec.workspace \in {"abandoned", "absent"}

\* currentPublicationState: only a candidate is compared with its preview.
ObservedPublication ==
  IF rec.publication = "candidate" /\ Here.preview # Fingerprint
    THEN "none" ELSE rec.publication

Snapshot ==
  [phase |-> CASE MergedForGood -> "TERMINAL"
               [] AbandonedForGood -> "ABANDONED"
               [] Reopened -> IF installed THEN "ACTIVE" ELSE "OBSERVED"
               [] Replanned -> "ACTIVE"
               [] OTHER -> rec.phase,
   terminal |-> IF MergedForGood \/ AbandonedForGood THEN "established"
                  ELSE IF Reopened THEN "stale" ELSE ArtifactTerminal,
   delivery |-> IF Reopened THEN "active" ELSE IF Replanned THEN "planning" ELSE rec.delivery,
   engagement |-> rec.engagement,
   objective |-> IF Configured THEN "known" ELSE "absent",
   bound |-> rec.objective,
   plan |-> ObservedPlan,
   workspace |-> rec.workspace,
   publication |-> ObservedPublication,
   verification |-> ObservedVerification,
   configuration |-> ObservedConfiguration,
   runtime |-> ObservedRuntime,
   policy |-> "known",
   rules |-> config,
   evidence |-> {g \in Gates : Intact(g) /\ rec.gates[g] = rec.revision
                                 /\ rec.gates[g] = repo.head}]

-----------------------------------------------------------------------------
(* The reducer of the durable state and what the driver does beside it. *)

Discarded(state) == state.terminal = "established" /\ state.delivery = "discarded"

TerminalPhase(state) ==
  IF Discarded(state) THEN "ABANDONED"
    ELSE IF state.terminal = "established" THEN "TERMINAL" ELSE "OBSERVED"

\* engagedPhase: the engagement `active` is never written.
SettledPhase(state) ==
  IF state.terminal = "established" THEN TerminalPhase(state)
    ELSE IF state.engagement = "active" THEN "ACTIVE" ELSE "OBSERVED"

Established(state) ==
  [state EXCEPT !.terminal = "established", !.phase = "TERMINAL", !.delivery = "terminal"]

Active(state) == [state EXCEPT !.phase = "ACTIVE"]

\* What is worked on is not terminal.
Live(state) == [state EXCEPT !.phase = "ACTIVE", !.terminal = "nonterminal"]

ResetDelivery(state) ==
  [state EXCEPT !.delivery = "uninitialized", !.plan = "absent", !.workspace = "absent",
                !.publication = "none", !.verification = "unverified",
                !.planText = None, !.approval = None, !.preview = None,
                !.gates = [g \in Gates |-> 0]]

Rebinds(objective) == Configured /\ rec.objective.delivery # objective.delivery

Bound(objective) ==
  [(IF Rebinds(objective) THEN ResetDelivery(rec) ELSE rec) EXCEPT
     !.objective = objective, !.terminal = "nonterminal",
     !.phase = IF rec.phase = "ACTIVE" /\ ~Rebinds(objective) THEN "ACTIVE" ELSE "OBSERVED"]

\* The artifacts of the delivery are replaced.
Write(artifacts) == files' = [files EXCEPT ![rec.objective.delivery] = artifacts]

Plant == <<config, repo, home, pr, installed>>
History == <<proved, granted, shelved>>

\* A transition whose whole effect is on the durable state.
Assign(state) ==
  /\ rec' = state
  /\ UNCHANGED <<files, Plant, History>>

BindObjective(objective) == Assign(Bound(objective))

Hydrate(state) ==
  /\ installed' = TRUE
  /\ rec' = state
  /\ UNCHANGED <<files, config, repo, home, pr, History>>

MutateConfiguration ==
  \E rules \in Policies :
    /\ config' = rules
    /\ rec' = [rec EXCEPT !.rules = rules, !.phase = SettledPhase(rec)]
    /\ UNCHANGED <<files, repo, home, pr, installed, History>>

\* plan.create and plan.amend install a source and delete its approval.
WritePlan(text, plan, delivery) ==
  /\ rec' = Live([rec EXCEPT !.plan = plan, !.delivery = delivery, !.planText = text,
                             !.approval = None])
  /\ Write([Here EXCEPT !.plan = text, !.approval = None])
  /\ UNCHANGED <<Plant, History>>

\* plan.validate takes the file as it is.
ValidatePlan == Assign(Live([rec EXCEPT !.plan = "valid", !.planText = Here.plan]))

\* plan.approve, and plan.approve-amendment, which never ends an objective.
ApprovePlan(amended) ==
  LET approved == Active([rec EXCEPT !.plan = "approved", !.delivery = "approved",
                                     !.approval = rec.planText])
      d == rec.objective.delivery
  IN /\ rec' = IF ~amended /\ Class = "approved-plan" THEN Established(approved) ELSE approved
     /\ Write([Here EXCEPT !.approval = rec.planText])
     /\ granted' = granted \cup {<<d, rec.planText>>}
     /\ UNCHANGED <<Plant, proved, shelved>>

RevokeApproval ==
  /\ rec' = [rec EXCEPT !.plan = "valid", !.phase = "FRONTIER", !.terminal = "nonterminal",
                        !.approval = None]
  /\ Write([Here EXCEPT !.approval = None])
  /\ granted' = granted \ {<<rec.objective.delivery, rec.planText>>}
  /\ UNCHANGED <<Plant, proved, shelved>>

\* Mutant: an abandonment leaves the workspace as it is.
AbandonInPlace ==
  /\ rec' = [rec EXCEPT !.delivery = "discarded", !.terminal = "established",
                        !.phase = "ABANDONED"]
  /\ shelved' = Recorded
  /\ UNCHANGED <<files, Plant, proved, granted>>

\* abandon-delivery, and the assignments of workspace.abandon.
Abandon ==
  /\ rec' = [rec EXCEPT !.delivery = "discarded", !.terminal = "established",
                        !.phase = "ABANDONED",
                        !.workspace = IF rec.workspace = "absent" THEN "absent" ELSE "abandoned"]
  /\ shelved' = Recorded
  /\ UNCHANGED <<files, Plant, proved, granted>>

\* workspace.cut continues in a new worktree of HEAD, on a new branch.
CutWorkspace ==
  /\ rec' = Active([rec EXCEPT !.workspace = "cut", !.revision = 0, !.worktree = None,
                               !.verification = "unverified"])
  /\ home' = [files |-> files, repo |-> repo]
  /\ files' = [d \in Deliveries |->
                 IF d = rec.objective.delivery
                   THEN [NoFiles EXCEPT
                           !.plan = IF rec.planText = None THEN None ELSE files[d].plan,
                           !.approval = IF rec.planText = None THEN None ELSE files[d].approval]
                   ELSE NoFiles]
  /\ repo' = [head |-> repo.head, edits |-> 0]
  /\ pr' = [state |-> "none", head |-> 0]
  /\ UNCHANGED <<config, installed, History>>

\* workspace.cleanup and workspace.reap go back to the source checkout.
RemoveWorkspace ==
  /\ rec' = [rec EXCEPT !.workspace = "absent", !.phase = TerminalPhase(rec)]
  /\ files' = home.files
  /\ repo' = home.repo
  /\ pr' = [state |-> "none", head |-> 0]
  /\ UNCHANGED <<config, home, installed, History>>

\* verifiedObjectiveSatisfied.
VerifiedObjectiveSatisfied(state) ==
  Class = "verified-implementation" /\ RequiredGateEvidenceCurrent(state)

\* gateStateHandler and applyVisualEvidence.
GateRecorded(g) ==
  LET bound == Live([rec EXCEPT !.gates[g] = repo.head,
                                !.revision = repo.head, !.worktree = Fingerprint,
                                !.delivery = IF g # "visual" \/ Class = "verified-implementation"
                                               THEN "active" ELSE @])
      judged == [bound EXCEPT !.verification = IF RequiredGateEvidenceCurrent(bound)
                                                 THEN "current" ELSE "stale"]
  IN IF VerifiedObjectiveSatisfied(judged) THEN Established(judged) ELSE judged

RecordGate(g) ==
  /\ rec' = GateRecorded(g)
  /\ Write([Here EXCEPT !.evidence[g] = repo.head])
  /\ proved' = [proved EXCEPT ![g] = [delivery |-> rec.objective.delivery, content |-> repo]]
  /\ shelved' = shelved \ {g}
  /\ UNCHANGED <<Plant, granted>>

AdvanceSlice ==
  Assign(Active([rec EXCEPT !.delivery = "active", !.revision = repo.head,
                            !.worktree = Fingerprint]))

Preview ==
  /\ rec' = Active([rec EXCEPT !.publication = "candidate", !.preview = Fingerprint])
  /\ Write([Here EXCEPT !.preview = Fingerprint])
  /\ UNCHANGED <<Plant, History>>

\* publication.execute pushes the previewed revision and creates the pull request.
Publish ==
  /\ pr' = [state |-> "open", head |-> repo.head]
  /\ rec' = Active([rec EXCEPT !.publication = "published-not-landed", !.workspace = "published",
                               !.delivery = "published"])
  /\ UNCHANGED <<files, config, repo, home, installed, History>>

\* The boundary of publication.observe asks the provider.
ProviderState ==
  CASE pr.state = "none" -> "unavailable"
    [] pr.state # "none" /\ pr.head # repo.head -> "conflicting"
    [] OTHER -> [open |-> "open", merged |-> "merged", closed |-> "closed-unmerged"][pr.state]

ObservePublication ==
  LET seen == ProviderState
      told == [rec EXCEPT !.publication = seen]
  IN Assign(CASE seen \in {"unavailable", "conflicting"} -> [told EXCEPT !.phase = "UNRESOLVED"]
              [] seen = "closed-unmerged" -> [told EXCEPT !.phase = "FRONTIER"]
              [] seen = "open" /\ Class = "open-or-updated-pr" -> Established(told)
              [] seen = "merged" /\ Class = "merged-delivery" ->
                   Established([told EXCEPT !.workspace = "landed"])
              [] OTHER -> Active(told))

\* publication.correct pushes the branch and edits the description.
CorrectPublication ==
  /\ pr' = [pr EXCEPT !.head = IF pr.state = "open" THEN repo.head ELSE @]
  /\ rec' = Live([rec EXCEPT !.publication = "published-not-landed", !.delivery = "published"])
  /\ UNCHANGED <<files, config, repo, home, installed, History>>

\* prepareWorkspacePlanTransfer: a bound plan moves with its approval, or not at all.
PlanMoves == rec.planText # None => PlanIntact /\ ApprovalIntact

\* Mutant: a preview is made of whatever is in the worktree.
PreparedUnclean(id, objective) ==
  /\ id = "objective.bind" /\ Rebinds(objective) => rec.terminal = "established"
  /\ id = "plan.validate" => Here.plan # None
  /\ id \in {"plan.approve", "plan.approve-amendment"} => rec.planText # None
  /\ id = "workspace.cut" => PlanMoves
  /\ id = "publication.execute" => Here.preview = Fingerprint /\ rec.preview = Fingerprint

\* Driver.Prepare: what the preflight of a selected transition refuses.
Prepared(id, objective) ==
  /\ PreparedUnclean(id, objective)
  /\ id = "publication.preview" => repo.edits = 0

\* The command boundary: Git removes no worktree with changes, and deletes an
\* unmerged branch only of abandoned work; the provider has one pull request.
Executes(id) ==
  /\ id \in {"workspace.cleanup", "workspace.reap"} =>
       repo.edits = 0 /\ (rec.workspace = "landed" => pr = [state |-> "merged", head |-> repo.head])
  /\ id = "publication.execute" => pr.state # "open"
  /\ id = "publication.correct" => pr.state # "none"

Effect(id, objective) ==
  \/ id = "engagement.begin" /\ Assign([rec EXCEPT !.phase = "OBSERVED", !.engagement = "command"])
  \/ id = "engagement.release" /\ Assign([rec EXCEPT !.phase = "DORMANT", !.engagement = "dormant"])
  \/ id = "objective.bind" /\ BindObjective(objective)
  \/ id = "runtime.hydrate" /\ Hydrate([rec EXCEPT !.phase = SettledPhase(rec)])
  \/ id = "installation.update" /\ Hydrate(rec)
  \/ id = "configuration.mutate" /\ MutateConfiguration
  \/ id = "plan.create" /\ \E text \in Texts : WritePlan(text, "draft", "planning")
  \/ id = "plan.amend" /\ \E text \in Texts : WritePlan(text, "amendment-required", "amendment")
  \/ id = "plan.validate" /\ ValidatePlan
  \/ id = "plan.approve" /\ ApprovePlan(FALSE)
  \/ id = "plan.approve-amendment" /\ ApprovePlan(TRUE)
  \/ id = "plan.activate" /\ Assign(Active([rec EXCEPT !.plan = "locked", !.delivery = "active"]))
  \/ /\ id = "plan.invalidate"
     /\ Assign([rec EXCEPT !.plan = "invalid", !.delivery = "invalid",
                           !.phase = "FRONTIER", !.terminal = "nonterminal"])
  \/ id = "evidence.approval.revoke" /\ RevokeApproval
  \/ id \in {"plan.abandon", "publication.abandon", "workspace.abandon"} /\ Abandon
  \/ id = "workspace.cut" /\ CutWorkspace
  \/ /\ id \in {"workspace.sync", "workspace.activate"}
     /\ Assign(Active([rec EXCEPT !.workspace = "active"]))
  \/ id = "workspace.publish" /\ Assign(Active([rec EXCEPT !.workspace = "published"]))
  \/ id \in {"workspace.cleanup", "workspace.reap"} /\ RemoveWorkspace
  \/ Catalog[id].evidence # "" /\ RecordGate(Catalog[id].evidence)
  \/ id = "delivery.slice.advance" /\ AdvanceSlice
  \/ id = "publication.preview" /\ Preview
  \/ id = "publication.execute" /\ Publish
  \/ id = "publication.observe" /\ ObservePublication
  \/ id = "publication.correct" /\ CorrectPublication

-----------------------------------------------------------------------------
Init ==
  /\ rec = [phase |-> "OBSERVED", engagement |-> "dormant", objective |-> None,
            plan |-> "absent", planText |-> None, approval |-> None,
            gates |-> [g \in Gates |-> 0], revision |-> 0, worktree |-> None,
            verification |-> "unverified", delivery |-> "uninitialized",
            workspace |-> "absent", publication |-> "none", preview |-> None,
            terminal |-> "nonterminal", rules |-> InitialPolicy]
  /\ files = [d \in Deliveries |-> NoFiles]
  /\ config = InitialPolicy
  /\ repo = [head |-> 1, edits |-> 0]
  /\ home = [files |-> files, repo |-> repo]
  /\ pr = [state |-> "none", head |-> 0]
  /\ installed = TRUE
  /\ proved = [g \in Gates |-> None]
  /\ granted = {} /\ shelved = {}
  /\ deviations = 0

\* Engine.Resolve: a selection that fails its preflight is not prescribed.
Preflight(decision, objective) ==
  IF decision.kind = "PRESCRIBED" /\ ~Prepared(decision.transition, objective)
    THEN [decision EXCEPT !.kind = "UNRESOLVED", !.transition = NoTransition]
    ELSE decision

Decide(objective, authority, requested) ==
  The({Preflight(decision, objective) : decision \in
        {Resolve(snapshot, objective, authority, requested) : snapshot \in {Snapshot}}})

\* A prescription takes effect and the declared target is verified.
Apply(id, objective) ==
  /\ Executes(id)
  /\ Effect(id, objective)
  /\ \E snapshot \in {Snapshot'} : TargetMatches(Catalog[id], snapshot)

\* The objective a request acts for when it names none.
Current(objective) == Configured => objective = rec.objective

Continue(objective) ==
  \E authority \in Authorities :
   \E decision \in {Decide(objective, authority, NoTransition)} :
    /\ decision.kind = "PRESCRIBED"
    /\ Apply(decision.transition, objective)
    /\ UNCHANGED deviations

Ask(objective, id) ==
  /\ deviations < MaxDeviations
  /\ Current(objective) \/ id = "objective.bind"
  /\ \E authority \in Authorities : Decide(objective, authority, id).kind = "PRESCRIBED"
  /\ Apply(id, objective)
  /\ deviations' = deviations + 1

\* An outside change of the plant, one of a bounded number.
Disturb(kind) == /\ kind \in Disturbances /\ deviations < MaxDeviations
                 /\ deviations' = deviations + 1
                 /\ UNCHANGED <<rec, home, History>>

EditPlan ==
  /\ Disturb("plan") /\ Configured /\ Here.plan # None
  /\ \E text \in Texts \ {Here.plan} : Write([Here EXCEPT !.plan = text])
  /\ UNCHANGED Plant

LoseEvidence ==
  /\ Disturb("evidence")
  /\ \E g \in Recorded : Write([Here EXCEPT !.evidence[g] = 0])
  /\ UNCHANGED Plant

EditTree ==
  /\ Disturb("tree") /\ repo.edits < 2
  /\ repo' = [repo EXCEPT !.edits = @ + 1]
  /\ UNCHANGED <<files, config, pr, installed>>

Commit ==
  /\ Disturb("commit") /\ repo.head < MaxRevision
  /\ repo' = [head |-> repo.head + 1, edits |-> 0]
  /\ UNCHANGED <<files, config, pr, installed>>

EditConfiguration ==
  /\ Disturb("configuration")
  /\ config' \in Policies \ {config}
  /\ UNCHANGED <<files, repo, pr, installed>>

LoseRuntime ==
  /\ Disturb("runtime") /\ installed
  /\ installed' = FALSE
  /\ UNCHANGED <<files, config, repo, pr>>

\* A pull request is closed, or a user pushes the branch.
DisturbPublication ==
  /\ Disturb("publication") /\ pr.state = "open"
  /\ pr' \in {[pr EXCEPT !.state = "closed"], [pr EXCEPT !.head = repo.head]} \ {pr}
  /\ UNCHANGED <<files, config, repo, installed>>

\* Merging is what a published delivery waits for.
Merge ==
  /\ pr.state = "open"
  /\ pr' = [pr EXCEPT !.state = "merged"]
  /\ UNCHANGED <<rec, files, config, repo, home, installed, History, deviations>>

\* Uncommitted changes are dropped.
Restore ==
  /\ repo.edits > 0
  /\ repo' = [repo EXCEPT !.edits = 0]
  /\ UNCHANGED <<rec, files, config, home, pr, installed, History, deviations>>

Outside ==
  \/ EditPlan \/ LoseEvidence \/ EditTree \/ Commit \/ EditConfiguration
  \/ LoseRuntime \/ DisturbPublication \/ Merge \/ Restore

ContinueSome == \E objective \in Objectives : Current(objective) /\ Continue(objective)

Next ==
  \/ ContinueSome
  \/ \E objective \in Objectives, id \in Asked : Ask(objective, id)
  \/ Outside

Spec == Init /\ [][Next]_vars

-----------------------------------------------------------------------------
TypeOK ==
  /\ rec \in States
  /\ files \in [Deliveries -> Artifacts]
  /\ config \in Policies
  /\ repo \in Checkouts
  /\ home \in [files : [Deliveries -> Artifacts], repo : Checkouts]
  /\ pr \in [state : {"none", "open", "merged", "closed"}, head : 0..MaxRevision]
  /\ installed \in BOOLEAN
  /\ proved \in [Gates -> Proofs \cup {None}]
  /\ granted \subseteq Deliveries \X Texts
  /\ shelved \subseteq Gates
  /\ deviations \in 0..MaxDeviations

\* The plan that the supervisor acts on as approved or locked is, byte for
\* byte, one that was approved for this delivery and not revoked since
\* (observeRepositoryArtifacts, prepareArtifacts, applyObjectiveBind).
ApprovedPlanIsWhatWasApproved ==
  ObservedPlan \in {"approved", "locked"} =>
    Configured /\ <<rec.objective.delivery, Here.plan>> \in granted

\* A verification that is observed as current rests on the evidence of every
\* gate that the policy requires, in place, recorded for this delivery and
\* for the revision that is checked out: across amendments, commits, lost
\* files, other deliveries and the move to another worktree.
EvidenceIsForOneRevision ==
  ObservedVerification = "current" =>
    \A g \in RequiredGates(rec.rules) :
      /\ Intact(g)
      /\ proved[g] # None
      /\ proved[g].delivery = rec.objective.delivery
      /\ proved[g].content.head = repo.head

\* A host that only continues opens a pull request for nothing but a clean
\* checkout whose plan is approved and locked and whose revision has passed
\* every gate the configuration in force asks for.
ContinuationsPublishProvenWork ==
  [][pr.state # "open" /\ pr'.state = "open" /\ deviations' = deviations =>
       /\ ObservedPlan = "locked" /\ repo.edits = 0
       /\ \A g \in RequiredGates(config) :
            proved[g] # None /\ proved[g].content.head = repo.head]_vars

\* No evidence of abandoned work carries a publication, whichever objective is
\* bound afterwards: what is taken up again passes its gates again.
AbandonedWorkIsProvenAgain ==
  [][pr.state # "open" /\ pr'.state = "open" => shelved \cap RequiredGates(rec.rules) = {}]_vars

\* The supervisor and the boundary agree: what is selected for a host that
\* continues is refused only with uncommitted changes, at the preview of a
\* publication, or in phase OBSERVED, where a plan that waits for its approval
\* is passed over for a workspace that needs it.
SelectionsPassPreflight ==
  \A authority \in Authorities :
    LET decision == Resolve(Snapshot, rec.objective, authority, NoTransition)
        id == decision.transition
    IN  Configured /\ decision.kind = "PRESCRIBED" =>
          \/ Prepared(id, rec.objective) /\ Executes(id)
          \/ id = "publication.preview" /\ repo.edits > 0
          \/ id = "workspace.cut" /\ rec.phase = "OBSERVED"
               /\ rec.plan \in {"valid", "amendment-required"}

-----------------------------------------------------------------------------
\* A delivery that is only continued reaches its objective, whatever is committed
\* meanwhile, unless its pull request no longer has the revision checked out, or
\* was merged before it was ever observed to be open.
DeliveriesComplete ==
  Configured /\ Class # "safely-abandoned" ~>
    \/ Marked(Snapshot, rec.objective)
    \/ rec.publication = "conflicting"
    \/ rec.publication = "merged" /\ Class = "open-or-updated-pr"

=============================================================================
