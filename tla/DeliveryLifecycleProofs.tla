------------------------ MODULE DeliveryLifecycleProofs ------------------------
(***************************************************************************)
(* What a delivery keeps on its way through the catalog, for any number of *)
(* deliveries, plan texts, policies, revisions and requests.               *)
(*                                                                         *)
(* The facts of the catalog that matter are read off its entries once: a   *)
(* transition that touches a delivery starts from a bound objective, a     *)
(* workspace is published from one that is in use, and every plan that is  *)
(* not locked has a step of its own before a publication.  The selection   *)
(* is taken apart into what the relation prefers and what the preflight    *)
(* lets through; then each effect keeps two invariants.  LifecycleInv says *)
(* that approvals stand, that recorded gates are proven, that evidence of  *)
(* abandoned work is out of the way while a workspace can be published and *)
(* that only clean checkouts are previewed.  PublicationInv says that the  *)
(* preview in the worktree is the one on record and that nothing with an   *)
(* open pull request waits for another.                                    *)
(***************************************************************************)
EXTENDS DeliveryLifecycle, TLAPS

-----------------------------------------------------------------------------
(* The catalog. *)

\* What needs no objective: everything else starts from a bound one.
Preparatory == {"objective.bind", "runtime.hydrate", "installation.update"}

NeedsObjective(t) ==
  \E condition \in t.when : "objective" \in DOMAIN condition /\ condition["objective"] = {"known"}

LEMMA CoreNeedsObjective ==
  ASSUME NEW id \in CoreIds
  PROVE  /\ id \notin Preparatory => NeedsObjective(CoreTransition(id))
         /\ CoreTransition(id).evidence = ""
<1>1. CoreTransition(id).evidence = ""
  BY DEF CoreIds, CoreTransition, Required, Explicit, Declared
<1>2. CASE id = "engagement.begin"
  <2> DEFINE from == [engagement |-> {"dormant", "command"}, objective |-> {"known"}]
  <2>1. from \in CoreTransition(id).when
    BY <1>2 DEF CoreTransition, Required, Declared
  <2> QED BY <1>1, <2>1 DEF NeedsObjective
<1>3. CASE id = "engagement.release"
  <2> DEFINE from == [engagement |-> {"active", "stale", "command"}, objective |-> {"known"}]
  <2>1. from \in CoreTransition(id).when
    BY <1>3 DEF CoreTransition, Explicit, Declared
  <2> QED BY <1>1, <2>1 DEF NeedsObjective
<1>4. CASE id = "configuration.mutate"
  <2>1. Engaged \subseteq CoreTransition(id).when
    BY <1>4 DEF CoreTransition, Explicit, Declared
  <2> QED BY <1>1, <2>1 DEF NeedsObjective, Engaged
<1> QED BY <1>1, <1>2, <1>3, <1>4 DEF CoreIds, Preparatory

LEMMA PlanNeedsObjective ==
  ASSUME NEW id \in PlanIds
  PROVE  NeedsObjective(PlanTransition(id)) /\ PlanTransition(id).evidence = ""
<1>1. Engaged \subseteq PlanTransition(id).when
  BY DEF PlanIds, PlanTransition, Abandonment, Progress, Explicit, Declared, Steady
<1>2. PlanTransition(id).evidence = ""
  BY DEF PlanIds, PlanTransition, Abandonment, Progress, Explicit, Declared
<1> QED BY <1>1, <1>2 DEF NeedsObjective, Engaged

LEMMA WorkspaceNeedsObjective ==
  ASSUME NEW id \in WorkspaceIds
  PROVE  NeedsObjective(WorkspaceTransition(id)) /\ WorkspaceTransition(id).evidence = ""
<1>1. Engaged \subseteq WorkspaceTransition(id).when
  BY DEF WorkspaceIds, WorkspaceTransition, Abandonment, Progress, Explicit, Declared, Steady
<1>2. WorkspaceTransition(id).evidence = ""
  BY DEF WorkspaceIds, WorkspaceTransition, Abandonment, Progress, Explicit, Declared
<1> QED BY <1>1, <1>2 DEF NeedsObjective, Engaged

LEMMA GateNeedsObjective ==
  ASSUME NEW id \in GateIds
  PROVE  NeedsObjective(GateTransition(id)) /\ GateTransition(id).evidence \in Gates \cup {""}
<1>1. Engaged \subseteq GateTransition(id).when
  BY DEF GateIds, GateTransition, Gate, Progress, Explicit, Declared, Steady
<1>2. GateTransition(id).evidence \in Gates \cup {""}
  BY DEF GateIds, GateTransition, Gate, Progress, Explicit, Declared, Gates
<1> QED BY <1>1, <1>2 DEF NeedsObjective, Engaged

LEMMA PublicationNeedsObjective ==
  ASSUME NEW id \in PublicationIds
  PROVE  NeedsObjective(PublicationTransition(id)) /\ PublicationTransition(id).evidence = ""
<1>1. Engaged \subseteq PublicationTransition(id).when
  BY DEF PublicationIds, PublicationTransition, Abandonment, Progress, Explicit, Declared, Steady
<1>2. PublicationTransition(id).evidence = ""
  BY DEF PublicationIds, PublicationTransition, Abandonment, Progress, Explicit, Declared
<1> QED BY <1>1, <1>2 DEF NeedsObjective, Engaged

LEMMA CatalogEntry ==
  ASSUME NEW id \in DOMAIN Catalog
  PROVE  \/ id \in CoreIds /\ Catalog[id] = CoreTransition(id)
         \/ id \in PlanIds /\ Catalog[id] = PlanTransition(id)
         \/ id \in WorkspaceIds /\ Catalog[id] = WorkspaceTransition(id)
         \/ id \in GateIds /\ Catalog[id] = GateTransition(id)
         \/ id \in PublicationIds /\ Catalog[id] = PublicationTransition(id)
  BY DEF Catalog

LEMMA CatalogNeedsObjective ==
  ASSUME NEW id \in DOMAIN Catalog
  PROVE  /\ id \notin Preparatory => NeedsObjective(Catalog[id])
         /\ id \in Preparatory => Catalog[id].evidence = ""
         /\ Catalog[id].evidence \in Gates \cup {""}
<1>1. CASE id \in CoreIds /\ Catalog[id] = CoreTransition(id)
  BY <1>1, CoreNeedsObjective
<1>2. CASE id \in PlanIds /\ Catalog[id] = PlanTransition(id)
  BY <1>2, PlanNeedsObjective
<1>3. CASE id \in WorkspaceIds /\ Catalog[id] = WorkspaceTransition(id)
  BY <1>3, WorkspaceNeedsObjective
<1>4. CASE id \in GateIds /\ Catalog[id] = GateTransition(id)
  <2>1. id \notin Preparatory
    BY <1>4 DEF GateIds, Preparatory
  <2> QED BY <1>4, <2>1, GateNeedsObjective
<1>5. CASE id \in PublicationIds /\ Catalog[id] = PublicationTransition(id)
  BY <1>5, PublicationNeedsObjective
<1> QED BY <1>1, <1>2, <1>3, <1>4, <1>5, CatalogEntry

-----------------------------------------------------------------------------
(* The selection. *)

LEMMA TheOnly == ASSUME NEW x PROVE The({x}) = x
  BY DEF The

\* What the relation is asked.
Question(objective, authority, requested) ==
  [requested |-> requested,
   marked |-> Marked(Snapshot, objective),
   noCandidate |-> IF Snapshot.phase \in {"RECOVERY", "UNRESOLVED"}
                     THEN "BLOCKED" ELSE "UNRESOLVED",
   candidates |-> Candidates(Snapshot, objective),
   available |-> authority]

\* A prescription names the one preferred candidate, and its authority is
\* complete: what the delivery relies on when it runs the transition it was given.
LEMMA PrescribedIsPreferred ==
  ASSUME NEW i, NoCandidateKind(i) # "PRESCRIBED", Relate(i).kind = "PRESCRIBED"
  PROVE  \E top \in Considered(i) :
           /\ Preferred(i) = {top}
           /\ Relate(i) = Decision("PRESCRIBED", top.id, {})
           /\ MissingAuthority(top, i.available) = {}
<1> DEFINE top == CHOOSE c \in Considered(i) : Preferred(i) = {c}
<1>1. \E c \in Considered(i) : Preferred(i) = {c}
  BY DEF Relate, Decision
<1>2. top \in Considered(i) /\ Preferred(i) = {top}
  BY <1>1
<1>3. /\ Relate(i) = Decision("PRESCRIBED", top.id, {})
      /\ MissingAuthority(top, i.available) = {}
  BY <1>1 DEF Relate, Decision
<1> QED BY <1>2, <1>3

\* What is prescribed is the one preferred answer of the relation.
LEMMA ResolvedIsPreferred ==
  ASSUME NEW objective, NEW authority, NEW requested,
         Resolve(Snapshot, objective, authority, requested).kind = "PRESCRIBED"
  PROVE  LET input == Question(objective, authority, requested) IN
         \E top \in Considered(input) :
           /\ Preferred(input) = {top}
           /\ Resolve(Snapshot, objective, authority, requested)
                = Decision("PRESCRIBED", top.id, {})
<1> DEFINE input == Question(objective, authority, requested)
<1>1. Resolve(Snapshot, objective, authority, requested) = Relate(input)
  <2>1. {Relate(i) : i \in {input}} = {Relate(input)}
    OBVIOUS
  <2> HIDE DEF input
  <2>2. The({Relate(i) : i \in {input}}) = Relate(input)
    BY <2>1, TheOnly
  <2> QED BY <2>2 DEF Resolve, input, Question
<1>2. NoCandidateKind(input) # "PRESCRIBED"
  BY DEF NoCandidateKind, Question
<1> HIDE DEF input
<1>3. \E top \in Considered(input) :
        Preferred(input) = {top} /\ Relate(input) = Decision("PRESCRIBED", top.id, {})
  BY <1>1, <1>2, PrescribedIsPreferred
<1> QED BY <1>1, <1>3 DEF input

\* The preflight lets a decision through, or prescribes nothing.
LEMMA DecidedIsResolved ==
  ASSUME NEW objective, NEW authority, NEW requested,
         Decide(objective, authority, requested).kind = "PRESCRIBED"
  PROVE  LET decision == Resolve(Snapshot, objective, authority, requested) IN
         /\ decision.kind = "PRESCRIBED"
         /\ Decide(objective, authority, requested) = decision
         /\ Prepared(decision.transition, objective)
<1> DEFINE decision == Resolve(Snapshot, objective, authority, requested)
<1>1. Decide(objective, authority, requested) = Preflight(decision, objective)
  <2>1. {Resolve(snapshot, objective, authority, requested) : snapshot \in {Snapshot}} = {decision}
    OBVIOUS
  <2>2. {Preflight(d, objective) : d \in {decision}} = {Preflight(decision, objective)}
    OBVIOUS
  <2> QED BY <2>1, <2>2, TheOnly DEF Decide
<1>2. CASE decision.kind = "PRESCRIBED" /\ ~Prepared(decision.transition, objective)
  <2>1. Preflight(decision, objective)
          = [decision EXCEPT !.kind = "UNRESOLVED", !.transition = NoTransition]
    BY <1>2 DEF Preflight
  <2>2. decision = Decision("PRESCRIBED", decision.transition, {})
    BY <1>2, ResolvedIsPreferred DEF Decision
  <2> HIDE DEF decision
  <2>3. [decision EXCEPT !.kind = "UNRESOLVED", !.transition = NoTransition].kind = "UNRESOLVED"
    BY <2>2 DEF Decision
  <2> QED BY <1>1, <2>1, <2>3
<1>3. CASE ~(decision.kind = "PRESCRIBED" /\ ~Prepared(decision.transition, objective))
  <2>1. Preflight(decision, objective) = decision
    BY <1>3 DEF Preflight
  <2> QED BY <1>1, <1>3, <2>1
<1> QED BY <1>2, <1>3

LEMMA ResolvedIsAdmissible ==
  ASSUME NEW objective, NEW authority, NEW requested,
         Resolve(Snapshot, objective, authority, requested).kind = "PRESCRIBED"
  PROVE  LET id == Resolve(Snapshot, objective, authority, requested).transition IN
         /\ id \in Admissible(Snapshot, objective)
         /\ IF requested # NoTransition
              THEN id = requested
              ELSE /\ ImplicitlySelectable(Catalog[id])
                   /\ ~TargetAlreadySatisfied(Catalog[id], Snapshot, objective)
<1> DEFINE input == Question(objective, authority, requested)
           id == Resolve(Snapshot, objective, authority, requested).transition
           C(x) == Candidate(x, Rank(Catalog[x].selection), Catalog[x].priority,
                             ImplicitlySelectable(Catalog[x])
                               /\ ~TargetAlreadySatisfied(Catalog[x], Snapshot, objective),
                             RequiredAll(Catalog[x], Snapshot), Catalog[x].any)
<1>1. PICK top \in Considered(input) : id = top.id
  BY ResolvedIsPreferred DEF Decision
<1>2. /\ top \in Candidates(Snapshot, objective)
      /\ IF requested # NoTransition THEN top.id = requested ELSE top.selectable
  BY DEF Considered, Question
<1>3. PICK x \in Admissible(Snapshot, objective) : top = C(x)
  BY <1>2 DEF Candidates
<1>4. /\ C(x).id = x
      /\ C(x).selectable = (ImplicitlySelectable(Catalog[x])
                              /\ ~TargetAlreadySatisfied(Catalog[x], Snapshot, objective))
  BY DEF Candidate
<1> HIDE DEF C, id
<1> QED BY <1>1, <1>2, <1>3, <1>4 DEF id

LEMMA SelectionIsAdmissible ==
  ASSUME NEW objective, NEW authority, NEW requested,
         Decide(objective, authority, requested).kind = "PRESCRIBED"
  PROVE  LET id == Decide(objective, authority, requested).transition IN
         /\ id \in Admissible(Snapshot, objective)
         /\ Prepared(id, objective)
         /\ requested # NoTransition => id = requested
  BY DecidedIsResolved, ResolvedIsAdmissible

\* What a host that continues gets comes before everything else that is
\* admissible, selectable without being named and not done already.
LEMMA NothingComesBefore ==
  ASSUME NEW objective, NEW authority,
         Resolve(Snapshot, objective, authority, NoTransition).kind = "PRESCRIBED",
         NEW other \in Admissible(Snapshot, objective),
         ImplicitlySelectable(Catalog[other]),
         ~TargetAlreadySatisfied(Catalog[other], Snapshot, objective)
  PROVE  LET id == Resolve(Snapshot, objective, authority, NoTransition).transition IN
         \/ Rank(Catalog[id].selection) < Rank(Catalog[other].selection)
         \/ /\ Rank(Catalog[id].selection) = Rank(Catalog[other].selection)
            /\ Catalog[id].priority <= Catalog[other].priority
<1> DEFINE input == Question(objective, authority, NoTransition)
           id == Resolve(Snapshot, objective, authority, NoTransition).transition
           C(x) == Candidate(x, Rank(Catalog[x].selection), Catalog[x].priority,
                             ImplicitlySelectable(Catalog[x])
                               /\ ~TargetAlreadySatisfied(Catalog[x], Snapshot, objective),
                             RequiredAll(Catalog[x], Snapshot), Catalog[x].any)
<1>1. PICK top \in Considered(input) : Preferred(input) = {top} /\ id = top.id
  BY ResolvedIsPreferred DEF Decision
<1>2. Candidates(Snapshot, objective) = {C(x) : x \in Admissible(Snapshot, objective)}
  BY DEF Candidates
<1>3. \A x : /\ C(x).id = x /\ C(x).rank = Rank(Catalog[x].selection)
             /\ C(x).priority = Catalog[x].priority
             /\ C(x).selectable = (ImplicitlySelectable(Catalog[x])
                                     /\ ~TargetAlreadySatisfied(Catalog[x], Snapshot, objective))
  BY DEF Candidate
<1> HIDE DEF C, id
<1>4. C(other) \in Considered(input)
  BY <1>2, <1>3 DEF Considered, Question
<1>5. top = C(id)
  <2>1. top \in Candidates(Snapshot, objective)
    BY <1>1 DEF Considered, Question
  <2> QED BY <1>1, <1>2, <1>3, <2>1
<1>6. NotAfter(C(id), C(other))
  <2> HIDE DEF input
  <2> QED BY <1>1, <1>4, <1>5 DEF Preferred
<1> QED BY <1>3, <1>6 DEF NotAfter, id

\* A transition that is selected starts from what it declares.
LEMMA SelectedNeedsObjective ==
  ASSUME NEW objective, NEW id \in Admissible(Snapshot, objective), id \notin Preparatory
  PROVE  Configured
<1>1. id \in DOMAIN Catalog /\ Satisfies(Catalog[id].when, Snapshot)
  BY DEF Admissible, SourceMatches
<1>2. PICK condition \in Catalog[id].when :
        "objective" \in DOMAIN condition /\ condition["objective"] = {"known"}
  BY <1>1, CatalogNeedsObjective DEF NeedsObjective
<1>3. Snapshot["objective"] \in {"known"}
  BY <1>1, <1>2 DEF Satisfies
<1>4. Snapshot["objective"] = IF Configured THEN "known" ELSE "absent"
  BY DEF Snapshot
<1> QED BY <1>3, <1>4

LEMMA CatalogWorkspaces ==
  /\ \A id \in {"workspace.sync", "workspace.activate"} :
       [workspace |-> {"cut", "active"}] \in Catalog[id].when
  /\ [workspace |-> {"active"}] \in Catalog["workspace.publish"].when
<1>1. \A id \in {"workspace.sync", "workspace.activate", "workspace.publish"} :
        Catalog[id] = WorkspaceTransition(id)
  <2> SUFFICES ASSUME NEW id \in {"workspace.sync", "workspace.activate", "workspace.publish"}
               PROVE  Catalog[id] = WorkspaceTransition(id)
    OBVIOUS
  <2>1. id \in DOMAIN Catalog
    BY DEF Catalog, WorkspaceIds
  <2>2. id \notin CoreIds /\ id \notin PlanIds /\ id \notin GateIds /\ id \notin PublicationIds
    BY DEF CoreIds, PlanIds, GateIds, PublicationIds
  <2> QED BY <2>1, <2>2, CatalogEntry
<1>2. [workspace |-> {"cut", "active"}] \in WorkspaceTransition("workspace.sync").when
  BY DEF WorkspaceTransition, Explicit, Declared
<1>3. [workspace |-> {"cut", "active"}] \in WorkspaceTransition("workspace.activate").when
  BY DEF WorkspaceTransition, Progress, Declared
<1>4. [workspace |-> {"active"}] \in WorkspaceTransition("workspace.publish").when
  BY DEF WorkspaceTransition, Explicit, Declared
<1> QED BY <1>1, <1>2, <1>3, <1>4

LEMMA CatalogExecute ==
  /\ Catalog["publication.execute"].when =
       {[publication |-> {"candidate"}]} \cup Publishable \cup Nonterminal \cup Steady
  /\ Catalog["publication.execute"].from = {"ACTIVE"}
<1>1. Catalog["publication.execute"] = PublicationTransition("publication.execute")
  BY DEF Catalog, CoreIds, PlanIds, WorkspaceIds, GateIds, PublicationIds
<1>2. PublicationTransition("publication.execute").when =
        {[publication |-> {"candidate"}]} \cup Publishable \cup Nonterminal \cup Steady
  BY DEF PublicationTransition, Progress, Declared
<1>3. PublicationTransition("publication.execute").from = {"ACTIVE"}
  BY DEF PublicationTransition, Progress, Declared
<1> QED BY <1>1, <1>2, <1>3

LEMMA ObservedFacets ==
  /\ Snapshot.workspace = rec.workspace /\ Snapshot.publication = ObservedPublication
  /\ Snapshot.verification = ObservedVerification /\ Snapshot.plan = ObservedPlan
  /\ Snapshot.configuration = ObservedConfiguration /\ Snapshot.runtime = ObservedRuntime
  BY DEF Snapshot

LEMMA SelectedWorkspaces ==
  ASSUME NEW objective, NEW id \in Admissible(Snapshot, objective)
  PROVE  /\ id \in {"workspace.sync", "workspace.activate"} => rec.workspace \in {"cut", "active"}
         /\ id = "workspace.publish" => rec.workspace = "active"
         /\ id = "publication.execute" =>
              /\ rec.workspace \in {"active", "published"}
              /\ ObservedVerification = "current" /\ ObservedPublication = "candidate"
              /\ ObservedConfiguration = "verified"
<1>1. \A condition \in Catalog[id].when :
        \A facet \in DOMAIN condition : Snapshot[facet] \in condition[facet]
  BY DEF Admissible, SourceMatches, Satisfies
<1>2. CASE id \in {"workspace.sync", "workspace.activate"}
  <2>1. [workspace |-> {"cut", "active"}] \in Catalog[id].when
    BY <1>2, CatalogWorkspaces
  <2> QED BY <1>1, <1>2, <2>1, ObservedFacets
<1>3. CASE id = "workspace.publish"
  <2>1. [workspace |-> {"active"}] \in Catalog[id].when
    BY <1>3, CatalogWorkspaces
  <2> QED BY <1>1, <1>3, <2>1, ObservedFacets
<1>4. CASE id = "publication.execute"
  <2>1. /\ [publication |-> {"candidate"}] \in Catalog[id].when
        /\ [verification |-> {"current"}, workspace |-> {"active", "published"}]
             \in Catalog[id].when
        /\ [configuration |-> {"verified"}, runtime |-> {"verified"}] \in Catalog[id].when
    BY <1>4, CatalogExecute DEF Publishable, Steady, Installed
  <2>2. Snapshot.publication \in {"candidate"}
    BY <1>1, <2>1
  <2>3. Snapshot.verification \in {"current"} /\ Snapshot.workspace \in {"active", "published"}
    BY <1>1, <2>1
  <2>4. Snapshot.configuration \in {"verified"}
    BY <1>1, <2>1
  <2> QED BY <1>4, <2>2, <2>3, <2>4, ObservedFacets
<1> QED BY <1>2, <1>3, <1>4

-----------------------------------------------------------------------------
(* The invariant. *)

\* A worktree that is bound to no objective has nothing of a delivery.
UnboundIsEmpty ==
  ~Configured =>
    /\ rec.plan = "absent" /\ rec.approval = None /\ rec.verification # "current"
    /\ \A g \in Gates : rec.gates[g] = 0

\* An approval in the durable state is one that stands.
ApprovalStands ==
  rec.approval # None => Configured /\ <<rec.objective.delivery, rec.approval>> \in granted

\* A recorded gate was recorded for this delivery, at the revision it names.
GatesAreProven ==
  \A g \in Gates : rec.gates[g] # 0 =>
    /\ proved[g] # None
    /\ proved[g].delivery = rec.objective.delivery
    /\ proved[g].content.head = rec.gates[g]

\* Evidence of abandoned work is out of the way while a workspace can be published.
ShelvedIsGone ==
  rec.workspace \in {"cut", "active", "published"} => \A g \in shelved : ~Intact(g)

\* What is previewed is a revision, without changes beside it.
PreviewsAreClean == rec.preview # None => rec.preview \in Revisions \X {FALSE}

LifecycleInv ==
  /\ TypeOK /\ UnboundIsEmpty /\ ApprovalStands /\ GatesAreProven /\ ShelvedIsGone
  /\ PreviewsAreClean

LEMMA NoFilesIsTyped == NoFiles \in Artifacts
<1>1. [g \in Gates |-> 0] \in [Gates -> 0..MaxRevision]
  BY BoundsArePositive
<1> QED BY <1>1 DEF NoFiles, Artifacts

LEMMA InitLifecycleInv == Init => LifecycleInv
<1> SUFFICES ASSUME Init PROVE LifecycleInv
  OBVIOUS
<1> USE DEF Init
<1>1. [g \in Gates |-> 0] \in [Gates -> 0..MaxRevision] /\ 0 \in 0..MaxRevision
      /\ 1 \in Revisions
  BY BoundsArePositive DEF Revisions
<1>2. rec \in States
  <2>1. InitialPolicy \in Policies
    BY PoliciesAreTyped
  <2> QED BY <1>1, <2>1
             DEF States, Phases, Engagements, Plans, Verifications, Progresses, Workspaces,
                 Publications
<1>3. repo \in Checkouts
  BY <1>1 DEF Checkouts
<1>4. files \in [Deliveries -> Artifacts]
  BY NoFilesIsTyped
<1>5. home \in [files : [Deliveries -> Artifacts], repo : Checkouts]
  BY <1>3, <1>4
<1>6. /\ pr \in [state : {"none", "open", "merged", "closed"}, head : 0..MaxRevision]
      /\ proved \in [Gates -> Proofs \cup {None}]
      /\ config \in Policies /\ deviations \in 0..MaxDeviations
  BY <1>1, BoundsArePositive, PoliciesAreTyped
<1>7. TypeOK
  BY <1>2, <1>3, <1>4, <1>5, <1>6 DEF TypeOK
<1> QED BY <1>7 DEF LifecycleInv, UnboundIsEmpty, ApprovalStands, GatesAreProven, ShelvedIsGone,
                    PreviewsAreClean, Configured

LEMMA InvImpliesApproved == LifecycleInv => ApprovedPlanIsWhatWasApproved
<1> SUFFICES ASSUME LifecycleInv, ObservedPlan \in {"approved", "locked"}
             PROVE  Configured /\ <<rec.objective.delivery, Here.plan>> \in granted
  BY DEF ApprovedPlanIsWhatWasApproved
<1>1. /\ rec.plan \in {"approved", "locked"}
      /\ \/ ~Configured
         \/ PlanIntact /\ ApprovalIntact
  BY DEF ObservedPlan
<1>2. Configured /\ PlanIntact /\ ApprovalIntact
  BY <1>1 DEF LifecycleInv, UnboundIsEmpty
<1> QED BY <1>2 DEF LifecycleInv, ApprovalStands, PlanIntact, ApprovalIntact

\* What an observation of a current verification says of the gates.
LEMMA CurrentIsRecorded ==
  ASSUME LifecycleInv, ObservedVerification = "current"
  PROVE  /\ Configured /\ rec.revision = repo.head /\ rec.revision # 0
         /\ \A g \in RequiredGates(rec.rules) : rec.gates[g] = rec.revision /\ Intact(g)
<1>1. /\ rec.verification = "current" /\ ArtifactVerification = rec.verification /\ ~SourceMoved
  BY DEF ObservedVerification, ArtifactVerification
<1>2. Configured
  BY <1>1 DEF LifecycleInv, UnboundIsEmpty
<1>3. ~EvidenceDamaged /\ ~EvidenceOutrun
  BY <1>1 DEF ArtifactVerification
<1>4. RequiredGateEvidenceCurrent(rec)
  BY <1>1, <1>2, <1>3 DEF EvidenceOutrun
<1>5. rec.revision # 0 /\ \A g \in RequiredGates(rec.rules) : rec.gates[g] = rec.revision
  BY <1>4 DEF RequiredGateEvidenceCurrent, HasCurrentGates
<1>6. \A g \in RequiredGates(rec.rules) : g \in Gates
  BY DEF RequiredGates, Gates
<1>7. \A g \in RequiredGates(rec.rules) : Intact(g)
  BY <1>2, <1>3, <1>5, <1>6 DEF EvidenceDamaged, Recorded
<1> QED BY <1>1, <1>2, <1>5, <1>7 DEF SourceMoved

LEMMA InvImpliesEvidence == LifecycleInv => EvidenceIsForOneRevision
<1> SUFFICES ASSUME LifecycleInv, ObservedVerification = "current",
                    NEW g \in RequiredGates(rec.rules)
             PROVE  /\ Intact(g) /\ proved[g] # None
                    /\ proved[g].delivery = rec.objective.delivery
                    /\ proved[g].content.head = repo.head
  BY DEF EvidenceIsForOneRevision
<1>1. g \in Gates
  BY DEF RequiredGates, Gates
<1> QED BY <1>1, CurrentIsRecorded DEF LifecycleInv, GatesAreProven

-----------------------------------------------------------------------------
(* The steps. *)

Publishing == {"cut", "active", "published"}

\* The durable state goes on with what the invariant speaks of.
GoesOn(state) ==
  /\ state \in States
  /\ state.objective = rec.objective /\ state.approval \in {rec.approval, None}
  /\ state.gates = rec.gates
  /\ state.preview \in {rec.preview, None} \cup (Revisions \X {FALSE})
  /\ ~Configured => state.plan = rec.plan /\ state.verification = rec.verification

Carries(state) ==
  GoesOn(state) /\ (state.workspace \in Publishing => rec.workspace \in Publishing)

LEMMA GoingOnKeeps ==
  ASSUME LifecycleInv, GoesOn(rec'), TypeOK', ShelvedIsGone', proved' = proved,
         granted' = granted \/ rec'.approval = None
  PROVE  LifecycleInv'
<1>1. Configured' <=> Configured
  BY DEF GoesOn, Configured
<1>2. UnboundIsEmpty' /\ ApprovalStands' /\ GatesAreProven'
  BY <1>1 DEF LifecycleInv, UnboundIsEmpty, ApprovalStands, GatesAreProven, GoesOn
<1>3. PreviewsAreClean'
  BY NoneIsNothing DEF LifecycleInv, PreviewsAreClean, GoesOn
<1> QED BY <1>2, <1>3 DEF LifecycleInv

LEMMA CarryingKeeps ==
  ASSUME LifecycleInv, Carries(rec'), TypeOK', shelved' = shelved, proved' = proved,
         granted' = granted \/ rec'.approval = None,
         \A g \in Gates : Intact(g)' => Intact(g)
  PROVE  LifecycleInv'
<1>1. ShelvedIsGone'
  BY DEF LifecycleInv, ShelvedIsGone, Carries, TypeOK, Publishing
<1> QED BY <1>1, GoingOnKeeps DEF Carries

\* The files of the worktree stay.
LEMMA SameFilesKeep ==
  ASSUME LifecycleInv, Carries(rec'), UNCHANGED <<files, home, proved, granted, shelved>>,
         repo' \in Checkouts, config' \in Policies, installed' \in BOOLEAN,
         deviations' \in 0..MaxDeviations,
         pr' \in [state : {"none", "open", "merged", "closed"}, head : 0..MaxRevision]
  PROVE  LifecycleInv'
<1>1. TypeOK'
  BY DEF LifecycleInv, TypeOK, Carries, GoesOn
<1>2. \A g \in Gates : Intact(g)' => Intact(g)
  BY DEF Intact, Here, Configured, Carries, GoesOn
<1> QED BY <1>1, <1>2, CarryingKeeps

LEMMA AssignKeeps ==
  ASSUME LifecycleInv, NEW state, Assign(state), Carries(state), deviations' \in 0..MaxDeviations
  PROVE  LifecycleInv'
<1>1. /\ rec' = state
      /\ UNCHANGED <<files, config, repo, home, pr, installed, proved, granted, shelved>>
  BY DEF Assign, Plant, History
<1> QED BY <1>1, SameFilesKeep DEF LifecycleInv, TypeOK

\* Two durable states that agree on everything but phase, terminal status,
\* engagement and the fields of delivery control.
Alike(s, t) ==
  /\ t.objective = s.objective /\ t.plan = s.plan /\ t.planText = s.planText
  /\ t.approval = s.approval /\ t.gates = s.gates /\ t.preview = s.preview
  /\ t.verification = s.verification /\ t.workspace = s.workspace
  /\ t.revision = s.revision /\ t.publication = s.publication /\ t.rules = s.rules

LEMMA PhaseIsTyped ==
  {"ACTIVE", "OBSERVED", "DORMANT", "FRONTIER", "UNRESOLVED", "TERMINAL", "ABANDONED"}
    \subseteq Phases
  BY DEF Phases

LEMMA ActiveGoesOn ==
  ASSUME NEW s \in States
  PROVE  Active(s) \in States /\ Alike(s, Active(s))
<1>1. "ACTIVE" \in Phases
  BY PhaseIsTyped
<1>2. Active(s) \in States
  BY <1>1 DEF States, Active
<1> QED BY <1>2 DEF States, Active, Alike

LEMMA LiveGoesOn ==
  ASSUME NEW s \in States
  PROVE  Live(s) \in States /\ Alike(s, Live(s))
<1>1. "ACTIVE" \in Phases
  BY PhaseIsTyped
<1>2. Live(s) \in States
  BY <1>1 DEF States, Live
<1> QED BY <1>2 DEF States, Live, Alike

LEMMA EstablishedGoesOn ==
  ASSUME NEW s \in States
  PROVE  Established(s) \in States /\ Alike(s, Established(s))
<1>1. "TERMINAL" \in Phases /\ "terminal" \in Progresses
  BY PhaseIsTyped DEF Progresses
<1>2. Established(s) \in States
  BY <1>1 DEF States, Established
<1> QED BY <1>2 DEF States, Established, Alike

\* A change of phase and of what the invariant does not speak of.
LEMMA AlikeIsCarried ==
  ASSUME LifecycleInv, NEW t \in States, Alike(rec, t)
  PROVE  Carries(t)
  BY DEF Carries, GoesOn, Alike, Publishing

LEMMA PhaseCarries ==
  ASSUME LifecycleInv, NEW phase \in Phases, NEW engagement \in Engagements
  PROVE  /\ Carries([rec EXCEPT !.phase = phase, !.engagement = engagement])
         /\ Carries([rec EXCEPT !.phase = phase])
         /\ Carries(rec)
<1>1. rec \in States
  BY DEF LifecycleInv, TypeOK
<1>2. /\ [rec EXCEPT !.phase = phase, !.engagement = engagement] \in States
      /\ [rec EXCEPT !.phase = phase] \in States
  BY <1>1 DEF States
<1>3. /\ Alike(rec, [rec EXCEPT !.phase = phase, !.engagement = engagement])
      /\ Alike(rec, [rec EXCEPT !.phase = phase]) /\ Alike(rec, rec)
  BY <1>1 DEF Alike, States
<1> QED BY <1>1, <1>2, <1>3, AlikeIsCarried

LEMMA SettledPhaseIsTyped ==
  SettledPhase(rec) \in Phases /\ TerminalPhase(rec) \in Phases
  BY PhaseIsTyped DEF SettledPhase, TerminalPhase

LEMMA ControlKeeps ==
  ASSUME LifecycleInv, NEW objective, NEW id, deviations' \in 0..MaxDeviations,
         \/ /\ id = "engagement.begin"
            /\ Assign([rec EXCEPT !.phase = "OBSERVED", !.engagement = "command"])
         \/ /\ id = "engagement.release"
            /\ Assign([rec EXCEPT !.phase = "DORMANT", !.engagement = "dormant"])
         \/ id = "runtime.hydrate" /\ Hydrate([rec EXCEPT !.phase = SettledPhase(rec)])
         \/ id = "installation.update" /\ Hydrate(rec)
         \/ id = "configuration.mutate" /\ MutateConfiguration
  PROVE  LifecycleInv'
<1>0. {"OBSERVED", "DORMANT"} \subseteq Phases /\ {"command", "dormant"} \subseteq Engagements
  BY PhaseIsTyped DEF Engagements
<1>1. CASE Assign([rec EXCEPT !.phase = "OBSERVED", !.engagement = "command"])
  BY <1>0, <1>1, PhaseCarries, AssignKeeps
<1>2. CASE Assign([rec EXCEPT !.phase = "DORMANT", !.engagement = "dormant"])
  BY <1>0, <1>2, PhaseCarries, AssignKeeps
<1>3. CASE Hydrate([rec EXCEPT !.phase = SettledPhase(rec)]) \/ Hydrate(rec)
  <2>1. /\ Carries(rec') /\ installed' = TRUE
        /\ UNCHANGED <<files, config, repo, home, pr, proved, granted, shelved>>
    BY <1>0, <1>3, PhaseCarries, SettledPhaseIsTyped DEF Hydrate, History
  <2> QED BY <2>1, SameFilesKeep DEF LifecycleInv, TypeOK
<1>4. CASE MutateConfiguration
  <2>1. PICK rules \in Policies :
          /\ config' = rules /\ rec' = [rec EXCEPT !.rules = rules, !.phase = SettledPhase(rec)]
          /\ UNCHANGED <<files, repo, home, pr, installed, History>>
    BY <1>4 DEF MutateConfiguration
  <2>2. rec \in States
    BY DEF LifecycleInv, TypeOK
  <2>3. rec' \in States
    BY <2>1, <2>2, SettledPhaseIsTyped DEF States
  <2>4. Carries(rec')
    BY <2>1, <2>2, <2>3 DEF Carries, GoesOn, States, Publishing
  <2> QED BY <2>1, <2>4, SameFilesKeep DEF LifecycleInv, TypeOK, History
<1> QED BY <1>1, <1>2, <1>3, <1>4

\* Work on a bound objective: what is assigned to plan, verification or
\* workspace carries the rest.
LEMMA WorkCarries ==
  ASSUME LifecycleInv, Configured, NEW s \in States,
         s.objective = rec.objective, s.approval \in {rec.approval, None}, s.gates = rec.gates,
         s.preview \in {rec.preview} \cup (Revisions \X {FALSE}),
         s.workspace \in Publishing => rec.workspace \in Publishing
  PROVE  Carries(s) /\ Carries(Active(s)) /\ Carries(Live(s)) /\ Carries(Established(s))
  BY ActiveGoesOn, LiveGoesOn, EstablishedGoesOn DEF Carries, GoesOn, Alike

LEMMA HereIsTyped ==
  ASSUME TypeOK, Configured
  PROVE  /\ Here = files[rec.objective.delivery] /\ Here \in Artifacts
         /\ rec.objective.delivery \in Deliveries
  BY DEF TypeOK, Configured, Here, States, Objectives

LEMMA FingerprintIsTyped == ASSUME TypeOK PROVE Fingerprint \in Fingerprints
<1>1. repo.head \in Revisions /\ (repo.edits > 0) \in BOOLEAN
  BY DEF TypeOK, Checkouts
<1> QED BY <1>1 DEF Fingerprint, Fingerprints

LEMMA HeadIsTyped ==
  ASSUME TypeOK
  PROVE  repo.head \in Revisions /\ repo.head \in 0..MaxRevision /\ repo.head # 0
  BY BoundsArePositive DEF TypeOK, Checkouts, Revisions

LEMMA PlanningKeeps ==
  ASSUME LifecycleInv, Configured, deviations' \in 0..MaxDeviations,
         \/ ValidatePlan
         \/ Assign(Active([rec EXCEPT !.plan = "locked", !.delivery = "active"]))
         \/ Assign([rec EXCEPT !.plan = "invalid", !.delivery = "invalid",
                               !.phase = "FRONTIER", !.terminal = "nonterminal"])
         \/ AdvanceSlice
  PROVE  LifecycleInv'
<1>1. rec \in States /\ TypeOK
  BY DEF LifecycleInv, TypeOK
<1>2. CASE ValidatePlan
  <2> DEFINE s == [rec EXCEPT !.plan = "valid", !.planText = Here.plan]
  <2>1. "valid" \in Plans /\ Here.plan \in Texts \cup {None}
    BY <1>1, HereIsTyped DEF Plans, Artifacts
  <2>2. s \in States
    BY <1>1, <2>1 DEF States
  <2>3. /\ s.objective = rec.objective /\ s.approval = rec.approval /\ s.gates = rec.gates
        /\ s.preview = rec.preview /\ s.workspace = rec.workspace
    BY <1>1 DEF States
  <2> HIDE DEF s
  <2>4. Carries(Live(s))
    BY <2>2, <2>3, WorkCarries
  <2> QED BY <1>2, <2>4, AssignKeeps DEF ValidatePlan, s
<1>3. CASE Assign(Active([rec EXCEPT !.plan = "locked", !.delivery = "active"]))
  <2> DEFINE s == [rec EXCEPT !.plan = "locked", !.delivery = "active"]
  <2>1. "locked" \in Plans /\ "active" \in Progresses
    BY DEF Plans, Progresses
  <2>2. s \in States
    BY <1>1, <2>1 DEF States
  <2>3. /\ s.objective = rec.objective /\ s.approval = rec.approval /\ s.gates = rec.gates
        /\ s.preview = rec.preview /\ s.workspace = rec.workspace
    BY <1>1 DEF States
  <2> HIDE DEF s
  <2>4. Carries(Active(s))
    BY <2>2, <2>3, WorkCarries
  <2> QED BY <1>3, <2>4, AssignKeeps DEF s
<1>4. CASE Assign([rec EXCEPT !.plan = "invalid", !.delivery = "invalid",
                              !.phase = "FRONTIER", !.terminal = "nonterminal"])
  <2> DEFINE s == [rec EXCEPT !.plan = "invalid", !.delivery = "invalid",
                              !.phase = "FRONTIER", !.terminal = "nonterminal"]
  <2>1. "invalid" \in Plans /\ "invalid" \in Progresses /\ "FRONTIER" \in Phases
    BY DEF Plans, Progresses, Phases
  <2>2. s \in States
    BY <1>1, <2>1 DEF States
  <2>3. /\ s.objective = rec.objective /\ s.approval = rec.approval /\ s.gates = rec.gates
        /\ s.preview = rec.preview /\ s.workspace = rec.workspace
    BY <1>1 DEF States
  <2> HIDE DEF s
  <2>4. Carries(s)
    BY <2>2, <2>3, WorkCarries
  <2> QED BY <1>4, <2>4, AssignKeeps DEF s
<1>5. CASE AdvanceSlice
  <2> DEFINE s == [rec EXCEPT !.delivery = "active", !.revision = repo.head,
                              !.worktree = Fingerprint]
  <2>1. "active" \in Progresses
    BY DEF Progresses
  <2>2. s \in States
    BY <1>1, <2>1, HeadIsTyped, FingerprintIsTyped DEF States
  <2>3. /\ s.objective = rec.objective /\ s.approval = rec.approval /\ s.gates = rec.gates
        /\ s.preview = rec.preview /\ s.workspace = rec.workspace
    BY <1>1 DEF States
  <2> HIDE DEF s
  <2>4. Carries(Active(s))
    BY <2>2, <2>3, WorkCarries
  <2> QED BY <1>5, <2>4, AssignKeeps DEF AdvanceSlice, s
<1> QED BY <1>2, <1>3, <1>4, <1>5

LEMMA WorkspaceKeeps ==
  ASSUME LifecycleInv, Configured, deviations' \in 0..MaxDeviations, rec.workspace \in Publishing,
         \/ Assign(Active([rec EXCEPT !.workspace = "active"]))
         \/ Assign(Active([rec EXCEPT !.workspace = "published"]))
  PROVE  LifecycleInv'
<1>1. rec \in States
  BY DEF LifecycleInv, TypeOK
<1>2. ASSUME NEW w \in {"active", "published"}, Assign(Active([rec EXCEPT !.workspace = w]))
      PROVE  LifecycleInv'
  <2> DEFINE s == [rec EXCEPT !.workspace = w]
  <2>1. w \in Workspaces
    BY DEF Workspaces
  <2>2. s \in States
    BY <1>1, <2>1 DEF States
  <2>3. /\ s.objective = rec.objective /\ s.approval = rec.approval /\ s.gates = rec.gates
        /\ s.preview = rec.preview
    BY <1>1 DEF States
  <2> HIDE DEF s
  <2>4. Carries(Active(s))
    BY <2>2, <2>3, WorkCarries
  <2> QED BY <1>2, <2>4, AssignKeeps DEF s
<1> QED BY <1>2

LEMMA PublicationKeeps ==
  ASSUME LifecycleInv, Configured, deviations' \in 0..MaxDeviations,
         \/ Publish /\ rec.workspace \in Publishing
         \/ ObservePublication
         \/ CorrectPublication
  PROVE  LifecycleInv'
<1>1. rec \in States /\ TypeOK
  BY DEF LifecycleInv, TypeOK
<1>2. CASE Publish /\ rec.workspace \in Publishing
  <2> DEFINE s == [rec EXCEPT !.publication = "published-not-landed", !.workspace = "published",
                              !.delivery = "published"]
  <2>1. /\ "published-not-landed" \in Publications
        /\ "published" \in Workspaces /\ "published" \in Progresses
    BY DEF Publications, Workspaces, Progresses
  <2>2. s \in States
    BY <1>1, <2>1 DEF States
  <2>3. /\ s.objective = rec.objective /\ s.approval = rec.approval /\ s.gates = rec.gates
        /\ s.preview = rec.preview
    BY <1>1 DEF States
  <2>4. rec' = Active(s)
    BY <1>2 DEF Publish
  <2> HIDE DEF s
  <2>5. Carries(rec')
    BY <1>2, <2>2, <2>3, <2>4, WorkCarries
  <2>6. pr' \in [state : {"none", "open", "merged", "closed"}, head : 0..MaxRevision]
    BY <1>1, <1>2, HeadIsTyped DEF Publish
  <2> QED BY <1>1, <1>2, <2>5, <2>6, SameFilesKeep DEF Publish, History, TypeOK
<1>3. CASE ObservePublication
  <2> DEFINE told == [rec EXCEPT !.publication = ProviderState]
             landed == [told EXCEPT !.workspace = "landed"]
  <2>1. ProviderState \in Publications
    BY <1>1 DEF ProviderState, TypeOK, Publications
  <2>2. told \in States
    BY <1>1, <2>1 DEF States
  <2>3. /\ told.objective = rec.objective /\ told.approval = rec.approval /\ told.gates = rec.gates
        /\ told.preview = rec.preview /\ told.workspace = rec.workspace
    BY <1>1 DEF States
  <2>4. \E state \in {[told EXCEPT !.phase = "UNRESOLVED"], [told EXCEPT !.phase = "FRONTIER"],
                      Established(told), Established(landed), Active(told)} : Assign(state)
    BY <1>3 DEF ObservePublication
  <2> HIDE DEF told
  <2>5. landed \in States
    BY <2>2 DEF States, Workspaces
  <2>6. /\ landed.objective = rec.objective /\ landed.approval = rec.approval
        /\ landed.gates = rec.gates /\ landed.preview = rec.preview /\ landed.workspace = "landed"
    BY <2>2, <2>3 DEF States
  <2> HIDE DEF landed
  <2>7. Carries(Established(told)) /\ Carries(Active(told)) /\ Carries(Established(landed))
    BY <2>2, <2>3, <2>5, <2>6, WorkCarries DEF Publishing
  <2>8. ASSUME NEW phase \in {"UNRESOLVED", "FRONTIER"}
        PROVE  Carries([told EXCEPT !.phase = phase])
    <3> DEFINE s == [told EXCEPT !.phase = phase]
    <3>1. phase \in Phases
      BY PhaseIsTyped
    <3>2. s \in States
      BY <2>2, <3>1 DEF States
    <3>3. /\ s.objective = rec.objective /\ s.approval = rec.approval /\ s.gates = rec.gates
          /\ s.preview = rec.preview /\ s.workspace = rec.workspace
      BY <2>2, <2>3 DEF States
    <3> HIDE DEF s
    <3>4. Carries(s)
      BY <3>2, <3>3, WorkCarries
    <3> QED BY <3>4 DEF s
  <2> QED BY <2>4, <2>7, <2>8, AssignKeeps
<1>4. CASE CorrectPublication
  <2> DEFINE s == [rec EXCEPT !.publication = "published-not-landed", !.delivery = "published"]
  <2>1. "published-not-landed" \in Publications /\ "published" \in Progresses
    BY DEF Publications, Progresses
  <2>2. s \in States
    BY <1>1, <2>1 DEF States
  <2>3. /\ s.objective = rec.objective /\ s.approval = rec.approval /\ s.gates = rec.gates
        /\ s.preview = rec.preview /\ s.workspace = rec.workspace
    BY <1>1 DEF States
  <2>4. rec' = Live(s)
    BY <1>4 DEF CorrectPublication
  <2> HIDE DEF s
  <2>5. Carries(rec')
    BY <1>4, <2>2, <2>3, <2>4, WorkCarries
  <2>6. pr' \in [state : {"none", "open", "merged", "closed"}, head : 0..MaxRevision]
    BY <1>1, <1>4, HeadIsTyped DEF CorrectPublication, TypeOK
  <2> QED BY <1>1, <1>4, <2>5, <2>6, SameFilesKeep DEF CorrectPublication, History, TypeOK
<1> QED BY <1>2, <1>3, <1>4

LEMMA WriteHere ==
  ASSUME TypeOK, Configured, NEW artifacts \in Artifacts, Write(artifacts),
         rec'.objective = rec.objective
  PROVE  files' \in [Deliveries -> Artifacts] /\ Here' = artifacts
<1>1. rec.objective.delivery \in Deliveries /\ files \in [Deliveries -> Artifacts]
  BY HereIsTyped DEF TypeOK
<1>2. files' \in [Deliveries -> Artifacts] /\ files'[rec.objective.delivery] = artifacts
  BY <1>1 DEF Write
<1> QED BY <1>2 DEF Here, Configured

\* The steps that write the files of the delivery and keep its evidence.
LEMMA WritingKeeps ==
  ASSUME LifecycleInv, Configured, Carries(rec'), deviations' \in 0..MaxDeviations,
         NEW artifacts \in Artifacts, Write(artifacts),
         \A g \in Gates : artifacts.evidence[g] \in {Here.evidence[g], 0},
         UNCHANGED <<Plant, proved, shelved>>, granted' = granted \/ rec'.approval = None,
         granted' \subseteq granted
  PROVE  LifecycleInv'
<1>1. TypeOK /\ rec' \in States /\ rec'.objective = rec.objective /\ rec'.gates = rec.gates
  BY DEF LifecycleInv, Carries, GoesOn
<1>2. files' \in [Deliveries -> Artifacts] /\ Here' = artifacts
  BY <1>1, WriteHere
<1>3. TypeOK'
  BY <1>1, <1>2 DEF TypeOK, Plant
<1>4. \A g \in Gates : Intact(g)' => Intact(g)
  BY <1>1, <1>2 DEF Intact
<1> QED BY <1>3, <1>4, CarryingKeeps

LEMMA WritePlanKeeps ==
  ASSUME LifecycleInv, Configured, deviations' \in 0..MaxDeviations,
         NEW text \in Texts, NEW plan \in Plans, NEW delivery \in Progresses,
         WritePlan(text, plan, delivery)
  PROVE  LifecycleInv'
<1> DEFINE s == [rec EXCEPT !.plan = plan, !.delivery = delivery, !.planText = text,
                            !.approval = None]
           a == [Here EXCEPT !.plan = text, !.approval = None]
<1>1. rec \in States /\ Here \in Artifacts
  BY HereIsTyped DEF LifecycleInv, TypeOK
<1>2. s \in States
  BY <1>1 DEF States
<1>3. /\ s.objective = rec.objective /\ s.approval = None /\ s.gates = rec.gates
      /\ s.preview = rec.preview /\ s.workspace = rec.workspace
  BY <1>1 DEF States
<1>4. a \in Artifacts /\ a.evidence = Here.evidence
  BY <1>1 DEF Artifacts
<1>5. rec' = Live(s) /\ Write(a) /\ UNCHANGED <<Plant, History>>
  BY DEF WritePlan
<1> HIDE DEF s, a
<1>6. Carries(rec')
  BY <1>2, <1>3, <1>5, WorkCarries
<1> QED BY <1>4, <1>5, <1>6, WritingKeeps DEF History

LEMMA RevokeApprovalKeeps ==
  ASSUME LifecycleInv, Configured, deviations' \in 0..MaxDeviations, RevokeApproval
  PROVE  LifecycleInv'
<1> DEFINE s == [rec EXCEPT !.plan = "valid", !.phase = "FRONTIER", !.terminal = "nonterminal",
                            !.approval = None]
           a == [Here EXCEPT !.approval = None]
<1>1. rec \in States /\ Here \in Artifacts
  BY HereIsTyped DEF LifecycleInv, TypeOK
<1>2. "valid" \in Plans /\ "FRONTIER" \in Phases
  BY DEF Plans, Phases
<1>3. s \in States
  BY <1>1, <1>2 DEF States
<1>4. /\ s.objective = rec.objective /\ s.approval = None /\ s.gates = rec.gates
      /\ s.preview = rec.preview /\ s.workspace = rec.workspace
  BY <1>1 DEF States
<1>5. a \in Artifacts /\ a.evidence = Here.evidence
  BY <1>1 DEF Artifacts
<1>6. /\ rec' = s /\ Write(a) /\ UNCHANGED <<Plant, proved, shelved>>
      /\ granted' = granted \ {<<rec.objective.delivery, rec.planText>>}
  BY DEF RevokeApproval
<1> HIDE DEF s, a
<1>7. Carries(rec')
  BY <1>3, <1>4, <1>6, WorkCarries
<1> QED BY <1>4, <1>5, <1>6, <1>7, WritingKeeps

LEMMA PreviewKeeps ==
  ASSUME LifecycleInv, Configured, deviations' \in 0..MaxDeviations, repo.edits = 0, Preview
  PROVE  LifecycleInv'
<1> DEFINE s == [rec EXCEPT !.publication = "candidate", !.preview = Fingerprint]
           a == [Here EXCEPT !.preview = Fingerprint]
<1>1. rec \in States /\ Here \in Artifacts /\ Fingerprint \in Fingerprints
  BY HereIsTyped, FingerprintIsTyped DEF LifecycleInv, TypeOK
<1>2. Fingerprint \in Revisions \X {FALSE} /\ "candidate" \in Publications
  <2>1. repo.head \in Revisions /\ (repo.edits > 0) = FALSE
    BY HeadIsTyped DEF LifecycleInv
  <2> QED BY <2>1 DEF Fingerprint, Publications
<1>3. s \in States
  BY <1>1, <1>2 DEF States
<1>4. /\ s.objective = rec.objective /\ s.approval = rec.approval /\ s.gates = rec.gates
      /\ s.preview = Fingerprint /\ s.workspace = rec.workspace
  BY <1>1 DEF States
<1>5. a \in Artifacts /\ a.evidence = Here.evidence
  BY <1>1 DEF Artifacts
<1>6. rec' = Active(s) /\ Write(a) /\ UNCHANGED <<Plant, History>>
  BY DEF Preview
<1> HIDE DEF s, a
<1>7. Carries(rec')
  BY <1>2, <1>3, <1>4, <1>6, WorkCarries
<1> QED BY <1>5, <1>6, <1>7, WritingKeeps DEF History

LEMMA ApprovePlanKeeps ==
  ASSUME LifecycleInv, Configured, deviations' \in 0..MaxDeviations, rec.planText # None,
         NEW amended \in BOOLEAN, ApprovePlan(amended)
  PROVE  LifecycleInv'
<1> DEFINE s == [rec EXCEPT !.plan = "approved", !.delivery = "approved", !.approval = rec.planText]
           a == [Here EXCEPT !.approval = rec.planText]
           d == rec.objective.delivery
<1>1. /\ TypeOK /\ rec \in States /\ Here \in Artifacts /\ d \in Deliveries
      /\ rec.planText \in Texts
  BY HereIsTyped DEF LifecycleInv, TypeOK, States
<1>2. "approved" \in Plans /\ "approved" \in Progresses
  BY DEF Plans, Progresses
<1>3. s \in States
  BY <1>1, <1>2 DEF States
<1>4. /\ s.objective = rec.objective /\ s.approval = rec.planText /\ s.gates = rec.gates
      /\ s.preview = rec.preview /\ s.workspace = rec.workspace
  BY <1>1 DEF States
<1>5. a \in Artifacts /\ a.evidence = Here.evidence
  BY <1>1 DEF Artifacts
<1>6. /\ rec' = Active(s) \/ rec' = Established(Active(s))
      /\ Write(a) /\ granted' = granted \cup {<<d, rec.planText>>}
      /\ UNCHANGED <<config, repo, home, pr, installed, proved, shelved>>
  BY DEF ApprovePlan, Plant
<1> HIDE DEF s, a
<1>7. /\ rec' \in States /\ rec'.objective = rec.objective /\ rec'.approval = rec.planText
      /\ rec'.gates = rec.gates /\ rec'.preview = rec.preview /\ rec'.workspace = rec.workspace
  BY <1>3, <1>4, <1>6, ActiveGoesOn, EstablishedGoesOn DEF Alike
<1>8. files' \in [Deliveries -> Artifacts] /\ Here' = a
  BY <1>1, <1>5, <1>6, <1>7, WriteHere
<1>9. TypeOK'
  BY <1>1, <1>6, <1>7, <1>8 DEF TypeOK
<1>10. \A g \in Gates : Intact(g)' => Intact(g)
  BY <1>5, <1>7, <1>8 DEF Intact
<1>11. Configured' /\ UnboundIsEmpty' /\ ApprovalStands' /\ GatesAreProven' /\ PreviewsAreClean'
  BY <1>1, <1>6, <1>7 DEF Configured, LifecycleInv, UnboundIsEmpty, ApprovalStands, GatesAreProven,
                          PreviewsAreClean
<1>12. ShelvedIsGone'
  BY <1>1, <1>6, <1>7, <1>10 DEF LifecycleInv, ShelvedIsGone, TypeOK
<1> QED BY <1>9, <1>11, <1>12 DEF LifecycleInv

LEMMA AbandonKeeps ==
  ASSUME LifecycleInv, Configured, deviations' \in 0..MaxDeviations, Abandon
  PROVE  LifecycleInv'
<1> DEFINE w == IF rec.workspace = "absent" THEN "absent" ELSE "abandoned"
           s == [rec EXCEPT !.delivery = "discarded", !.terminal = "established",
                            !.phase = "ABANDONED", !.workspace = w]
<1>1. TypeOK /\ rec \in States
  BY DEF LifecycleInv, TypeOK
<1>2. /\ "discarded" \in Progresses /\ "ABANDONED" \in Phases
      /\ w \in Workspaces /\ w \notin Publishing
  BY DEF Progresses, Phases, Workspaces, Publishing
<1>3. /\ rec' = s /\ shelved' = Recorded
      /\ UNCHANGED <<files, config, repo, home, pr, installed, proved, granted>>
  BY DEF Abandon, Plant
<1> HIDE DEF w
<1>4. s \in States
  BY <1>1, <1>2 DEF States
<1>5. /\ s.objective = rec.objective /\ s.approval = rec.approval /\ s.gates = rec.gates
      /\ s.preview = rec.preview /\ s.workspace = w
  BY <1>1 DEF States
<1> HIDE DEF s
<1>6. GoesOn(rec') /\ TypeOK'
  BY <1>1, <1>3, <1>4, <1>5 DEF GoesOn, TypeOK, Recorded
<1>7. ShelvedIsGone'
  BY <1>2, <1>3, <1>5 DEF ShelvedIsGone, Publishing
<1> QED BY <1>3, <1>6, <1>7, GoingOnKeeps

LEMMA CutWorkspaceKeeps ==
  ASSUME LifecycleInv, Configured, deviations' \in 0..MaxDeviations, CutWorkspace
  PROVE  LifecycleInv'
<1> DEFINE s == [rec EXCEPT !.workspace = "cut", !.revision = 0, !.worktree = None,
                            !.verification = "unverified"]
           d == rec.objective.delivery
           moved == [NoFiles EXCEPT
                       !.plan = IF rec.planText = None THEN None ELSE files[d].plan,
                       !.approval = IF rec.planText = None THEN None ELSE files[d].approval]
<1>1. TypeOK /\ rec \in States /\ d \in Deliveries /\ files \in [Deliveries -> Artifacts]
      /\ files[d] \in Artifacts
  BY HereIsTyped DEF LifecycleInv, TypeOK
<1>2. "cut" \in Workspaces /\ "unverified" \in Verifications /\ 0 \in 0..MaxRevision
  BY BoundsArePositive DEF Workspaces, Verifications
<1>3. s \in States
  BY <1>1, <1>2 DEF States
<1>4. /\ s.objective = rec.objective /\ s.approval = rec.approval /\ s.gates = rec.gates
      /\ s.preview = rec.preview
  BY <1>1 DEF States
<1>5. /\ rec' = Active(s) /\ home' = [files |-> files, repo |-> repo]
      /\ files' = [x \in Deliveries |-> IF x = d THEN moved ELSE NoFiles]
      /\ repo' = [head |-> repo.head, edits |-> 0] /\ pr' = [state |-> "none", head |-> 0]
      /\ UNCHANGED <<config, installed, proved, granted, shelved>>
  BY DEF CutWorkspace, History
<1>6. moved \in Artifacts /\ \A g \in Gates : moved.evidence[g] = 0
  <2>1. NoFiles \in Artifacts /\ NoFiles.evidence = [g \in Gates |-> 0]
    BY NoFilesIsTyped DEF NoFiles
  <2>2. /\ (IF rec.planText = None THEN None ELSE files[d].plan) \in Texts \cup {None}
        /\ (IF rec.planText = None THEN None ELSE files[d].approval) \in Texts \cup {None}
    BY <1>1 DEF Artifacts
  <2>3. moved \in Artifacts /\ moved.evidence = NoFiles.evidence
    BY <2>1, <2>2 DEF Artifacts
  <2> QED BY <2>1, <2>3
<1> HIDE DEF s, moved
<1>7. Active(s) \in States /\ GoesOn(rec')
  BY <1>3, <1>4, <1>5, ActiveGoesOn DEF GoesOn, Alike
<1>8. files' \in [Deliveries -> Artifacts] /\ Here' = moved
  <2>1. files' \in [Deliveries -> Artifacts] /\ files'[d] = moved
    BY <1>1, <1>5, <1>6, NoFilesIsTyped
  <2>2. rec'.objective = rec.objective
    BY <1>7 DEF GoesOn
  <2> QED BY <2>1, <2>2 DEF Here, Configured
<1>9. TypeOK'
  <2>1. repo' \in Checkouts /\ home' \in [files : [Deliveries -> Artifacts], repo : Checkouts]
    BY <1>1, <1>5, HeadIsTyped DEF Checkouts, TypeOK
  <2>2. pr' \in [state : {"none", "open", "merged", "closed"}, head : 0..MaxRevision]
    BY <1>2, <1>5
  <2> QED BY <1>1, <1>5, <1>7, <1>8, <2>1, <2>2 DEF TypeOK, GoesOn
<1>10. ShelvedIsGone'
  BY <1>5, <1>6, <1>8, <1>9 DEF ShelvedIsGone, Intact, TypeOK
<1> QED BY <1>5, <1>7, <1>9, <1>10, GoingOnKeeps

LEMMA RemoveWorkspaceKeeps ==
  ASSUME LifecycleInv, Configured, deviations' \in 0..MaxDeviations, RemoveWorkspace
  PROVE  LifecycleInv'
<1> DEFINE s == [rec EXCEPT !.workspace = "absent", !.phase = TerminalPhase(rec)]
<1>1. TypeOK /\ rec \in States
  BY DEF LifecycleInv, TypeOK
<1>2. "absent" \in Workspaces /\ TerminalPhase(rec) \in Phases /\ 0 \in 0..MaxRevision
  BY SettledPhaseIsTyped, BoundsArePositive DEF Workspaces
<1>3. s \in States
  BY <1>1, <1>2 DEF States
<1>4. /\ s.objective = rec.objective /\ s.approval = rec.approval /\ s.gates = rec.gates
      /\ s.preview = rec.preview /\ s.workspace = "absent"
  BY <1>1 DEF States
<1>5. /\ rec' = s /\ files' = home.files /\ repo' = home.repo
      /\ pr' = [state |-> "none", head |-> 0]
      /\ UNCHANGED <<config, home, installed, proved, granted, shelved>>
  BY DEF RemoveWorkspace, History
<1> HIDE DEF s
<1>6. GoesOn(rec')
  BY <1>3, <1>4, <1>5 DEF GoesOn
<1>7. TypeOK'
  BY <1>1, <1>2, <1>3, <1>5 DEF TypeOK
<1>8. ShelvedIsGone'
  BY <1>4, <1>5 DEF ShelvedIsGone
<1> QED BY <1>5, <1>6, <1>7, <1>8, GoingOnKeeps

LEMMA GateRecordedIs ==
  ASSUME TypeOK, NEW g \in Gates
  PROVE  LET s == GateRecorded(g) IN
         /\ s \in States /\ s.objective = rec.objective /\ s.approval = rec.approval
         /\ s.gates = [rec.gates EXCEPT ![g] = repo.head]
         /\ s.preview = rec.preview /\ s.workspace = rec.workspace
         /\ s.publication = rec.publication
<1> DEFINE judge(b) == IF RequiredGateEvidenceCurrent(b) THEN "current" ELSE "stale"
           delivery == IF g # "visual" \/ Class = "verified-implementation"
                         THEN "active" ELSE rec.delivery
           gates == [rec.gates EXCEPT ![g] = repo.head]
           b == [rec EXCEPT !.gates[g] = repo.head, !.revision = repo.head,
                            !.worktree = Fingerprint,
                            !.delivery = IF g # "visual" \/ Class = "verified-implementation"
                                           THEN "active" ELSE @]
           judged == [Live(b) EXCEPT !.verification = judge(Live(b))]
<1>1. /\ rec \in States /\ Fingerprint \in Fingerprints /\ repo.head \in 0..MaxRevision
      /\ rec.delivery \in Progresses /\ rec.gates \in [Gates -> 0..MaxRevision]
  BY FingerprintIsTyped, HeadIsTyped DEF TypeOK, States
<1>2. gates \in [Gates -> 0..MaxRevision] /\ delivery \in Progresses
  BY <1>1 DEF Progresses
<1>3. b = [rec EXCEPT !.gates = gates, !.revision = repo.head, !.worktree = Fingerprint,
                      !.delivery = delivery]
  BY <1>1 DEF States
<1> HIDE DEF b, gates, delivery
<1>4. b \in States
  BY <1>1, <1>2, <1>3 DEF States
<1>5. /\ b.objective = rec.objective /\ b.approval = rec.approval /\ b.gates = gates
      /\ b.preview = rec.preview /\ b.workspace = rec.workspace
      /\ b.publication = rec.publication
  BY <1>1, <1>3 DEF States
<1>6. Live(b) \in States /\ Alike(b, Live(b))
  BY <1>4, LiveGoesOn
<1>7. judge(Live(b)) \in Verifications
  BY DEF Verifications
<1>8. judged \in States
  <2> HIDE DEF judge
  <2> QED BY <1>6, <1>7 DEF States
<1>9. /\ judged.objective = b.objective /\ judged.approval = b.approval /\ judged.gates = b.gates
      /\ judged.preview = b.preview /\ judged.workspace = b.workspace
      /\ judged.publication = b.publication
  <2> HIDE DEF judge
  <2> QED BY <1>6 DEF States, Alike
<1>10. GateRecorded(g) = IF VerifiedObjectiveSatisfied(judged) THEN Established(judged) ELSE judged
  BY DEF GateRecorded, b
<1> HIDE DEF judged
<1>11. Established(judged) \in States /\ Alike(judged, Established(judged))
  BY <1>8, EstablishedGoesOn
<1> QED BY <1>5, <1>8, <1>9, <1>10, <1>11 DEF Alike, gates

LEMMA RecordGateKeeps ==
  ASSUME LifecycleInv, Configured, deviations' \in 0..MaxDeviations, NEW g \in Gates, RecordGate(g)
  PROVE  LifecycleInv'
<1> DEFINE a == [Here EXCEPT !.evidence[g] = repo.head]
           d == rec.objective.delivery
<1>1. /\ TypeOK /\ rec \in States /\ Here \in Artifacts /\ d \in Deliveries
      /\ repo.head \in Revisions /\ repo.head \in 0..MaxRevision
      /\ rec.gates \in [Gates -> 0..MaxRevision]
  BY HereIsTyped, HeadIsTyped DEF LifecycleInv, TypeOK, States
<1>2. /\ rec' = GateRecorded(g) /\ Write(a)
      /\ proved' = [proved EXCEPT ![g] = [delivery |-> d, content |-> repo]]
      /\ shelved' = shelved \ {g}
      /\ UNCHANGED <<config, repo, home, pr, installed, granted>>
  BY DEF RecordGate, Plant
<1>3. /\ rec' \in States /\ rec'.objective = rec.objective /\ rec'.approval = rec.approval
      /\ rec'.gates = [rec.gates EXCEPT ![g] = repo.head]
      /\ rec'.preview = rec.preview /\ rec'.workspace = rec.workspace
  BY <1>1, <1>2, GateRecordedIs
<1>4. a \in Artifacts /\ a.evidence = [Here.evidence EXCEPT ![g] = repo.head]
      /\ Here.evidence \in [Gates -> 0..MaxRevision]
  BY <1>1 DEF Artifacts
<1> HIDE DEF a
<1>5. files' \in [Deliveries -> Artifacts] /\ Here' = a
  BY <1>1, <1>2, <1>3, <1>4, WriteHere
<1>6. [delivery |-> d, content |-> repo] \in Proofs /\ proved \in [Gates -> Proofs \cup {None}]
  BY <1>1 DEF Proofs, TypeOK
<1>7. /\ proved' \in [Gates -> Proofs \cup {None}]
      /\ proved'[g] = [delivery |-> d, content |-> repo]
      /\ \A h \in Gates \ {g} : proved'[h] = proved[h]
  BY <1>2, <1>6
<1>8. TypeOK'
  BY <1>1, <1>2, <1>3, <1>5, <1>7 DEF TypeOK
<1>9. GatesAreProven'
  <2> SUFFICES ASSUME NEW h \in Gates, rec'.gates[h] # 0
               PROVE  /\ proved'[h] # None
                      /\ proved'[h].delivery = rec'.objective.delivery
                      /\ proved'[h].content.head = rec'.gates[h]
    BY DEF GatesAreProven
  <2>1. CASE h = g
    <3>1. proved'[g] # None
      BY <1>6, <1>7, NoneIsNothing
    <3>2. rec'.gates[g] = repo.head
      BY <1>1, <1>3
    <3>3. proved'[g].delivery = d /\ proved'[g].content.head = repo.head
      BY <1>7
    <3> QED BY <1>3, <2>1, <3>1, <3>2, <3>3
  <2>2. CASE h # g
    BY <1>1, <1>3, <1>7, <2>2 DEF LifecycleInv, GatesAreProven
  <2> QED BY <2>1, <2>2
<1>10. ShelvedIsGone'
  <2> SUFFICES ASSUME rec'.workspace \in {"cut", "active", "published"}, NEW h \in shelved'
               PROVE  ~Intact(h)'
    BY DEF ShelvedIsGone
  <2>1. h \in shelved /\ h # g /\ h \in Gates
    BY <1>1, <1>2 DEF TypeOK
  <2>2. ~Intact(h)
    BY <1>3, <2>1 DEF LifecycleInv, ShelvedIsGone
  <2>3. rec'.gates[h] = rec.gates[h] /\ Here'.evidence[h] = Here.evidence[h]
    BY <1>1, <1>3, <1>4, <1>5, <2>1
  <2> QED BY <2>2, <2>3 DEF Intact
<1>11. UnboundIsEmpty' /\ ApprovalStands' /\ PreviewsAreClean'
  BY <1>2, <1>3 DEF Configured, LifecycleInv, UnboundIsEmpty, ApprovalStands, PreviewsAreClean
<1> QED BY <1>8, <1>9, <1>10, <1>11 DEF LifecycleInv

LEMMA ResetDeliveryIs ==
  ASSUME NEW s \in States
  PROVE  LET t == ResetDelivery(s) IN
         /\ t \in States /\ t.approval = None /\ t.preview = None /\ t.workspace = "absent"
         /\ t.gates = [g \in Gates |-> 0]
<1>1. /\ "uninitialized" \in Progresses /\ "absent" \in Plans /\ "absent" \in Workspaces
      /\ "none" \in Publications /\ "unverified" \in Verifications
  BY DEF Progresses, Plans, Workspaces, Publications, Verifications
<1>2. [g \in Gates |-> 0] \in [Gates -> 0..MaxRevision]
  BY BoundsArePositive
<1>3. ResetDelivery(s) \in States
  BY <1>1, <1>2 DEF ResetDelivery, States
<1> QED BY <1>3 DEF ResetDelivery, States

LEMMA BindObjectiveKeeps ==
  ASSUME LifecycleInv, NEW objective \in Objectives, deviations' \in 0..MaxDeviations,
         BindObjective(objective)
  PROVE  LifecycleInv'
<1> DEFINE base == IF Rebinds(objective) THEN ResetDelivery(rec) ELSE rec
           phase == IF rec.phase = "ACTIVE" /\ ~Rebinds(objective) THEN "ACTIVE" ELSE "OBSERVED"
           s == [base EXCEPT !.objective = objective, !.terminal = "nonterminal", !.phase = phase]
<1>1. TypeOK /\ rec \in States /\ phase \in Phases
  BY PhaseIsTyped DEF LifecycleInv, TypeOK
<1>2. base \in States
  BY <1>1, ResetDeliveryIs
<1>3. rec' = s /\ UNCHANGED <<files, config, repo, home, pr, installed, proved, granted, shelved>>
  BY DEF BindObjective, Bound, Assign, Plant, History
<1> HIDE DEF base, phase
<1>4. s \in States
  BY <1>1, <1>2 DEF States
<1>5. /\ s.objective = objective /\ s.approval = base.approval /\ s.gates = base.gates
      /\ s.preview = base.preview /\ s.workspace = base.workspace
  BY <1>2 DEF States
<1> HIDE DEF s
<1>6. TypeOK'
  BY <1>1, <1>3, <1>4 DEF TypeOK
<1>7. Configured' /\ UnboundIsEmpty'
  BY <1>3, <1>5, NoneIsNothing DEF Configured, UnboundIsEmpty
<1>8. CASE Rebinds(objective) \/ ~Configured
  <2>1. base.approval = None /\ \A g \in Gates : base.gates[g] = 0
    BY <1>1, <1>8, ResetDeliveryIs DEF base, LifecycleInv, UnboundIsEmpty, Rebinds
  <2>2. base.preview \in {rec.preview, None}
    BY <1>1, ResetDeliveryIs DEF base
  <2>3. ApprovalStands' /\ GatesAreProven' /\ PreviewsAreClean'
    BY <1>3, <1>5, <2>1, <2>2 DEF LifecycleInv, ApprovalStands, GatesAreProven, PreviewsAreClean
  <2>4. ShelvedIsGone'
    BY <1>3, <1>5, <1>6, <2>1 DEF ShelvedIsGone, Intact, TypeOK
  <2> QED BY <1>6, <1>7, <2>3, <2>4 DEF LifecycleInv
<1>9. CASE ~Rebinds(objective) /\ Configured
  <2>1. base = rec /\ rec.objective.delivery = objective.delivery
    BY <1>9 DEF base, Rebinds
  <2>2. ApprovalStands' /\ GatesAreProven' /\ PreviewsAreClean'
    BY <1>3, <1>5, <1>7, <2>1 DEF LifecycleInv, ApprovalStands, GatesAreProven, PreviewsAreClean
  <2>3. Here' = Here
    BY <1>3, <1>5, <1>7, <1>9, <2>1 DEF Here
  <2>4. ShelvedIsGone'
    BY <1>3, <1>5, <2>1, <2>3 DEF LifecycleInv, ShelvedIsGone, Intact
  <2> QED BY <1>6, <1>7, <2>2, <2>4 DEF LifecycleInv
<1> QED BY <1>8, <1>9

\* A selected transition that takes effect.
LEMMA EffectKeeps ==
  ASSUME LifecycleInv, NEW objective \in Objectives, NEW id \in Admissible(Snapshot, objective),
         Prepared(id, objective), Effect(id, objective), deviations' \in 0..MaxDeviations
  PROVE  LifecycleInv'
<1>1. id \in DOMAIN Catalog /\ (id \notin Preparatory => Configured)
  BY SelectedNeedsObjective DEF Admissible
<1>2. /\ id \in {"plan.approve", "plan.approve-amendment"} => rec.planText # None
      /\ id = "publication.preview" => repo.edits = 0
  BY DEF Prepared, PreparedUnclean
<1>3. CASE \/ /\ id = "engagement.begin"
              /\ Assign([rec EXCEPT !.phase = "OBSERVED", !.engagement = "command"])
           \/ /\ id = "engagement.release"
              /\ Assign([rec EXCEPT !.phase = "DORMANT", !.engagement = "dormant"])
           \/ id = "runtime.hydrate" /\ Hydrate([rec EXCEPT !.phase = SettledPhase(rec)])
           \/ id = "installation.update" /\ Hydrate(rec)
           \/ id = "configuration.mutate" /\ MutateConfiguration
  BY <1>3, ControlKeeps
<1>4. CASE id = "objective.bind" /\ BindObjective(objective)
  BY <1>4, BindObjectiveKeeps
<1>5. CASE \/ id = "plan.create" /\ \E text \in Texts : WritePlan(text, "draft", "planning")
           \/ /\ id = "plan.amend"
              /\ \E text \in Texts : WritePlan(text, "amendment-required", "amendment")
  <2>1. /\ {"draft", "amendment-required"} \subseteq Plans
        /\ {"planning", "amendment"} \subseteq Progresses
    BY DEF Plans, Progresses
  <2>2. Configured
    BY <1>1, <1>5 DEF Preparatory
  <2> QED BY <1>5, <2>1, <2>2, WritePlanKeeps
<1>6. CASE \/ id = "plan.validate" /\ ValidatePlan
           \/ /\ id = "plan.activate"
              /\ Assign(Active([rec EXCEPT !.plan = "locked", !.delivery = "active"]))
           \/ /\ id = "plan.invalidate"
              /\ Assign([rec EXCEPT !.plan = "invalid", !.delivery = "invalid",
                                    !.phase = "FRONTIER", !.terminal = "nonterminal"])
           \/ id = "delivery.slice.advance" /\ AdvanceSlice
  <2>1. Configured
    BY <1>1, <1>6 DEF Preparatory
  <2> QED BY <1>6, <2>1, PlanningKeeps
<1>7. CASE \/ id = "plan.approve" /\ ApprovePlan(FALSE)
           \/ id = "plan.approve-amendment" /\ ApprovePlan(TRUE)
  <2>1. Configured /\ rec.planText # None
    BY <1>1, <1>2, <1>7 DEF Preparatory
  <2> QED BY <1>7, <2>1, ApprovePlanKeeps
<1>8. CASE id = "evidence.approval.revoke" /\ RevokeApproval
  <2>1. Configured
    BY <1>1, <1>8 DEF Preparatory
  <2> QED BY <1>8, <2>1, RevokeApprovalKeeps
<1>9. CASE id \in {"plan.abandon", "publication.abandon", "workspace.abandon"} /\ Abandon
  <2>1. Configured
    BY <1>1, <1>9 DEF Preparatory
  <2> QED BY <1>9, <2>1, AbandonKeeps
<1>10. CASE \/ id = "workspace.cut" /\ CutWorkspace
            \/ id \in {"workspace.cleanup", "workspace.reap"} /\ RemoveWorkspace
  <2>1. Configured
    BY <1>1, <1>10 DEF Preparatory
  <2> QED BY <1>10, <2>1, CutWorkspaceKeeps, RemoveWorkspaceKeeps
<1>11. CASE \/ /\ id \in {"workspace.sync", "workspace.activate"}
               /\ Assign(Active([rec EXCEPT !.workspace = "active"]))
            \/ id = "workspace.publish" /\ Assign(Active([rec EXCEPT !.workspace = "published"]))
  <2>1. Configured /\ rec.workspace \in Publishing
    BY <1>1, <1>11, SelectedWorkspaces DEF Preparatory, Publishing
  <2> QED BY <1>11, <2>1, WorkspaceKeeps
<1>12. CASE Catalog[id].evidence # "" /\ RecordGate(Catalog[id].evidence)
  <2>1. Catalog[id].evidence \in Gates /\ Configured
    BY <1>1, <1>12, CatalogNeedsObjective
  <2> QED BY <1>12, <2>1, RecordGateKeeps
<1>13. CASE id = "publication.preview" /\ Preview
  <2>1. Configured /\ repo.edits = 0
    BY <1>1, <1>2, <1>13 DEF Preparatory
  <2> QED BY <1>13, <2>1, PreviewKeeps
<1>14. CASE \/ id = "publication.execute" /\ Publish
            \/ id = "publication.observe" /\ ObservePublication
            \/ id = "publication.correct" /\ CorrectPublication
  <2>1. Configured /\ (id = "publication.execute" => rec.workspace \in Publishing)
    BY <1>1, <1>14, SelectedWorkspaces DEF Preparatory, Publishing
  <2> QED BY <1>14, <2>1, PublicationKeeps
<1> QED BY <1>3, <1>4, <1>5, <1>6, <1>7, <1>8, <1>9, <1>10, <1>11, <1>12, <1>13, <1>14 DEF Effect

LEMMA DisturbIsBounded ==
  ASSUME LifecycleInv, NEW kind, Disturb(kind)
  PROVE  /\ deviations' \in 0..MaxDeviations /\ deviations' # deviations
         /\ UNCHANGED <<rec, home, proved, granted, shelved>> /\ Carries(rec')
<1>1. Carries(rec)
  BY PhaseCarries, PhaseIsTyped DEF Engagements
<1>2. /\ deviations' \in 0..MaxDeviations /\ deviations' # deviations
      /\ UNCHANGED <<rec, home, proved, granted, shelved>>
  BY BoundsArePositive DEF Disturb, History, LifecycleInv, TypeOK
<1>3. rec' = rec
  BY <1>2
<1> QED BY <1>1, <1>2, <1>3

\* What happens to files that the delivery has written.
LEMMA LossesKeep ==
  ASSUME LifecycleInv, EditPlan \/ LoseEvidence
  PROVE  LifecycleInv'
<1>1. TypeOK
  BY DEF LifecycleInv
<1>2. CASE EditPlan
  <2>1. PICK text \in Texts : Write([Here EXCEPT !.plan = text])
    BY <1>2 DEF EditPlan
  <2> DEFINE a == [Here EXCEPT !.plan = text]
  <2>2. Configured /\ Disturb("plan") /\ UNCHANGED Plant /\ Here \in Artifacts
    BY <1>1, <1>2, HereIsTyped DEF EditPlan
  <2>3. a \in Artifacts /\ a.evidence = Here.evidence
    BY <2>2 DEF Artifacts
  <2> HIDE DEF a
  <2>4. Write(a)
    BY <2>1 DEF a
  <2> QED BY <2>2, <2>3, <2>4, DisturbIsBounded, WritingKeeps
<1>3. CASE LoseEvidence
  <2>1. PICK g \in Recorded : Write([Here EXCEPT !.evidence[g] = 0])
    BY <1>3 DEF LoseEvidence
  <2> DEFINE a == [Here EXCEPT !.evidence[g] = 0]
  <2>2. Disturb("evidence") /\ UNCHANGED Plant /\ g \in Gates
    BY <1>3, <2>1 DEF LoseEvidence, Recorded
  <2>3. Configured
    BY <2>1 DEF LifecycleInv, UnboundIsEmpty, Recorded
  <2>4. Here \in Artifacts /\ 0 \in 0..MaxRevision
    BY <1>1, <2>3, HereIsTyped, BoundsArePositive
  <2>5. a \in Artifacts /\ a.evidence = [Here.evidence EXCEPT ![g] = 0]
    BY <2>2, <2>4 DEF Artifacts
  <2>6. \A h \in Gates : a.evidence[h] \in {Here.evidence[h], 0}
    BY <2>4, <2>5 DEF Artifacts
  <2> HIDE DEF a
  <2>7. Write(a)
    BY <2>1 DEF a
  <2> QED BY <2>2, <2>3, <2>5, <2>6, <2>7, DisturbIsBounded, WritingKeeps
<1> QED BY <1>2, <1>3

LEMMA OutsideKeeps ==
  ASSUME LifecycleInv, Outside
  PROVE  LifecycleInv'
<1>1. TypeOK /\ repo \in Checkouts /\ config \in Policies /\ installed \in BOOLEAN
      /\ deviations \in 0..MaxDeviations
      /\ pr \in [state : {"none", "open", "merged", "closed"}, head : 0..MaxRevision]
  BY DEF LifecycleInv, TypeOK
<1>2. CASE EditPlan \/ LoseEvidence
  BY <1>2, LossesKeep
<1>3. CASE EditTree
  <2>1. repo' \in Checkouts
    BY <1>1, <1>3 DEF EditTree, Checkouts
  <2> QED BY <1>1, <1>3, <2>1, DisturbIsBounded, SameFilesKeep DEF EditTree
<1>4. CASE Commit
  <2>1. repo' \in Checkouts
    BY <1>1, <1>4, BoundsArePositive DEF Commit, Checkouts, Revisions
  <2> QED BY <1>1, <1>4, <2>1, DisturbIsBounded, SameFilesKeep DEF Commit
<1>5. CASE EditConfiguration
  BY <1>1, <1>5, DisturbIsBounded, SameFilesKeep DEF EditConfiguration
<1>6. CASE LoseRuntime
  BY <1>1, <1>6, DisturbIsBounded, SameFilesKeep DEF LoseRuntime
<1>7. CASE DisturbPublication
  <2>1. pr' \in [state : {"none", "open", "merged", "closed"}, head : 0..MaxRevision]
    BY <1>1, <1>7, HeadIsTyped DEF DisturbPublication
  <2> QED BY <1>1, <1>7, <2>1, DisturbIsBounded, SameFilesKeep DEF DisturbPublication
<1>8. CASE Merge
  <2>1. pr' \in [state : {"none", "open", "merged", "closed"}, head : 0..MaxRevision]
    BY <1>1, <1>8 DEF Merge
  <2>2. Carries(rec')
    BY <1>8, PhaseCarries, PhaseIsTyped DEF Merge, Engagements
  <2> QED BY <1>1, <1>8, <2>1, <2>2, SameFilesKeep DEF Merge, History
<1>9. CASE Restore
  <2>1. repo' \in Checkouts
    BY <1>1, <1>9 DEF Restore, Checkouts
  <2>2. Carries(rec')
    BY <1>9, PhaseCarries, PhaseIsTyped DEF Restore, Engagements
  <2> QED BY <1>1, <1>9, <2>1, <2>2, SameFilesKeep DEF Restore, History
<1> QED BY <1>2, <1>3, <1>4, <1>5, <1>6, <1>7, <1>8, <1>9 DEF Outside

LEMMA NothingKeeps ==
  ASSUME LifecycleInv, UNCHANGED vars
  PROVE  LifecycleInv'
<1>1. Carries(rec') /\ rec' = rec
  BY PhaseCarries, PhaseIsTyped DEF Engagements, vars
<1> QED BY <1>1, SameFilesKeep DEF LifecycleInv, TypeOK, vars

\* A step is a selected transition, with or without a name, or comes from outside.
Selected(objective, id) ==
  /\ id \in Admissible(Snapshot, objective) /\ Prepared(id, objective)
  /\ Effect(id, objective)

LEMMA StepsAreSelected ==
  ASSUME LifecycleInv, Next
  PROVE  \/ \E objective \in Objectives, id \in DOMAIN Catalog :
              Selected(objective, id) /\ deviations' \in 0..MaxDeviations
         \/ Outside
<1>1. CASE ContinueSome
  <2>1. PICK objective \in Objectives, authority \in Authorities :
          LET decision == Decide(objective, authority, NoTransition) IN
          /\ decision.kind = "PRESCRIBED" /\ Apply(decision.transition, objective)
          /\ UNCHANGED deviations
    BY <1>1 DEF ContinueSome, Continue
  <2> DEFINE id == Decide(objective, authority, NoTransition).transition
  <2>2. id \in Admissible(Snapshot, objective) /\ Prepared(id, objective)
    BY <2>1, SelectionIsAdmissible
  <2>3. Effect(id, objective) /\ deviations' \in 0..MaxDeviations
    BY <2>1 DEF Apply, LifecycleInv, TypeOK
  <2> QED BY <2>2, <2>3 DEF Selected, Admissible
<1>2. CASE \E objective \in Objectives, id \in Asked : Ask(objective, id)
  <2>1. PICK objective \in Objectives, id \in Asked : Ask(objective, id)
    BY <1>2
  <2>2. PICK authority \in Authorities : Decide(objective, authority, id).kind = "PRESCRIBED"
    BY <2>1 DEF Ask
  <2>3. id # NoTransition
    BY AskedAreDeclared
  <2>4. id \in Admissible(Snapshot, objective) /\ Prepared(id, objective)
    BY <2>2, <2>3, SelectionIsAdmissible
  <2>5. Effect(id, objective) /\ deviations' \in 0..MaxDeviations
    BY <2>1, BoundsArePositive DEF Ask, Apply, LifecycleInv, TypeOK
  <2> QED BY <2>4, <2>5 DEF Selected, Admissible
<1> QED BY <1>1, <1>2 DEF Next

LEMMA StepKeepsInv == LifecycleInv /\ [Next]_vars => LifecycleInv'
<1> SUFFICES ASSUME LifecycleInv, [Next]_vars
             PROVE  LifecycleInv'
  OBVIOUS
<1>1. CASE UNCHANGED vars
  BY <1>1, NothingKeeps
<1>2. CASE Outside
  BY <1>2, OutsideKeeps
<1>3. CASE \E objective \in Objectives, id \in DOMAIN Catalog :
             Selected(objective, id) /\ deviations' \in 0..MaxDeviations
  BY <1>3, EffectKeeps DEF Selected
<1> QED BY <1>1, <1>2, <1>3, StepsAreSelected

-----------------------------------------------------------------------------
(* The opening of a pull request. *)

LEMMA OnlyExecuteOpens ==
  ASSUME TypeOK, NEW objective, NEW id, Effect(id, objective),
         pr.state # "open", pr'.state = "open"
  PROVE  id = "publication.execute"
<1>1. ASSUME NEW state, Assign(state) PROVE FALSE
  BY <1>1 DEF Assign, Plant
<1>2. ASSUME NEW state, Hydrate(state) PROVE FALSE
  BY <1>2 DEF Hydrate
<1>3. ASSUME NEW text, NEW plan, NEW delivery, WritePlan(text, plan, delivery) PROVE FALSE
  BY <1>3 DEF WritePlan, Plant
<1>4. ASSUME NEW amended, ApprovePlan(amended) PROVE FALSE
  BY <1>4 DEF ApprovePlan, Plant
<1>5. ASSUME NEW g, RecordGate(g) PROVE FALSE
  BY <1>5 DEF RecordGate, Plant
<1>6. ~MutateConfiguration /\ ~RevokeApproval /\ ~Abandon /\ ~Preview
  BY DEF MutateConfiguration, RevokeApproval, Abandon, Preview, Plant
<1>7. ~CutWorkspace /\ ~RemoveWorkspace
  <2>1. CutWorkspace \/ RemoveWorkspace => pr' = [state |-> "none", head |-> 0]
    BY DEF CutWorkspace, RemoveWorkspace
  <2> QED BY <2>1
<1>8. ~CorrectPublication
  <2> SUFFICES ASSUME CorrectPublication PROVE FALSE
    OBVIOUS
  <2>1. pr'.state = pr.state
    BY DEF CorrectPublication, TypeOK
  <2> QED BY <2>1
<1>9. ~ObservePublication
  <2> SUFFICES ASSUME ObservePublication PROVE FALSE
    OBVIOUS
  <2> QED BY <1>1 DEF ObservePublication
<1>10. ~BindObjective(objective) /\ ~ValidatePlan /\ ~AdvanceSlice
  BY <1>1 DEF BindObjective, ValidatePlan, AdvanceSlice
<1> QED BY <1>1, <1>2, <1>3, <1>4, <1>5, <1>6, <1>7, <1>8, <1>9, <1>10 DEF Effect

LEMMA OutsideOpensNothing ==
  ASSUME TypeOK, Outside, pr.state # "open"
  PROVE  pr'.state # "open"
  BY DEF Outside, EditPlan, LoseEvidence, EditTree, Commit, EditConfiguration, LoseRuntime,
         DisturbPublication, Merge, Restore, Plant

\* The steps that a plan goes through before it is locked.
PlanSteps == {"plan.create", "plan.validate", "plan.approve", "plan.activate",
              "plan.approve-amendment"}

PlanBefore(id) ==
  CASE id = "plan.create" -> {"absent", "invalid", "stale"}
    [] id = "plan.validate" -> {"draft"}
    [] id = "plan.approve" -> {"valid"}
    [] id = "plan.activate" -> {"approved"}
    [] id = "plan.approve-amendment" -> {"amendment-required"}

PlanAfter(id) ==
  CASE id = "plan.create" -> {"draft"}
    [] id = "plan.validate" -> {"valid"}
    [] id = "plan.approve" -> {"approved"}
    [] id = "plan.activate" -> {"locked"}
    [] id = "plan.approve-amendment" -> {"approved"}

IsPlanStep(t, id) ==
  /\ t.selection = "PROGRAM_PROGRESS" /\ t.priority \in 0..50
  /\ "ACTIVE" \in t.from
  /\ id \in {"plan.create", "plan.validate"} => "OBSERVED" \in t.from
  /\ t.when \subseteq {[plan |-> PlanBefore(id)]} \cup Unsettled \cup Nonterminal
                       \cup Steady \cup PolicyKnown
  /\ [plan |-> PlanAfter(id)] \in t.then
  /\ ToOpen \subseteq t.targets /\ (id # "plan.activate" => t.targets = Targets)
  /\ ~t.visual /\ ~t.rechecks /\ ~t.binds /\ t.evidence = ""

LEMMA PlanTransitionsAreSteps == ASSUME NEW id \in PlanSteps PROVE IsPlanStep(PlanTransition(id), id)
<1>1. ToOpen \subseteq Targets /\ ToOpen \subseteq ToImplement
  BY DEF ToOpen, Targets, ToImplement
<1>2. /\ PlanTransition(id).selection = "PROGRAM_PROGRESS"
      /\ "ACTIVE" \in PlanTransition(id).from
      /\ id \in {"plan.create", "plan.validate"} => "OBSERVED" \in PlanTransition(id).from
  BY DEF PlanSteps, PlanTransition, Progress, Declared
<1>3. PlanTransition(id).targets = IF id = "plan.activate" THEN ToImplement ELSE Targets
  BY DEF PlanSteps, PlanTransition, Progress, Declared
<1>4. PlanTransition(id).priority \in 0..50
  <2>1. PlanTransition(id).priority \in {35, 40, 45, 46, 50}
    BY DEF PlanSteps, PlanTransition, Progress, Declared
  <2> QED BY <2>1
<1>5. PlanTransition(id).when \subseteq {[plan |-> PlanBefore(id)]} \cup Unsettled \cup Nonterminal
                                         \cup Steady \cup PolicyKnown
  BY DEF PlanSteps, PlanTransition, Progress, Declared, PlanBefore
<1>6. [plan |-> PlanAfter(id)] \in PlanTransition(id).then
  BY DEF PlanSteps, PlanTransition, Progress, Declared, PlanAfter
<1>7. /\ ~PlanTransition(id).visual /\ ~PlanTransition(id).rechecks /\ ~PlanTransition(id).binds
      /\ PlanTransition(id).evidence = ""
  BY DEF PlanSteps, PlanTransition, Progress, Declared
<1>8. ToOpen \subseteq PlanTransition(id).targets
      /\ (id # "plan.activate" => PlanTransition(id).targets = Targets)
  BY <1>1, <1>3
<1> QED BY <1>2, <1>4, <1>5, <1>6, <1>7, <1>8, Zenon DEF IsPlanStep

LEMMA CatalogPlanSteps ==
  ASSUME NEW id \in PlanSteps
  PROVE  /\ id \in DOMAIN Catalog /\ Catalog[id] = PlanTransition(id)
         /\ IsPlanStep(Catalog[id], id)
<1>1. id \in DOMAIN Catalog /\ Catalog[id] = PlanTransition(id)
  <2>1. id \in PlanIds
    BY DEF PlanIds, PlanSteps
  <2>2. id \notin CoreIds /\ id \notin WorkspaceIds /\ id \notin GateIds /\ id \notin PublicationIds
    BY DEF PlanSteps, CoreIds, WorkspaceIds, GateIds, PublicationIds
  <2>3. id \in DOMAIN Catalog
    BY <2>1 DEF Catalog
  <2> QED BY <2>2, <2>3, CatalogEntry
<1>2. IsPlanStep(PlanTransition(id), id)
  BY PlanTransitionsAreSteps
<1> QED BY <1>1, <1>2, Zenon

LEMMA CatalogExecuteIs ==
  LET t == Catalog["publication.execute"] IN
  /\ t.selection = "PROGRAM_PROGRESS" /\ t.priority = 76
  /\ t.targets = ToOpen /\ t.scope = "bound-exact"
<1>1. Catalog["publication.execute"] = PublicationTransition("publication.execute")
  BY DEF Catalog, CoreIds, PlanIds, WorkspaceIds, GateIds, PublicationIds
<1>2. LET t == PublicationTransition("publication.execute") IN
      t.selection = "PROGRAM_PROGRESS" /\ t.priority = 76
  BY DEF PublicationTransition, Progress, Declared
<1>3. LET t == PublicationTransition("publication.execute") IN
      t.targets = ToOpen /\ t.scope = "bound-exact"
  BY DEF PublicationTransition, Progress, Declared
<1> QED BY <1>1, <1>2, <1>3

\* What can be worked on: every plan that is not locked has a step of its own
\* that is admissible and not done.
Workable(objective) ==
  /\ Snapshot.terminal = "nonterminal" /\ Satisfies(Steady, Snapshot)
  /\ Snapshot.objective = "known" => Snapshot.bound = objective

LEMMA PlanStepsAreAdmissible ==
  ASSUME NEW objective, Workable(objective), NEW id \in PlanSteps,
         Snapshot.phase \in Catalog[id].from, objective.target \in Catalog[id].targets,
         Snapshot.plan \in PlanBefore(id)
  PROVE  /\ id \in Admissible(Snapshot, objective)
         /\ ~TargetAlreadySatisfied(Catalog[id], Snapshot, objective)
<1>1. SourceMatches(Catalog[id], Snapshot)
  <2>1. Snapshot.policy = "known"
    BY DEF Snapshot
  <2>2. \A condition \in {[plan |-> PlanBefore(id)]}
                             \cup Unsettled \cup Nonterminal \cup PolicyKnown :
          \A facet \in DOMAIN condition : Snapshot[facet] \in condition[facet]
    BY <2>1 DEF Workable, Unsettled, Nonterminal, PolicyKnown
  <2>3. \A condition \in Steady :
          \A facet \in DOMAIN condition : Snapshot[facet] \in condition[facet]
    BY DEF Workable, Satisfies
  <2>4. \A condition \in Catalog[id].when :
          \A facet \in DOMAIN condition : Snapshot[facet] \in condition[facet]
    BY <2>2, <2>3, CatalogPlanSteps DEF IsPlanStep
  <2> QED BY <2>4 DEF SourceMatches, Satisfies
<1>2. SupportsObjective(Catalog[id], objective)
  BY DEF SupportsObjective
<1>3. PreservesBinding(Catalog[id], Snapshot, objective) /\ PolicyAllows(Catalog[id], Snapshot)
  BY CatalogPlanSteps DEF PreservesBinding, PolicyAllows, Workable, IsPlanStep
<1>4. ~TargetMatches(Catalog[id], Snapshot)
  <2>1. Snapshot.plan \notin PlanAfter(id)
    BY DEF PlanBefore, PlanAfter, PlanSteps
  <2>2. [plan |-> PlanAfter(id)] \in Catalog[id].then
    BY CatalogPlanSteps DEF IsPlanStep
  <2> QED BY <2>1, <2>2 DEF TargetMatches, Satisfies
<1>5. ~TargetAlreadySatisfied(Catalog[id], Snapshot, objective)
  BY <1>4, CatalogPlanSteps DEF TargetAlreadySatisfied, IsPlanStep
<1> QED BY <1>1, <1>2, <1>3, <1>5, CatalogPlanSteps DEF Admissible, IsPlanStep

\* Such a step comes before whatever the program does later.
LEMMA PlanComesFirst ==
  ASSUME NEW objective, NEW authority, Workable(objective),
         Resolve(Snapshot, objective, authority, NoTransition).kind = "PRESCRIBED",
         NEW id, id = Resolve(Snapshot, objective, authority, NoTransition).transition,
         Catalog[id].selection = "PROGRAM_PROGRESS",
         Catalog[id].priority \in 51..100,
         NEW step \in PlanSteps, Snapshot.phase \in Catalog[step].from,
         objective.target \in Catalog[step].targets
  PROVE  Snapshot.plan \notin PlanBefore(step)
<1> SUFFICES ASSUME Snapshot.plan \in PlanBefore(step)
             PROVE  FALSE
  OBVIOUS
<1>1. /\ step \in Admissible(Snapshot, objective)
      /\ ~TargetAlreadySatisfied(Catalog[step], Snapshot, objective)
  BY PlanStepsAreAdmissible
<1>2. ImplicitlySelectable(Catalog[step])
  BY CatalogPlanSteps DEF ImplicitlySelectable, IsPlanStep
<1>3. \/ Rank(Catalog[id].selection) < Rank(Catalog[step].selection)
      \/ Catalog[id].priority <= Catalog[step].priority
  BY <1>1, <1>2, NothingComesBefore
<1>4. Catalog[id].selection = Catalog[step].selection /\ Rank(Catalog[id].selection) = 5
  BY CatalogPlanSteps DEF Rank, IsPlanStep
<1>5. Catalog[step].priority \in 0..50
  BY CatalogPlanSteps DEF IsPlanStep
<1> QED BY <1>3, <1>4, <1>5

LEMMA ExecuteIsWorkable ==
  ASSUME NEW objective, "publication.execute" \in Admissible(Snapshot, objective)
  PROVE  Workable(objective) /\ Snapshot.phase = "ACTIVE" /\ objective.target \in ToOpen
<1>1. /\ Snapshot.phase = "ACTIVE"
      /\ \A condition \in {[publication |-> {"candidate"}]} \cup Publishable \cup Nonterminal
                             \cup Steady :
           \A facet \in DOMAIN condition : Snapshot[facet] \in condition[facet]
      /\ objective.target \in ToOpen
  BY CatalogExecute, CatalogExecuteIs
     DEF Admissible, SourceMatches, Satisfies, SupportsObjective, ToOpen
<1>2. ~Catalog["publication.execute"].binds
  <2>1. Catalog["publication.execute"] = PublicationTransition("publication.execute")
    BY DEF Catalog, CoreIds, PlanIds, WorkspaceIds, GateIds, PublicationIds
  <2> QED BY <2>1 DEF PublicationTransition, Progress, Declared
<1>3. Snapshot.objective = "known" => Snapshot.bound = objective
  BY <1>2 DEF Admissible, PreservesBinding
<1>4. Snapshot.terminal \in {"nonterminal"}
  <2>1. [terminal |-> {"nonterminal"}] \in Nonterminal
    BY DEF Nonterminal
  <2> QED BY <1>1, <2>1
<1> QED BY <1>1, <1>3, <1>4 DEF Workable, Satisfies

LEMMA ObservedPlanIsTyped == ASSUME TypeOK PROVE ObservedPlan \in Plans \cup {"stale"}
  BY DEF ObservedPlan, TypeOK, States

LEMMA ExecutesLockedPlan ==
  ASSUME TypeOK, NEW objective, NEW authority,
         Resolve(Snapshot, objective, authority, NoTransition).kind = "PRESCRIBED",
         Resolve(Snapshot, objective, authority, NoTransition).transition = "publication.execute"
  PROVE  ObservedPlan = "locked"
<1>1. "publication.execute" \in Admissible(Snapshot, objective)
  BY ResolvedIsAdmissible
<1>2. Workable(objective) /\ Snapshot.phase = "ACTIVE" /\ objective.target \in ToOpen
  BY <1>1, ExecuteIsWorkable
<1>3. /\ Catalog["publication.execute"].selection = "PROGRAM_PROGRESS"
      /\ Catalog["publication.execute"].priority \in 51..100
  BY CatalogExecuteIs
<1>4. ASSUME NEW step \in PlanSteps
      PROVE  Snapshot.plan \notin PlanBefore(step)
  <2>1. Snapshot.phase \in Catalog[step].from /\ objective.target \in Catalog[step].targets
    BY <1>2, CatalogPlanSteps DEF IsPlanStep
  <2> QED BY <1>2, <1>3, <2>1, PlanComesFirst
<1>5. Snapshot.plan # "locked" => \E step \in PlanSteps : Snapshot.plan \in PlanBefore(step)
  BY ObservedFacets, ObservedPlanIsTyped DEF Plans, PlanSteps, PlanBefore
<1> QED BY <1>4, <1>5, ObservedFacets

LEMMA ExecutedIsProven ==
  ASSUME LifecycleInv, NEW objective, "publication.execute" \in Admissible(Snapshot, objective)
  PROVE  /\ config = rec.rules /\ rec.publication = "candidate" /\ Here.preview = Fingerprint
         /\ \A g \in RequiredGates(rec.rules) :
              /\ g \in Gates /\ g \notin shelved
              /\ proved[g] # None /\ proved[g].content.head = repo.head
<1>1. /\ rec.workspace \in Publishing /\ ObservedVerification = "current"
      /\ ObservedPublication = "candidate" /\ ObservedConfiguration = "verified"
  BY SelectedWorkspaces DEF Publishing
<1>2. config = rec.rules
  BY <1>1 DEF ObservedConfiguration
<1>3. rec.publication = "candidate" /\ Here.preview = Fingerprint
  BY <1>1 DEF ObservedPublication
<1>4. ASSUME NEW g \in RequiredGates(rec.rules)
      PROVE  /\ g \in Gates /\ g \notin shelved
             /\ proved[g] # None /\ proved[g].content.head = repo.head
  <2>1. g \in Gates
    BY DEF RequiredGates, Gates
  <2>2. Intact(g) /\ rec.gates[g] = repo.head /\ rec.gates[g] # 0
    BY <1>1, CurrentIsRecorded
  <2>3. g \notin shelved
    BY <1>1, <2>2 DEF LifecycleInv, ShelvedIsGone, Publishing
  <2> QED BY <2>1, <2>2, <2>3 DEF LifecycleInv, GatesAreProven
<1> QED BY <1>2, <1>3, <1>4

LEMMA OpeningsAreProvenAgain ==
  ASSUME LifecycleInv, [Next]_vars, pr.state # "open", pr'.state = "open"
  PROVE  shelved \cap RequiredGates(rec.rules) = {}
<1>1. TypeOK
  BY DEF LifecycleInv
<1>2. ~UNCHANGED vars /\ ~Outside
  BY <1>1, OutsideOpensNothing DEF vars
<1>3. PICK objective \in Objectives, id \in DOMAIN Catalog : Selected(objective, id)
  BY <1>2, StepsAreSelected
<1>4. id = "publication.execute"
  BY <1>1, <1>3, OnlyExecuteOpens DEF Selected
<1> QED BY <1>3, <1>4, ExecutedIsProven DEF Selected

LEMMA ContinuationsAreProven ==
  ASSUME LifecycleInv, [Next]_vars, pr.state # "open", pr'.state = "open",
         deviations' = deviations
  PROVE  /\ ObservedPlan = "locked" /\ repo.edits = 0
         /\ \A g \in RequiredGates(config) :
              proved[g] # None /\ proved[g].content.head = repo.head
<1>1. TypeOK
  BY DEF LifecycleInv
<1>2. ~UNCHANGED vars /\ ~Outside
  BY <1>1, OutsideOpensNothing DEF vars
<1>3. ~\E objective \in Objectives, id \in Asked : Ask(objective, id)
  BY <1>1 DEF Ask, TypeOK
<1>4. PICK objective \in Objectives, authority \in Authorities :
        LET decision == Decide(objective, authority, NoTransition) IN
        decision.kind = "PRESCRIBED" /\ Apply(decision.transition, objective)
  BY <1>2, <1>3 DEF Next, ContinueSome, Continue
<1> DEFINE id == Decide(objective, authority, NoTransition).transition
<1>5. id \in Admissible(Snapshot, objective) /\ Prepared(id, objective) /\ Effect(id, objective)
  BY <1>4, SelectionIsAdmissible DEF Apply
<1>6. id = "publication.execute"
  BY <1>1, <1>5, OnlyExecuteOpens
<1>7. ObservedPlan = "locked"
  BY <1>1, <1>4, <1>6, DecidedIsResolved, ExecutesLockedPlan
<1>8. repo.edits = 0
  <2>1. Here.preview = Fingerprint /\ rec.preview = Fingerprint
    BY <1>5, <1>6 DEF Prepared, PreparedUnclean
  <2>2. Fingerprint # None
    BY <1>1, FingerprintIsTyped, NoneIsNothing
  <2>3. Fingerprint \in Revisions \X {FALSE}
    BY <2>1, <2>2 DEF LifecycleInv, PreviewsAreClean
  <2>4. (repo.edits > 0) = FALSE
    BY <2>3 DEF Fingerprint
  <2> QED BY <1>1, <2>4 DEF TypeOK, Checkouts
<1>9. /\ config = rec.rules
      /\ \A g \in RequiredGates(rec.rules) : proved[g] # None /\ proved[g].content.head = repo.head
  BY <1>5, <1>6, ExecutedIsProven
<1> QED BY <1>7, <1>8, <1>9

-----------------------------------------------------------------------------
(* The publication, as far as its effect depends on it. *)

UnboundHasNoWorkspace == ~Configured => rec.workspace = "absent"

\* A preview that is in the worktree is the one that was recorded.
CandidatesArePreviewed ==
  rec.workspace \in Publishing /\ rec.publication = "candidate"
    => Here.preview \in {None, rec.preview}

\* A pull request is not opened twice: what is previewed anew has none open.
OpenIsPublished ==
  rec.workspace \in Publishing /\ pr.state = "open" => rec.publication \notin {"none", "candidate"}

PublicationInv == UnboundHasNoWorkspace /\ CandidatesArePreviewed /\ OpenIsPublished

LEMMA PublicationGoesOn ==
  ASSUME PublicationInv, rec'.objective = rec.objective,
         ~Configured => rec'.workspace = rec.workspace,
         rec'.workspace \in Publishing =>
           /\ rec.workspace \in Publishing
           /\ \/ rec'.publication \notin {"none", "candidate"}
              \/ /\ rec'.publication = rec.publication /\ rec'.preview = rec.preview
                 /\ Here'.preview = Here.preview
                 /\ pr'.state = "open" => pr.state = "open"
  PROVE  PublicationInv'
<1>1. UnboundHasNoWorkspace'
  BY DEF PublicationInv, UnboundHasNoWorkspace, Configured
<1>2. CandidatesArePreviewed'
  BY DEF PublicationInv, CandidatesArePreviewed
<1>3. OpenIsPublished'
  BY DEF PublicationInv, OpenIsPublished
<1> QED BY <1>1, <1>2, <1>3 DEF PublicationInv

\* The durable state keeps what the publication depends on.
Stays(state) ==
  /\ DOMAIN state = DOMAIN rec
  /\ state.objective = rec.objective /\ state.workspace = rec.workspace
  /\ state.publication = rec.publication /\ state.preview = rec.preview

LEMMA StayingKeepsPublication ==
  ASSUME PublicationInv, Stays(rec'), Here'.preview = Here.preview,
         pr'.state = "open" => pr.state = "open"
  PROVE  PublicationInv'
  BY PublicationGoesOn DEF Stays

LEMMA StayingHere ==
  ASSUME rec'.objective = rec.objective, files' = files
  PROVE  Here' = Here
  BY DEF Here, Configured

LEMMA WrittenHere ==
  ASSUME TypeOK, Configured, rec'.objective = rec.objective, NEW artifacts, Write(artifacts)
  PROVE  Here' = artifacts
<1>1. rec.objective.delivery \in Deliveries /\ files \in [Deliveries -> Artifacts]
  BY HereIsTyped DEF TypeOK
<1>2. files'[rec.objective.delivery] = artifacts
  BY <1>1 DEF Write
<1> QED BY <1>2 DEF Here, Configured

LEMMA StaysThrough ==
  ASSUME TypeOK, NEW s, Stays(s)
  PROVE  Stays(Active(s)) /\ Stays(Live(s)) /\ Stays(Established(s))
<1>1. {"objective", "workspace", "publication", "preview"} \subseteq DOMAIN s
  BY DEF Stays, TypeOK, States
<1> QED BY <1>1 DEF Stays, Active, Live, Established

LEMMA AssignedStays ==
  ASSUME PublicationInv, NEW state, Stays(state), Assign(state)
  PROVE  PublicationInv'
<1>1. rec' = state /\ files' = files /\ pr' = pr
  BY DEF Assign, Plant
<1> QED BY <1>1, StayingHere, StayingKeepsPublication DEF Stays

LEMMA WrittenStays ==
  ASSUME PublicationInv, TypeOK, Configured, Stays(rec'), pr' = pr,
         NEW artifacts, Write(artifacts), artifacts.preview = Here.preview
  PROVE  PublicationInv'
  BY WrittenHere, StayingKeepsPublication DEF Stays

LEMMA StateStays ==
  ASSUME TypeOK
  PROVE  /\ \A phase, engagement : Stays([rec EXCEPT !.phase = phase, !.engagement = engagement])
         /\ \A phase : Stays([rec EXCEPT !.phase = phase]) /\ Stays(rec)
         /\ \A phase, rules : Stays([rec EXCEPT !.rules = rules, !.phase = phase])
         /\ \A plan, text : Stays([rec EXCEPT !.plan = plan, !.planText = text])
         /\ \A plan, delivery : Stays([rec EXCEPT !.plan = plan, !.delivery = delivery])
         /\ \A plan, delivery, text, approval :
              Stays([rec EXCEPT !.plan = plan, !.delivery = delivery, !.planText = text,
                                !.approval = approval])
         /\ \A plan, delivery, approval :
              Stays([rec EXCEPT !.plan = plan, !.delivery = delivery, !.approval = approval])
         /\ \A plan, delivery, phase, terminal :
              Stays([rec EXCEPT !.plan = plan, !.delivery = delivery, !.phase = phase,
                                !.terminal = terminal])
         /\ \A plan, phase, terminal, approval :
              Stays([rec EXCEPT !.plan = plan, !.phase = phase, !.terminal = terminal,
                                !.approval = approval])
         /\ \A delivery, revision, worktree :
              Stays([rec EXCEPT !.delivery = delivery, !.revision = revision,
                                !.worktree = worktree])
<1>1. {"objective", "workspace", "publication", "preview"} \subseteq DOMAIN rec
  BY DEF TypeOK, States
<1> QED BY <1>1 DEF Stays

LEMMA CatalogPreview ==
  Catalog["publication.preview"].when =
    {[publication |-> {"none"}, plan |-> {"locked"}]}
      \cup Publishable \cup Nonterminal \cup Steady
<1>1. Catalog["publication.preview"] = PublicationTransition("publication.preview")
  BY DEF Catalog, CoreIds, PlanIds, WorkspaceIds, GateIds, PublicationIds
<1> QED BY <1>1 DEF PublicationTransition, Progress, Declared

LEMMA SelectedPreview ==
  ASSUME NEW objective, "publication.preview" \in Admissible(Snapshot, objective)
  PROVE  rec.workspace \in Publishing /\ ObservedPublication = "none"
<1>1. \A condition \in Catalog["publication.preview"].when :
        \A facet \in DOMAIN condition : Snapshot[facet] \in condition[facet]
  BY DEF Admissible, SourceMatches, Satisfies
<1>2. /\ [publication |-> {"none"}, plan |-> {"locked"}] \in Catalog["publication.preview"].when
      /\ [verification |-> {"current"}, workspace |-> {"active", "published"}]
           \in Catalog["publication.preview"].when
  BY CatalogPreview DEF Publishable
<1>3. Snapshot.publication \in {"none"} /\ Snapshot.workspace \in {"active", "published"}
  BY <1>1, <1>2
<1> QED BY <1>3, ObservedFacets DEF Publishing

LEMMA CutKeepsPublication ==
  ASSUME TypeOK, PublicationInv, Configured, CutWorkspace \/ RemoveWorkspace
  PROVE  PublicationInv'
<1>1. DOMAIN rec = DOMAIN [rec EXCEPT !.workspace = "cut"]
      /\ {"objective", "workspace", "publication", "preview"} \subseteq DOMAIN rec
  BY DEF TypeOK, States
<1>2. pr'.state = "none"
  <2>1. pr' = [state |-> "none", head |-> 0]
    BY DEF CutWorkspace, RemoveWorkspace
  <2> QED BY <2>1
<1>3. CASE CutWorkspace
  <2> DEFINE s == [rec EXCEPT !.workspace = "cut", !.revision = 0, !.worktree = None,
                              !.verification = "unverified"]
             d == rec.objective.delivery
             moved == [NoFiles EXCEPT
                         !.plan = IF rec.planText = None THEN None ELSE files[d].plan,
                         !.approval = IF rec.planText = None THEN None ELSE files[d].approval]
  <2>1. rec' = Active(s) /\ files' = [x \in Deliveries |-> IF x = d THEN moved ELSE NoFiles]
    BY <1>3 DEF CutWorkspace
  <2>2. s.objective = rec.objective /\ DOMAIN s = DOMAIN rec
    BY <1>1
  <2>3. moved.preview = None
    BY DEF NoFiles
  <2> HIDE DEF s, moved
  <2>4. rec'.objective = rec.objective
    BY <1>1, <2>1, <2>2 DEF Active
  <2>5. Configured' /\ Here'.preview = None
    BY <2>1, <2>3, <2>4, HereIsTyped DEF Configured, Here
  <2> QED BY <1>2, <2>5
          DEF PublicationInv, UnboundHasNoWorkspace, CandidatesArePreviewed, OpenIsPublished
<1>4. CASE RemoveWorkspace
  <2>1. rec'.workspace = "absent"
    BY <1>1, <1>4 DEF RemoveWorkspace
  <2> QED BY <2>1
          DEF PublicationInv, UnboundHasNoWorkspace, CandidatesArePreviewed, OpenIsPublished,
              Publishing
<1> QED BY <1>3, <1>4

LEMMA BindKeepsPublication ==
  ASSUME TypeOK, PublicationInv, NEW objective \in Objectives, BindObjective(objective)
  PROVE  PublicationInv'
<1> DEFINE base == IF Rebinds(objective) THEN ResetDelivery(rec) ELSE rec
           phase == IF rec.phase = "ACTIVE" /\ ~Rebinds(objective) THEN "ACTIVE" ELSE "OBSERVED"
           s == [base EXCEPT !.objective = objective, !.terminal = "nonterminal", !.phase = phase]
<1>1. rec \in States
  BY DEF TypeOK
<1>2. base \in States /\ (Rebinds(objective) => base.workspace = "absent")
  BY <1>1, ResetDeliveryIs
<1>3. rec' = s /\ UNCHANGED <<files, pr>>
  BY DEF BindObjective, Bound, Assign, Plant
<1> HIDE DEF base, phase
<1>4. /\ s.objective = objective /\ s.workspace = base.workspace
      /\ s.publication = base.publication /\ s.preview = base.preview
  BY <1>2 DEF States
<1> HIDE DEF s
<1>5. UnboundHasNoWorkspace'
  BY <1>3, <1>4, NoneIsNothing DEF UnboundHasNoWorkspace, Configured
<1>6. CASE Rebinds(objective) \/ ~Configured
  <2>1. rec'.workspace = "absent"
    BY <1>2, <1>3, <1>4, <1>6 DEF base, PublicationInv, UnboundHasNoWorkspace, Rebinds
  <2> QED BY <1>5, <2>1 DEF PublicationInv, CandidatesArePreviewed, OpenIsPublished, Publishing
<1>7. CASE ~Rebinds(objective) /\ Configured
  <2>1. base = rec /\ objective.delivery = rec.objective.delivery
    BY <1>7 DEF base, Rebinds
  <2>2. Here' = Here
    BY <1>3, <1>4, <1>7, <2>1, NoneIsNothing DEF Here, Configured
  <2> QED BY <1>3, <1>4, <1>5, <2>1, <2>2
          DEF PublicationInv, CandidatesArePreviewed, OpenIsPublished
<1> QED BY <1>6, <1>7

LEMMA PublishingKeepsPublication ==
  ASSUME TypeOK, PublicationInv, Configured,
         \/ Preview /\ rec.workspace \in Publishing /\ ObservedPublication = "none"
         \/ Publish /\ rec.workspace \in Publishing
         \/ ObservePublication
         \/ CorrectPublication
  PROVE  PublicationInv'
<1>1. {"objective", "workspace", "publication", "preview"} \subseteq DOMAIN rec
  BY DEF TypeOK, States
<1>2. CASE Preview /\ rec.workspace \in Publishing /\ ObservedPublication = "none"
  <2> DEFINE s == [rec EXCEPT !.publication = "candidate", !.preview = Fingerprint]
             a == [Here EXCEPT !.preview = Fingerprint]
  <2>1. rec' = Active(s) /\ Write(a) /\ pr' = pr
    BY <1>2 DEF Preview, Plant
  <2>2. s.objective = rec.objective /\ s.preview = Fingerprint /\ DOMAIN s = DOMAIN rec
        /\ s.workspace = rec.workspace
    BY <1>1
  <2>3. a.preview = Fingerprint
    BY HereIsTyped DEF Artifacts
  <2> HIDE DEF s, a
  <2>4. /\ rec'.objective = rec.objective /\ rec'.preview = Fingerprint
        /\ rec'.workspace = rec.workspace
    BY <1>1, <2>1, <2>2 DEF Active
  <2>5. Here'.preview = Fingerprint /\ Configured'
    BY <2>1, <2>3, <2>4, WrittenHere DEF Configured
  <2>6. pr.state # "open"
    <3>1. rec.publication \in {"none", "candidate"}
      BY <1>2 DEF ObservedPublication
    <3> QED BY <1>2, <3>1 DEF PublicationInv, OpenIsPublished
  <2> QED BY <2>1, <2>4, <2>5, <2>6
          DEF PublicationInv, UnboundHasNoWorkspace, CandidatesArePreviewed, OpenIsPublished
<1>3. CASE Publish /\ rec.workspace \in Publishing
  <2> DEFINE s == [rec EXCEPT !.publication = "published-not-landed", !.workspace = "published",
                              !.delivery = "published"]
  <2>1. s.objective = rec.objective /\ s.publication = "published-not-landed"
        /\ DOMAIN s = DOMAIN rec
    BY <1>1
  <2>2. rec' = Active(s)
    BY <1>3 DEF Publish
  <2> HIDE DEF s
  <2>3. rec'.objective = rec.objective /\ rec'.publication = "published-not-landed"
    BY <1>1, <2>1, <2>2 DEF Active
  <2> QED BY <1>3, <2>3, PublicationGoesOn
<1>4. CASE ObservePublication
  <2> DEFINE told == [rec EXCEPT !.publication = ProviderState]
             landed == [told EXCEPT !.workspace = "landed"]
  <2>1. ProviderState \notin {"none", "candidate"}
    BY DEF ProviderState, TypeOK
  <2>2. /\ told.objective = rec.objective /\ told.workspace = rec.workspace
        /\ told.publication = ProviderState /\ DOMAIN told = DOMAIN rec
    BY <1>1
  <2>3. \E state \in {[told EXCEPT !.phase = "UNRESOLVED"], [told EXCEPT !.phase = "FRONTIER"],
                      Established(told), Established(landed), Active(told)} : Assign(state)
    BY <1>4 DEF ObservePublication
  <2> HIDE DEF told
  <2>4. /\ landed.objective = rec.objective /\ landed.workspace = "landed"
        /\ landed.publication = ProviderState /\ DOMAIN landed = DOMAIN rec
    BY <1>1, <2>2
  <2> HIDE DEF landed
  <2>5. \A state \in {[told EXCEPT !.phase = "UNRESOLVED"], [told EXCEPT !.phase = "FRONTIER"],
                      Established(told), Established(landed), Active(told)} :
          /\ state.objective = rec.objective /\ state.publication = ProviderState
          /\ state.workspace \in {rec.workspace, "landed"}
    BY <1>1, <2>2, <2>4 DEF Active, Established
  <2>6. /\ rec'.objective = rec.objective /\ rec'.publication = ProviderState
        /\ rec'.workspace \in {rec.workspace, "landed"}
    BY <2>3, <2>5 DEF Assign
  <2> QED BY <2>1, <2>6, PublicationGoesOn DEF Publishing
<1>5. CASE CorrectPublication
  <2> DEFINE s == [rec EXCEPT !.publication = "published-not-landed", !.delivery = "published"]
  <2>1. s.objective = rec.objective /\ s.publication = "published-not-landed"
        /\ s.workspace = rec.workspace /\ DOMAIN s = DOMAIN rec
    BY <1>1
  <2>2. rec' = Live(s)
    BY <1>5 DEF CorrectPublication
  <2> HIDE DEF s
  <2>3. rec'.objective = rec.objective /\ rec'.publication = "published-not-landed"
        /\ rec'.workspace = rec.workspace
    BY <1>1, <2>1, <2>2 DEF Live
  <2> QED BY <2>3, PublicationGoesOn
<1> QED BY <1>2, <1>3, <1>4, <1>5

LEMMA EffectKeepsPublication ==
  ASSUME LifecycleInv, PublicationInv, NEW objective \in Objectives,
         NEW id \in Admissible(Snapshot, objective), Effect(id, objective)
  PROVE  PublicationInv'
<1>1. TypeOK /\ id \in DOMAIN Catalog /\ (id \notin Preparatory => Configured)
  BY SelectedNeedsObjective DEF Admissible, LifecycleInv
<1>2. Configured => Here \in Artifacts
  BY <1>1, HereIsTyped
<1>3. CASE \/ Assign([rec EXCEPT !.phase = "OBSERVED", !.engagement = "command"])
           \/ Assign([rec EXCEPT !.phase = "DORMANT", !.engagement = "dormant"])
  BY <1>1, <1>3, StateStays, AssignedStays
<1>4. CASE Hydrate([rec EXCEPT !.phase = SettledPhase(rec)]) \/ Hydrate(rec) \/ MutateConfiguration
  <2>1. files' = files /\ pr' = pr
    BY <1>4 DEF Hydrate, MutateConfiguration
  <2>2. /\ Stays([rec EXCEPT !.phase = SettledPhase(rec)]) /\ Stays(rec)
        /\ \A rules : Stays([rec EXCEPT !.rules = rules, !.phase = SettledPhase(rec)])
    BY <1>1, StateStays
  <2>3. \/ rec' = [rec EXCEPT !.phase = SettledPhase(rec)]
        \/ rec' = rec
        \/ \E rules : rec' = [rec EXCEPT !.rules = rules, !.phase = SettledPhase(rec)]
    BY <1>4 DEF Hydrate, MutateConfiguration
  <2>4. Stays(rec')
    BY <2>2, <2>3
  <2> QED BY <2>1, <2>4, StayingHere, StayingKeepsPublication DEF Stays
<1>5. CASE BindObjective(objective)
  BY <1>1, <1>5, BindKeepsPublication
<1>6. ASSUME Configured, NEW text, NEW plan, NEW delivery, WritePlan(text, plan, delivery)
      PROVE  PublicationInv'
  <2> DEFINE s == [rec EXCEPT !.plan = plan, !.delivery = delivery, !.planText = text,
                              !.approval = None]
             a == [Here EXCEPT !.plan = text, !.approval = None]
  <2>1. Stays(s) /\ a.preview = Here.preview
    BY <1>1, <1>2, <1>6, StateStays DEF Artifacts
  <2>2. rec' = Live(s) /\ Write(a) /\ pr' = pr
    BY <1>6 DEF WritePlan, Plant
  <2> HIDE DEF s, a
  <2>3. Stays(rec')
    BY <1>1, <2>1, <2>2, StaysThrough
  <2> QED BY <1>1, <1>6, <2>1, <2>2, <2>3, WrittenStays
<1>7. CASE Configured /\ ValidatePlan
  <2>1. Stays(Live([rec EXCEPT !.plan = "valid", !.planText = Here.plan]))
    BY <1>1, StateStays, StaysThrough
  <2> QED BY <1>7, <2>1, AssignedStays DEF ValidatePlan
<1>8. CASE Assign(Active([rec EXCEPT !.plan = "locked", !.delivery = "active"]))
  <2>1. Stays(Active([rec EXCEPT !.plan = "locked", !.delivery = "active"]))
    BY <1>1, StateStays, StaysThrough
  <2> QED BY <1>8, <2>1, AssignedStays
<1>9. CASE Assign([rec EXCEPT !.plan = "invalid", !.delivery = "invalid",
                              !.phase = "FRONTIER", !.terminal = "nonterminal"])
  BY <1>1, <1>9, StateStays, AssignedStays
<1>10. CASE AdvanceSlice
  <2>1. Stays(Active([rec EXCEPT !.delivery = "active", !.revision = repo.head,
                                 !.worktree = Fingerprint]))
    BY <1>1, StateStays, StaysThrough
  <2> QED BY <1>10, <2>1, AssignedStays DEF AdvanceSlice
<1>11. ASSUME Configured, NEW amended, ApprovePlan(amended)
       PROVE  PublicationInv'
  <2> DEFINE s == [rec EXCEPT !.plan = "approved", !.delivery = "approved",
                              !.approval = rec.planText]
             a == [Here EXCEPT !.approval = rec.planText]
  <2>1. Stays(s) /\ a.preview = Here.preview
    BY <1>1, <1>2, <1>11, StateStays DEF Artifacts
  <2>2. (rec' = Active(s) \/ rec' = Established(Active(s))) /\ Write(a) /\ pr' = pr
    BY <1>11 DEF ApprovePlan, Plant
  <2> HIDE DEF s, a
  <2>3. Stays(rec')
    BY <1>1, <2>1, <2>2, StaysThrough
  <2> QED BY <1>1, <1>11, <2>1, <2>2, <2>3, WrittenStays
<1>12. CASE Configured /\ RevokeApproval
  <2> DEFINE a == [Here EXCEPT !.approval = None]
  <2>1. a.preview = Here.preview
    BY <1>2, <1>12 DEF Artifacts
  <2>2. Stays(rec') /\ Write(a) /\ pr' = pr
    BY <1>1, <1>12, StateStays DEF RevokeApproval, Plant
  <2> HIDE DEF a
  <2> QED BY <1>1, <1>12, <2>1, <2>2, WrittenStays
<1>13. CASE Configured /\ Abandon
  <2>1. rec'.objective = rec.objective /\ rec'.workspace \in {"absent", "abandoned"}
    BY <1>1, <1>13 DEF Abandon, TypeOK, States
  <2> QED BY <1>13, <2>1, PublicationGoesOn DEF Publishing
<1>14. CASE Configured /\ (CutWorkspace \/ RemoveWorkspace)
  BY <1>1, <1>14, CutKeepsPublication
<1>15. ASSUME Configured, rec.workspace \in Publishing, NEW w,
              Assign(Active([rec EXCEPT !.workspace = w]))
       PROVE  PublicationInv'
  <2> DEFINE s == [rec EXCEPT !.workspace = w]
  <2>1. {"objective", "workspace", "publication", "preview"} \subseteq DOMAIN rec
    BY <1>1 DEF TypeOK, States
  <2>2. /\ s.objective = rec.objective /\ s.publication = rec.publication
        /\ s.preview = rec.preview /\ DOMAIN s = DOMAIN rec
    BY <2>1
  <2>3. rec' = Active(s) /\ files' = files /\ pr' = pr
    BY <1>15 DEF Assign, Plant
  <2> HIDE DEF s
  <2>4. /\ rec'.objective = rec.objective /\ rec'.publication = rec.publication
        /\ rec'.preview = rec.preview
    BY <2>1, <2>2, <2>3 DEF Active
  <2>5. Here' = Here
    BY <2>3, <2>4, StayingHere
  <2> QED BY <1>15, <2>3, <2>4, <2>5, PublicationGoesOn
<1>16. ASSUME Configured, NEW g \in Gates, RecordGate(g)
       PROVE  PublicationInv'
  <2> DEFINE a == [Here EXCEPT !.evidence[g] = repo.head]
  <2>1. a.preview = Here.preview
    BY <1>2, <1>16 DEF Artifacts
  <2>2. rec' = GateRecorded(g) /\ Write(a) /\ pr' = pr
    BY <1>16 DEF RecordGate, Plant
  <2> HIDE DEF a
  <2>3. /\ rec'.objective = rec.objective /\ rec'.workspace = rec.workspace
        /\ rec'.publication = rec.publication /\ rec'.preview = rec.preview
    BY <1>1, <2>2, GateRecordedIs
  <2>4. Here' = a
    BY <1>1, <1>16, <2>2, <2>3, WrittenHere
  <2> QED BY <1>16, <2>1, <2>2, <2>3, <2>4, PublicationGoesOn
<1>17. CASE Configured /\ id = "publication.preview" /\ Preview
  BY <1>1, <1>17, SelectedPreview, PublishingKeepsPublication
<1>18. CASE Configured /\ id = "publication.execute" /\ Publish
  BY <1>1, <1>18, SelectedWorkspaces, PublishingKeepsPublication DEF Publishing
<1>19. CASE Configured /\ (ObservePublication \/ CorrectPublication)
  BY <1>1, <1>19, PublishingKeepsPublication
<1>20. CASE \/ /\ id \in {"workspace.sync", "workspace.activate"}
               /\ Assign(Active([rec EXCEPT !.workspace = "active"]))
            \/ id = "workspace.publish" /\ Assign(Active([rec EXCEPT !.workspace = "published"]))
  <2>1. Configured /\ rec.workspace \in Publishing
    BY <1>1, <1>20, SelectedWorkspaces DEF Preparatory, Publishing
  <2> QED BY <1>15, <1>20, <2>1
<1>21. CASE Catalog[id].evidence # "" /\ RecordGate(Catalog[id].evidence)
  <2>1. Catalog[id].evidence \in Gates /\ Configured
    BY <1>1, <1>21, CatalogNeedsObjective
  <2> QED BY <1>16, <1>21, <2>1
<1>22. CASE Configured
  BY <1>3, <1>4, <1>5, <1>6, <1>7, <1>8, <1>9, <1>10, <1>11, <1>12, <1>13, <1>14, <1>17, <1>18,
     <1>19, <1>20, <1>21, <1>22 DEF Effect
<1>23. CASE ~Configured
  <2>1. id \in Preparatory
    BY <1>1, <1>23
  <2>2. Catalog[id].evidence = ""
    BY <1>1, <2>1, CatalogNeedsObjective
  <2> QED BY <1>4, <1>5, <2>1, <2>2 DEF Preparatory, Effect
<1> QED BY <1>22, <1>23

LEMMA OutsideKeepsPublication ==
  ASSUME LifecycleInv, PublicationInv, Outside
  PROVE  PublicationInv'
<1>1. TypeOK /\ Stays(rec)
  BY StateStays DEF LifecycleInv
<1>2. rec' = rec
  BY DEF Outside, EditPlan, LoseEvidence, EditTree, Commit, EditConfiguration, LoseRuntime,
         DisturbPublication, Merge, Restore, Disturb
<1>3. CASE EditPlan \/ LoseEvidence
  <2>1. Configured /\ pr' = pr
    BY <1>3 DEF EditPlan, LoseEvidence, Plant, LifecycleInv, UnboundIsEmpty, Recorded
  <2>2. PICK a : Write(a) /\ a.preview = Here.preview
    <3>1. Here \in Artifacts
      BY <1>1, <2>1, HereIsTyped
    <3>2. CASE EditPlan
      <4>1. PICK text : Write([Here EXCEPT !.plan = text])
        BY <3>2 DEF EditPlan
      <4>2. [Here EXCEPT !.plan = text].preview = Here.preview
        BY <3>1 DEF Artifacts
      <4> QED BY <4>1, <4>2
    <3>3. CASE LoseEvidence
      <4>1. PICK g : Write([Here EXCEPT !.evidence[g] = 0])
        BY <3>3 DEF LoseEvidence
      <4>2. [Here EXCEPT !.evidence[g] = 0].preview = Here.preview
        BY <3>1 DEF Artifacts
      <4> QED BY <4>1, <4>2
    <3> QED BY <1>3, <3>2, <3>3
  <2>3. Stays(rec')
    BY <1>1, <1>2
  <2> QED BY <1>1, <2>1, <2>2, <2>3, WrittenStays
<1>4. CASE ~(EditPlan \/ LoseEvidence)
  <2>1. files' = files
    BY <1>4 DEF Outside, EditTree, Commit, EditConfiguration, LoseRuntime, DisturbPublication,
                Merge, Restore
  <2>2. Here' = Here
    BY <1>2, <2>1, StayingHere
  <2>3. Stays(rec')
    BY <1>1, <1>2
  <2>4. pr'.state = "open" => pr.state = "open"
    BY <1>1, OutsideOpensNothing
  <2> QED BY <2>2, <2>3, <2>4, StayingKeepsPublication
<1> QED BY <1>3, <1>4

LEMMA InitPublicationInv == Init => PublicationInv
  BY DEF Init, PublicationInv, UnboundHasNoWorkspace, CandidatesArePreviewed, OpenIsPublished,
         Publishing

LEMMA StepKeepsPublication == LifecycleInv /\ PublicationInv /\ [Next]_vars => PublicationInv'
<1> SUFFICES ASSUME LifecycleInv, PublicationInv, [Next]_vars
             PROVE  PublicationInv'
  OBVIOUS
<1>1. CASE UNCHANGED vars
  <2>1. Stays(rec) /\ rec' = rec /\ files' = files /\ pr' = pr
    BY <1>1, StateStays DEF LifecycleInv, vars
  <2>2. Here' = Here /\ Stays(rec')
    BY <2>1, StayingHere
  <2> QED BY <2>1, <2>2, StayingKeepsPublication
<1>2. CASE Outside
  BY <1>2, OutsideKeepsPublication
<1>3. CASE \E objective \in Objectives, id \in DOMAIN Catalog : Selected(objective, id)
  BY <1>3, EffectKeepsPublication DEF Selected
<1> QED BY <1>1, <1>2, <1>3, StepsAreSelected

-----------------------------------------------------------------------------
(* What the supervisor selects is what the boundary accepts. *)

LEMMA CatalogCut ==
  LET t == Catalog["workspace.cut"] IN
  /\ t.selection = "PROGRAM_PROGRESS" /\ t.priority = 52
  /\ t.from = {"OBSERVED", "ACTIVE"} /\ Nonterminal \cup Steady \subseteq t.when
<1>1. Catalog["workspace.cut"] = WorkspaceTransition("workspace.cut")
  BY DEF Catalog, CoreIds, PlanIds, WorkspaceIds, GateIds, PublicationIds
<1>2. /\ WorkspaceTransition("workspace.cut").selection = "PROGRAM_PROGRESS"
      /\ WorkspaceTransition("workspace.cut").priority = 52
      /\ WorkspaceTransition("workspace.cut").from = {"OBSERVED", "ACTIVE"}
      /\ WorkspaceTransition("workspace.cut").when =
           {[workspace |-> {"absent"}]} \cup Nonterminal \cup Steady
  BY DEF WorkspaceTransition, Progress, Declared
<1> QED BY <1>1, <1>2

LEMMA ExplicitIsNotSelected ==
  ASSUME NEW id \in {"workspace.cleanup", "workspace.reap", "publication.correct"}
  PROVE  ~ImplicitlySelectable(Catalog[id])
<1>1. CASE id \in {"workspace.cleanup", "workspace.reap"}
  <2>1. Catalog[id] = WorkspaceTransition(id)
    BY <1>1 DEF Catalog, CoreIds, PlanIds, WorkspaceIds, GateIds, PublicationIds
  <2>2. WorkspaceTransition(id).selection = "EXPLICIT_ONLY"
    BY <1>1 DEF WorkspaceTransition, Explicit, Declared
  <2> QED BY <2>1, <2>2 DEF ImplicitlySelectable
<1>2. CASE id = "publication.correct"
  <2>1. Catalog[id] = PublicationTransition(id)
    BY <1>2 DEF Catalog, CoreIds, PlanIds, WorkspaceIds, GateIds, PublicationIds
  <2>2. PublicationTransition(id).selection = "EXPLICIT_ONLY"
    BY <1>2 DEF PublicationTransition, Explicit, Declared
  <2> QED BY <2>1, <2>2 DEF ImplicitlySelectable
<1> QED BY <1>1, <1>2

\* The facet of the plan that a step of the plan starts from.
LEMMA SelectedPlans ==
  ASSUME NEW objective, NEW id \in Admissible(Snapshot, objective), id \in PlanSteps
  PROVE  ObservedPlan \in PlanBefore(id)
<1>1. [plan |-> PlanBefore(id)] \in Catalog[id].when
  <2>1. Catalog[id] = PlanTransition(id)
    BY CatalogPlanSteps
  <2>2. [plan |-> PlanBefore(id)] \in PlanTransition(id).when
    BY DEF PlanSteps, PlanTransition, Progress, Declared, PlanBefore
  <2> QED BY <2>1, <2>2
<1>2. \A condition \in Catalog[id].when :
        \A facet \in DOMAIN condition : Snapshot[facet] \in condition[facet]
  BY DEF Admissible, SourceMatches, Satisfies
<1>3. Snapshot.plan \in PlanBefore(id)
  BY <1>1, <1>2
<1> QED BY <1>3, ObservedFacets

\* A plan that is observed as recorded is in place.
LEMMA ObservedIsIntact ==
  ASSUME Configured, ObservedPlan \notin {"absent", "stale"}
  PROVE  /\ rec.plan = ObservedPlan /\ PlanIntact /\ rec.planText # None /\ Here.plan # None
         /\ ObservedPlan \in {"approved", "locked"} => ApprovalIntact
  BY DEF ObservedPlan, PlanIntact

\* A workspace is cut once the plan is settled, or over a plan that waits for
\* its approval.
LEMMA CutsMoveThePlan ==
  ASSUME TypeOK, Configured, NEW authority,
         Resolve(Snapshot, rec.objective, authority, NoTransition).kind = "PRESCRIBED",
         Resolve(Snapshot, rec.objective, authority, NoTransition).transition = "workspace.cut"
  PROVE  \/ PlanMoves
         \/ rec.phase = "OBSERVED" /\ rec.plan \in {"valid", "amendment-required"}
<1>1. "workspace.cut" \in Admissible(Snapshot, rec.objective)
  BY ResolvedIsAdmissible
<1>2. /\ Snapshot.phase \in {"OBSERVED", "ACTIVE"}
      /\ \A condition \in Nonterminal \cup Steady :
           \A facet \in DOMAIN condition : Snapshot[facet] \in condition[facet]
  BY <1>1, CatalogCut DEF Admissible, SourceMatches, Satisfies
<1>3. Workable(rec.objective)
  <2>1. [terminal |-> {"nonterminal"}] \in Nonterminal
    BY DEF Nonterminal
  <2>2. Snapshot.terminal \in {"nonterminal"}
    BY <1>2, <2>1
  <2> QED BY <1>2, <2>2 DEF Workable, Satisfies, Snapshot
<1>4. installed
  <2>1. [configuration |-> {"verified"}, runtime |-> {"verified"}] \in Steady
    BY DEF Steady, Installed
  <2>2. Snapshot.runtime \in {"verified"}
    BY <1>2, <2>1
  <2> QED BY <2>2, ObservedFacets DEF ObservedRuntime
<1>5. rec.objective.target \in Targets
  BY DEF Configured, TypeOK, States, Objectives
<1>6. /\ Catalog["workspace.cut"].selection = "PROGRAM_PROGRESS"
      /\ Catalog["workspace.cut"].priority \in 51..100
  BY CatalogCut
<1>7. ASSUME NEW step \in PlanSteps, Snapshot.phase \in Catalog[step].from, step # "plan.activate"
      PROVE  ObservedPlan \notin PlanBefore(step)
  <2>1. rec.objective.target \in Catalog[step].targets
    BY <1>5, <1>7, CatalogPlanSteps DEF IsPlanStep
  <2> QED BY <1>3, <1>6, <1>7, <2>1, PlanComesFirst, ObservedFacets
<1>8. ObservedPlan \notin {"absent", "invalid", "stale", "draft"}
  <2>1. /\ Snapshot.phase \in Catalog["plan.create"].from
        /\ Snapshot.phase \in Catalog["plan.validate"].from
    BY <1>2, CatalogPlanSteps DEF PlanSteps, IsPlanStep
  <2> QED BY <1>7, <2>1 DEF PlanSteps, PlanBefore
<1>9. /\ rec.plan = ObservedPlan /\ PlanIntact
      /\ ObservedPlan \in {"approved", "locked"} => ApprovalIntact
  BY <1>8, ObservedIsIntact
<1>10. CASE ObservedPlan \in {"approved", "locked"}
  BY <1>9, <1>10 DEF PlanMoves
<1>11. CASE ObservedPlan \in {"valid", "amendment-required"}
  <2>1. Snapshot.phase # "ACTIVE"
    <3>1. /\ "ACTIVE" \in Catalog["plan.approve"].from
          /\ "ACTIVE" \in Catalog["plan.approve-amendment"].from
      BY CatalogPlanSteps DEF PlanSteps, IsPlanStep
    <3> QED BY <1>7, <1>11, <3>1 DEF PlanSteps, PlanBefore
  <2>2. rec.phase = "OBSERVED"
    BY <1>2, <1>4, <2>1 DEF Snapshot
  <2> QED BY <1>9, <1>11, <2>2
<1>12. ObservedPlan \in {"approved", "locked", "valid", "amendment-required"}
  BY <1>8, ObservedPlanIsTyped DEF Plans
<1> QED BY <1>10, <1>11, <1>12

LEMMA InvImpliesPreflight == LifecycleInv /\ PublicationInv => SelectionsPassPreflight
<1> SUFFICES ASSUME LifecycleInv, PublicationInv, NEW authority \in Authorities, Configured,
                    Resolve(Snapshot, rec.objective, authority, NoTransition).kind = "PRESCRIBED",
                    NEW id,
                    id = Resolve(Snapshot, rec.objective, authority, NoTransition).transition
             PROVE  \/ Prepared(id, rec.objective) /\ Executes(id)
                    \/ id = "publication.preview" /\ repo.edits > 0
                    \/ id = "workspace.cut" /\ rec.phase = "OBSERVED"
                         /\ rec.plan \in {"valid", "amendment-required"}
  BY DEF SelectionsPassPreflight
<1>1. TypeOK /\ id \in Admissible(Snapshot, rec.objective) /\ ImplicitlySelectable(Catalog[id])
  BY ResolvedIsAdmissible DEF LifecycleInv
<1>2. ~Rebinds(rec.objective)
  BY DEF Rebinds
<1>3. id \in {"plan.validate", "plan.approve", "plan.approve-amendment"}
        => rec.planText # None /\ Here.plan # None
  <2> SUFFICES ASSUME id \in {"plan.validate", "plan.approve", "plan.approve-amendment"}
               PROVE  rec.planText # None /\ Here.plan # None
    OBVIOUS
  <2>1. ObservedPlan \in PlanBefore(id)
    BY <1>1, SelectedPlans DEF PlanSteps
  <2> QED BY <2>1, ObservedIsIntact DEF PlanBefore
<1>4. id = "workspace.cut" =>
        \/ PlanMoves
        \/ rec.phase = "OBSERVED" /\ rec.plan \in {"valid", "amendment-required"}
  BY <1>1, CutsMoveThePlan
<1>5. id = "publication.execute" =>
        Here.preview = Fingerprint /\ rec.preview = Fingerprint /\ pr.state # "open"
  <2> SUFFICES ASSUME id = "publication.execute"
               PROVE  Here.preview = Fingerprint /\ rec.preview = Fingerprint /\ pr.state # "open"
    OBVIOUS
  <2>1. rec.publication = "candidate" /\ Here.preview = Fingerprint /\ rec.workspace \in Publishing
    BY <1>1, ExecutedIsProven, SelectedWorkspaces DEF Publishing
  <2>2. Fingerprint # None
    BY <1>1, FingerprintIsTyped, NoneIsNothing
  <2> QED BY <2>1, <2>2 DEF PublicationInv, CandidatesArePreviewed, OpenIsPublished
<1>6. id \notin {"workspace.cleanup", "workspace.reap", "publication.correct"}
  BY <1>1, ExplicitIsNotSelected
<1>7. repo.edits = 0 \/ repo.edits > 0
  BY <1>1 DEF TypeOK, Checkouts
<1>8. Executes(id)
  BY <1>5, <1>6 DEF Executes
<1> QED BY <1>2, <1>3, <1>4, <1>5, <1>7, <1>8 DEF Prepared, PreparedUnclean

-----------------------------------------------------------------------------
(* The theorems. *)

LEMMA SpecKeepsInv == Spec => []LifecycleInv
<1>1. Init => LifecycleInv
  BY InitLifecycleInv
<1>2. LifecycleInv /\ [Next]_vars => LifecycleInv'
  BY StepKeepsInv
<1> QED BY <1>1, <1>2, PTL DEF Spec

LEMMA SpecKeepsPublication == Spec => []PublicationInv
<1>1. Init => PublicationInv
  BY InitPublicationInv
<1>2. LifecycleInv /\ PublicationInv /\ [Next]_vars => PublicationInv'
  BY StepKeepsPublication
<1> QED BY <1>1, <1>2, SpecKeepsInv, PTL DEF Spec

\* State.json, the artifacts of the worktree and of its source checkout, the
\* checkout and the pull request keep their types.
THEOREM TypeCorrect == Spec => []TypeOK
<1>1. LifecycleInv => TypeOK
  BY DEF LifecycleInv
<1> QED BY <1>1, SpecKeepsInv, PTL

\* The plan that the supervisor acts on as approved or locked is one that was
\* approved for this delivery and not revoked since, whatever the hosts ask
\* for and however the plan file is edited between.
THEOREM ApprovalsAreGenuine == Spec => []ApprovedPlanIsWhatWasApproved
<1>1. LifecycleInv => ApprovedPlanIsWhatWasApproved
  BY InvImpliesApproved
<1> QED BY <1>1, SpecKeepsInv, PTL

\* A verification that is observed as current rests on evidence of every
\* required gate that was recorded for this delivery and this revision.
THEOREM EvidenceIsGenuine == Spec => []EvidenceIsForOneRevision
<1>1. LifecycleInv => EvidenceIsForOneRevision
  BY InvImpliesEvidence
<1> QED BY <1>1, SpecKeepsInv, PTL

\* What was abandoned and taken up again passes its gates again before a pull
\* request is opened.
THEOREM AbandonedIsProvenAgain == Spec => AbandonedWorkIsProvenAgain
<1>1. /\ LifecycleInv /\ [Next]_vars
      => [pr.state # "open" /\ pr'.state = "open" =>
            shelved \cap RequiredGates(rec.rules) = {}]_vars
  BY OpeningsAreProvenAgain
<1> QED BY <1>1, SpecKeepsInv, PTL DEF Spec, AbandonedWorkIsProvenAgain

\* A host that only continues opens a pull request for nothing but a clean
\* checkout, with its plan locked and its revision proven: the order of the
\* catalog leaves nothing to do before.
THEOREM ContinuationsPublishOnlyProvenWork == Spec => ContinuationsPublishProvenWork
<1>1. /\ LifecycleInv /\ [Next]_vars
      => [pr.state # "open" /\ pr'.state = "open" /\ deviations' = deviations =>
            /\ ObservedPlan = "locked" /\ repo.edits = 0
            /\ \A g \in RequiredGates(config) :
                 proved[g] # None /\ proved[g].content.head = repo.head]_vars
  BY ContinuationsAreProven
<1> QED BY <1>1, SpecKeepsInv, PTL DEF Spec, ContinuationsPublishProvenWork

\* What is selected for a host that continues is what the boundary accepts,
\* except a preview of uncommitted changes and a workspace that is cut in phase
\* OBSERVED over a plan that waits for its approval.
THEOREM SelectionsAreAccepted == Spec => []SelectionsPassPreflight
<1>1. LifecycleInv /\ PublicationInv => SelectionsPassPreflight
  BY InvImpliesPreflight
<1> QED BY <1>1, SpecKeepsInv, SpecKeepsPublication, PTL
=============================================================================
