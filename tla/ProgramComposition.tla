-------------------------- MODULE ProgramComposition --------------------------
(***************************************************************************)
(* One control program out of many manifests.  The core system and one     *)
(* program runtime are trusted; a repository may add extensions, which     *)
(* declare facts, resources, transitions, recoveries and obligations on    *)
(* the objectives of the runtime.  The compiler validates every manifest,  *)
(* merges them into one registry and one set of objective contracts, and   *)
(* refuses the whole when a boundary between two components is crossed.    *)
(*                                                                         *)
(* A name is a sequence of segments, so that a name declared by a          *)
(* component has the name of the component as its prefix.  A condition on  *)
(* a facet is the set of values it allows; a facet whose evidence is not   *)
(* known has a value of its own, which a condition lists or does not.      *)
(* Versions, fingerprints, settings with their schemas, classifications    *)
(* and identities, the effect and the verifier of a transition (which are  *)
(* declared and namespaced like its resources) and foreground work         *)
(* contracts are left out.                                                 *)
(***************************************************************************)
EXTENDS TransitionRelation, FiniteSets, Sequences

CONSTANTS
  Core, Runtime,   \* the two trusted manifests
  Extensions,      \* the names of the extensions
  Offers,          \* the transitions an extension may declare
  Claims,          \* the facts and the resources it may declare
  Obligations,     \* the obligations it may declare
  Escalation,      \* "recovery.escalate"
  Snapshots        \* what the supervisor may be shown

\* Every distribution has the core recovery that hands over to a human.
ASSUME EscalationIsACoreRecovery ==
  \E t \in Core.transitions : t.id = Escalation /\ t.class = "recovery"

Empty == [deps |-> {}, caps |-> {}, facts |-> {}, resources |-> {},
          transitions |-> {}, recoveries |-> {}, obligations |-> {}]

Namespaced(name, id) ==
  Len(id) < Len(name) /\ SubSeq(name, 1, Len(id)) = id

-----------------------------------------------------------------------------
(***************************************************************************)
(* Transitions.  `when` and `then` give the values of the facets they      *)
(* name; `assigns` are the facets the state effect produces.               *)
(***************************************************************************)
Controllable(t) == t.class # "observed"

Rank(selection) ==
  CASE selection = "SYSTEM_RECOVERY" -> 1
    [] selection = "PROGRAM_RECOVERY" -> 2
    [] selection = "EXTENSION_RECOVERY" -> 3
    [] selection = "OBJECTIVE_REQUIRED" -> 4
    [] selection = "PROGRAM_PROGRESS" -> 5
    [] selection = "EXPLICIT_ONLY" -> 6
    [] selection = "OBSERVED_EXTERNAL" -> 7

ImplicitlySelectable(t) == Rank(t.selection) <= 5

\* The least an effect needs, whatever its transition declares.
KernelEffectCapabilities(t, executed) ==
  {"repository.write"}
    \cup (IF executed THEN {"command.execute"} ELSE {})
    \cup (IF t.product THEN {"product.mutate"} ELSE {})

\* A controllable transition declares its needs, and its component covers them.
Covered(t, m, executed) ==
  Controllable(t) =>
    t.needs # {} /\ t.needs \cup KernelEffectCapabilities(t, executed) \subseteq m.caps

\* A recovery has the selection of its origin, and nothing else has it.
SelectionOwned(t, origin) ==
  /\ (t.class = "recovery") <=>
       t.selection \in {"SYSTEM_RECOVERY", "PROGRAM_RECOVERY", "EXTENSION_RECOVERY"}
  /\ t.selection = "SYSTEM_RECOVERY" => origin = "core"
  /\ t.selection = "PROGRAM_RECOVERY" => origin = "program"
  /\ t.selection = "EXTENSION_RECOVERY" => origin = "extension"

ValidTransition(t, origin) ==
  /\ (t.class = "observed") <=> t.selection = "OBSERVED_EXTERNAL"
  /\ SelectionOwned(t, origin)
  /\ t.from # {} /\ DOMAIN t.when # {} /\ DOMAIN t.then # {}
  /\ IF Controllable(t) THEN t.writes # {} /\ t.recovery # NoTransition
                        ELSE t.writes = {} /\ t.recovery = NoTransition
  /\ t.binds \/ t.reconciles => origin = "core"
  /\ t.scope = "optional-preserve" => ~t.binds

\* The compiler adds the condition that the program is the bound one.
When(t) ==
  IF Controllable(t) /\ ~t.reconciles /\ <<"program">> \notin DOMAIN t.when
    THEN [f \in DOMAIN t.when \cup {<<"program">>} |->
            IF f = <<"program">> THEN {"unbound", "current"} ELSE t.when[f]]
    ELSE t.when

-----------------------------------------------------------------------------
(***************************************************************************)
(* Manifests.                                                              *)
(***************************************************************************)
ValidCore(m) == m.transitions # {} /\ m.caps # {}

\* Every supported objective has one contract, and the other way round; what
\* a controllable transition writes is declared, and so are the recoveries.
ValidRuntime(m) ==
  /\ m.transitions # {} /\ m.caps # {} /\ m.supported # {}
  /\ m.supported = DOMAIN m.contracts
  /\ \A t \in m.transitions :
       /\ Covered(t, m, m.protocol)
       /\ t.writes \subseteq m.resources
       /\ m.protocol =>
            /\ Namespaced(t.id, m.id)
            /\ DOMAIN t.then \subseteq t.assigns \cup m.facts
  /\ m.protocol => \A name \in m.facts \cup m.resources : Namespaced(name, m.id)
  /\ \A id \in m.recoveries :
       \E t \in m.transitions : t.id = id /\ t.class = "recovery"

\* Reaching the target of the transition discharges the obligation.
Discharges(t, obligation) ==
  /\ obligation.facet \in DOMAIN t.then
  /\ t.then[obligation.facet] \subseteq obligation.values

\* What is selected without being asked for discharges an obligation of every
\* objective it names.
SelectedForObligations(t, m) ==
  /\ t.targets # {}
  /\ \A o \in t.targets : \E obligation \in m.obligations :
       obligation.target = o /\ Discharges(t, obligation)

ValidExtension(e, m) ==
  /\ e \notin {Core.id, Runtime.id}
  /\ m.facts # {} \/ m.transitions # {} => "command.execute" \in m.caps
  /\ \A fact \in m.facts : Namespaced(fact, e)
  /\ e \notin m.deps
  /\ \A obligation \in m.obligations : obligation.facet # <<"terminal">>
  /\ \A t \in m.transitions :
       /\ Covered(t, m, TRUE)
       /\ \A f \in DOMAIN t.then \ t.assigns : Namespaced(f, e) /\ f \in m.facts
       /\ t.selection = "OBJECTIVE_REQUIRED" => SelectedForObligations(t, m)
  /\ \A id \in m.recoveries :
       \E t \in m.transitions : t.id = id /\ t.class = "recovery"

\* The transitions of an extension stay within it: their name, the selection
\* they may use, how an interruption is recovered and what they write.
OwnTransitions(e, m) ==
  \A t \in m.transitions :
    /\ Namespaced(t.id, e)
    /\ t.selection \in {"OBJECTIVE_REQUIRED", "EXTENSION_RECOVERY",
                        "EXPLICIT_ONLY", "OBSERVED_EXTERNAL"}
    /\ t.class = "recovery" => t.id \in m.recoveries
    /\ t.recovery \in {NoTransition, Escalation} \cup m.recoveries
    /\ t.writes \subseteq m.resources

-----------------------------------------------------------------------------
(***************************************************************************)
(* The composition of a set of enabled extensions, `ms` their manifests.   *)
(***************************************************************************)
\* The resources a component takes: those its transitions write, and all that
\* an extension declares.
Written(m) == UNION {t.writes : t \in m.transitions}

Taken(ms) ==
  [id \in DOMAIN ms \cup {Core.id, Runtime.id} |->
     (IF id = Core.id THEN Written(Core) ELSE {})
       \cup (IF id = Runtime.id THEN Written(Runtime) ELSE {})
       \cup (IF id \in DOMAIN ms THEN ms[id].resources ELSE {})]

ResourcesDoNotOverlap(ms) ==
  \A e, x \in DOMAIN Taken(ms) : e # x => Taken(ms)[e] \cap Taken(ms)[x] = {}

FactsDoNotOverlap(ms) ==
  /\ \A e \in DOMAIN ms : ms[e].facts \cap Runtime.facts = {}
  /\ \A e, x \in DOMAIN ms : e # x => ms[e].facts \cap ms[x].facts = {}

\* Every dependency is there, and no extension depends on itself through others.
DependenciesHold(ms) ==
  /\ \A e \in DOMAIN ms : ms[e].deps \subseteq DOMAIN ms
  /\ \A S \in (SUBSET DOMAIN ms) \ {{}} :
       \E e \in S : ms[e].deps \cap S = {}

\* The registry, with the origin and the owner of each transition.
Registry(ms) ==
  {[t |-> t, origin |-> "core", owner |-> Core.id] : t \in Core.transitions}
    \cup {[t |-> t, origin |-> "program", owner |-> Runtime.id] : t \in Runtime.transitions}
    \cup UNION {{[t |-> t, origin |-> "extension", owner |-> e] : t \in ms[e].transitions}
                  : e \in DOMAIN ms}

RegistryHolds(ms) ==
  /\ \A d \in Registry(ms) : ValidTransition(d.t, d.origin)
  /\ \A d, x \in Registry(ms) : d.t.id = x.t.id => d = x
  /\ \A d \in Registry(ms) : d.t.recovery # NoTransition =>
       \E x \in Registry(ms) : x.t.id = d.t.recovery /\ x.t.class = "recovery"

\* Obligations are on the objectives of the runtime.
ContractsHold(ms) ==
  \A e \in DOMAIN ms : \A obligation \in ms[e].obligations :
    obligation.target \in Runtime.supported

Compiles(ms) ==
  /\ ValidCore(Core) /\ ValidRuntime(Runtime)
  /\ \A e \in DOMAIN ms : /\ ValidExtension(e, ms[e])
                          /\ OwnTransitions(e, ms[e])
                          /\ \A r \in ms[e].resources : Namespaced(r, e)
  /\ ResourcesDoNotOverlap(ms) /\ FactsDoNotOverlap(ms)
  /\ DependenciesHold(ms) /\ RegistryHolds(ms) /\ ContractsHold(ms)

\* What is asked of an objective: the extensions can only add to it.
Asked(ms, o) ==
  Runtime.contracts[o]
    \cup UNION {{obligation \in ms[e].obligations : obligation.target = o} : e \in DOMAIN ms}

-----------------------------------------------------------------------------
(***************************************************************************)
(* The supervisor, over a snapshot `w`: the phase, a value for each facet, *)
(* the recoveries the journal permits and the authority of the request.    *)
(***************************************************************************)
Satisfies(conditions, w) ==
  \A f \in DOMAIN conditions : w.facets[f] \in conditions[f]

\* Mutant: an extension that is scoped to an objective is scoped to all.
SupportsAnyObjective(t, o) == t.targets = {} \/ t.scope # "none" \/ o \in t.targets

SupportsObjective(t, o) ==
  t.scope = "optional-preserve" \/ t.targets = {} \/ o \in t.targets

Admissible(ms, w, o) ==
  {d \in Registry(ms) :
     /\ Controllable(d.t) /\ w.phase \in d.t.from /\ Satisfies(When(d.t), w)
     /\ w.phase = "RECOVERY" => d.t.class = "recovery" /\ d.t.id \in w.permitted
     /\ SupportsObjective(d.t, o)}

Marked(ms, w, o) ==
  \A condition \in Asked(ms, o) : w.facets[condition.facet] \in condition.values

Resolve(ms, w, o) ==
  Relate([requested |-> NoTransition, marked |-> Marked(ms, w, o),
          noCandidate |-> IF w.phase = "RECOVERY" THEN "BLOCKED" ELSE "UNRESOLVED",
          available |-> w.authority,
          candidates |->
            {Candidate(d.t.id, Rank(d.t.selection), d.t.priority,
                       ImplicitlySelectable(d.t) /\ ~Satisfies(d.t.then, w),
                       {}, d.t.authority) : d \in Admissible(ms, w, o)}])

-----------------------------------------------------------------------------
(***************************************************************************)
(* Authors edit the manifests of the extensions, and the repository        *)
(* enables and disables them.                                              *)
(***************************************************************************)
VARIABLES manifests, enabled

compositionVars == <<manifests, enabled>>

CompositionInit == manifests = [e \in Extensions |-> Empty] /\ enabled = {}

Rewrite(e, m) ==
  m # manifests[e] /\ manifests' = [manifests EXCEPT ![e] = m] /\ UNCHANGED enabled

Grant(e, caps) == Rewrite(e, [manifests[e] EXCEPT !.caps = @ \cup caps])
DeclareFact(e, f) == Rewrite(e, [manifests[e] EXCEPT !.facts = @ \cup {f}])
DeclareResource(e, r) == Rewrite(e, [manifests[e] EXCEPT !.resources = @ \cup {r}])
Declare(e, t) == Rewrite(e, [manifests[e] EXCEPT !.transitions = @ \cup {t}])
DeclareRecovery(e, t) ==
  Rewrite(e, [manifests[e] EXCEPT !.transitions = @ \cup {t}, !.recoveries = @ \cup {t.id}])
Oblige(e, obligation) ==
  Rewrite(e, [manifests[e] EXCEPT !.obligations = @ \cup {obligation}])
DependOn(e, x) == Rewrite(e, [manifests[e] EXCEPT !.deps = @ \cup {x}])

Enable(e) == e \notin enabled /\ enabled' = enabled \cup {e} /\ UNCHANGED manifests
Disable(e) == e \in enabled /\ enabled' = enabled \ {e} /\ UNCHANGED manifests

CompositionNext ==
  \E e \in Extensions :
    \/ Grant(e, {"repository.write", "command.execute"})
    \/ \E f \in Claims.facts : DeclareFact(e, f)
    \/ \E r \in Claims.resources : DeclareResource(e, r)
    \/ \E t \in Offers : Declare(e, t) \/ DeclareRecovery(e, t)
    \/ \E obligation \in Obligations : Oblige(e, obligation)
    \/ \E x \in Extensions : DependOn(e, x)
    \/ Enable(e) \/ Disable(e)

CompositionSpec == CompositionInit /\ [][CompositionNext]_compositionVars

\* The manifests of a set of extensions.
Chosen(S) == [e \in S |-> manifests[e]]

-----------------------------------------------------------------------------
\* A transition of an extension that takes part in every resolution, whatever
\* the objective: one that is required but preserves whichever objective is
\* bound, or a recovery that starts outside of a recovery.
OpenEnded(t) ==
  \/ t.selection = "OBJECTIVE_REQUIRED" /\ t.scope = "optional-preserve"
  \/ t.class = "recovery" /\ t.from # {"RECOVERY"}

\* Extensions are additive.  Where they ask nothing of an objective, the
\* decision is the one of the program without them, but for transitions that
\* are open-ended and for recoveries of their own; and what is terminal with
\* them is terminal without them (Compile, supervisor.resolve).
ExtensionsAreAdditive ==
  LET ms == Chosen(enabled) none == Chosen({}) IN
  enabled # {} /\ Compiles(ms) => \A w \in Snapshots, o \in Runtime.supported :
    /\ Marked(ms, w, o) => Marked(none, w, o)
    /\ (\A e \in enabled :
          /\ \A obligation \in manifests[e].obligations : obligation.target # o
          /\ \A t \in manifests[e].transitions :
               ~OpenEnded(t) /\ t.id \notin w.permitted)
         => Resolve(ms, w, o) = Resolve(none, w, o)

\* An extension no other one names as a dependency can be disabled, and what
\* is left compiles: nothing relies on it that is not declared
\* (validateDependencies, the recoveries and the resources of Compile).
UnusedExtensionsCanBeDisabled ==
  \A e \in enabled :
    Compiles(Chosen(enabled)) /\ (\A x \in enabled \ {e} : e \notin manifests[x].deps)
      /\ Compiles(Chosen({}))
      => Compiles(Chosen(enabled \ {e}))

\* Names are claimed once.  A name may be within the namespaces of two
\* components, one inside of the other: still one of them owns it, and no
\* other writes it (the resources, facts and identities of Compile).
NamesHaveOneOwner ==
  enabled # {} /\ Compiles(Chosen(enabled)) =>
    \A d, x \in Registry(Chosen(enabled)) :
      d.owner # x.owner => /\ d.t.writes \cap x.t.writes = {}
                           /\ d.t.id # x.t.id
                           /\ \A f \in DOMAIN d.t.then \cap DOMAIN x.t.then :
                                f \in d.t.assigns \cup x.t.assigns
                                  \/ {d.origin, x.origin} # {"extension"}

=============================================================================
