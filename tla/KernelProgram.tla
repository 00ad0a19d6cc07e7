---------------------------- MODULE KernelProgram ----------------------------
(***************************************************************************)
(* A compiled control program (boatstack/kernel/program.go): the data of   *)
(* its transitions, what CompileProgram guarantees of them, and the two    *)
(* predicates a transition must satisfy before a domain is asked about it. *)
(* A transition's owned facets are left out: they matter only to the       *)
(* verdict "the effect facts are acceptable", which the runtime module     *)
(* leaves open.                                                            *)
(***************************************************************************)
EXTENDS TransitionRelation

CONSTANTS
  Transitions,     \* transition identities
  Modes,
  InitialMode,
  MarkedModes,
  SourceModes,     \* [Transitions -> SUBSET Modes]
  TargetMode,      \* [Transitions -> Modes]
  Recovers,        \* [Transitions -> SUBSET Transitions]
  Scope,           \* [Transitions -> ObjectiveScopes]
  Mutation,        \* [Transitions -> ObjectiveMutations]
  Capabilities,
  Required,        \* declared capabilities and the classifier's minimum
  Priority,
  Objectives,      \* exact objective revisions
  NoObjective      \* the absent binding, or objective argument

ObjectiveScopes == {"none", "optional-preserve", "bound-exact"}
ObjectiveMutations == {"preserve", "bind", "clear"}

\* One declaration on its own: Transition.validate.
ASSUME TransitionsAreTyped ==
  /\ SourceModes \in [Transitions -> (SUBSET Modes) \ {{}}]
  /\ TargetMode \in [Transitions -> Modes]
  /\ Recovers \in [Transitions -> SUBSET Transitions]
  /\ Scope \in [Transitions -> ObjectiveScopes]
  /\ Mutation \in [Transitions -> ObjectiveMutations]
  /\ Required \in [Transitions -> (SUBSET Capabilities) \ {{}}]
  /\ InitialMode \in Modes
  /\ MarkedModes \in (SUBSET Modes) \ {{}}
  /\ NoTransition \notin Transitions
  /\ NoObjective \notin Objectives

ObjectiveMutationIsGated ==
  \A t \in Transitions :
    Mutation[t] # "preserve" =>
      Scope[t] = "none" /\ "objective.bind" \in Required[t]

IsRecovery(t) == Recovers[t] # {}

\* A recovery runs without an objective of its own, and from every mode the
\* interrupted transition may have left behind.
RecoveriesAreUnconditional ==
  \A r \in Transitions :
    /\ IsRecovery(r) => Scope[r] # "bound-exact" /\ Mutation[r] = "preserve"
    /\ \A t \in Recovers[r] : SourceModes[t] \subseteq SourceModes[r]

EveryTransitionIsRecovered ==
  \A t \in Transitions : ~IsRecovery(t) => \E r \in Transitions : t \in Recovers[r]

\* The program as a whole: Program.prepare.
Prepared ==
  /\ ObjectiveMutationIsGated
  /\ RecoveriesAreUnconditional
  /\ EveryTransitionIsRecovered

ASSUME ProgramIsPrepared == Prepared

-----------------------------------------------------------------------------
\* objectiveFor: may transition t run against this binding, with this
\* objective supplied by the command?
ObjectiveAllows(t, binding, supplied) ==
  CASE Mutation[t] = "bind"  -> supplied # NoObjective /\ supplied # binding
    [] Mutation[t] = "clear" -> binding # NoObjective
    [] Mutation[t] = "preserve" /\ Scope[t] = "bound-exact" ->
         binding # NoObjective /\ supplied = binding
    [] OTHER -> TRUE

\* An active recovery admits only transitions that recover the interrupted
\* one; a recovery transition is admitted only by an active recovery.
RecoveryAllows(t, interrupted) ==
  IF interrupted = NoTransition THEN ~IsRecovery(t)
                                ELSE interrupted \in Recovers[t]
=============================================================================
