--------------------------- MODULE DeclaredEffects ---------------------------
(***************************************************************************)
(* Durable state effects declared as data.  A program declares, for each   *)
(* transition, from which states it starts, which facets and fields of the *)
(* durable state it assigns and which of them it owns.  The compiler       *)
(* accepts the declaration or refuses it (`Accepted`), long before any     *)
(* state exists; the reducer applies an accepted one to the state it       *)
(* meets, and the state it produces is validated once more before it is    *)
(* staged (`Refused`).                                                     *)
(*                                                                         *)
(* A facet is either bound (a value that demands context: a verified       *)
(* runtime, a managed workspace, a recovery classification, a transaction  *)
(* in progress, an established terminal) or free.  `Needs` gives the       *)
(* fields a bound facet demands; a field may serve two facets, as the      *)
(* transaction identity serves the recovery and the transaction.  A field  *)
(* is filled or empty.                                                     *)
(***************************************************************************)
EXTENDS FiniteSets, Integers

CONSTANTS
  Needs,        \* what each facet demands of the fields when it is bound
  NativeOnly,   \* facets that only a native handler may bind
  Companion,    \* facets whose binding must assign one field more
  Owner         \* the state facet every facet and field belongs to

Facets == DOMAIN Needs
Fields == UNION {Needs[c] : c \in Facets}

\* A phase is the recovery phase, one in which a delivery ends (TERMINAL and
\* ABANDONED), or another one.
Phases == {"ordinary", "recovery", "ended"}

\* The recovery and the terminal facet are tied to the phase; a facet that is
\* assigned "unchanged" keeps the value of the state it meets.
ASSUME NeedsAreTyped ==
  /\ {"recovery", "terminal"} \subseteq Facets
  /\ Facets \cap Fields = {}
  /\ NativeOnly \subseteq Facets /\ Companion \subseteq Facets
  /\ DOMAIN Owner = Facets \cup Fields

-----------------------------------------------------------------------------
Conditions == [Facets -> (SUBSET BOOLEAN) \ {{}}]

\* A declaration: source and target phases; the values (TRUE: bound) that the
\* source conditions, the target conditions and the preconditions of the
\* effect allow, BOOLEAN where there is no condition; the assigned phase; the
\* assignments; whether the companion field is assigned; the owned facets.
\* A field is assigned the empty literal, a value (another literal, or that of
\* a required parameter, which is never empty), or an ambient value of the
\* admission, which is empty where Git gave no evidence.
Declarations ==
  [origin : {"core", "program", "extension"},
   owned : SUBSET {"installation", "program", "control", "product"},
   from : SUBSET Phases, to : SUBSET Phases,
   asks : Conditions, wants : Conditions, pre : Conditions,
   phase : Phases \cup {"unchanged"},
   facets : [Facets -> {"unchanged", "bind", "free"}], companions : BOOLEAN,
   fields : [Fields -> {"unchanged", "empty", "value", "ambient"}]]

\* State validation.
Valid(s) ==
  /\ \A c \in s.bound : Needs[c] \subseteq s.filled
  /\ s.phase = "recovery" => "recovery" \in s.bound
  /\ "terminal" \in s.bound => s.phase = "ended"

States == [phase : Phases, bound : SUBSET Facets, filled : SUBSET Fields]

ValidStates == {s \in States : Valid(s)}

\* A set of conditions, read from a state.
Meets(allowed, s) == \A c \in Facets : (c \in s.bound) \in allowed[c]

\* The source predicate of the transition.
Enabled(d, s) == s.phase \in d.from /\ Meets(d.asks, s)

-----------------------------------------------------------------------------
\* What the compiler can tell of the source: the conditions pin a facet.
SourceIs(d, c, value) == d.asks[c] = {value}

\* What it can tell of the result.
ResultIs(d, c, value) ==
  \/ d.facets[c] = (IF value THEN "bind" ELSE "free")
  \/ d.facets[c] = "unchanged" /\ SourceIs(d, c, value)

ResultPhaseIn(d, phases) ==
  IF d.phase = "unchanged" THEN d.from # {} /\ d.from \subseteq phases
                           ELSE d.phase \in phases

\* Mutant: an empty literal counts as an assignment like any other.
PreservesOrProducesAnything(d, c) ==
  \A f \in Needs[c] : d.fields[f] = "unchanged" => SourceIs(d, c, TRUE)

\* Every field a bound facet demands is given a value, or is kept from a
\* source in which the facet was bound.
PreservesOrProduces(d, c) ==
  \A f \in Needs[c] :
    /\ d.fields[f] # "empty"
    /\ d.fields[f] = "unchanged" => SourceIs(d, c, TRUE)

\* A phase that is not assigned stays within the declared targets.
PreservedPhaseIsDeclared(d) ==
  d.phase = "unchanged" => d.from # {} /\ d.from \subseteq d.to

\* validateDeclarativeStateClosure
Closed(d) ==
  /\ PreservedPhaseIsDeclared(d)
  /\ \A c \in Facets : ResultIs(d, c, TRUE) => PreservesOrProduces(d, c)
  /\ \A c \in NativeOnly : ResultIs(d, c, TRUE) => SourceIs(d, c, TRUE)
  /\ \A c \in Companion :
       ResultIs(d, c, TRUE) /\ ~SourceIs(d, c, TRUE) => d.companions
  /\ ResultIs(d, "terminal", TRUE) => ResultPhaseIn(d, {"ended"})
  /\ ResultPhaseIn(d, {"recovery"}) => ResultIs(d, "recovery", TRUE)

\* Only the core owns the installation and the program identity, and an
\* extension owns nothing but control state.
OwnershipAllowed(d) ==
  /\ "control" \in d.owned
  /\ d.origin = "program" => d.owned \subseteq {"control", "product"}
  /\ d.origin = "extension" => d.owned = {"control"}

\* The facets and fields a declaration assigns; the phase is control state.
Assigned(d) ==
  {c \in Facets : d.facets[c] # "unchanged"}
    \cup {f \in Fields : d.fields[f] # "unchanged"}

\* A precondition of the effect follows from the source conditions.
PreconditionsFollow(d) ==
  \A c \in Facets : d.pre[c] # BOOLEAN => d.asks[c] \subseteq d.pre[c]

\* What is assigned agrees with the target phases and conditions.
AssignmentsMatchTargets(d) ==
  /\ d.phase # "unchanged" => d.phase \in d.to
  /\ \A c \in Facets :
       d.facets[c] # "unchanged" => (d.facets[c] = "bind") \in d.wants[c]

Accepted(d) ==
  /\ OwnershipAllowed(d) /\ d.from # {} /\ d.to # {}
  /\ PreconditionsFollow(d)
  /\ \A x \in Assigned(d) : Owner[x] \in d.owned
  /\ AssignmentsMatchTargets(d)
  /\ Closed(d)

-----------------------------------------------------------------------------
\* The fields that have a value after the assignments; `known` are the fields
\* whose ambient value is not empty.
FilledBy(d, s, known) ==
  {f \in Fields : \/ d.fields[f] = "value"
                  \/ d.fields[f] = "ambient" /\ f \in known
                  \/ d.fields[f] = "unchanged" /\ f \in s.filled}

\* The values Git may or may not have evidence for.
Ambient(d) == {f \in Fields : d.fields[f] = "ambient"}

\* The reducer.
Reduced(d, s, known) ==
  [phase |-> IF d.phase = "unchanged" THEN s.phase ELSE d.phase,
   bound |-> {c \in Facets : \/ d.facets[c] = "bind"
                             \/ d.facets[c] = "unchanged" /\ c \in s.bound},
   filled |-> FilledBy(d, s, known)]

\* The facets of the durable state in which two states differ.
ChangedFacets(s, t) ==
  {Owner[c] : c \in (s.bound \ t.bound) \cup (t.bound \ s.bound)}
    \cup {Owner[f] : f \in (s.filled \ t.filled) \cup (t.filled \ s.filled)}
    \cup (IF s.phase # t.phase THEN {"control"} ELSE {})

\* A transition that was admitted and is refused all the same: a precondition
\* the state does not meet, a target phase that is not declared, a change
\* outside of the owned facets, or a state that cannot be encoded.
Refused(d, s, known) ==
  \/ ~Meets(d.pre, s)
  \/ Reduced(d, s, known).phase \notin d.to
  \/ ~(ChangedFacets(s, Reduced(d, s, known)) \subseteq d.owned)
  \/ ~Valid(Reduced(d, s, known))

-----------------------------------------------------------------------------
VARIABLE declared

\* An author starts from a core transition that runs anywhere and does
\* nothing, and edits its declaration.
EffectsInit ==
  LET anything == [c \in Facets |-> BOOLEAN] IN
  declared = [origin |-> "core",
              owned |-> {"installation", "program", "control", "product"},
              from |-> Phases, to |-> Phases, asks |-> anything,
              wants |-> anything, pre |-> anything, phase |-> "unchanged",
              facets |-> [c \in Facets |-> "unchanged"], companions |-> FALSE,
              fields |-> [f \in Fields |-> "unchanged"]]

Become(d) == d # declared /\ d \in Declarations /\ declared' = d

Offer(origin) == Become([declared EXCEPT !.origin = origin])
Disown(facet) == Become([declared EXCEPT !.owned = @ \ {facet}])
NotFrom(phase) == Become([declared EXCEPT !.from = @ \ {phase}])
NotTo(phase) == Become([declared EXCEPT !.to = @ \ {phase}])
Ask(c, values) == Become([declared EXCEPT !.asks[c] = values])
Want(c, values) == Become([declared EXCEPT !.wants[c] = values])
Require(c, values) == Become([declared EXCEPT !.pre[c] = values])
Move(phase) == Become([declared EXCEPT !.phase = phase])
Bind(c, effect) == Become([declared EXCEPT !.facets[c] = effect])
Fill(f, source) == Become([declared EXCEPT !.fields[f] = source])
Accompany == Become([declared EXCEPT !.companions = TRUE])

EffectsNext ==
  \/ \E origin \in {"program", "extension"} : Offer(origin)
  \/ \E facet \in declared.owned : Disown(facet)
  \/ \E phase \in Phases : NotFrom(phase) \/ NotTo(phase)
  \/ \E c \in Facets : \E values \in {{TRUE}, {FALSE}} :
       Ask(c, values) \/ Want(c, values) \/ Require(c, values)
  \/ \E phase \in Phases : Move(phase)
  \/ \E c \in Facets, effect \in {"bind", "free"} : Bind(c, effect)
  \/ \E f \in Fields, source \in {"empty", "value", "ambient"} :
       Fill(f, source)
  \/ Accompany

EffectsSpec == EffectsInit /\ [][EffectsNext]_declared

DeclarationIsTyped == declared \in Declarations

-----------------------------------------------------------------------------
\* What the compiler leaves to the state a declaration meets: a facet that is
\* neither assigned nor pinned by a source condition, and of which a field is
\* emptied; an ambient value on which a facet rests that may be bound; a
\* phase that moves away from under an established terminal; a recovery that
\* is cleared in a phase that may be the recovery phase.
Undecided(d, c) == ~ResultIs(d, c, TRUE) /\ ~ResultIs(d, c, FALSE)

LeavesAGap(d) ==
  \/ \E c \in Facets : Undecided(d, c) /\ \E f \in Needs[c] : d.fields[f] = "empty"
  \/ \E c \in Facets : ~ResultIs(d, c, FALSE)
                         /\ \E f \in Needs[c] : d.fields[f] = "ambient"
  \/ Undecided(d, "terminal") /\ d.phase \in {"ordinary", "recovery"}
  \/ d.facets["recovery"] = "free" /\ d.phase = "unchanged" /\ "recovery" \in d.from

\* Declarative assignments close the invariants of the durable state: what
\* the compiler accepts is never refused when it runs, whichever valid state
\* it meets, unless it leaves one of the gaps above
\* (validateDeclarativeStateClosure against State.Validate and the reducer).
AcceptedEffectsApply ==
  Accepted(declared) /\ ~LeavesAGap(declared) =>
    \A s \in ValidStates : Enabled(declared, s) =>
      \A known \in SUBSET Ambient(declared) : ~Refused(declared, s, known)
=============================================================================
