--------------------------- MODULE ProgramLawsProofs ---------------------------
(***************************************************************************)
(* The laws of the program's calculi as theorems.                          *)
(*                                                                         *)
(* relation     for every pool of candidates                               *)
(* effects      what the compiler accepts, the reducer applies: for every  *)
(*              choice of facets, fields and owners, and for every         *)
(*              declaration, not only for the small ones enumerated        *)
(* composition  whatever the trusted manifests, the extensions and what    *)
(*              they declare, an extension that compiles leaves the rest   *)
(*              of the program as it was, can be taken out again, and      *)
(*              shares no name                                             *)
(***************************************************************************)
EXTENDS RelationLaws, DeclaredEffects, ProgramComposition, TLAPS

-----------------------------------------------------------------------------
(***************************************************************************)
(* The relation.                                                           *)
(***************************************************************************)

\* A prescription names the one preferred candidate, and its authority is
\* complete: what Apply relies on when it runs the transition it was given.
LEMMA PrescribedIsPreferred ==
  ASSUME NEW i, NoCandidateKind(i) # "PRESCRIBED", Relate(i).kind = "PRESCRIBED"
  PROVE  \E top \in Considered(i) :
           /\ Preferred(i) = {top}
           /\ Relate(i) = Decision("PRESCRIBED", top.id, {})
           /\ MissingAuthority(top, i.available) = {}
<1> DEFINE top == CHOOSE c \in Considered(i) : Preferred(i) = {c}
<1>1. \E c \in Considered(i) : Preferred(i) = {c}
  BY DEF Relate, Decision
<1>2. top \in Considered(i) /\ Preferred(i) = {top}
  BY <1>1
<1>3. /\ Relate(i) = Decision("PRESCRIBED", top.id, {})
      /\ MissingAuthority(top, i.available) = {}
  BY <1>1 DEF Relate, Decision
<1> QED BY <1>2, <1>3

LEMMA InputStaysTyped == RelationSpec => []InputIsTyped
<1>1. RelationInit => InputIsTyped
  BY DEF RelationInit, InputIsTyped, Inputs
<1>2. InputIsTyped /\ [RelationNext]_input => InputIsTyped'
  <2> SUFFICES ASSUME InputIsTyped, [RelationNext]_input PROVE InputIsTyped'
    OBVIOUS
  <2>1. ASSUME NEW k \in Capabilities, PresentAuthority(k) \/ WithdrawAuthority(k)
        PROVE  InputIsTyped'
    BY <2>1 DEF InputIsTyped, Inputs, PresentAuthority, WithdrawAuthority
  <2>2. ASSUME NEW t \in Identities \cup {NoTransition}, Target(t)
        PROVE  InputIsTyped'
    BY <2>2 DEF InputIsTyped, Inputs, Target
  <2>3. ASSUME NEW c \in Pool, BecomeAdmissible(c) \/ BecomeInadmissible(c)
        PROVE  InputIsTyped'
    BY <2>3 DEF InputIsTyped, Inputs, BecomeAdmissible, BecomeInadmissible
  <2>4. CASE UNCHANGED input
    BY <2>4 DEF InputIsTyped
  <2> QED BY <2>1, <2>2, <2>3, <2>4 DEF RelationNext
<1> QED BY <1>1, <1>2, PTL DEF RelationSpec

\* Every input of the laws has a "nothing applies" kind that is no selection.
LEMMA NothingAppliesIsNoSelection ==
  ASSUME InputIsTyped
  PROVE  NoCandidateKind(input) \notin {"PRESCRIBED", "FRONTIER"}
BY NoCandidateKindsAreTyped DEF InputIsTyped, Inputs, NoCandidateKind

\* Whatever an untargeted call prescribes, the call that names it prescribes
\* too: Apply, which resolves again, cannot be refused by the same relation.
THEOREM TargetedAgreement == RelationSpec => []TargetedAgreesWithUntargeted
<1>1. InputIsTyped => TargetedAgreesWithUntargeted
  <2> SUFFICES ASSUME InputIsTyped, Relate(input).kind = "PRESCRIBED"
               PROVE  Relate([input EXCEPT !.requested = Relate(input).transition])
                        = Decision("PRESCRIBED", Relate(input).transition, {})
    BY DEF TargetedAgreesWithUntargeted
  <2>1. PICK top \in Considered(input) :
           /\ Relate(input) = Decision("PRESCRIBED", top.id, {})
           /\ MissingAuthority(top, input.available) = {}
    BY PrescribedIsPreferred, NothingAppliesIsNoSelection
  <2> DEFINE named == [input EXCEPT !.requested = top.id]
  <2>2. top \in input.candidates /\ top \in Pool
    BY DEF Considered, InputIsTyped, Inputs
  <2>3. Relate(input).transition = top.id
    BY <2>1 DEF Decision
  <2>4. /\ named.candidates = input.candidates
        /\ named.requested = top.id
        /\ named.available = input.available
    BY DEF InputIsTyped, Inputs
  <2>5. top.id # NoTransition
    BY <2>2, PoolIsTyped
  <2>6. Considered(named) = {top}
    BY <2>2, <2>4, <2>5, PoolIsTyped DEF Considered, InputIsTyped, Inputs
  <2>7. Preferred(named) = {top}
    BY <2>2, <2>6, PoolIsTyped DEF Preferred, NotAfter
  <2>8. (CHOOSE c \in Considered(named) : Preferred(named) = {c}) = top
    BY <2>6, <2>7
  <2> HIDE DEF named
  <2>9. Relate(named) = Decision("PRESCRIBED", top.id, {})
    BY <2>1, <2>4, <2>5, <2>6, <2>7, <2>8 DEF Relate
  <2> QED BY <2>3, <2>9 DEF named
<1> QED BY <1>1, InputStaysTyped, PTL

\* Two inputs that differ in authority alone settle on the same transition,
\* and the one with more authority keeps a prescription.
LEMMA AuthorityIsReadAtTheHead ==
  ASSUME NEW i, NEW j,
         j.requested = i.requested, j.marked = i.marked,
         j.noCandidate = i.noCandidate, j.candidates = i.candidates,
         NoCandidateKind(i) \notin {"PRESCRIBED", "FRONTIER"}
  PROVE  /\ Settled(j) = Settled(i)
         /\ Relate(i).kind = "PRESCRIBED" /\ i.available \subseteq j.available
              => Relate(j).kind = "PRESCRIBED"
<1>1. /\ Considered(j) = Considered(i)
      /\ NoCandidateKind(j) = NoCandidateKind(i)
  BY DEF Considered, NoCandidateKind
<1>2. Preferred(j) = Preferred(i)
  BY <1>1 DEF Preferred
<1>3. CASE i.marked /\ i.requested = NoTransition
  <2>1. Relate(i) = Decision("MARKED", NoTransition, {}) /\ Relate(j) = Relate(i)
    BY <1>3 DEF Relate
  <2> QED BY <2>1 DEF Settled, Decision
<1>4. CASE ~(i.marked /\ i.requested = NoTransition) /\ Considered(i) = {}
  <2>1. /\ Relate(i) = IF i.requested # NoTransition
                        THEN Decision("REFUSED", i.requested, {})
                        ELSE Decision(NoCandidateKind(i), NoTransition, {})
        /\ Relate(j) = Relate(i)
    BY <1>1, <1>4 DEF Relate
  <2>2. Relate(i).kind \notin {"PRESCRIBED", "FRONTIER"}
    BY <2>1 DEF Decision
  <2> QED BY <2>1, <2>2 DEF Settled
<1>5. CASE ~(i.marked /\ i.requested = NoTransition) /\ Considered(i) # {}
  <2> DEFINE only(c) == Preferred(i) = {c}
             top == CHOOSE c \in Considered(i) : only(c)
             found(a) == IF MissingAuthority(top, a) = {}
                           THEN Decision("PRESCRIBED", top.id, {})
                           ELSE Decision("FRONTIER", top.id, {top.id})
             several == Decision("FRONTIER", NoTransition,
                                 {c.id : c \in Preferred(i)})
  <2>1. Relate(i) = IF \E c \in Considered(i) : only(c)
                      THEN found(i.available) ELSE several
    BY <1>5 DEF Relate
  <2>2. Relate(j) = IF \E c \in Considered(i) : only(c)
                      THEN found(j.available) ELSE several
    BY <1>1, <1>2, <1>5 DEF Relate
  <2>3. ASSUME NEW a
        PROVE  /\ found(a).kind \in {"PRESCRIBED", "FRONTIER"}
               /\ found(a).transition = top.id
               /\ found(a).kind = "PRESCRIBED" <=> MissingAuthority(top, a) = {}
    BY DEF Decision
  <2>4. several.kind = "FRONTIER" /\ several.transition = NoTransition
    BY DEF Decision
  <2>5. i.available \subseteq j.available /\ MissingAuthority(top, i.available) = {}
          => MissingAuthority(top, j.available) = {}
    BY DEF MissingAuthority
  <2> HIDE DEF found, several, top, only
  <2> QED BY <2>1, <2>2, <2>3, <2>4, <2>5 DEF Settled
<1> QED BY <1>3, <1>4, <1>5

\* Presenting or withdrawing authority never changes which transition the
\* relation prefers, and presenting more never loses a prescription.
THEOREM AuthorityIsComparedLast == RelationSpec => AuthorityNeverSelects
<1> DEFINE Same == /\ input'.available # input.available
                   /\ input'.candidates = input.candidates
                   /\ input'.requested = input.requested
           Kept == /\ Settled(input') = Settled(input)
                   /\ Relate(input).kind = "PRESCRIBED"
                        /\ input.available \subseteq input'.available
                        => Relate(input').kind = "PRESCRIBED"
<1>1. ASSUME InputIsTyped, RelationNext, Same
      PROVE  Kept
  <2>1. input'.marked = input.marked /\ input'.noCandidate = input.noCandidate
    BY <1>1 DEF RelationNext, InputIsTyped, Inputs, PresentAuthority, WithdrawAuthority,
                Target, BecomeAdmissible, BecomeInadmissible
  <2> QED BY <1>1, <2>1, NothingAppliesIsNoSelection, AuthorityIsReadAtTheHead
<1>2. InputIsTyped /\ [RelationNext]_input => [Same => Kept]_input
  BY <1>1
<1> HIDE DEF Same, Kept
<1>3. RelationSpec => [][Same => Kept]_input
  BY <1>2, InputStaysTyped, PTL DEF RelationSpec
<1> QED BY <1>3, PTL DEF Same, Kept, AuthorityNeverSelects
-----------------------------------------------------------------------------
(***************************************************************************)
(* Declared effects.                                                       *)
(***************************************************************************)

LEMMA DeclarationFields ==
  ASSUME NEW d \in Declarations
  PROVE  /\ \A c \in Facets : /\ d.asks[c] \in (SUBSET BOOLEAN) \ {{}}
                              /\ d.wants[c] \in (SUBSET BOOLEAN) \ {{}}
                              /\ d.pre[c] \in (SUBSET BOOLEAN) \ {{}}
                              /\ d.facets[c] \in {"unchanged", "bind", "free"}
         /\ \A f \in Fields :
              d.fields[f] \in {"unchanged", "empty", "value", "ambient"}
         /\ d.phase \in Phases \cup {"unchanged"}
         /\ d.from \subseteq Phases /\ d.to \subseteq Phases
  BY DEF Declarations, Conditions

\* The invariants of a facet are closed: where it is bound in the result, all
\* it demands is filled.
LEMMA FacetsAreClosed ==
  ASSUME NEW d \in Declarations, Accepted(d), ~LeavesAGap(d),
         NEW s \in States, Valid(s), Enabled(d, s), NEW known,
         NEW c \in Reduced(d, s, known).bound
  PROVE  Needs[c] \subseteq Reduced(d, s, known).filled
<1> DEFINE t == Reduced(d, s, known)
<1>1. /\ c \in Facets
      /\ (d.facets[c] = "bind") \/ (d.facets[c] = "unchanged" /\ c \in s.bound)
  BY DEF Reduced
<1>2. ~ResultIs(d, c, FALSE)
  <2>1. d.facets[c] # "free" BY <1>1
  <2>2. d.facets[c] = "unchanged" => ~SourceIs(d, c, FALSE)
    BY <1>1 DEF Enabled, Meets, SourceIs
  <2> QED BY <2>1, <2>2 DEF ResultIs
<1>3. \A f \in Needs[c] : f \in Fields /\ d.fields[f] # "ambient"
  BY <1>1, <1>2 DEF LeavesAGap, Fields
<1>4. SUFFICES ASSUME NEW f \in Needs[c] PROVE f \in t.filled
  OBVIOUS
<1>5. t.filled = FilledBy(d, s, known)
  BY DEF Reduced
<1>6. d.fields[f] \in {"unchanged", "empty", "value"}
  BY <1>3, <1>4, DeclarationFields
<1>7. c \in s.bound => f \in s.filled
  BY <1>4 DEF Valid
<1>8. CASE ResultIs(d, c, TRUE)
  <2>1. d.fields[f] # "empty" /\ (d.fields[f] = "unchanged" => SourceIs(d, c, TRUE))
    BY <1>1, <1>4, <1>8 DEF Accepted, Closed, PreservesOrProduces
  <2>2. SourceIs(d, c, TRUE) => c \in s.bound
    BY <1>1 DEF SourceIs, Enabled, Meets
  <2> QED BY <1>3, <1>4, <1>5, <1>6, <1>7, <2>1, <2>2 DEF FilledBy
<1>9. CASE ~ResultIs(d, c, TRUE)
  <2>1. c \in s.bound BY <1>1, <1>9 DEF ResultIs
  <2>2. d.fields[f] # "empty"
    BY <1>1, <1>2, <1>4, <1>9 DEF LeavesAGap, Undecided
  <2> QED BY <1>3, <1>4, <1>5, <1>6, <1>7, <2>1, <2>2 DEF FilledBy
<1> QED BY <1>8, <1>9

\* The result is not in the recovery phase without a recovery.
LEMMA RecoveryIsClosed ==
  ASSUME NEW d \in Declarations, Accepted(d), ~LeavesAGap(d),
         NEW s \in States, Valid(s), Enabled(d, s), NEW known,
         Reduced(d, s, known).phase = "recovery"
  PROVE  "recovery" \in Reduced(d, s, known).bound
<1>1. "recovery" \in Facets /\ d.facets["recovery"] \in {"unchanged", "bind", "free"}
  BY NeedsAreTyped, DeclarationFields
<1>2. SUFFICES (d.facets["recovery"] = "bind")
                 \/ (d.facets["recovery"] = "unchanged" /\ "recovery" \in s.bound)
  BY <1>1 DEF Reduced
<1>3. CASE d.phase = "unchanged"
  <2>1. s.phase = "recovery" /\ "recovery" \in d.from
    BY <1>3 DEF Reduced, Enabled
  <2>2. "recovery" \in s.bound BY <2>1 DEF Valid
  <2>3. d.facets["recovery"] # "free" BY <1>3, <2>1 DEF LeavesAGap
  <2> QED BY <1>1, <2>2, <2>3
<1>4. CASE d.phase # "unchanged"
  <2>1. d.phase = "recovery" BY <1>4 DEF Reduced
  <2>2. ResultIs(d, "recovery", TRUE)
    BY <1>4, <2>1 DEF Accepted, Closed, ResultPhaseIn
  <2>3. SourceIs(d, "recovery", TRUE) => "recovery" \in s.bound
    BY <1>1 DEF SourceIs, Enabled, Meets
  <2> QED BY <2>2, <2>3 DEF ResultIs
<1> QED BY <1>3, <1>4

\* A terminal stays established only where a delivery ends.
LEMMA TerminalIsClosed ==
  ASSUME NEW d \in Declarations, Accepted(d), ~LeavesAGap(d),
         NEW s \in States, Valid(s), Enabled(d, s), NEW known,
         "terminal" \in Reduced(d, s, known).bound
  PROVE  Reduced(d, s, known).phase = "ended"
<1>1. "terminal" \in Facets BY NeedsAreTyped
<1>2. (d.facets["terminal"] = "bind")
        \/ (d.facets["terminal"] = "unchanged" /\ "terminal" \in s.bound)
  BY DEF Reduced
<1>3. ~ResultIs(d, "terminal", FALSE)
  BY <1>1, <1>2 DEF ResultIs, SourceIs, Enabled, Meets
<1>4. d.phase \in Phases \cup {"unchanged"} /\ s.phase \in Phases
  BY DeclarationFields DEF States
<1>5. CASE ResultIs(d, "terminal", TRUE)
  <2>1. ResultPhaseIn(d, {"ended"}) BY <1>5 DEF Accepted, Closed
  <2> QED BY <2>1 DEF ResultPhaseIn, Reduced, Enabled
<1>6. CASE ~ResultIs(d, "terminal", TRUE)
  <2>1. d.phase \in {"unchanged", "ended"}
    BY <1>3, <1>4, <1>6 DEF LeavesAGap, Undecided, Phases
  <2>2. "terminal" \in s.bound BY <1>2, <1>6 DEF ResultIs
  <2>3. s.phase = "ended" BY <2>2 DEF Valid
  <2> QED BY <2>1, <2>3 DEF Reduced
<1> QED BY <1>5, <1>6

\* What a declaration changes, it owns.
LEMMA ChangesAreOwned ==
  ASSUME NEW d \in Declarations, Accepted(d),
         NEW s \in States, NEW known
  PROVE  ChangedFacets(s, Reduced(d, s, known)) \subseteq d.owned
<1> DEFINE t == Reduced(d, s, known)
<1>1. "control" \in d.owned /\ \A x \in Assigned(d) : Owner[x] \in d.owned
  BY DEF Accepted, OwnershipAllowed
<1>2. \A c \in (s.bound \ t.bound) \cup (t.bound \ s.bound) : c \in Assigned(d)
  BY DeclarationFields DEF States, Reduced, Assigned
<1>3. \A f \in (s.filled \ t.filled) \cup (t.filled \ s.filled) : f \in Assigned(d)
  BY DeclarationFields DEF States, Reduced, FilledBy, Assigned
<1> QED BY <1>1, <1>2, <1>3 DEF ChangedFacets

\* The closure of accepted declarations, for every declaration and state.
LEMMA AcceptedApply ==
  ASSUME NEW d \in Declarations, Accepted(d), ~LeavesAGap(d),
         NEW s \in ValidStates, Enabled(d, s), NEW known
  PROVE  ~Refused(d, s, known)
<1> DEFINE t == Reduced(d, s, known)
<1>1. s \in States /\ Valid(s) BY DEF ValidStates
<1>2. Meets(d.pre, s)
  BY DeclarationFields DEF Accepted, PreconditionsFollow, Enabled, Meets
<1>3. t.phase \in d.to
  BY DEF Accepted, AssignmentsMatchTargets, Closed, PreservedPhaseIsDeclared,
         Enabled, Reduced
<1>4. ChangedFacets(s, t) \subseteq d.owned
  BY <1>1, ChangesAreOwned
<1>5. \A c \in t.bound : Needs[c] \subseteq t.filled
  BY <1>1, FacetsAreClosed
<1>6. t.phase = "recovery" => "recovery" \in t.bound
  BY <1>1, RecoveryIsClosed
<1>7. "terminal" \in t.bound => t.phase = "ended"
  BY <1>1, TerminalIsClosed
<1>8. Valid(t)
  BY <1>5, <1>6, <1>7 DEF Valid
<1> QED BY <1>2, <1>3, <1>4, <1>8 DEF Refused

\* Every declaration an author can write is a declaration.
THEOREM DeclarationsAreTyped == EffectsSpec => []DeclarationIsTyped
<1>1. EffectsInit => DeclarationIsTyped
  <2>1. [c \in Facets |-> BOOLEAN] \in Conditions
    BY DEF Conditions
  <2>2. /\ [c \in Facets |-> "unchanged"] \in [Facets -> {"unchanged", "bind", "free"}]
        /\ [f \in Fields |-> "unchanged"]
             \in [Fields -> {"unchanged", "empty", "value", "ambient"}]
    OBVIOUS
  <2> QED BY <2>1, <2>2 DEF EffectsInit, DeclarationIsTyped, Declarations
<1>2. DeclarationIsTyped /\ [EffectsNext]_declared => DeclarationIsTyped'
  BY DEF DeclarationIsTyped, EffectsNext, Become, Offer, Disown, NotFrom, NotTo, Ask, Want,
         Require, Move, Bind, Fill, Accompany
<1> QED BY <1>1, <1>2, PTL DEF EffectsSpec

\* Declarative assignments close the invariants of the durable state.
THEOREM EffectsAreClosed == EffectsSpec => []AcceptedEffectsApply
<1>1. DeclarationIsTyped => AcceptedEffectsApply
  BY AcceptedApply DEF DeclarationIsTyped, AcceptedEffectsApply
<1> QED BY <1>1, DeclarationsAreTyped, PTL
-----------------------------------------------------------------------------
(***************************************************************************)
(* Composition.                                                            *)
(***************************************************************************)

-----------------------------------------------------------------------------
\* The part of a composition that a smaller one keeps.
LEMMA PartOfAComposition ==
  ASSUME NEW S, NEW R \in SUBSET S
  PROVE  /\ DOMAIN Chosen(R) = R /\ DOMAIN Chosen(S) = S
         /\ \A x \in R : Chosen(R)[x] = Chosen(S)[x]
         /\ Registry(Chosen(R)) \subseteq Registry(Chosen(S))
<1>1. /\ DOMAIN Chosen(R) = R /\ DOMAIN Chosen(S) = S
      /\ \A x \in R : Chosen(R)[x] = Chosen(S)[x]
  BY DEF Chosen
<1>2. Registry(Chosen(R)) \subseteq Registry(Chosen(S))
  BY <1>1 DEF Registry
<1> QED BY <1>1, <1>2

\* The transitions of the registry by their origin.
LEMMA DeclaredBy ==
  ASSUME NEW ms, NEW d \in Registry(ms)
  PROVE  \/ d \in Registry(Chosen({}))
         \/ d.owner \in DOMAIN ms /\ d.t \in ms[d.owner].transitions
              /\ d.origin = "extension"
  BY PartOfAComposition DEF Registry

LEMMA DeclaredOfAnExtension ==
  ASSUME NEW ms, NEW e \in DOMAIN ms, NEW t \in ms[e].transitions
  PROVE  [t |-> t, origin |-> "extension", owner |-> e] \in Registry(ms)
  BY DEF Registry

LEMMA RecoveriesAreDeclared ==
  ASSUME NEW e, NEW m, ValidExtension(e, m), NEW id \in m.recoveries
  PROVE  \E t \in m.transitions : t.id = id /\ t.class = "recovery"
BY DEF ValidExtension

\* What is left after an extension nobody depends on is disabled.
LEMMA TheRestCompiles ==
  ASSUME NEW e \in enabled, Compiles(Chosen(enabled)), Compiles(Chosen({})),
         \A x \in enabled \ {e} : e \notin manifests[x].deps
  PROVE  Compiles(Chosen(enabled \ {e}))
<1> DEFINE all == Chosen(enabled)
           rest == Chosen(enabled \ {e})
<1>1. /\ DOMAIN rest = enabled \ {e} /\ DOMAIN all = enabled
      /\ \A x \in enabled \ {e} : rest[x] = all[x]
      /\ Registry(rest) \subseteq Registry(all)
  BY PartOfAComposition
<1> HIDE DEF all, rest
<1>2. \A x \in DOMAIN rest : /\ ValidExtension(x, rest[x])
                             /\ OwnTransitions(x, rest[x])
                             /\ \A r \in rest[x].resources : Namespaced(r, x)
  BY <1>1 DEF Compiles, all
<1>3. ResourcesDoNotOverlap(rest)
  <2>1. DOMAIN Taken(rest) \subseteq DOMAIN Taken(all)
    BY <1>1 DEF Taken
  <2>2. \A x \in DOMAIN Taken(rest) : Taken(rest)[x] \subseteq Taken(all)[x]
    BY <1>1 DEF Taken
  <2> QED BY <2>1, <2>2 DEF Compiles, ResourcesDoNotOverlap, all
<1>4. FactsDoNotOverlap(rest)
  BY <1>1 DEF Compiles, FactsDoNotOverlap, all
<1>5. DependenciesHold(rest)
  <2>1. \A x \in DOMAIN rest : rest[x].deps \subseteq DOMAIN rest
    BY <1>1 DEF Compiles, DependenciesHold, all, Chosen
  <2>2. \A S \in (SUBSET DOMAIN rest) \ {{}} : \E x \in S : rest[x].deps \cap S = {}
    BY <1>1 DEF Compiles, DependenciesHold, all
  <2> QED BY <2>1, <2>2 DEF DependenciesHold
<1>6. RegistryHolds(rest)
  <2>1. ASSUME NEW d \in Registry(rest), d.t.recovery # NoTransition
        PROVE  \E x \in Registry(rest) : x.t.id = d.t.recovery /\ x.t.class = "recovery"
    <3>1. Registry(Chosen({})) \subseteq Registry(rest)
      BY PartOfAComposition DEF rest
    <3>2. CASE d \in Registry(Chosen({}))
      BY <2>1, <3>1, <3>2 DEF Compiles, RegistryHolds
    <3>3. CASE d.owner \in DOMAIN rest /\ d.t \in rest[d.owner].transitions
      <4>1. d.t.recovery \in {Escalation} \cup rest[d.owner].recoveries
        BY <1>2, <2>1, <3>3 DEF OwnTransitions
      <4>2. CASE d.t.recovery = Escalation
        <5>1. PICK t \in Core.transitions : t.id = Escalation /\ t.class = "recovery"
          BY EscalationIsACoreRecovery
        <5>2. [t |-> t, origin |-> "core", owner |-> Core.id] \in Registry(rest)
          BY DEF Registry
        <5> QED BY <4>2, <5>1, <5>2
      <4>3. CASE d.t.recovery \in rest[d.owner].recoveries
        <5>1. PICK t \in rest[d.owner].transitions :
                t.id = d.t.recovery /\ t.class = "recovery"
          BY <1>2, <3>3, <4>3, RecoveriesAreDeclared
        <5>2. [t |-> t, origin |-> "extension", owner |-> d.owner] \in Registry(rest)
          BY <3>3, DeclaredOfAnExtension
        <5> QED BY <5>1, <5>2
      <4> QED BY <4>1, <4>2, <4>3
    <3> QED BY <3>2, <3>3, DeclaredBy
  <2> QED BY <1>1, <2>1 DEF Compiles, RegistryHolds, all
<1>7. ContractsHold(rest)
  BY <1>1 DEF Compiles, ContractsHold, all
<1> QED BY <1>2, <1>3, <1>4, <1>5, <1>6, <1>7 DEF Compiles, rest

\* An extension that no other one depends on can be disabled.
THEOREM ExtensionsCanBeDisabled == CompositionSpec => []UnusedExtensionsCanBeDisabled
<1>1. UnusedExtensionsCanBeDisabled
  BY TheRestCompiles DEF UnusedExtensionsCanBeDisabled
<1> QED BY <1>1, PTL

-----------------------------------------------------------------------------
\* A transition writes what its component takes.
LEMMA WritesAreTaken ==
  ASSUME NEW ms, Compiles(ms), NEW d \in Registry(ms)
  PROVE  d.owner \in DOMAIN Taken(ms) /\ d.t.writes \subseteq Taken(ms)[d.owner]
<1>1. CASE d.origin = "extension"
  <2>1. d.owner \in DOMAIN ms /\ d.t \in ms[d.owner].transitions
    BY <1>1 DEF Registry
  <2>2. d.owner \notin {Core.id, Runtime.id} /\ d.t.writes \subseteq ms[d.owner].resources
    BY <2>1 DEF Compiles, ValidExtension, OwnTransitions
  <2> QED BY <2>1, <2>2 DEF Taken
<1>2. CASE d.origin # "extension"
  <2>1. \/ d.owner = Core.id /\ d.t \in Core.transitions
        \/ d.owner = Runtime.id /\ d.t \in Runtime.transitions
    BY <1>2 DEF Registry
  <2> QED BY <2>1 DEF Taken, Written
<1> QED BY <1>1, <1>2

\* Every name has one owner.
THEOREM NamesAreOwned == CompositionSpec => []NamesHaveOneOwner
<1>1. NamesHaveOneOwner
  <2> DEFINE ms == Chosen(enabled)
  <2>1. SUFFICES ASSUME Compiles(ms), NEW d \in Registry(ms), NEW x \in Registry(ms),
                        d.owner # x.owner
                 PROVE  /\ d.t.writes \cap x.t.writes = {}
                        /\ d.t.id # x.t.id
                        /\ \A f \in DOMAIN d.t.then \cap DOMAIN x.t.then :
                             \/ f \in d.t.assigns \cup x.t.assigns
                             \/ {d.origin, x.origin} # {"extension"}
    BY DEF NamesHaveOneOwner
  <2> HIDE DEF ms
  <2>2. d.t.writes \cap x.t.writes = {}
    BY <2>1, WritesAreTaken DEF Compiles, ResourcesDoNotOverlap
  <2>3. d.t.id # x.t.id
    BY <2>1 DEF Compiles, RegistryHolds
  <2>4. ASSUME NEW f \in DOMAIN d.t.then \cap DOMAIN x.t.then,
               d.origin = "extension", x.origin = "extension"
        PROVE  f \in d.t.assigns \cup x.t.assigns
    <3>1. /\ d.owner \in DOMAIN ms /\ d.t \in ms[d.owner].transitions
          /\ x.owner \in DOMAIN ms /\ x.t \in ms[x.owner].transitions
      BY <2>4 DEF Registry
    <3>2. /\ f \notin d.t.assigns => f \in ms[d.owner].facts
          /\ f \notin x.t.assigns => f \in ms[x.owner].facts
      BY <2>1, <2>4, <3>1 DEF Compiles, ValidExtension
    <3> QED BY <2>1, <3>1, <3>2 DEF Compiles, FactsDoNotOverlap
  <2> QED BY <2>2, <2>3, <2>4
<1> QED BY <1>1, PTL

-----------------------------------------------------------------------------
\* The relation reads, of a request that targets nothing, the candidates it
\* considers.
LEMMA DecisionFromTheConsidered ==
  ASSUME NEW i, NEW j,
         i.requested = NoTransition, j.requested = NoTransition,
         i.marked = j.marked, i.noCandidate = j.noCandidate,
         i.available = j.available, Considered(i) = Considered(j)
  PROVE  Relate(i) = Relate(j)
<1>1. Preferred(i) = Preferred(j) BY DEF Preferred
<1>2. NoCandidateKind(i) = NoCandidateKind(j) BY DEF NoCandidateKind
<1> QED BY <1>1, <1>2 DEF Relate

\* An extension that has no obligation on an objective offers nothing to a
\* request for it, unless it is open-ended or a permitted recovery.
LEMMA NothingIsOffered ==
  ASSUME NEW ms, Compiles(ms), NEW w, NEW o, NEW d \in Admissible(ms, w, o),
         d.origin = "extension",
         \A obligation \in ms[d.owner].obligations : obligation.target # o,
         ~OpenEnded(d.t), d.t.id \notin w.permitted
  PROVE  ~ImplicitlySelectable(d.t)
<1>1. d \in Registry(ms) /\ w.phase \in d.t.from /\ SupportsObjective(d.t, o)
      /\ (w.phase = "RECOVERY" => d.t.id \in w.permitted)
  BY DEF Admissible
<1>2. d.owner \in DOMAIN ms /\ d.t \in ms[d.owner].transitions
  BY <1>1 DEF Registry
<1>3. ValidTransition(d.t, "extension")
  BY <1>1 DEF Compiles, RegistryHolds
<1>4. d.t.selection \in {"OBJECTIVE_REQUIRED", "EXTENSION_RECOVERY",
                        "EXPLICIT_ONLY", "OBSERVED_EXTERNAL"}
  BY <1>2 DEF Compiles, OwnTransitions
<1>5. d.t.selection # "OBJECTIVE_REQUIRED"
  <2>1. SUFFICES ASSUME d.t.selection = "OBJECTIVE_REQUIRED" PROVE FALSE
    OBVIOUS
  <2>2. ValidExtension(d.owner, ms[d.owner])
    BY <1>2 DEF Compiles
  <2>3. SelectedForObligations(d.t, ms[d.owner])
    BY <1>2, <2>1, <2>2 DEF ValidExtension
  <2>4. d.t.scope # "optional-preserve"
    BY <2>1 DEF OpenEnded
  <2>5. o \in d.t.targets
    BY <1>1, <2>3, <2>4 DEF SelectedForObligations, SupportsObjective
  <2> QED BY <2>3, <2>5 DEF SelectedForObligations
<1>6. d.t.selection # "EXTENSION_RECOVERY"
  BY <1>1, <1>3 DEF ValidTransition, SelectionOwned, OpenEnded
<1> QED BY <1>4, <1>5, <1>6 DEF ImplicitlySelectable, Rank

\* Extensions are additive.
THEOREM ExtensionsAdd == CompositionSpec => []ExtensionsAreAdditive
<1>1. ExtensionsAreAdditive
  <2> DEFINE ms == Chosen(enabled)
             none == Chosen({})
  <2>1. SUFFICES ASSUME Compiles(ms), NEW w \in Snapshots, NEW o \in Runtime.supported
        PROVE  /\ Marked(ms, w, o) => Marked(none, w, o)
               /\ (\A e \in enabled :
                     /\ \A obligation \in manifests[e].obligations : obligation.target # o
                     /\ \A t \in manifests[e].transitions :
                          ~OpenEnded(t) /\ t.id \notin w.permitted)
                    => Resolve(ms, w, o) = Resolve(none, w, o)
    BY DEF ExtensionsAreAdditive
  <2>2. /\ DOMAIN ms = enabled /\ \A e \in enabled : ms[e] = manifests[e]
        /\ DOMAIN none = {} /\ Registry(none) \subseteq Registry(ms)
    BY PartOfAComposition DEF Chosen
  <2> HIDE DEF ms, none
  <2>3. Asked(none, o) \subseteq Asked(ms, o)
    BY <2>2 DEF Asked
  <2>4. ASSUME \A e \in enabled :
                 /\ \A obligation \in manifests[e].obligations : obligation.target # o
                 /\ \A t \in manifests[e].transitions :
                      ~OpenEnded(t) /\ t.id \notin w.permitted
        PROVE  Resolve(ms, w, o) = Resolve(none, w, o)
    <3>1. Asked(ms, o) = Asked(none, o)
      BY <2>2, <2>4 DEF Asked
    <3>2. Marked(ms, w, o) = Marked(none, w, o)
      BY <3>1 DEF Marked
    <3>3. Admissible(none, w, o) \subseteq Admissible(ms, w, o)
      BY <2>2 DEF Admissible
    <3>4. \A d \in Admissible(ms, w, o) :
            d \notin Admissible(none, w, o) => ~ImplicitlySelectable(d.t)
      <4>1. SUFFICES ASSUME NEW d \in Admissible(ms, w, o), d \notin Admissible(none, w, o)
                     PROVE  ~ImplicitlySelectable(d.t)
        OBVIOUS
      <4>2. d \in Registry(ms) /\ d \notin Registry(none)
        BY <4>1 DEF Admissible
      <4>3. d.origin = "extension" /\ d.owner \in enabled /\ d.t \in manifests[d.owner].transitions
        BY <2>2, <4>2 DEF Registry
      <4> QED BY <2>1, <2>2, <2>4, <4>1, <4>3, NothingIsOffered
    <3> DEFINE Offered(d) == Candidate(d.t.id, Rank(d.t.selection), d.t.priority,
                               ImplicitlySelectable(d.t) /\ ~Satisfies(d.t.then, w),
                               {}, d.t.authority)
               Request(p) == [requested |-> NoTransition, marked |-> Marked(p, w, o),
                 noCandidate |-> IF w.phase = "RECOVERY" THEN "BLOCKED" ELSE "UNRESOLVED",
                 available |-> w.authority,
                 candidates |-> {Offered(d) : d \in Admissible(p, w, o)}]
    <3>5. \A d : Offered(d).selectable = (ImplicitlySelectable(d.t) /\ ~Satisfies(d.t.then, w))
      BY DEF Candidate
    <3> HIDE DEF Offered
    <3>6. Considered(Request(ms)) = Considered(Request(none))
      BY <3>3, <3>4, <3>5 DEF Considered
    <3>7. Relate(Request(ms)) = Relate(Request(none))
      BY <3>2, <3>6, DecisionFromTheConsidered
    <3> QED BY <3>7 DEF Resolve, Offered
  <2> QED BY <2>3, <2>4 DEF Marked
<1> QED BY <1>1, PTL
================================================================================
