---------------------------- MODULE RelationLaws ----------------------------
(***************************************************************************)
(* The laws the callers of the transition relation rely on.  The variable  *)
(* `input` is what a caller hands to Relate; the actions are the ways in   *)
(* which two consecutive calls differ: an authority receipt is presented   *)
(* or withdrawn, the caller targets a transition or stops doing so, and a  *)
(* transition becomes admissible or stops being so.                        *)
(***************************************************************************)
EXTENDS TransitionRelation

CONSTANTS
  Pool,              \* the candidates that may become admissible
  Capabilities,      \* the capabilities an authority receipt may grant
  NoCandidateKinds   \* the decision a domain asks for when nothing applies

\* Identities are unique and not empty (program.go L34, L147); ranks and
\* priorities are integers.
ASSUME PoolIsTyped ==
  /\ \A c, d \in Pool : c.id = d.id => c = d
  /\ \A c \in Pool : c.id # NoTransition /\ c.rank \in Int /\ c.priority \in Int

\* A caller's kind for "nothing applies" is never one of a selection.
ASSUME NoCandidateKindsAreTyped ==
  {"PRESCRIBED", "FRONTIER"} \cap NoCandidateKinds = {}

VARIABLE input

Identities == {c.id : c \in Pool}

Inputs ==
  [requested : Identities \cup {NoTransition}, marked : BOOLEAN,
   noCandidate : NoCandidateKinds, candidates : SUBSET Pool,
   available : SUBSET Capabilities]

InputIsTyped == input \in Inputs

RelationInit ==
  input \in {i \in Inputs : i.requested = NoTransition
                             /\ i.candidates = {} /\ i.available = {}}

PresentAuthority(k) ==
  k \notin input.available /\ input' = [input EXCEPT !.available = @ \cup {k}]

WithdrawAuthority(k) ==
  k \in input.available /\ input' = [input EXCEPT !.available = @ \ {k}]

Target(t) ==
  input.requested # t /\ input' = [input EXCEPT !.requested = t]

BecomeAdmissible(c) ==
  c \notin input.candidates
    /\ input' = [input EXCEPT !.candidates = @ \cup {c}]

BecomeInadmissible(c) ==
  c \in input.candidates /\ input' = [input EXCEPT !.candidates = @ \ {c}]

RelationNext ==
  \/ \E k \in Capabilities : PresentAuthority(k) \/ WithdrawAuthority(k)
  \/ \E t \in Identities \cup {NoTransition} : Target(t)
  \/ \E c \in Pool : BecomeAdmissible(c) \/ BecomeInadmissible(c)

RelationSpec == RelationInit /\ [][RelationNext]_input

-----------------------------------------------------------------------------
\* The transition the relation settled on before it looked at authority.
Settled(i) == IF Relate(i).kind \in {"PRESCRIBED", "FRONTIER"}
                THEN Relate(i).transition ELSE NoTransition

\* Authority is compared last: presenting or withdrawing a receipt decides
\* only whether the preferred transition is prescribed or is a frontier.  It
\* never makes the relation fall through to another transition for which the
\* caller happens to hold authority, and more authority never loses a
\* prescription (relation.go L134: missingAuthority is read for the head of
\* the sorted candidates only).
AuthorityNeverSelects ==
  [][input'.available # input.available
         /\ input'.candidates = input.candidates /\ input'.requested = input.requested
       => /\ Settled(input') = Settled(input)
          /\ Relate(input).kind = "PRESCRIBED"
               /\ input.available \subseteq input'.available
               => Relate(input').kind = "PRESCRIBED"]_input

\* What a caller that targets nothing is told to do is exactly what it gets
\* when it asks for it by name: Apply, which targets the prescribed
\* transition, cannot be refused by the relation that prescribed it.
TargetedAgreesWithUntargeted ==
  LET decision == Relate(input) IN
  decision.kind = "PRESCRIBED" =>
    Relate([input EXCEPT !.requested = decision.transition]) =
      Decision("PRESCRIBED", decision.transition, {})
=============================================================================
