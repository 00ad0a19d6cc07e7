------------------------- MODULE TransitionRelation -------------------------
(***************************************************************************)
(* The canonical transition-selection relation of boatstack/kernel.  It is *)
(* the one selector of the program: the kernel runtime, the software       *)
(* delivery supervisor and the explicit (`Requested`) form of both call    *)
(* it.  A candidate has already satisfied its program and domain           *)
(* predicates; the relation alone applies targeting, ordering, ambiguity   *)
(* and authority.                                                          *)
(*                                                                         *)
(* The code sorts a slice by (Rank, Priority, ID) and reads its head.      *)
(* Candidate identities are unique (program.go refuses duplicates), so the *)
(* head is described here without the order: it is the only member of the  *)
(* set of preferred candidates, and the ID tie break is never reached,     *)
(* because a tie in (Rank, Priority) is a frontier.                        *)
(***************************************************************************)
EXTENDS Integers

CONSTANT NoTransition   \* the empty transition name ("")

(***************************************************************************)
(* A candidate, the input and a decision.  `requested` is NoTransition     *)
(* when the caller does not target a transition.                           *)
(***************************************************************************)
Candidate(id, rank, priority, selectable, all, any) ==
  [id |-> id, rank |-> rank, priority |-> priority,
   selectable |-> selectable, all |-> all, any |-> any]

Decision(kind, transition, candidates) ==
  [kind |-> kind, transition |-> transition, candidates |-> candidates]

\* Mutant: a capability declared under `all` is not asked for.
MissingAnyOnly(c, available) ==
  IF c.any # {} /\ c.any \cap available = {} THEN c.any ELSE {}

\* Every capability of `all`, and one of `any` when `any` is not empty.
MissingAuthority(c, available) ==
  (c.all \ available)
    \cup (IF c.any # {} /\ c.any \cap available = {} THEN c.any ELSE {})

\* Mutant: candidates without authority are dropped before ordering.
ConsideredIfAuthorized(input) ==
  {c \in input.candidates :
     /\ MissingAuthority(c, input.available) = {}
     /\ IF input.requested # NoTransition THEN c.id = input.requested
                                          ELSE c.selectable}

\* Selection by target: an explicit request keeps only the named candidate,
\* an untargeted one keeps only the selectable candidates.
Considered(input) ==
  {c \in input.candidates :
     IF input.requested # NoTransition THEN c.id = input.requested
                                       ELSE c.selectable}

\* Rank first, then priority, both ascending.
NotAfter(c, d) ==
  \/ c.rank < d.rank
  \/ c.rank = d.rank /\ c.priority <= d.priority

Preferred(input) ==
  {c \in Considered(input) : \A d \in Considered(input) : NotAfter(c, d)}

\* The decision when nothing applies is the caller's choice.
NoCandidateKind(input) ==
  IF input.noCandidate = "" THEN "UNRESOLVED" ELSE input.noCandidate

Relate(input) ==
  CASE input.marked /\ input.requested = NoTransition ->
         Decision("MARKED", NoTransition, {})
    [] ~(input.marked /\ input.requested = NoTransition)
         /\ Considered(input) = {} ->
         IF input.requested # NoTransition
           THEN Decision("REFUSED", input.requested, {})
           ELSE Decision(NoCandidateKind(input), NoTransition, {})
    [] OTHER ->
         IF \E top \in Considered(input) : Preferred(input) = {top}
           THEN LET top == CHOOSE c \in Considered(input) : Preferred(input) = {c}
                IN  IF MissingAuthority(top, input.available) = {}
                      THEN Decision("PRESCRIBED", top.id, {})
                      ELSE Decision("FRONTIER", top.id, {top.id})
           ELSE Decision("FRONTIER", NoTransition, {c.id : c \in Preferred(input)})
=============================================================================
