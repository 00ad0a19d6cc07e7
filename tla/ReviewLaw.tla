------------------------------- MODULE ReviewLaw -------------------------------
(***************************************************************************)
(* The law of the self-review loop (cmd/boatstack-reviewer): what a        *)
(* candidate review is worth, which one transition it is admitted to, the  *)
(* program these transitions form, and when a chain of receipts seals a    *)
(* converged review.  Nothing here changes any state.                      *)
(*                                                                         *)
(* A candidate is a document the proposer wrote: whether it satisfies the  *)
(* output schema, whether its verdict rejects the patch, and its findings, *)
(* each with a priority and the lines of one side of the diff it is about. *)
(* The diff of a tree is a set of hunks without context lines.             *)
(***************************************************************************)
EXTENDS Integers, Sequences, FiniteSets, FiniteSetsExt

CONSTANTS
  Nothing,         \* no candidate, no document, no lock, no transition
  Trees,           \* reviewed trees: what a commit holds outside the receipts
  Diff,            \* for each tree, the hunks between the merge base and it
  Weight,          \* of each priority
  Blocking,        \* the priorities that block convergence
  MaxRounds,       \* rounds a generation may record
  StallWindow      \* submissions that may pass without progress

ASSUME PolicyAssumption ==
  /\ MaxRounds \in Nat \ {0} /\ StallWindow \in Nat \ {0}
  /\ Weight \in [0..3 -> Nat \ {0}]
  /\ Blocking \subseteq 0..3 /\ Blocking # {}

INSTANCE TransitionRelation WITH NoTransition <- Nothing

(***************************************************************************)
(* The worth of a candidate.                                               *)
(***************************************************************************)

\* The lines a finding may be about: the removed lines on the left, the added ones
\* on the right.
ChangedLines(diff) ==
  [side \in {"LEFT", "RIGHT"} |->
     UNION {LET from == IF side = "LEFT" THEN hunk.old ELSE hunk.new
                count == IF side = "LEFT" THEN hunk.removed ELSE hunk.added
            IN  {<<hunk.path, line>> : line \in from..(from + count - 1)}
            : hunk \in diff}]

Anchored(finding, diff) ==
  /\ finding.side \in {"LEFT", "RIGHT"}
  /\ finding.first <= finding.last
  /\ \A line \in finding.first..finding.last :
       <<finding.path, line>> \in ChangedLines(diff)[finding.side]

Valid(candidate, tree) ==
  /\ candidate.conforms
  /\ ~ (candidate.rejects /\ candidate.findings = {})
  /\ \A finding \in candidate.findings : Anchored(finding, Diff[tree])

BlockingMeasure(candidate) ==
  MapThenSumSet(LAMBDA finding : Weight[finding.priority],
                {finding \in candidate.findings : finding.priority \in Blocking})

(***************************************************************************)
(* The transition a candidate is admitted to.                              *)
(***************************************************************************)

\* The trailing submissions, the candidate's included, without a decrease.
Stalled(measures, measure) ==
  LET history == Append(measures, measure)
      comparisons == IF StallWindow = 1 THEN 1 ELSE StallWindow - 1
  IN  /\ Len(history) > comparisons
      /\ \A i \in (Len(history) - comparisons + 1)..Len(history) :
           history[i] >= history[i - 1]

\* Mutant: a candidate staged for another tree is taken for this one.
SubmittableAnyTree(seen) ==
  /\ seen.staged # Nothing
  /\ ~ seen.dirty
  /\ Valid(seen.staged.candidate, seen.tree)

\* What the domain observes.  `staged` is Nothing, or a candidate and the tree it
\* was staged for; `rounds` are those of the current generation.
Submittable(seen) ==
  /\ seen.staged # Nothing
  /\ ~ seen.dirty
  /\ seen.staged.tree = seen.tree
  /\ Valid(seen.staged.candidate, seen.staged.tree)

Measures(rounds) == [i \in DOMAIN rounds |-> BlockingMeasure(rounds[i].candidate)]

SubmissionDisposition(seen) ==
  IF ~ Submittable(seen) THEN Nothing
  ELSE IF BlockingMeasure(seen.staged.candidate) = 0 THEN "converge"
  ELSE IF \/ Len(seen.rounds) >= MaxRounds
          \/ Stalled(Measures(seen.rounds), BlockingMeasure(seen.staged.candidate))
         THEN "escalate"
  ELSE "record"

(***************************************************************************)
(* The program.                                                            *)
(***************************************************************************)

Modes == {"unreviewed", "findings-open", "converged", "escalated"}
Submissions == {"converge", "record", "escalate"}
Transitions == Submissions \cup {"reopen", "recover"}

ReviewTransition(id, sources, target, capability, priority, recovers) ==
  [id |-> id, sources |-> sources, target |-> target, capability |-> capability,
   priority |-> priority, recovers |-> recovers]

\* Mutant: an escalated generation takes submissions.
OpenUntilConverged == Modes \ {"converged"}

OpenModes == {"unreviewed", "findings-open"}

ReviewProgram ==
  {ReviewTransition("converge", OpenModes, "converged", "submit", 10, {}),
   ReviewTransition("record", OpenModes, "findings-open", "submit", 20, {}),
   ReviewTransition("escalate", OpenModes, "escalated", "submit", 30, {}),
   ReviewTransition("reopen", {"converged", "escalated"}, "unreviewed", "human", 40, {}),
   ReviewTransition("recover", Modes, "unreviewed", "recover", 5,
                    Submissions \cup {"reopen"})}

TransitionNamed(id) == CHOOSE t \in ReviewProgram : t.id = id

Admissible(t, state, seen) ==
  CASE t.id \in Submissions -> SubmissionDisposition(seen) = t.id
    [] t.id = "reopen" -> TRUE
    [] t.id = "recover" -> state.recovery # Nothing

Selectable(t, state, seen) ==
  /\ state.mode \in t.sources
  /\ IF state.recovery = Nothing THEN t.recovers = {}
                                 ELSE state.recovery \in t.recovers
  /\ Admissible(t, state, seen)

\* The kernel's answer to a request under one capability.  A request that names no
\* transition of a converged instance finds it marked.
Decide(program, state, seen, requested, capability) ==
  IF state.program # program THEN Decision("UNRESOLVED", Nothing, {})
  ELSE Relate(
         [requested |-> requested, noCandidate |-> "", available |-> {capability},
          marked |-> state.mode = "converged" /\ state.recovery = Nothing,
          candidates |-> {Candidate(t.id, 0, t.priority, TRUE, {t.capability}, {}) :
                            t \in {u \in ReviewProgram : Selectable(u, state, seen)}}])

(***************************************************************************)
(* Sealing.                                                                *)
(***************************************************************************)

ChainIsIntegral(receipts, program) ==
  /\ \A i \in DOMAIN receipts : receipts[i].program = program
  /\ \A i \in 2..Len(receipts) : receipts[i].prior = receipts[i - 1].result

\* The last receipts that bear a round are those of the sealed generation.
RoundsAreCommitted(rounds, receipts) ==
  LET bearing == SelectSeq(receipts, LAMBDA r : r.transition \in Submissions)
      earlier == Len(bearing) - Len(rounds)
  IN  /\ earlier >= 0
      /\ \A i \in DOMAIN rounds :
           /\ bearing[earlier + i].transition = rounds[i].transition
           /\ bearing[earlier + i].candidate = rounds[i].candidate

FinalRoundSeals(final, tree) ==
  /\ final.transition = "converge"
  /\ BlockingMeasure(final.candidate) = 0
  /\ final.tree = tree
  /\ Valid(final.candidate, tree)

\* buildSealedReceipt, and verifyFullReceipt of what it builds.
Sealable(document, rounds, tree, program) ==
  /\ document # Nothing /\ document.mode = "converged" /\ document.program = program
  /\ rounds # <<>> /\ FinalRoundSeals(rounds[Len(rounds)], tree)
  /\ document.receipts # <<>>
  /\ ChainIsIntegral(document.receipts, program)
  /\ LET last == document.receipts[Len(document.receipts)] IN
       last.transition = "converge" /\ last.result = document.revision
  /\ RoundsAreCommitted(rounds, document.receipts)
===============================================================================
