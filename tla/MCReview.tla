------------------------------- MODULE MCReview --------------------------------
(***************************************************************************)
(* Small instances of ReviewLoop.  The first tree changes lines 1 and 2,   *)
(* the second line 1 only, so the review that blocks is valid for the      *)
(* first tree only; the one that leaves a residual is valid for both.      *)
(***************************************************************************)
EXTENDS ReviewLoop, TLC

CONSTANTS p1, p2, t1, t2

MCHunk(first, count) ==
  [path |-> "a.go", old |-> first, removed |-> 0, new |-> first, added |-> count]

MCDiff == [t \in Trees |-> {MCHunk(1, IF t = InitialTree THEN 2 ELSE 1)}]

MCReviewOf(priority, last) ==
  [conforms |-> TRUE, rejects |-> TRUE,
   findings |-> {[priority |-> priority, side |-> "RIGHT", path |-> "a.go",
                  first |-> 1, last |-> last]}]

MCCandidates == {MCReviewOf(3, 1), MCReviewOf(1, 2)}
MCWeight == [priority \in 0..3 |-> 4 - priority]

\* Three disturbances of four, and histories go on only until a reset tears an effect
\* apart.
MCCalm ==
  /\ ~ spent.torn
  /\ spent.commits + spent.merges + spent.crashes + spent.resets <= 3

MCSymmetry == Permutations(Invocations)
===============================================================================
