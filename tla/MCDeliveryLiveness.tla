-------------------------- MODULE MCDeliveryLiveness --------------------------
(***************************************************************************)
(* What must eventually happen in software delivery, one at a time         *)
(* (`part`): the interrupted transactions of two worktrees end, and a      *)
(* delivery that is only continued completes while revisions are committed *)
(* under it.  The part that is not looked at does not move.                *)
(***************************************************************************)
EXTENDS MCDelivery

CONSTANTS Deliveries, Texts, None, NoTransition, MaxRevision, MaxDeviations

VARIABLES
  part,
  rec, planned, config, repo, home, pr, installed, proved, granted, shelved, deviations

lifecycleVars ==
  <<rec, planned, config, repo, home, pr, installed, proved, granted, shelved, deviations>>

MCOptional == [visual |-> "optional", approval |-> "human", independent |-> FALSE]

Lifecycle == INSTANCE DeliveryLifecycle WITH
  files <- planned,
  Policies <- {MCOptional, [MCOptional EXCEPT !.visual = "required"]},
  InitialPolicy <- MCOptional,
  Authorities <- {{"human", "repository-policy", "external-provider"}},
  Asked <- {}, Disturbances <- {"commit"}

LivenessInit == part \in {"transaction", "lifecycle"} /\ Init /\ Lifecycle!Init

LivenessNext ==
  /\ UNCHANGED part
  /\ \/ part = "transaction" /\ Next /\ UNCHANGED lifecycleVars
     \/ part = "lifecycle" /\ Lifecycle!Next /\ UNCHANGED vars

\* The fairness of the two specifications, each for its part.
TransactionFairness ==
  \A p \in Processes :
    /\ WF_vars(part = "transaction" /\ Step(p))
    /\ SF_vars(part = "transaction" /\ Acquire(p))
    /\ SF_vars(part = "transaction" /\ \E t \in Recoveries : Admit(p, t))

LifecycleFairness ==
  /\ WF_lifecycleVars(part = "lifecycle" /\ Lifecycle!ContinueSome)
  /\ WF_lifecycleVars(part = "lifecycle" /\ Lifecycle!Merge)
  /\ WF_lifecycleVars(part = "lifecycle" /\ Lifecycle!Restore)

LivenessSpec ==
  /\ LivenessInit /\ [][LivenessNext]_<<part, vars, lifecycleVars>>
  /\ TransactionFairness /\ LifecycleFairness

DeliveriesComplete == Lifecycle!DeliveriesComplete
=============================================================================
