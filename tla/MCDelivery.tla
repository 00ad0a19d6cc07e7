----------------------------- MODULE MCDelivery -----------------------------
(***************************************************************************)
(* The transaction with one transition of each shape: a plan that is only  *)
(* written, a gate whose command may fail, a synchronisation whose command *)
(* is unknown rather than failed and whose target may hold already, and    *)
(* the publication.                                                        *)
(***************************************************************************)
EXTENDS DeliveryTransaction, TLC

MCLocal     == {"plan.create", "gate.build.record", "workspace.sync"}
MCExternal  == {"publication.execute"}
MCCommanded == {"gate.build.record", "workspace.sync", "publication.execute"}
MCUncertain == {"workspace.sync", "publication.execute"}
MCIdle      == {"workspace.sync"}

\* One process in each worktree, or all of them in one.
Apart == [p \in Processes |-> p]
Shared == [p \in Processes |-> CHOOSE w \in Worktrees : TRUE]

WithinBounds == Cardinality({a \in DOMAIN admitted : admitted[a].root = 0}) + faults <= 3
MCSymmetry == Permutations(Processes)
=============================================================================
