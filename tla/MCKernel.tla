------------------------------ MODULE MCKernel ------------------------------
(***************************************************************************)
(* The runtime on the integer program.  `steady` is full authority that    *)
(* does not expire within the bound, `brief` expires at the first tick,    *)
(* `future` is issued at it, and `binder` cannot increment or reset.       *)
(***************************************************************************)
EXTENDS KernelRuntime, IntegerControl, TLC

MCReceipts == {"steady", "brief", "future", "binder"}

MCGrants == [a \in MCReceipts |->
  IF a = "binder" THEN {"objective.bind"} ELSE IntegerCapability]

MCIssuedAt == [a \in MCReceipts |-> IF a = "future" THEN 1 ELSE 0]

MCExpiresAt == [a \in MCReceipts |-> IF a = "brief" THEN 1 ELSE MaxNow + 1]

Asks(t, o, a) == [requested |-> t, objective |-> o, authority |-> {a}]

\* Untargeted progress towards one objective, a targeted reset under a receipt
\* that expires, and progress towards another objective under one that grants
\* too little.
MCMixed ==
  {Asks(NoTransition, "first", "steady"),
   Asks("counter.reset", NoObjective, "brief"),
   Asks(NoTransition, "other", "binder")}

MCSoleRequest == {Asks(NoTransition, "first", "steady")}

\* Two disturbances in all, and no outside change once the clock moved.
WithinBounds == faults + drifts + now <= 2 /\ drifts * now = 0

\* Clients are interchangeable.
MCSymmetry == Permutations(Clients)

\* Untargeted supervision brings the counter to its marked mode in spite of
\* failures (runUntargetedToMarked).
ReachesMarked == <>(control.mode \in MarkedModes /\ ~Recovering(control))
=============================================================================
