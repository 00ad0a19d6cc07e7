------------------------- MODULE SupervisedInstance -------------------------
(***************************************************************************)
(* What the kernel promises about one control instance, with revisions,    *)
(* locks, prescriptions, receipts and processes left out.  The instance is *)
(* in a mode of the program and at most one transition is outstanding.  An *)
(* outstanding transition ends in its own target mode or in the target of  *)
(* a transition that recovers it, and until then mode and objective        *)
(* binding stay what they were.                                            *)
(***************************************************************************)
EXTENDS KernelProgram

VARIABLES
  mode,
  binding,
  outstanding    \* the transition whose outcome is unknown, or NoTransition

svars == <<mode, binding, outstanding>>

Init ==
  /\ mode = InitialMode
  /\ binding = NoObjective
  /\ outstanding = NoTransition

Begin(t) ==
  /\ outstanding = NoTransition
  /\ ~IsRecovery(t)
  /\ mode \in SourceModes[t]
  /\ Scope[t] = "bound-exact" /\ Mutation[t] = "preserve" => binding # NoObjective
  /\ outstanding' = t
  /\ UNCHANGED <<mode, binding>>

Settle ==
  /\ outstanding \in Transitions
  /\ mode' = TargetMode[outstanding]
  /\ CASE Mutation[outstanding] = "bind"  -> binding' \in Objectives \ {binding}
       [] Mutation[outstanding] = "clear" -> binding' = NoObjective
       [] OTHER -> binding' = binding
  /\ outstanding' = NoTransition

Recover(r) ==
  /\ outstanding \in Recovers[r]
  /\ mode \in SourceModes[r]
  /\ mode' = TargetMode[r]
  /\ outstanding' = NoTransition
  /\ UNCHANGED binding

Next ==
  \/ \E t \in Transitions : Begin(t) \/ Recover(t)
  \/ Settle

Spec == Init /\ [][Next]_svars
=============================================================================
