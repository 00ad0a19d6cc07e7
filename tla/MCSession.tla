------------------------------- MODULE MCSession -------------------------------
(***************************************************************************)
(* Small instances of FlowSession.                                         *)
(***************************************************************************)
EXTENDS FlowSession, TLC

CONSTANTS p1, p2, i1, i2

MCSymmetry == Permutations(Processes) \cup Permutations(Parameters)

MCCommands == {"next", "apply", "run", "configure", "authorize", "answer"}
MCAsking == {"select", "authorize", "answer"}
===============================================================================
