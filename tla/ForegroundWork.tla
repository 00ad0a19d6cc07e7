---------------------------- MODULE ForegroundWork ----------------------------
(***************************************************************************)
(* The record of a piece of foreground work: what a host is asked to do    *)
(* before a transition, between the request of the controller and the      *)
(* sealed result (internal/softwaredelivery/foregroundwork).  Every        *)
(* operation reads the record, changes it and writes it back under the     *)
(* same lock, so it is a function of the record here.                      *)
(*                                                                         *)
(* `context` stands for the fingerprint of a request: the state revision   *)
(* and the tree that the host is to inspect.  `result` is the context the  *)
(* result was sealed for.                                                  *)
(***************************************************************************)
CONSTANTS NoWork, Prompts

WorkContext(revision, tree) == [revision |-> revision, tree |-> tree]

Requested(context) ==
  [context |-> context, status |-> "requested", question |-> NoWork, result |-> NoWork]

\* Ensure: the same request is left alone, another one invalidates it.
Ensure(work, context) ==
  IF work # NoWork /\ work.context = context THEN work ELSE Requested(context)

CanAsk(work) == work # NoWork /\ work.status \in {"requested", "input-required"}
Ask(work, prompt) ==
  [work EXCEPT !.status = "input-required",
               !.question = [context |-> work.context, prompt |-> prompt]]

CanAnswer(work, question) ==
  work # NoWork /\ work.status = "input-required" /\ work.question = question
Answer(work) == [work EXCEPT !.status = "requested", !.question = NoWork]

CanComplete(work, staged) ==
  work # NoWork /\ work.status = "requested" /\ work.context \in staged
Complete(work) == [work EXCEPT !.status = "completed", !.result = work.context]

CanBlock(work) == work # NoWork /\ work.status # "completed"
Block(work) == [work EXCEPT !.status = "blocked", !.question = NoWork]

IsCompleted(work) == work # NoWork /\ work.status = "completed"

\* ValidateCurrent: a result is used for the state and the context it was made in.
IsCurrentResult(work, context) == IsCompleted(work) /\ work.result = context
===============================================================================
