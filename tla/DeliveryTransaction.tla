------------------------- MODULE DeliveryTransaction -------------------------
(***************************************************************************)
(* The software-delivery effect transaction: engine.Apply over the journal,*)
(* the prepared effect and the observer's reading of interrupted journals. *)
(*                                                                         *)
(* Processes work in the worktrees of one clone.  Each worktree has its    *)
(* durable state and its artifacts; the journal, the receipts in it and    *)
(* the kernel lock belong to the clone.  A process admits a transition     *)
(* without the lock, then takes it, compares what it saw, prepares the     *)
(* mutations, begins and stages them in the journal, runs the command of   *)
(* the transition if it has one, installs the mutations one by one,        *)
(* observes the target and commits the journal.  It may stop anywhere.     *)
(*                                                                         *)
(* Contents are abstracted to who wrote them: an artifact is the admission *)
(* that wrote it, and `effect` of a durable state the admission whose      *)
(* artifact it describes.  An archived journal is kept only as `aborted`,  *)
(* the one archive the observer reads again.                               *)
(***************************************************************************)
EXTENDS Integers, Sequences, FiniteSets, SequencesExt

CONSTANTS
  Worktrees,
  Processes,
  WorktreeOf,     \* [Processes -> Worktrees]
  NoProcess,      \* the free lock
  Local,          \* owned-local transitions: an artifact and the state
  External,       \* owned-external transitions: a command and the state
  Commanded,      \* transitions whose command runs before their mutations
  Uncertain,      \* commands that report EffectUnknown rather than fail
  Idle,           \* transitions whose target predicate may hold already
  ClosesFirst,    \* a pending journal's path sorts before the state's
  Budget,         \* recovery attempts that may abort; 3 in the code
  MaxEffects,     \* bound on the ordinary transitions that begin
  MaxFaults       \* bound on stops and failing steps

Transitions == Local \cup External

Recoveries == {"recovery.resume", "recovery.rollback",
               "publication.reconcile", "recovery.escalate"}

ASSUME ProcessesAreTyped ==
  WorktreeOf \in [Processes -> Worktrees] /\ NoProcess \notin Processes

ASSUME TransitionsAreTyped ==
  /\ Local \cap External = {}
  /\ Transitions \cap Recoveries = {}
  /\ External \subseteq Commanded /\ Commanded \subseteq Transitions
  /\ Uncertain \subseteq Commanded /\ Idle \subseteq Transitions

ASSUME BoundsAreTyped ==
  /\ ClosesFirst \in BOOLEAN
  /\ Budget \in Nat /\ MaxEffects \in Nat /\ MaxFaults \in Nat

VARIABLES
  state,      \* [Worktrees -> States]: state.json
  artifact,   \* [Worktrees -> admission]: what the artifacts are
  admitted,   \* the admissions that began, in order; an index names one
  journal,    \* the journal record of each of them
  receipts,   \* the committed transition facts, in order
  command,    \* history: what became of each admission's command
  lock,       \* holder of the kernel lock
  pc,
  holds,      \* [Processes -> admission being applied]
  own,        \* [Processes -> its index, 0 before it began]
  todo,       \* mutations still to be installed
  applied,    \* mutations installed, latest first
  faults

files   == <<state, artifact>>
ledger  == <<admitted, journal, receipts, command>>
local   == <<holds, own, todo, applied>>
vars    == <<files, ledger, lock, pc, local, faults>>

States ==
  [revision : Nat \ {0}, effect : Nat, escalated : BOOLEAN,
   publication : {"candidate", "published", "open", "unavailable"}]

InitialState ==
  [revision |-> 1, effect |-> 0, escalated |-> FALSE, publication |-> "candidate"]

Statuses == {"begun", "staged", "verifying", "committed", "recovery-required"}

NoAdmission ==
  [transition |-> "", worktree |-> "", root |-> 0, source |-> <<>>]

-----------------------------------------------------------------------------
(***************************************************************************)
(* What an observation makes of the pending journals.                      *)
(***************************************************************************)
Pending == {a \in DOMAIN journal : journal[a].pending}

\* A recovery belongs to the group of the transaction it recovers.
Root(a) == IF admitted[a].root = 0 THEN a ELSE admitted[a].root

\* Observations of an admission's own target leave its own journal out.
Groups(ignored) == {Root(a) : a \in Pending \ {ignored}}

AbortedAttempts(root) ==
  {a \in DOMAIN journal : admitted[a].root = root /\ journal[a].aborted}

\* recoveryContract, for a root nobody has tried to recover yet.
Contract(root) ==
  {"recovery.escalate"} \cup
    IF Cardinality(AbortedAttempts(root)) >= Budget THEN {}
      ELSE IF admitted[root].transition \in External THEN {"publication.reconcile"}
      ELSE IF journal[root].mutations = <<>> THEN {"recovery.rollback"}
      ELSE {"recovery.rollback", "recovery.resume"}

\* Mutant: an interrupted recovery leaves nothing that is permitted.
PermittedToRootsOnly ==
  UNION {Contract(r) : r \in {x \in Groups(0) : Pending = {x}}}

\* Several groups are a conflict, in which nothing is permitted; a group with
\* an interrupted recovery in it permits escalation only.
Permitted ==
  IF Cardinality(Groups(0)) # 1 THEN {}
    ELSE UNION {IF Pending = {r} THEN Contract(r) ELSE {"recovery.escalate"} :
                  r \in Groups(0)}

Snapshot(w) ==
  [state |-> state[w], artifact |-> artifact[w], permitted |-> Permitted,
   pending |-> {<<a, journal[a].status>> : a \in Pending}]

\* The facets an ordinary transition wants, and the recoveries the observed
\* contract permits: the law that resolution and admission share.
SourceMatches(t, w) ==
  /\ Pending = {}
  /\ ~state[w].escalated
  /\ t \in External => state[w].publication = "candidate"

Applicable(t, w) ==
  /\ t \in Recoveries => t \in Permitted
  /\ t \in Transitions => SourceMatches(t, w)

\* What the supervisor may prescribe in worktree w.
Prescribable(w) == {t \in Transitions \cup Recoveries : Applicable(t, w)}

\* What an admission binds, and what is compared again under the lock.
NewAdmission(t, w) ==
  [transition |-> t, worktree |-> w,
   root |-> IF t \in Recoveries THEN CHOOSE r \in Groups(0) : TRUE ELSE 0,
   source |-> Snapshot(w)]

IsCurrent(h) == Snapshot(h.worktree) = h.source

-----------------------------------------------------------------------------
(***************************************************************************)
(* Prepared mutations.                                                     *)
(***************************************************************************)
WriteArtifact(w, content) ==
  [kind |-> "artifact", at |-> w, prior |-> artifact[w], next |-> content]

WriteState(w, content) ==
  [kind |-> "state", at |-> w, prior |-> state[w], next |-> content]

Close(a) == [kind |-> "close", at |-> a, prior |-> TRUE, next |-> FALSE]

\* The state installs last, with the removals of journals, in path order.
Ordered(artifacts, written, closed) ==
  LET closes == SetToSeq({Close(a) : a \in closed}) IN
  artifacts \o IF ClosesFirst THEN closes \o <<written>> ELSE <<written>> \o closes

Advance(s) == [s EXCEPT !.revision = @ + 1]

\* prepareRecoveryReplay and advanceRecoveredState: the staged targets again,
\* or the priors again, except that every durable state among them, of
\* whichever worktree, gets the revision after the one this recovery expects.
Restored(m, resume, revision) ==
  LET value == IF resume THEN m.next ELSE m.prior IN
  IF m.kind = "state" THEN WriteState(m.at, [value EXCEPT !.revision = revision])
                      ELSE WriteArtifact(m.at, value)

\* What was staged ends in the one state that its transaction writes; nothing
\* staged means that nothing but the revision changes.
Replayed(h, resume) ==
  LET staged   == journal[h.root].mutations
      again(m) == Restored(m, resume, h.source.state.revision + 1)
  IN IF staged = <<>>
       THEN Ordered(<<>>, WriteState(h.worktree, Advance(state[h.worktree])), {h.root})
       ELSE Ordered([i \in 1..(Len(staged) - 1) |-> again(staged[i])],
                    again(staged[Len(staged)]), {h.root})

\* The state a transition other than a replay writes in its own worktree; a
\* is its admission, seen what the provider says of a publication.
NextState(h, a, seen) ==
  LET s == Advance(state[h.worktree]) IN
  CASE h.transition \in Local            -> [s EXCEPT !.effect = a]
    [] h.transition \in External         -> [s EXCEPT !.publication = "published"]
    [] h.transition = "publication.reconcile" -> [s EXCEPT !.publication = seen]
    [] h.transition = "recovery.escalate"     -> [s EXCEPT !.escalated = TRUE]

Prepare(h, a, seen) ==
  IF h.transition \in {"recovery.resume", "recovery.rollback"}
    THEN Replayed(h, h.transition = "recovery.resume")
    ELSE Ordered(IF h.transition \in Local THEN <<WriteArtifact(h.worktree, a)>> ELSE <<>>,
                 WriteState(h.worktree, NextState(h, a, seen)),
                 IF h.transition \in Recoveries THEN Pending ELSE {})

\* gh pr view: a publication whose command never ran is not there, any other
\* may be, and the provider may be out of reach.
Seen(h) ==
  IF h.transition = "publication.reconcile" /\ command[h.root] # "none"
    THEN {"open", "unavailable"} ELSE {"unavailable"}

-----------------------------------------------------------------------------
Init ==
  /\ state = [w \in Worktrees |-> InitialState]
  /\ artifact = [w \in Worktrees |-> 0]
  /\ admitted = <<>> /\ journal = <<>> /\ receipts = <<>> /\ command = <<>>
  /\ lock = NoProcess
  /\ pc = [p \in Processes |-> "idle"]
  /\ holds = [p \in Processes |-> NoAdmission]
  /\ own = [p \in Processes |-> 0]
  /\ todo = [p \in Processes |-> <<>>]
  /\ applied = [p \in Processes |-> <<>>]
  /\ faults = 0

Goto(p, place) == pc' = [pc EXCEPT ![p] = place]

\* Apply returns, or its process stops: the lock is free, the rest forgotten.
Return(p) ==
  /\ Goto(p, "idle")
  /\ lock' = IF lock = p THEN NoProcess ELSE lock
  /\ holds' = [holds EXCEPT ![p] = NoAdmission]
  /\ own' = [own EXCEPT ![p] = 0]
  /\ todo' = [todo EXCEPT ![p] = <<>>]
  /\ applied' = [applied EXCEPT ![p] = <<>>]

Fault == faults < MaxFaults /\ faults' = faults + 1

Status(p, status) == journal' = [journal EXCEPT ![own[p]].status = status]

\* Ordinary transitions stop at MaxEffects, recoveries do not.
WithinBound(t) ==
  t \in Transitions =>
    Cardinality({a \in DOMAIN admitted : admitted[a].root = 0}) < MaxEffects

(***************************************************************************)
(* Apply, up to the first durable write.                                   *)
(***************************************************************************)
\* Resolve, and Apply's own resolution again, without the lock.
Admit(p, t) ==
  /\ pc[p] = "idle"
  /\ t \in Prescribable(WorktreeOf[p])
  /\ WithinBound(t)
  /\ holds' = [holds EXCEPT ![p] = NewAdmission(t, WorktreeOf[p])]
  /\ Goto(p, "admitted")
  /\ UNCHANGED <<files, ledger, lock, own, todo, applied, faults>>

Acquire(p) ==
  /\ pc[p] = "admitted"
  /\ lock = NoProcess
  /\ lock' = p
  /\ Goto(p, "locked")
  /\ UNCHANGED <<files, ledger, local, faults>>

\* Mutant: the snapshot is not compared again under the lock.
StartUnchecked(p) ==
  /\ admitted' = Append(admitted, holds[p])
  /\ journal' = Append(journal, [pending |-> TRUE, status |-> "begun",
                                 mutations |-> <<>>, aborted |-> FALSE])
  /\ command' = Append(command, "none")
  /\ own' = [own EXCEPT ![p] = Len(admitted) + 1]
  /\ \E seen \in Seen(holds[p]) :
       todo' = [todo EXCEPT ![p] = Prepare(holds[p], Len(admitted) + 1, seen)]
  /\ Goto(p, "begun")
  /\ UNCHANGED <<lock, holds, applied>>

\* Observe again under the lock, prepare, and write the pending journal, first
\* as begun and then as executing, which no reader tells apart.
Start(p) ==
  IF IsCurrent(holds[p])
    THEN StartUnchecked(p)
    ELSE Return(p) /\ UNCHANGED <<admitted, journal, command>>

Begin(p) ==
  /\ pc[p] = "locked"
  /\ IF WithinBound(holds[p].transition)
       THEN Start(p)
       ELSE Return(p) /\ UNCHANGED <<admitted, journal, command>>
  /\ UNCHANGED <<files, receipts, faults>>

\* Stage, or fail to, which aborts: nothing was changed.
Stage(p) ==
  /\ pc[p] = "begun"
  /\ journal' = [journal EXCEPT ![own[p]].status = "staged",
                                ![own[p]].mutations = todo[p]]
  /\ Goto(p, IF holds[p].transition \in Commanded THEN "commanding" ELSE "writing")
  /\ UNCHANGED <<files, admitted, receipts, command, lock, local, faults>>

StageFails(p) ==
  /\ pc[p] = "begun"
  /\ Fault
  /\ Goto(p, "aborting")
  /\ UNCHANGED <<files, ledger, lock, local>>

(***************************************************************************)
(* The prepared effect.                                                    *)
(***************************************************************************)
Reported(p, outcome, place) ==
  /\ pc[p] = "commanding"
  /\ command' = [command EXCEPT ![own[p]] = outcome]
  /\ Goto(p, place)
  /\ UNCHANGED <<files, admitted, journal, receipts, lock, local>>

CommandPasses(p) == Reported(p, "passed", "writing") /\ UNCHANGED faults

\* A command that fails is no fault of the program: tests do fail.
CommandFails(p) ==
  /\ holds[p].transition \notin Uncertain
  /\ Reported(p, "failed", "undoing")
  /\ UNCHANGED faults

\* It may or may not have had its effect; no mutation is installed.
CommandUncertain(p) ==
  /\ holds[p].transition \in Uncertain
  /\ Reported(p, "uncertain", "written")
  /\ UNCHANGED faults

\* An external effect is refused before its command runs.
CommandRefused(p) ==
  /\ holds[p].transition \in External
  /\ Fault
  /\ Reported(p, "none", "unsettled")

Put(m, value) ==
  /\ state' = IF m.kind = "state" THEN [state EXCEPT ![m.at] = value] ELSE state
  /\ artifact' = IF m.kind = "artifact" THEN [artifact EXCEPT ![m.at] = value]
                                        ELSE artifact
  /\ journal' = IF m.kind = "close" THEN [journal EXCEPT ![m.at].pending = value]
                                    ELSE journal

Install(p) ==
  /\ pc[p] = "writing"
  /\ todo[p] # <<>>
  /\ LET m == Head(todo[p]) IN
       /\ Put(m, m.next)
       /\ todo' = [todo EXCEPT ![p] = Tail(@)]
       /\ applied' = [applied EXCEPT ![p] = <<m>> \o @]
  /\ UNCHANGED <<admitted, receipts, command, lock, pc, holds, own, faults>>

\* A write fails, or the verification after the last one does.
InstallFails(p) ==
  /\ pc[p] = "writing"
  /\ Fault
  /\ Goto(p, IF holds[p].transition \in External THEN "unsettled" ELSE "undoing")
  /\ UNCHANGED <<files, ledger, lock, local>>

Installed(p) ==
  /\ \/ pc[p] = "written"
     \/ pc[p] = "writing" /\ todo[p] = <<>>
  /\ Status(p, "verifying")
  /\ Goto(p, "observing")
  /\ UNCHANGED <<files, admitted, receipts, command, lock, local, faults>>

\* The effect is in place but the journal cannot be marked.
MarkFails(p) ==
  /\ \/ pc[p] = "written"
     \/ pc[p] = "writing" /\ todo[p] = <<>>
  /\ Fault
  /\ Goto(p, "unsettled")
  /\ UNCHANGED <<files, ledger, lock, local>>

(***************************************************************************)
(* Verification and commit.                                                *)
(***************************************************************************)
\* Every other journal is closed, and the facets the transition declares have
\* the values it declares for them.
TargetMatches(p) ==
  LET s == state[holds[p].worktree] t == holds[p].transition IN
  /\ Groups(own[p]) = {}
  /\ \/ t \in Idle
     \/ t \in Local /\ s.effect = own[p]
     \/ t \in External /\ s.publication = "published"
     \/ t \in {"recovery.resume", "recovery.rollback"} /\ ~s.escalated
     \/ t = "publication.reconcile" /\ s.publication \in {"open", "unavailable"}
     \/ t = "recovery.escalate" /\ s.escalated

\* Mutant: any target revision makes a receipt.
AdvancedSomehow(p) == TRUE

\* NewReceipt: the target's revision is the prescribed one plus one.
AdvancedOnce(p) ==
  state[holds[p].worktree].revision = holds[p].source.state.revision + 1

\* Where a target observation leads: a receipt, the rollback of what was
\* installed, or a recovery when the outcome is not known.
Observe(p) ==
  /\ pc[p] = "observing"
  /\ Goto(p, CASE TargetMatches(p) /\ AdvancedOnce(p)          -> "verified"
               [] TargetMatches(p) /\ ~AdvancedOnce(p)         -> "unsettled"
               [] ~TargetMatches(p) /\ command[own[p]] = "uncertain" -> "unsettled"
               [] OTHER                                        -> "undoing")
  /\ UNCHANGED <<files, ledger, lock, local, faults>>

\* The observation fails, or finds something else than what was written.
ObserveFails(p) ==
  /\ pc[p] = "observing"
  /\ Fault
  /\ \E place \in {"unsettled", "undoing"} :
       /\ place = "undoing" => command[own[p]] # "uncertain"
       /\ Goto(p, place)
  /\ UNCHANGED <<files, ledger, lock, local>>

Fact(p) ==
  [admission |-> own[p], worktree |-> holds[p].worktree,
   prior |-> holds[p].source.state.revision,
   result |-> holds[p].source.state.revision + 1]

\* The receipt is written into the pending record, which is then renamed.
Finalize(p) ==
  /\ pc[p] = "verified"
  /\ Status(p, "committed")
  /\ Goto(p, "committing")
  /\ UNCHANGED <<files, admitted, receipts, command, lock, local, faults>>

\* Mutant: the journal is closed without the fact.
CommitWithoutFact(p) ==
  /\ pc[p] = "committing"
  /\ journal' = [journal EXCEPT ![own[p]].pending = FALSE]
  /\ Return(p)
  /\ UNCHANGED <<files, admitted, receipts, command, faults>>

Commit(p) ==
  /\ pc[p] = "committing"
  /\ journal' = [journal EXCEPT ![own[p]].pending = FALSE]
  /\ receipts' = Append(receipts, Fact(p))
  /\ Return(p)
  /\ UNCHANGED <<files, admitted, command, faults>>

CommitFails(p) ==
  /\ pc[p] \in {"verified", "committing"}
  /\ Fault
  /\ Goto(p, "unsettled")
  /\ UNCHANGED <<files, ledger, lock, local>>

(***************************************************************************)
(* Rollback, abort and recovery-required.                                  *)
(***************************************************************************)
\* Mutant: what was installed is forgotten, not restored.
UndoNothing(p) ==
  /\ pc[p] = "undoing"
  /\ applied[p] # <<>>
  /\ applied' = [applied EXCEPT ![p] = <<>>]
  /\ UNCHANGED <<files, ledger, lock, pc, holds, own, todo, faults>>

Undo(p) ==
  /\ pc[p] = "undoing"
  /\ applied[p] # <<>>
  /\ LET m == Head(applied[p]) IN Put(m, m.prior)
  /\ applied' = [applied EXCEPT ![p] = Tail(@)]
  /\ UNCHANGED <<admitted, receipts, command, lock, pc, holds, own, todo, faults>>

\* One prior cannot be restored; the others still are, before the recovery.
UndoFails(p) ==
  /\ pc[p] = "undoing"
  /\ applied[p] # <<>>
  /\ Fault
  /\ applied' = [applied EXCEPT ![p] = Tail(@)]
  /\ Goto(p, "undoing-in-part")
  /\ UNCHANGED <<files, ledger, lock, holds, own, todo>>

UndoRest(p) ==
  /\ pc[p] = "undoing-in-part"
  /\ IF applied[p] = <<>>
       THEN Goto(p, "unsettled") /\ UNCHANGED <<files, journal, applied>>
       ELSE /\ LET m == Head(applied[p]) IN Put(m, m.prior)
            /\ applied' = [applied EXCEPT ![p] = Tail(@)]
            /\ UNCHANGED pc
  /\ UNCHANGED <<admitted, receipts, command, lock, holds, own, todo, faults>>

\* Mutant: a rollback after a settled command is a clean one.
UndoneAlways(p) ==
  /\ pc[p] = "undoing"
  /\ applied[p] = <<>>
  /\ Goto(p, "aborting")
  /\ UNCHANGED <<files, ledger, lock, local, faults>>

\* A command that settled cannot be undone: its transaction is not aborted.
Undone(p) ==
  /\ pc[p] = "undoing"
  /\ applied[p] = <<>>
  /\ Goto(p, IF command[own[p]] = "passed" THEN "unsettled" ELSE "aborting")
  /\ UNCHANGED <<files, ledger, lock, local, faults>>

\* The archive is written first, then the pending journal removed.
Archive(p) ==
  /\ pc[p] = "aborting"
  /\ journal' = [journal EXCEPT ![own[p]].aborted = TRUE]
  /\ Goto(p, "aborted")
  /\ UNCHANGED <<files, admitted, receipts, command, lock, local, faults>>

Abort(p) ==
  /\ pc[p] = "aborted"
  /\ journal' = [journal EXCEPT ![own[p]].pending = FALSE]
  /\ Return(p)
  /\ UNCHANGED <<files, admitted, receipts, command, faults>>

RequireRecovery(p) ==
  /\ pc[p] = "unsettled"
  /\ Status(p, "recovery-required")
  /\ Return(p)
  /\ UNCHANGED <<files, admitted, receipts, command, faults>>

\* The process stops, or an operation without a handler of its own fails.
Stop(p) ==
  /\ pc[p] # "idle"
  /\ Fault
  /\ Return(p)
  /\ UNCHANGED <<files, ledger>>

-----------------------------------------------------------------------------
Step(p) ==
  \/ Begin(p) \/ Stage(p) \/ CommandPasses(p) \/ CommandFails(p)
  \/ CommandUncertain(p) \/ Install(p) \/ Installed(p) \/ Observe(p)
  \/ Finalize(p) \/ Commit(p) \/ Undo(p) \/ UndoRest(p) \/ Undone(p)
  \/ Archive(p) \/ Abort(p) \/ RequireRecovery(p)

Failure(p) ==
  \/ StageFails(p) \/ CommandRefused(p) \/ InstallFails(p) \/ ObserveFails(p)
  \/ MarkFails(p) \/ CommitFails(p) \/ UndoFails(p) \/ Stop(p)

Next ==
  \E p \in Processes :
    \/ \E t \in Transitions \cup Recoveries : Admit(p, t)
    \/ Acquire(p)
    \/ Step(p)
    \/ Failure(p)

Spec == Init /\ [][Next]_vars

\* Apply runs to its end once it has the lock, Acquire polls for the lock
\* until it gets it, and a host that is told to recover does so.
Fairness ==
  \A p \in Processes :
    /\ WF_vars(Step(p))
    /\ SF_vars(Acquire(p))
    /\ SF_vars(\E t \in Recoveries : Admit(p, t))

FairSpec == Spec /\ Fairness

-----------------------------------------------------------------------------
(***************************************************************************)
(* Properties.                                                             *)
(***************************************************************************)
Places ==
  {"idle", "admitted", "locked", "begun", "commanding", "writing", "written",
   "observing", "verified", "committing", "undoing", "undoing-in-part",
   "aborting", "aborted", "unsettled"}

Snapshots ==
  [state : States, artifact : Nat, permitted : SUBSET Recoveries,
   pending : SUBSET (Nat \X Statuses)]

Admissions ==
  [transition : Transitions \cup Recoveries, worktree : Worktrees,
   root : Nat, source : Snapshots]

Mutations ==
  [kind : {"artifact"}, at : Worktrees, prior : Nat, next : Nat]
    \cup [kind : {"state"}, at : Worktrees, prior : States, next : States]
    \cup [kind : {"close"}, at : Nat \ {0}, prior : {TRUE}, next : {FALSE}]

Journals ==
  [pending : BOOLEAN, status : Statuses, mutations : Seq(Mutations), aborted : BOOLEAN]

Outcomes == {"none", "passed", "failed", "uncertain"}

Facts == [admission : Nat \ {0}, worktree : Worktrees, prior : Nat, result : Nat]

TypeOK ==
  /\ state \in [Worktrees -> States]
  /\ artifact \in [Worktrees -> Nat]
  /\ admitted \in Seq(Admissions)
  /\ journal \in Seq(Journals)
  /\ command \in Seq(Outcomes)
  /\ Len(journal) = Len(admitted) /\ Len(command) = Len(admitted)
  /\ receipts \in Seq(Facts)
  /\ lock \in Processes \cup {NoProcess}
  /\ pc \in [Processes -> Places]
  /\ holds \in [Processes -> Admissions \cup {NoAdmission}]
  /\ own \in [Processes -> 0..Len(admitted)]
  /\ todo \in [Processes -> Seq(Mutations)]
  /\ applied \in [Processes -> Seq(Mutations)]
  /\ faults \in 0..MaxFaults

Settled(w) == Pending = {} /\ ~state[w].escalated

\* All or nothing: whenever no journal is pending and nothing was handed to a
\* human, the artifacts of a worktree are exactly those its durable state
\* describes, whatever stopped, failed, was rolled back, was resumed or was
\* interrupted while it was resumed (prepared.go L120-234, recovery.go).
AllOrNothing ==
  \A w \in Worktrees : Settled(w) => artifact[w] = state[w].effect

ReceiptsOf(w) == {i \in DOMAIN receipts : receipts[i].worktree = w}

\* The receipts account for the durable state: with no journal pending, the
\* revision of a worktree is the result of its last receipt, and its receipts
\* form one chain of disjoint steps (prescription-transactions.md L33-37).
ReceiptsAccountForRevisions ==
  \A w \in Worktrees :
    /\ Pending = {} =>
         IF ReceiptsOf(w) = {} THEN state[w].revision = 1
           ELSE \E i \in ReceiptsOf(w) :
                  /\ \A j \in ReceiptsOf(w) : j <= i
                  /\ receipts[i].result = state[w].revision
    /\ \A i, j \in ReceiptsOf(w) : i < j => receipts[i].result <= receipts[j].prior

\* Interrupted work never becomes a conflict: the pending journals of a clone
\* always belong to one transaction, so that its recovery context is known and
\* something is permitted (observer.go L855-918 has no way out of a conflict).
OneGroup == Cardinality(Groups(0)) <= 1

\* A receipt certifies a settled effect: no transition whose command failed,
\* did not run, or has an unknown outcome ever gets a receipt of its own.
\* Transitions whose target predicate may hold before they run reach
\* NewReceipt all the same (engine.go L571, receipt.go L172).
ReceiptsCertifySettledEffects ==
  \A i \in DOMAIN receipts :
    admitted[receipts[i].admission].transition \in Commanded =>
      command[receipts[i].admission] = "passed"

\* An admission took effect when it was committed, or when the recovery that
\* resumed it was.
TookEffect(a) ==
  \E i \in DOMAIN receipts :
    LET r == receipts[i].admission IN
    \/ r = a
    \/ admitted[r].root = a /\ admitted[r].transition = "recovery.resume"

\* However often a request is presented again, it takes effect once: two
\* admissions of one transition from one snapshot, which is what the
\* idempotency key is made of (admission.go L156-167), never both do.
RequestsTakeEffectOnce ==
  \A a, b \in DOMAIN admitted :
    a # b /\ admitted[a] = admitted[b] => ~TookEffect(a) \/ ~TookEffect(b)

\* The command of an external transition runs at most once for a candidate:
\* "an external effect whose settlement cannot be proven remains recovery-
\* required and is never blindly retried" (prescription-transactions.md L50).
ExternalEffectsAreNotRetried ==
  \A a, b \in DOMAIN admitted :
    /\ a # b
    /\ admitted[a].transition \in External
    /\ admitted[b].transition = admitted[a].transition
    /\ admitted[b].worktree = admitted[a].worktree
    => {command[a], command[b]} \cap {"none", "failed"} # {}

\* Every interrupted transaction is eventually closed: resumed, rolled back,
\* reconciled or escalated, however its recoveries fail in between.
InterruptionsEnd == (Pending # {}) ~> (Pending = {})
=============================================================================
