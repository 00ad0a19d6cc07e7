------------------------------- MODULE ReviewLoop ------------------------------
(***************************************************************************)
(* The local self-review loop of one branch (cmd/boatstack-reviewer):      *)
(* several invocations of the command, the branch they review and the      *)
(* files under .git they share.                                            *)
(*                                                                         *)
(*   document    store.json: control state and receipts, replaced at once  *)
(*   journal     journal.json: the generation and every round              *)
(*   bytes, meta candidate.json and candidate-meta.json: two files, which  *)
(*               a submission writes without holding the lock              *)
(*   lock        a directory; nobody waits for it, and a crash leaves it   *)
(*   attestation the committed file that CI reads                          *)
(*                                                                         *)
(* Every read or write of one of these is a step of its own, except that   *)
(* an observation (the head, its tree, the worktree, the journal, the      *)
(* candidate) is one step.  The content of an archived candidate is found  *)
(* by its fingerprint, so the archive is left out.                         *)
(***************************************************************************)
EXTENDS ReviewLaw

CONSTANTS
  Invocations,               \* of the command, at the same time
  Candidates,                \* documents a proposer may submit
  Policies,                  \* programs a base revision may admit
  InitialTree, InitialPolicy,
  MaxCommands, MaxCommits, MaxMerges, MaxCrashes, MaxResets

\* store.json: the control state with the receipts of its transitions.
Receipts ==
  [transition : Transitions, program : Policies, candidate : Candidates \cup {Nothing},
   prior : Nat, result : Nat]

Documents ==
  [mode : Modes, program : Policies, revision : Nat, recovery : Transitions \cup {Nothing},
   receipts : Seq(Receipts)]

ASSUME NothingIsNothing ==
  /\ Nothing \notin Invocations /\ Nothing \notin Candidates
  /\ Nothing \notin Transitions /\ Nothing \notin Documents

ASSUME LoopAssumption ==
  /\ InitialTree \in Trees /\ InitialPolicy \in Policies
  /\ {MaxCommands, MaxCommits, MaxMerges, MaxCrashes, MaxResets} \subseteq Nat

VARIABLES
  tree, dirty, base,         \* the branch: its tree, uncommitted edits, its base's policy
  document, journal, bytes, meta, lock, attestation,
  jobs,                      \* what each invocation has read, and where it is
  submitted, converged,      \* history: candidates staged for a tree; trees reviewed well
  spent                      \* how often each bounded action has happened

repoVars == <<tree, dirty, base>>
fileVars == <<document, journal, bytes, meta, lock>>
vars == <<repoVars, fileVars, attestation, jobs, submitted, converged, spent>>

Idle == [at |-> "idle"]

NewJournal == [generation |-> 1, rounds |-> <<>>]

\* The n-th round of the generation is the one with n of them up to it.
CurrentRounds(j) ==
  LET current == {i \in DOMAIN j.rounds : j.rounds[i].generation = j.generation}
      place(i) == Cardinality({k \in current : k <= i})
  IN  [n \in 1..Cardinality(current) |-> j.rounds[CHOOSE i \in current : place(i) = n]]

\* The state a command of `program` loads; without a file, the initial one.
StateOf(program) ==
  IF document = Nothing
    THEN [mode |-> "unreviewed", program |-> program, revision |-> 1,
          recovery |-> Nothing, receipts |-> <<>>]
    ELSE document

Init ==
  /\ tree = InitialTree /\ dirty = FALSE /\ base = InitialPolicy
  /\ document = Nothing /\ journal = NewJournal
  /\ bytes = Nothing /\ meta = Nothing /\ lock = Nothing
  /\ attestation = Nothing
  /\ jobs = [p \in Invocations |-> Idle]
  /\ submitted = {} /\ converged = {}
  /\ spent = [commands |-> 0, commits |-> 0, merges |-> 0, crashes |-> 0, resets |-> 0,
              torn |-> FALSE]

Spend(what, bound) ==
  /\ spent[what] < bound
  /\ spent' = [spent EXCEPT ![what] = @ + 1]

Goto(p, at) == jobs' = [jobs EXCEPT ![p].at = at]
Leave(p) == jobs' = [jobs EXCEPT ![p] = Idle]

(***************************************************************************)
(* The branch.                                                             *)
(***************************************************************************)

Commit ==
  /\ \E t \in Trees \ {tree} : tree' = t
  /\ dirty' = FALSE
  /\ Spend("commits", MaxCommits)
  /\ UNCHANGED <<base, fileVars, attestation, jobs, submitted, converged>>

Edit ==
  /\ ~ dirty /\ dirty' = TRUE
  /\ Spend("commits", MaxCommits)
  /\ UNCHANGED <<tree, base, fileVars, attestation, jobs, submitted, converged>>

Undo ==
  /\ dirty /\ dirty' = FALSE
  /\ UNCHANGED <<tree, base, fileVars, attestation, jobs, submitted, converged, spent>>

\* The base revision moves to one that admits another policy.
MergePolicy ==
  /\ \E b \in Policies \ {base} : base' = b
  /\ Spend("merges", MaxMerges)
  /\ UNCHANGED <<tree, dirty, fileVars, attestation, jobs, submitted, converged>>

(***************************************************************************)
(* An invocation: newLoopContext, and for a submission the candidate it    *)
(* was given and the tree of the head.                                     *)
(***************************************************************************)

Start(p, command, candidate, at) ==
  /\ jobs[p] = Idle
  /\ Spend("commands", MaxCommands)
  /\ jobs' = [jobs EXCEPT ![p] =
                [at |-> at, command |-> command, candidate |-> candidate, tree |-> tree,
                 program |-> base, prescription |-> Nothing, copy |-> Nothing]]
  /\ UNCHANGED <<repoVars, fileVars, attestation, converged>>

Submit(p, candidate) ==
  /\ Start(p, "submit", candidate, "stage")
  /\ submitted' = submitted \cup {[candidate |-> candidate, tree |-> tree]}

Reopen(p) == Start(p, "reopen", Nothing, "resolve") /\ UNCHANGED submitted
Recover(p) == Start(p, "recover", Nothing, "resolve") /\ UNCHANGED submitted
Seal(p) == Start(p, "seal", Nothing, "load") /\ UNCHANGED submitted

Stage(p) ==
  /\ jobs[p].at = "stage"
  /\ bytes' = jobs[p].candidate
  /\ Goto(p, "meta")
  /\ UNCHANGED <<repoVars, document, journal, meta, lock, attestation, submitted,
                 converged, spent>>

StageMeta(p) ==
  /\ jobs[p].at = "meta"
  /\ meta' = [candidate |-> jobs[p].candidate, tree |-> jobs[p].tree]
  /\ Goto(p, "resolve")
  /\ UNCHANGED <<repoVars, document, journal, bytes, lock, attestation, submitted,
                 converged, spent>>

(***************************************************************************)
(* Resolution.                                                             *)
(***************************************************************************)

\* Bytes without the metadata written for them are an integrity error.
StagingIsSound == bytes # Nothing => meta # Nothing /\ meta.candidate = bytes

Observation ==
  [tree |-> tree, dirty |-> dirty, generation |-> journal.generation,
   rounds |-> CurrentRounds(journal),
   staged |-> IF bytes = Nothing THEN Nothing ELSE meta]

Requested(command) == IF command = "submit" THEN Nothing ELSE command
Capability(command) == IF command = "reopen" THEN "human" ELSE command

\* A prescription is good as long as all it was computed from is the same.
Prescription(p) ==
  LET state == StateOf(jobs[p].program)
      command == jobs[p].command
      decision == Decide(jobs[p].program, state, Observation, Requested(command),
                         Capability(command))
  IN  IF StagingIsSound /\ decision.kind = "PRESCRIBED"
        THEN [transition |-> decision.transition, revision |-> state.revision,
              program |-> state.program, seen |-> Observation]
        ELSE Nothing

Resolve(p) ==
  /\ jobs[p].at = "resolve"
  /\ IF Prescription(p) = Nothing
       THEN Leave(p)
       ELSE jobs' = [jobs EXCEPT ![p].at = "lock", ![p].prescription = Prescription(p)]
  /\ UNCHANGED <<repoVars, fileVars, attestation, submitted, converged, spent>>

(***************************************************************************)
(* Application.                                                            *)
(***************************************************************************)

Acquire(p) ==
  /\ jobs[p].at = "lock"
  /\ IF lock = Nothing
       THEN lock' = p /\ Goto(p, "begin")
       ELSE lock' = lock /\ Leave(p)
  /\ UNCHANGED <<repoVars, document, journal, bytes, meta, attestation, submitted,
                 converged, spent>>

\* The lock directory is removed whoever made it.
Unlock(p) == lock' = Nothing /\ Leave(p)

\* Loads, observes and resolves again, and writes the attempt down.
Begin(p) ==
  LET state == StateOf(jobs[p].program) IN
  /\ jobs[p].at = "begin"
  /\ IF Prescription(p) # jobs[p].prescription
       THEN document' = document /\ Unlock(p)
       ELSE /\ document' = [state EXCEPT !.revision = @ + 1,
                              !.recovery = IF @ = Nothing
                                             THEN jobs[p].prescription.transition ELSE @]
            /\ Goto(p, "execute")
            /\ lock' = lock
  /\ UNCHANGED <<repoVars, journal, bytes, meta, attestation, submitted, converged, spent>>

\* What Execute leaves in the journal it has read.
RoundOf(prescription, j) ==
  [generation |-> j.generation, candidate |-> prescription.seen.staged.candidate,
   tree |-> prescription.seen.tree, transition |-> prescription.transition]

NextJournal(prescription, j) ==
  IF prescription.transition = "reopen"
    THEN [j EXCEPT !.generation = @ + 1]
    ELSE [j EXCEPT !.rounds = Append(@, RoundOf(prescription, j))]

\* Execute reads the candidate again and the journal.
Execute(p) ==
  LET prescription == jobs[p].prescription IN
  /\ jobs[p].at = "execute"
  /\ CASE prescription.transition = "recover" ->
            lock' = lock /\ Goto(p, "clear")
       [] prescription.transition \in Submissions
            /\ ~ (/\ StagingIsSound /\ bytes # Nothing
                  /\ bytes = prescription.seen.staged.candidate) ->
            Unlock(p)
       [] OTHER ->
            lock' = lock
            /\ jobs' = [jobs EXCEPT ![p].at = "journal", ![p].copy = journal]
  /\ UNCHANGED <<repoVars, document, journal, bytes, meta, attestation, submitted,
                 converged, spent>>

SaveJournal(p) ==
  LET prescription == jobs[p].prescription IN
  /\ jobs[p].at = "journal"
  /\ journal' = NextJournal(prescription, jobs[p].copy)
  /\ converged' = IF /\ prescription.transition \in Submissions
                      /\ BlockingMeasure(prescription.seen.staged.candidate) = 0
                    THEN converged \cup {[tree |-> prescription.seen.tree,
                                          program |-> prescription.program]}
                    ELSE converged
  /\ jobs' = [jobs EXCEPT ![p].at = "clear", ![p].copy = Nothing]
  /\ UNCHANGED <<repoVars, document, bytes, meta, lock, attestation, submitted, spent>>

Clear(p) ==
  /\ jobs[p].at = "clear"
  /\ bytes' = Nothing
  /\ Goto(p, "clear meta")
  /\ UNCHANGED <<repoVars, document, journal, meta, lock, attestation, submitted,
                 converged, spent>>

ClearMeta(p) ==
  /\ jobs[p].at = "clear meta"
  /\ meta' = Nothing
  /\ Goto(p, "commit")
  /\ UNCHANGED <<repoVars, document, journal, bytes, lock, attestation, submitted,
                 converged, spent>>

\* The postcondition, of a fresh observation.
Verified(prescription, after) ==
  /\ after.staged = Nothing
  /\ CASE prescription.transition \in Submissions ->
            /\ Len(after.rounds) = Len(prescription.seen.rounds) + 1
            /\ LET recorded == after.rounds[Len(after.rounds)] IN
                 /\ recorded.candidate = prescription.seen.staged.candidate
                 /\ recorded.tree = prescription.seen.tree
                 /\ recorded.transition = prescription.transition
       [] prescription.transition = "reopen" ->
            /\ after.generation = prescription.seen.generation + 1
            /\ after.rounds = <<>>
       [] OTHER -> TRUE

ReceiptOf(prescription) ==
  [transition |-> prescription.transition, program |-> prescription.program,
   candidate |-> IF prescription.transition \in Submissions
                   THEN prescription.seen.staged.candidate ELSE Nothing,
   prior |-> prescription.revision, result |-> prescription.revision + 2]

\* State and receipt become visible together, or the obligation stays.
CommitTransition(p) ==
  LET prescription == jobs[p].prescription
      commits == /\ StagingIsSound /\ Verified(prescription, Observation)
                 /\ document # Nothing
                 /\ document.revision = prescription.revision + 1
  IN
  /\ jobs[p].at = "commit"
  /\ document' = IF commits
                   THEN [document EXCEPT
                           !.mode = TransitionNamed(prescription.transition).target,
                           !.revision = @ + 1, !.recovery = Nothing,
                           !.receipts = Append(@, ReceiptOf(prescription))]
                   ELSE document
  /\ Unlock(p)
  /\ UNCHANGED <<repoVars, journal, bytes, meta, attestation, submitted, converged, spent>>

(***************************************************************************)
(* Sealing, without the lock: the document, then the journal and the       *)
(* branch; the policy is read again to verify what was built.              *)
(***************************************************************************)

LoadSealed(p) ==
  /\ jobs[p].at = "load"
  /\ jobs' = [jobs EXCEPT ![p].at = "attest", ![p].copy = document]
  /\ UNCHANGED <<repoVars, fileVars, attestation, submitted, converged, spent>>

\* Mutant: what was built is written without being verified, and the program of the
\* document is not compared with the one that is sealed.
WriteUnverified(p) ==
  LET job == jobs[p]
      rounds == CurrentRounds(journal)
      built == /\ job.copy # Nothing /\ job.copy.mode = "converged"
               /\ rounds # <<>> /\ FinalRoundSeals(rounds[Len(rounds)], tree)
  IN
  /\ job.at = "attest"
  /\ attestation' = IF built THEN [tree |-> rounds[Len(rounds)].tree,
                                   program |-> job.program]
                             ELSE attestation
  /\ Leave(p)
  /\ UNCHANGED <<repoVars, fileVars, submitted, converged, spent>>

WriteAttestation(p) ==
  LET job == jobs[p]
      rounds == CurrentRounds(journal)
      sealable == job.program = base /\ Sealable(job.copy, rounds, tree, job.program)
  IN
  /\ job.at = "attest"
  /\ attestation' = IF sealable THEN [tree |-> rounds[Len(rounds)].tree,
                                      program |-> job.program]
                                ELSE attestation
  /\ Leave(p)
  /\ UNCHANGED <<repoVars, fileVars, submitted, converged, spent>>

(***************************************************************************)
(* Crashes, and what the operator does about them.                         *)
(***************************************************************************)

Crash(p) ==
  /\ jobs[p] # Idle
  /\ Spend("crashes", MaxCrashes)
  /\ Leave(p)
  /\ UNCHANGED <<repoVars, fileVars, attestation, submitted, converged>>

\* "remove it only if that process is gone".
RemoveLock ==
  /\ lock # Nothing /\ jobs[lock] = Idle
  /\ lock' = Nothing
  /\ UNCHANGED <<repoVars, document, journal, bytes, meta, attestation, jobs, submitted,
                 converged, spent>>

\* reset --confirm renames the whole directory; it takes no lock.
Reset ==
  /\ <<document, journal, bytes, meta, lock>>
       # <<Nothing, NewJournal, Nothing, Nothing, Nothing>>
  /\ document' = Nothing /\ journal' = NewJournal
  /\ bytes' = Nothing /\ meta' = Nothing /\ lock' = Nothing
  /\ spent.resets < MaxResets
  /\ spent' = [spent EXCEPT !.resets = @ + 1,
                 !.torn = @ \/ lock # Nothing \/ \E p \in Invocations : jobs[p].at = "attest"]
  /\ UNCHANGED <<repoVars, attestation, jobs, submitted, converged>>

Step(p) ==
  \/ Stage(p) \/ StageMeta(p) \/ Resolve(p) \/ Acquire(p) \/ Begin(p) \/ Execute(p)
  \/ SaveJournal(p) \/ Clear(p) \/ ClearMeta(p) \/ CommitTransition(p)
  \/ LoadSealed(p) \/ WriteAttestation(p)

Next ==
  \/ \E p \in Invocations :
       \/ \E candidate \in Candidates : Submit(p, candidate)
       \/ Reopen(p) \/ Recover(p) \/ Seal(p)
       \/ Step(p)
       \/ Crash(p)
  \/ Commit \/ Edit \/ Undo \/ MergePolicy \/ RemoveLock \/ Reset

Spec == Init /\ [][Next]_vars

(***************************************************************************)
(* Properties.  A reset in the middle of an effect, or between the two     *)
(* reads of a seal (`torn`), takes the files away while the command goes   *)
(* on with what it has read: an effect may then write an old journal over  *)
(* a new one, and a seal join an old document to a new journal.  What is   *)
(* said of document and journal together leaves such histories out.        *)
(***************************************************************************)

\* What the attestation names, a tree and a program, is a tree for which a review
\* without blocking findings was recorded under that program, however the branch, the
\* policy and the other invocations moved while it was sealed.  CI compares these two
\* facts with the head and its base and asks nothing else (verifyAttestation).
AttestedTreesConverged ==
  ~ spent.torn /\ attestation # Nothing => attestation \in converged

\* A round is about the tree its candidate was submitted for, and the candidate is
\* valid for it: neither a commit nor another submission between the resolution and
\* the effect makes a stale round.
RoundsBindTheirTree ==
  \A i \in DOMAIN journal.rounds :
    LET r == journal.rounds[i] IN
    /\ [candidate |-> r.candidate, tree |-> r.tree] \in submitted
    /\ Valid(r.candidate, r.tree)

\* A settled generation is left only by a human: by reopening it, or by the recovery
\* of a reopening a human began.
SettledModes == {"converged", "escalated"}

SettledNeedsAHuman ==
  [][ \A mode \in SettledModes :
        ~ spent.torn /\ document # Nothing /\ document.mode = mode
          /\ document' # Nothing /\ document'.mode # mode
          => \/ document'.receipts[Len(document'.receipts)].transition = "reopen"
             \/ document.recovery = "reopen" ]_vars

\* What the command says of a converged review ("run seal and commit the sealed
\* attestation"): when nothing is in the way, the review can be sealed.
ConvergedReviewsCanBeSealed ==
  ( /\ document # Nothing /\ document.mode = "converged"
    /\ document.recovery = Nothing /\ document.program = base
    /\ lock = Nothing
    /\ CurrentRounds(journal) # <<>>
    /\ CurrentRounds(journal)[Len(CurrentRounds(journal))].tree = tree )
  => Sealable(document, CurrentRounds(journal), tree, base)
===============================================================================
