# Boatstack verification

TLA+ models of Boatstack, the TLC runs that check them and the TLAPS proofs
about them. Paths are relative to the repository's `boatstack/` directory unless
they start with `docs/`.

Boatstack is a supervisory controller for software delivery. A *kernel* selects
one legal transition of a compiled control program, hands it out as a
*prescription*, and applies it under a lock with a durable record of what it is
about to do. The *software-delivery* system is the large instance of the same
idea: a catalog of transitions over a repository, an effect transaction with a
journal on disk, and hosts (agents, a command line) that ask for the next step.
Beside it stand the compiler of Flows, the declarative programs and their
extensions, and a self-review loop that runs on the same kernel.

## The parts of the system

| part | state it keeps | operations | interacts with |
|---|---|---|---|
| transition relation (`kernel/relation.go`) | none | `Relate`, `RelateWithTrace` | called by the kernel runtime and the delivery supervisor |
| control program (`kernel/program.go`) | immutable | `CompileProgram` | read by the runtime |
| kernel runtime (`kernel/runtime.go`) | control state and receipts in a store | `Resolve`, `Apply` | store, lock, domain, operator, clock ports |
| effect transaction (`internal/softwaredelivery/engine`, `effects`) | `state.json` per worktree, journals per clone, artifacts | `Resolve`, `Apply`, journal `Begin/Stage/Mark/Commit/Abort/RequireRecovery`, `Execute/Rollback` | observer, supervisor, locker, command boundary |
| observer (`plant`) | none | reads state, journals, Git and artifacts into one observation | everything that writes files |
| supervisor (`supervisor`) | none | decision, command guard | relation, catalog |
| catalog (`catalog`) | immutable | transitions, capabilities, facets | supervisor, reducer |
| locks (`effects/locker.go`, `internal/runtime/projection_lock_*.go`) | lock files | ordered acquire, release, projection lease | engine, flow files, helper |
| receipts (`effects/receipts.go`) | committed journals | bind, sequence, find, look up a run, its authority and its results | engine, worktrees |
| flow projections (`internal/runtime/flow_files.go`, `flow_ownership.go`, `cmd/boatstack-helper/flow_command.go`) | generated files, artifacts, ownership records | compile: plan, check, commit, publish, roll back | projection lease, maintenance |
| maintenance projections (`effects/host_projections.go`) | `project.json`, host files, their manifest | configure, install, retire | effect transaction, projection lease, ownership records |
| helper (`cmd/boatstack-helper`) | none of its own | next, apply, run, flow authorize/revoke/input/work | all of the above, under three locks |
| invocation store (`invocation`) | requests, receipts, evidence of host inputs | request, supersede, answer | helper |
| foreground work (`foregroundwork`) | records on disk | prepare, claim, finish | helper |
| delegation | authorization records of runs | authorize, renew, revoke, complete | helper, receipts |
| declarative flows, program compiler (`controlprogram`, `delivery`) | programs, run files | accept, compose, step | helper |
| reviewer (`cmd/boatstack-reviewer`) | control state, journal, candidate, lock, attestation | submit, reopen, recover, seal, reset | kernel runtime, branch, policy |

Behaviour that is hard here, and what the properties are for: several processes
work on one clone and read without the lock what they later act on; a process
may die between any two writes; effects are partly files that can be put back
and partly commands that cannot; a recovery can itself be interrupted; requests
are repeated; authority expires and is revoked; a delivery moves between
worktrees while its receipts stay in the clone; users and the provider change
what is observed. `PROJECT.json` lists the hazards at their lines.

## Modules

### Kernel

`TransitionRelation` — the selector. Candidates are records; the whole procedure
(rank, priority, ambiguity, missing authority, the disposition of the trace) is
`Relate` and `Disposition`. `RelationLaws` states its laws over every subset of
a pool of candidates.

`KernelProgram` — the data of a compiled program as constants, with what
`CompileProgram` guarantees as the assumption `ProgramIsPrepared`, and the
objective and recovery predicates of the runtime.

`KernelRuntime` — clients that call `Resolve` and `Apply` on one instance.
`control`, `receipts` are the store; `lock` is the lock port; `world` the domain;
`now` the clock; `pc`, `loaded`, `held` … what a call holds in its local
variables. `ResolveLoad`/`ResolveObserve` are the two unlocked reads of
`Resolve`; `Submit`/`HandOver` present a prescription, to oneself or to another
client; `Acquire` … `Commit` are the steps of `Apply` between which another
process or a failure can come; `Stop` ends a call anywhere; `Drift` changes the
domain from outside; `Tick` moves the clock. `attempts` is a history variable
for properties.

`SupervisedInstance` — the abstract promise: one outstanding transition at a
time, which settles in its own target or in that of a recovery. `KernelRuntime`
implements it (`ImplementsSupervised`), with the mapping `outstanding` = the
transition of the recovery obligation.

`IntegerControl` — the instance the runtime is checked on: the integer fixture of
`kernel/conformance` (program, domain, operator, capability classifier).

### Software delivery

`DeliveryTransaction` — processes in the worktrees of one clone. `state` and
`artifact` are per worktree; `journal`, `receipts` and `lock` belong to the
clone, because `ResolveLayout` puts them under the shared root. Contents are
abstracted to who wrote them: an artifact is the admission that wrote it, and
`effect` of a durable state is the admission whose artifact it describes. An
admission is a record of transition, worktree, recovered transaction and the
snapshot it was admitted from; two equal records are one request, which is what
the code's idempotency key says. Actions: `Admit` (resolve and admit without the
lock), `Acquire`, `Begin` (second comparison under the lock, prepare, pending
journal), `Stage`, `Command…` (the command boundary), `Install` (one mutation),
`Installed`, `Observe`, `Finalize` and `Commit` (the record, then its rename),
`Undo…` (rollback), `Archive`, `Abort`, `RequireRecovery`, and for each of them
the failure the code has a branch for; `Stop` ends a call anywhere. Recoveries
are transitions like any other: `recovery.resume` and `recovery.rollback` replay
the staged mutations (`Replayed`), `publication.reconcile` and
`recovery.escalate` close the journals of the group.

`DeliveryCatalog`, `DeliverySupervisor`, `DeliveryLifecycle` — a delivery through
the catalog. The catalog is data: the transitions of `core/transitions.json` and
`flow/standard/transitions.json` with their sources, targets, authority and
selection. The supervisor is the decision from a snapshot, over the canonical
relation. The lifecycle is the durable state of one worktree with the files, the
checkout and the pull request it is about: `Continue` is an untargeted request,
`Ask` names a transition, each transition reduces the durable state in one step
from its snapshot to its verified target, and users and the provider (`Edit`,
`Merge`, a policy change …) change what is observed at any moment.

`WorktreeLineage` — a delivery that moves between worktrees (`workspace.cut`,
`workspace.cleanup`, `workspace.reap`, interruption and reconciliation of a cut),
and what is looked up from the receipts of the clone: the run a state belongs
to, where it may act, and what it has produced. A transaction is one step here
or stops once. `origin`, `live`, `mixed` and `loose` are history variables.
`IsOwn` names the states a run can answer for: of a run that began once, not those
of a cut that another run, or the run itself from elsewhere, reconciled (the
destination then identifies that run), nor of a parked source whose state was
bound to another delivery meanwhile and then overwritten by the cleanup.

### Flows and their projections

`FlowProjection` — `boatstack flow compile` in one worktree. `file` is the
worktree, `source` and `hosts` the inputs, `owned` the ownership records, `lock`
the projection lock; `job` is what a compiler read before it had the lock;
`todo`, `saw`, `retired`, `changed`, `snapshot` are the local variables of the
commit under it. Every file is read (`Read`) in one step and replaced, removed or
restored (`Write`, `Retire`, `Undo`) in the next, so that a user's `Edit` can come
between; `Verify` is the second look before the artifact, `Fail`, `FailUndo` and
`Stop` come anywhere. Rendering is data: `Rendered[s][v]` gives the bytes of each
output and an ownership record stands for the version it was made from.
`unread`, `edited` and `interrupted` are history variables for properties.

`MaintenanceProjection` — extends it with the kernel's maintenance of the same
worktree: a configuration transaction with one step per file and a journal that
is there or not (the transaction itself is `DeliveryTransaction`'s). `Preparable`,
`Created`, `Deleted` and `Mutations` are `prepareHostProjectionMutations`;
`Configure`, `Install`, `Settle`, `Restore`, `EndRestore` the effect and its
rollback; `Replay` is recovery.rollback, with the projection lease or without it;
`CloseJournal` is configuration.reconcile, or recovery.escalate. `loose` is a
history variable: a recovery of an interrupted configuration takes no lease, and
a compiler does not look for one, so what a compiler promises is stated for
histories in which neither passed over the other's unfinished work.

`HostInputs`, `ForegroundWork`, `RunAuthorization` — the three records a run
depends on, as operators: the chain of input requests with their receipts, the
record of a piece of work, and the authorization record.

`FlowSession` — the commands of several processes on one run. Each command reads
the world when it binds the Flow, is admitted, takes its locks one by one (the run
lock, the projection lease, the kernel lock: the second is never waited for) and
reads the world again before it changes anything; other commands run between
any two of these steps, and `Crash` loses one anywhere.

### Programs

`DeclaredEffects` — effects written as assignments to facets: what the compiler
accepts of them, and the reducer with its validation. `ProgramComposition` — the
compilation of core, runtime and extension manifests into one program, and the
decision over it. `DeclarativeFlow` — what is accepted of transitions that only
assign facets, and the runs of an accepted document.

### Self-review

`ReviewLaw` — the admission law, the validity of a candidate, and when a chain of
receipts seals a review. `ReviewLoop` — invocations of the command over the shared
files, read and written one at a time, against a branch and a policy that move.

### Proofs

`KernelRuntimeProofs`, `DeliveryTransactionProofs` (its second half about the
recoveries in one worktree), `WorktreeLineageProofs`, `FlowProjectionProofs` (its
second half about maintenance), `FlowSessionProofs`, `DeliveryLifecycleProofs`,
`ReviewLoopProofs` and `ProgramLawsProofs` extend the modules they are about. The
lemma on the selector, `PrescribedIsPreferred`, is in each module that selects.
The `MC…` modules give the constants of the runs; `MCLaws`, `MCProjections` and
`MCDeliveryLiveness` put several instances side by side in one run, chosen in the
initial state.

## Runs

| run | instance | what it shows |
|---|---|---|
| `laws` | every subset of 5 candidates; 3 facets with up to 4 assignments; 2 extensions out of 6 manifests; documents of 2 drafted and 1 offered transition | authority never selects, accepted effects apply, extensions are additive, a selected step succeeds |
| `kernel_faults` | 2 clients, 2 failures, 1 outside change, clock to 1, mixed requests | attempts, authority, recovery, refinement |
| `kernel_liveness` | 2 clients, 1 failure | the marked mode is reached |
| `delivery_crashes` | 1 worktree, 2 processes, 2 effects, 2 faults, together at most 3 | all or nothing, one chain of receipts, no request and no command twice |
| `delivery_liveness` | 2 worktrees, 1 effect, 1 fault; and one lifecycle of 2 deliveries | interruptions end, deliveries complete |
| `lifecycle` | 2 deliveries, 2 texts, 2 revisions, 3 deviations | approvals, evidence and continuations are about the work they are used for |
| `lineage` | 3 worktrees, 2 runs of one delivery, 5 receipts, 1 disturbance | runs keep identity, authority, results and delivery |
| `projections` | 2 compilers of one source of 2 versions under a user; 2 sources beside the maintenance of one host | foreign work, order, atomicity, residue, nobody retires what another owns |
| `sessions` | 2 processes, 2 parameters, 2 bundles, 2 trees, 1 crash, 1 disturbance | commits are authorized, answers and work are current, no circle of waiting |
| `session_next` | 1 process that asks for the next step | *violated*: see findings |
| `reviews` | 2 invocations, 2 trees, 2 policies, 2 candidates, 4 commands | what is attested converged, rounds bind their tree, only a human settles |
| `review_seal` | 1 invocation, 1 crash | *violated*: see findings |

**Bounds.** Two clients, processes, compilers or invocations are enough for every
race the locks and the compare-and-swap decide, since each compares one caller
with one other; two failures allow a failure inside the recovery from the first.
In `DeliveryTransaction` `Budget` is 1 where the code has 3: the contract is the
same for every budget left above zero, so one abort reaches the exhausted case
that needs three in the code. `MaxEffects` and `MaxFaults` bound ordinary
transitions and failures; recoveries are not bounded. `ClosesFirst` fixes in
which order the state file and the removed journals are installed (the code
sorts by path); the crash run takes the order in which journals go first, the
liveness run the opposite one. In `projections` the versions of the source have an
output that both render apart, one that the second retires and a shared file; at
most three of the edits, changes and faults come together, so one may come in the
commit and one in its rollback. The sources of its maintenance part own just the
shared file, since the rest of a compilation is checked in the other part. In
`lifecycle` the host asks by name only for transitions that are never selected
(and for objective.bind), because the others are what `Continue` takes; a third
deviation reaches a change of the work after its evidence was replaced once. In
`lineage` five receipts cover a cut, its way back and the work between them, and
one transaction is open at a time. In `reviews` three of {an edit or commit, two
policy merges, a crash, a reset} happen, so a policy may move and come back; `MCCalm`
leaves out histories in which a reset of the files comes within another invocation's
effect or between the two reads of a seal, which nothing in the loop is meant to
survive. Interchangeable values are symmetric in the runs of safety
properties. Deadlock is not checked in the runs that end at their bounds or at
their goal, where the system really stops.

**Fairness.** A call that holds the lock runs to its end unless it stops; the
locker polls every 10 ms, so `Acquire` is strongly fair; hosts are told by the
decision to recover, and do (`Admit` of a recovery is strongly fair, ordinary
transitions are not fair at all). The kernel's liveness run assumes the same of
resolve, submit and apply, and that failures are finite. A delivery completes if
hosts go on continuing, the provider merges what is published and the user restores
what he broke (weak fairness of `ContinueSome`, `Merge` and `Restore`). In
`session_next` each process goes on with its command (weak fairness of `Step`).

## What is proved

TLAPS checks these for every value of the constants that satisfies the named
assumptions, and so without the bounds of the runs. `PROJECT.json` lists them with
the property of a run that each one states, where there is one.

**Kernel** (`KernelRuntimeProofs`): type correctness, `EffectIsUnderDurableAttempt`,
`PrescriptionsAreSpent`, `AttemptsAreAuthorized`, `NoStrandedRecovery`,
`OutdatedRuntimesStandDown`, `ObligationIsDischarged`, `ReceiptsAccountForState`, and
that the runtime implements `SupervisedInstance`. They rest on one inductive
invariant `IInv`: types; per client, what the place it has reached implies about
what it holds (`ClientInv`: under the lock and past the compare, the loaded state
is still the stored one; past `BeginEffect`, the stored state is the attempt it
wrote); what an obligation records (`ObligationInv`); and that revisions of attempts
grow and stay below the stored one (`HistoryInv`). The safety properties alone are
not inductive: nothing in them says that the lock holder's copy is current.
`NoStrandedRecovery` also uses the program assumption, which is what `program.go`
compiles for. For the receipts `Accounted` adds that they are one chain (`Chained`),
lie in the past, end at the stored revision, and come from an attempt.

**Effect transaction, any number of worktrees** (`DeliveryTransactionProofs`):
`TypeOK`; `OneGroup`, that the pending journals belong to one interrupted
transaction; `ReceiptsCertifySettledEffects`. The invariant `Typed` says of admissions
what their place in the log implies (`Rooted`, `Numbered`, `Engaged`); `Exclusive` that
whoever has begun holds the lock and that everything pending has the same root;
`Certified` what a process was told by its command and what the receipts say of it.

**Effect transaction and its recoveries in one worktree** (`DeliveryTransactionProofs`):
`AllOrNothing`, `ReceiptsAccountForRevisions`, `RequestsTakeEffectOnce`,
`ExternalEffectsAreNotRetried`. `Sound` relates what a journal staged (`Planned`), what
it found (`Found`), how far the mutations of the process at work have come (`Course`) and
what an interrupted one left (`Left`): state and artifact are always those before or those after one
admission, mutation by mutation, which a replay then completes or takes back.
`Accounted` chains the receipts up to the last result; `Ordinal` says that what is
pending is newer than any receipt, so a request that took effect is never found
pending again; `Barred` that a command that may have run bars its transition until a
human decides. The hypothesis `OneWorktree` says that the clone has one worktree. It is
needed: a recovery run from another worktree writes the next revision after its own
worktree's, so neither the chain nor the description of the artifact survives it. That
is a known limit of the code, kept in the hazards; the runs are in one worktree too.

**Projections** (`FlowProjectionProofs`): `ForeignBytesSurvive` for compilers under
a user, `CompilationsStayAtomic` and `ArtifactsStayPublishedLast` beside maintenance. The
holder of the lock is described by `HolderInv`: where its list comes from (`OnCourse`),
that a file was read as it is unless edited since (`Looked`), that every file is as
found, or as committed and on the list of what to undo (`Traced`), and what the
second look established (`Settling`, `Fresh`). Beside maintenance, `Leased` adds
that nobody maintains during a commit and no journal waits for a recovery; it fails
once an interrupted configuration was passed over, which is why both properties are
stated up to `loose`.

**Projections beside maintenance** (the same module): `ResidueStaysAuthorized`,
`MaintainedFilesAreInPlace` and `FlowFilesAreInPlace`. `Peace` says what files,
records, manifest and journal promise each other as long as nobody edits and no
interrupted configuration is passed over. A file that a record or the manifest claims
is there with its bytes, except at the path where the holder of the lock or the
maintainer presently is (`Peaceful`); what a compiler has changed is on its list of
what to undo, and that list, with the snapshot it was taken from, leads back to the
files the records promise (`Commits`); a journal names the hosts before and after, and
the files that its plan has not yet touched are those before (`IsSound`, `Progress`). The
properties are about the moments when nobody works and follow only from what is
promised in between: one owner retires a shared file exactly when the records and the
manifest say that no other is left. The hypothesis `FlowsAreApart` says that only
shared paths are outputs of two sources: generated names contain the
program's ID (`flowSkillSlug`), so it is about sources of different programs, and two sources
that give themselves the same ID do overwrite each other. `NoneIsNoPlan` says that the
model value for "no journal" is not a plan.

**Lineage, any number of worktrees, runs, receipts and disturbances**
(`WorktreeLineageProofs`): `DeliveriesAreKept`, `RunsStayAuthorized`,
`ResultsAreAncestral` and `RunsKeepTheirIdentity`. `Custody` is about the worktrees: no two
hold one run, the checkout that a linked worktree returns to is inactive and waits for that worktree alone, every
live run is held somewhere, and the journal of an interrupted cut describes what the cut
left. `Lineages` is about the receipts of a run that began once and was moved by nobody
else: its advances alternate between its home and the linked worktree, each receipt
was committed where the ones before it had led, and its delivery is, or waits to be
reconciled, where they lead now. An authority is anchored wherever it was last renewed, so
the lookup may start from either place; that home is the only context of its
tree among them is what keeps both anchors valid. `Began` says that whoever commits,
holds or was cut has begun; without it a run might be selected by another's
receipts. The hypothesis `OneAtATime` says that no run begins in a parked checkout or while it
is active elsewhere, as hosts use the program; without it one run holds two deliveries at
once and its records describe neither. `DeliveriesAreKept` needs no hypothesis.

`RunsKeepTheirIdentity` is about runs among others: of all the bindings whose lineage leads to a
worktree, the one with the highest revision is that of the run whose delivery is there.
`Named` says that a state names the delivery of its run. `Identified` gives every run that
has begun two ends, its home and the place it went to, and orders the runs that meet
there: both ends exist at a revision no lower than the run's binding (`Traced`), the
delivery is at home or where it will return home from (`Standing`), and of the runs that
have been at its home its own began last, while no other has been where it went (`Latest`,
and `Waiting` for a cut that was interrupted). The property, and with it the theorem, speaks of histories
in which no run begins again or moves or reconciles what is not its own: outside them the
revision of a worktree may fall, and the latest binding is found by revision.

**Sessions** (`FlowSessionProofs`): `CommitsAreAuthorized`, `ConsumedAnswersAreCurrent`,
`WorkIsDoneForTheStateItChanges`, `GenerationsAreOneChain`. A command that is about to
commit holds the locks under which what it read again cannot change: `SessionInv` says so
place by place (`AppliesAuthorized`, `RunsAuthorized`, `IsFresh`, `Past`), `ChainInv`
that generations are made once.

**Lifecycle, any number of deliveries, texts, policies and revisions**
(`DeliveryLifecycleProofs`): `TypeOK`, `ApprovedPlanIsWhatWasApproved`,
`EvidenceIsForOneRevision`, `AbandonedWorkIsProvenAgain`, `ContinuationsPublishProvenWork`
and `SelectionsPassPreflight`, over the whole catalog and whatever hosts ask for by
name (`AskedAreDeclared`: an entry of the catalog). Two invariants carry them.
`LifecycleInv` says that a state without an objective has nothing of a delivery, that
an approval on record was granted for this delivery and stands (`ApprovalStands`),
that a recorded gate was recorded for this delivery at the revision it names
(`GatesAreProven`), that evidence of abandoned
work is out of the way while a workspace can be published (`ShelvedIsGone`), and that
previews are of clean checkouts. `PublicationInv` adds that the preview in the
worktree is the recorded one, and that no workspace with an open pull request is
previewed again as if it had none. The safety properties are not inductive themselves: what is
observed says nothing about a file that is presently damaged and may be put
back. The argument about continuations is one about the catalog's order
(`CatalogPlanSteps`, `CatalogExecuteIs`): every plan that is not locked has a step
of its own that precedes a publication and is admissible wherever the publication
is, so a publication is only selected over a locked plan; and what the preflight
lets through has a clean checkout at the recorded fingerprint. That a step is selected
is reasoned about through `PrescribedIsPreferred`: a prescribed candidate is of
the first rank and priority among those there are.

**Reviews, any number of invocations, trees, candidates and policies**
(`ReviewLoopProofs`): `RoundsBindTheirTree`, `AttestedTreesConverged` and
`SettledNeedsAHuman`. `Typed` holds whatever is reset: a submission in hand is of a
candidate that was submitted for the tree it was resolved on and is valid for it
(`Granted`), and an interrupted submission has left its generation open
(`InterruptedIsOpen`). `Serial` holds until a reset takes the files from a command at
work (`spent.torn`): an invocation with an effect in hand holds the lock, the document
bears its attempt (`Obliged`) and its copy of the journal is the journal; what a seal
has read is of the document that is there; the rounds of the journal that block nothing
were reviewed under the document's program. The properties are not inductive by
themselves: nothing in them says that two effects never overlap, which rests on the lock
and on its being removed only when its holder is gone. That a prescription is one of the
program's transitions, selectable in the state, comes from `PrescribedIsPreferred`.

**Laws** (`ProgramLawsProofs`): `TargetedAgreesWithUntargeted` and `AuthorityNeverSelects`
for every finite pool of candidates; that edits of a declaration stay declarations
and `AcceptedEffectsApply` (except for the named gaps, which fail closed when the state is
encoded); `UnusedExtensionsCanBeDisabled`, `NamesHaveOneOwner` and
`ExtensionsAreAdditive` for any manifests.

**Only model-checked.** `ReachesMarked`, `InterruptionsEnd`, `DeliveriesComplete`
(liveness under fairness) and `NobodyWaitsInACircle` (it speaks of ENABLED) are beyond
the prover. `SelectedStepsSucceed` is about assignments that are evaluated recursively
over the document, an induction over data that the prover cannot do.

## Findings

1. `next` of a repository Flow whose prescription needs no further input ends with
   FLOW_PROJECTION_BUSY although nobody else is there: the command holds the
   projection lease and acquires it a second time
   (`cmd/boatstack-helper/main.go:237`). Run `session_next`.
2. A review that converged after a submission was interrupted and recovered is
   refused by every later seal, since the interrupted round has no receipt
   (`cmd/boatstack-reviewer/seal.go:419`). Run `review_seal`.

Limits of the code met on the way, which the properties are stated around: resuming
an interrupted gate installs its evidence without running its command; an uncertain
publication escalated from another worktree may be published again by its own;
configuration.reconcile closes an interrupted configuration over `project.json` as it
is, with manifest and files of the former selection; an accepted declarative
flow may name values of a fact under the status "absent", which never holds
(`ValuesAreKnown`); extension transitions that only preserve an optional facet
are admitted for objectives without an obligation; the ID of a run is a hash of what it
was started with (`cmd/boatstack-helper/flow_runtime.go`, `bindSelectedPlanRun`), so a run
can begin again, and one that does after its first life ended in a linked worktree may find
its lineage invalid; a cut reconciled from another worktree takes that worktree's revision,
which may be lower than the one it had, and the latest binding is found by revision; a seal reads the document and then
the journal (`cmd/boatstack-reviewer/seal.go:83-96`), and a reset between them, in the
middle of a policy that moves and comes back, joins an old document to a new journal.

## Not modelled

*Effect transaction*: replaying a committed receipt to a repeated key, the
`.recovered` archives (nothing reads them), atomic trees, control bundles, expiry
of authority between admission and effect, invalid files on disk.

*Lifecycle*: the inside of a transaction; publication with a pull request already open;
work packages and planning packages, engagement.renew, installations and updates,
catalog.reconcile, repository.attach and detach, invocation.rebind, external programs; the
engagement value "active", which nothing writes; observed verification "unresolved"
(taken as "stale"); more than one line of commits; encoding of the state.
Nonblockingness of the whole system is disclaimed by
`docs/concepts/supervisory-control.md` and not claimed here.

*Lineage*: the manual objective.bind, the rebind of an abandoned entry, idempotent replay.

*Projections*: file modes, symbolic links and path validation, the frontend
subprocess, `flow check`, installations and their updates, and two owners that
render one unshared path.

*Sessions*: the outcome of the program-change preflight, secrets, trusted resolvers,
entry inputs, question schemas, a second actor, capabilities and the authority
fingerprint, RPC, `recover`; the values of answers.

*Programs*: schemas, versions, fingerprints, effects and verifiers of manifests; types,
entry inputs, authority and the run file of declarative flows.

*Reviews*: the archive of candidates; parsing; resolve, status, show and verify, which
read only. An observation is one step.

The remaining components and the reason why each is left out are listed in
`PROJECT.json`.

## Plan

1. (done) Relation, kernel, integer instance, abstract instance, with proofs.
2. (done) Effect transaction with journal, rollback and recovery, with proofs.
3. (done) Flow projections, their ownership and maintenance, with proofs of the commit.
4. (done) Sessions: inputs, work, authorization, locks, with proofs.
5. (done) Catalog, supervisor and lifecycle; lineage; programs; reviews.
6. (done) Proofs about the lifecycle and about reviews.
7. (done) Proofs about lineage, and about the projections beside maintenance.
8. Control bundles and installation updates; canonical order as pure operators.
