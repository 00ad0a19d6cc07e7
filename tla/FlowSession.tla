------------------------------ MODULE FlowSession ------------------------------
(***************************************************************************)
(* One run of a repository Flow, driven by commands of several processes   *)
(* on one worktree (cmd/boatstack-helper).  The Flow has two transitions:  *)
(* one takes host inputs, the next one foreground work; after them its     *)
(* target is reached.                                                      *)
(*                                                                         *)
(* A command reads the world when it binds the Flow, is admitted, takes    *)
(* the locks it needs one after the other, and reads the world again       *)
(* before it changes anything; other commands run between any two of these *)
(* steps.  There are three locks:                                          *)
(*   runLock   the authorization record of the run; a command waits for it *)
(*   lease     the projections of the worktree; a command never waits for  *)
(*             it, it reports FLOW_PROJECTION_BUSY                         *)
(*   kernel    the effects of the worktree; a command waits for it.  What  *)
(*             is done under it is one step here (DeliveryTransaction has  *)
(*             its inside), so only a configuration is seen to hold it.    *)
(* A crash loses the command and releases its locks.                       *)
(***************************************************************************)
EXTENDS HostInputs, ForegroundWork, RunAuthorization

CONSTANTS
  Processes,
  Bundles, InitialBundle,    \* contents of the control bundle
  Trees, InitialTree,        \* contents of the working tree
  Commands,                  \* the commands hosts give
  MaxGenerations,            \* of the requests of one context
  MaxAuthorizations,         \* revisions of the authorization record
  MaxDisturbances,           \* changes from outside, revocations, questions
  MaxCrashes

ASSUME SessionAssumption ==
  /\ InitialBundle \in Bundles /\ InitialTree \in Trees
  /\ Commands \subseteq 
       {"next", "select", "apply", "run", "configure", "authorize", "answer"}
  /\ {MaxGenerations, MaxAuthorizations, MaxDisturbances, MaxCrashes} \subseteq Nat
  /\ None \notin Processes
  /\ NoRecord \notin
       [bundle : Bundles, revision : Nat, status : Statuses, expired : BOOLEAN]

VARIABLES
  plant,       \* stage, revision, tree, bundle, what HEAD has of it, what this run configured
  record,      \* the authorization record
  archive,     \* authorization records that were superseded
  requests, receipts,
  work,        \* the record of the foreground work
  staged,      \* contexts the host has left its outputs for
  prescribed,  \* what `next` last gave to a host
  receipt,     \* of the last transition committed
  runLock, lease, kernel,
  jobs,        \* the command each process is in
  disturbances, crashes

inputVars == <<requests, receipts>>
workVars == <<work, staged>>
recordVars == <<record, archive>>
lockVars == <<runLock, lease, kernel>>
vars == <<plant, recordVars, inputVars, workVars, prescribed, receipt, lockVars, jobs,
          disturbances, crashes>>

Idle == [command |-> "idle"]

\* What a command has read so far, and where it is.
Job(command, at) ==
  [command |-> command, at |-> at, bundle |-> plant.bundle, prescription |-> None,
   evidence |-> None, reprojected |-> FALSE]

InputContext == [revision |-> plant.revision, bundle |-> plant.bundle]

\* Mutant: a request for work does not cover the tree the host inspects.
ContextOfFirstTree == WorkContext(plant.revision, InitialTree)

CurrentWorkContext == WorkContext(plant.revision, plant.tree)

(***************************************************************************)
(* Binding the Flow: bindFlowEntry.                                        *)
(***************************************************************************)

IsCommitted == plant.head = plant.bundle

\* canReprojectDelegation: a committed configuration of this run made the bundle.
Reprojects ==
  /\ record # NoRecord
  /\ record.bundle # plant.bundle
  /\ plant.bundle \in plant.configured

IsBound == IsCommitted /\ Binds(record, plant.bundle, Reprojects)

TakesInputs == plant.stage = "input"
CurrentRequest == LatestRequest(requests, InputContext)

\* materializeFlowInvocation: either evidence, or the request to be answered.
IsMaterialized == TakesInputs => IsReady(receipts, CurrentRequest)
MaterializedEvidence ==
  IF TakesInputs THEN Evidence(receipts, CurrentRequest)
  ELSE [request |-> None, answered |-> {}]

MayMaterialize == TakesInputs => ~Ambiguous(requests, InputContext)

SaveCurrentRequest ==
  /\ requests' = IF TakesInputs THEN requests \cup {CurrentRequest} ELSE requests
  /\ UNCHANGED receipts

(***************************************************************************)
(* Jobs and locks.                                                         *)
(***************************************************************************)

At(p, commands, at) ==
  jobs[p].command \in commands /\ jobs[p].at = at

GoTo(p, at) == jobs' = [jobs EXCEPT ![p].at = at]

Freed(lock, p) == IF lock = p THEN None ELSE lock

\* A command ends: with success or not, it holds nothing any more.
End(p) ==
  /\ jobs' = [jobs EXCEPT ![p] = Idle]
  /\ runLock' = Freed(runLock, p)
  /\ lease' = Freed(lease, p)
  /\ kernel' = Freed(kernel, p)

EndUnchanged(p) ==
  /\ End(p)
  /\ UNCHANGED <<plant, recordVars, inputVars, workVars, prescribed, receipt>>

Stays == UNCHANGED <<plant, recordVars, inputVars, workVars, prescribed, receipt>>

Calmly == UNCHANGED <<disturbances, crashes>>
Disturbs ==
  /\ disturbances < MaxDisturbances /\ disturbances' = disturbances + 1
  /\ UNCHANGED crashes

(***************************************************************************)
(* The first steps.  `next` with a transition, and `apply`, materialize it *)
(* as they bind; `next` without one (here: "select") and `run` leave that  *)
(* to when a transition has been selected.                                 *)
(***************************************************************************)

Begin(p, command) ==
  /\ jobs[p] = Idle /\ command \in Commands \cap {"next", "apply"}
  /\ plant.stage # "done" /\ IsBound /\ MayMaterialize
  /\ command = "apply" => prescribed # None
  /\ SaveCurrentRequest
  /\ jobs' =
       IF IsMaterialized
         THEN [jobs EXCEPT ![p] =
                [Job(command, IF command = "apply" THEN "preflight" ELSE "prepare")
                  EXCEPT !.prescription = IF command = "apply" THEN prescribed ELSE None,
                         !.evidence = MaterializedEvidence]]
         ELSE jobs
  /\ <<jobs, requests>>' # <<jobs, requests>>
  /\ UNCHANGED <<plant, recordVars, workVars, prescribed, receipt, lockVars>> /\ Calmly

BeginUnmaterialized(p, command) ==
  /\ jobs[p] = Idle /\ command \in Commands \cap {"select", "run"}
  /\ IsBound
  /\ jobs' = [jobs EXCEPT ![p] = Job(command, "prepare")]
  /\ Stays /\ UNCHANGED lockVars /\ Calmly

\* The probe for a changed program takes the lease and gives it back.
Preflight(p) ==
  /\ At(p, {"apply"}, "preflight")
  /\ IF lease = None THEN GoTo(p, "admit") /\ UNCHANGED lockVars ELSE End(p)
  /\ Stays /\ Calmly

\* prepareFlowAuthorization of a resolution, which takes no lock.
Prepare(p) ==
  /\ At(p, {"next", "select", "run"}, "prepare")
  /\ IF lease = None /\ AdmitsResolution(record, jobs[p].bundle)
       THEN GoTo(p, "lease") /\ UNCHANGED lockVars
       ELSE End(p)
  /\ Stays /\ Calmly

\* prepareFlowAuthorization of an apply: from here the record cannot change.
Admit(p) ==
  /\ At(p, {"apply", "run"}, "admit")
  /\ runLock = None
  /\ IF Authorizes(record, jobs[p].bundle)
       THEN /\ runLock' = p
            /\ GoTo(p, IF jobs[p].command = "apply" THEN "lease" ELSE "commit")
            /\ UNCHANGED <<lease, kernel>>
       ELSE End(p)
  /\ Stays /\ Calmly

\* acquireFlowExecutionLease, and what follows it.
NextAt(p) ==
  IF jobs[p].command # "apply" /\ jobs[p].prescription = None THEN "resolve" ELSE "refresh"

\* Mutant: a command waits for the lease.
TakeLeaseWaiting(p) ==
  /\ At(p, {"next", "select", "apply", "run"}, "lease")
  /\ lease = None
  /\ lease' = p /\ GoTo(p, NextAt(p)) /\ UNCHANGED <<runLock, kernel>>
  /\ Stays /\ Calmly

TakeLease(p) ==
  /\ At(p, {"next", "select", "apply", "run"}, "lease")
  /\ IF lease = None
       THEN lease' = p /\ GoTo(p, NextAt(p)) /\ UNCHANGED <<runLock, kernel>>
       ELSE End(p)
  /\ Stays /\ Calmly

(***************************************************************************)
(* Resolving.                                                              *)
(***************************************************************************)

\* verifyTrustedRequestControlBundle
BundleIsCurrent(p) == jobs[p].bundle = plant.bundle /\ IsCommitted

Prescription(evidence) ==
  [stage |-> plant.stage, revision |-> plant.revision, tree |-> plant.tree,
   bundle |-> plant.bundle, evidence |-> evidence]

EnsuredWork == IF plant.stage = "work" THEN Ensure(work, CurrentWorkContext) ELSE work

\* Work is asked for, and a transition is prescribed when it has been done.
WorkIsDone ==
  plant.stage = "work" => IsCurrentResult(EnsuredWork, CurrentWorkContext)

EvidenceIsForState(evidence) ==
  evidence.request # None => /\ plant.stage = "input"
                             /\ evidence.request.context.revision = plant.revision

\* A transition is selected without evidence.  `run` gives the lease back, the
\* others keep it for as long as they last.
Select(p) ==
  /\ At(p, {"select", "run"}, "resolve") /\ jobs[p].evidence = None
  /\ plant.stage = "work" => kernel = None
  /\ work' = IF BundleIsCurrent(p) THEN EnsuredWork ELSE work
  /\ IF BundleIsCurrent(p) /\ WorkIsDone
       THEN /\ GoTo(p, IF plant.stage = "done" THEN "settle" ELSE "materialize")
            /\ lease' = IF jobs[p].command = "run" THEN None ELSE lease
            /\ UNCHANGED <<runLock, kernel>>
       ELSE End(p)
  /\ UNCHANGED <<plant, recordVars, inputVars, staged, prescribed, receipt>> /\ Calmly

\* stabilizeRepositoryPrescription: the selected transition is materialized and
\* resolved again, for which the lease is asked for again.
Materialize(p) ==
  /\ At(p, {"select", "run"}, "materialize")
  /\ IF IsBound /\ MayMaterialize /\ plant.stage # "done"
       THEN /\ SaveCurrentRequest
            /\ IF IsMaterialized
                 THEN /\ jobs' = [jobs EXCEPT ![p].at = "lease",
                                   ![p].evidence = MaterializedEvidence,
                                   ![p].bundle = plant.bundle]
                      /\ UNCHANGED lockVars
                 ELSE End(p)
       ELSE End(p) /\ UNCHANGED inputVars
  /\ UNCHANGED <<plant, recordVars, workVars, prescribed, receipt>> /\ Calmly

\* With evidence, which must be for the state it is seen in.  A host gets the
\* prescription, `run` goes on to apply it.
Resolve(p) ==
  /\ At(p, {"next", "select", "run"}, "resolve") /\ jobs[p].evidence # None
  /\ plant.stage = "work" => kernel = None
  /\ LET current == /\ BundleIsCurrent(p) /\ plant.stage # "done"
                    /\ EvidenceIsForState(jobs[p].evidence)
         resolved == Prescription(jobs[p].evidence)
     IN
     /\ work' = IF current THEN EnsuredWork ELSE work
     /\ IF current /\ WorkIsDone /\ jobs[p].command = "run"
          THEN /\ lease' = None /\ UNCHANGED <<runLock, kernel>>
               /\ jobs' = [jobs EXCEPT ![p].at = "lease", ![p].prescription = resolved]
          ELSE End(p)
     /\ prescribed' =
          IF current /\ WorkIsDone /\ jobs[p].command # "run" THEN resolved ELSE prescribed
  /\ UNCHANGED <<plant, recordVars, inputVars, staged, receipt>> /\ Calmly

\* settleFlowAuthorizationAtTarget, of a command that does not hold the run.
Settle(p) ==
  /\ At(p, {"select", "run"}, "settle")
  /\ runLock = None
  /\ record' = IF record # NoRecord /\ record.status = "active" THEN Completed(record) ELSE record
  /\ End(p)
  /\ UNCHANGED <<plant, archive, inputVars, workVars, prescribed, receipt>> /\ Calmly

(***************************************************************************)
(* Applying.                                                               *)
(***************************************************************************)

\* Mutant: what was materialized before the lease is used under it.
RefreshNothing(p) ==
  /\ At(p, {"apply", "run"}, "refresh")
  /\ GoTo(p, IF jobs[p].command = "apply" THEN "commit" ELSE "admit")
  /\ Stays /\ UNCHANGED lockVars /\ Calmly

\* refreshFlowInvocation: under the lease, everything is bound again.
Refresh(p) ==
  /\ At(p, {"apply", "run"}, "refresh")
  /\ IF IsBound /\ MayMaterialize /\ plant.stage # "done"
       THEN /\ SaveCurrentRequest
            /\ IF IsMaterialized
                 THEN /\ jobs' = [jobs EXCEPT
                           ![p].at = IF jobs[p].command = "apply" THEN "commit" ELSE "admit",
                           ![p].evidence = MaterializedEvidence, ![p].bundle = plant.bundle]
                      /\ UNCHANGED lockVars
                 ELSE End(p)
       ELSE End(p) /\ UNCHANGED inputVars
  /\ UNCHANGED <<plant, recordVars, workVars, prescribed, receipt>> /\ Calmly

\* The admission: what was prescribed is what would be prescribed now.  The
\* record was read when the command was admitted; the clock is read again.
IsAdmitted(p) ==
  LET job == jobs[p] IN
  /\ BundleIsCurrent(p)
  /\ job.prescription = Prescription(job.evidence)
  /\ ~record.expired
  /\ WorkIsDone

NextStage == IF plant.stage = "input" THEN "work" ELSE "done"

Commit(p) ==
  /\ At(p, {"apply", "run"}, "commit")
  /\ kernel = None
  /\ IF IsAdmitted(p)
       THEN /\ plant' = [plant EXCEPT !.stage = NextStage, !.revision = plant.revision + 1]
            /\ receipt' = [prescription |-> jobs[p].prescription,
                           result |-> IF plant.stage = "work" THEN work.result ELSE NoWork]
            /\ record' = IF NextStage = "done" THEN Completed(record) ELSE record
       ELSE UNCHANGED <<plant, receipt, record>>
  /\ End(p)
  /\ UNCHANGED <<archive, inputVars, workVars, prescribed>> /\ Calmly

(***************************************************************************)
(* configuration.mutate: the one command that changes the control bundle.  *)
(* Of the run, it is admitted like every apply and its bundle may be       *)
(* authorized anew; given without a Flow it takes no authorization.        *)
(***************************************************************************)

BeginConfigure(p, ofRun) ==
  /\ jobs[p] = Idle /\ "configure" \in Commands
  /\ ofRun => IsBound
  /\ Disturbs
  /\ jobs' = [jobs EXCEPT ![p] =
       [Job("configure", IF ofRun THEN "admit configuration" ELSE "enter kernel")
         EXCEPT !.reprojected = ofRun]]
  /\ Stays /\ UNCHANGED lockVars

AdmitConfiguration(p) ==
  /\ At(p, {"configure"}, "admit configuration")
  /\ runLock = None
  /\ IF Authorizes(record, jobs[p].bundle)
       THEN runLock' = p /\ GoTo(p, "enter kernel") /\ UNCHANGED <<lease, kernel>>
       ELSE End(p)
  /\ Stays /\ Calmly

EnterKernel(p) ==
  /\ At(p, {"configure"}, "enter kernel")
  /\ kernel = None
  /\ IF BundleIsCurrent(p)
       THEN kernel' = p /\ GoTo(p, "configure") /\ UNCHANGED <<runLock, lease>>
       ELSE End(p)
  /\ Stays /\ Calmly

Configure(p) ==
  /\ At(p, {"configure"}, "configure")
  /\ IF lease = None
       THEN \E bundle \in Bundles \ {plant.bundle} :
              plant' = [plant EXCEPT !.bundle = bundle, !.revision = plant.revision + 1,
                          !.configured = IF jobs[p].reprojected THEN @ \cup {bundle} ELSE @]
       ELSE UNCHANGED plant
  /\ End(p)
  /\ UNCHANGED <<recordVars, inputVars, workVars, prescribed, receipt>> /\ Calmly

(***************************************************************************)
(* The human: authorize, revoke, answer, supersede.                        *)
(***************************************************************************)

\* Whether a reprojection is admitted is found out before the run is locked.
BeginAuthorize(p) ==
  /\ jobs[p] = Idle /\ "authorize" \in Commands
  /\ IsBound /\ lease = None
  /\ ~IsUnchanged(record, plant.bundle)
  /\ record # NoRecord => record.revision < MaxAuthorizations
  /\ jobs' = [jobs EXCEPT ![p] =
       [Job("authorize", "authorize") EXCEPT !.reprojected = Reprojects]]
  /\ Stays /\ UNCHANGED lockVars /\ Calmly

Authorize(p) ==
  /\ At(p, {"authorize"}, "authorize")
  /\ runLock = None
  /\ LET bundle == jobs[p].bundle IN
     IF /\ CanAuthorize(record, bundle, jobs[p].reprojected)
        /\ ~IsUnchanged(record, bundle)
        /\ Supersedes(record, bundle) => CanArchive(archive, record)
       THEN /\ archive' = IF Supersedes(record, bundle) THEN archive \cup {record} ELSE archive
            /\ IF Supersedes(record, bundle)
                 THEN runLock' = p /\ GoTo(p, "store") /\ UNCHANGED <<record, lease, kernel>>
                 ELSE record' = Renewed(record, bundle) /\ End(p)
       ELSE End(p) /\ UNCHANGED recordVars
  /\ UNCHANGED <<plant, inputVars, workVars, prescribed, receipt>> /\ Calmly

\* The archive comes first; a stop here leaves the prior record in force.
StoreAuthorization(p) ==
  /\ At(p, {"authorize"}, "store")
  /\ record' = Renewed(record, jobs[p].bundle)
  /\ End(p)
  /\ UNCHANGED <<plant, archive, inputVars, workVars, prescribed, receipt>> /\ Calmly

\* Mutant: the run is not locked.
RevokeUnlocked ==
  /\ record # NoRecord /\ record.status = "active"
  /\ Disturbs
  /\ record' = Revoked(record)
  /\ UNCHANGED <<plant, archive, inputVars, workVars, prescribed, receipt, lockVars, jobs>>

Revoke ==
  /\ runLock = None
  /\ record # NoRecord /\ record.status = "active"
  /\ Disturbs
  /\ record' = Revoked(record)
  /\ UNCHANGED <<plant, archive, inputVars, workVars, prescribed, receipt, lockVars, jobs>>

\* The human answers all parameters of a request; under the lease the answers
\* are recorded one at a time, in no particular order.  Those that a stopped
\* command has left are kept, and an answer that differs from one is refused.
BeginAnswer(p, request, differing) ==
  /\ jobs[p] = Idle /\ "answer" \in Commands
  /\ lease = None
  /\ request.context.bundle = plant.bundle
  /\ Answered(receipts, request) # Parameters
  /\ lease' = p
  /\ jobs' = [jobs EXCEPT ![p] =
       [command |-> "answer", at |-> "answer", request |-> request,
        differing |-> differing]]
  /\ Stays /\ UNCHANGED <<runLock, kernel>> /\ Calmly

RecordAnswer(p, parameter) ==
  /\ At(p, {"answer"}, "answer")
  /\ LET request == jobs[p].request IN
     IF parameter \in jobs[p].differing
       THEN End(p) /\ UNCHANGED receipts
       ELSE /\ parameter \notin Answered(receipts, request)
            /\ receipts' = receipts \cup {Receipt(request, parameter)}
            /\ IF Answered(receipts', request) = Parameters
                 THEN End(p) ELSE UNCHANGED <<jobs, lockVars>>
  /\ UNCHANGED <<plant, recordVars, requests, workVars, prescribed, receipt>> /\ Calmly

Supersede(request) ==
  /\ lease = None
  /\ request.context.bundle = plant.bundle
  /\ CanSupersede(requests, receipts, request)
  /\ request.generation < MaxGenerations
  /\ requests' = requests \cup {NextRequest(request, Cardinality(requests))}
  /\ UNCHANGED <<plant, recordVars, receipts, workVars, prescribed, receipt, lockVars, jobs>>
  /\ Calmly

(***************************************************************************)
(* The host at work.  Every operation on the record takes the lease and    *)
(* then the kernel, and is refused while the lease is taken.               *)
(***************************************************************************)

Stage ==
  /\ work # NoWork /\ work.context \notin staged
  /\ staged' = staged \cup {work.context}
  /\ UNCHANGED <<plant, recordVars, inputVars, work, prescribed, receipt, lockVars, jobs>>
  /\ Calmly

ChangeWork(guard, changed) ==
  /\ lease = None /\ kernel = None /\ IsBound
  /\ guard
  /\ work' = changed
  /\ UNCHANGED <<plant, recordVars, inputVars, staged, prescribed, receipt, lockVars, jobs>>

AskWork(prompt) == Disturbs /\ ChangeWork(CanAsk(work), Ask(work, prompt))
AnswerWork(question) == Calmly /\ ChangeWork(CanAnswer(work, question), Answer(work))
CompleteWork == Calmly /\ ChangeWork(CanComplete(work, staged), Complete(work))
BlockWork == Disturbs /\ ChangeWork(CanBlock(work), Block(work))

(***************************************************************************)
(* Outside.                                                                *)
(***************************************************************************)

EditTree(tree) ==
  /\ Disturbs /\ tree # plant.tree
  /\ plant' = [plant EXCEPT !.tree = tree]
  /\ UNCHANGED <<recordVars, inputVars, workVars, prescribed, receipt, lockVars, jobs>>

CommitBundle ==
  /\ plant.head # plant.bundle
  /\ plant' = [plant EXCEPT !.head = plant.bundle]
  /\ UNCHANGED <<recordVars, inputVars, workVars, prescribed, receipt, lockVars, jobs>>
  /\ Calmly

Lapse ==
  /\ record # NoRecord /\ record.status = "active" /\ ~record.expired
  /\ Disturbs
  /\ record' = [record EXCEPT !.expired = TRUE]
  /\ UNCHANGED <<plant, archive, inputVars, workVars, prescribed, receipt, lockVars, jobs>>

Crash(p) ==
  /\ jobs[p] # Idle
  /\ crashes < MaxCrashes /\ crashes' = crashes + 1 /\ UNCHANGED disturbances
  /\ EndUnchanged(p)

-----------------------------------------------------------------------------
Init ==
  /\ plant = [stage |-> "input", revision |-> 1, tree |-> InitialTree,
              bundle |-> InitialBundle, head |-> InitialBundle, configured |-> {}]
  /\ record = NoRecord /\ archive = {}
  /\ requests = {} /\ receipts = {}
  /\ work = NoWork /\ staged = {}
  /\ prescribed = None /\ receipt = None
  /\ runLock = None /\ lease = None /\ kernel = None
  /\ jobs = [p \in Processes |-> Idle]
  /\ disturbances = 0 /\ crashes = 0

\* What a process does of itself once a command was given.
Step(p) ==
  \/ Preflight(p) \/ Prepare(p) \/ Admit(p) \/ TakeLease(p)
  \/ Select(p) \/ Materialize(p) \/ Resolve(p) \/ Settle(p)
  \/ Refresh(p) \/ Commit(p)
  \/ AdmitConfiguration(p) \/ EnterKernel(p) \/ Configure(p)
  \/ Authorize(p) \/ StoreAuthorization(p)
  \/ \E parameter \in Parameters : RecordAnswer(p, parameter)

Give(p) ==
  \/ \E command \in Commands : Begin(p, command) \/ BeginUnmaterialized(p, command)
  \/ \E ofRun \in BOOLEAN : BeginConfigure(p, ofRun)
  \/ BeginAuthorize(p)
  \/ \E request \in requests : \E differing \in SUBSET Answered(receipts, request) :
       BeginAnswer(p, request, differing)

Host ==
  \/ Revoke
  \/ \E request \in requests : Supersede(request)
  \/ Stage \/ CompleteWork \/ BlockWork
  \/ \E prompt \in Prompts :
       \/ AskWork(prompt)
       \/ \E context \in staged \cup (IF work = NoWork THEN {} ELSE {work.context}) :
            AnswerWork([context |-> context, prompt |-> prompt])

Outside ==
  \/ \E tree \in Trees : EditTree(tree)
  \/ CommitBundle
  \/ Lapse

Next ==
  \/ \E p \in Processes : Step(p) \/ Give(p) \/ Crash(p)
  \/ Host
  \/ Outside

Spec == Init /\ [][Next]_vars

\* A command that was given goes on, as long as the lock it needs is free.
FairSpec == Spec /\ \A p \in Processes : WF_vars(Step(p))

(***************************************************************************)
(* Properties.                                                             *)
(***************************************************************************)

\* Every record the session keeps has its shape, a lock is free or held by a
\* process that is in a command, and the authorization is for a known bundle.
TypeOK ==
  /\ plant \in [stage : {"input", "work", "done"}, revision : Nat, tree : Trees,
                bundle : Bundles, head : Bundles, configured : SUBSET Bundles]
  /\ \/ record = NoRecord
     \/ record \in [bundle : Bundles, revision : Nat, status : Statuses, expired : BOOLEAN]
  /\ \A prior \in archive : prior.bundle \in Bundles
  /\ \A r \in receipts : r.request \in requests /\ r.parameter \in Parameters
  /\ \A lock \in {runLock, lease, kernel} :
       lock # None => lock \in Processes /\ jobs[lock] # Idle

\* No transition is committed for a run whose authority has been withdrawn,
\* has lapsed, or was given for another control bundle, even when that
\* happened while the command was on its way (the run lock of
\* prepareFlowAuthorization, kept until the command has settled).
CommitsAreAuthorized ==
  [][receipt' # receipt => Authorizes(record, plant.bundle)]_vars

\* What a transition consumes is the answer to the latest generation of its
\* request: a host that has superseded a request is not overtaken by a command
\* that had read the old answers (refreshFlowInvocation under the lease).
ConsumedAnswersAreCurrent ==
  [][receipt' # receipt /\ plant.stage = "input" =>
       receipt'.prescription.evidence = Evidence(receipts, CurrentRequest)]_vars

\* The work that a transition consumes was done for the very state and tree
\* that the transition changes.
WorkIsDoneForTheStateItChanges ==
  [][receipt' # receipt /\ plant.stage = "work" =>
       receipt'.result = WorkContext(plant.revision, plant.tree)]_vars

\* For each context the requests form one chain, whatever commands raced to
\* make or supersede them and wherever one of them stopped.
GenerationsAreOneChain ==
  \A r \in requests : ~Ambiguous(requests, r.context)

\* A selected transition that has been materialized is prescribed to the host
\* that asked what is next, when nothing interferes.
NextReturnsItsPrescription ==
  \A p \in Processes :
    At(p, {"select"}, "lease") /\ jobs[p].evidence # None ~> prescribed # None

\* The locks are taken in different orders by different commands, and still they
\* never all wait for each other, or one for itself: some command can go on.
Busy == {p \in Processes : jobs[p] # Idle}

NobodyWaitsInACircle == Busy # {} => \E p \in Busy : ENABLED Step(p)
===============================================================================
