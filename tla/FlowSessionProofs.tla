--------------------------- MODULE FlowSessionProofs ---------------------------
(***************************************************************************)
(* Proofs about the run of a Flow, for any processes, bundles, trees,      *)
(* parameters and commands, and without the bounds of the runs.            *)
(***************************************************************************)
EXTENDS FlowSession, FiniteSetTheorems, TLAPS

Stages == {"input", "work", "done"}
Contexts == [revision : Nat, bundle : Bundles]
InputRequests == [context : Contexts, generation : Nat, id : Nat, previous : Nat]
InputReceipts == [request : InputRequests, parameter : Parameters]
Evidences == [request : InputRequests \cup {None}, answered : SUBSET Parameters]
Prescriptions ==
  [stage : Stages, revision : Nat, tree : Trees, bundle : Bundles, evidence : Evidences]
Plants == [stage : Stages, revision : Nat, tree : Trees, bundle : Bundles,
           head : Bundles, configured : SUBSET Bundles]
Records == [bundle : Bundles, revision : Nat, status : Statuses, expired : BOOLEAN]

Places ==
  {"prepare", "preflight", "admit", "lease", "resolve", "materialize", "settle", "refresh",
   "commit", "admit configuration", "enter kernel", "configure", "authorize", "store"}

Running ==
  [command : {"next", "select", "apply", "run", "configure", "authorize"}, at : Places,
   bundle : Bundles, prescription : Prescriptions \cup {None},
   evidence : Evidences \cup {None}, reprojected : BOOLEAN]
Answering ==
  [command : {"answer"}, at : {"answer"}, request : InputRequests,
   differing : SUBSET Parameters]
Jobs == {Idle} \cup Running \cup Answering

Typed ==
  /\ plant \in Plants
  /\ record \in Records \cup {NoRecord}
  /\ IsFiniteSet(requests) /\ requests \subseteq InputRequests
  /\ receipts \subseteq InputReceipts
  /\ prescribed \in Prescriptions \cup {None}
  /\ jobs \in [Processes -> Jobs]
  /\ {runLock, lease, kernel} \subseteq Processes \cup {None}

(***************************************************************************)
(* What is true of a process that is in a command.                         *)
(***************************************************************************)

\* Where a process holds the run, and where it holds the projections.
Applies(p) == jobs[p].command = "apply" /\ jobs[p].at \in {"lease", "refresh", "commit"}
Runs(p) == jobs[p].command = "run" /\ jobs[p].at \in {"admit", "commit"}
Commits(p) == jobs[p].command \in {"apply", "run"} /\ jobs[p].at = "commit"
Stores(p) == jobs[p].command = "authorize" /\ jobs[p].at = "store"

HoldsRun(p) == Applies(p) \/ Commits(p) \/ Stores(p)

HoldsLease(p) ==
  \/ jobs[p].command = "apply" /\ jobs[p].at \in {"refresh", "commit"}
  \/ jobs[p].command = "run" /\ jobs[p].at \in {"resolve", "refresh", "admit", "commit"}
  \/ jobs[p].command = "answer"

\* A prescription is not for a state to come, and one for the present state is
\* for the present bundle.
Past(prescription) ==
  /\ prescription.revision <= plant.revision
  /\ prescription.revision = plant.revision => prescription.bundle = plant.bundle

IsActive == record # NoRecord /\ record.status = "active"

\* A command that applies was admitted for the bundle its prescription names,
\* as far as that is still for the present state.
AppliesAuthorized(p) ==
  /\ jobs[p].command = "apply" =>
       jobs[p].prescription \in Prescriptions /\ Past(jobs[p].prescription)
  /\ jobs[p].command = "apply" /\ jobs[p].at \in {"preflight", "admit"} =>
       (jobs[p].prescription.revision = plant.revision => jobs[p].bundle = plant.bundle)
  /\ Applies(p) =>
       /\ IsActive
       /\ jobs[p].prescription.revision = plant.revision => record.bundle = plant.bundle

\* One that resolves and applies at once is admitted under the lease.
RunsAuthorized(p) ==
  Runs(p) =>
    /\ jobs[p].bundle = plant.bundle
    /\ jobs[p].at = "commit" => IsActive /\ record.bundle = plant.bundle

\* From the refresh on the evidence is that of the current request.
IsFresh(p) ==
  (Runs(p) \/ Commits(p)) /\ plant.stage = "input" =>
    /\ CurrentRequest \in requests
    /\ jobs[p].evidence = Evidence(receipts, CurrentRequest)

ProcessInv(p) ==
  /\ HoldsRun(p) => runLock = p
  /\ HoldsLease(p) => lease = p
  /\ AppliesAuthorized(p) /\ RunsAuthorized(p) /\ IsFresh(p)

SessionInv ==
  /\ Typed
  /\ prescribed # None => Past(prescribed)
  /\ \A p \in Processes : ProcessInv(p)

(***************************************************************************)
(* The requests of a context, each generation made once.                   *)
(***************************************************************************)
MadeOnce ==
  \A r, q \in requests :
    r.context = q.context /\ r.generation = q.generation => r = q

ChainInv == GenerationsAreOneChain /\ MadeOnce

-----------------------------------------------------------------------------
(***************************************************************************)
(* The requests.                                                           *)
(***************************************************************************)
\* In a chain there is one latest request, and its generation counts them.
LEMMA LatestOfAChain ==
  ASSUME NEW made, IsFiniteSet(made), made \subseteq InputRequests, NEW context,
         ~Ambiguous(made, context), Matching(made, context) # {}
  PROVE  LET latest == LatestRequest(made, context) IN
         /\ latest \in made /\ latest.context = context
         /\ latest.generation = Cardinality(Matching(made, context))
         /\ Cardinality(Matching(made, context)) \in Nat
         /\ \A q \in Matching(made, context) : q.generation <= latest.generation
<1> DEFINE chain == Matching(made, context)
           n == Cardinality(chain)
<1>1. IsFiniteSet(chain) /\ chain \subseteq made
  BY FS_Subset DEF Matching
<1>2. n \in Nat /\ n # 0
  BY <1>1, FS_CardinalityType, FS_EmptySet
<1>3. {r.generation : r \in chain} = 1..n
  BY DEF Ambiguous, IsChain
<1>4. PICK r \in chain : r.generation = n
  BY <1>2, <1>3
<1>5. \A q \in chain : q.generation \in 1..n
  BY <1>3
<1>6. \A q \in chain : q.generation <= r.generation
  BY <1>2, <1>4, <1>5
<1>7. LatestRequest(made, context) = CHOOSE l \in chain : \A q \in chain : q.generation <= l.generation
  BY DEF LatestRequest
<1> DEFINE latest == LatestRequest(made, context)
<1>8. latest \in chain /\ \A q \in chain : q.generation <= latest.generation
  BY <1>4, <1>6, <1>7
<1>9. latest.generation = n
  BY <1>2, <1>4, <1>5, <1>8
<1>10. latest.context = context
  BY <1>8 DEF Matching
<1> HIDE DEF latest
<1> QED BY <1>1, <1>2, <1>8, <1>9, <1>10 DEF latest

LEMMA FirstRequestIsTyped ==
  ASSUME NEW context \in Contexts
  PROVE  FirstRequest(context) \in InputRequests
BY DEF FirstRequest, InputRequests

LEMMA InputContextIsTyped ==
  ASSUME Typed PROVE InputContext \in Contexts
BY DEF Typed, Plants, InputContext, Contexts

\* The current request, unless the context is ambiguous.
LEMMA CurrentRequestIsTyped ==
  ASSUME Typed, ~Ambiguous(requests, InputContext)
  PROVE  /\ CurrentRequest \in InputRequests
         /\ CurrentRequest.context = InputContext
         /\ CurrentRequest \in requests \/ Matching(requests, InputContext) = {}
<1>1. CASE Matching(requests, InputContext) = {}
  <2>1. CurrentRequest = FirstRequest(InputContext)
    BY <1>1 DEF CurrentRequest, LatestRequest
  <2> QED BY <1>1, <2>1, FirstRequestIsTyped, InputContextIsTyped DEF FirstRequest
<1>2. CASE Matching(requests, InputContext) # {}
  <2>1. /\ CurrentRequest \in requests /\ CurrentRequest.context = InputContext
    BY <1>2, LatestOfAChain DEF Typed, CurrentRequest
  <2> QED BY <2>1 DEF Typed
<1> QED BY <1>1, <1>2

\* Saving the current request does not change which one is current.
LEMMA SavedRequestIsCurrent ==
  ASSUME NEW made, NEW context, NEW latest,
         latest = LatestRequest(made, context),
         latest \in made \/ Matching(made, context) = {},
         Matching(made, context) = {} => context \in Contexts
  PROVE  LatestRequest(made \cup {latest}, context) = latest
<1>1. CASE latest \in made
  <2>1. made \cup {latest} = made
    BY <1>1
  <2> QED BY <2>1
<1>2. CASE Matching(made, context) = {}
  <2>1. latest = FirstRequest(context)
    BY <1>2 DEF LatestRequest
  <2>2. latest.context = context /\ latest.generation = 1
    BY <2>1 DEF FirstRequest
  <2>3. Matching(made \cup {latest}, context) = {latest}
    BY <1>2, <2>2 DEF Matching
  <2>4. LatestRequest(made \cup {latest}, context) \in {latest}
    <3>1. \A q \in {latest} : q.generation <= latest.generation
      BY <2>2
    <3> QED BY <2>3, <3>1 DEF LatestRequest
  <2> QED BY <2>4
<1> QED BY <1>1, <1>2

\* What materializing makes of the requests and takes as evidence.
LEMMA Materializes ==
  ASSUME Typed, MayMaterialize, SaveCurrentRequest
  PROVE  /\ IsFiniteSet(requests') /\ requests' \subseteq InputRequests
         /\ requests \subseteq requests' /\ receipts' = receipts
         /\ MaterializedEvidence \in Evidences
         /\ CurrentRequest \in requests => requests' = requests
         /\ plant.stage = "input" =>
              /\ CurrentRequest \in requests'
              /\ LatestRequest(requests', InputContext) = CurrentRequest
              /\ MaterializedEvidence = Evidence(receipts, CurrentRequest)
<1>1. CASE TakesInputs
  <2>1. ~Ambiguous(requests, InputContext)
    BY <1>1 DEF MayMaterialize
  <2>2. /\ CurrentRequest \in InputRequests
        /\ CurrentRequest \in requests \/ Matching(requests, InputContext) = {}
    BY <2>1, CurrentRequestIsTyped
  <2>3. requests' = requests \cup {CurrentRequest} /\ receipts' = receipts
    BY <1>1 DEF SaveCurrentRequest
  <2>4. IsFiniteSet(requests')
    BY <2>3, FS_AddElement DEF Typed
  <2>5. LatestRequest(requests', InputContext) = CurrentRequest
    BY <2>2, <2>3, SavedRequestIsCurrent, InputContextIsTyped DEF CurrentRequest
  <2>6. MaterializedEvidence = Evidence(receipts, CurrentRequest)
    BY <1>1 DEF MaterializedEvidence
  <2>7. Answered(receipts, CurrentRequest) \in SUBSET Parameters
    BY DEF Typed, InputReceipts, Answered, Answers
  <2>8. MaterializedEvidence \in Evidences
    BY <2>2, <2>6, <2>7 DEF Evidence, Evidences
  <2> QED BY <2>2, <2>3, <2>4, <2>5, <2>6, <2>8 DEF Typed
<1>2. CASE ~TakesInputs
  BY <1>2 DEF SaveCurrentRequest, MaterializedEvidence, Evidences, Typed, TakesInputs
<1> QED BY <1>1, <1>2

-----------------------------------------------------------------------------
(***************************************************************************)
(* Jobs and locks.                                                         *)
(***************************************************************************)
RunningCommands == {"next", "select", "apply", "run", "configure", "authorize"}

LEMMA JobsByCommand ==
  ASSUME Typed, NEW p \in Processes
  PROVE  /\ jobs[p] = Idle => jobs[p].command = "idle"
         /\ jobs[p].command = "idle" => jobs[p] = Idle
         /\ jobs[p].command \in RunningCommands => jobs[p] \in Running
         /\ jobs[p].command = "answer" => jobs[p] \in Answering
         /\ jobs[p].command \in RunningCommands \cup {"idle", "answer"}
<1>1. jobs[p] \in Jobs
  BY DEF Typed
<1>2. CASE jobs[p] = Idle
  BY <1>2 DEF Idle, RunningCommands
<1>3. CASE jobs[p] \in Running
  BY <1>3 DEF Running, RunningCommands, Idle
<1>4. CASE jobs[p] \in Answering
  BY <1>4 DEF Answering, RunningCommands, Idle
<1> QED BY <1>1, <1>2, <1>3, <1>4 DEF Jobs

\* A job that goes on keeps what it has read.
LEMMA GoesOn ==
  ASSUME Typed, NEW p \in Processes, jobs[p].command \in RunningCommands,
         NEW at \in Places, GoTo(p, at)
  PROVE  /\ jobs' \in [Processes -> Jobs] /\ jobs'[p] # Idle
         /\ jobs'[p].at = at /\ jobs'[p].command = jobs[p].command
         /\ jobs'[p].bundle = jobs[p].bundle
         /\ jobs'[p].prescription = jobs[p].prescription
         /\ jobs'[p].evidence = jobs[p].evidence
         /\ \A q \in Processes \ {p} : jobs'[q] = jobs[q]
<1>1. PICK job \in Running : job = jobs[p]
  BY JobsByCommand
<1>2. jobs \in [Processes -> Jobs]
  BY DEF Typed
<1>3. /\ [job EXCEPT !.at = at] \in Running
      /\ [job EXCEPT !.at = at].at = at
      /\ [job EXCEPT !.at = at].command = job.command
      /\ [job EXCEPT !.at = at].bundle = job.bundle
      /\ [job EXCEPT !.at = at].prescription = job.prescription
      /\ [job EXCEPT !.at = at].evidence = job.evidence
  BY DEF Running
<1>4. jobs' = [jobs EXCEPT ![p] = [job EXCEPT !.at = at]]
  BY <1>1 DEF GoTo
<1>5. jobs'[p] = [job EXCEPT !.at = at] /\ \A q \in Processes \ {p} : jobs'[q] = jobs[q]
  BY <1>2, <1>4
<1>6. [job EXCEPT !.at = at] \in Jobs
  BY <1>3 DEF Jobs
<1>7. jobs' \in [Processes -> Jobs]
  BY <1>2, <1>4, <1>6
<1>8. [job EXCEPT !.at = at].command # "idle"
  BY <1>1, <1>3 DEF RunningCommands
<1> HIDE DEF GoTo
<1>9. jobs'[p] # Idle
  BY <1>5, <1>8 DEF Idle
<1> QED BY <1>1, <1>3, <1>5, <1>7, <1>9

\* A command that ends leaves nothing of its own.
LEMMA EndsIdle ==
  ASSUME Typed, NEW p \in Processes, End(p)
  PROVE  /\ jobs' \in [Processes -> Jobs] /\ jobs'[p] = Idle
         /\ \A q \in Processes \ {p} : jobs'[q] = jobs[q]
         /\ {runLock', lease', kernel'} \subseteq Processes \cup {None}
         /\ \A q \in Processes \ {p} : /\ runLock = q => runLock' = q
                                       /\ lease = q => lease' = q
                                       /\ kernel = q => kernel' = q
         /\ {runLock', lease', kernel'} \subseteq {runLock, lease, kernel, None}
         /\ runLock' # p /\ lease' # p /\ kernel' # p
BY SessionAssumption DEF Typed, End, Freed, Jobs

LEMMA IdleHoldsNothing ==
  ASSUME NEW p, jobs[p] = Idle
  PROVE  /\ ~HoldsRun(p) /\ ~HoldsLease(p) /\ ~Applies(p) /\ ~Runs(p) /\ ~Commits(p)
         /\ jobs[p].command = "idle"
BY DEF Idle, HoldsRun, HoldsLease, Applies, Runs, Commits, Stores

-----------------------------------------------------------------------------
(***************************************************************************)
(* What a step of one process leaves of the others.                        *)
(***************************************************************************)
StateStays ==
  plant'.stage = plant.stage /\ plant'.revision = plant.revision /\ plant'.bundle = plant.bundle

StateMoves == plant'.revision = plant.revision + 1

LEMMA PastStays ==
  ASSUME Typed, NEW x \in Prescriptions, Past(x), StateStays \/ StateMoves
  PROVE  Past(x)'
<1>1. x.revision \in Nat /\ plant.revision \in Nat
  BY DEF Typed, Prescriptions, Plants
<1>2. CASE StateStays
  BY <1>2 DEF Past, StateStays
<1>3. CASE StateMoves
  BY <1>1, <1>3 DEF Past, StateMoves
<1> QED BY <1>2, <1>3

\* The records a process holds are left alone by the others: what it holds the
\* run for may lapse, what it holds the projections for does not change.
LEMMA OthersKeep ==
  ASSUME Typed, NEW q \in Processes, ProcessInv(q), jobs'[q] = jobs[q],
         runLock = q => runLock' = q, lease = q => lease' = q,
         StateStays \/ (StateMoves /\ lease # q),
         runLock = q /\ IsActive => IsActive' /\ record'.bundle = record.bundle,
         lease = q => receipts' = receipts,
         lease = q /\ plant.stage = "input" /\ CurrentRequest \in requests => requests' = requests
  PROVE  ProcessInv(q)'
<1>1. /\ HoldsRun(q)' <=> HoldsRun(q)
      /\ HoldsLease(q)' <=> HoldsLease(q)
      /\ Applies(q)' <=> Applies(q)
      /\ Runs(q)' <=> Runs(q)
      /\ Commits(q)' <=> Commits(q)
  BY DEF HoldsRun, HoldsLease, Applies, Runs, Commits, Stores
<1>2. /\ HoldsRun(q) => runLock = q
      /\ HoldsLease(q) => lease = q
  BY DEF ProcessInv
<1>3. /\ Applies(q) => HoldsRun(q) /\ jobs[q].command = "apply"
      /\ Commits(q) => HoldsRun(q) /\ HoldsLease(q)
      /\ Runs(q) => HoldsLease(q)
      /\ Runs(q) /\ jobs[q].at = "commit" => Commits(q)
  BY DEF Applies, Commits, Runs, HoldsRun, HoldsLease
<1>4. AppliesAuthorized(q)'
  <2>1. ASSUME jobs[q].command = "apply"
        PROVE  /\ jobs[q].prescription \in Prescriptions /\ Past(jobs[q].prescription)
               /\ Past(jobs[q].prescription)'
    BY <2>1, PastStays DEF ProcessInv, AppliesAuthorized
  <2>2. ASSUME jobs[q].command = "apply", jobs[q].prescription.revision = plant'.revision
        PROVE  jobs[q].prescription.revision = plant.revision /\ plant'.bundle = plant.bundle
    <3>1. jobs[q].prescription.revision <= plant.revision /\ plant.revision \in Nat
      BY <2>1, <2>2 DEF Past, Typed, Plants
    <3> QED BY <2>2, <3>1 DEF StateStays, StateMoves
  <2> QED BY <1>1, <1>2, <1>3, <2>1, <2>2 DEF ProcessInv, AppliesAuthorized
<1>5. RunsAuthorized(q)'
  BY <1>1, <1>2, <1>3 DEF ProcessInv, RunsAuthorized, StateStays
<1>6. IsFresh(q)'
  <2> SUFFICES ASSUME Runs(q) \/ Commits(q), plant'.stage = "input"
               PROVE  /\ CurrentRequest' \in requests'
                      /\ jobs[q].evidence = Evidence(receipts', CurrentRequest')
    BY <1>1 DEF IsFresh
  <2>1. lease = q /\ StateStays /\ plant.stage = "input"
    BY <1>2, <1>3 DEF StateStays
  <2>2. /\ CurrentRequest \in requests
        /\ jobs[q].evidence = Evidence(receipts, CurrentRequest)
    BY <2>1 DEF ProcessInv, IsFresh
  <2>3. receipts' = receipts /\ requests' = requests
    BY <2>1, <2>2
  <2>4. CurrentRequest' = CurrentRequest
    BY <2>1, <2>3 DEF CurrentRequest, InputContext, StateStays
  <2> QED BY <2>2, <2>3, <2>4
<1> QED BY <1>1, <1>2, <1>4, <1>5, <1>6 DEF ProcessInv

\* Steps that change only what processes do and hold.
Alike == UNCHANGED <<plant, record, requests, receipts, prescribed>>

LEMMA AlikeKeeps ==
  ASSUME SessionInv, NEW p \in Processes, Alike,
         jobs' \in [Processes -> Jobs], {runLock', lease', kernel'} \subseteq Processes \cup {None},
         \A q \in Processes \ {p} : /\ jobs'[q] = jobs[q]
                                    /\ runLock = q => runLock' = q
                                    /\ lease = q => lease' = q,
         ProcessInv(p)'
  PROVE  SessionInv'
<1>1. Typed'
  BY DEF SessionInv, Typed, Alike
<1>2. StateStays /\ (IsActive => IsActive')
  BY DEF Alike, StateStays, IsActive
<1>3. \A q \in Processes \ {p} : ProcessInv(q)'
  BY <1>2, OthersKeep DEF SessionInv, Alike
<1>4. prescribed' # None => Past(prescribed)'
  BY DEF SessionInv, Alike, Past
<1> QED BY <1>1, <1>3, <1>4 DEF SessionInv

LEMMA IdleIsFine ==
  ASSUME NEW p \in Processes, jobs'[p] = Idle
  PROVE  ProcessInv(p)'
BY DEF Idle, ProcessInv, HoldsRun, HoldsLease, Applies, Runs, Commits, Stores,
       AppliesAuthorized, RunsAuthorized, IsFresh

LEMMA EndKeeps ==
  ASSUME SessionInv, NEW p \in Processes, Alike, End(p)
  PROVE  SessionInv'
BY EndsIdle, IdleIsFine, AlikeKeeps DEF SessionInv

\* A command that neither holds a lock nor applies has nothing to keep.
LEMMA FreeIsFine ==
  ASSUME NEW p \in Processes,
         ~HoldsRun(p)', ~HoldsLease(p)', jobs'[p].command # "apply"
  PROVE  ProcessInv(p)'
BY DEF ProcessInv, HoldsRun, HoldsLease, Applies, Runs, Commits, AppliesAuthorized,
       RunsAuthorized, IsFresh

-----------------------------------------------------------------------------
(***************************************************************************)
(* The steps that change only what processes do and hold.                  *)
(***************************************************************************)
LEMMA BeginsAlike ==
  ASSUME SessionInv, NEW p \in Processes,
         \/ \E command \in Commands : BeginUnmaterialized(p, command)
         \/ \E ofRun \in BOOLEAN : BeginConfigure(p, ofRun)
         \/ BeginAuthorize(p)
         \/ \E request \in requests : \E differing \in SUBSET Answered(receipts, request) :
              BeginAnswer(p, request, differing)
  PROVE  SessionInv'
<1>1. Typed /\ jobs \in [Processes -> Jobs] /\ plant.bundle \in Bundles
  BY DEF SessionInv, Typed, Plants
<1>2. ASSUME NEW job \in Jobs, jobs' = [jobs EXCEPT ![p] = job],
             job.command \in {"select", "run", "configure", "authorize"},
             job.at \in {"prepare", "admit configuration", "enter kernel", "authorize"},
             Alike, UNCHANGED lockVars
      PROVE  SessionInv'
  <2>1. jobs' \in [Processes -> Jobs] /\ jobs'[p] = job
    BY <1>1, <1>2
  <2>2. ~HoldsRun(p)' /\ ~HoldsLease(p)' /\ jobs'[p].command # "apply"
    BY <1>2, <2>1 DEF HoldsRun, HoldsLease, Applies, Commits, Stores
  <2>3. ProcessInv(p)'
    BY <2>2, FreeIsFine
  <2> QED BY <1>1, <1>2, <2>1, <2>3, AlikeKeeps DEF lockVars, Typed
<1>3. ASSUME NEW command \in Commands, BeginUnmaterialized(p, command)
      PROVE  SessionInv'
  <2>1. Job(command, "prepare") \in Jobs /\ Job(command, "prepare").command \in {"select", "run"}
        /\ Job(command, "prepare").at = "prepare"
    BY <1>1, <1>3 DEF BeginUnmaterialized, Job, Jobs, Running, Places
  <2> QED BY <1>2, <1>3, <2>1 DEF BeginUnmaterialized, Stays, Alike, recordVars, inputVars
<1>4. ASSUME NEW ofRun \in BOOLEAN, BeginConfigure(p, ofRun)
      PROVE  SessionInv'
  <2> DEFINE job == [Job("configure", IF ofRun THEN "admit configuration" ELSE "enter kernel")
                       EXCEPT !.reprojected = ofRun]
  <2>1. /\ job \in Jobs /\ job.command = "configure"
        /\ job.at \in {"admit configuration", "enter kernel"}
    BY <1>1 DEF Job, Jobs, Running, Places
  <2>2. jobs' = [jobs EXCEPT ![p] = job] /\ Alike /\ UNCHANGED lockVars
    BY <1>4 DEF BeginConfigure, Stays, Alike, recordVars, inputVars
  <2> HIDE DEF job
  <2> QED BY <1>2, <2>1, <2>2
<1>5. ASSUME BeginAuthorize(p)
      PROVE  SessionInv'
  <2> DEFINE job == [Job("authorize", "authorize") EXCEPT !.reprojected = Reprojects]
  <2>1. job \in Jobs /\ job.command = "authorize" /\ job.at = "authorize"
    BY <1>1 DEF Job, Jobs, Running, Places, Reprojects
  <2>2. jobs' = [jobs EXCEPT ![p] = job] /\ Alike /\ UNCHANGED lockVars
    BY <1>5 DEF BeginAuthorize, Stays, Alike, recordVars, inputVars
  <2> HIDE DEF job
  <2> QED BY <1>2, <2>1, <2>2
<1>6. ASSUME NEW request \in requests, NEW differing \in SUBSET Answered(receipts, request),
             BeginAnswer(p, request, differing)
      PROVE  SessionInv'
  <2> DEFINE job == [command |-> "answer", at |-> "answer", request |-> request,
                     differing |-> differing]
  <2>1. request \in InputRequests /\ differing \in SUBSET Parameters
    BY DEF SessionInv, Typed, InputReceipts, Answered, Answers
  <2>2. job \in Jobs /\ job.command = "answer" /\ job.at = "answer"
    BY <2>1 DEF Jobs, Answering
  <2>3. /\ jobs' = [jobs EXCEPT ![p] = job] /\ lease = None /\ lease' = p
        /\ UNCHANGED <<runLock, kernel>> /\ Alike
    BY <1>6 DEF BeginAnswer, Stays, Alike, recordVars, inputVars
  <2> HIDE DEF job
  <2>4. jobs' \in [Processes -> Jobs] /\ jobs'[p] = job
    BY <1>1, <2>2, <2>3
  <2>5. ProcessInv(p)'
    BY <2>2, <2>3, <2>4
       DEF ProcessInv, HoldsRun, HoldsLease, Applies, Runs, Commits, Stores,
           AppliesAuthorized, RunsAuthorized, IsFresh
  <2>6. \A q \in Processes \ {p} : lease # q /\ jobs'[q] = jobs[q]
    BY <1>1, <2>3, SessionAssumption
  <2> QED BY <1>1, <2>3, <2>4, <2>5, <2>6, AlikeKeeps DEF Typed
<1> QED BY <1>3, <1>4, <1>5, <1>6

\* From one place to the next.
LEMMA MovesAlike ==
  ASSUME SessionInv, NEW p \in Processes, jobs[p].command \in RunningCommands,
         NEW at \in Places, GoTo(p, at), Alike,
         runLock' = runLock \/ (runLock = None /\ runLock' = p),
         \/ lease' = lease
         \/ lease' = None /\ lease = p
         \/ lease = None /\ lease' = p,
         kernel' \in {kernel, p},
         ProcessInv(p)'
  PROVE  SessionInv'
<1>1. Typed
  BY DEF SessionInv
<1>2. /\ jobs' \in [Processes -> Jobs]
      /\ \A q \in Processes \ {p} : jobs'[q] = jobs[q]
  BY <1>1, GoesOn
<1>3. \A q \in Processes \ {p} : /\ runLock = q => runLock' = q
                                 /\ lease = q => lease' = q
  BY SessionAssumption
<1>4. {runLock', lease', kernel'} \subseteq Processes \cup {None}
  BY <1>1 DEF Typed
<1> QED BY <1>2, <1>3, <1>4, AlikeKeeps

LEMMA CommandsAreRunning ==
  ASSUME SessionInv, NEW p \in Processes, NEW commands \in SUBSET RunningCommands,
         NEW at, At(p, commands, at)
  PROVE  /\ jobs[p].command \in commands /\ jobs[p].at = at
         /\ jobs[p] \in Running /\ jobs[p].command \in RunningCommands
         /\ ProcessInv(p) /\ Typed
BY JobsByCommand DEF At, SessionInv

LEMMA GetsReady ==
  ASSUME SessionInv, NEW p \in Processes,
         Preflight(p) \/ Prepare(p) \/ AdmitConfiguration(p) \/ EnterKernel(p)
  PROVE  SessionInv'
<1>1. Typed
  BY DEF SessionInv
<1>2. ASSUME NEW commands \in SUBSET RunningCommands, NEW at, At(p, commands, at),
             NEW place \in Places, GoTo(p, place), Alike,
             runLock' = runLock \/ (runLock = None /\ runLock' = p), lease' = lease,
             kernel' \in {kernel, p},
             jobs[p].command # "apply",
             place \in {"lease", "enter kernel", "configure"}
      PROVE  SessionInv'
  <2>1. jobs[p].command \in RunningCommands
    BY <1>2, CommandsAreRunning
  <2>2. jobs'[p].command = jobs[p].command /\ jobs'[p].at = place
    BY <1>1, <1>2, <2>1, GoesOn
  <2>3. ~HoldsRun(p)' /\ ~HoldsLease(p)' /\ jobs'[p].command # "apply"
    BY <1>2, <2>1, <2>2 DEF HoldsRun, HoldsLease, Applies, Commits, Stores, RunningCommands
  <2>4. ProcessInv(p)'
    BY <2>3, FreeIsFine
  <2> QED BY <1>2, <2>1, <2>4, MovesAlike
<1>3. ASSUME Preflight(p)
      PROVE  SessionInv'
  <2>1. Alike /\ At(p, {"apply"}, "preflight")
    BY <1>3 DEF Preflight, Stays, Alike, recordVars, inputVars
  <2>2. jobs[p].command = "apply" /\ jobs[p].at = "preflight" /\ ProcessInv(p)
    BY <2>1 DEF At, SessionInv
  <2>3. CASE End(p)
    BY <2>1, <2>3, EndKeeps
  <2>4. CASE GoTo(p, "admit") /\ UNCHANGED lockVars
    <3>1. /\ jobs'[p].at = "admit" /\ jobs'[p].command = "apply"
          /\ jobs'[p].bundle = jobs[p].bundle
          /\ jobs'[p].prescription = jobs[p].prescription
      BY <1>1, <2>2, <2>4, GoesOn DEF Places, RunningCommands
    <3>2. ProcessInv(p)'
      BY <2>1, <2>2, <3>1
         DEF ProcessInv, HoldsRun, HoldsLease, Applies, Runs, Commits, Stores, Alike,
             AppliesAuthorized, RunsAuthorized, IsFresh, Past
    <3> QED BY <2>1, <2>2, <2>4, <3>2, MovesAlike DEF lockVars, Places, RunningCommands
  <2> QED BY <1>3, <2>3, <2>4 DEF Preflight
<1>4. ASSUME Prepare(p)
      PROVE  SessionInv'
  <2>1. Alike /\ At(p, {"next", "select", "run"}, "prepare")
    BY <1>4 DEF Prepare, Stays, Alike, recordVars, inputVars
  <2>2. CASE End(p)
    BY <2>1, <2>2, EndKeeps
  <2>3. CASE GoTo(p, "lease") /\ UNCHANGED lockVars
    BY <1>2, <2>1, <2>3 DEF lockVars, Places, RunningCommands, At
  <2> QED BY <1>4, <2>2, <2>3 DEF Prepare
<1>5. ASSUME AdmitConfiguration(p)
      PROVE  SessionInv'
  <2>1. Alike /\ At(p, {"configure"}, "admit configuration") /\ runLock = None
    BY <1>5 DEF AdmitConfiguration, Stays, Alike, recordVars, inputVars
  <2>2. CASE End(p)
    BY <2>1, <2>2, EndKeeps
  <2>3. CASE runLock' = p /\ GoTo(p, "enter kernel") /\ UNCHANGED <<lease, kernel>>
    BY <1>2, <2>1, <2>3 DEF Places, RunningCommands, At
  <2> QED BY <1>5, <2>2, <2>3 DEF AdmitConfiguration
<1>6. ASSUME EnterKernel(p)
      PROVE  SessionInv'
  <2>1. Alike /\ At(p, {"configure"}, "enter kernel")
    BY <1>6 DEF EnterKernel, Stays, Alike, recordVars, inputVars
  <2>2. CASE End(p)
    BY <2>1, <2>2, EndKeeps
  <2>3. CASE kernel' = p /\ GoTo(p, "configure") /\ UNCHANGED <<runLock, lease>>
    BY <1>2, <2>1, <2>3 DEF Places, RunningCommands, At
  <2> QED BY <1>6, <2>2, <2>3 DEF EnterKernel
<1> QED BY <1>3, <1>4, <1>5, <1>6

\* The admission locks the run, and the record it was admitted under stays.
LEMMA AdmitKeeps ==
  ASSUME SessionInv, NEW p \in Processes, Admit(p)
  PROVE  SessionInv'
<1>1. Alike /\ At(p, {"apply", "run"}, "admit") /\ runLock = None
  BY DEF Admit, Stays, Alike, recordVars, inputVars
<1>2. /\ jobs[p].command \in {"apply", "run"} /\ jobs[p].at = "admit"
      /\ jobs[p].command \in RunningCommands /\ ProcessInv(p) /\ Typed
  BY <1>1, CommandsAreRunning DEF RunningCommands
<1>3. CASE End(p)
  BY <1>1, <1>3, EndKeeps
<1>4. CASE ~End(p)
  <2> DEFINE place == IF jobs[p].command = "apply" THEN "lease" ELSE "commit"
  <2>1. /\ Authorizes(record, jobs[p].bundle) /\ runLock' = p
        /\ GoTo(p, place) /\ UNCHANGED <<lease, kernel>>
    BY <1>4 DEF Admit
  <2>2. IsActive /\ record.bundle = jobs[p].bundle
    BY <2>1 DEF Authorizes, IsActive
  <2>3. /\ jobs'[p].at = place /\ jobs'[p].command = jobs[p].command
        /\ jobs'[p].bundle = jobs[p].bundle
        /\ jobs'[p].prescription = jobs[p].prescription
        /\ jobs'[p].evidence = jobs[p].evidence
    BY <1>2, <2>1, GoesOn DEF Places
  <2>4. IsActive' /\ record' = record /\ UNCHANGED <<plant, requests, receipts>>
    BY <1>1, <2>2 DEF Alike, IsActive
  <2>5. CurrentRequest' = CurrentRequest
    BY <2>4 DEF CurrentRequest, InputContext
  <2>6. ProcessInv(p)'
    <3>1. AppliesAuthorized(p)'
      BY <1>2, <2>2, <2>3, <2>4
         DEF ProcessInv, Applies, AppliesAuthorized, Past
    <3>2. RunsAuthorized(p)'
      BY <1>2, <2>2, <2>3, <2>4 DEF ProcessInv, Runs, RunsAuthorized
    <3>3. IsFresh(p)'
      BY <1>2, <2>3, <2>4, <2>5 DEF ProcessInv, Runs, Commits, IsFresh
    <3>4. HoldsLease(p)' => lease' = p
      BY <1>2, <2>1, <2>3 DEF ProcessInv, HoldsLease
    <3> QED BY <2>1, <3>1, <3>2, <3>3, <3>4 DEF ProcessInv
  <2> QED BY <1>1, <1>2, <2>1, <2>6, MovesAlike DEF Places
<1> QED BY <1>3, <1>4

LEMMA TakeLeaseKeeps ==
  ASSUME SessionInv, NEW p \in Processes, TakeLease(p)
  PROVE  SessionInv'
<1>1. Alike /\ At(p, {"next", "select", "apply", "run"}, "lease")
  BY DEF TakeLease, Stays, Alike, recordVars, inputVars
<1>2. /\ jobs[p].at = "lease"
      /\ jobs[p].command \in RunningCommands /\ ProcessInv(p) /\ Typed
  BY <1>1, CommandsAreRunning DEF RunningCommands
<1>3. CASE End(p)
  BY <1>1, <1>3, EndKeeps
<1>4. CASE ~End(p)
  <2> DEFINE place == NextAt(p)
  <2>1. lease = None /\ lease' = p /\ GoTo(p, place) /\ UNCHANGED <<runLock, kernel>>
    BY <1>4 DEF TakeLease
  <2>2. place \in {"resolve", "refresh"} /\ (jobs[p].command = "apply" => place = "refresh")
    BY DEF NextAt
  <2> HIDE DEF place
  <2>3. /\ jobs'[p].at = place /\ jobs'[p].command = jobs[p].command
        /\ jobs'[p].bundle = jobs[p].bundle
        /\ jobs'[p].prescription = jobs[p].prescription
    BY <1>2, <2>1, <2>2, GoesOn DEF Places
  <2>4. ProcessInv(p)'
    <3>1. ~Runs(p)' /\ ~Commits(p)'
      BY <2>2, <2>3 DEF Runs, Commits
    <3>2. Applies(p)' => Applies(p)
      BY <1>2, <2>3 DEF Applies
    <3>3. HoldsRun(p)' => HoldsRun(p)
      BY <2>2, <2>3, <3>1, <3>2 DEF HoldsRun, Stores
    <3>4. AppliesAuthorized(p)'
      BY <1>1, <1>2, <2>2, <2>3, <3>2 DEF Alike, ProcessInv, AppliesAuthorized, Past, IsActive
    <3> QED BY <1>2, <2>1, <3>1, <3>3, <3>4 DEF ProcessInv, RunsAuthorized, IsFresh
  <2> QED BY <1>1, <1>2, <2>1, <2>2, <2>4, MovesAlike DEF Places
<1> QED BY <1>3, <1>4

LEMMA SelectKeeps ==
  ASSUME SessionInv, NEW p \in Processes, Select(p)
  PROVE  SessionInv'
<1>1. Alike /\ At(p, {"select", "run"}, "resolve")
  BY DEF Select, Alike, recordVars, inputVars
<1>2. /\ jobs[p].command \in {"select", "run"} /\ jobs[p].at = "resolve"
      /\ jobs[p].command \in RunningCommands /\ ProcessInv(p) /\ Typed
  BY <1>1, CommandsAreRunning DEF RunningCommands
<1>3. CASE End(p)
  BY <1>1, <1>3, EndKeeps
<1>4. CASE ~End(p)
  <2> DEFINE place == IF plant.stage = "done" THEN "settle" ELSE "materialize"
  <2>1. /\ GoTo(p, place) /\ UNCHANGED <<runLock, kernel>>
        /\ lease' = IF jobs[p].command = "run" THEN None ELSE lease
    BY <1>4 DEF Select
  <2>2. jobs[p].command = "run" => lease = p
    BY <1>2 DEF ProcessInv, HoldsLease
  <2>3. jobs'[p].at = place /\ jobs'[p].command = jobs[p].command
    BY <1>2, <2>1, GoesOn DEF Places
  <2>4. ProcessInv(p)'
    BY <1>2, <2>3, FreeIsFine DEF HoldsRun, HoldsLease, Applies, Commits, Stores
  <2> QED BY <1>1, <1>2, <2>1, <2>2, <2>4, MovesAlike DEF Places
<1> QED BY <1>3, <1>4

-----------------------------------------------------------------------------
(***************************************************************************)
(* The steps that change a record.                                         *)
(***************************************************************************)
LEMMA StepKeeps ==
  ASSUME SessionInv, NEW p \in Processes, Typed', ProcessInv(p)',
         prescribed' # None => Past(prescribed)',
         \A q \in Processes \ {p} :
           /\ jobs'[q] = jobs[q]
           /\ runLock = q => runLock' = q
           /\ lease = q => lease' = q
           /\ StateStays \/ (StateMoves /\ lease # q)
           /\ runLock = q /\ IsActive => IsActive' /\ record'.bundle = record.bundle
           /\ lease = q => receipts' = receipts
           /\ lease = q /\ plant.stage = "input" /\ CurrentRequest \in requests =>
                requests' = requests
  PROVE  SessionInv'
<1>1. \A q \in Processes \ {p} : ProcessInv(q)'
  BY OthersKeep DEF SessionInv
<1> QED BY <1>1 DEF SessionInv

\* Of the plant and the records, only the requests change.
Saves == UNCHANGED <<plant, record, receipts, prescribed>>

LEMMA SavesKeep ==
  ASSUME SessionInv, NEW p \in Processes, MayMaterialize, SaveCurrentRequest, Saves,
         jobs' \in [Processes -> Jobs], {runLock', lease', kernel'} \subseteq Processes \cup {None},
         \A q \in Processes \ {p} : /\ jobs'[q] = jobs[q]
                                    /\ runLock = q => runLock' = q
                                    /\ lease = q => lease' = q,
         ProcessInv(p)'
  PROVE  SessionInv'
<1>1. Typed
  BY DEF SessionInv
<1>2. /\ IsFiniteSet(requests') /\ requests' \subseteq InputRequests
      /\ CurrentRequest \in requests => requests' = requests
  BY <1>1, Materializes
<1>3. Typed'
  BY <1>1, <1>2 DEF Typed, Saves
<1>4. StateStays /\ (IsActive => IsActive') /\ record' = record /\ receipts' = receipts
  BY DEF Saves, StateStays, IsActive
<1>5. prescribed' # None => Past(prescribed)'
  BY DEF SessionInv, Saves, Past
<1> QED BY <1>2, <1>3, <1>4, <1>5, StepKeeps

LEMMA BeginKeeps ==
  ASSUME SessionInv, NEW p \in Processes, NEW command \in Commands, Begin(p, command)
  PROVE  SessionInv'
<1>1. /\ Typed /\ jobs[p] = Idle /\ command \in {"next", "apply"}
      /\ MayMaterialize /\ SaveCurrentRequest /\ Saves /\ UNCHANGED lockVars
      /\ command = "apply" => prescribed # None
  BY DEF SessionInv, Begin, SaveCurrentRequest, Saves, recordVars
<1>2. /\ jobs \in [Processes -> Jobs] /\ plant \in Plants
      /\ prescribed \in Prescriptions \cup {None}
      /\ {runLock', lease', kernel'} \subseteq Processes \cup {None}
  BY <1>1 DEF Typed, lockVars
<1>3. MaterializedEvidence \in Evidences
  BY <1>1, Materializes
<1>4. CASE jobs' = jobs
  BY <1>1, <1>2, <1>4, IdleIsFine, SavesKeep DEF lockVars
<1>5. CASE jobs' # jobs
  <2> DEFINE place == IF command = "apply" THEN "preflight" ELSE "prepare"
             job == [Job(command, place)
                       EXCEPT !.prescription = IF command = "apply" THEN prescribed ELSE None,
                              !.evidence = MaterializedEvidence]
  <2>1. jobs' = [jobs EXCEPT ![p] = job]
    BY <1>5 DEF Begin
  <2>2. /\ job \in Jobs /\ job.command = command /\ job.at = place
        /\ job.bundle = plant.bundle
        /\ command = "apply" => job.prescription = prescribed
    BY <1>1, <1>2, <1>3 DEF Job, Jobs, Running, Places, Plants
  <2> HIDE DEF job
  <2>3. /\ jobs' \in [Processes -> Jobs] /\ jobs'[p] = job
        /\ \A q \in Processes \ {p} : jobs'[q] = jobs[q]
    BY <1>2, <2>1, <2>2
  <2>4. prescribed # None => Past(prescribed)
    BY DEF SessionInv
  <2>5. plant' = plant
    BY <1>1 DEF Saves
  <2>6. /\ ~HoldsRun(p)' /\ ~HoldsLease(p)' /\ ~Runs(p)' /\ ~Commits(p)' /\ ~Applies(p)'
    BY <1>1, <2>2, <2>3 DEF HoldsRun, HoldsLease, Runs, Commits, Applies, Stores
  <2>7. AppliesAuthorized(p)'
    BY <1>1, <1>2, <2>2, <2>3, <2>4, <2>5, <2>6 DEF AppliesAuthorized, Past
  <2>8. ProcessInv(p)'
    BY <2>6, <2>7 DEF ProcessInv, RunsAuthorized, IsFresh
  <2> QED BY <1>1, <1>2, <2>3, <2>8, SavesKeep DEF lockVars
<1> QED BY <1>4, <1>5

\* A job that reads again what it is for.
Rereads(p, at, evidence, bundle) ==
  jobs' = [jobs EXCEPT ![p].at = at, ![p].evidence = evidence, ![p].bundle = bundle]

LEMMA ReadsAgain ==
  ASSUME Typed, NEW p \in Processes, jobs[p].command \in RunningCommands,
         NEW at \in Places, NEW evidence \in Evidences, NEW bundle \in Bundles,
         Rereads(p, at, evidence, bundle)
  PROVE  /\ jobs' \in [Processes -> Jobs]
         /\ jobs'[p].at = at /\ jobs'[p].command = jobs[p].command
         /\ jobs'[p].bundle = bundle /\ jobs'[p].evidence = evidence
         /\ jobs'[p].prescription = jobs[p].prescription
         /\ \A q \in Processes \ {p} : jobs'[q] = jobs[q]
<1>1. PICK job \in Running : job = jobs[p]
  BY JobsByCommand
<1>2. jobs \in [Processes -> Jobs]
  BY DEF Typed
<1> DEFINE read == [job EXCEPT !.at = at, !.evidence = evidence, !.bundle = bundle]
<1>3. /\ read \in Running /\ read.at = at /\ read.command = job.command
      /\ read.bundle = bundle /\ read.evidence = evidence
      /\ read.prescription = job.prescription
  BY DEF Running
<1>4. jobs' = [jobs EXCEPT ![p] = read]
  BY <1>1, <1>2 DEF Rereads
<1> HIDE DEF read
<1>5. jobs'[p] = read /\ \A q \in Processes \ {p} : jobs'[q] = jobs[q]
  BY <1>2, <1>4
<1>6. jobs' \in [Processes -> Jobs]
  BY <1>2, <1>3, <1>4 DEF Jobs
<1> QED BY <1>1, <1>3, <1>5, <1>6

LEMMA MaterializeKeeps ==
  ASSUME SessionInv, NEW p \in Processes, Materialize(p)
  PROVE  SessionInv'
<1>1. /\ At(p, {"select", "run"}, "materialize") /\ Saves
  BY DEF Materialize, SaveCurrentRequest, Saves, recordVars, inputVars
<1>2. /\ jobs[p].command \in {"select", "run"} /\ jobs[p].command \in RunningCommands /\ Typed
  BY <1>1, CommandsAreRunning DEF RunningCommands
<1>3. CASE End(p) /\ UNCHANGED inputVars
  BY <1>1, <1>3, EndKeeps DEF Saves, Alike, inputVars
<1>4. CASE MayMaterialize /\ SaveCurrentRequest /\ End(p)
  BY <1>1, <1>2, <1>4, EndsIdle, IdleIsFine, SavesKeep
<1>5. CASE /\ MayMaterialize /\ SaveCurrentRequest /\ UNCHANGED lockVars
           /\ jobs' = [jobs EXCEPT ![p].at = "lease", ![p].evidence = MaterializedEvidence,
                                   ![p].bundle = plant.bundle]
  <2>1. MaterializedEvidence \in Evidences /\ plant.bundle \in Bundles
    BY <1>2, <1>5, Materializes DEF Typed, Plants
  <2>2. /\ jobs' \in [Processes -> Jobs]
        /\ jobs'[p].at = "lease" /\ jobs'[p].command \in {"select", "run"}
        /\ \A q \in Processes \ {p} : jobs'[q] = jobs[q]
    <3>1. Rereads(p, "lease", MaterializedEvidence, plant.bundle)
      BY <1>5 DEF Rereads
    <3>2. {"select", "run"} \subseteq RunningCommands /\ "lease" \in Places
      BY CommandsAreRunning DEF RunningCommands, Places
    <3> QED BY SMTT(30), <1>2, <2>1, <3>1, <3>2, ReadsAgain
  <2>3. ProcessInv(p)'
    BY <2>2, FreeIsFine DEF HoldsRun, HoldsLease, Applies, Commits, Stores
  <2> QED BY <1>1, <1>2, <1>5, <2>2, <2>3, SavesKeep DEF lockVars, Typed
<1> QED BY <1>3, <1>4, <1>5 DEF Materialize

\* The refresh takes the evidence of the current request, and nothing that a
\* command does under the lease is done for another one.
LEMMA RefreshKeeps ==
  ASSUME SessionInv, NEW p \in Processes, Refresh(p)
  PROVE  SessionInv'
<1>1. /\ At(p, {"apply", "run"}, "refresh") /\ Saves
  BY DEF Refresh, SaveCurrentRequest, Saves, recordVars, inputVars
<1>2. /\ jobs[p].command \in {"apply", "run"} /\ jobs[p].at = "refresh"
      /\ jobs[p].command \in RunningCommands /\ Typed /\ ProcessInv(p)
  BY <1>1, CommandsAreRunning DEF RunningCommands
<1>3. CASE End(p) /\ UNCHANGED inputVars
  BY <1>1, <1>3, EndKeeps DEF Saves, Alike, inputVars
<1>4. CASE MayMaterialize /\ SaveCurrentRequest /\ End(p)
  BY <1>1, <1>2, <1>4, EndsIdle, IdleIsFine, SavesKeep
<1> DEFINE place == IF jobs[p].command = "apply" THEN "commit" ELSE "admit"
<1>5. CASE /\ MayMaterialize /\ SaveCurrentRequest /\ UNCHANGED lockVars
           /\ jobs' = [jobs EXCEPT ![p].at = place, ![p].evidence = MaterializedEvidence,
                                   ![p].bundle = plant.bundle]
  <2>1. MaterializedEvidence \in Evidences /\ plant.bundle \in Bundles
    BY <1>2, <1>5, Materializes DEF Typed, Plants
  <2>2. place \in Places
    BY DEF Places
  <2>3. /\ jobs' \in [Processes -> Jobs]
        /\ jobs'[p].at = place /\ jobs'[p].command = jobs[p].command
        /\ jobs'[p].bundle = plant.bundle
        /\ jobs'[p].prescription = jobs[p].prescription
        /\ jobs'[p].evidence = MaterializedEvidence
        /\ \A q \in Processes \ {p} : jobs'[q] = jobs[q]
    <3>1. Rereads(p, place, MaterializedEvidence, plant.bundle)
      BY <1>5 DEF Rereads
    <3> HIDE DEF place
    <3> QED BY <1>2, <2>1, <2>2, <3>1, ReadsAgain
  <2>4. UNCHANGED <<plant, record, receipts, runLock, lease>>
    BY <1>1, <1>5 DEF Saves, lockVars
  <2>5. /\ HoldsRun(p)' => runLock' = p
        /\ HoldsLease(p)' => lease' = p
    BY <1>2, <2>3, <2>4 DEF ProcessInv, HoldsRun, HoldsLease, Applies, Commits, Stores
  <2>6. AppliesAuthorized(p)'
    BY <1>2, <2>3, <2>4 DEF ProcessInv, AppliesAuthorized, Applies, Past, IsActive
  <2>7. RunsAuthorized(p)'
    BY <1>2, <2>3, <2>4 DEF RunsAuthorized, Runs
  <2>8. IsFresh(p)'
    <3>1. plant.stage = "input" =>
            /\ CurrentRequest \in requests'
            /\ LatestRequest(requests', InputContext) = CurrentRequest
            /\ MaterializedEvidence = Evidence(receipts, CurrentRequest)
      BY <1>2, <1>5, Materializes
    <3>2. CurrentRequest' = LatestRequest(requests', InputContext)
      BY <2>4 DEF CurrentRequest, InputContext
    <3> QED BY <2>3, <2>4, <3>1, <3>2 DEF IsFresh
  <2>9. ProcessInv(p)'
    BY <2>5, <2>6, <2>7, <2>8 DEF ProcessInv
  <2> QED BY <1>1, <1>2, <1>5, <2>3, <2>9, SavesKeep DEF lockVars, Typed
<1> QED BY <1>3, <1>4, <1>5 DEF Refresh

LEMMA ResolveKeeps ==
  ASSUME SessionInv, NEW p \in Processes, Resolve(p)
  PROVE  SessionInv'
<1> DEFINE resolved == Prescription(jobs[p].evidence)
<1>1. /\ At(p, {"next", "select", "run"}, "resolve") /\ jobs[p].evidence # None
      /\ UNCHANGED <<plant, record, requests, receipts>>
      /\ prescribed' \in {resolved, prescribed}
  BY DEF Resolve, recordVars, inputVars
<1>2. /\ jobs[p].command \in {"next", "select", "run"} /\ jobs[p].at = "resolve"
      /\ jobs[p].command \in RunningCommands /\ jobs[p] \in Running
      /\ Typed /\ ProcessInv(p)
  BY <1>1, CommandsAreRunning DEF RunningCommands
<1>3. jobs[p].evidence \in Evidences
  BY <1>1, <1>2 DEF Running
<1>4. resolved \in Prescriptions /\ Past(resolved)
  BY <1>2, <1>3 DEF Prescription, Prescriptions, Past, Typed, Plants
<1> HIDE DEF resolved
<1>5. prescribed' \in Prescriptions \cup {None} /\ (prescribed' # None => Past(prescribed)')
  <2>1. Past(prescribed') <=> Past(prescribed)'
    BY <1>1 DEF Past
  <2> QED BY <1>1, <1>2, <1>4, <2>1 DEF Typed, SessionInv
<1>6. ASSUME jobs' \in [Processes -> Jobs], {runLock', lease', kernel'} \subseteq Processes \cup {None},
             \A q \in Processes \ {p} : /\ jobs'[q] = jobs[q]
                                        /\ runLock = q => runLock' = q
                                        /\ lease = q => lease' = q,
             ProcessInv(p)'
      PROVE  SessionInv'
  <2>1. Typed'
    BY <1>1, <1>2, <1>5, <1>6 DEF Typed
  <2>2. StateStays /\ (IsActive => IsActive')
    BY <1>1 DEF StateStays, IsActive
  <2> QED BY <1>1, <1>5, <1>6, <2>1, <2>2, StepKeeps
<1>7. CASE End(p)
  BY <1>2, <1>6, <1>7, EndsIdle, IdleIsFine
<1>8. CASE /\ jobs[p].command = "run" /\ lease' = None /\ UNCHANGED <<runLock, kernel>>
           /\ jobs' = [jobs EXCEPT ![p].at = "lease", ![p].prescription = resolved]
  <2>1. PICK job \in Running : job = jobs[p]
    BY <1>2
  <2> DEFINE next == [job EXCEPT !.at = "lease", !.prescription = resolved]
  <2>2. next \in Running /\ next.at = "lease" /\ next.command = "run"
    BY <1>4, <1>8, <2>1 DEF Running, Places
  <2>3. jobs' = [jobs EXCEPT ![p] = next] /\ jobs \in [Processes -> Jobs]
    BY <1>2, <1>8, <2>1 DEF Typed
  <2> HIDE DEF next
  <2>4. /\ jobs' \in [Processes -> Jobs] /\ jobs'[p] = next
        /\ \A q \in Processes \ {p} : jobs'[q] = jobs[q]
    BY <2>2, <2>3 DEF Jobs
  <2>5. ProcessInv(p)'
    BY <2>2, <2>4, FreeIsFine DEF HoldsRun, HoldsLease, Applies, Commits, Stores
  <2>6. lease = p
    BY <1>2, <1>8 DEF ProcessInv, HoldsLease
  <2> QED BY <1>2, <1>6, <1>8, <2>4, <2>5, <2>6 DEF Typed
<1> QED BY <1>7, <1>8 DEF Resolve, resolved

\* The record changes while no other command holds the run.
LEMMA RecordKeeps ==
  ASSUME SessionInv, NEW p \in Processes, End(p), runLock \in {None, p},
         UNCHANGED <<plant, requests, receipts, prescribed>>,
         record' \in Records \cup {NoRecord}
  PROVE  SessionInv'
<1>1. Typed
  BY DEF SessionInv
<1>2. /\ jobs' \in [Processes -> Jobs] /\ jobs'[p] = Idle
      /\ {runLock', lease', kernel'} \subseteq Processes \cup {None}
      /\ \A q \in Processes \ {p} : /\ jobs'[q] = jobs[q]
                                    /\ runLock = q => runLock' = q
                                    /\ lease = q => lease' = q
                                    /\ runLock # q
  BY <1>1, EndsIdle, SessionAssumption
<1>3. Typed' /\ StateStays /\ (prescribed' # None => Past(prescribed)')
  BY <1>1, <1>2 DEF Typed, StateStays, SessionInv, Past
<1>4. ProcessInv(p)'
  BY <1>2, IdleIsFine
<1> QED BY <1>2, <1>3, <1>4, StepKeeps

LEMMA RecordsStayRecords ==
  ASSUME NEW r \in Records
  PROVE  /\ Completed(r) \in Records /\ Revoked(r) \in Records
         /\ [r EXCEPT !.expired = TRUE] \in Records
         /\ [r EXCEPT !.expired = TRUE].bundle = r.bundle
         /\ [r EXCEPT !.expired = TRUE].status = r.status
         /\ r # NoRecord
<1>1. r # NoRecord
  BY SessionAssumption DEF Records
<1>2. Completed(r) \in Records /\ Revoked(r) \in Records
  <2>1. PICK next \in Nat : next = r.revision + 1
    BY DEF Records
  <2>2. ASSUME NEW status \in Statuses
        PROVE  [r EXCEPT !.status = status, !.revision = next] \in Records
    BY DEF Records
  <2> QED BY <2>1, <2>2 DEF Completed, Revoked, Statuses
<1>3. /\ [r EXCEPT !.expired = TRUE] \in Records
      /\ [r EXCEPT !.expired = TRUE].bundle = r.bundle
      /\ [r EXCEPT !.expired = TRUE].status = r.status
  BY DEF Records
<1> QED BY <1>1, <1>2, <1>3

LEMMA RenewedIsARecord ==
  ASSUME NEW r \in Records \cup {NoRecord}, NEW bundle \in Bundles
  PROVE  Renewed(r, bundle) \in Records
<1>1. r # NoRecord => r.revision \in Nat
  BY DEF Records
<1> QED BY <1>1 DEF Renewed, Granted, Records, Statuses

LEMMA AuthorizesKeep ==
  ASSUME SessionInv, NEW p \in Processes,
         Settle(p) \/ Authorize(p) \/ StoreAuthorization(p)
  PROVE  SessionInv'
<1>1. Typed /\ record \in Records \cup {NoRecord}
  BY DEF SessionInv, Typed
<1>2. ASSUME Settle(p)
      PROVE  SessionInv'
  <2>1. /\ runLock = None /\ End(p) /\ UNCHANGED <<plant, requests, receipts, prescribed>>
        /\ record' \in {record, Completed(record)}
        /\ record' # record => record # NoRecord
    BY <1>2 DEF Settle, inputVars
  <2>2. record' \in Records \cup {NoRecord}
    BY <1>1, <2>1, RecordsStayRecords
  <2> QED BY <2>1, <2>2, RecordKeeps
<1>3. ASSUME NEW at, At(p, {"authorize"}, at)
      PROVE  /\ jobs[p].command = "authorize" /\ jobs[p].bundle \in Bundles
             /\ jobs[p].at = at
  <2>1. jobs[p].command = "authorize" /\ jobs[p].at = at
    BY <1>3 DEF At
  <2>2. jobs[p] \in Running
    BY <1>1, <2>1, JobsByCommand DEF RunningCommands
  <2> QED BY <2>1, <2>2 DEF Running
<1>4. ASSUME Authorize(p)
      PROVE  SessionInv'
  <2>1. /\ jobs[p].command = "authorize" /\ jobs[p].bundle \in Bundles
        /\ runLock = None /\ UNCHANGED <<plant, requests, receipts, prescribed>>
    BY <1>3, <1>4 DEF Authorize, inputVars
  <2>2. CASE record' = record /\ End(p)
    BY <1>1, <2>1, <2>2, RecordKeeps
  <2>3. CASE record' = Renewed(record, jobs[p].bundle) /\ End(p)
    BY <1>1, <2>1, <2>3, RecordKeeps, RenewedIsARecord
  <2>4. CASE runLock' = p /\ GoTo(p, "store") /\ UNCHANGED <<record, lease, kernel>>
    <3>1. /\ jobs'[p].at = "store" /\ jobs'[p].command = "authorize"
      BY <1>1, <2>1, <2>4, GoesOn DEF Places, RunningCommands
    <3>2. ProcessInv(p)'
      BY <2>4, <3>1 DEF ProcessInv, HoldsRun, HoldsLease, Applies, Runs, Commits,
                        AppliesAuthorized, RunsAuthorized, IsFresh
    <3>3. Alike
      BY <2>1, <2>4 DEF Alike
    <3> QED BY <2>1, <2>4, <3>2, <3>3, MovesAlike DEF Places, RunningCommands
  <2> QED BY <1>4, <2>2, <2>3, <2>4 DEF Authorize, recordVars
<1>5. ASSUME StoreAuthorization(p)
      PROVE  SessionInv'
  <2>1. /\ jobs[p].command = "authorize" /\ jobs[p].bundle \in Bundles /\ jobs[p].at = "store"
        /\ record' = Renewed(record, jobs[p].bundle) /\ End(p)
        /\ UNCHANGED <<plant, requests, receipts, prescribed>>
    BY <1>3, <1>5 DEF StoreAuthorization, inputVars
  <2>2. runLock = p
    BY <2>1 DEF SessionInv, ProcessInv, HoldsRun, Stores
  <2> QED BY <1>1, <2>1, <2>2, RecordKeeps, RenewedIsARecord
<1> QED BY <1>2, <1>4, <1>5

\* A commit is made by the one command that holds the run and the projections.
LEMMA CommittersHoldBoth ==
  ASSUME SessionInv, NEW p \in Processes, At(p, {"apply", "run"}, "commit")
  PROVE  /\ runLock = p /\ lease = p /\ IsActive
         /\ jobs[p].prescription.revision = plant.revision => record.bundle = plant.bundle
         /\ jobs[p].command \in {"apply", "run"} /\ Commits(p) /\ ProcessInv(p)
<1>1. Commits(p) /\ ProcessInv(p) /\ jobs[p].command \in {"apply", "run"} /\ jobs[p].at = "commit"
  BY DEF SessionInv, At, Commits
<1>2. CASE jobs[p].command = "apply"
  BY <1>1, <1>2 DEF ProcessInv, HoldsRun, HoldsLease, Applies, AppliesAuthorized
<1>3. CASE jobs[p].command = "run"
  BY <1>1, <1>3 DEF ProcessInv, HoldsRun, HoldsLease, Runs, RunsAuthorized
<1> QED BY <1>1, <1>2, <1>3

LEMMA CommitKeeps ==
  ASSUME SessionInv, NEW p \in Processes, Commit(p)
  PROVE  SessionInv'
<1>1. /\ At(p, {"apply", "run"}, "commit") /\ End(p)
      /\ UNCHANGED <<requests, receipts, prescribed>>
  BY DEF Commit, inputVars
<1>2. /\ Typed /\ runLock = p /\ lease = p /\ IsActive
  BY <1>1, CommittersHoldBoth DEF SessionInv
<1>3. record \in Records /\ plant \in Plants /\ plant.revision \in Nat
  BY <1>2 DEF Typed, IsActive, Plants
<1>4. CASE plant' = plant /\ record' = record
  BY <1>1, <1>2, <1>3, <1>4, RecordKeeps
<1>5. CASE /\ plant' = [plant EXCEPT !.stage = NextStage, !.revision = plant.revision + 1]
           /\ record' = IF NextStage = "done" THEN Completed(record) ELSE record
  <2>1. /\ jobs' \in [Processes -> Jobs] /\ jobs'[p] = Idle
        /\ {runLock', lease', kernel'} \subseteq Processes \cup {None}
        /\ \A q \in Processes \ {p} : /\ jobs'[q] = jobs[q]
                                      /\ runLock # q /\ lease # q
    BY <1>1, <1>2, EndsIdle
  <2>2. NextStage \in Stages
    BY DEF NextStage, Stages
  <2>3. PICK stage \in Stages, next \in Nat : stage = NextStage /\ next = plant.revision + 1
    BY <1>3, <2>2
  <2>4. plant' = [plant EXCEPT !.stage = stage, !.revision = next]
    BY <1>5, <2>3
  <2>5. plant' \in Plants /\ StateMoves
    BY <1>3, <2>3, <2>4 DEF Plants, StateMoves
  <2>6. record' \in Records
    BY <1>3, <1>5, RecordsStayRecords
  <2>7. Typed'
    BY <1>1, <1>2, <2>1, <2>5, <2>6 DEF Typed
  <2>8. prescribed' # None => Past(prescribed)'
    BY <1>1, <1>2, <2>5, PastStays DEF SessionInv, Typed
  <2>9. ProcessInv(p)'
    BY <2>1, IdleIsFine
  <2> QED BY <2>1, <2>5, <2>7, <2>8, <2>9, StepKeeps
<1> QED BY <1>4, <1>5 DEF Commit

LEMMA ConfigureKeeps ==
  ASSUME SessionInv, NEW p \in Processes, Configure(p)
  PROVE  SessionInv'
<1>1. /\ End(p) /\ UNCHANGED <<record, requests, receipts, prescribed>>
      /\ Typed /\ plant \in Plants
  BY DEF Configure, inputVars, recordVars, SessionInv, Typed
<1>2. CASE plant' = plant
  BY <1>1, <1>2, EndKeeps DEF Alike
<1>3. CASE plant' # plant
  <2>1. PICK bundle \in Bundles :
          plant' = [plant EXCEPT !.bundle = bundle, !.revision = plant.revision + 1,
                      !.configured = IF jobs[p].reprojected THEN @ \cup {bundle} ELSE @]
    BY <1>3 DEF Configure
  <2>2. lease = None
    BY <1>3 DEF Configure
  <2>3. PICK next \in Nat, configured \in SUBSET Bundles :
          /\ next = plant.revision + 1
          /\ configured = IF jobs[p].reprojected THEN plant.configured \cup {bundle}
                          ELSE plant.configured
    <3>1. /\ plant.revision + 1 \in Nat /\ plant.configured \in SUBSET Bundles
          /\ plant.configured \cup {bundle} \in SUBSET Bundles
      BY <1>1 DEF Plants
    <3> QED BY <3>1
  <2>4. plant' = [plant EXCEPT !.bundle = bundle, !.revision = next, !.configured = configured]
    BY <2>1, <2>3
  <2>5. plant' \in Plants /\ StateMoves
    BY <1>1, <2>3, <2>4 DEF Plants, StateMoves
  <2>6. /\ jobs' \in [Processes -> Jobs] /\ jobs'[p] = Idle
        /\ {runLock', lease', kernel'} \subseteq Processes \cup {None}
        /\ \A q \in Processes \ {p} : /\ jobs'[q] = jobs[q]
                                      /\ runLock = q => runLock' = q
                                      /\ lease # q
    BY <1>1, <2>2, EndsIdle, SessionAssumption
  <2>7. Typed'
    BY <1>1, <2>5, <2>6 DEF Typed
  <2>8. prescribed' # None => Past(prescribed)'
    BY <1>1, <2>5, PastStays DEF SessionInv, Typed
  <2>9. ProcessInv(p)' /\ (IsActive => IsActive')
    BY <1>1, <2>6, IdleIsFine DEF IsActive
  <2> QED BY <1>1, <2>5, <2>6, <2>7, <2>8, <2>9, StepKeeps
<1> QED BY <1>2, <1>3

\* Answers are recorded under the lease.
LEMMA RecordAnswerKeeps ==
  ASSUME SessionInv, NEW p \in Processes, NEW parameter \in Parameters,
         RecordAnswer(p, parameter)
  PROVE  SessionInv'
<1>1. /\ jobs[p].command = "answer" /\ UNCHANGED <<plant, record, requests, prescribed>>
      /\ Typed /\ ProcessInv(p)
  BY DEF RecordAnswer, At, recordVars, SessionInv
<1>2. lease = p /\ jobs[p].request \in InputRequests
  BY <1>1, JobsByCommand DEF ProcessInv, HoldsLease, Answering
<1>3. receipts' \subseteq InputReceipts
  <2>1. Receipt(jobs[p].request, parameter) \in InputReceipts
    BY <1>2 DEF Receipt, InputReceipts
  <2> QED BY <1>1, <2>1 DEF RecordAnswer, Typed
<1>4. /\ jobs' \in [Processes -> Jobs] /\ ProcessInv(p)'
      /\ {runLock', lease', kernel'} \subseteq Processes \cup {None}
      /\ \A q \in Processes \ {p} : /\ jobs'[q] = jobs[q]
                                    /\ runLock = q => runLock' = q
                                    /\ lease # q
  <2>1. CASE End(p)
    BY <1>1, <1>2, <2>1, EndsIdle, IdleIsFine
  <2>2. CASE UNCHANGED <<jobs, lockVars>>
    <3>1. ProcessInv(p)'
      BY <1>1, <1>2, <2>2
         DEF lockVars, ProcessInv, HoldsRun, HoldsLease, Applies, Runs, Commits, Stores,
             AppliesAuthorized, RunsAuthorized, IsFresh
    <3> QED BY <1>1, <1>2, <2>2, <3>1 DEF lockVars, Typed
  <2> QED BY <2>1, <2>2 DEF RecordAnswer
<1>5. Typed' /\ StateStays /\ (prescribed' # None => Past(prescribed)') /\ (IsActive => IsActive')
  BY <1>1, <1>3, <1>4 DEF Typed, StateStays, SessionInv, Past, IsActive
<1> QED BY <1>1, <1>4, <1>5, StepKeeps

-----------------------------------------------------------------------------
(***************************************************************************)
(* What is done outside of a command.                                      *)
(***************************************************************************)
LEMMA OutsideKeeps ==
  ASSUME SessionInv, Host \/ Outside
  PROVE  SessionInv'
<1>1. Typed
  BY DEF SessionInv
<1>2. ASSUME Typed', UNCHANGED <<jobs, runLock, lease, receipts, prescribed>>, StateStays,
             runLock # None /\ IsActive => IsActive' /\ record'.bundle = record.bundle,
             lease # None => requests' = requests
      PROVE  SessionInv'
  <2>1. \A q \in Processes : ProcessInv(q)'
    BY <1>1, <1>2, OthersKeep, SessionAssumption DEF SessionInv
  <2>2. prescribed' # None => Past(prescribed)'
    BY <1>2 DEF SessionInv, Past, StateStays
  <2> QED BY <1>2, <2>1, <2>2 DEF SessionInv
<1>3. ASSUME UNCHANGED <<plant, record, requests, receipts, prescribed, lockVars, jobs>>
      PROVE  SessionInv'
  BY <1>1, <1>2, <1>3 DEF Typed, lockVars, StateStays, IsActive
<1>4. ASSUME Revoke
      PROVE  SessionInv'
  <2>1. /\ UNCHANGED <<plant, requests, receipts, prescribed, lockVars, jobs>>
        /\ runLock = None /\ record # NoRecord /\ record' = Revoked(record)
    BY <1>4 DEF Revoke, inputVars
  <2>2. record' \in Records
    BY <1>1, <2>1, RecordsStayRecords DEF Typed
  <2> QED BY <1>1, <1>2, <2>1, <2>2 DEF Typed, lockVars, StateStays
<1>5. ASSUME Lapse
      PROVE  SessionInv'
  <2>1. /\ UNCHANGED <<plant, requests, receipts, prescribed, lockVars, jobs>>
        /\ record # NoRecord /\ record' = [record EXCEPT !.expired = TRUE]
    BY <1>5 DEF Lapse, inputVars
  <2>2. /\ record' \in Records /\ record'.bundle = record.bundle
        /\ record'.status = record.status /\ record' # NoRecord
    BY <1>1, <2>1, RecordsStayRecords DEF Typed
  <2> QED BY <1>1, <1>2, <2>1, <2>2 DEF Typed, lockVars, StateStays, IsActive
<1>6. ASSUME NEW request \in requests, Supersede(request)
      PROVE  SessionInv'
  <2>1. /\ UNCHANGED <<plant, record, receipts, prescribed, lockVars, jobs>> /\ lease = None
        /\ requests' = requests \cup {NextRequest(request, Cardinality(requests))}
    BY <1>6 DEF Supersede, recordVars
  <2>2. request \in InputRequests /\ Cardinality(requests) \in Nat
    BY <1>1, FS_CardinalityType DEF Typed
  <2>3. NextRequest(request, Cardinality(requests)) \in InputRequests
    BY <2>2 DEF NextRequest, InputRequests
  <2>4. IsFiniteSet(requests') /\ requests' \subseteq InputRequests
    BY <1>1, <2>1, <2>3, FS_AddElement DEF Typed
  <2> QED BY <1>1, <1>2, <2>1, <2>4 DEF Typed, lockVars, StateStays, IsActive
<1>7. ASSUME NEW tree \in Trees, EditTree(tree)
      PROVE  SessionInv'
  <2>1. /\ UNCHANGED <<record, requests, receipts, prescribed, lockVars, jobs>>
        /\ plant' = [plant EXCEPT !.tree = tree]
    BY <1>7 DEF EditTree, recordVars, inputVars
  <2>2. plant' \in Plants /\ StateStays
    BY <1>1, <2>1 DEF Typed, Plants, StateStays
  <2> QED BY <1>1, <1>2, <2>1, <2>2 DEF Typed, lockVars, IsActive
<1>8. ASSUME CommitBundle
      PROVE  SessionInv'
  <2>1. /\ UNCHANGED <<record, requests, receipts, prescribed, lockVars, jobs>>
        /\ plant' = [plant EXCEPT !.head = plant.bundle]
    BY <1>8 DEF CommitBundle, recordVars, inputVars
  <2>2. plant' \in Plants /\ StateStays
    BY <1>1, <2>1 DEF Typed, Plants, StateStays
  <2> QED BY <1>1, <1>2, <2>1, <2>2 DEF Typed, lockVars, IsActive
<1>9. ASSUME Stage \/ CompleteWork \/ BlockWork
      PROVE  SessionInv'
  BY <1>3, <1>9 DEF Stage, CompleteWork, BlockWork, ChangeWork, recordVars, inputVars
<1>10. ASSUME NEW prompt, NEW question, AskWork(prompt) \/ AnswerWork(question)
       PROVE  SessionInv'
  BY <1>3, <1>10 DEF AskWork, AnswerWork, ChangeWork, recordVars, inputVars
<1> QED BY <1>4, <1>5, <1>6, <1>7, <1>8, <1>9, <1>10 DEF Host, Outside

LEMMA StepsKeep ==
  ASSUME SessionInv, [Next]_vars
  PROVE  SessionInv'
<1>1. ASSUME NEW p \in Processes, Step(p)
      PROVE  SessionInv'
  BY <1>1, GetsReady, AdmitKeeps, TakeLeaseKeeps, SelectKeeps, MaterializeKeeps, ResolveKeeps,
     AuthorizesKeep, RefreshKeeps, CommitKeeps, ConfigureKeeps, RecordAnswerKeeps DEF Step
<1>2. ASSUME NEW p \in Processes, Give(p)
      PROVE  SessionInv'
  BY <1>2, BeginKeeps, BeginsAlike DEF Give
<1>3. ASSUME NEW p \in Processes, Crash(p)
      PROVE  SessionInv'
  BY <1>3, EndKeeps DEF Crash, EndUnchanged, Alike, recordVars, inputVars
<1>4. ASSUME UNCHANGED vars
      PROVE  SessionInv'
  <2>1. UNCHANGED <<plant, record, requests, receipts, prescribed, jobs, runLock, lease, kernel>>
    BY <1>4 DEF vars, recordVars, inputVars, lockVars
  <2>2. CurrentRequest' = CurrentRequest
    BY <2>1 DEF CurrentRequest, InputContext
  <2> QED BY <2>1, <2>2
          DEF SessionInv, Typed, ProcessInv, HoldsRun, HoldsLease, Applies, Runs, Commits, Stores,
              AppliesAuthorized, RunsAuthorized, IsFresh, Past, IsActive
<1> QED BY <1>1, <1>2, <1>3, <1>4, OutsideKeeps DEF Next

LEMMA SessionInvHolds == Spec => []SessionInv
<1>1. Init => SessionInv
  <2> SUFFICES ASSUME Init PROVE SessionInv
    OBVIOUS
  <2>1. Typed
    BY SessionAssumption, FS_EmptySet DEF Init, Typed, Plants, Stages, Jobs
  <2> QED BY <2>1 DEF Init, SessionInv, ProcessInv, HoldsRun, HoldsLease, Applies, Runs,
                      Commits, Stores, AppliesAuthorized, RunsAuthorized, IsFresh, Idle
<1>2. SessionInv /\ [Next]_vars => SessionInv'
  BY StepsKeep
<1> QED BY <1>1, <1>2, PTL DEF Spec

-----------------------------------------------------------------------------
(***************************************************************************)
(* The generations.  A request is added in two ways: as the first one of   *)
(* its context, or after the latest one.                                   *)
(***************************************************************************)
LEMMA ChainGrows ==
  ASSUME ChainInv, NEW x, requests' = requests \cup {x},
         IsChain(Matching(requests, x.context) \cup {x}),
         \A q \in Matching(requests, x.context) : q.generation # x.generation
  PROVE  ChainInv'
<1>1. \A context : Matching(requests', context) =
        IF context = x.context THEN Matching(requests, context) \cup {x}
        ELSE Matching(requests, context)
  BY DEF Matching
<1>2. GenerationsAreOneChain'
  <2> SUFFICES ASSUME NEW r \in requests'
               PROVE  IsChain(Matching(requests', r.context))
    BY DEF GenerationsAreOneChain, Ambiguous
  <2>1. CASE r.context = x.context
    BY <1>1, <2>1
  <2>2. CASE r.context # x.context
    <3>1. r \in requests /\ Matching(requests', r.context) = Matching(requests, r.context)
      BY <1>1, <2>2
    <3> QED BY <3>1 DEF ChainInv, GenerationsAreOneChain, Ambiguous
  <2> QED BY <2>1, <2>2
<1>3. MadeOnce'
  BY DEF ChainInv, MadeOnce, Matching
<1> QED BY <1>2, <1>3 DEF ChainInv

LEMMA SavingKeepsChains ==
  ASSUME Typed, ChainInv, MayMaterialize, SaveCurrentRequest
  PROVE  ChainInv'
<1>1. CASE requests' = requests
  BY <1>1 DEF ChainInv, GenerationsAreOneChain, MadeOnce
<1>2. CASE requests' # requests
  <2> DEFINE x == CurrentRequest
  <2>1. TakesInputs /\ requests' = requests \cup {x} /\ x \notin requests
    BY <1>2 DEF SaveCurrentRequest
  <2>2. Matching(requests, InputContext) = {}
    BY <2>1, CurrentRequestIsTyped DEF MayMaterialize
  <2>3. x = FirstRequest(InputContext)
    BY <2>2 DEF CurrentRequest, LatestRequest
  <2>4. x.context = InputContext /\ x.generation = 1
    BY <2>3 DEF FirstRequest
  <2> HIDE DEF x
  <2>5. IsChain({x})
    <3>1. Cardinality({x}) = 1
      BY FS_Singleton
    <3>2. {r.generation : r \in {x}} = 1..1
      BY <2>4
    <3> QED BY <2>4, <3>1, <3>2 DEF IsChain
  <2>6. Matching(requests, x.context) \cup {x} = {x}
    BY <2>2, <2>4
  <2> QED BY <2>1, <2>2, <2>4, <2>5, <2>6, ChainGrows
<1> QED BY <1>1, <1>2

LEMMA SupersedingKeepsChains ==
  ASSUME Typed, ChainInv, NEW request \in requests, Supersede(request)
  PROVE  ChainInv'
<1> DEFINE x == NextRequest(request, Cardinality(requests))
           chain == Matching(requests, request.context)
           n == Cardinality(chain)
<1>1. /\ requests' = requests \cup {x}
      /\ ~Ambiguous(requests, request.context)
      /\ LatestRequest(requests, request.context) = request
  BY DEF Supersede, CanSupersede
<1>2. request \in chain /\ chain \subseteq requests /\ IsFiniteSet(chain)
  BY FS_Subset DEF Matching, Typed
<1>3. /\ n \in Nat /\ request.generation = n
      /\ \A q \in chain : q.generation <= n
  BY <1>1, <1>2, LatestOfAChain DEF Typed
<1>4. x.context = request.context /\ x.generation = n + 1 /\ x.previous = request.id
  BY <1>3 DEF NextRequest
<1>5. /\ {r.generation : r \in chain} = 1..n
      /\ \A r, q \in chain : q.generation = r.generation + 1 => q.previous = r.id
  BY <1>1 DEF Ambiguous, IsChain
<1>6. \A q \in chain : q.generation \in 1..n
  BY <1>5
<1> HIDE DEF x
<1>7. x \notin chain /\ Cardinality(chain \cup {x}) = n + 1
  <2>1. x \notin chain
    BY <1>3, <1>4, <1>6
  <2> QED BY <1>2, <2>1, FS_AddElement
<1> HIDE DEF n
<1>8. IsChain(chain \cup {x})
  <2>1. {r.generation : r \in chain \cup {x}} = 1..(n + 1)
    <3>1. {r.generation : r \in chain \cup {x}} = {r.generation : r \in chain} \cup {n + 1}
      BY <1>4
    <3>2. (1..n) \cup {n + 1} = 1..(n + 1)
      BY <1>3
    <3> QED BY <1>5, <3>1, <3>2
  <2>2. ASSUME NEW r \in chain \cup {x}, NEW q \in chain \cup {x},
               q.generation = r.generation + 1
        PROVE  q.previous = r.id
    <3>1. CASE q \in chain
      <4>1. r \in chain
        BY <1>3, <1>4, <1>6, <2>2, <3>1
      <4> QED BY <1>5, <2>2, <3>1, <4>1
    <3>2. CASE q = x
      <4>1. r # x
        BY <1>3, <1>4, <2>2, <3>2
      <4>2. r \in chain /\ r.generation = n
        BY <1>3, <1>4, <1>6, <2>2, <3>2, <4>1
      <4>3. r = request
        BY <1>2, <1>3, <4>2 DEF ChainInv, MadeOnce, Matching
      <4> QED BY <1>4, <3>2, <4>3
    <3> QED BY <3>1, <3>2
  <2> QED BY <1>7, <2>1, <2>2 DEF IsChain
<1>9. \A q \in chain : q.generation # x.generation
  BY <1>3, <1>4, <1>6
<1> QED BY <1>1, <1>4, <1>8, <1>9, ChainGrows

LEMMA ChainInvHolds == Spec => []ChainInv
<1>1. Init => ChainInv
  BY DEF Init, ChainInv, GenerationsAreOneChain, MadeOnce
<1>2. SessionInv /\ ChainInv /\ [Next]_vars => ChainInv'
  <2> SUFFICES ASSUME SessionInv, ChainInv, [Next]_vars PROVE ChainInv'
    OBVIOUS
  <2>1. Typed
    BY DEF SessionInv
  <2>2. ASSUME requests' = requests
        PROVE  ChainInv'
    BY <2>2 DEF ChainInv, GenerationsAreOneChain, MadeOnce
  <2>3. ASSUME NEW p \in Processes, Step(p)
        PROVE  ChainInv'
    <3>1. CASE Materialize(p) \/ Refresh(p)
      BY <2>1, <2>2, <3>1, SavingKeepsChains DEF Materialize, Refresh, inputVars
    <3>2. CASE ~(Materialize(p) \/ Refresh(p))
      BY <2>2, <2>3, <3>2
         DEF Step, Preflight, Prepare, Admit, TakeLease, Select, Resolve, Settle, Commit,
             AdmitConfiguration, EnterKernel, Configure, Authorize, StoreAuthorization,
             RecordAnswer, Stays, inputVars
    <3> QED BY <3>1, <3>2
  <2>4. ASSUME NEW p \in Processes, Give(p) \/ Crash(p)
        PROVE  ChainInv'
    <3>1. ASSUME NEW command \in Commands, Begin(p, command)
          PROVE  ChainInv'
      BY <2>1, <3>1, SavingKeepsChains DEF Begin
    <3> QED BY <2>2, <2>4, <3>1
            DEF Give, Crash, EndUnchanged, BeginUnmaterialized, BeginConfigure, BeginAuthorize,
                BeginAnswer, Stays, inputVars
  <2>5. CASE Host
    BY <2>1, <2>2, <2>5, SupersedingKeepsChains
       DEF Host, Revoke, Stage, CompleteWork, BlockWork, AskWork, AnswerWork, ChangeWork, inputVars
  <2>6. CASE Outside
    BY <2>2, <2>6 DEF Outside, EditTree, CommitBundle, Lapse, inputVars
  <2>7. CASE UNCHANGED vars
    BY <2>2, <2>7 DEF vars, inputVars
  <2> QED BY <2>3, <2>4, <2>5, <2>6, <2>7 DEF Next
<1> QED BY <1>1, <1>2, SessionInvHolds, PTL DEF Spec

\* For each context the requests form one chain, whatever commands raced to
\* make or supersede them (boatstack/invocation).
THEOREM OneChainOfGenerations == Spec => []GenerationsAreOneChain
BY ChainInvHolds, PTL DEF ChainInv

-----------------------------------------------------------------------------
(***************************************************************************)
(* What a commit rests on.                                                 *)
(***************************************************************************)
LEMMA OnlyCommitsLeaveReceipts ==
  ASSUME Next, receipt' # receipt
  PROVE  \E p \in Processes :
           /\ At(p, {"apply", "run"}, "commit") /\ IsAdmitted(p)
           /\ receipt' = [prescription |-> jobs[p].prescription,
                          result |-> IF plant.stage = "work" THEN work.result ELSE NoWork]
<1>1. ASSUME NEW p \in Processes, Step(p)
      PROVE  Commit(p)
  BY <1>1 DEF Step, Preflight, Prepare, Admit, TakeLease, Select, Materialize, Resolve, Settle,
              Refresh, AdmitConfiguration, EnterKernel, Configure, Authorize,
              StoreAuthorization, RecordAnswer, Stays
<1>2. ASSUME NEW p \in Processes, Give(p) \/ Crash(p)
      PROVE  FALSE
  BY <1>2 DEF Give, Crash, EndUnchanged, Begin, BeginUnmaterialized, BeginConfigure,
              BeginAuthorize, BeginAnswer, Stays
<1>3. ~Host
  BY DEF Host, Revoke, Supersede, Stage, CompleteWork, BlockWork, AskWork, AnswerWork, ChangeWork
<1>4. ~Outside
  BY DEF Outside, EditTree, CommitBundle, Lapse
<1>5. PICK p \in Processes : Commit(p)
  BY <1>1, <1>2, <1>3, <1>4 DEF Next
<1>6. At(p, {"apply", "run"}, "commit")
  BY <1>5 DEF Commit
<1>7. /\ IsAdmitted(p)
      /\ receipt' = [prescription |-> jobs[p].prescription,
                     result |-> IF plant.stage = "work" THEN work.result ELSE NoWork]
  BY <1>5 DEF Commit
<1> QED BY <1>6, <1>7

\* No transition is committed without an authorization in force for the
\* control bundle of that moment, whatever happened since the command read it.
THEOREM CommitsStayAuthorized == Spec => CommitsAreAuthorized
<1>1. SessionInv /\ [Next]_vars => [receipt' # receipt => Authorizes(record, plant.bundle)]_vars
  <2> SUFFICES ASSUME SessionInv, Next, receipt' # receipt
               PROVE  Authorizes(record, plant.bundle)
    OBVIOUS
  <2>1. PICK p \in Processes : At(p, {"apply", "run"}, "commit") /\ IsAdmitted(p)
    BY OnlyCommitsLeaveReceipts
  <2>2. ~record.expired /\ jobs[p].prescription.revision = plant.revision
    BY <2>1 DEF IsAdmitted, Prescription
  <2> QED BY <2>1, <2>2, CommittersHoldBoth DEF Authorizes, IsActive
<1>2. Spec => [][receipt' # receipt => Authorizes(record, plant.bundle)]_vars
  BY <1>1, SessionInvHolds, PTL DEF Spec
<1> QED BY <1>2, PTL DEF CommitsAreAuthorized

\* What a transition consumes is the answer to the latest generation of its
\* request, also when it was superseded while the command was on its way.
THEOREM ConsumedAnswersStayCurrent == Spec => ConsumedAnswersAreCurrent
<1> DEFINE Current == receipt' # receipt /\ plant.stage = "input" =>
                        receipt'.prescription.evidence = Evidence(receipts, CurrentRequest)
<1>1. SessionInv /\ [Next]_vars => [Current]_vars
  <2> SUFFICES ASSUME SessionInv, Next, receipt' # receipt, plant.stage = "input"
               PROVE  receipt'.prescription.evidence = Evidence(receipts, CurrentRequest)
    OBVIOUS
  <2>1. PICK p \in Processes :
          /\ At(p, {"apply", "run"}, "commit") /\ IsAdmitted(p)
          /\ receipt'.prescription = jobs[p].prescription
    BY OnlyCommitsLeaveReceipts
  <2>2. jobs[p].prescription.evidence = jobs[p].evidence
    BY <2>1 DEF IsAdmitted, Prescription
  <2>3. jobs[p].evidence = Evidence(receipts, CurrentRequest)
    BY <2>1, CommittersHoldBoth DEF ProcessInv, IsFresh
  <2> QED BY <2>1, <2>2, <2>3
<1> HIDE DEF Current
<1>2. Spec => [][Current]_vars
  BY <1>1, SessionInvHolds, PTL DEF Spec
<1> QED BY <1>2, PTL DEF Current, ConsumedAnswersAreCurrent

\* The work that a transition consumes was done for the very state and tree
\* that the transition changes (foregroundwork ValidateCurrent).
THEOREM ConsumedWorkIsForTheState == Spec => WorkIsDoneForTheStateItChanges
<1> DEFINE Current == receipt' # receipt /\ plant.stage = "work" =>
                        receipt'.result = WorkContext(plant.revision, plant.tree)
<1>1. [Next]_vars => [Current]_vars
  <2> SUFFICES ASSUME Next, receipt' # receipt, plant.stage = "work"
               PROVE  receipt'.result = WorkContext(plant.revision, plant.tree)
    OBVIOUS
  <2>1. PICK p \in Processes : IsAdmitted(p) /\ receipt'.result = work.result
    BY OnlyCommitsLeaveReceipts
  <2>2. IsCurrentResult(Ensure(work, CurrentWorkContext), CurrentWorkContext)
    BY <2>1 DEF IsAdmitted, WorkIsDone, EnsuredWork
  <2>3. Ensure(work, CurrentWorkContext) = work
    BY <2>2 DEF IsCurrentResult, IsCompleted, Ensure, Requested
  <2> QED BY <2>1, <2>2, <2>3 DEF IsCurrentResult, CurrentWorkContext
<1> HIDE DEF Current
<1>2. Spec => [][Current]_vars
  BY <1>1, PTL DEF Spec
<1> QED BY <1>2, PTL DEF Current, WorkIsDoneForTheStateItChanges

===============================================================================
