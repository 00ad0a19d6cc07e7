------------------------- MODULE MaintenanceProjection -------------------------
(***************************************************************************)
(* The kernel's maintenance of host projections beside `flow compile`:     *)
(* configuration.mutate installs a project.json with another selection of  *)
(* hosts, the maintenance files of these and their manifest, as one effect *)
(* transaction that holds the projection lease.  Interrupted, it leaves a  *)
(* journal; recovery.rollback puts the prior bytes of the journal back,    *)
(* configuration.reconcile and recovery.escalate close it and leave the    *)
(* files alone.                                                            *)
(*                                                                         *)
(* The transaction itself is DeliveryTransaction's: here it has one step   *)
(* per file and a journal that is there or not, and the durable state, the *)
(* admission and the journals of recoveries are left out.  The kernel lock *)
(* admits one effect at a time.                                            *)
(***************************************************************************)
EXTENDS FlowProjection

CONSTANTS ProjectJson, ManifestJson  \* the paths of project.json and of the manifest

ASSUME PathsAreApart ==
  /\ {ProjectJson, ManifestJson} \cap Paths = {}
  /\ ProjectJson # ManifestJson

\* A change of a file, or of the hosts selected or maintained.
FileMutations == [path : Paths, prior : Bytes, target : Bytes]

HostMutations ==
  [path : {ProjectJson, ManifestJson}, prior : SUBSET Hosts, target : SUBSET Hosts]

PlannedMutations == FileMutations \cup HostMutations

ASSUME NoneIsNoPlan == None \notin Seq(PlannedMutations)

\* The generated names of a Flow have the name of its program in them (flowSkillSlug),
\* so that sources of different programs have only the shared files in common.
FlowsAreApart ==
  \A s, t \in Sources : s # t =>
    \A i, k \in Inputs : DOMAIN Files[s][i] \cap DOMAIN Files[t][k] \subseteq Shared

VARIABLES
  mpc,        \* where the maintainer is
  plan,       \* its mutations, in the order of installation
  applied,    \* how many of them are installed
  replaying,  \* the plan is the rollback of the journal
  journal,    \* mutations of the pending journal, or None
  loose       \* history: a configuration was interrupted, and then a Flow was
              \* compiled or its journal was closed over half of the files

effect  == <<mpc, plan, applied, replaying, journal>>
allVars == <<vars, effect, loose>>
-----------------------------------------------------------------------------
Current(p) ==
  CASE p = ProjectJson  -> hosts
    [] p = ManifestJson -> manifest
    [] OTHER            -> file[p]

\* atomicWrite and os.Remove: what is there is not read again.
Put(p, content) ==
  /\ hosts' = IF p = ProjectJson THEN content ELSE hosts
  /\ manifest' = IF p = ManifestJson THEN content ELSE manifest
  /\ file' = IF p \in Paths THEN [file EXCEPT ![p] = content] ELSE file
  /\ UNCHANGED <<source, owned>>

Mutation(p, content) == [path |-> p, prior |-> Current(p), target |-> content]

Desired(H) == {p \in DOMAIN Maintained : HostOf[p] \in H}

\* Mutant: the records of Flows are not read.
ReferencedByNoFlow(p) == FALSE

\* SharedFlowProjectionReferenced: maintenance itself is left out.
ReferencedByFlow(p) == \E s \in Sources : p \in DOMAIN Record(s, owned[s])

\* prepareHostProjectionMutations refuses a maintained file that is not as it
\* was installed, and a file in its way that no Flow owns.
Preparable(H) ==
  /\ \A p \in Desired(manifest) : file[p] = Maintained[p]
  /\ \A p \in Desired(H) \ Desired(manifest) :
       file[p] # Absent => p \in Shared /\ file[p] = Maintained[p] /\ ReferencedByFlow(p)

Created(H) == {p \in Desired(H) : file[p] # Maintained[p]}

Deleted(H) ==
  {p \in Desired(manifest) \ Desired(H) : ~(p \in Shared /\ ReferencedByFlow(p))}

\* Paths are installed in order, project.json before those of any host but Codex,
\* and the manifest last.
Mutations(H) ==
  LET files == InPathOrder(Created(H) \cup Deleted(H))
      mutate(p) == Mutation(p, IF p \in Created(H) THEN Maintained[p] ELSE Absent)
  IN  <<Mutation(ProjectJson, H)>>
        \o [i \in DOMAIN files |-> mutate(files[i])]
        \o (IF manifest = H THEN <<>> ELSE <<Mutation(ManifestJson, H)>>)
-----------------------------------------------------------------------------
Begin(mutations, replay) ==
  /\ mpc' = "install"
  /\ plan' = mutations /\ applied' = 0 /\ replaying' = replay

End(pending) ==
  /\ mpc' = "idle"
  /\ plan' = <<>> /\ applied' = 0 /\ replaying' = FALSE
  /\ journal' = pending
  /\ lock' = IF lock = Maintainer THEN Free ELSE lock

\* configuration.mutate takes the lease, prepares and writes its journal.
Configure(H) ==
  /\ changes < MaxChanges /\ changes' = changes + 1
  /\ mpc = "idle" /\ journal = None /\ lock = Free
  /\ H # hosts \/ H # manifest
  /\ Preparable(H)
  /\ lock' = Maintainer
  /\ Begin(Mutations(H), FALSE)
  /\ journal' = Mutations(H)
  /\ UNCHANGED <<world, pc, job, memory, history, edits, faults, loose>>

\* recovery.rollback.  It owns the recovery journal and not the configuration:
\* only a command bound to a program takes the lease for it.
Replay(leased) ==
  /\ mpc = "idle" /\ journal # None
  /\ IF leased THEN lock = Free /\ lock' = Maintainer ELSE UNCHANGED lock
  /\ Begin([i \in DOMAIN journal |-> Mutation(journal[i].path, journal[i].prior)], TRUE)
  /\ UNCHANGED <<world, pc, job, memory, history, bounds, journal, loose>>

Install ==
  /\ mpc = "install" /\ applied < Len(plan)
  /\ Put(plan[applied + 1].path, plan[applied + 1].target)
  /\ applied' = applied + 1
  /\ UNCHANGED <<lock, pc, job, memory, history, bounds, mpc, plan, replaying, journal, loose>>

\* The receipt is committed, or a rollback removes the journal it replayed.
Settle ==
  /\ mpc = "install" /\ applied = Len(plan)
  /\ End(None)
  /\ UNCHANGED <<world, pc, job, memory, history, bounds, loose>>

\* Mutant: a file that was removed is not put back.
RestoreReplacedOnly ==
  /\ mpc \in {"restore", "strand"} /\ applied > 0
  /\ IF plan[applied].target = Absent THEN UNCHANGED world
       ELSE Put(plan[applied].path, plan[applied].prior)
  /\ applied' = applied - 1
  /\ UNCHANGED <<lock, pc, job, memory, history, bounds, mpc, plan, replaying, journal, loose>>

\* preparedEffect.Rollback goes on after a failure, and the journal stays.
Restore ==
  /\ mpc \in {"restore", "strand"} /\ applied > 0
  /\ Put(plan[applied].path, plan[applied].prior)
  /\ applied' = applied - 1
  /\ UNCHANGED <<lock, pc, job, memory, history, bounds, mpc, plan, replaying, journal, loose>>

EndRestore ==
  /\ mpc \in {"restore", "strand"} /\ applied = 0
  /\ End(IF mpc = "restore" /\ ~replaying THEN None ELSE journal)
  /\ UNCHANGED <<world, pc, job, memory, history, bounds, loose>>

\* configuration.reconcile, under the lease, or recovery.escalate without it:
\* project.json stays as it is.
CloseJournal(leased) ==
  /\ mpc = "idle" /\ journal # None
  /\ leased => lock = Free
  /\ journal' = None
  /\ loose' = (loose \/ \E m \in ToSet(journal) : Current(m.path) # m.target)
  /\ UNCHANGED <<vars, mpc, plan, applied, replaying>>

FailInstall ==
  /\ Faulty
  /\ mpc = "install"
  /\ mpc' = "restore"
  /\ UNCHANGED <<world, lock, pc, job, memory, history, edits, changes,
                 plan, applied, replaying, journal, loose>>

FailRestore ==
  /\ Faulty
  /\ mpc \in {"restore", "strand"} /\ applied > 0
  /\ mpc' = "strand"
  /\ applied' = applied - 1
  /\ UNCHANGED <<world, lock, pc, job, memory, history, edits, changes,
                 plan, replaying, journal, loose>>

StopMaintainer ==
  /\ Faulty
  /\ mpc # "idle"
  /\ End(journal)
  /\ UNCHANGED <<world, pc, job, memory, history, edits, changes, loose>>
-----------------------------------------------------------------------------
Maintain ==
  \/ \E H \in SUBSET Hosts : Configure(H)
  \/ \E leased \in BOOLEAN : Replay(leased) \/ CloseJournal(leased)
  \/ Install \/ Settle \/ Restore \/ EndRestore
  \/ FailInstall \/ FailRestore \/ StopMaintainer

\* A compiler does not look for interrupted configurations.
CompilerStep(A) ==
  /\ A
  /\ loose' = (loose \/ (lock' \in Compilers /\ lock = Free /\ journal # None))
  /\ UNCHANGED effect

MaintainedInit ==
  /\ Init
  /\ mpc = "idle" /\ plan = <<>> /\ applied = 0 /\ replaying = FALSE
  /\ journal = None /\ loose = FALSE

MaintainedNext ==
  \/ CompilerStep(Next)
  \/ Maintain

MaintainedSpec == MaintainedInit /\ [][MaintainedNext]_allVars
-----------------------------------------------------------------------------
Quiet == edits = 0 /\ lock = Free /\ mpc = "idle"

\* What the manifest lists is in place while no configuration is pending,
\* whatever compilers retire, unless an interruption was passed over.  (If not,
\* every later configuration is refused: see Preparable.)
MaintainedFilesAreInPlace ==
  Quiet /\ journal = None /\ ~loose =>
    \A p \in Desired(manifest) : file[p] = Maintained[p]

\* What a Flow's record lists is in place, whatever maintenance retires, under
\* the same condition.
FlowFilesAreInPlace == Quiet /\ ~loose => RecordedFilesAreInPlace

\* A compilation stays all or nothing beside maintenance, unless an interrupted
\* configuration was passed over: its recovery takes no lease, and may change the
\* shared file under a compiler (recovery.go L62).
CompilationsStayAtomic == [][~loose' => AllOrNothing]_allVars

\* Likewise its artifact is published last.
ArtifactsStayPublishedLast == [][~loose' => PublishesLast]_allVars

\* And the residue of a stopped one can be compiled again.
ResidueStaysAuthorized == loose \/ ResidueIsAuthorized
=============================================================================
