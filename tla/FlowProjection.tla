---------------------------- MODULE FlowProjection ----------------------------
(***************************************************************************)
(* `boatstack flow compile` in one Git worktree: compileFlow reads the     *)
(* inputs of a Flow and its ownership record, and ApplyOwnedFlowProjection *)
(* writes the generated files, removes those a former version owned,       *)
(* publishes the artifact and replaces the record, file by file, under the *)
(* worktree's projection lock.  The user may edit any file at any moment,  *)
(* also between the read that authorizes a replacement and the rename that *)
(* does it, and a compiler may fail or stop anywhere.                      *)
(*                                                                         *)
(* The inputs of a compilation are what its source, lock and assets say,   *)
(* one version, and the hosts that project.json selects.  Equal bytes are  *)
(* equal values, and a digest is as good as the bytes.  An ownership       *)
(* record is determined by its source and the inputs compiled, so these    *)
(* stand for it.  File modes and symbolic links are left out.              *)
(***************************************************************************)
EXTENDS Integers, Sequences, FiniteSets, SequencesExt

CONSTANTS
  Compilers,    \* processes that run `flow compile`
  Maintainer,   \* the kernel's configuration effects (MaintenanceProjection)
  Free,         \* the projection lock that nobody holds
  Sources,
  Versions,     \* what a source, its lock and its assets may say
  Hosts,        \* host projections that project.json may select
  None,
  Order,        \* every path that may be written, in path order
  HostOf,       \* [Paths -> Hosts \cup {None}]: the host a file is for
  Shared,       \* hostprojection.SharedCheckoutPath: paths of several owners
  Maintained,   \* bytes that maintenance installs: those and its own skills
  Rendered,     \* Rendered[s][v]: outputs of version v of s for every host
  ArtifactAt,   \* ArtifactAt[s][v]: where its artifact goes
  Contents,     \* bytes of the outputs and the shared files
  Absent,       \* no file
  Foreign,      \* bytes that nothing renders
  Unread,       \* no bytes: a file not read yet
  MaxEdits,     \* bound on the user's edits of files
  MaxChanges,   \* bound on the changes of a source and of project.json
  MaxFaults     \* bound on failing operations and stops

Paths == {Order[i] : i \in DOMAIN Order}

Inputs == [version : Versions, hosts : SUBSET Hosts]

ArtifactBytes == [source : Sources, inputs : Inputs]

ASSUME PathsAreListedOnce == Order \in Seq(Paths) /\ IsInjective(Order)

ASSUME NamesAreDistinct ==
  /\ Free \notin Compilers /\ Maintainer \notin Compilers /\ Free # Maintainer
  /\ None \notin Hosts \cup Sources \cup Inputs
  /\ Sources \cap Paths = {}
  /\ {Absent, Foreign, Unread} \cap (Contents \cup ArtifactBytes) = {}
  /\ Absent # Foreign /\ Absent # Unread /\ Foreign # Unread

ASSUME RenderingsAreTyped ==
  /\ HostOf \in [Paths -> Hosts \cup {None}]
  /\ Shared \subseteq DOMAIN Maintained /\ DOMAIN Maintained \subseteq Paths
  /\ \A p \in DOMAIN Maintained : Maintained[p] \in Contents /\ HostOf[p] \in Hosts
  /\ \A s \in Sources, v \in Versions :
       /\ DOMAIN Rendered[s][v] \subseteq Paths
       /\ ArtifactAt[s][v] \in Paths \ DOMAIN Maintained
       /\ \A t \in Sources, w \in Versions : ArtifactAt[s][v] \notin DOMAIN Rendered[t][w]
       /\ HostOf[ArtifactAt[s][v]] = None
       /\ \A p \in DOMAIN Rendered[s][v] :
            /\ Rendered[s][v][p] \in Contents
            /\ p \in DOMAIN Maintained => p \in Shared /\ Rendered[s][v][p] = Maintained[p]

ASSUME BoundsAreTyped == MaxEdits \in Nat /\ MaxChanges \in Nat /\ MaxFaults \in Nat

VARIABLES
  file,         \* [Paths -> bytes]: the worktree
  source,       \* [Sources -> Versions]: what the sources say
  hosts,        \* project.json: the hosts selected
  manifest,     \* host-projections.json: the hosts maintained
  owned,        \* [Sources -> Inputs \cup {None}]: the ownership records
  lock,         \* holder of boatstack-flow-projection.lock
  pc,
  job,          \* what each compiler read: source, inputs, prior record
  todo,         \* the lock holder's: paths still to go in its phase
  saw,          \*   what it read at the head of todo
  retired,      \*   the paths it is to remove
  changed,      \*   the paths it replaced or removed, in order
  snapshot,     \*   the files when it took the lock
  unread,       \* history: edited under the lock since its holder last looked
  edited,       \* history: files edited under the lock
  interrupted,  \* history: inputs whose compilation was interrupted
  edits, changes, faults

world   == <<file, source, hosts, manifest, owned>>
memory  == <<todo, saw, retired, changed, snapshot>>
history == <<unread, edited, interrupted>>
bounds  == <<edits, changes, faults>>
vars    == <<world, lock, pc, job, memory, history, bounds>>

NoJob == [source |-> None, inputs |-> None, prior |-> None]

Committing == {"writes", "removals", "verify", "publish", "record", "undo"}
-----------------------------------------------------------------------------
(***************************************************************************)
(* What a compilation is to do: ownedProjectionChanges and compileFlow.    *)
(***************************************************************************)
\* GenerateProjections and the artifact.
Files == [s \in Sources |-> [i \in Inputs |->
  LET outputs  == {p \in DOMAIN Rendered[s][i.version] : HostOf[p] \in i.hosts \cup {None}}
      artifact == ArtifactAt[s][i.version]
  IN  [p \in outputs \cup {artifact} |->
         IF p = artifact THEN [source |-> s, inputs |-> i] ELSE Rendered[s][i.version][p]]]]

Record(s, i) == IF i = None THEN <<>> ELSE Files[s][i]

Writes(j)   == Files[j.source][j.inputs]
Artifact(j) == ArtifactAt[j.source][j.inputs.version]
Outputs(j)  == DOMAIN Writes(j) \ {Artifact(j)}

\* The digest a write may replace; none where the record does not list it.
Previous(j, p) ==
  LET prior == Record(j.source, j.prior)
  IN  IF p \in DOMAIN prior THEN prior[p] ELSE Absent

\* Mutant: only what the record lists may be replaced, not the residue.
AuthorizedByRecordOnly(j, p, current) == current = Previous(j, p)

\* Mutant: whatever is there may be replaced.
AuthorizedAlways(j, p, current) == TRUE

\* projectionWriteAuthorized.
Authorized(j, p, current) == current \in {Writes(j)[p], Previous(j, p)}

Obsolete(j) == DOMAIN Record(j.source, j.prior) \ DOMAIN Writes(j)

\* sharedProjectionReferenced, by a record other than that of source s.
Referenced(p, s) ==
  \/ \E t \in Sources \ {s} : p \in DOMAIN Record(t, owned[t])
  \/ HostOf[p] \in manifest

\* The removals that remain once shared files still in use are left out.
Removals(j) ==
  {p \in Obsolete(j) : ~(p \in Shared /\ Referenced(p, j.source))}

\* The k-th is at the place that has k places of S up to it.
InPathOrder(S) ==
  LET places == {i \in DOMAIN Order : Order[i] \in S}
      place(k) == CHOOSE i \in places : Cardinality({j \in places : j <= i}) = k
  IN  [k \in 1..Cardinality(places) |-> Order[place(k)]]

WritesAreAuthorized(j) ==
  \A p \in DOMAIN Writes(j) : Authorized(j, p, file[p])

RemovalsAreCurrent(j) ==
  \A p \in Removals(j) : file[p] \in {Absent, Previous(j, p)}

Says(s) == [version |-> source[s], hosts |-> hosts]

InputsAreCurrent(j) == j.inputs = Says(j.source)
-----------------------------------------------------------------------------
(***************************************************************************)
(* Initially a worktree is a fresh clone: it has no ownership record, the  *)
(* files that some version of each source left in it or none, and the      *)
(* files of the hosts maintained.                                          *)
(***************************************************************************)
Checkout(chosen) ==
  [p \in Paths |->
    LET flows == {s \in Sources : p \in DOMAIN Record(s, chosen[s])}
    IN  IF p \in DOMAIN Maintained /\ HostOf[p] \in manifest THEN Maintained[p]
        ELSE IF flows = {} THEN Absent
        ELSE LET s == CHOOSE s \in flows : TRUE IN Record(s, chosen[s])[p]]

Init ==
  /\ hosts \in SUBSET Hosts
  /\ manifest \in {hosts, {}}
  /\ \E chosen \in [Sources -> [version : Versions, hosts : {hosts}] \cup {None}] :
       file = Checkout(chosen)
  /\ source \in [Sources -> Versions]
  /\ owned = [s \in Sources |-> None]
  /\ lock = Free
  /\ pc = [c \in Compilers |-> "idle"]
  /\ job = [c \in Compilers |-> NoJob]
  /\ todo = <<>> /\ saw = Unread /\ retired = {} /\ changed = <<>>
  /\ snapshot = [p \in Paths |-> Absent]
  /\ unread = {} /\ edited = {}
  /\ interrupted = [s \in Sources |-> None]
  /\ edits = 0 /\ changes = 0 /\ faults = 0
-----------------------------------------------------------------------------
(***************************************************************************)
(* Before the lock.                                                        *)
(***************************************************************************)
Return(c) ==
  /\ pc' = [pc EXCEPT ![c] = "idle"]
  /\ job' = [job EXCEPT ![c] = NoJob]

\* compileFlow reads the inputs and runs the frontend on them.
Load(c, s) ==
  /\ pc[c] = "idle"
  /\ pc' = [pc EXCEPT ![c] = "frontend"]
  /\ job' = [job EXCEPT ![c] = [source |-> s, inputs |-> Says(s), prior |-> None]]
  /\ UNCHANGED <<world, lock, memory, history, bounds>>

\* requireUnchangedCompileInput and LoadFlowProjectionOwnership.
Plan(c) ==
  /\ pc[c] = "frontend"
  /\ IF InputsAreCurrent(job[c])
       THEN /\ pc' = [pc EXCEPT ![c] = "ready"]
            /\ job' = [job EXCEPT ![c].prior = owned[job[c].source]]
       ELSE Return(c)
  /\ UNCHANGED <<world, lock, memory, history, bounds>>

\* acquireProjectionLock does not wait.
Busy(c) ==
  /\ pc[c] = "ready" /\ lock # Free
  /\ Return(c)
  /\ UNCHANGED <<world, lock, memory, history, bounds>>

Admissible(j) ==
  /\ owned[j.source] = j.prior
  /\ WritesAreAuthorized(j)
  /\ RemovalsAreCurrent(j)
  /\ InputsAreCurrent(j)

\* The checks under the lock.  They read file after file; an edit of a file
\* that was read already is the same as one just after all of them.
Refuse(c) ==
  /\ pc[c] = "ready" /\ lock = Free /\ ~Admissible(job[c])
  /\ Return(c)
  /\ UNCHANGED <<world, lock, memory, history, bounds>>

Acquire(c) ==
  /\ pc[c] = "ready" /\ lock = Free /\ Admissible(job[c])
  /\ lock' = c
  /\ pc' = [pc EXCEPT ![c] = "writes"]
  /\ todo' = InPathOrder(Outputs(job[c]))
  /\ retired' = Removals(job[c])
  /\ snapshot' = file /\ saw' = Unread /\ changed' = <<>>
  /\ UNCHANGED <<world, job, history, bounds>>
-----------------------------------------------------------------------------
(***************************************************************************)
(* The commit, under the lock.                                             *)
(***************************************************************************)
Holds(c, phase) == lock = c /\ pc[c] = phase

Release ==
  /\ lock' = Free
  /\ todo' = <<>> /\ saw' = Unread /\ retired' = {} /\ changed' = <<>>
  /\ snapshot' = [p \in Paths |-> Absent]
  /\ unread' = {} /\ edited' = {}

\* Mutant: files that were removed are not restored.
AbandonReplacedOnly(c) ==
  /\ pc' = [pc EXCEPT ![c] = "undo"]
  /\ todo' = Reverse(SelectSeq(changed, LAMBDA p : p \notin retired)) /\ saw' = Unread

\* commitErr: the rest is skipped and what was changed is rolled back.
Abandon(c) ==
  /\ pc' = [pc EXCEPT ![c] = "undo"]
  /\ todo' = Reverse(changed) /\ saw' = Unread

Passed == todo' = Tail(todo) /\ saw' = Unread

\* snapshotProjectionPath, before a file is replaced, removed or restored.
Read(c) ==
  /\ lock = c /\ pc[c] \in {"writes", "removals", "publish", "undo"}
  /\ todo # <<>> /\ saw = Unread
  /\ saw' = file[Head(todo)]
  /\ unread' = unread \ {Head(todo)}
  /\ UNCHANGED <<world, lock, pc, job, todo, retired, changed, snapshot,
                 edited, interrupted, bounds>>

Change(p, content) ==
  /\ file' = [file EXCEPT ![p] = content]
  /\ changed' = Append(changed, p)
  /\ Passed

\* An output of the loop over the staged files, or the artifact after it.
Write(c) ==
  /\ lock = c /\ pc[c] \in {"writes", "publish"} /\ todo # <<>> /\ saw # Unread
  /\ LET p == Head(todo)
         desired == Writes(job[c])[p]
     IN  \/ /\ ~Authorized(job[c], p, saw)
            /\ Abandon(c)
            /\ UNCHANGED <<file, changed>>
         \/ /\ saw = desired
            /\ Passed
            /\ UNCHANGED <<file, changed, pc>>
         \/ /\ Authorized(job[c], p, saw) /\ saw # desired
            /\ Change(p, desired)
            /\ UNCHANGED pc
  /\ UNCHANGED <<source, hosts, manifest, owned, lock, job, retired, snapshot, history, bounds>>

Retire(c) ==
  /\ Holds(c, "removals") /\ todo # <<>> /\ saw # Unread
  /\ LET p == Head(todo)
         expected == Previous(job[c], p)
     IN  \/ /\ saw \notin {Absent, expected}
            /\ Abandon(c)
            /\ UNCHANGED <<file, changed>>
         \/ /\ saw = Absent
            /\ Passed
            /\ UNCHANGED <<file, changed, pc>>
         \/ /\ saw = expected
            /\ Change(p, Absent)
            /\ UNCHANGED pc
  /\ UNCHANGED <<source, hosts, manifest, owned, lock, job, retired, snapshot, history, bounds>>

\* One loop is done and the next begins.
EndWrites(c) ==
  /\ Holds(c, "writes") /\ todo = <<>>
  /\ pc' = [pc EXCEPT ![c] = "removals"]
  /\ todo' = InPathOrder(retired)
  /\ UNCHANGED <<world, lock, job, saw, retired, changed, snapshot, history, bounds>>

EndRemovals(c) ==
  /\ Holds(c, "removals") /\ todo = <<>>
  /\ pc' = [pc EXCEPT ![c] = "verify"]
  /\ UNCHANGED <<world, lock, job, memory, history, bounds>>

\* Mutant: the outputs are not read again.
SettledRemovalsOnly(c) ==
  /\ \A p \in retired : file[p] = Absent
  /\ InputsAreCurrent(job[c])

\* Outputs, removals and inputs are read again before the artifact is published.
Settled(c) ==
  /\ \A p \in Outputs(job[c]) : file[p] = Writes(job[c])[p]
  /\ \A p \in retired : file[p] = Absent
  /\ InputsAreCurrent(job[c])

Verify(c) ==
  /\ Holds(c, "verify")
  /\ IF Settled(c)
       THEN /\ pc' = [pc EXCEPT ![c] = "publish"]
            /\ todo' = <<Artifact(job[c])>>
            /\ UNCHANGED saw
       ELSE Abandon(c)
  /\ unread' = unread \ (Outputs(job[c]) \cup retired \cup {job[c].source})
  /\ UNCHANGED <<world, lock, job, retired, changed, snapshot, edited, interrupted, bounds>>

EndPublication(c) ==
  /\ Holds(c, "publish") /\ todo = <<>>
  /\ pc' = [pc EXCEPT ![c] = "record"]
  /\ UNCHANGED <<world, lock, job, memory, history, bounds>>

\* validateOwnershipSnapshot once more, and the record is renamed into place.
ReplaceRecord(c) ==
  /\ Holds(c, "record")
  /\ IF owned[job[c].source] = job[c].prior
       THEN /\ owned' = [owned EXCEPT ![job[c].source] = job[c].inputs]
            /\ interrupted' = [interrupted EXCEPT ![job[c].source] = None]
            /\ Return(c)
            /\ Release
       ELSE /\ Abandon(c)
            /\ UNCHANGED <<owned, job, lock, retired, changed, snapshot, history>>
  /\ UNCHANGED <<file, source, hosts, manifest, bounds>>

\* rollbackProjection.
Committed(j, p) == IF p \in DOMAIN Writes(j) THEN Writes(j)[p] ELSE Absent

Undo(c) ==
  /\ Holds(c, "undo") /\ todo # <<>> /\ saw # Unread
  /\ LET p == Head(todo)
     IN  file' = IF saw = Committed(job[c], p)
                   THEN [file EXCEPT ![p] = snapshot[p]] ELSE file
  /\ Passed
  /\ UNCHANGED <<source, hosts, manifest, owned, lock, pc, job, retired, changed,
                 snapshot, history, bounds>>

EndUndo(c) ==
  /\ Holds(c, "undo") /\ todo = <<>>
  /\ Return(c)
  /\ Release
  /\ UNCHANGED <<world, interrupted, bounds>>
-----------------------------------------------------------------------------
(***************************************************************************)
(* Failures, stops and the user.                                           *)
(***************************************************************************)
Faulty == faults < MaxFaults /\ faults' = faults + 1

Interrupt(c) ==
  interrupted' = [interrupted EXCEPT ![job[c].source] = job[c].inputs]

\* A file operation of the commit fails.
Fail(c) ==
  /\ Faulty
  /\ lock = c /\ pc[c] \in Committing \ {"undo"}
  /\ Abandon(c)
  /\ UNCHANGED <<world, lock, job, retired, changed, snapshot, history, edits, changes>>

\* A file operation of the rollback fails: the rest stays as it is.
FailUndo(c) ==
  /\ Faulty
  /\ Holds(c, "undo") /\ todo # <<>>
  /\ Return(c)
  /\ Interrupt(c)
  /\ Release
  /\ UNCHANGED <<world, edits, changes>>

\* The process stops; the kernel of the operating system drops its lock.
Stop(c) ==
  /\ Faulty
  /\ pc[c] # "idle"
  /\ Return(c)
  /\ IF lock = c THEN Interrupt(c) /\ Release
       ELSE UNCHANGED <<lock, memory, history>>
  /\ UNCHANGED <<world, edits, changes>>

\* Bytes that some version renders at p, which the user may put back.
Known == [p \in Paths |->
  LET rendered == {x \in Sources \X Inputs : p \in DOMAIN Files[x[1]][x[2]]}
  IN  {Files[x[1]][x[2]][p] : x \in rendered}]

\* The user writes, restores or deletes a file.
Edit(p, content) ==
  /\ edits < MaxEdits /\ edits' = edits + 1
  /\ content # file[p]
  /\ file' = [file EXCEPT ![p] = content]
  /\ IF lock \in Compilers
       THEN unread' = unread \cup {p} /\ edited' = edited \cup {p}
       ELSE UNCHANGED <<unread, edited>>
  /\ UNCHANGED <<source, hosts, manifest, owned, lock, pc, job, memory, interrupted,
                 changes, faults>>

ChangeSource(s, v) ==
  /\ changes < MaxChanges /\ changes' = changes + 1
  /\ v # source[s]
  /\ source' = [source EXCEPT ![s] = v]
  /\ unread' = IF lock \in Compilers THEN unread \cup {s} ELSE unread
  /\ UNCHANGED <<file, hosts, manifest, owned, lock, pc, job, memory, edited,
                 interrupted, edits, faults>>
-----------------------------------------------------------------------------
Commit(c) ==
  \/ Read(c) \/ Write(c) \/ EndWrites(c) \/ Retire(c) \/ EndRemovals(c)
  \/ Verify(c) \/ EndPublication(c) \/ ReplaceRecord(c) \/ Undo(c) \/ EndUndo(c)

Compile(c) ==
  \/ \E s \in Sources : Load(c, s)
  \/ Plan(c) \/ Busy(c) \/ Refuse(c) \/ Acquire(c)
  \/ Commit(c)

Disturb ==
  \/ \E c \in Compilers : Fail(c) \/ FailUndo(c) \/ Stop(c)
  \/ \E p \in Paths : \E content \in Known[p] \cup {Absent, Foreign} : Edit(p, content)
  \/ \E s \in Sources, v \in Versions : ChangeSource(s, v)

Next == (\E c \in Compilers : Compile(c)) \/ Disturb

Spec == Init /\ [][Next]_vars
-----------------------------------------------------------------------------
(***************************************************************************)
(* What it promises.                                                       *)
(***************************************************************************)
Bytes == Contents \cup ArtifactBytes \cup {Absent, Foreign}

Jobs == [source : Sources \cup {None}, inputs : Inputs \cup {None},
         prior : Inputs \cup {None}]

\* Files hold known bytes, records name versions, and only the holder of the
\* lock is in the commit, with the paths of its job still to go.
TypeOK ==
  /\ file \in [Paths -> Bytes] /\ snapshot \in [Paths -> Bytes]
  /\ source \in [Sources -> Versions]
  /\ owned \in [Sources -> Inputs \cup {None}]
  /\ interrupted \in [Sources -> Inputs \cup {None}]
  /\ hosts \subseteq Hosts /\ manifest \subseteq Hosts
  /\ lock \in Compilers \cup {Free, Maintainer}
  /\ pc \in [Compilers -> {"idle", "frontend", "ready"} \cup Committing]
  /\ job \in [Compilers -> Jobs]
  /\ todo \in Seq(Paths) /\ changed \in Seq(Paths) /\ retired \subseteq Paths
  /\ saw \in Bytes \cup {Unread}
  /\ unread \subseteq Paths \cup Sources /\ edited \subseteq Paths
  /\ \A c \in Compilers : pc[c] \in Committing <=> lock = c

\* Bytes that no version renders are somebody's work.  A compiler replaces or
\* removes them only where they were put there after its last look at the file:
\* what it has read as foreign it leaves alone, in its commit and its rollback.
KeepsForeignBytes ==
  \A p \in Paths :
    file[p] = Foreign /\ file'[p] # Foreign => edits' # edits \/ p \in unread

ForeignBytesSurvive == [][KeepsForeignBytes]_vars

\* The artifact is published last: when it appears, every output it names is in
\* place, every retired file is gone and its source says what was compiled,
\* but for edits made since the last look.
PublishesLast ==
  \A c \in Compilers :
    Holds(c, "publish") /\ file'[Artifact(job[c])] # file[Artifact(job[c])]
      /\ edits' = edits =>
        /\ \A p \in Outputs(job[c]) \ unread : file[p] = Writes(job[c])[p]
        /\ \A p \in retired \ unread : file[p] = Absent
        /\ job[c].source \in unread \/ InputsAreCurrent(job[c])

\* A compilation that ends by itself is all or nothing: it leaves the files of
\* the new version and its record, or the files it found and the old record,
\* but for what the user edited under it.
AllOrNothing ==
  \A c \in Compilers :
    lock = c /\ lock' = Free /\ faults' = faults =>
      IF pc[c] = "record"
        THEN /\ \A p \in DOMAIN Writes(job[c]) \ edited : file'[p] = Writes(job[c])[p]
             /\ \A p \in retired \ edited : file'[p] = Absent
        ELSE \A p \in Paths \ edited : file'[p] = snapshot[p]

\* Whatever a stopped compilation left, compiling the same version again is
\* authorized: it takes the residue for its own.  Nobody edits meanwhile.
Retry(s) == [source |-> s, inputs |-> interrupted[s], prior |-> owned[s]]

ResidueIsAuthorized ==
  edits = 0 /\ lock = Free =>
    \A s \in Sources : interrupted[s] # None =>
      WritesAreAuthorized(Retry(s)) /\ RemovalsAreCurrent(Retry(s))

\* Files recorded for a source are in place while nobody compiles it, if nobody
\* edits and its last compilation was not interrupted.
RecordedFilesAreInPlace ==
  edits = 0 /\ lock = Free =>
    \A s \in Sources : interrupted[s] = None =>
      \A p \in DOMAIN Record(s, owned[s]) : file[p] = Record(s, owned[s])[p]
=============================================================================
