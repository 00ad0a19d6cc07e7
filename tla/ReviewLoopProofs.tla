---------------------------- MODULE ReviewLoopProofs ---------------------------
(***************************************************************************)
(* Proofs about the self-review loop: for any number of invocations, any   *)
(* trees, candidates and policies, and without the bounds of the runs.     *)
(***************************************************************************)
EXTENDS ReviewLoop, FiniteSetTheorems, SequenceTheorems, WellFoundedInduction, TLAPS

-----------------------------------------------------------------------------
(* The law. *)

\* A prescription names the one preferred candidate, and its authority is
\* complete: what an invocation relies on when it runs the transition it was given.
LEMMA PrescribedIsPreferred ==
  ASSUME NEW i, NoCandidateKind(i) # "PRESCRIBED", Relate(i).kind = "PRESCRIBED"
  PROVE  \E top \in Considered(i) :
           /\ Preferred(i) = {top}
           /\ Relate(i) = Decision("PRESCRIBED", top.id, {})
           /\ MissingAuthority(top, i.available) = {}
<1> DEFINE top == CHOOSE c \in Considered(i) : Preferred(i) = {c}
<1>1. \E c \in Considered(i) : Preferred(i) = {c}
  BY DEF Relate, Decision
<1>2. top \in Considered(i) /\ Preferred(i) = {top}
  BY <1>1
<1>3. /\ Relate(i) = Decision("PRESCRIBED", top.id, {})
      /\ MissingAuthority(top, i.available) = {}
  BY <1>1 DEF Relate, Decision
<1> QED BY <1>2, <1>3

\* What is prescribed is a transition of the program that is selectable in the
\* state and in what is observed.
LEMMA PrescribedIsSelectable ==
  ASSUME NEW program, NEW state, NEW seen, NEW requested, NEW capability,
         Decide(program, state, seen, requested, capability).kind = "PRESCRIBED"
  PROVE  /\ state.program = program
         /\ \E t \in ReviewProgram :
              /\ Selectable(t, state, seen)
              /\ Decide(program, state, seen, requested, capability).transition = t.id
<1> DEFINE i == [requested |-> requested, noCandidate |-> "", available |-> {capability},
                 marked |-> state.mode = "converged" /\ state.recovery = Nothing,
                 candidates |-> {Candidate(t.id, 0, t.priority, TRUE, {t.capability}, {}) :
                                   t \in {u \in ReviewProgram : Selectable(u, state, seen)}}]
<1>1. state.program = program /\ Decide(program, state, seen, requested, capability) = Relate(i)
  BY DEF Decide, Decision
<1>2. Relate(i).kind = "PRESCRIBED"
  BY <1>1
<1>3. NoCandidateKind(i) # "PRESCRIBED"
  BY DEF NoCandidateKind
<1>4. PICK top \in Considered(i) : Relate(i) = Decision("PRESCRIBED", top.id, {})
  <2> HIDE DEF i
  <2> QED BY <1>2, <1>3, PrescribedIsPreferred
<1>5. top \in i.candidates
  BY <1>4 DEF Considered
<1>6. PICK t \in ReviewProgram : /\ Selectable(t, state, seen)
                                 /\ top = Candidate(t.id, 0, t.priority, TRUE, {t.capability}, {})
  BY <1>5
<1>7. top.id = t.id
  BY <1>6 DEF Candidate
<1>8. Relate(i).transition = top.id
  <2> HIDE DEF i
  <2>1. Decision("PRESCRIBED", top.id, {}).transition = top.id
    BY DEF Decision
  <2> QED BY <1>4, <2>1
<1> HIDE DEF i
<1> QED BY <1>1, <1>2, <1>6, <1>7, <1>8

LEMMA ProgramIs ==
  ASSUME NEW t \in ReviewProgram
  PROVE  /\ t.id \in Transitions /\ t.sources \subseteq Modes /\ t.target \in Modes
         /\ t.id \in Submissions => t.sources = OpenModes /\ t.recovers = {}
         /\ t.id = "reopen" => t.recovers = {}
         /\ t.id = "recover" => t.recovers = Submissions \cup {"reopen"}
         /\ TransitionNamed(t.id) = t
<1>1. /\ t.id \in Transitions /\ t.sources \subseteq Modes /\ t.target \in Modes
      /\ t.id \in Submissions => t.sources = OpenModes /\ t.recovers = {}
      /\ t.id = "reopen" => t.recovers = {}
      /\ t.id = "recover" => t.recovers = Submissions \cup {"reopen"}
  BY DEF ReviewProgram, ReviewTransition, Transitions, Submissions, Modes, OpenModes
<1>2. \A u \in ReviewProgram : u.id = t.id => u = t
  BY DEF ReviewProgram, ReviewTransition
<1>3. TransitionNamed(t.id) = t
  BY <1>2 DEF TransitionNamed
<1> QED BY <1>1, <1>3

LEMMA NamedIs ==
  ASSUME NEW id \in Transitions
  PROVE  TransitionNamed(id) \in ReviewProgram
<1>1. \E t \in ReviewProgram : t.id = id
  BY DEF ReviewProgram, ReviewTransition, Transitions, Submissions
<1> QED BY <1>1 DEF TransitionNamed

-----------------------------------------------------------------------------
(* The rounds of a generation. *)

LEMMA LeastOfNaturals ==
  ASSUME NEW T, T \subseteq Nat, T # {}
  PROVE  \E m \in T : \A n \in T : m <= n
<1>1. PICK m \in T : \A n \in T : ~ (<<n, m>> \in OpToRel(<, Nat))
  BY NatLessThanWellFounded, WFMin
<1>2. ASSUME NEW n \in T PROVE m <= n
  <2>1. <<n, m>> \in Nat \X Nat
    OBVIOUS
  <2>2. ~ (n < m)
    BY <1>1, <2>1 DEF OpToRel
  <2> QED BY <2>1, <2>2
<1> QED BY <1>2

LEMMA GreatestUpTo ==
  ASSUME NEW N \in Nat, NEW S \in SUBSET (1..N), S # {}
  PROVE  \E m \in S : \A n \in S : n <= m
<1> DEFINE T == {N - i : i \in S}
<1>1. T \subseteq Nat /\ T # {}
  <2>1. PICK s : s \in S
    OBVIOUS
  <2>2. N - s \in T
    BY <2>1
  <2>3. \A i \in S : N - i \in Nat
    OBVIOUS
  <2> QED BY <2>2, <2>3
<1>2. PICK d \in T : \A n \in T : d <= n
  BY <1>1, LeastOfNaturals
<1>3. PICK m \in S : d = N - m
  OBVIOUS
<1>4. ASSUME NEW n \in S PROVE n <= m
  <2>1. N - m <= N - n
    BY <1>2, <1>3
  <2>2. m \in Nat /\ n \in Nat
    OBVIOUS
  <2> HIDE DEF T
  <2> QED BY <2>1, <2>2
<1> QED BY <1>4

\* The last round of the generation is a round of the journal.
LEMMA LastRoundIsRecorded ==
  ASSUME NEW j, NEW R, j.rounds \in Seq(R), CurrentRounds(j) # <<>>
  PROVE  \E i \in DOMAIN j.rounds :
           CurrentRounds(j)[Len(CurrentRounds(j))] = j.rounds[i]
<1> DEFINE N == Len(j.rounds)
           current == {i \in DOMAIN j.rounds : j.rounds[i].generation = j.generation}
           place(i) == Cardinality({k \in current : k <= i})
           n == Cardinality(current)
           nth(m) == CHOOSE i \in current : place(i) = m
           listed == [m \in 1..n |-> j.rounds[nth(m)]]
<1>1. N \in Nat /\ DOMAIN j.rounds = 1..N /\ current \in SUBSET (1..N)
  OBVIOUS
<1>2. IsFiniteSet(current)
  <2>1. IsFiniteSet(1..N)
    BY <1>1, FS_Interval
  <2> QED BY <1>1, <2>1, FS_Subset
<1>3. n \in Nat
  BY <1>2, FS_CardinalityType
<1>4. CurrentRounds(j) = listed
  BY DEF CurrentRounds
<1>5. n # 0
  <2>1. ASSUME n = 0 PROVE listed = <<>>
    <3> HIDE DEF n, nth
    <3>1. 1..n = {}
      BY <2>1
    <3>2. listed \in Seq(R) /\ Len(listed) = 0
      BY <2>1, <3>1
    <3> HIDE DEF listed
    <3> QED BY <3>2, EmptySeq
  <2> HIDE DEF listed
  <2> QED BY <1>4, <2>1
<1>6. current # {}
  BY <1>5, FS_EmptySet
<1>7. PICK i \in current : \A k \in current : k <= i
  <2> HIDE DEF current
  <2> QED BY <1>1, <1>6, GreatestUpTo
<1>8. place(i) = n
  <2>1. {k \in current : k <= i} = current
    BY <1>7
  <2> QED BY <2>1
<1>9. nth(n) \in current
  <2> HIDE DEF current, place, n
  <2> QED BY <1>8
<1>10. Len(listed) = n /\ listed[n] = j.rounds[nth(n)]
  <2> HIDE DEF n, nth
  <2>1. n \in 1..n
    BY <1>3, <1>5
  <2>2. Len(listed) = n
    BY <1>3
  <2> QED BY <2>1, <2>2
<1> HIDE DEF listed, n, nth
<1> QED BY <1>4, <1>9, <1>10

-----------------------------------------------------------------------------
(* What each file and each invocation holds, whatever is reset. *)

Fields == {"at", "command", "candidate", "tree", "program", "prescription", "copy"}

Places == {"stage", "meta", "resolve", "lock", "begin", "execute", "journal", "clear",
           "clear meta", "commit", "load", "attest"}

\* Under the lock; and with the attempt written down.
Locked == {"begin", "execute", "journal", "clear", "clear meta", "commit"}
Begun == Locked \ {"begin"}

Staged == [candidate : Candidates, tree : Trees]

Rounds == [generation : Nat, candidate : Candidates, tree : Trees, transition : Submissions]

Journals == [generation : Nat, rounds : Seq(Rounds)]

\* A submission that was reviewed as what it was submitted as.
Genuine(candidate, about) ==
  /\ [candidate |-> candidate, tree |-> about] \in submitted
  /\ Valid(candidate, about)

AllGenuine(rounds) ==
  \A i \in DOMAIN rounds : Genuine(rounds[i].candidate, rounds[i].tree)

Granted(q) ==
  /\ q # Nothing
  /\ q.transition \in Transitions /\ q.program \in Policies /\ q.revision \in Nat
  /\ q.transition \in Submissions => Genuine(q.seen.staged.candidate, q.seen.tree)

JobTyped(j) ==
  j # Idle =>
    /\ DOMAIN j = Fields /\ j.at \in Places
    /\ j.program \in Policies
    /\ j.at \in {"stage", "meta"} => [candidate |-> j.candidate, tree |-> j.tree] \in submitted
    /\ j.at \in Locked \cup {"lock"} => Granted(j.prescription)
    /\ j.at = "journal" =>
         /\ j.copy \in Journals /\ AllGenuine(j.copy.rounds)
         /\ j.prescription.transition # "recover"

\* An interrupted submission has left its generation open.
InterruptedIsOpen ==
  document # Nothing /\ document.recovery \in Submissions => document.mode \in OpenModes

Typed ==
  /\ tree \in Trees /\ base \in Policies
  /\ document \in Documents \cup {Nothing} /\ InterruptedIsOpen
  /\ journal \in Journals /\ AllGenuine(journal.rounds)
  /\ submitted \subseteq Staged /\ (meta # Nothing => meta \in submitted)
  /\ DOMAIN jobs = Invocations /\ \A p \in Invocations : JobTyped(jobs[p])
  /\ DOMAIN spent = {"commands", "commits", "merges", "crashes", "resets", "torn"}
  /\ spent.torn \in BOOLEAN

LEMMA StateIsDocument ==
  ASSUME Typed, NEW program \in Policies
  PROVE  /\ StateOf(program) \in Documents
         /\ StateOf(program).recovery \in Submissions => StateOf(program).mode \in OpenModes
         /\ document # Nothing => StateOf(program) = document
         /\ document = Nothing => StateOf(program).program = program
<1>1. CASE document = Nothing
  <2> DEFINE new == [mode |-> "unreviewed", program |-> program, revision |-> 1,
                     recovery |-> Nothing, receipts |-> <<>>]
  <2>1. StateOf(program) = new
    BY <1>1 DEF StateOf
  <2>2. <<>> \in Seq(Receipts)
    OBVIOUS
  <2>3. new \in Documents
    BY <2>2 DEF Documents, Modes
  <2>4. new.mode \in OpenModes /\ new.program = program
    BY DEF OpenModes
  <2> HIDE DEF new
  <2> QED BY <1>1, <2>1, <2>3, <2>4
<1>2. CASE document # Nothing
  BY <1>2 DEF StateOf, Typed, InterruptedIsOpen
<1> QED BY <1>1, <1>2

\* What a prescription was computed from.
LEMMA PrescriptionIsGranted ==
  ASSUME Typed, NEW p \in Invocations, jobs[p].program \in Policies,
         Prescription(p) # Nothing
  PROVE  LET q == Prescription(p)
             state == StateOf(jobs[p].program)
         IN  /\ Granted(q)
             /\ q.program = state.program /\ state.program = jobs[p].program
             /\ IF q.transition = "recover"
                  THEN state.recovery \in Submissions \cup {"reopen"}
                  ELSE state.recovery = Nothing
             /\ q.transition \in Submissions => state.mode \in OpenModes
<1> DEFINE state == StateOf(jobs[p].program)
           decision == Decide(jobs[p].program, state, Observation,
                              Requested(jobs[p].command), Capability(jobs[p].command))
           q == [transition |-> decision.transition, revision |-> state.revision,
                 program |-> state.program, seen |-> Observation]
<1>1. StagingIsSound /\ decision.kind = "PRESCRIBED" /\ Prescription(p) = q
  BY DEF Prescription
<1>2. /\ state.program = jobs[p].program
      /\ \E t \in ReviewProgram : Selectable(t, state, Observation) /\ decision.transition = t.id
  BY <1>1, PrescribedIsSelectable
<1>3. PICK t \in ReviewProgram :
         Selectable(t, state, Observation) /\ decision.transition = t.id
  BY <1>2
<1>4. /\ q.transition = t.id /\ q.program = state.program /\ q.revision = state.revision
      /\ q.seen = Observation
  <2> HIDE DEF decision, state
  <2> QED BY <1>3
<1>5. state \in Documents
  BY StateIsDocument
<1> HIDE DEF state, decision, q
<1>6. t.id \in Transitions
  BY ProgramIs
<1>7. state.program \in Policies /\ state.revision \in Nat
  BY <1>5 DEF Documents
<1>8. IF t.id = "recover" THEN state.recovery \in Submissions \cup {"reopen"}
                          ELSE state.recovery = Nothing
  BY <1>3, <1>6, ProgramIs DEF Selectable, Transitions, Submissions
<1>9. t.id \in Submissions => state.mode \in OpenModes
  BY <1>3, ProgramIs DEF Selectable
<1>10. ASSUME t.id \in Submissions
       PROVE  Genuine(Observation.staged.candidate, Observation.tree)
  <2>1. Submittable(Observation)
    <3>1. SubmissionDisposition(Observation) = t.id
      BY <1>3, <1>10 DEF Selectable, Admissible, Submissions
    <3> QED BY <3>1, <1>6, NothingIsNothing DEF SubmissionDisposition
  <2>2. /\ Observation.tree = tree
        /\ Observation.staged = IF bytes = Nothing THEN Nothing ELSE meta
    BY DEF Observation
  <2>3. bytes # Nothing /\ Observation.staged = meta /\ meta.tree = tree
        /\ Valid(meta.candidate, meta.tree)
    BY <2>1, <2>2 DEF Submittable
  <2>4. meta \in submitted /\ meta \in Staged
    BY <1>1, <2>3 DEF StagingIsSound, Typed
  <2>5. meta = [candidate |-> meta.candidate, tree |-> tree]
    BY <2>3, <2>4 DEF Staged
  <2> QED BY <2>2, <2>3, <2>4, <2>5 DEF Genuine
<1>11. Granted(q)
  BY <1>1, <1>4, <1>6, <1>7, <1>10 DEF Granted
<1> QED BY <1>1, <1>2, <1>4, <1>8, <1>9, <1>11 DEF state

-----------------------------------------------------------------------------
(* Steps of one invocation. *)

\* What the next place of an invocation leaves alone.
Moved(p, at) ==
  /\ DOMAIN jobs' = Invocations /\ jobs'[p].at = at /\ jobs'[p] # Idle
  /\ DOMAIN jobs'[p] = Fields
  /\ jobs'[p].command = jobs[p].command /\ jobs'[p].candidate = jobs[p].candidate
  /\ jobs'[p].tree = jobs[p].tree /\ jobs'[p].program = jobs[p].program
  /\ \A q \in Invocations \ {p} : jobs'[q] = jobs[q]

LEMMA GotoMoves ==
  ASSUME Typed, NEW p \in Invocations, jobs[p] # Idle, NEW at \in Places, Goto(p, at)
  PROVE  /\ Moved(p, at)
         /\ jobs'[p].prescription = jobs[p].prescription /\ jobs'[p].copy = jobs[p].copy
<1>1. DOMAIN jobs = Invocations /\ DOMAIN jobs[p] = Fields
  BY DEF Typed, JobTyped
<1>2. jobs' = [jobs EXCEPT ![p] = [jobs[p] EXCEPT !.at = at]]
  BY DEF Goto
<1>3. jobs'[p] = [jobs[p] EXCEPT !.at = at]
  BY <1>1, <1>2
<1>4. jobs'[p].at = at /\ at # "idle"
  BY <1>1, <1>3 DEF Fields, Places
<1>5. jobs'[p] # Idle
  BY <1>4 DEF Idle
<1> QED BY <1>1, <1>2, <1>3, <1>4, <1>5 DEF Moved, Fields

LEMMA LeaveLeaves ==
  ASSUME Typed, NEW p \in Invocations, Leave(p)
  PROVE  /\ DOMAIN jobs' = Invocations /\ jobs'[p] = Idle
         /\ \A q \in Invocations \ {p} : jobs'[q] = jobs[q]
  BY DEF Typed, Leave

LEMMA GenuineStays ==
  ASSUME submitted \subseteq submitted'
  PROVE  /\ \A c, t : Genuine(c, t) => Genuine(c, t)'
         /\ \A rounds : AllGenuine(rounds) => AllGenuine(rounds)'
         /\ \A q : Granted(q) => Granted(q)'
         /\ \A j : JobTyped(j) => JobTyped(j)'
<1>1. \A c, t : Genuine(c, t) => Genuine(c, t)'
  BY DEF Genuine
<1>2. \A rounds : AllGenuine(rounds) => AllGenuine(rounds)'
  BY <1>1 DEF AllGenuine
<1>3. \A q : Granted(q) => Granted(q)'
  BY <1>1 DEF Granted
<1>4. \A j : JobTyped(j) => JobTyped(j)'
  BY <1>2, <1>3 DEF JobTyped, Idle
<1> QED BY <1>1, <1>2, <1>3, <1>4

\* The invocation p moves to `at`, or leaves, and the others stay.
JobsStep(p) ==
  /\ DOMAIN jobs' = Invocations /\ JobTyped(jobs[p])'
  /\ \A q \in Invocations \ {p} : jobs'[q] = jobs[q]

LEMMA JobsStayTyped ==
  ASSUME Typed, submitted \subseteq submitted', NEW p \in Invocations, JobsStep(p)
  PROVE  DOMAIN jobs' = Invocations /\ \A q \in Invocations : JobTyped(jobs[q])'
<1>1. ASSUME NEW q \in Invocations PROVE JobTyped(jobs[q])'
  <2>1. CASE q = p
    BY <2>1 DEF JobsStep
  <2>2. CASE q # p
    <3>1. jobs'[q] = jobs[q] /\ JobTyped(jobs[q])
      BY <2>2 DEF JobsStep, Typed
    <3> QED BY <3>1 DEF JobTyped, Idle, Granted, Genuine, AllGenuine
  <2> QED BY <2>1, <2>2
<1> QED BY <1>1 DEF JobsStep

LEMMA LeavingIsTyped ==
  ASSUME Typed, NEW p \in Invocations, Leave(p)
  PROVE  JobsStep(p)
<1>1. JobTyped(jobs[p])'
  BY LeaveLeaves DEF JobTyped, Idle
<1> QED BY <1>1, LeaveLeaves DEF JobsStep

\* A place that promises no more than the one before.
LEMMA GoingOnIsTyped ==
  ASSUME Typed, NEW p \in Invocations, jobs[p] # Idle, NEW at \in Places, Goto(p, at),
         submitted \subseteq submitted',
         at \in {"stage", "meta"} => jobs[p].at \in {"stage", "meta"},
         at \in Locked \cup {"lock"} => jobs[p].at \in Locked \cup {"lock"},
         at # "journal"
  PROVE  JobsStep(p)
<1>1. /\ Moved(p, at)
      /\ jobs'[p].prescription = jobs[p].prescription /\ jobs'[p].copy = jobs[p].copy
  BY GotoMoves
<1>2. JobTyped(jobs[p])
  BY DEF Typed
<1>3. Granted(jobs[p].prescription) => Granted(jobs[p].prescription)'
  BY <1>1 DEF Granted, Genuine
<1>4. JobTyped(jobs[p])'
  BY <1>1, <1>2, <1>3 DEF JobTyped, Moved
<1> QED BY <1>1, <1>4 DEF JobsStep, Moved

\* A step that leaves document, journal and staging alone.
LEMMA FilesStayTyped ==
  ASSUME Typed, tree' \in Trees, base' \in Policies, UNCHANGED <<document, journal>>,
         meta' \in {meta, Nothing}, submitted \subseteq submitted', submitted' \subseteq Staged,
         DOMAIN jobs' = Invocations /\ \A q \in Invocations : JobTyped(jobs[q])',
         DOMAIN spent' = DOMAIN spent, spent'.torn \in BOOLEAN
  PROVE  Typed'
<1>1. AllGenuine(journal.rounds)'
  BY GenuineStays DEF Typed, AllGenuine, Genuine
<1>2. InterruptedIsOpen'
  BY DEF Typed, InterruptedIsOpen
<1> QED BY <1>1, <1>2 DEF Typed

\* What has happened is counted; `torn` is not a count.
LEMMA SpendingIsTyped ==
  ASSUME Typed, NEW bound,
         NEW what \in {"commands", "commits", "merges", "crashes"}, Spend(what, bound)
  PROVE  DOMAIN spent' = DOMAIN spent /\ spent'.torn = spent.torn
  BY DEF Typed, Spend

LEMMA BranchKeepsTyped ==
  ASSUME Typed, Commit \/ Edit \/ Undo \/ MergePolicy \/ RemoveLock \/ UNCHANGED vars
  PROVE  Typed'
<1>1. /\ tree' \in Trees /\ base' \in Policies
      /\ UNCHANGED <<document, journal, meta, submitted, jobs>>
  BY DEF Typed, Commit, Edit, Undo, MergePolicy, RemoveLock, vars, repoVars, fileVars
<1>2. DOMAIN spent' = DOMAIN spent /\ spent'.torn \in BOOLEAN
  BY SpendingIsTyped DEF Typed, Commit, Edit, Undo, MergePolicy, RemoveLock, vars
<1>3. \A q \in Invocations : JobTyped(jobs[q])'
  BY <1>1 DEF Typed, JobTyped, Idle, Granted, Genuine, AllGenuine
<1>4. submitted' \subseteq Staged /\ DOMAIN jobs' = Invocations
  BY <1>1 DEF Typed
<1> QED BY <1>1, <1>2, <1>3, <1>4, FilesStayTyped

LEMMA StartKeepsTyped ==
  ASSUME Typed, NEW p \in Invocations,
         \/ \E candidate \in Candidates : Submit(p, candidate)
         \/ Reopen(p) \/ Recover(p) \/ Seal(p)
  PROVE  Typed'
<1>1. PICK command, candidate, at :
         /\ Start(p, command, candidate, at)
         /\ \/ /\ at = "stage" /\ candidate \in Candidates
               /\ submitted' = submitted \cup {[candidate |-> candidate, tree |-> tree]}
            \/ at \in {"resolve", "load"} /\ submitted' = submitted
  BY DEF Submit, Reopen, Recover, Seal
<1> DEFINE job == [at |-> at, command |-> command, candidate |-> candidate, tree |-> tree,
                   program |-> base, prescription |-> Nothing, copy |-> Nothing]
<1>2. jobs' = [jobs EXCEPT ![p] = job]
  BY <1>1 DEF Start
<1>3. UNCHANGED <<repoVars, fileVars>> /\ Spend("commands", MaxCommands)
  BY <1>1 DEF Start
<1>4. submitted \subseteq submitted' /\ submitted' \subseteq Staged
  BY <1>1 DEF Typed, Staged
<1>5. /\ DOMAIN job = Fields /\ job.at = at /\ job.program = base /\ job.tree = tree
      /\ job.candidate = candidate
  BY DEF Fields
<1>6. /\ DOMAIN jobs' = Invocations /\ jobs'[p] = job
      /\ \A q \in Invocations \ {p} : jobs'[q] = jobs[q]
  BY <1>2 DEF Typed
<1> HIDE DEF job
<1>7. JobTyped(jobs[p])'
  <2>1. at \in Places /\ at \notin Locked \cup {"lock"} /\ at # "journal" /\ at # "meta"
    BY <1>1 DEF Places, Locked
  <2>2. at = "stage" => [candidate |-> candidate, tree |-> tree] \in submitted'
    BY <1>1
  <2> QED BY <1>5, <1>6, <2>1, <2>2 DEF JobTyped, Typed
<1>8. \A q \in Invocations : JobTyped(jobs[q])'
  BY <1>4, <1>6, <1>7, JobsStayTyped DEF JobsStep
<1>9. DOMAIN spent' = DOMAIN spent /\ spent'.torn \in BOOLEAN
  BY <1>3, SpendingIsTyped DEF Typed
<1>10. tree' \in Trees /\ base' \in Policies /\ UNCHANGED <<document, journal, meta>>
  BY <1>3 DEF Typed, repoVars, fileVars
<1> QED BY <1>4, <1>6, <1>8, <1>9, <1>10, FilesStayTyped

LEMMA ResetKeepsTyped ==
  ASSUME Typed, Reset
  PROVE  Typed'
<1>1. /\ UNCHANGED <<tree, base, submitted, jobs>>
      /\ document' = Nothing /\ journal' = NewJournal /\ meta' = Nothing
  BY DEF Reset, repoVars
<1>2. \A q \in Invocations : JobTyped(jobs[q])'
  BY <1>1 DEF Typed, JobTyped, Idle, Granted, Genuine, AllGenuine
<1>3. NewJournal \in Journals /\ DOMAIN NewJournal.rounds = {}
  BY DEF NewJournal, Journals
<1>4. AllGenuine(journal.rounds)' /\ InterruptedIsOpen'
  BY <1>1, <1>3 DEF AllGenuine, InterruptedIsOpen
<1>5. DOMAIN spent' = DOMAIN spent /\ spent'.torn \in BOOLEAN
  BY DEF Reset, Typed
<1> QED BY <1>1, <1>2, <1>3, <1>4, <1>5 DEF Typed

LEMMA BusyIsNotIdle ==
  ASSUME NEW p, jobs[p].at # "idle"
  PROVE  jobs[p] # Idle
<1>1. Idle.at = "idle"
  BY DEF Idle
<1> QED BY <1>1

\* The steps that only read, stage, clear or write the attestation.
LEMMA QuietStepsKeepTyped ==
  ASSUME Typed, NEW p \in Invocations,
         \/ Stage(p) \/ StageMeta(p) \/ Clear(p) \/ ClearMeta(p) \/ LoadSealed(p)
         \/ WriteAttestation(p) \/ Crash(p)
  PROVE  Typed'
<1>1. /\ UNCHANGED <<tree, base, document, journal, submitted>>
      /\ DOMAIN spent' = DOMAIN spent /\ spent'.torn \in BOOLEAN
  <2>1. UNCHANGED <<tree, base, document, journal, submitted>>
    BY DEF Stage, StageMeta, Clear, ClearMeta, LoadSealed, WriteAttestation, Crash, repoVars,
           fileVars
  <2>2. CASE Crash(p)
    <3>1. Spend("crashes", MaxCrashes)
      BY <2>2 DEF Crash
    <3> QED BY <2>1, <3>1, SpendingIsTyped DEF Typed
  <2>3. CASE ~ Crash(p)
    BY <2>1, <2>3 DEF Stage, StageMeta, Clear, ClearMeta, LoadSealed, WriteAttestation, Typed
  <2> QED BY <2>2, <2>3
<1>2. meta' \in {meta, Nothing} \/ meta' \in submitted
  <2>1. CASE StageMeta(p)
    <3>1. jobs[p].at = "meta" /\ jobs[p] # Idle
      BY <2>1, BusyIsNotIdle DEF StageMeta
    <3> QED BY <2>1, <3>1 DEF StageMeta, Typed, JobTyped
  <2>2. CASE ~ StageMeta(p)
    BY <2>2 DEF Stage, Clear, ClearMeta, LoadSealed, WriteAttestation, Crash, fileVars
  <2> QED BY <2>1, <2>2
<1>3. JobsStep(p)
  <2>1. CASE Crash(p) \/ WriteAttestation(p)
    BY <2>1, LeavingIsTyped DEF Crash, WriteAttestation
  <2>2. CASE LoadSealed(p)
    <3>1. jobs[p] # Idle
      BY <2>2, BusyIsNotIdle DEF LoadSealed
    <3>2. JobTyped(jobs[p]) /\ DOMAIN jobs = Invocations
      BY DEF Typed
    <3>3. DOMAIN jobs[p] = Fields
      BY <3>1, <3>2 DEF JobTyped
    <3>4. /\ DOMAIN jobs' = Invocations /\ \A q \in Invocations \ {p} : jobs'[q] = jobs[q]
          /\ DOMAIN jobs'[p] = Fields /\ jobs'[p].at = "attest"
          /\ jobs'[p].program = jobs[p].program
      BY <2>2, <3>2, <3>3 DEF LoadSealed, Fields
    <3>5. JobTyped(jobs[p])'
      BY <3>1, <3>2, <3>4 DEF JobTyped, Locked, Places
    <3> QED BY <3>4, <3>5 DEF JobsStep
  <2>3. CASE Stage(p) \/ StageMeta(p) \/ Clear(p) \/ ClearMeta(p)
    <3>1. PICK from, to : /\ jobs[p].at = from /\ Goto(p, to)
                          /\ <<from, to>> \in {<<"stage", "meta">>, <<"meta", "resolve">>,
                                               <<"clear", "clear meta">>,
                                               <<"clear meta", "commit">>}
      BY <2>3 DEF Stage, StageMeta, Clear, ClearMeta
    <3>2. from \in Places /\ to \in Places /\ jobs[p] # Idle
      BY <3>1, BusyIsNotIdle DEF Places
    <3> QED BY <1>1, <3>1, <3>2, GoingOnIsTyped DEF Locked
  <2> QED BY <2>1, <2>2, <2>3
<1>4. DOMAIN jobs' = Invocations /\ \A q \in Invocations : JobTyped(jobs[q])'
  BY <1>1, <1>3, JobsStayTyped
<1>5. AllGenuine(journal.rounds)' /\ InterruptedIsOpen'
  BY <1>1 DEF Typed, AllGenuine, Genuine, InterruptedIsOpen
<1> QED BY <1>1, <1>2, <1>4, <1>5 DEF Typed

LEMMA ResolveKeepsTyped ==
  ASSUME Typed, NEW p \in Invocations, Resolve(p)
  PROVE  Typed'
<1>1. UNCHANGED <<tree, base, document, journal, meta, submitted, spent>>
  BY DEF Resolve, repoVars, fileVars
<1>2. jobs[p] # Idle /\ jobs[p].program \in Policies /\ DOMAIN jobs[p] = Fields
  <2>1. jobs[p] # Idle
    BY BusyIsNotIdle DEF Resolve
  <2> QED BY <2>1 DEF Typed, JobTyped
<1>3. JobsStep(p)
  <2>1. CASE Prescription(p) = Nothing
    BY <2>1, LeavingIsTyped DEF Resolve
  <2>2. CASE Prescription(p) # Nothing
    <3>1. jobs' = [jobs EXCEPT ![p] = [jobs[p] EXCEPT !.at = "lock",
                                                      !.prescription = Prescription(p)]]
      BY <2>2 DEF Resolve
    <3>2. Granted(Prescription(p))
      BY <1>2, <2>2, PrescriptionIsGranted
    <3> DEFINE q == Prescription(p)
    <3> HIDE DEF q
    <3>3. /\ DOMAIN jobs' = Invocations /\ \A r \in Invocations \ {p} : jobs'[r] = jobs[r]
          /\ jobs'[p] = [jobs[p] EXCEPT !.at = "lock", !.prescription = q]
      BY <3>1 DEF Typed, q
    <3>4. /\ DOMAIN jobs'[p] = Fields /\ jobs'[p].at = "lock"
          /\ jobs'[p].program = jobs[p].program /\ jobs'[p].prescription = q
      BY <1>2, <3>3 DEF Fields
    <3>5. Granted(jobs[p].prescription)'
      BY <1>1, <3>2, <3>4 DEF Granted, Genuine, q
    <3>6. JobTyped(jobs[p])'
      BY <1>2, <3>4, <3>5 DEF JobTyped, Places, Locked
    <3> QED BY <3>3, <3>6 DEF JobsStep
  <2> QED BY <2>1, <2>2
<1>4. DOMAIN jobs' = Invocations /\ \A q \in Invocations : JobTyped(jobs[q])'
  BY <1>1, <1>3, JobsStayTyped
<1> QED BY <1>1, <1>4, FilesStayTyped DEF Typed

LEMMA AcquireKeepsTyped ==
  ASSUME Typed, NEW p \in Invocations, Acquire(p)
  PROVE  Typed'
<1>1. UNCHANGED <<tree, base, document, journal, meta, submitted, spent>>
  BY DEF Acquire, repoVars
<1>2. jobs[p] # Idle /\ "begin" \in Places
  BY BusyIsNotIdle DEF Acquire, Places
<1>3. JobsStep(p)
  BY <1>1, <1>2, LeavingIsTyped, GoingOnIsTyped DEF Acquire
<1>4. DOMAIN jobs' = Invocations /\ \A q \in Invocations : JobTyped(jobs[q])'
  BY <1>1, <1>3, JobsStayTyped
<1> QED BY <1>1, <1>4, FilesStayTyped DEF Typed

\* The attempt, as it is written down.
Attempt(p) ==
  [StateOf(jobs[p].program) EXCEPT
     !.revision = @ + 1,
     !.recovery = IF @ = Nothing THEN jobs[p].prescription.transition ELSE @]

LEMMA AttemptIs ==
  ASSUME Typed, NEW p \in Invocations, jobs[p].program \in Policies,
         Prescription(p) # Nothing, jobs[p].prescription = Prescription(p)
  PROVE  LET state == StateOf(jobs[p].program)
             q == jobs[p].prescription
         IN  /\ Attempt(p) \in Documents
             /\ Attempt(p).mode = state.mode /\ Attempt(p).program = state.program
             /\ Attempt(p).program = q.program
             /\ IF q.transition = "recover"
                  THEN /\ Attempt(p).recovery \in Submissions \cup {"reopen"}
                       /\ Attempt(p).recovery = state.recovery
                  ELSE Attempt(p).recovery = q.transition
             /\ q.transition \in Submissions => state.mode \in OpenModes
             /\ Attempt(p).recovery \in Submissions => Attempt(p).mode \in OpenModes
<1> DEFINE state == StateOf(jobs[p].program)
           q == jobs[p].prescription
<1>1. /\ Granted(q) /\ q.program = state.program /\ state.program = jobs[p].program
      /\ IF q.transition = "recover"
           THEN state.recovery \in Submissions \cup {"reopen"}
           ELSE state.recovery = Nothing
      /\ q.transition \in Submissions => state.mode \in OpenModes
  BY PrescriptionIsGranted
<1>2. state \in Documents /\ (state.recovery \in Submissions => state.mode \in OpenModes)
  BY StateIsDocument
<1>3. Attempt(p) = [state EXCEPT !.revision = @ + 1,
                                 !.recovery = IF @ = Nothing THEN q.transition ELSE @]
  BY DEF Attempt
<1> HIDE DEF state, q
<1>4. q.transition \in Transitions
  BY <1>1 DEF Granted
<1> DEFINE recovery == IF state.recovery = Nothing THEN q.transition ELSE state.recovery
<1>5. /\ Attempt(p) \in Documents
      /\ Attempt(p).mode = state.mode /\ Attempt(p).program = state.program
      /\ Attempt(p).recovery = recovery
  <2>1. recovery \in Transitions \cup {Nothing}
    BY <1>2, <1>4 DEF Documents
  <2>2. Attempt(p) = [state EXCEPT !.revision = @ + 1, !.recovery = recovery]
    BY <1>2, <1>3 DEF Documents
  <2> HIDE DEF recovery
  <2>3. state = [mode |-> state.mode, program |-> state.program, revision |-> state.revision,
                 recovery |-> state.recovery, receipts |-> state.receipts]
    BY <1>2 DEF Documents
  <2>4. Attempt(p) = [mode |-> state.mode, program |-> state.program,
                      revision |-> state.revision + 1, recovery |-> recovery,
                      receipts |-> state.receipts]
    BY <2>2, <2>3
  <2>5. Attempt(p) \in Documents
    BY <1>2, <2>1, <2>4 DEF Documents
  <2> QED BY <2>4, <2>5
<1>6. Nothing \notin Submissions \cup {"reopen"}
  BY NothingIsNothing DEF Transitions
<1> QED BY <1>1, <1>2, <1>5, <1>6 DEF state, q

LEMMA BeginKeepsTyped ==
  ASSUME Typed, NEW p \in Invocations, Begin(p)
  PROVE  Typed'
<1>1. UNCHANGED <<tree, base, journal, meta, submitted, spent>>
  BY DEF Begin, repoVars
<1>2. /\ jobs[p] # Idle /\ "execute" \in Places /\ jobs[p].at = "begin"
      /\ jobs[p].program \in Policies /\ jobs[p].prescription # Nothing
  <2>1. jobs[p] # Idle
    BY BusyIsNotIdle DEF Begin
  <2> QED BY <2>1 DEF Begin, Places, Typed, JobTyped, Locked, Granted
<1>3. \/ document' = document /\ Leave(p)
      \/ /\ document' = Attempt(p) /\ Prescription(p) = jobs[p].prescription
         /\ Goto(p, "execute")
  BY DEF Begin, Unlock, Attempt
<1>4. JobsStep(p)
  BY <1>1, <1>2, <1>3, LeavingIsTyped, GoingOnIsTyped DEF Locked
<1>5. DOMAIN jobs' = Invocations /\ \A q \in Invocations : JobTyped(jobs[q])'
  BY <1>1, <1>4, JobsStayTyped
<1>6. document' \in Documents \cup {Nothing} /\ InterruptedIsOpen'
  <2>1. CASE document' = document
    BY <2>1 DEF Typed, InterruptedIsOpen
  <2>2. CASE document' = Attempt(p) /\ Prescription(p) = jobs[p].prescription
    BY <1>2, <2>2, AttemptIs DEF InterruptedIsOpen
  <2> QED BY <1>3, <2>1, <2>2
<1>7. AllGenuine(journal.rounds)'
  BY <1>1 DEF Typed, AllGenuine, Genuine
<1> QED BY <1>1, <1>5, <1>6, <1>7 DEF Typed

LEMMA HeldIsGranted ==
  ASSUME Typed, NEW p \in Invocations, jobs[p].at \in Locked
  PROVE  /\ jobs[p] # Idle /\ DOMAIN jobs[p] = Fields /\ jobs[p].program \in Policies
         /\ Granted(jobs[p].prescription)
<1>1. jobs[p] # Idle
  BY BusyIsNotIdle DEF Locked
<1> QED BY <1>1 DEF Typed, JobTyped

\* The candidate of a submission is one, and so is the tree it is about.
LEMMA SubmissionIsTyped ==
  ASSUME Typed, NEW q, Granted(q), q.transition \in Submissions
  PROVE  q.seen.staged.candidate \in Candidates /\ q.seen.tree \in Trees
<1> DEFINE r == [candidate |-> q.seen.staged.candidate, tree |-> q.seen.tree]
<1>1. r \in Staged
  BY DEF Granted, Genuine, Typed
<1> QED BY <1>1 DEF Staged

LEMMA ExecuteKeepsTyped ==
  ASSUME Typed, NEW p \in Invocations, Execute(p)
  PROVE  Typed'
<1>1. UNCHANGED <<tree, base, document, journal, meta, submitted, spent>>
  BY DEF Execute, repoVars
<1>2. /\ jobs[p].at = "execute" /\ jobs[p] # Idle /\ DOMAIN jobs[p] = Fields
      /\ jobs[p].program \in Policies /\ Granted(jobs[p].prescription)
  <2>1. jobs[p].at = "execute" /\ jobs[p].at \in Locked
    BY DEF Execute, Locked
  <2> QED BY <2>1, HeldIsGranted
<1>3. \/ Leave(p) \/ Goto(p, "clear")
      \/ /\ jobs' = [jobs EXCEPT ![p].at = "journal", ![p].copy = journal]
         /\ jobs[p].prescription.transition # "recover"
  BY DEF Execute, Unlock
<1>4. JobsStep(p)
  <2>1. CASE Leave(p)
    BY <2>1, LeavingIsTyped
  <2>2. CASE Goto(p, "clear")
    <3>1. "clear" \in Places /\ jobs[p].at \in Locked
      BY <1>2 DEF Places, Locked
    <3> QED BY <1>1, <1>2, <2>2, <3>1, GoingOnIsTyped
  <2>3. CASE /\ jobs' = [jobs EXCEPT ![p].at = "journal", ![p].copy = journal]
             /\ jobs[p].prescription.transition # "recover"
    <3>1. /\ DOMAIN jobs' = Invocations /\ \A q \in Invocations \ {p} : jobs'[q] = jobs[q]
          /\ DOMAIN jobs'[p] = Fields /\ jobs'[p].at = "journal" /\ jobs'[p].copy = journal
          /\ jobs'[p].program = jobs[p].program
          /\ jobs'[p].prescription = jobs[p].prescription
      BY <1>2, <2>3 DEF Typed, Fields
    <3>2. Granted(jobs[p].prescription)' /\ AllGenuine(jobs[p].copy.rounds)'
      BY <1>1, <1>2, <3>1 DEF Granted, Genuine, AllGenuine, Typed
    <3>3. JobTyped(jobs[p])'
      BY <1>2, <2>3, <3>1, <3>2 DEF JobTyped, Places, Locked, Typed
    <3> QED BY <3>1, <3>3 DEF JobsStep
  <2> QED BY <1>3, <2>1, <2>2, <2>3
<1>5. DOMAIN jobs' = Invocations /\ \A q \in Invocations : JobTyped(jobs[q])'
  BY <1>1, <1>4, JobsStayTyped
<1> QED BY <1>1, <1>5, FilesStayTyped DEF Typed

LEMMA NextJournalIs ==
  ASSUME Typed, NEW q, Granted(q), q.transition # "recover", NEW j \in Journals
  PROVE  /\ NextJournal(q, j) \in Journals
         /\ AllGenuine(j.rounds) => AllGenuine(NextJournal(q, j).rounds)
         /\ q.transition = "reopen" => NextJournal(q, j).rounds = j.rounds
         /\ q.transition # "reopen" =>
              /\ q.transition \in Submissions
              /\ NextJournal(q, j).rounds = Append(j.rounds, RoundOf(q, j))
              /\ RoundOf(q, j) \in Rounds
<1>1. j.generation \in Nat /\ j.rounds \in Seq(Rounds)
      /\ j = [generation |-> j.generation, rounds |-> j.rounds]
  BY DEF Journals
<1>2. CASE q.transition = "reopen"
  <2>1. NextJournal(q, j) = [generation |-> j.generation + 1, rounds |-> j.rounds]
    BY <1>1, <1>2 DEF NextJournal
  <2> QED BY <1>1, <1>2, <2>1 DEF Journals
<1>3. CASE q.transition # "reopen"
  <2>1. q.transition \in Submissions
    BY <1>3 DEF Granted, Transitions
  <2>2. RoundOf(q, j) \in Rounds
    BY <1>1, <2>1, SubmissionIsTyped DEF RoundOf, Rounds
  <2>3. NextJournal(q, j) = [generation |-> j.generation,
                             rounds |-> Append(j.rounds, RoundOf(q, j))]
    BY <1>1, <1>3 DEF NextJournal
  <2>4. Genuine(RoundOf(q, j).candidate, RoundOf(q, j).tree)
    BY <2>1 DEF Granted, RoundOf
  <2> DEFINE round == RoundOf(q, j)
             rounds == Append(j.rounds, round)
  <2> HIDE DEF round
  <2>5. /\ rounds \in Seq(Rounds)
        /\ \A i \in DOMAIN rounds :
             (i \in DOMAIN j.rounds /\ rounds[i] = j.rounds[i]) \/ rounds[i] = round
    BY <1>1, <2>2 DEF round
  <2>6. AllGenuine(j.rounds) => AllGenuine(rounds)
    <3> HIDE DEF rounds
    <3> QED BY <2>4, <2>5 DEF AllGenuine, round
  <2> HIDE DEF rounds
  <2>7. NextJournal(q, j) \in Journals /\ NextJournal(q, j).rounds = rounds
    BY <1>1, <2>3, <2>5 DEF Journals, rounds, round
  <2> QED BY <1>3, <2>1, <2>2, <2>6, <2>7 DEF rounds, round
<1> QED BY <1>2, <1>3

LEMMA SaveJournalKeepsTyped ==
  ASSUME Typed, NEW p \in Invocations, SaveJournal(p)
  PROVE  Typed'
<1>1. /\ UNCHANGED <<tree, base, document, meta, submitted, spent>>
      /\ journal' = NextJournal(jobs[p].prescription, jobs[p].copy)
  BY DEF SaveJournal, repoVars
<1>2. /\ jobs[p].at = "journal" /\ jobs[p] # Idle /\ DOMAIN jobs[p] = Fields
      /\ jobs[p].program \in Policies /\ Granted(jobs[p].prescription)
  <2>1. jobs[p].at = "journal" /\ jobs[p].at \in Locked
    BY DEF SaveJournal, Locked
  <2> QED BY <2>1, HeldIsGranted
<1>3. /\ jobs[p].copy \in Journals /\ AllGenuine(jobs[p].copy.rounds)
      /\ jobs[p].prescription.transition # "recover"
  BY <1>2 DEF Typed, JobTyped
<1>4. journal' \in Journals /\ AllGenuine(NextJournal(jobs[p].prescription, jobs[p].copy).rounds)
  BY <1>1, <1>2, <1>3, NextJournalIs
<1>5. AllGenuine(journal.rounds)'
  BY <1>1, <1>4 DEF AllGenuine, Genuine
<1>6. /\ DOMAIN jobs' = Invocations /\ \A q \in Invocations \ {p} : jobs'[q] = jobs[q]
      /\ DOMAIN jobs'[p] = Fields /\ jobs'[p].at = "clear"
      /\ jobs'[p].program = jobs[p].program
      /\ jobs'[p].prescription = jobs[p].prescription
  BY <1>2 DEF SaveJournal, Typed, Fields
<1>7. Granted(jobs[p].prescription)'
  BY <1>1, <1>2, <1>6 DEF Granted, Genuine
<1>8. JobTyped(jobs[p])'
  BY <1>2, <1>6, <1>7 DEF JobTyped, Places, Locked
<1>9. DOMAIN jobs' = Invocations /\ \A q \in Invocations : JobTyped(jobs[q])'
  BY <1>1, <1>6, <1>8, JobsStayTyped DEF JobsStep
<1>10. InterruptedIsOpen'
  BY <1>1 DEF Typed, InterruptedIsOpen
<1> QED BY <1>1, <1>4, <1>5, <1>9, <1>10 DEF Typed

\* What a transition that is committed makes of the document.
LEMMA CommitIs ==
  ASSUME Typed, NEW p \in Invocations, CommitTransition(p), document' # document
  PROVE  LET q == jobs[p].prescription IN
         /\ document # Nothing /\ document' \in Documents
         /\ document'.program = document.program /\ document'.recovery = Nothing
         /\ document'.receipts[Len(document'.receipts)].transition = q.transition
<1> DEFINE q == jobs[p].prescription
           target == TransitionNamed(q.transition).target
           receipt == ReceiptOf(q)
<1>1. /\ document # Nothing
      /\ document' = [document EXCEPT !.mode = target, !.revision = @ + 1,
                                      !.recovery = Nothing, !.receipts = Append(@, receipt)]
  BY DEF CommitTransition
<1>2. Granted(q)
  <2>1. jobs[p].at \in Locked
    BY DEF CommitTransition, Locked
  <2> QED BY <2>1, HeldIsGranted
<1>3. receipt \in Receipts /\ receipt.transition = q.transition
  <2> HIDE DEF q
  <2>1. q.transition \in Submissions => q.seen.staged.candidate \in Candidates
    BY <1>2, SubmissionIsTyped
  <2>2. q.revision \in Nat /\ q.revision + 2 \in Nat /\ q.transition \in Transitions
        /\ q.program \in Policies
    BY <1>2 DEF Granted
  <2> QED BY <2>1, <2>2 DEF ReceiptOf, Receipts
<1>4. target \in Modes
  BY <1>2, NamedIs, ProgramIs DEF Granted
<1>5. document \in Documents
  BY <1>1 DEF Typed
<1> HIDE DEF q, target, receipt
<1>6. /\ document.program \in Policies /\ document.revision \in Nat
      /\ document.receipts \in Seq(Receipts)
  BY <1>5 DEF Documents
<1>7. document = [mode |-> document.mode, program |-> document.program,
                  revision |-> document.revision, recovery |-> document.recovery,
                  receipts |-> document.receipts]
  BY <1>5 DEF Documents
<1>8. document' = [mode |-> target, program |-> document.program,
                   revision |-> document.revision + 1, recovery |-> Nothing,
                   receipts |-> Append(document.receipts, receipt)]
  BY <1>1, <1>7
<1>9. /\ Append(document.receipts, receipt) \in Seq(Receipts)
      /\ Len(Append(document.receipts, receipt)) = Len(document.receipts) + 1
      /\ Append(document.receipts, receipt)[Len(document.receipts) + 1] = receipt
  BY <1>3, <1>6
<1>10. document.revision + 1 \in Nat
  BY <1>6
<1>11. document' \in Documents
  BY <1>4, <1>6, <1>8, <1>9, <1>10 DEF Documents
<1> QED BY <1>1, <1>3, <1>8, <1>9, <1>11 DEF q

LEMMA CommitKeepsTyped ==
  ASSUME Typed, NEW p \in Invocations, CommitTransition(p)
  PROVE  Typed'
<1>1. UNCHANGED <<tree, base, journal, meta, submitted, spent>> /\ Leave(p)
  BY DEF CommitTransition, repoVars, Unlock
<1>2. document' \in Documents \cup {Nothing} /\ InterruptedIsOpen'
  <2>1. CASE document' = document
    BY <2>1 DEF Typed, InterruptedIsOpen
  <2>2. CASE document' # document
    BY <2>2, CommitIs, NothingIsNothing DEF InterruptedIsOpen, Transitions
  <2> QED BY <2>1, <2>2
<1>3. AllGenuine(journal.rounds)'
  BY <1>1 DEF Typed, AllGenuine, Genuine
<1>4. DOMAIN jobs' = Invocations /\ \A r \in Invocations : JobTyped(jobs[r])'
  BY <1>1, LeavingIsTyped, JobsStayTyped
<1> QED BY <1>1, <1>2, <1>3, <1>4 DEF Typed

LEMMA StepKeepsTyped ==
  ASSUME Typed, [Next]_vars
  PROVE  Typed'
<1>1. ASSUME NEW p \in Invocations, Step(p)
      PROVE  Typed'
  BY <1>1, QuietStepsKeepTyped, ResolveKeepsTyped, AcquireKeepsTyped, BeginKeepsTyped,
     ExecuteKeepsTyped, SaveJournalKeepsTyped, CommitKeepsTyped DEF Step
<1>2. ASSUME NEW p \in Invocations,
             \/ \E candidate \in Candidates : Submit(p, candidate)
             \/ Reopen(p) \/ Recover(p) \/ Seal(p) \/ Crash(p)
      PROVE  Typed'
  BY <1>2, StartKeepsTyped, QuietStepsKeepTyped
<1>3. CASE Commit \/ Edit \/ Undo \/ MergePolicy \/ RemoveLock \/ Reset \/ UNCHANGED vars
  BY <1>3, BranchKeepsTyped, ResetKeepsTyped
<1> QED BY <1>1, <1>2, <1>3 DEF Next

LEMMA InitTyped == Init => Typed
<1> SUFFICES ASSUME Init PROVE Typed
  OBVIOUS
<1>1. NewJournal \in Journals /\ DOMAIN NewJournal.rounds = {}
  BY DEF NewJournal, Journals
<1>2. \A p \in Invocations : JobTyped(jobs[p])
  BY DEF Init, JobTyped
<1> QED BY <1>1, <1>2, LoopAssumption DEF Init, Typed, InterruptedIsOpen, AllGenuine

\* Rounds are about the tree their candidate was submitted for, and valid for it.
THEOREM RoundsAreGenuine == Spec => []RoundsBindTheirTree
<1>1. Typed => RoundsBindTheirTree
  BY DEF Typed, RoundsBindTheirTree, AllGenuine, Genuine
<1> QED BY <1>1, InitTyped, StepKeepsTyped, PTL DEF Spec

-----------------------------------------------------------------------------
(* One command at a time: what the lock is worth, as long as no reset has    *)
(* taken it away from a command.                                             *)

\* The document bears the attempt of the command that holds this prescription.
Obliged(q) ==
  /\ document # Nothing /\ document.program = q.program
  /\ IF q.transition = "recover" THEN document.recovery \in Submissions \cup {"reopen"}
                                 ELSE document.recovery = q.transition
  /\ q.transition \in Submissions => document.mode \in OpenModes

\* An invocation with an effect in hand is the only one; what a seal has read is of
\* the document that is there.
JobSerial(p) ==
  /\ jobs[p].at \in Locked => lock = p
  /\ jobs[p].at \in Begun => Obliged(jobs[p].prescription)
  /\ jobs[p].at = "journal" => jobs[p].copy = journal
  /\ jobs[p].at = "attest" /\ jobs[p].copy # Nothing =>
       document # Nothing /\ document.program = jobs[p].copy.program

\* The journal is of the program of the document.
RoundsSerial ==
  /\ journal.rounds # <<>> => document # Nothing
  /\ \A i \in DOMAIN journal.rounds :
       BlockingMeasure(journal.rounds[i].candidate) = 0 =>
         [tree |-> journal.rounds[i].tree, program |-> document.program] \in converged

Serial ==
  /\ \A p \in Invocations : JobSerial(p)
  /\ RoundsSerial
  /\ attestation # Nothing => attestation \in converged

\* A document that is there keeps its program.
ProgramStays ==
  document # Nothing => document' # Nothing /\ document'.program = document.program

LEMMA TornStays ==
  ASSUME Typed, [Next]_vars, spent.torn
  PROVE  spent'.torn
<1>1. CASE Reset
  BY <1>1 DEF Reset, Typed
<1>2. CASE UNCHANGED spent
  BY <1>2
<1>3. ASSUME NEW bound, NEW what \in {"commands", "commits", "merges", "crashes"},
             Spend(what, bound)
      PROVE  spent'.torn
  BY <1>3, SpendingIsTyped
<1>4. \/ Reset \/ UNCHANGED spent
      \/ \E what \in {"commands", "commits", "merges", "crashes"} : \E bound : Spend(what, bound)
  <2>1. ASSUME NEW p \in Invocations, Step(p) PROVE UNCHANGED spent
    BY <2>1 DEF Step, Stage, StageMeta, Resolve, Acquire, Begin, Execute, SaveJournal, Clear,
                ClearMeta, CommitTransition, LoadSealed, WriteAttestation
  <2>2. ASSUME NEW p \in Invocations,
               \/ \E candidate \in Candidates : Submit(p, candidate)
               \/ Reopen(p) \/ Recover(p) \/ Seal(p)
        PROVE  Spend("commands", MaxCommands)
    BY <2>2 DEF Submit, Reopen, Recover, Seal, Start
  <2>3. ASSUME NEW p \in Invocations, Crash(p) PROVE Spend("crashes", MaxCrashes)
    BY <2>3 DEF Crash
  <2>4. CASE Commit \/ Edit
    BY <2>4 DEF Commit, Edit
  <2>5. CASE MergePolicy
    BY <2>5 DEF MergePolicy
  <2>6. CASE Undo \/ RemoveLock \/ UNCHANGED vars
    BY <2>6 DEF Undo, RemoveLock, vars
  <2> QED BY <2>1, <2>2, <2>3, <2>4, <2>5, <2>6 DEF Next
<1> QED BY <1>1, <1>2, <1>3, <1>4

LEMMA HeldAlone ==
  ASSUME Serial, NEW p \in Invocations, jobs[p].at \in Locked,
         NEW q \in Invocations \ {p}
  PROVE  jobs[q].at \notin Locked
  BY DEF Serial, JobSerial

LEMMA UntouchedJob ==
  ASSUME NEW q, JobSerial(q), jobs'[q] = jobs[q], ProgramStays,
         jobs[q].at \in Locked => UNCHANGED <<lock, document, journal>>
  PROVE  JobSerial(q)'
<1>1. "journal" \in Locked /\ Begun \subseteq Locked
  BY DEF Locked, Begun
<1>2. jobs[q].at \in Begun => Obliged(jobs[q].prescription)'
  BY <1>1 DEF JobSerial, Obliged
<1> QED BY <1>1, <1>2 DEF JobSerial, ProgramStays

LEMMA LeftJob ==
  ASSUME NEW p, jobs'[p] = Idle
  PROVE  JobSerial(p)'
  BY DEF JobSerial, Idle, Locked, Begun

LEMMA RoundsStay ==
  ASSUME RoundsSerial, UNCHANGED journal, converged \subseteq converged', ProgramStays
  PROVE  RoundsSerial'
<1>1. ASSUME NEW i \in DOMAIN journal.rounds PROVE document # Nothing
  BY <1>1 DEF RoundsSerial
<1> QED BY <1>1 DEF RoundsSerial, ProgramStays

\* A step of p is the business of p, when it touches no file of the lock, when p holds
\* the lock, or when nobody does.
LEMMA OthersAreUntouched ==
  ASSUME Typed, Serial, NEW p \in Invocations, ProgramStays,
         \A q \in Invocations \ {p} : jobs'[q] = jobs[q],
         \/ UNCHANGED <<lock, document, journal>>
         \/ jobs[p].at \in Locked
         \/ lock = Nothing
  PROVE  \A q \in Invocations \ {p} : JobSerial(q)'
<1> SUFFICES ASSUME NEW q \in Invocations \ {p} PROVE JobSerial(q)'
  OBVIOUS
<1>1. JobSerial(q) /\ jobs'[q] = jobs[q]
  BY DEF Serial
<1>2. jobs[q].at \in Locked => UNCHANGED <<lock, document, journal>>
  <2>1. CASE jobs[p].at \in Locked
    BY <2>1, HeldAlone
  <2>2. CASE lock = Nothing
    BY <1>1, <2>2, NothingIsNothing DEF JobSerial
  <2> QED BY <2>1, <2>2
<1> QED BY <1>1, <1>2, UntouchedJob

\* Steps that leave document, journal and lock alone.
LEMMA QuietStepsKeepSerial ==
  ASSUME Typed, Serial, NEW p \in Invocations,
         UNCHANGED <<lock, document, journal, converged>>,
         attestation' # Nothing => attestation' \in converged,
         \A q \in Invocations \ {p} : jobs'[q] = jobs[q],
         JobSerial(p)'
  PROVE  Serial'
<1>1. ProgramStays
  BY DEF ProgramStays
<1>2. \A q \in Invocations \ {p} : JobSerial(q)'
  BY <1>1, OthersAreUntouched
<1>3. RoundsSerial'
  BY <1>1, RoundsStay DEF Serial
<1> QED BY <1>2, <1>3 DEF Serial

LEMMA StartKeepsSerial ==
  ASSUME Typed, Serial, NEW p \in Invocations,
         \/ \E candidate \in Candidates : Submit(p, candidate)
         \/ Reopen(p) \/ Recover(p) \/ Seal(p)
  PROVE  Serial'
<1>1. PICK command, candidate, at :
         Start(p, command, candidate, at) /\ at \in {"stage", "resolve", "load"}
  BY DEF Submit, Reopen, Recover, Seal
<1>2. UNCHANGED <<lock, document, journal, converged, attestation>>
  BY <1>1 DEF Start, fileVars
<1>3. jobs'[p].at = at /\ \A q \in Invocations \ {p} : jobs'[q] = jobs[q]
  BY <1>1 DEF Start, Typed
<1>4. JobSerial(p)'
  BY <1>1, <1>3 DEF JobSerial, Locked, Begun
<1> QED BY <1>2, <1>3, <1>4, QuietStepsKeepSerial DEF Serial

\* Going on under the lock, or without it.
LEMMA GoingOnIsSerial ==
  ASSUME Typed, Serial, NEW p \in Invocations, jobs[p] # Idle, NEW at \in Places, Goto(p, at),
         UNCHANGED <<lock, document>>,
         at \in Locked => at \in Begun /\ jobs[p].at \in Begun,
         at \notin {"journal", "attest"}
  PROVE  JobSerial(p)'
<1>1. Moved(p, at) /\ jobs'[p].prescription = jobs[p].prescription
  BY GotoMoves
<1>2. JobSerial(p)
  BY DEF Serial
<1>3. Begun \subseteq Locked
  BY DEF Begun
<1>4. jobs[p].at \in Begun => Obliged(jobs[p].prescription)'
  BY <1>1, <1>2 DEF JobSerial, Obliged
<1> QED BY <1>1, <1>2, <1>3, <1>4 DEF JobSerial, Moved

\* What is sealed was reviewed well under the program that is sealed.
LEMMA SealingIsSerial ==
  ASSUME Typed, Serial, NEW p \in Invocations, WriteAttestation(p), attestation' # Nothing
  PROVE  attestation' \in converged
<1> DEFINE job == jobs[p]
           rounds == CurrentRounds(journal)
           final == rounds[Len(rounds)]
<1>1. CASE attestation' = attestation
  BY <1>1 DEF Serial
<1>2. CASE attestation' # attestation
  <2>1. /\ attestation' = [tree |-> final.tree, program |-> job.program]
        /\ Sealable(job.copy, rounds, tree, job.program) /\ job.at = "attest"
    BY <1>2 DEF WriteAttestation
  <2>2. /\ job.copy # Nothing /\ job.copy.program = job.program /\ rounds # <<>>
        /\ BlockingMeasure(final.candidate) = 0
    <3> HIDE DEF job, rounds
    <3> QED BY <2>1 DEF Sealable, FinalRoundSeals
  <2>3. PICK i \in DOMAIN journal.rounds : final = journal.rounds[i]
    <3>1. journal.rounds \in Seq(Rounds)
      BY DEF Typed, Journals
    <3> QED BY <2>2, <3>1, LastRoundIsRecorded
  <2>4. document # Nothing /\ document.program = job.copy.program
    <3>1. JobSerial(p)
      BY DEF Serial
    <3> QED BY <2>1, <2>2, <3>1 DEF JobSerial
  <2> HIDE DEF final, rounds, job
  <2>5. [tree |-> final.tree, program |-> document.program] \in converged
    BY <2>2, <2>3 DEF Serial, RoundsSerial
  <2> QED BY <2>1, <2>2, <2>4, <2>5
<1> QED BY <1>1, <1>2

LEMMA QuietMovesKeepSerial ==
  ASSUME Typed, Serial, NEW p \in Invocations,
         \/ Stage(p) \/ StageMeta(p) \/ Resolve(p) \/ Clear(p) \/ ClearMeta(p)
         \/ LoadSealed(p) \/ WriteAttestation(p) \/ Crash(p)
  PROVE  Serial'
<1>1. UNCHANGED <<lock, document, journal, converged>>
  BY DEF Stage, StageMeta, Resolve, Clear, ClearMeta, LoadSealed, WriteAttestation, Crash,
         fileVars
<1>2. attestation' # Nothing => attestation' \in converged
  <2>1. CASE WriteAttestation(p)
    BY <2>1, SealingIsSerial
  <2>2. CASE ~ WriteAttestation(p)
    BY <2>2 DEF Stage, StageMeta, Resolve, Clear, ClearMeta, LoadSealed, Crash, Serial
  <2> QED BY <2>1, <2>2
<1>3. JobSerial(p)' /\ \A q \in Invocations \ {p} : jobs'[q] = jobs[q]
  <2>1. CASE Leave(p)
    BY <2>1, LeaveLeaves, LeftJob
  <2>2. CASE Stage(p) \/ StageMeta(p) \/ Clear(p) \/ ClearMeta(p)
    <3>1. PICK from, to : /\ jobs[p].at = from /\ Goto(p, to)
                          /\ <<from, to>> \in {<<"stage", "meta">>, <<"meta", "resolve">>,
                                               <<"clear", "clear meta">>,
                                               <<"clear meta", "commit">>}
      BY <2>2 DEF Stage, StageMeta, Clear, ClearMeta
    <3>2. from \in Places /\ to \in Places /\ jobs[p] # Idle
      BY <3>1, BusyIsNotIdle DEF Places
    <3>3. /\ to \in Locked => to \in Begun /\ from \in Begun
          /\ to \notin {"journal", "attest"}
      BY <3>1 DEF Locked, Begun
    <3>4. JobSerial(p)'
      BY <1>1, <3>1, <3>2, <3>3, GoingOnIsSerial
    <3>5. \A q \in Invocations \ {p} : jobs'[q] = jobs[q]
      BY <3>1 DEF Goto, Typed
    <3> QED BY <3>4, <3>5
  <2>3. CASE Resolve(p) /\ ~ Leave(p)
    <3>1. jobs' = [jobs EXCEPT ![p] = [jobs[p] EXCEPT !.at = "lock",
                                                      !.prescription = Prescription(p)]]
      BY <2>3 DEF Resolve
    <3>2. jobs[p] # Idle
      BY <2>3, BusyIsNotIdle DEF Resolve
    <3>3. jobs'[p].at = "lock" /\ \A q \in Invocations \ {p} : jobs'[q] = jobs[q]
      BY <3>1, <3>2 DEF Typed, JobTyped, Fields
    <3> QED BY <3>3 DEF JobSerial, Locked, Begun
  <2>4. CASE LoadSealed(p)
    <3>1. jobs[p] # Idle
      BY <2>4, BusyIsNotIdle DEF LoadSealed
    <3>2. /\ jobs'[p].at = "attest" /\ jobs'[p].copy = document
          /\ \A q \in Invocations \ {p} : jobs'[q] = jobs[q]
      BY <2>4, <3>1 DEF LoadSealed, Typed, JobTyped, Fields
    <3> QED BY <1>1, <3>2 DEF JobSerial, Locked, Begun
  <2>5. WriteAttestation(p) \/ Crash(p) => Leave(p)
    BY DEF WriteAttestation, Crash
  <2> QED BY <2>1, <2>2, <2>3, <2>4, <2>5
<1> QED BY <1>1, <1>2, <1>3, QuietStepsKeepSerial

LEMMA BranchKeepsSerial ==
  ASSUME Typed, Serial,
         Commit \/ Edit \/ Undo \/ MergePolicy \/ RemoveLock \/ UNCHANGED vars
  PROVE  Serial'
<1>1. UNCHANGED <<document, journal, attestation, jobs, converged>>
  BY DEF Commit, Edit, Undo, MergePolicy, RemoveLock, vars, fileVars
<1>2. ProgramStays
  BY <1>1 DEF ProgramStays
<1>3. ASSUME NEW q \in Invocations PROVE JobSerial(q)'
  <2>1. jobs[q].at \in Locked => UNCHANGED lock
    <3>1. CASE RemoveLock
      <4>1. JobSerial(q) /\ Idle.at = "idle"
        BY DEF Serial, Idle
      <4> QED BY <3>1, <4>1 DEF RemoveLock, JobSerial, Locked
    <3>2. CASE ~ RemoveLock
      BY <3>2 DEF Commit, Edit, Undo, MergePolicy, vars, fileVars
    <3> QED BY <3>1, <3>2
  <2> QED BY <1>1, <1>2, <2>1, UntouchedJob DEF Serial
<1>4. RoundsSerial'
  BY <1>1, <1>2, RoundsStay DEF Serial
<1> QED BY <1>1, <1>3, <1>4 DEF Serial

\* A reset that tears nothing apart finds nobody under the lock or about to seal.
LEMMA ResetKeepsSerial ==
  ASSUME Typed, Serial, Reset, ~ spent'.torn
  PROVE  Serial'
<1>1. /\ document' = Nothing /\ journal' = NewJournal
      /\ UNCHANGED <<attestation, jobs, converged>>
  BY DEF Reset
<1>2. lock = Nothing /\ \A p \in Invocations : jobs[p].at # "attest"
  BY DEF Reset, Typed
<1>3. ASSUME NEW q \in Invocations PROVE JobSerial(q)'
  <2>1. jobs[q].at \notin Locked
    BY <1>2, NothingIsNothing DEF Serial, JobSerial
  <2> QED BY <1>1, <1>2, <2>1 DEF JobSerial, Locked, Begun
<1>4. RoundsSerial'
  BY <1>1 DEF RoundsSerial, NewJournal
<1> QED BY <1>1, <1>3, <1>4 DEF Serial

LEMMA AcquireKeepsSerial ==
  ASSUME Typed, Serial, NEW p \in Invocations, Acquire(p)
  PROVE  Serial'
<1>1. UNCHANGED <<document, journal, attestation, converged>> /\ jobs[p].at = "lock"
  BY DEF Acquire
<1>2. CASE lock # Nothing
  BY <1>1, <1>2, LeaveLeaves, LeftJob, QuietStepsKeepSerial DEF Acquire, Serial
<1>3. CASE lock = Nothing
  <2>1. jobs[p] # Idle /\ "begin" \in Places
    BY <1>1, BusyIsNotIdle DEF Places
  <2>2. Moved(p, "begin") /\ lock' = p
    BY <1>3, <2>1, GotoMoves DEF Acquire
  <2>3. JobSerial(p)'
    BY <2>2 DEF JobSerial, Moved, Begun, Locked
  <2>4. ProgramStays
    BY <1>1 DEF ProgramStays
  <2>5. \A q \in Invocations \ {p} : JobSerial(q)'
    BY <1>3, <2>2, <2>4, OthersAreUntouched DEF Moved
  <2>6. RoundsSerial'
    BY <1>1, <2>4, RoundsStay DEF Serial
  <2> QED BY <1>1, <2>3, <2>5, <2>6 DEF Serial
<1> QED BY <1>2, <1>3

LEMMA BeginKeepsSerial ==
  ASSUME Typed, Serial, NEW p \in Invocations, Begin(p)
  PROVE  Serial'
<1>1. UNCHANGED <<journal, attestation, converged>> /\ jobs[p].at = "begin"
      /\ jobs[p].at \in Locked
  BY DEF Begin, Locked
<1>2. /\ jobs[p] # Idle /\ DOMAIN jobs[p] = Fields /\ jobs[p].program \in Policies
      /\ Granted(jobs[p].prescription)
  BY <1>1, HeldIsGranted
<1>3. CASE document' = document /\ Leave(p)
  <2>1. ProgramStays
    BY <1>3 DEF ProgramStays
  <2>2. \A q \in Invocations \ {p} : JobSerial(q)'
    BY <1>1, <1>3, <2>1, LeaveLeaves, OthersAreUntouched
  <2>3. RoundsSerial'
    BY <1>1, <2>1, RoundsStay DEF Serial
  <2>4. JobSerial(p)'
    BY <1>3, LeaveLeaves, LeftJob
  <2> QED BY <1>1, <2>2, <2>3, <2>4 DEF Serial
<1>4. CASE /\ document' = Attempt(p) /\ Prescription(p) = jobs[p].prescription
           /\ Goto(p, "execute") /\ lock' = lock
  <2>1. Prescription(p) # Nothing
    BY <1>2, <1>4 DEF Granted
  <2> DEFINE q == jobs[p].prescription
             state == StateOf(jobs[p].program)
  <2>2. /\ Attempt(p) \in Documents
        /\ Attempt(p).mode = state.mode /\ Attempt(p).program = state.program
        /\ Attempt(p).program = q.program
        /\ IF q.transition = "recover"
             THEN Attempt(p).recovery \in Submissions \cup {"reopen"}
             ELSE Attempt(p).recovery = q.transition
        /\ q.transition \in Submissions => state.mode \in OpenModes
    BY <1>2, <1>4, <2>1, AttemptIs
  <2>3. document # Nothing => state = document
    BY <1>2, StateIsDocument
  <2> HIDE DEF state
  <2>4. ProgramStays
    BY <1>4, <2>2, <2>3, NothingIsNothing DEF ProgramStays
  <2>5. Obliged(q)'
    <3>1. /\ jobs'[p].prescription = q /\ document' # Nothing
      BY <1>2, <1>4, <2>2, NothingIsNothing DEF Goto, Typed, Fields
    <3> HIDE DEF q
    <3> QED BY <1>4, <2>2, <3>1 DEF Obliged, q
  <2>6. Moved(p, "execute") /\ jobs'[p].prescription = q
    <3>1. "execute" \in Places
      BY DEF Places
    <3> QED BY <1>2, <1>4, <3>1, GotoMoves
  <2>7. JobSerial(p)'
    <3>1. lock = p
      BY <1>1 DEF Serial, JobSerial
    <3> QED BY <1>4, <2>5, <2>6, <3>1 DEF JobSerial, Moved
  <2>8. \A r \in Invocations \ {p} : JobSerial(r)'
    BY <1>1, <2>4, <2>6, OthersAreUntouched DEF Moved
  <2>9. RoundsSerial'
    BY <1>1, <2>4, RoundsStay DEF Serial
  <2> QED BY <1>1, <2>7, <2>8, <2>9 DEF Serial
<1>5. \/ document' = document /\ Leave(p)
      \/ /\ document' = Attempt(p) /\ Prescription(p) = jobs[p].prescription
         /\ Goto(p, "execute") /\ lock' = lock
  BY DEF Begin, Unlock, Attempt
<1> QED BY <1>3, <1>4, <1>5

LEMMA ExecuteKeepsSerial ==
  ASSUME Typed, Serial, NEW p \in Invocations, Execute(p)
  PROVE  Serial'
<1>1. /\ UNCHANGED <<document, journal, attestation, converged>>
      /\ jobs[p].at = "execute" /\ jobs[p].at \in Locked /\ jobs[p].at \in Begun
  BY DEF Execute, Locked, Begun
<1>2. jobs[p] # Idle /\ DOMAIN jobs[p] = Fields
  BY <1>1, HeldIsGranted
<1>3. ProgramStays
  BY <1>1 DEF ProgramStays
<1>4. \/ Leave(p)
      \/ Goto(p, "clear") /\ lock' = lock
      \/ jobs' = [jobs EXCEPT ![p].at = "journal", ![p].copy = journal] /\ lock' = lock
  BY DEF Execute, Unlock
<1>5. JobSerial(p)' /\ \A q \in Invocations \ {p} : jobs'[q] = jobs[q]
  <2>1. CASE Leave(p)
    BY <2>1, LeaveLeaves, LeftJob
  <2>2. CASE Goto(p, "clear") /\ lock' = lock
    <3>1. "clear" \in Places /\ "clear" \in Begun
      BY DEF Places, Begun, Locked
    <3>2. JobSerial(p)'
      BY <1>1, <1>2, <2>2, <3>1, GoingOnIsSerial
    <3>3. \A q \in Invocations \ {p} : jobs'[q] = jobs[q]
      BY <2>2 DEF Goto, Typed
    <3> QED BY <3>2, <3>3
  <2>3. CASE jobs' = [jobs EXCEPT ![p].at = "journal", ![p].copy = journal] /\ lock' = lock
    <3>1. /\ jobs'[p].at = "journal" /\ jobs'[p].copy = journal
          /\ jobs'[p].prescription = jobs[p].prescription
          /\ \A q \in Invocations \ {p} : jobs'[q] = jobs[q]
      BY <1>2, <2>3 DEF Typed, Fields
    <3>2. lock = p /\ Obliged(jobs[p].prescription)
      BY <1>1 DEF Serial, JobSerial
    <3>3. Obliged(jobs[p].prescription)'
      BY <1>1, <3>1, <3>2 DEF Obliged
    <3>4. JobSerial(p)'
      BY <1>1, <2>3, <3>1, <3>2, <3>3 DEF JobSerial
    <3> QED BY <3>1, <3>4
  <2> QED BY <1>4, <2>1, <2>2, <2>3
<1>6. \A q \in Invocations \ {p} : JobSerial(q)'
  BY <1>1, <1>3, <1>5, OthersAreUntouched
<1>7. RoundsSerial'
  BY <1>1, <1>3, RoundsStay DEF Serial
<1> QED BY <1>1, <1>5, <1>6, <1>7 DEF Serial

LEMMA SaveJournalKeepsSerial ==
  ASSUME Typed, Serial, NEW p \in Invocations, SaveJournal(p)
  PROVE  Serial'
<1> DEFINE q == jobs[p].prescription
<1>1. /\ UNCHANGED <<document, lock, attestation>>
      /\ jobs[p].at = "journal" /\ jobs[p].at \in Locked /\ jobs[p].at \in Begun
      /\ journal' = NextJournal(q, jobs[p].copy)
      /\ jobs' = [jobs EXCEPT ![p].at = "clear", ![p].copy = Nothing]
      /\ converged' = IF /\ q.transition \in Submissions
                         /\ BlockingMeasure(q.seen.staged.candidate) = 0
                        THEN converged \cup {[tree |-> q.seen.tree, program |-> q.program]}
                        ELSE converged
  BY DEF SaveJournal, Locked, Begun
<1>2. /\ jobs[p] # Idle /\ DOMAIN jobs[p] = Fields /\ Granted(q)
  BY <1>1, HeldIsGranted
<1>3. lock = p /\ Obliged(q) /\ jobs[p].copy = journal
  BY <1>1 DEF Serial, JobSerial
<1>4. journal \in Journals /\ q.transition # "recover"
  BY <1>1, <1>2 DEF Typed, JobTyped
<1>5. /\ jobs'[p].at = "clear" /\ jobs'[p].prescription = q
      /\ \A r \in Invocations \ {p} : jobs'[r] = jobs[r]
  BY <1>1, <1>2 DEF Typed, Fields
<1> HIDE DEF q
<1>6. ProgramStays
  BY <1>1 DEF ProgramStays
<1>7. JobSerial(p)'
  <2>1. Obliged(jobs[p].prescription)'
    BY <1>1, <1>3, <1>5 DEF Obliged
  <2> QED BY <1>1, <1>3, <1>5, <2>1 DEF JobSerial
<1>8. \A r \in Invocations \ {p} : JobSerial(r)'
  BY <1>1, <1>5, <1>6, OthersAreUntouched
<1>9. RoundsSerial'
  <2>1. document' # Nothing /\ document'.program = document.program
        /\ document.program = q.program
    BY <1>1, <1>3 DEF Obliged
  <2>2. CASE q.transition = "reopen"
    <3>1. journal'.rounds = journal.rounds
      BY <1>1, <1>2, <1>3, <1>4, <2>2, NextJournalIs
    <3> QED BY <1>1, <2>1, <3>1 DEF Serial, RoundsSerial
  <2>3. CASE q.transition # "reopen"
    <3> DEFINE round == RoundOf(q, journal)
               rounds == Append(journal.rounds, round)
    <3>1. /\ journal'.rounds = rounds /\ round \in Rounds /\ q.transition \in Submissions
      BY <1>1, <1>2, <1>3, <1>4, <2>3, NextJournalIs
    <3>2. round.candidate = q.seen.staged.candidate /\ round.tree = q.seen.tree
      BY DEF RoundOf
    <3>3. journal.rounds \in Seq(Rounds)
      BY <1>4 DEF Journals
    <3> HIDE DEF round
    <3>4. \A i \in DOMAIN rounds :
            (i \in DOMAIN journal.rounds /\ rounds[i] = journal.rounds[i]) \/ rounds[i] = round
      BY <3>1, <3>3
    <3> HIDE DEF rounds
    <3>5. BlockingMeasure(round.candidate) = 0 =>
            [tree |-> round.tree, program |-> document.program] \in converged'
      BY <1>1, <2>1, <3>1, <3>2
    <3>6. ASSUME NEW i \in DOMAIN rounds, BlockingMeasure(rounds[i].candidate) = 0
          PROVE  [tree |-> rounds[i].tree, program |-> document.program] \in converged'
      <4>1. CASE i \in DOMAIN journal.rounds /\ rounds[i] = journal.rounds[i]
        <5>1. [tree |-> rounds[i].tree, program |-> document.program] \in converged
          BY <3>6, <4>1 DEF Serial, RoundsSerial
        <5> QED BY <1>1, <5>1
      <4>2. CASE rounds[i] = round
        BY <3>5, <3>6, <4>2
      <4> QED BY <3>4, <4>1, <4>2
    <3> QED BY <2>1, <3>1, <3>6 DEF RoundsSerial
  <2> QED BY <2>2, <2>3
<1>10. attestation' # Nothing => attestation' \in converged'
  BY <1>1 DEF Serial
<1> QED BY <1>7, <1>8, <1>9, <1>10 DEF Serial

LEMMA CommitKeepsSerial ==
  ASSUME Typed, Serial, NEW p \in Invocations, CommitTransition(p)
  PROVE  Serial'
<1>1. /\ UNCHANGED <<journal, attestation, converged>> /\ Leave(p) /\ jobs[p].at \in Locked
  BY DEF CommitTransition, Unlock, Locked
<1>2. ProgramStays
  BY CommitIs, NothingIsNothing DEF ProgramStays
<1>3. \A q \in Invocations \ {p} : JobSerial(q)'
  BY <1>1, <1>2, LeaveLeaves, OthersAreUntouched
<1>4. JobSerial(p)' /\ RoundsSerial'
  BY <1>1, <1>2, LeaveLeaves, LeftJob, RoundsStay DEF Serial
<1> QED BY <1>1, <1>3, <1>4 DEF Serial

SerialUntilTorn == ~ spent.torn => Serial

LEMMA StepKeepsSerial ==
  ASSUME Typed, SerialUntilTorn, [Next]_vars
  PROVE  SerialUntilTorn'
<1> SUFFICES ASSUME ~ spent'.torn PROVE Serial'
  BY DEF SerialUntilTorn
<1>1. Serial
  BY TornStays DEF SerialUntilTorn
<1>2. ASSUME NEW p \in Invocations, Step(p)
      PROVE  Serial'
  BY <1>1, <1>2, QuietMovesKeepSerial, AcquireKeepsSerial, BeginKeepsSerial,
     ExecuteKeepsSerial, SaveJournalKeepsSerial, CommitKeepsSerial DEF Step
<1>3. ASSUME NEW p \in Invocations,
             \/ \E candidate \in Candidates : Submit(p, candidate)
             \/ Reopen(p) \/ Recover(p) \/ Seal(p) \/ Crash(p)
      PROVE  Serial'
  BY <1>1, <1>3, StartKeepsSerial, QuietMovesKeepSerial
<1>4. CASE Commit \/ Edit \/ Undo \/ MergePolicy \/ RemoveLock \/ Reset \/ UNCHANGED vars
  BY <1>1, <1>4, BranchKeepsSerial, ResetKeepsSerial
<1> QED BY <1>2, <1>3, <1>4 DEF Next

LEMMA InitSerial == Init => Serial
<1> SUFFICES ASSUME Init PROVE Serial
  OBVIOUS
<1>1. ASSUME NEW p \in Invocations PROVE JobSerial(p)
  <2>1. jobs[p].at = "idle"
    BY DEF Init, Idle
  <2> QED BY <2>1 DEF JobSerial, Locked, Begun
<1>2. RoundsSerial
  <2>1. journal.rounds = <<>>
    BY DEF Init, NewJournal
  <2> QED BY <2>1 DEF RoundsSerial
<1> QED BY <1>1, <1>2 DEF Init, Serial

LEMMA AlwaysSerial == Spec => [](Typed /\ SerialUntilTorn)
<1>1. Init => SerialUntilTorn
  BY InitSerial DEF SerialUntilTorn
<1> QED BY <1>1, InitTyped, StepKeepsTyped, StepKeepsSerial, PTL DEF Spec

\* An attestation names a tree that was reviewed well under the program it names.
THEOREM AttestationsAreEarned == Spec => []AttestedTreesConverged
<1>1. SerialUntilTorn => AttestedTreesConverged
  BY DEF SerialUntilTorn, Serial, AttestedTreesConverged
<1> QED BY <1>1, AlwaysSerial, PTL

\* A converged or escalated generation is left by a human's reopening only.
THEOREM HumansReopen == Spec => SettledNeedsAHuman
<1> DEFINE left(mode) ==
      ~ spent.torn /\ document # Nothing /\ document.mode = mode
        /\ document' # Nothing /\ document'.mode # mode
<1>1. ASSUME Typed, SerialUntilTorn, [Next]_vars, NEW mode \in SettledModes, left(mode)
      PROVE  \/ document'.receipts[Len(document'.receipts)].transition = "reopen"
             \/ document.recovery = "reopen"
  <2>1. mode \notin OpenModes
    BY DEF SettledModes, OpenModes
  <2>2. ~ \E p \in Invocations : Begin(p)
    <3> SUFFICES ASSUME NEW p \in Invocations, Begin(p) PROVE FALSE
      OBVIOUS
    <3>1. document' = Attempt(p) /\ Prescription(p) = jobs[p].prescription
      BY <1>1 DEF Begin, Attempt
    <3>2. jobs[p].program \in Policies /\ Granted(jobs[p].prescription)
      BY HeldIsGranted, <1>1 DEF Begin, Locked
    <3>3. Prescription(p) # Nothing
      BY <3>1, <3>2 DEF Granted
    <3>4. Attempt(p).mode = StateOf(jobs[p].program).mode
      BY <1>1, <3>1, <3>2, <3>3, AttemptIs
    <3>5. StateOf(jobs[p].program) = document
      BY <1>1, <3>2, StateIsDocument
    <3> QED BY <1>1, <3>1, <3>4, <3>5
  <2>3. PICK p \in Invocations : CommitTransition(p)
    <3>1. document' # document /\ document' # Nothing
      BY <1>1
    <3> QED BY <1>1, <2>2, <3>1 DEF Next, Step, Submit, Reopen, Recover, Seal, Start, Crash,
              Commit, Edit, Undo, MergePolicy, RemoveLock, Reset, Stage, StageMeta, Resolve,
              Acquire, Execute, SaveJournal, Clear, ClearMeta, LoadSealed, WriteAttestation,
              vars, fileVars
  <2> DEFINE q == jobs[p].prescription
  <2>4. Obliged(q) /\ Granted(q)
    <3>1. jobs[p].at \in Begun /\ jobs[p].at \in Locked
      BY <2>3 DEF CommitTransition, Begun, Locked
    <3> QED BY <1>1, <3>1, HeldIsGranted DEF SerialUntilTorn, Serial, JobSerial
  <2>5. document'.receipts[Len(document'.receipts)].transition = q.transition
    BY <1>1, <2>3, CommitIs
  <2> HIDE DEF q
  <2>6. q.transition \notin Submissions
    BY <1>1, <2>1, <2>4 DEF Obliged
  <2>7. CASE q.transition = "recover"
    BY <1>1, <2>1, <2>4, <2>7 DEF Obliged, Typed, InterruptedIsOpen
  <2>8. CASE q.transition = "reopen"
    BY <2>5, <2>8
  <2> QED BY <2>4, <2>6, <2>7, <2>8 DEF Granted, Transitions
<1>2. Typed /\ SerialUntilTorn /\ [Next]_vars
        => [\A mode \in SettledModes : left(mode) =>
              \/ document'.receipts[Len(document'.receipts)].transition = "reopen"
              \/ document.recovery = "reopen"]_vars
  BY <1>1
<1> QED BY <1>2, AlwaysSerial, PTL DEF Spec, SettledNeedsAHuman

=============================================================================
