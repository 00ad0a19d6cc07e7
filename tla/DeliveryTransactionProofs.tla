---------------------- MODULE DeliveryTransactionProofs ----------------------
(***************************************************************************)
(* Proofs about the effect transaction, for every set of worktrees,        *)
(* processes and transitions, and without the bounds of the runs.          *)
(***************************************************************************)
EXTENDS DeliveryTransaction, FiniteSetTheorems, SequenceTheorems, TLAPS

Begun(p) == pc[p] \notin {"idle", "admitted", "locked"}

\* A recovery names a transaction that recovers nothing itself.
Grounded(h) ==
  IF h.transition \in Recoveries
    THEN h.root \in DOMAIN admitted /\ admitted[h.root].root = 0
    ELSE h.root = 0

Engaged == \A p \in Processes :
  pc[p] # "idle" => holds[p] \in Admissions /\ Grounded(holds[p])

Numbered == \A p \in Processes :
  Begun(p) => own[p] \in DOMAIN admitted /\ admitted[own[p]] = holds[p]

Rooted == \A a \in DOMAIN admitted : admitted[a].root < a /\ Grounded(admitted[a])

\* Only recoveries close journals.
Plain ==
  /\ \A a \in DOMAIN journal : admitted[a].root = 0 =>
       \A m \in Range(journal[a].mutations) : m.kind # "close"
  /\ \A p \in Processes : Begun(p) /\ holds[p].root = 0 =>
       \A m \in Range(todo[p]) : m.kind # "close"

Typed == TypeOK /\ Engaged /\ Numbered /\ Rooted /\ Plain

-----------------------------------------------------------------------------
(***************************************************************************)
(* Sequences and sets.                                                     *)
(***************************************************************************)
LEMMA ReplacedElement ==
  ASSUME NEW S, NEW s \in Seq(S), NEW i, NEW e, i \in DOMAIN s => e \in S
  PROVE  /\ [s EXCEPT ![i] = e] \in Seq(S)
         /\ Len([s EXCEPT ![i] = e]) = Len(s)
         /\ DOMAIN [s EXCEPT ![i] = e] = DOMAIN s
         /\ \A j \in DOMAIN s : [s EXCEPT ![i] = e][j] = IF j = i THEN e ELSE s[j]
<1>1. CASE i \in DOMAIN s
  <2>1. i \in 1..Len(s) /\ DOMAIN s = 1..Len(s) /\ e \in S
    BY <1>1, LenProperties
  <2>2. /\ [s EXCEPT ![i] = e] \in Seq(S)
        /\ Len([s EXCEPT ![i] = e]) = Len(s)
        /\ \A j \in 1..Len(s) : [s EXCEPT ![i] = e][j] = IF j = i THEN e ELSE s[j]
    BY <2>1, ExceptSeq
  <2> QED BY <2>1, <2>2
<1>2. CASE i \notin DOMAIN s
  <2>1. s \in [1..Len(s) -> S] /\ DOMAIN s = 1..Len(s)
    BY LenProperties
  <2>2. [s EXCEPT ![i] = e] = s
    BY <1>2, <2>1
  <2> QED BY <1>2, <2>2
<1> QED BY <1>1, <1>2

LEMMA EnumeratedSet ==
  ASSUME NEW S, IsFiniteSet(S)
  PROVE  SetToSeq(S) \in Seq(S) /\ Range(SetToSeq(S)) = S
<1> DEFINE n == Cardinality(S)
<1>1. n \in Nat /\ ExistsBijection(1..n, S)
  BY FS_CardinalityType
<1>2. PICK f \in Bijection(1..n, S) : TRUE
  BY <1>1 DEF ExistsBijection
<1>3. f \in [1..n -> S] /\ IsInjective(f)
  BY <1>2 DEF Bijection, Injection, Surjection, IsInjective
<1>4. SetToSeq(S) \in [1..n -> S] /\ IsInjective(SetToSeq(S))
  BY <1>3 DEF SetToSeq
<1>5. SetToSeq(S) \in Seq(S)
  BY <1>1, <1>4, SeqDef
<1> HIDE DEF n
<1>6. IsFiniteSet(1..n) /\ Cardinality(1..n) = n
  BY <1>1, FS_Interval
<1> DEFINE t == SetToSeq(S)
<1>7. t \in Injection(1..n, S)
  BY <1>4 DEF Injection
<1> HIDE DEF t
<1>8. t \in Surjection(1..n, S)
  BY <1>6, <1>7, FS_Injection DEF n
<1>9. Range(SetToSeq(S)) = S
  BY <1>4, <1>8 DEF Surjection, Range, t
<1> QED BY <1>5, <1>9

LEMMA SingletonSet ==
  ASSUME NEW S, IsFiniteSet(S)
  PROVE  Cardinality(S) = 1 <=> \E x : S = {x}
BY FS_Singleton

-----------------------------------------------------------------------------
(***************************************************************************)
(* The pending journals.                                                   *)
(***************************************************************************)
LEMMA SequencesAreFunctions ==
  ASSUME TypeOK
  PROVE  /\ DOMAIN journal = 1..Len(admitted) /\ DOMAIN admitted = 1..Len(admitted)
         /\ DOMAIN command = 1..Len(admitted) /\ Len(admitted) \in Nat
         /\ \A a \in 1..Len(admitted) : /\ admitted[a] \in Admissions
                                        /\ journal[a] \in Journals
                                        /\ command[a] \in Outcomes
         /\ journal \in [1..Len(admitted) -> Journals]
BY LenProperties, ElementOfSeq DEF TypeOK

LEMMA PendingIsFinite ==
  ASSUME TypeOK
  PROVE  IsFiniteSet(Pending) /\ Pending \subseteq 1..Len(admitted)
<1>1. IsFiniteSet(1..Len(admitted)) /\ Pending \subseteq 1..Len(admitted)
  BY SequencesAreFunctions, FS_Interval DEF Pending
<1> QED BY <1>1, FS_Subset

LEMMA GroupsAreFinite ==
  ASSUME TypeOK
  PROVE  IsFiniteSet(Groups(0))
<1> DEFINE f == [a \in Pending |-> Root(a)]
<1>1. Groups(0) = {Root(a) : a \in Pending}
  BY PendingIsFinite, SequencesAreFunctions DEF Groups
<1>2. f \in Surjection(Pending, Groups(0))
  BY <1>1 DEF Surjection
<1> HIDE DEF f
<1> QED BY <1>2, PendingIsFinite, FS_Surjection

LEMMA ClosesAreFinite ==
  ASSUME NEW S, IsFiniteSet(S)
  PROVE  IsFiniteSet({Close(a) : a \in S})
<1> DEFINE f == [a \in S |-> Close(a)]
<1>1. f \in Surjection(S, {Close(a) : a \in S})
  BY DEF Surjection
<1> HIDE DEF f
<1> QED BY <1>1, FS_Surjection

LEMMA RootsAreGrounded ==
  ASSUME TypeOK, Rooted, NEW a \in DOMAIN admitted
  PROVE  Root(a) \in DOMAIN admitted /\ admitted[Root(a)].root = 0 /\ Root(a) # 0
BY SequencesAreFunctions DEF Rooted, Grounded, Root, Admissions

\* Something is permitted only when every pending journal has one root.
LEMMA PermittedMeansOneGroup ==
  ASSUME TypeOK, Rooted, Permitted # {}
  PROVE  /\ Permitted \subseteq Recoveries
         /\ Pending # {}
         /\ LET r == CHOOSE r \in Groups(0) : TRUE
            IN  /\ r \in DOMAIN admitted /\ admitted[r].root = 0 /\ r # 0
                /\ \A a \in Pending : Root(a) = r
                /\ Groups(0) = {r}
<1>1. Cardinality(Groups(0)) = 1
  BY DEF Permitted
<1>2. PICK r : Groups(0) = {r}
  BY <1>1, GroupsAreFinite, SingletonSet
<1>3. (CHOOSE x \in Groups(0) : TRUE) = r
  BY <1>2
<1>4. Groups(0) = {Root(a) : a \in Pending}
  BY PendingIsFinite, SequencesAreFunctions DEF Groups
<1>5. Pending # {} /\ \A a \in Pending : Root(a) = r
  BY <1>2, <1>4
<1>6. r \in DOMAIN admitted /\ admitted[r].root = 0 /\ r # 0
  BY <1>5, RootsAreGrounded, PendingIsFinite, SequencesAreFunctions
<1>7. Permitted \subseteq Recoveries
  BY DEF Permitted, Contract, Recoveries
<1> QED BY <1>2, <1>3, <1>5, <1>6, <1>7

LEMMA SnapshotsAreTyped ==
  ASSUME TypeOK, Rooted, NEW w \in Worktrees
  PROVE  Snapshot(w) \in Snapshots
<1>1. Permitted \in SUBSET Recoveries
  BY PermittedMeansOneGroup
<1>2. {<<a, journal[a].status>> : a \in Pending} \in SUBSET (Nat \X Statuses)
  BY PendingIsFinite, SequencesAreFunctions DEF Journals
<1>3. state[w] \in States /\ artifact[w] \in Nat
  BY DEF TypeOK
<1> QED BY <1>1, <1>2, <1>3 DEF Snapshot, Snapshots

LEMMA AdmissionsAreTyped ==
  ASSUME TypeOK, Rooted, NEW w \in Worktrees, NEW t \in Prescribable(w)
  PROVE  NewAdmission(t, w) \in Admissions /\ Grounded(NewAdmission(t, w))
<1>1. t \in Transitions \cup Recoveries /\ (t \in Recoveries => t \in Permitted)
  BY DEF Prescribable, Applicable
<1>2. t \in Recoveries => /\ (CHOOSE r \in Groups(0) : TRUE) \in DOMAIN admitted
                          /\ admitted[CHOOSE r \in Groups(0) : TRUE].root = 0
  BY <1>1, PermittedMeansOneGroup
<1> QED BY <1>1, <1>2, SnapshotsAreTyped, SequencesAreFunctions
        DEF NewAdmission, Admissions, Grounded

-----------------------------------------------------------------------------
(***************************************************************************)
(* Prepared mutations.                                                     *)
(***************************************************************************)
LEMMA RangeOfConcatenation ==
  ASSUME NEW S, NEW s \in Seq(S), NEW t \in Seq(S)
  PROVE  s \o t \in Seq(S) /\ Range(s \o t) = Range(s) \cup Range(t)
<1>1. /\ s \o t \in Seq(S) /\ Len(s \o t) = Len(s) + Len(t)
      /\ \A i \in 1..Len(s) + Len(t) :
           (s \o t)[i] = IF i <= Len(s) THEN s[i] ELSE t[i - Len(s)]
      /\ Len(s) \in Nat /\ Len(t) \in Nat
      /\ DOMAIN s = 1..Len(s) /\ DOMAIN t = 1..Len(t)
      /\ DOMAIN (s \o t) = 1..Len(s \o t)
  BY ConcatProperties, LenProperties
<1>2. Range(s \o t) \subseteq Range(s) \cup Range(t)
  <2> SUFFICES ASSUME NEW i \in 1..(Len(s) + Len(t))
               PROVE  (s \o t)[i] \in Range(s) \cup Range(t)
    BY <1>1 DEF Range
  <2>1. i <= Len(s) => i \in DOMAIN s
    BY <1>1
  <2>2. ~(i <= Len(s)) => i - Len(s) \in DOMAIN t
    BY <1>1
  <2> QED BY <1>1, <2>1, <2>2 DEF Range
<1>3. Range(s) \subseteq Range(s \o t)
  <2> SUFFICES ASSUME NEW i \in 1..Len(s)
               PROVE  s[i] \in Range(s \o t)
    BY <1>1 DEF Range
  <2>1. i \in 1..(Len(s) + Len(t)) /\ i <= Len(s)
    BY <1>1
  <2> QED BY <1>1, <2>1 DEF Range
<1>4. Range(t) \subseteq Range(s \o t)
  <2> SUFFICES ASSUME NEW i \in 1..Len(t)
               PROVE  t[i] \in Range(s \o t)
    BY <1>1 DEF Range
  <2>1. /\ Len(s) + i \in 1..(Len(s) + Len(t))
        /\ ~(Len(s) + i <= Len(s)) /\ Len(s) + i - Len(s) = i
    BY <1>1
  <2> QED BY <1>1, <2>1 DEF Range
<1> QED BY <1>1, <1>2, <1>3, <1>4

LEMMA SingleSequence ==
  ASSUME NEW S, NEW e \in S
  PROVE  <<e>> \in Seq(S) /\ Range(<<e>>) = {e}
BY DEF Range

LEMMA OrderedMutations ==
  ASSUME NEW artifacts \in Seq(Mutations), NEW written \in Mutations,
         NEW closed, IsFiniteSet(closed), \A a \in closed : Close(a) \in Mutations
  PROVE  LET o == Ordered(artifacts, written, closed)
         IN  /\ o \in Seq(Mutations)
             /\ Range(o) = Range(artifacts) \cup {written} \cup {Close(a) : a \in closed}
<1> DEFINE closes == SetToSeq({Close(a) : a \in closed})
<1>1. closes \in Seq(Mutations) /\ Range(closes) = {Close(a) : a \in closed}
  <2>1. closes \in Seq({Close(a) : a \in closed}) /\ Range(closes) = {Close(a) : a \in closed}
    BY ClosesAreFinite, EnumeratedSet
  <2>2. {Close(a) : a \in closed} \subseteq Mutations
    OBVIOUS
  <2> QED BY <2>1, <2>2, SeqMonotonic
<1>2. <<written>> \in Seq(Mutations) /\ Range(<<written>>) = {written}
  BY SingleSequence
<1> DEFINE tail == IF ClosesFirst THEN closes \o <<written>> ELSE <<written>> \o closes
<1>3. Ordered(artifacts, written, closed) = artifacts \o tail
  BY DEF Ordered
<1> HIDE DEF closes
<1>4. tail \in Seq(Mutations) /\ Range(tail) = {written} \cup {Close(a) : a \in closed}
  <2>1. /\ closes \o <<written>> \in Seq(Mutations)
        /\ Range(closes \o <<written>>) = Range(closes) \cup Range(<<written>>)
    BY <1>1, <1>2, RangeOfConcatenation
  <2>2. /\ <<written>> \o closes \in Seq(Mutations)
        /\ Range(<<written>> \o closes) = Range(<<written>>) \cup Range(closes)
    BY <1>1, <1>2, RangeOfConcatenation
  <2>3. CASE ClosesFirst
    <3>1. tail = closes \o <<written>>
      BY <2>3
    <3> HIDE DEF tail
    <3> QED BY <3>1, <2>1, <1>1, <1>2
  <2>4. CASE ~ClosesFirst
    <3>1. tail = <<written>> \o closes
      BY <2>4
    <3> HIDE DEF tail
    <3> QED BY <3>1, <2>2, <1>1, <1>2
  <2> QED BY <2>3, <2>4
<1> HIDE DEF tail
<1>5. /\ artifacts \o tail \in Seq(Mutations)
      /\ Range(artifacts \o tail) = Range(artifacts) \cup Range(tail)
  BY <1>4, RangeOfConcatenation
<1> QED BY <1>3, <1>4, <1>5

LEMMA ClosesAreTyped ==
  ASSUME NEW a \in Nat \ {0}
  PROVE  Close(a) \in Mutations
BY DEF Close, Mutations

LEMMA StatesAdvance ==
  ASSUME NEW s \in States
  PROVE  Advance(s) \in States /\ Advance(s).revision = s.revision + 1
BY DEF Advance, States

LEMMA NextStateIsTyped ==
  ASSUME TypeOK, NEW h \in Admissions, NEW a \in Nat, NEW seen \in {"open", "unavailable"},
         h.transition \notin {"recovery.resume", "recovery.rollback"}
  PROVE  /\ NextState(h, a, seen) \in States
         /\ NextState(h, a, seen).revision = state[h.worktree].revision + 1
<1> DEFINE s == Advance(state[h.worktree])
<1>1. s \in States /\ s.revision = state[h.worktree].revision + 1
  BY StatesAdvance DEF TypeOK, Admissions
<1> HIDE DEF s
<1>2. h.transition \in Local \/ h.transition \in External
        \/ h.transition = "publication.reconcile" \/ h.transition = "recovery.escalate"
  BY DEF Admissions, Transitions, Recoveries
<1>3. NextState(h, a, seen) \in {[s EXCEPT !.effect = a], [s EXCEPT !.publication = "published"],
                                 [s EXCEPT !.publication = seen], [s EXCEPT !.escalated = TRUE]}
  BY <1>2 DEF NextState, s
<1> QED BY <1>1, <1>3 DEF States

LEMMA RestoredMutation ==
  ASSUME TypeOK, NEW m \in Mutations, m.kind # "close", NEW resume \in BOOLEAN,
         NEW revision \in Nat \ {0}
  PROVE  LET value == IF resume THEN m.next ELSE m.prior
             r == Restored(m, resume, revision)
         IN  /\ m.kind = "state" =>
                  /\ r = WriteState(m.at, [value EXCEPT !.revision = revision])
                  /\ m.at \in Worktrees /\ value \in States
             /\ m.kind # "state" =>
                  /\ r = WriteArtifact(m.at, value)
                  /\ m.at \in Worktrees /\ value \in Nat
             /\ r \in Mutations
<1> DEFINE value == IF resume THEN m.next ELSE m.prior
<1>1. CASE m.kind = "state"
  <2>1. m.at \in Worktrees /\ value \in States /\ state[m.at] \in States
    BY <1>1 DEF Mutations, TypeOK
  <2>2. Restored(m, resume, revision) = WriteState(m.at, [value EXCEPT !.revision = revision])
    BY <1>1 DEF Restored
  <2> HIDE DEF value
  <2>3. [value EXCEPT !.revision = revision] \in States
    BY <2>1 DEF States
  <2>4. WriteState(m.at, [value EXCEPT !.revision = revision]) \in Mutations
    <3> DEFINE v == [value EXCEPT !.revision = revision]
    <3>1. v \in States
      BY <2>3
    <3> HIDE DEF v
    <3>2. WriteState(m.at, v) \in Mutations
      BY <2>1, <3>1 DEF WriteState, Mutations
    <3> QED BY <3>2 DEF v
  <2> QED BY <1>1, <2>1, <2>2, <2>4 DEF value
<1>2. CASE m.kind # "state"
  <2>1. m.at \in Worktrees /\ value \in Nat /\ artifact[m.at] \in Nat
    BY <1>2 DEF Mutations, TypeOK
  <2>2. Restored(m, resume, revision) = WriteArtifact(m.at, value)
    BY <1>2 DEF Restored
  <2> HIDE DEF value
  <2>3. WriteArtifact(m.at, value) \in Mutations
    BY <2>1 DEF WriteArtifact, Mutations
  <2> QED BY <1>2, <2>1, <2>2, <2>3 DEF value
<1> QED BY <1>1, <1>2

IsReplay(h) == h.transition \in {"recovery.resume", "recovery.rollback"}

\* What a replay of root's mutations consists of.
ReplayOf(h) ==
  LET staged == journal[h.root].mutations
      resume == h.transition = "recovery.resume"
      revision == h.source.state.revision + 1
  IN  {Close(h.root)} \cup
        IF staged = <<>>
          THEN {WriteState(h.worktree, Advance(state[h.worktree]))}
          ELSE {Restored(m, resume, revision) : m \in Range(staged)}

\* What any other transition consists of.
WritesOf(h, a, seen) ==
  (IF h.transition \in Local THEN {WriteArtifact(h.worktree, a)} ELSE {})
    \cup {WriteState(h.worktree, NextState(h, a, seen))}
    \cup {Close(x) : x \in IF h.transition \in Recoveries THEN Pending ELSE {}}

LEMMA PreparedWrites ==
  ASSUME TypeOK, NEW h \in Admissions, ~IsReplay(h),
         NEW a \in Nat, NEW seen \in {"open", "unavailable"}
  PROVE  /\ Prepare(h, a, seen) \in Seq(Mutations)
         /\ Range(Prepare(h, a, seen)) = WritesOf(h, a, seen)
<1> DEFINE artifacts == IF h.transition \in Local THEN <<WriteArtifact(h.worktree, a)>> ELSE <<>>
           written == WriteState(h.worktree, NextState(h, a, seen))
           closed == IF h.transition \in Recoveries THEN Pending ELSE {}
<1>1. Prepare(h, a, seen) = Ordered(artifacts, written, closed)
  BY DEF Prepare, IsReplay
<1>2. written \in Mutations
  <2> DEFINE v == NextState(h, a, seen)
  <2>1. v \in States /\ h.worktree \in Worktrees /\ state[h.worktree] \in States
    BY NextStateIsTyped DEF IsReplay, TypeOK, Admissions
  <2> HIDE DEF v
  <2>2. WriteState(h.worktree, v) \in Mutations
    BY <2>1 DEF WriteState, Mutations
  <2> QED BY <2>2 DEF v
<1>3. /\ artifacts \in Seq(Mutations)
      /\ Range(artifacts) = IF h.transition \in Local THEN {WriteArtifact(h.worktree, a)} ELSE {}
  <2>1. WriteArtifact(h.worktree, a) \in Mutations
    BY DEF WriteArtifact, Mutations, TypeOK, Admissions
  <2>2. <<>> \in Seq(Mutations) /\ Range(<<>>) = {}
    BY DEF Range
  <2> QED BY <2>1, <2>2, SingleSequence
<1>4. IsFiniteSet(closed) /\ \A x \in closed : Close(x) \in Mutations
  BY PendingIsFinite, ClosesAreTyped, FS_EmptySet, SequencesAreFunctions
<1> HIDE DEF artifacts, written, closed
<1>5. /\ Ordered(artifacts, written, closed) \in Seq(Mutations)
      /\ Range(Ordered(artifacts, written, closed))
           = Range(artifacts) \cup {written} \cup {Close(x) : x \in closed}
  BY <1>2, <1>3, <1>4, OrderedMutations
<1> QED BY <1>1, <1>3, <1>5 DEF WritesOf, written, closed

LEMMA PreparedReplay ==
  ASSUME TypeOK, Plain, NEW h \in Admissions, Grounded(h), IsReplay(h),
         NEW a \in Nat, NEW seen \in {"open", "unavailable"}
  PROVE  /\ Prepare(h, a, seen) \in Seq(Mutations)
         /\ Range(Prepare(h, a, seen)) = ReplayOf(h)
         /\ \A m \in Range(journal[h.root].mutations) : m \in Mutations /\ m.kind # "close"
<1> DEFINE staged == journal[h.root].mutations
           n == Len(staged)
           resume == h.transition = "recovery.resume"
           revision == h.source.state.revision + 1
           again(m) == Restored(m, resume, revision)
<1>1. /\ staged \in Seq(Mutations) /\ n \in Nat /\ DOMAIN staged = 1..n
      /\ \A m \in Range(staged) : m \in Mutations /\ m.kind # "close"
      /\ revision \in Nat \ {0} /\ h.root \in Nat \ {0}
      /\ h.worktree \in Worktrees /\ state[h.worktree] \in States
  <2>1. h.root \in 1..Len(admitted) /\ admitted[h.root].root = 0
    BY SequencesAreFunctions DEF Grounded, IsReplay, Recoveries
  <2>2. staged \in Seq(Mutations)
    BY <2>1, SequencesAreFunctions DEF Journals
  <2>3. \A m \in Range(staged) : m \in Mutations
    BY <2>2, ElementOfSeq, LenProperties DEF Range
  <2>4. \A m \in Range(staged) : m.kind # "close"
    BY <2>1, SequencesAreFunctions DEF Plain
  <2>5. revision \in Nat \ {0} /\ h.worktree \in Worktrees /\ state[h.worktree] \in States
    BY DEF Admissions, Snapshots, States, TypeOK
  <2> QED BY <2>1, <2>2, <2>3, <2>4, <2>5, LenProperties, SequencesAreFunctions
<1>2. Prepare(h, a, seen) = Replayed(h, resume)
  BY DEF Prepare, IsReplay
<1>3. IsFiniteSet({h.root}) /\ \A x \in {h.root} : Close(x) \in Mutations
  BY <1>1, FS_Singleton, ClosesAreTyped
<1>4. CASE staged = <<>>
  <2> DEFINE written == WriteState(h.worktree, Advance(state[h.worktree]))
  <2>1. Replayed(h, resume) = Ordered(<<>>, written, {h.root})
    BY <1>4 DEF Replayed
  <2>2. written \in Mutations
    <3> DEFINE v == Advance(state[h.worktree])
    <3>1. v \in States
      BY <1>1, StatesAdvance
    <3> HIDE DEF v
    <3>2. WriteState(h.worktree, v) \in Mutations
      BY <1>1, <3>1 DEF WriteState, Mutations
    <3> QED BY <3>2 DEF v
  <2>3. <<>> \in Seq(Mutations) /\ Range(<<>>) = {}
    BY DEF Range
  <2> HIDE DEF written
  <2>4. /\ Ordered(<<>>, written, {h.root}) \in Seq(Mutations)
        /\ Range(Ordered(<<>>, written, {h.root}))
             = Range(<<>>) \cup {written} \cup {Close(x) : x \in {h.root}}
    BY <1>3, <2>2, <2>3, OrderedMutations
  <2>5. ReplayOf(h) = {Close(h.root)} \cup {written}
    BY <1>4 DEF ReplayOf, written
  <2>6. {Close(x) : x \in {h.root}} = {Close(h.root)}
    OBVIOUS
  <2>7. Prepare(h, a, seen) = Ordered(<<>>, written, {h.root})
    BY <1>2, <2>1
  <2> HIDE DEF staged
  <2>8. Range(Prepare(h, a, seen)) = ReplayOf(h) /\ Prepare(h, a, seen) \in Seq(Mutations)
    BY <2>3, <2>4, <2>5, <2>6, <2>7
  <2> QED BY <1>1, <2>8 DEF staged
<1>5. CASE staged # <<>>
  <2> DEFINE first == [i \in 1..(n - 1) |-> again(staged[i])]
             written == again(staged[n])
  <2>1. Replayed(h, resume) = Ordered(first, written, {h.root})
    BY <1>5 DEF Replayed
  <2>2. n \in 1..n
    BY <1>1, <1>5, EmptySeq
  <2>3. \A m \in Range(staged) : again(m) \in Mutations
    <3> SUFFICES ASSUME NEW m \in Range(staged)
                 PROVE  again(m) \in Mutations
      OBVIOUS
    <3> HIDE DEF revision
    <3> QED BY <1>1, RestoredMutation
  <2>4. written \in Mutations /\ \A i \in 1..(n - 1) : again(staged[i]) \in Mutations
    BY <1>1, <2>2, <2>3 DEF Range
  <2>5. first \in Seq(Mutations)
    <3>1. first \in [1..(n - 1) -> Mutations] /\ n - 1 \in Nat
      BY <1>1, <2>2, <2>4
    <3> HIDE DEF first, n
    <3> QED BY <3>1, SeqDef
  <2>6. Range(first) \cup {written} = {again(m) : m \in Range(staged)}
    <3>1. DOMAIN first = 1..(n - 1) /\ \A i \in 1..(n - 1) : first[i] = again(staged[i])
      OBVIOUS
    <3>2. \A i \in 1..n : i \in 1..(n - 1) \/ i = n
      BY <1>1
    <3> HIDE DEF first, again, staged, n
    <3>3. Range(first) = {again(staged[i]) : i \in 1..(n - 1)}
      BY <3>1 DEF Range
    <3>4. Range(staged) = {staged[i] : i \in 1..n}
      BY <1>1 DEF Range
    <3>5. 1..(n - 1) \subseteq 1..n
      BY <1>1
    <3> QED BY <2>2, <3>2, <3>3, <3>4, <3>5
  <2> HIDE DEF first, written
  <2>7. /\ Ordered(first, written, {h.root}) \in Seq(Mutations)
        /\ Range(Ordered(first, written, {h.root}))
             = Range(first) \cup {written} \cup {Close(x) : x \in {h.root}}
    BY <1>3, <2>4, <2>5, OrderedMutations
  <2>8. ReplayOf(h) = {Close(h.root)} \cup {again(m) : m \in Range(staged)}
    BY <1>5 DEF ReplayOf
  <2>9. {Close(x) : x \in {h.root}} = {Close(h.root)}
    OBVIOUS
  <2>10. Prepare(h, a, seen) = Ordered(first, written, {h.root})
    BY <1>2, <2>1
  <2> HIDE DEF staged, again
  <2>11. Range(Prepare(h, a, seen)) = ReplayOf(h) /\ Prepare(h, a, seen) \in Seq(Mutations)
    BY <2>6, <2>7, <2>8, <2>9, <2>10
  <2> QED BY <1>1, <2>11 DEF staged
<1> QED BY <1>4, <1>5

-----------------------------------------------------------------------------
(***************************************************************************)
(* Kinds of steps.                                                         *)
(***************************************************************************)
\* Process p goes on with the transaction it began.
Continues(p) ==
  /\ Begun(p) /\ pc' = [pc EXCEPT ![p] = pc'[p]]
  /\ pc'[p] \in Places \ {"idle", "admitted", "locked"}
  /\ UNCHANGED <<admitted, lock, holds, own>>

\* Apply returns, whether or not it began.
Ends(p) == pc[p] # "idle" /\ Return(p) /\ UNCHANGED <<files, admitted, command>>

\* The journals stay, except for what a step writes in one of them.
JournalsKept ==
  /\ journal' \in Seq(Journals) /\ Len(journal') = Len(journal)
  /\ DOMAIN journal' = DOMAIN journal

LEMMA JournalUpdate ==
  ASSUME journal \in Seq(Journals), NEW i, NEW e, i \in DOMAIN journal => e \in Journals,
         journal' = [journal EXCEPT ![i] = e]
  PROVE  /\ JournalsKept
         /\ \A a \in DOMAIN journal : journal'[a] = IF a = i THEN e ELSE journal[a]
<1>1. /\ [journal EXCEPT ![i] = e] \in Seq(Journals)
      /\ Len([journal EXCEPT ![i] = e]) = Len(journal)
      /\ DOMAIN [journal EXCEPT ![i] = e] = DOMAIN journal
      /\ \A a \in DOMAIN journal :
           [journal EXCEPT ![i] = e][a] = IF a = i THEN e ELSE journal[a]
  BY ReplacedElement
<1> QED BY <1>1 DEF JournalsKept

LEMMA StatusUpdate ==
  ASSUME TypeOK, NEW i, NEW v \in Statuses, journal' = [journal EXCEPT ![i].status = v]
  PROVE  /\ JournalsKept
         /\ \A a \in DOMAIN journal :
              /\ journal'[a].pending = journal[a].pending
              /\ journal'[a].status = IF a = i THEN v ELSE journal[a].status
              /\ journal'[a].mutations = journal[a].mutations
              /\ journal'[a].aborted = journal[a].aborted
<1> DEFINE e == [journal[i] EXCEPT !.status = v]
<1>1. journal \in Seq(Journals) /\ (\A a \in DOMAIN journal : journal[a] \in Journals)
  BY SequencesAreFunctions DEF TypeOK
<1>2. i \in DOMAIN journal =>
        /\ e \in Journals /\ e.pending = journal[i].pending /\ e.status = v
        /\ e.mutations = journal[i].mutations /\ e.aborted = journal[i].aborted
  BY <1>1 DEF TypeOK, Journals, Statuses
<1>3. journal' = [journal EXCEPT ![i] = e]
  OBVIOUS
<1> HIDE DEF e
<1>4. /\ JournalsKept
      /\ \A a \in DOMAIN journal : journal'[a] = IF a = i THEN e ELSE journal[a]
  BY <1>1, <1>2, <1>3, JournalUpdate
<1> QED BY <1>2, <1>4

LEMMA PendingUpdate ==
  ASSUME TypeOK, NEW i, NEW v \in BOOLEAN, journal' = [journal EXCEPT ![i].pending = v]
  PROVE  /\ JournalsKept
         /\ \A a \in DOMAIN journal :
              /\ journal'[a].pending = IF a = i THEN v ELSE journal[a].pending
              /\ journal'[a].status = journal[a].status
              /\ journal'[a].mutations = journal[a].mutations
              /\ journal'[a].aborted = journal[a].aborted
<1> DEFINE e == [journal[i] EXCEPT !.pending = v]
<1>1. journal \in Seq(Journals) /\ (\A a \in DOMAIN journal : journal[a] \in Journals)
  BY SequencesAreFunctions DEF TypeOK
<1>2. i \in DOMAIN journal =>
        /\ e \in Journals /\ e.pending = v /\ e.status = journal[i].status
        /\ e.mutations = journal[i].mutations /\ e.aborted = journal[i].aborted
  BY <1>1 DEF TypeOK, Journals, Statuses
<1>3. journal' = [journal EXCEPT ![i] = e]
  OBVIOUS
<1> HIDE DEF e
<1>4. /\ JournalsKept
      /\ \A a \in DOMAIN journal : journal'[a] = IF a = i THEN e ELSE journal[a]
  BY <1>1, <1>2, <1>3, JournalUpdate
<1> QED BY <1>2, <1>4

LEMMA AbortedUpdate ==
  ASSUME TypeOK, NEW i, journal' = [journal EXCEPT ![i].aborted = TRUE]
  PROVE  /\ JournalsKept
         /\ \A a \in DOMAIN journal :
              /\ journal'[a].pending = journal[a].pending
              /\ journal'[a].status = journal[a].status
              /\ journal'[a].mutations = journal[a].mutations
              /\ journal'[a].aborted = IF a = i THEN TRUE ELSE journal[a].aborted
<1> DEFINE e == [journal[i] EXCEPT !.aborted = TRUE]
<1>1. journal \in Seq(Journals) /\ (\A a \in DOMAIN journal : journal[a] \in Journals)
  BY SequencesAreFunctions DEF TypeOK
<1>2. i \in DOMAIN journal =>
        /\ e \in Journals /\ e.pending = journal[i].pending /\ e.status = journal[i].status
        /\ e.mutations = journal[i].mutations /\ e.aborted = TRUE
  BY <1>1 DEF TypeOK, Journals, Statuses
<1>3. journal' = [journal EXCEPT ![i] = e]
  OBVIOUS
<1> HIDE DEF e
<1>4. /\ JournalsKept
      /\ \A a \in DOMAIN journal : journal'[a] = IF a = i THEN e ELSE journal[a]
  BY <1>1, <1>2, <1>3, JournalUpdate
<1> QED BY <1>2, <1>4

LEMMA StageUpdate ==
  ASSUME TypeOK, NEW p \in Processes, Stage(p)
  PROVE  /\ JournalsKept
         /\ \A a \in DOMAIN journal :
              /\ journal'[a].pending = journal[a].pending
              /\ journal'[a].status = IF a = own[p] THEN "staged" ELSE journal[a].status
              /\ journal'[a].mutations = IF a = own[p] THEN todo[p] ELSE journal[a].mutations
              /\ journal'[a].aborted = journal[a].aborted
<1> DEFINE e == [journal[own[p]] EXCEPT !.status = "staged", !.mutations = todo[p]]
<1>1. journal \in Seq(Journals) /\ (\A a \in DOMAIN journal : journal[a] \in Journals)
  BY SequencesAreFunctions DEF TypeOK
<1>2. own[p] \in DOMAIN journal =>
        /\ e \in Journals /\ e.pending = journal[own[p]].pending /\ e.status = "staged"
        /\ e.mutations = todo[p] /\ e.aborted = journal[own[p]].aborted
  BY <1>1 DEF TypeOK, Journals, Statuses
<1>3. journal' = [journal EXCEPT ![own[p]] = e]
  BY DEF Stage
<1> HIDE DEF e
<1>4. /\ JournalsKept
      /\ \A a \in DOMAIN journal : journal'[a] = IF a = own[p] THEN e ELSE journal[a]
  BY <1>1, <1>2, <1>3, JournalUpdate
<1> QED BY <1>2, <1>4

LEMMA PutIsTyped ==
  ASSUME TypeOK, NEW m \in Mutations, NEW value \in {m.prior, m.next}, Put(m, value)
  PROVE  /\ state' \in [Worktrees -> States] /\ artifact' \in [Worktrees -> Nat]
         /\ JournalsKept
         /\ \A a \in DOMAIN journal :
              /\ journal'[a].pending = IF m.kind = "close" /\ a = m.at THEN value
                                                                      ELSE journal[a].pending
              /\ journal'[a].status = journal[a].status
              /\ journal'[a].mutations = journal[a].mutations
              /\ journal'[a].aborted = journal[a].aborted
<1>1. CASE m.kind = "close"
  <2>1. value \in BOOLEAN /\ state' = state /\ artifact' = artifact
        /\ journal' = [journal EXCEPT ![m.at].pending = value]
    BY <1>1 DEF Mutations, Put
  <2>2. /\ JournalsKept
        /\ \A a \in DOMAIN journal :
              /\ journal'[a].pending = IF a = m.at THEN value ELSE journal[a].pending
              /\ journal'[a].status = journal[a].status
              /\ journal'[a].mutations = journal[a].mutations
              /\ journal'[a].aborted = journal[a].aborted
    BY <2>1, PendingUpdate
  <2> QED BY <1>1, <2>1, <2>2 DEF TypeOK
<1>2. CASE m.kind # "close"
  <2>1. journal' = journal /\ JournalsKept
    BY <1>2 DEF Put, JournalsKept, TypeOK
  <2>2. /\ m.kind = "state" => m.at \in Worktrees /\ value \in States
        /\ m.kind = "artifact" => m.at \in Worktrees /\ value \in Nat
    BY DEF Mutations
  <2>3. state' \in [Worktrees -> States] /\ artifact' \in [Worktrees -> Nat]
    BY <2>2 DEF Put, TypeOK
  <2> QED BY <1>2, <2>1, <2>3
<1> QED BY <1>1, <1>2

LEMMA OutcomeUpdate ==
  ASSUME TypeOK, NEW i, NEW v \in Outcomes, command' = [command EXCEPT ![i] = v]
  PROVE  /\ command' \in Seq(Outcomes) /\ Len(command') = Len(command)
         /\ \A a \in DOMAIN command : command'[a] = IF a = i THEN v ELSE command[a]
<1>1. command \in Seq(Outcomes)
  BY DEF TypeOK
<1> QED BY <1>1, ReplacedElement

LEMMA HeadAndTail ==
  ASSUME NEW S, NEW s \in Seq(S), s # <<>>
  PROVE  /\ Head(s) \in S /\ Tail(s) \in Seq(S) /\ Head(s) \in Range(s)
         /\ Range(s) = Range(Tail(s)) \cup {Head(s)}
<1>1. /\ Head(s) \in S /\ Tail(s) \in Seq(S) /\ Len(Tail(s)) = Len(s) - 1
      /\ \A i \in 1..Len(Tail(s)) : Tail(s)[i] = s[i + 1]
      /\ Len(s) \in Nat \ {0} /\ DOMAIN s = 1..Len(s)
      /\ DOMAIN Tail(s) = 1..Len(Tail(s)) /\ Head(s) = s[1]
  BY HeadTailProperties, LenProperties, EmptySeq
<1>2. Head(s) \in Range(s)
  BY <1>1 DEF Range
<1>3. Range(Tail(s)) \subseteq Range(s)
  <2> SUFFICES ASSUME NEW i \in 1..Len(Tail(s)) PROVE Tail(s)[i] \in Range(s)
    BY <1>1 DEF Range
  <2>1. i + 1 \in DOMAIN s /\ Tail(s)[i] = s[i + 1]
    BY <1>1
  <2> QED BY <2>1 DEF Range
<1>4. Range(s) \subseteq Range(Tail(s)) \cup {Head(s)}
  <2> SUFFICES ASSUME NEW i \in 1..Len(s), i # 1 PROVE s[i] \in Range(Tail(s))
    BY <1>1 DEF Range
  <2>1. i - 1 \in 1..Len(Tail(s)) /\ i = (i - 1) + 1
    BY <1>1
  <2>2. Tail(s)[i - 1] = s[i]
    BY <1>1, <2>1
  <2> QED BY <1>1, <2>1, <2>2 DEF Range
<1> QED BY <1>1, <1>2, <1>3, <1>4

\* A step that writes no file and closes no journal.
Marks(p) ==
  /\ Continues(p)
  /\ UNCHANGED <<files, receipts, todo, applied>>
  /\ JournalsKept
  /\ \A a \in DOMAIN journal :
       /\ journal'[a].pending = journal[a].pending
       /\ \/ journal'[a].mutations = journal[a].mutations
          \/ a = own[p] /\ journal'[a].mutations = todo[p]
  /\ command' \in Seq(Outcomes) /\ Len(command') = Len(command)
  /\ \A a \in DOMAIN command : a # own[p] => command'[a] = command[a]
  /\ faults' \in 0..MaxFaults

Marking(p) ==
  \/ Stage(p) \/ StageFails(p) \/ CommandPasses(p) \/ CommandFails(p)
  \/ CommandUncertain(p) \/ CommandRefused(p) \/ InstallFails(p)
  \/ Installed(p) \/ MarkFails(p) \/ Observe(p) \/ ObserveFails(p)
  \/ Finalize(p) \/ CommitFails(p) \/ Undone(p) \/ Archive(p)
  \/ UndoRest(p) /\ applied[p] = <<>>

LEMMA FaultIsTyped ==
  ASSUME TypeOK, Fault
  PROVE  faults' \in 0..MaxFaults
BY BoundsAreTyped DEF TypeOK, Fault

LEMMA GoingOn ==
  ASSUME TypeOK, NEW p \in Processes, NEW place \in Places \ {"idle", "admitted", "locked"},
         Begun(p), Goto(p, place), UNCHANGED <<admitted, lock, holds, own>>
  PROVE  Continues(p) /\ pc'[p] = place
BY DEF TypeOK, Continues, Goto

LEMMA MarkingMarks ==
  ASSUME TypeOK, NEW p \in Processes, Marking(p)
  PROVE  Marks(p)
<1> USE DEF files, ledger, local
<1> DEFINE Still == /\ JournalsKept
                    /\ \A a \in DOMAIN journal :
                         /\ journal'[a].pending = journal[a].pending
                         /\ journal'[a].mutations = journal[a].mutations
           Unsaid == /\ command' \in Seq(Outcomes) /\ Len(command') = Len(command)
                     /\ \A a \in DOMAIN command : a # own[p] => command'[a] = command[a]
<1>1. journal' = journal => Still
  BY DEF JournalsKept, TypeOK
<1>2. \A v \in Statuses : Status(p, v) => Still
  BY StatusUpdate DEF Status
<1>3. command' = command => Unsaid
  BY DEF TypeOK
<1>4. \A v \in Outcomes : command' = [command EXCEPT ![own[p]] = v] => Unsaid
  BY OutcomeUpdate
<1>5. faults' = faults => faults' \in 0..MaxFaults
  BY DEF TypeOK
<1> HIDE DEF Still, Unsaid
<1>6. CASE Stage(p)
  <2>1. Unsaid /\ faults' \in 0..MaxFaults
    BY <1>3, <1>5, <1>6 DEF Stage
  <2>2. Continues(p)
    BY <1>6, GoingOn DEF Stage, Begun, Places
  <2>3. /\ JournalsKept
        /\ \A a \in DOMAIN journal :
             /\ journal'[a].pending = journal[a].pending
             /\ \/ journal'[a].mutations = journal[a].mutations
                \/ a = own[p] /\ journal'[a].mutations = todo[p]
    BY <1>6, StageUpdate
  <2>4. UNCHANGED <<files, receipts, todo, applied>>
    BY <1>6 DEF Stage
  <2> QED BY <2>1, <2>2, <2>3, <2>4 DEF Marks, Unsaid
<1>7. CASE Archive(p)
  <2>1. Unsaid /\ faults' \in 0..MaxFaults
    BY <1>3, <1>5, <1>7 DEF Archive
  <2>2. Continues(p)
    BY <1>7, GoingOn DEF Archive, Begun, Places
  <2>3. Still
    BY <1>7, AbortedUpdate DEF Archive, Still
  <2> QED BY <1>7, <2>1, <2>2, <2>3 DEF Archive, Marks, Unsaid, Still
<1>8. CASE CommandPasses(p) \/ CommandFails(p) \/ CommandUncertain(p) \/ CommandRefused(p)
  <2>1. PICK v \in Outcomes, place \in {"writing", "undoing", "written", "unsettled"} :
          Reported(p, v, place)
    BY <1>8 DEF CommandPasses, CommandFails, CommandUncertain, CommandRefused, Outcomes
  <2>2. faults' \in 0..MaxFaults
    BY <1>5, <1>8, FaultIsTyped DEF CommandPasses, CommandFails, CommandUncertain, CommandRefused
  <2>3. Unsaid /\ Still
    BY <1>1, <1>4, <2>1 DEF Reported
  <2>4. Continues(p)
    BY <2>1, GoingOn DEF Reported, Begun, Places
  <2> QED BY <2>1, <2>2, <2>3, <2>4 DEF Reported, Marks, Unsaid, Still
<1>9. CASE Installed(p) \/ Finalize(p)
  <2>1. Still
    BY <1>2, <1>9 DEF Installed, Finalize, Statuses
  <2>2. Unsaid /\ faults' \in 0..MaxFaults
    BY <1>3, <1>5, <1>9 DEF Installed, Finalize
  <2>3. Continues(p)
    BY <1>9, GoingOn DEF Installed, Finalize, Begun, Places
  <2> QED BY <1>9, <2>1, <2>2, <2>3 DEF Installed, Finalize, Marks, Unsaid, Still
<1>10. CASE \/ StageFails(p) \/ InstallFails(p) \/ MarkFails(p) \/ Observe(p)
            \/ ObserveFails(p) \/ CommitFails(p) \/ Undone(p)
            \/ UndoRest(p) /\ applied[p] = <<>>
  <2>1. journal' = journal /\ command' = command /\ (faults' = faults \/ Fault)
        /\ UNCHANGED <<files, receipts, todo, applied, admitted, lock, holds, own>>
    BY <1>10 DEF StageFails, InstallFails, MarkFails, Observe, ObserveFails, CommitFails, Undone, UndoRest
  <2>2. Begun(p)
    BY <1>10 DEF StageFails, InstallFails, MarkFails, Observe, ObserveFails, CommitFails,
                 Undone, UndoRest, Begun
  <2>3. \E place \in Places \ {"idle", "admitted", "locked"} : Goto(p, place)
    <3>1. CASE StageFails(p) \/ InstallFails(p) \/ MarkFails(p) \/ CommitFails(p)
      BY <3>1 DEF StageFails, InstallFails, MarkFails, CommitFails, Places
    <3>2. CASE Observe(p)
      <4> DEFINE place == CASE TargetMatches(p) /\ AdvancedOnce(p)          -> "verified"
                            [] TargetMatches(p) /\ ~AdvancedOnce(p)         -> "unsettled"
                            [] ~TargetMatches(p) /\ command[own[p]] = "uncertain" -> "unsettled"
                            [] OTHER                                        -> "undoing"
      <4>1. place \in {"verified", "unsettled", "undoing"}
        OBVIOUS
      <4>2. Goto(p, place)
        BY <3>2 DEF Observe
      <4> HIDE DEF place
      <4> QED BY <4>1, <4>2 DEF Places
    <3>3. CASE ObserveFails(p)
      BY <3>3 DEF ObserveFails, Places
    <3>4. CASE Undone(p)
      BY <3>4 DEF Undone, Places
    <3>5. CASE UndoRest(p) /\ applied[p] = <<>>
      BY <3>5 DEF UndoRest, Places
    <3> QED BY <1>10, <3>1, <3>2, <3>3, <3>4, <3>5
  <2>4. Continues(p)
    BY <2>1, <2>2, <2>3, GoingOn
  <2>5. Still /\ Unsaid /\ faults' \in 0..MaxFaults
    BY <2>1, <1>1, <1>3, <1>5, FaultIsTyped
  <2> QED BY <2>1, <2>4, <2>5 DEF Marks, Still, Unsaid
<1> QED BY <1>6, <1>7, <1>8, <1>9, <1>10 DEF Marking

\* A step that installs a mutation or restores a prior.
Putting(p) ==
  \/ Install(p) \/ Undo(p)
  \/ UndoRest(p) /\ applied[p] # <<>>

\* What a putting step puts, and where.
Puts(p, m, value) ==
  /\ m \in Range(todo[p]) \cup Range(applied[p])
  /\ m \in Mutations /\ value \in {m.prior, m.next}
  /\ Put(m, value)
  /\ Continues(p)
  /\ UNCHANGED <<pc, receipts, command, faults>>
  /\ todo' \in [Processes -> Seq(Mutations)] /\ applied' \in [Processes -> Seq(Mutations)]
  /\ \A q \in Processes :
       /\ q # p => todo'[q] = todo[q] /\ applied'[q] = applied[q]
       /\ Range(todo'[q]) \subseteq Range(todo[q])
       /\ Range(applied'[q]) \subseteq Range(todo[q]) \cup Range(applied[q])

LEMMA InstallFacts ==
  ASSUME TypeOK, NEW p \in Processes, Install(p)
  PROVE  /\ pc[p] = "writing" /\ todo[p] # <<>>
         /\ Puts(p, Head(todo[p]), Head(todo[p]).next)
         /\ Range(todo[p]) = Range(todo'[p]) \cup {Head(todo[p])}
         /\ Range(applied'[p]) = Range(applied[p]) \cup {Head(todo[p])}
<1> DEFINE m == Head(todo[p])
<1>1. /\ pc[p] = "writing" /\ todo[p] # <<>> /\ Put(m, m.next)
      /\ todo' = [todo EXCEPT ![p] = Tail(@)]
      /\ applied' = [applied EXCEPT ![p] = <<m>> \o @]
      /\ UNCHANGED <<admitted, receipts, command, lock, pc, holds, own, faults>>
  BY DEF Install
<1>2. /\ todo \in [Processes -> Seq(Mutations)] /\ applied \in [Processes -> Seq(Mutations)]
      /\ pc \in [Processes -> Places]
  BY DEF TypeOK
<1>3. /\ m \in Mutations /\ m \in Range(todo[p]) /\ Tail(todo[p]) \in Seq(Mutations)
      /\ Range(todo[p]) = Range(Tail(todo[p])) \cup {m}
  BY <1>1, <1>2, HeadAndTail
<1> HIDE DEF m
<1>4. <<m>> \in Seq(Mutations) /\ Range(<<m>>) = {m}
  BY <1>3, SingleSequence
<1>5. /\ <<m>> \o applied[p] \in Seq(Mutations)
      /\ Range(<<m>> \o applied[p]) = {m} \cup Range(applied[p])
  <2> DEFINE one == <<m>>
  <2>1. applied[p] \in Seq(Mutations) /\ one \in Seq(Mutations) /\ Range(one) = {m}
    BY <1>2, <1>4
  <2> HIDE DEF one
  <2>2. /\ one \o applied[p] \in Seq(Mutations)
        /\ Range(one \o applied[p]) = Range(one) \cup Range(applied[p])
    BY <2>1, RangeOfConcatenation
  <2> QED BY <2>1, <2>2 DEF one
<1>6. /\ todo' \in [Processes -> Seq(Mutations)] /\ applied' \in [Processes -> Seq(Mutations)]
      /\ todo'[p] = Tail(todo[p]) /\ applied'[p] = <<m>> \o applied[p]
      /\ \A q \in Processes : q # p => todo'[q] = todo[q] /\ applied'[q] = applied[q]
  BY <1>1, <1>2, <1>3, <1>5
<1>7. Continues(p)
  BY <1>1, <1>2 DEF Continues, Begun, Places
<1>8. \A q \in Processes :
        /\ Range(todo'[q]) \subseteq Range(todo[q])
        /\ Range(applied'[q]) \subseteq Range(todo[q]) \cup Range(applied[q])
  BY <1>3, <1>5, <1>6
<1>9. Puts(p, m, m.next)
  BY <1>1, <1>3, <1>6, <1>7, <1>8 DEF Puts
<1> QED BY <1>1, <1>3, <1>5, <1>6, <1>9 DEF m

LEMMA UndoFacts ==
  ASSUME TypeOK, NEW p \in Processes, Undo(p) \/ (UndoRest(p) /\ applied[p] # <<>>)
  PROVE  /\ pc[p] \in {"undoing", "undoing-in-part"} /\ applied[p] # <<>>
         /\ Puts(p, Head(applied[p]), Head(applied[p]).prior)
         /\ todo' = todo
         /\ Range(applied[p]) = Range(applied'[p]) \cup {Head(applied[p])}
<1> DEFINE m == Head(applied[p])
<1>1. /\ pc[p] \in {"undoing", "undoing-in-part"} /\ applied[p] # <<>> /\ Put(m, m.prior)
      /\ applied' = [applied EXCEPT ![p] = Tail(@)]
      /\ UNCHANGED <<admitted, receipts, command, lock, pc, holds, own, todo, faults>>
  BY DEF Undo, UndoRest
<1>2. /\ todo \in [Processes -> Seq(Mutations)] /\ applied \in [Processes -> Seq(Mutations)]
      /\ pc \in [Processes -> Places]
  BY DEF TypeOK
<1>3. /\ m \in Mutations /\ m \in Range(applied[p]) /\ Tail(applied[p]) \in Seq(Mutations)
      /\ Range(applied[p]) = Range(Tail(applied[p])) \cup {m}
  BY <1>1, <1>2, HeadAndTail
<1> HIDE DEF m
<1>4. /\ applied' \in [Processes -> Seq(Mutations)] /\ applied'[p] = Tail(applied[p])
      /\ \A q \in Processes : q # p => applied'[q] = applied[q]
  BY <1>1, <1>2, <1>3
<1>5. Continues(p)
  BY <1>1, <1>2 DEF Continues, Begun, Places
<1>6. \A q \in Processes :
        /\ Range(todo'[q]) \subseteq Range(todo[q])
        /\ Range(applied'[q]) \subseteq Range(todo[q]) \cup Range(applied[q])
  BY <1>1, <1>3, <1>4
<1>7. Puts(p, m, m.prior)
  BY <1>1, <1>2, <1>3, <1>4, <1>5, <1>6 DEF Puts
<1> QED BY <1>1, <1>3, <1>4, <1>7 DEF m

LEMMA PuttingPuts ==
  ASSUME TypeOK, NEW p \in Processes, Putting(p)
  PROVE  \E m \in Mutations : \E value \in {m.prior, m.next} : Puts(p, m, value)
<1>1. CASE Install(p)
  BY <1>1, InstallFacts DEF Puts
<1>2. CASE ~Install(p)
  <2>1. Puts(p, Head(applied[p]), Head(applied[p]).prior)
    <3>1. Undo(p) \/ (UndoRest(p) /\ applied[p] # <<>>)
      BY <1>2 DEF Putting
    <3> QED BY <3>1, UndoFacts
  <2>2. Head(applied[p]) \in Mutations
    BY <2>1 DEF Puts
  <2> QED BY <2>1, <2>2
<1> QED BY <1>1, <1>2

-----------------------------------------------------------------------------
(***************************************************************************)
(* Type correctness.                                                       *)
(***************************************************************************)
\* A step that gives up what was admitted.
Refuses(p) ==
  /\ pc[p] = "locked" /\ Return(p)
  /\ UNCHANGED <<admitted, journal, command, files, receipts, faults>>

Ending(p) == Commit(p) \/ Abort(p) \/ RequireRecovery(p) \/ Stop(p) \/ Refuses(p)

\* A step that begins does so on what was admitted.
Begins(p) ==
  /\ Begin(p) /\ StartUnchecked(p)
  /\ IsCurrent(holds[p]) /\ WithinBound(holds[p].transition)

LEMMA StepKinds ==
  ASSUME NEW p \in Processes, Step(p) \/ Failure(p)
  PROVE  Marking(p) \/ Putting(p) \/ UndoFails(p) \/ Ending(p) \/ Begins(p)
<1>1. CASE Begin(p)
  BY <1>1 DEF Begin, Start, Ending, Begins, Refuses
<1>2. CASE UndoRest(p)
  BY <1>2 DEF Marking, Putting
<1> QED BY <1>1, <1>2 DEF Step, Failure, Marking, Putting, Ending

LEMMA EndingEnds ==
  ASSUME TypeOK, NEW p \in Processes, Ending(p)
  PROVE  /\ Ends(p)
         /\ JournalsKept
         /\ \A a \in DOMAIN journal :
              /\ journal'[a].mutations = journal[a].mutations
              /\ journal'[a].pending = (journal[a].pending /\ (a = own[p] => ~(Commit(p) \/ Abort(p))))
         /\ receipts' = IF Commit(p) THEN Append(receipts, Fact(p)) ELSE receipts
         /\ faults' \in 0..MaxFaults
         /\ Commit(p) \/ Abort(p) => Begun(p)
<1> USE DEF files, ledger, local
<1>1. pc[p] # "idle" /\ Return(p) /\ UNCHANGED <<files, admitted, command>>
  BY DEF Ending, Commit, Abort, RequireRecovery, Stop, Refuses
<1>2. CASE Commit(p) \/ Abort(p)
  <2>1. journal' = [journal EXCEPT ![own[p]].pending = FALSE] /\ faults' = faults /\ Begun(p)
    BY <1>2 DEF Commit, Abort, Begun
  <2>2. receipts' = IF Commit(p) THEN Append(receipts, Fact(p)) ELSE receipts
    BY <1>2 DEF Commit, Abort
  <2>3. /\ JournalsKept
        /\ \A a \in DOMAIN journal :
              /\ journal'[a].mutations = journal[a].mutations
              /\ journal'[a].pending = IF a = own[p] THEN FALSE ELSE journal[a].pending
    BY <2>1, PendingUpdate
  <2>4. \A a \in DOMAIN journal : journal[a].pending \in BOOLEAN
    BY SequencesAreFunctions DEF Journals
  <2>5. \A a \in DOMAIN journal :
          journal'[a].pending = (journal[a].pending /\ (a = own[p] => ~(Commit(p) \/ Abort(p))))
    BY <1>2, <2>3, <2>4
  <2> QED BY <1>1, <2>1, <2>2, <2>3, <2>5 DEF Ends, TypeOK
<1>3. CASE ~(Commit(p) \/ Abort(p))
  <2>1. /\ receipts' = receipts
        /\ journal' = journal \/ Status(p, "recovery-required")
        /\ faults' = faults \/ Fault
    BY <1>3 DEF Ending, RequireRecovery, Stop, Refuses
  <2>2. /\ JournalsKept
        /\ \A a \in DOMAIN journal :
              /\ journal'[a].mutations = journal[a].mutations
              /\ journal'[a].pending = journal[a].pending
    <3>1. CASE journal' = journal
      BY <3>1 DEF JournalsKept, TypeOK
    <3>2. CASE Status(p, "recovery-required")
      BY <3>2, StatusUpdate DEF Status, Statuses
    <3> QED BY <2>1, <3>1, <3>2
  <2>3. faults' \in 0..MaxFaults
    BY <2>1, FaultIsTyped DEF TypeOK
  <2>4. \A a \in DOMAIN journal : journal[a].pending \in BOOLEAN
    BY SequencesAreFunctions DEF Journals
  <2>5. \A a \in DOMAIN journal :
          journal'[a].pending = (journal[a].pending /\ (a = own[p] => ~(Commit(p) \/ Abort(p))))
    BY <1>3, <2>2, <2>4
  <2> QED BY <1>1, <1>3, <2>1, <2>2, <2>3, <2>5 DEF Ends
<1> QED BY <1>2, <1>3

LEMMA AppendedElement ==
  ASSUME NEW S, NEW s \in Seq(S), NEW e \in S
  PROVE  /\ Append(s, e) \in Seq(S) /\ Len(Append(s, e)) = Len(s) + 1
         /\ \A i \in 1..Len(s) : Append(s, e)[i] = s[i]
         /\ Append(s, e)[Len(s) + 1] = e
BY AppendProperties

\* What a beginning transaction adds to the ledger.
LEMMA BeginsFacts ==
  ASSUME Typed, NEW p \in Processes, Begins(p)
  PROVE  LET n == Len(admitted) + 1 IN
         /\ holds[p] \in Admissions /\ Grounded(holds[p])
         /\ admitted' \in Seq(Admissions) /\ Len(admitted') = n
         /\ admitted'[n] = holds[p]
         /\ journal' \in Seq(Journals) /\ Len(journal') = n
         /\ journal'[n] = [pending |-> TRUE, status |-> "begun",
                           mutations |-> <<>>, aborted |-> FALSE]
         /\ command' \in Seq(Outcomes) /\ Len(command') = n
         /\ command'[n] = "none"
         /\ \A a \in 1..Len(admitted) : /\ admitted'[a] = admitted[a]
                                        /\ journal'[a] = journal[a]
                                        /\ command'[a] = command[a]
         /\ own' = [own EXCEPT ![p] = n] /\ pc' = [pc EXCEPT ![p] = "begun"]
         /\ UNCHANGED <<files, receipts, faults, lock, holds, applied>>
         /\ todo' = [todo EXCEPT ![p] = todo'[p]] /\ todo'[p] \in Seq(Mutations)
         /\ IF IsReplay(holds[p])
              THEN Range(todo'[p]) = ReplayOf(holds[p])
              ELSE \E seen \in Seen(holds[p]) : Range(todo'[p]) = WritesOf(holds[p], n, seen)
<1> DEFINE n == Len(admitted) + 1
           h == holds[p]
           e == [pending |-> TRUE, status |-> "begun", mutations |-> <<>>, aborted |-> FALSE]
<1>1. /\ admitted' = Append(admitted, h) /\ journal' = Append(journal, e)
      /\ command' = Append(command, "none")
      /\ own' = [own EXCEPT ![p] = n] /\ pc' = [pc EXCEPT ![p] = "begun"]
      /\ UNCHANGED <<files, receipts, faults, lock, holds, applied>>
      /\ \E seen \in Seen(h) : todo' = [todo EXCEPT ![p] = Prepare(h, n, seen)]
      /\ pc[p] = "locked"
  BY DEF Begins, StartUnchecked, Begin, Goto, files
<1>2. h \in Admissions /\ Grounded(h)
  BY <1>1 DEF Typed, Engaged
<1>3. e \in Journals /\ "none" \in Outcomes
  BY DEF Journals, Statuses, Outcomes
<1>4. /\ admitted \in Seq(Admissions) /\ journal \in Seq(Journals) /\ command \in Seq(Outcomes)
      /\ Len(journal) = Len(admitted) /\ Len(command) = Len(admitted)
      /\ Len(admitted) \in Nat /\ todo \in [Processes -> Seq(Mutations)]
  BY SequencesAreFunctions DEF Typed, TypeOK
<1>5. PICK seen \in Seen(h) : todo' = [todo EXCEPT ![p] = Prepare(h, n, seen)]
  BY <1>1
<1>6. seen \in {"open", "unavailable"}
  BY DEF Seen
<1>7. /\ Prepare(h, n, seen) \in Seq(Mutations)
      /\ Range(Prepare(h, n, seen)) = IF IsReplay(h) THEN ReplayOf(h) ELSE WritesOf(h, n, seen)
  <2>1. n \in Nat
    BY <1>4
  <2> HIDE DEF n, h
  <2>2. CASE IsReplay(h)
    BY <1>2, <1>6, <2>1, <2>2, PreparedReplay DEF Typed
  <2>3. CASE ~IsReplay(h)
    BY <1>2, <1>6, <2>1, <2>3, PreparedWrites DEF Typed
  <2> QED BY <2>2, <2>3
<1>8. todo'[p] = Prepare(h, n, seen) /\ todo' = [todo EXCEPT ![p] = todo'[p]]
  BY <1>4, <1>5
<1> HIDE DEF h, e
<1>9. /\ admitted' \in Seq(Admissions) /\ Len(admitted') = Len(admitted) + 1
      /\ admitted'[Len(admitted) + 1] = h
      /\ \A a \in 1..Len(admitted) : admitted'[a] = admitted[a]
  BY <1>1, <1>2, <1>4, AppendedElement
<1>10. /\ journal' \in Seq(Journals) /\ Len(journal') = Len(journal) + 1
       /\ journal'[Len(journal) + 1] = e
       /\ \A a \in 1..Len(journal) : journal'[a] = journal[a]
  BY <1>1, <1>3, <1>4, AppendedElement
<1>11. /\ command' \in Seq(Outcomes) /\ Len(command') = Len(command) + 1
       /\ command'[Len(command) + 1] = "none"
       /\ \A a \in 1..Len(command) : command'[a] = command[a]
  BY <1>1, <1>3, <1>4, AppendedElement
<1>12. IF IsReplay(h) THEN Range(todo'[p]) = ReplayOf(h)
          ELSE \E seen0 \in Seen(h) : Range(todo'[p]) = WritesOf(h, n, seen0)
  BY <1>7, <1>8
<1>13. todo'[p] \in Seq(Mutations)
  BY <1>7, <1>8
<1> QED BY <1>1, <1>2, <1>4, <1>8, <1>9, <1>10, <1>11, <1>12, <1>13 DEF h, e

LEMMA UndoFailsFacts ==
  ASSUME TypeOK, NEW p \in Processes, UndoFails(p)
  PROVE  /\ Continues(p) /\ pc[p] = "undoing" /\ pc'[p] = "undoing-in-part"
         /\ UNCHANGED <<files, ledger, todo>>
         /\ applied' = [applied EXCEPT ![p] = applied'[p]] /\ applied'[p] \in Seq(Mutations)
         /\ Range(applied'[p]) \subseteq Range(applied[p])
         /\ faults' \in 0..MaxFaults
<1>1. /\ applied[p] # <<>> /\ applied' = [applied EXCEPT ![p] = Tail(@)]
      /\ pc[p] = "undoing" /\ Goto(p, "undoing-in-part") /\ Fault
      /\ UNCHANGED <<files, ledger, lock, holds, own, todo>>
  BY DEF UndoFails
<1>2. applied[p] \in Seq(Mutations) /\ applied' = [applied EXCEPT ![p] = Tail(applied[p])]
      /\ applied'[p] = Tail(applied[p])
  BY <1>1 DEF TypeOK
<1>3. Tail(applied[p]) \in Seq(Mutations) /\ Range(Tail(applied[p])) \subseteq Range(applied[p])
  BY <1>1, <1>2, HeadAndTail
<1>4. Continues(p) /\ pc'[p] = "undoing-in-part"
  BY <1>1, GoingOn DEF Begun, Places, ledger
<1> QED BY <1>1, <1>2, <1>3, <1>4, FaultIsTyped

LEMMA NoAdmissionStep ==
  ASSUME NEW p \in Processes, TypeOK, Ends(p)
  PROVE  /\ pc' = [pc EXCEPT ![p] = "idle"] /\ holds' = [holds EXCEPT ![p] = NoAdmission]
         /\ own' = [own EXCEPT ![p] = 0]
         /\ todo' = [todo EXCEPT ![p] = <<>>] /\ applied' = [applied EXCEPT ![p] = <<>>]
         /\ lock' \in {lock, NoProcess}
         /\ UNCHANGED <<files, admitted, command>>
BY DEF Ends, Return, Goto

\* Types alone, given what every kind of step does.
LEMMA TypesAreKept ==
  ASSUME Typed, [Next]_vars
  PROVE  TypeOK'
<1>0. TypeOK /\ Engaged /\ Numbered /\ Rooted /\ Plain
  BY DEF Typed
<1>1. CASE UNCHANGED vars
  BY <1>0, <1>1 DEF TypeOK, vars, files, ledger, local
<1>2. ASSUME NEW p \in Processes, NEW t \in Transitions \cup Recoveries, Admit(p, t)
      PROVE  TypeOK'
  <2>1. WorktreeOf[p] \in Worktrees
    BY ProcessesAreTyped
  <2>2. NewAdmission(t, WorktreeOf[p]) \in Admissions
    BY <1>0, <1>2, <2>1, AdmissionsAreTyped DEF Admit
  <2> QED BY <1>0, <1>2, <2>2 DEF Admit, Goto, Places, TypeOK, files, ledger
<1>3. ASSUME NEW p \in Processes, Acquire(p)
      PROVE  TypeOK'
  BY <1>0, <1>3 DEF Acquire, Goto, Places, TypeOK, files, ledger, local
<1>4. ASSUME NEW p \in Processes, Begins(p)
      PROVE  TypeOK'
  <2>1. Len(admitted) \in Nat /\ Len(admitted') = Len(admitted) + 1
    BY <1>0, <1>4, BeginsFacts, SequencesAreFunctions
  <2>2. /\ own' = [own EXCEPT ![p] = Len(admitted) + 1] /\ pc' = [pc EXCEPT ![p] = "begun"]
        /\ todo' = [todo EXCEPT ![p] = todo'[p]] /\ todo'[p] \in Seq(Mutations)
        /\ admitted' \in Seq(Admissions) /\ journal' \in Seq(Journals) /\ command' \in Seq(Outcomes)
        /\ Len(journal') = Len(admitted) + 1 /\ Len(command') = Len(admitted) + 1
        /\ UNCHANGED <<files, receipts, faults, lock, holds, applied>>
    BY <1>4, BeginsFacts
  <2>3. own' \in [Processes -> 0..Len(admitted')]
    BY <1>0, <2>1, <2>2 DEF TypeOK
  <2>4. pc' \in [Processes -> Places] /\ todo' \in [Processes -> Seq(Mutations)]
    BY <1>0, <2>2 DEF TypeOK, Places
  <2> QED BY <1>0, <2>1, <2>2, <2>3, <2>4 DEF TypeOK, files
<1>5. ASSUME NEW p \in Processes, Marking(p)
      PROVE  TypeOK'
  BY <1>0, <1>5, MarkingMarks DEF Marks, Continues, JournalsKept, TypeOK, files
<1>6. ASSUME NEW p \in Processes, Putting(p)
      PROVE  TypeOK'
  <2>0. PICK m \in Mutations : \E value \in {m.prior, m.next} : Puts(p, m, value)
    BY <1>0, <1>6, PuttingPuts
  <2>1. PICK value \in {m.prior, m.next} : Puts(p, m, value)
    BY <2>0
  <2>2. state' \in [Worktrees -> States] /\ artifact' \in [Worktrees -> Nat] /\ JournalsKept
    BY <1>0, <2>1, PutIsTyped DEF Puts
  <2> QED BY <1>0, <2>1, <2>2 DEF Puts, Continues, JournalsKept, TypeOK
<1>7. ASSUME NEW p \in Processes, UndoFails(p)
      PROVE  TypeOK'
  BY <1>0, <1>7, UndoFailsFacts DEF Continues, TypeOK, files, ledger
<1>8. ASSUME NEW p \in Processes, Ending(p)
      PROVE  TypeOK'
  <2>1. receipts' \in Seq(Facts)
    <3>1. CASE Commit(p)
      <4>1. Begun(p)
        BY <3>1 DEF Commit, Begun
      <4>2. holds[p] \in Admissions /\ own[p] \in Nat \ {0}
        BY <1>0, <4>1, SequencesAreFunctions DEF Engaged, Numbered, Begun
      <4>3. Fact(p) \in Facts
        BY <4>2 DEF Fact, Facts, Admissions, Snapshots, States
      <4>4. receipts' = Append(receipts, Fact(p)) /\ receipts \in Seq(Facts)
        BY <1>0, <3>1 DEF Commit, TypeOK
      <4> QED BY <4>3, <4>4, AppendedElement
    <3>2. CASE ~Commit(p)
      <4>1. receipts' = receipts
        BY <1>0, <3>2, <1>8, EndingEnds
      <4> QED BY <1>0, <4>1 DEF TypeOK
    <3> QED BY <3>1, <3>2
  <2>2. /\ pc' \in [Processes -> Places] /\ holds' \in [Processes -> Admissions \cup {NoAdmission}]
        /\ own' \in [Processes -> 0..Len(admitted)]
        /\ todo' \in [Processes -> Seq(Mutations)] /\ applied' \in [Processes -> Seq(Mutations)]
        /\ lock' \in Processes \cup {NoProcess}
    <3>1. Len(admitted) \in Nat /\ <<>> \in Seq(Mutations)
      BY <1>0, SequencesAreFunctions
    <3>2. Ends(p)
      BY <1>0, <1>8, EndingEnds
    <3>3. /\ pc' = [pc EXCEPT ![p] = "idle"] /\ holds' = [holds EXCEPT ![p] = NoAdmission]
          /\ own' = [own EXCEPT ![p] = 0]
          /\ todo' = [todo EXCEPT ![p] = <<>>] /\ applied' = [applied EXCEPT ![p] = <<>>]
          /\ lock' \in {lock, NoProcess}
      BY <1>0, <3>2, NoAdmissionStep
    <3> QED BY <1>0, <3>1, <3>3 DEF TypeOK, Places
  <2>3. JournalsKept /\ faults' \in 0..MaxFaults /\ UNCHANGED <<files, admitted, command>>
    BY <1>0, <1>8, EndingEnds DEF Ends
  <2> QED BY <1>0, <2>1, <2>2, <2>3 DEF JournalsKept, TypeOK, files
<1> QED BY <1>1, <1>2, <1>3, <1>4, <1>5, <1>6, <1>7, <1>8, StepKinds DEF Next

\* Admissions are only ever added.
Extends ==
  /\ DOMAIN admitted \subseteq DOMAIN admitted'
  /\ \A a \in DOMAIN admitted : admitted'[a] = admitted[a]

LEMMA LedgerExtends ==
  ASSUME Typed, NEW p \in Processes, Begins(p)
  PROVE  /\ Extends
         /\ DOMAIN admitted' = DOMAIN admitted \cup {Len(admitted) + 1}
         /\ DOMAIN journal' = DOMAIN journal \cup {Len(admitted) + 1}
         /\ DOMAIN command' = DOMAIN command \cup {Len(admitted) + 1}
         /\ Len(admitted) + 1 \notin DOMAIN admitted
<1>0. TypeOK
  BY DEF Typed
<1>1. /\ DOMAIN admitted = 1..Len(admitted) /\ DOMAIN journal = 1..Len(admitted)
      /\ DOMAIN command = 1..Len(admitted) /\ Len(admitted) \in Nat
  BY <1>0, SequencesAreFunctions
<1>2. /\ admitted' \in Seq(Admissions) /\ Len(admitted') = Len(admitted) + 1
      /\ journal' \in Seq(Journals) /\ Len(journal') = Len(admitted) + 1
      /\ command' \in Seq(Outcomes) /\ Len(command') = Len(admitted) + 1
      /\ \A a \in 1..Len(admitted) : admitted'[a] = admitted[a]
  BY BeginsFacts
<1>3. /\ DOMAIN admitted' = 1..(Len(admitted) + 1) /\ DOMAIN journal' = 1..(Len(admitted) + 1)
      /\ DOMAIN command' = 1..(Len(admitted) + 1)
  BY <1>2, LenProperties
<1>4. 1..(Len(admitted) + 1) = 1..Len(admitted) \cup {Len(admitted) + 1}
  BY <1>1
<1> QED BY <1>1, <1>2, <1>3, <1>4 DEF Extends

LEMMA GroundedStays ==
  ASSUME Extends, NEW h, Grounded(h)
  PROVE  Grounded(h)'
BY DEF Extends, Grounded

LEMMA RootedStays ==
  ASSUME Rooted, UNCHANGED admitted
  PROVE  Rooted' /\ Extends
BY DEF Rooted, Grounded, Extends

LEMMA ContinuesKeeps ==
  ASSUME Typed, NEW p \in Processes, Continues(p)
  PROVE  /\ Engaged' /\ Numbered' /\ Rooted' /\ Extends
         /\ \A q \in Processes : Begun(q)' <=> Begun(q)
<1>1. Rooted' /\ Extends
  BY RootedStays DEF Typed, Continues
<1>2. \A q \in Processes : (Begun(q)' <=> Begun(q)) /\ (pc'[q] # "idle" => pc[q] # "idle")
  BY DEF Typed, TypeOK, Continues, Begun
<1>3. Engaged' /\ Numbered'
  BY <1>2 DEF Typed, Engaged, Numbered, Continues, Grounded
<1> QED BY <1>1, <1>2, <1>3

LEMMA EndsKeeps ==
  ASSUME Typed, NEW p \in Processes, Ends(p)
  PROVE  /\ Engaged' /\ Numbered' /\ Rooted' /\ Extends
         /\ ~Begun(p)'
         /\ \A q \in Processes \ {p} : (Begun(q)' <=> Begun(q)) /\ pc'[q] = pc[q]
<1>0. TypeOK
  BY DEF Typed
<1>1. Rooted' /\ Extends
  BY <1>0, NoAdmissionStep, RootedStays DEF Typed
<1>2. /\ pc' = [pc EXCEPT ![p] = "idle"] /\ holds' = [holds EXCEPT ![p] = NoAdmission]
      /\ own' = [own EXCEPT ![p] = 0] /\ admitted' = admitted
  BY <1>0, NoAdmissionStep
<1>3. /\ pc'[p] = "idle"
      /\ \A q \in Processes \ {p} : pc'[q] = pc[q] /\ holds'[q] = holds[q] /\ own'[q] = own[q]
  BY <1>0, <1>2 DEF TypeOK
<1>4. ~Begun(p)' /\ \A q \in Processes \ {p} : (Begun(q)' <=> Begun(q))
  BY <1>3 DEF Begun
<1>5. Engaged' /\ Numbered'
  BY <1>2, <1>3, <1>4 DEF Typed, Engaged, Numbered, Grounded
<1> QED BY <1>1, <1>3, <1>4, <1>5

LEMMA TypedInduction ==
  ASSUME Typed, [Next]_vars
  PROVE  Typed'
<1>0. TypeOK /\ Engaged /\ Numbered /\ Rooted /\ Plain /\ TypeOK'
  BY TypesAreKept DEF Typed
<1>1. CASE UNCHANGED vars
  BY <1>0, <1>1 DEF Typed, Engaged, Numbered, Rooted, Plain, Begun, Grounded, vars, ledger, local
<1>2. ASSUME NEW p \in Processes, NEW t \in Transitions \cup Recoveries, Admit(p, t)
      PROVE  Typed'
  <2>1. WorktreeOf[p] \in Worktrees
    BY ProcessesAreTyped
  <2>2. /\ NewAdmission(t, WorktreeOf[p]) \in Admissions
        /\ Grounded(NewAdmission(t, WorktreeOf[p]))
    BY <1>0, <1>2, <2>1, AdmissionsAreTyped DEF Admit
  <2> DEFINE h == NewAdmission(t, WorktreeOf[p])
  <2>3. /\ holds' = [holds EXCEPT ![p] = h] /\ pc' = [pc EXCEPT ![p] = "admitted"]
        /\ UNCHANGED <<ledger, own, todo>>
    BY <1>2 DEF Admit, Goto
  <2> HIDE DEF h
  <2>4. /\ holds'[p] = h /\ pc'[p] = "admitted"
        /\ \A q \in Processes \ {p} : pc'[q] = pc[q] /\ holds'[q] = holds[q]
    BY <1>0, <2>3 DEF TypeOK
  <2>5. \A q \in Processes : Begun(q)' => Begun(q) /\ q # p
    BY <2>4 DEF Begun
  <2>6. Engaged'
    BY <1>0, <2>2, <2>3, <2>4 DEF Engaged, Grounded, h, ledger
  <2>7. Numbered' /\ Rooted' /\ Plain'
    BY <1>0, <2>3, <2>4, <2>5 DEF Numbered, Rooted, Plain, Grounded, ledger
  <2> QED BY <1>0, <2>6, <2>7 DEF Typed
<1>3. ASSUME NEW p \in Processes, Acquire(p)
      PROVE  Typed'
  <2>1. \A q \in Processes : (Begun(q)' <=> Begun(q)) /\ (pc'[q] # "idle" => pc[q] # "idle")
    BY <1>0, <1>3 DEF Acquire, Goto, Begun, TypeOK
  <2>2. UNCHANGED <<ledger, local>>
    BY <1>3 DEF Acquire
  <2> QED BY <1>0, <2>1, <2>2 DEF Typed, Engaged, Numbered, Rooted, Plain, Grounded, ledger, local
<1>4. ASSUME NEW p \in Processes, Begins(p)
      PROVE  Typed'
  <2> DEFINE n == Len(admitted) + 1
  <2>1. /\ own' = [own EXCEPT ![p] = n] /\ pc' = [pc EXCEPT ![p] = "begun"]
        /\ todo' = [todo EXCEPT ![p] = todo'[p]] /\ admitted'[n] = holds[p]
        /\ holds[p] \in Admissions /\ Grounded(holds[p]) /\ holds' = holds
        /\ journal'[n] = [pending |-> TRUE, status |-> "begun",
                          mutations |-> <<>>, aborted |-> FALSE]
        /\ \A a \in 1..Len(admitted) : admitted'[a] = admitted[a] /\ journal'[a] = journal[a]
        /\ IF IsReplay(holds[p]) THEN Range(todo'[p]) = ReplayOf(holds[p])
             ELSE \E seen \in Seen(holds[p]) : Range(todo'[p]) = WritesOf(holds[p], n, seen)
    BY <1>4, BeginsFacts
  <2>2. /\ Extends /\ DOMAIN admitted' = DOMAIN admitted \cup {n}
        /\ DOMAIN journal' = DOMAIN journal \cup {n} /\ n \notin DOMAIN admitted
    BY <1>4, LedgerExtends
  <2>3. /\ DOMAIN admitted = 1..Len(admitted) /\ DOMAIN journal = 1..Len(admitted)
        /\ Len(admitted) \in Nat
    BY <1>0, SequencesAreFunctions
  <2> HIDE DEF n
  <2>4. /\ own'[p] = n /\ pc'[p] = "begun"
        /\ \A q \in Processes \ {p} : pc'[q] = pc[q] /\ own'[q] = own[q] /\ todo'[q] = todo[q]
    BY <1>0, <2>1 DEF TypeOK
  <2>5. \A q \in Processes \ {p} : Begun(q)' <=> Begun(q)
    BY <2>4 DEF Begun
  <2>6. Engaged'
    <3> SUFFICES ASSUME NEW q \in Processes, pc'[q] # "idle"
                 PROVE  holds[q] \in Admissions /\ Grounded(holds[q])'
      BY <2>1 DEF Engaged, Grounded
    <3>1. holds[q] \in Admissions /\ Grounded(holds[q])
      BY <1>0, <2>1, <2>4 DEF Engaged
    <3> QED BY <2>1, <2>2, <3>1 DEF Extends, Grounded
  <2>7. Numbered'
    BY <1>0, <2>1, <2>2, <2>4, <2>5 DEF Numbered, Extends
  <2>8. Rooted'
    <3> SUFFICES ASSUME NEW a \in DOMAIN admitted'
                 PROVE  admitted'[a].root < a /\ Grounded(admitted[a])'
      BY DEF Rooted, Grounded
    <3>1. CASE a = n
      <4>1. holds[p].root = 0 \/ holds[p].root \in DOMAIN admitted
        BY <2>1 DEF Grounded
      <4> QED BY <2>1, <2>2, <2>3, <3>1, <4>1 DEF n, Extends, Grounded
    <3>2. CASE a \in DOMAIN admitted
      BY <1>0, <2>2, <3>2 DEF Rooted, Extends, Grounded
    <3> QED BY <2>2, <3>1, <3>2
  <2>9. Plain'
    <3>1. \A a \in DOMAIN journal' : admitted'[a].root = 0 =>
            \A m \in Range(journal'[a].mutations) : m.kind # "close"
      <4>1. Range(journal'[n].mutations) = {}
        BY <2>1 DEF Range
      <4> QED BY <1>0, <2>1, <2>2, <2>3, <4>1 DEF Plain
    <3>2. holds[p].root = 0 => \A m \in Range(todo'[p]) : m.kind # "close"
      <4> HAVE holds[p].root = 0
      <4>1. holds[p].transition \notin Recoveries
        BY <2>1, <2>3 DEF Grounded
      <4>2. ~IsReplay(holds[p])
        BY <4>1 DEF IsReplay, Recoveries
      <4> QED BY <2>1, <4>1, <4>2 DEF WritesOf, WriteArtifact, WriteState
    <3> QED BY <1>0, <2>1, <2>4, <2>5, <3>1, <3>2 DEF Plain
  <2> QED BY <1>0, <2>6, <2>7, <2>8, <2>9 DEF Typed
<1>5. ASSUME NEW p \in Processes, Marking(p)
      PROVE  Typed'
  <2>1. Marks(p) /\ Continues(p)
    BY <1>0, <1>5, MarkingMarks DEF Marks
  <2>2. Engaged' /\ Numbered' /\ Rooted' /\ \A q \in Processes : Begun(q)' <=> Begun(q)
    BY <2>1, ContinuesKeeps
  <2>3. Plain'
    BY <1>0, <2>1, <2>2 DEF Plain, Numbered, Marks, Continues, JournalsKept
  <2> QED BY <1>0, <2>2, <2>3 DEF Typed
<1>6. ASSUME NEW p \in Processes, Putting(p)
      PROVE  Typed'
  <2>0. PICK m \in Mutations : \E value \in {m.prior, m.next} : Puts(p, m, value)
    BY <1>0, <1>6, PuttingPuts
  <2>1. PICK value \in {m.prior, m.next} : Puts(p, m, value)
    BY <2>0
  <2>2. Continues(p) /\ Put(m, value)
        /\ \A q \in Processes : Range(todo'[q]) \subseteq Range(todo[q])
    BY <2>1 DEF Puts
  <2>3. Engaged' /\ Numbered' /\ Rooted' /\ \A q \in Processes : Begun(q)' <=> Begun(q)
    BY <2>2, ContinuesKeeps
  <2>4. /\ DOMAIN journal' = DOMAIN journal /\ UNCHANGED <<admitted, holds>>
        /\ \A a \in DOMAIN journal : journal'[a].mutations = journal[a].mutations
    BY <1>0, <2>2, PutIsTyped DEF JournalsKept, Continues
  <2>5. Plain'
    BY <1>0, <2>2, <2>3, <2>4 DEF Plain
  <2> QED BY <1>0, <2>3, <2>5 DEF Typed
<1>7. ASSUME NEW p \in Processes, UndoFails(p)
      PROVE  Typed'
  <2>1. Continues(p) /\ UNCHANGED <<ledger, todo>>
    BY <1>0, <1>7, UndoFailsFacts
  <2>2. Engaged' /\ Numbered' /\ Rooted' /\ \A q \in Processes : Begun(q)' <=> Begun(q)
    BY <2>1, ContinuesKeeps
  <2>3. Plain'
    BY <1>0, <2>1, <2>2 DEF Plain, Continues, ledger
  <2> QED BY <1>0, <2>2, <2>3 DEF Typed
<1>8. ASSUME NEW p \in Processes, Ending(p)
      PROVE  Typed'
  <2>1. Ends(p) /\ DOMAIN journal' = DOMAIN journal
        /\ \A a \in DOMAIN journal : journal'[a].mutations = journal[a].mutations
    BY <1>0, <1>8, EndingEnds DEF JournalsKept
  <2>2. /\ Engaged' /\ Numbered' /\ Rooted' /\ ~Begun(p)'
        /\ \A q \in Processes \ {p} : Begun(q)' <=> Begun(q)
    BY <2>1, EndsKeeps
  <2>3. /\ todo' = [todo EXCEPT ![p] = <<>>] /\ holds' = [holds EXCEPT ![p] = NoAdmission]
        /\ admitted' = admitted
    BY <1>0, <2>1, NoAdmissionStep
  <2>4. \A q \in Processes \ {p} : todo'[q] = todo[q] /\ holds'[q] = holds[q]
    BY <1>0, <2>3 DEF TypeOK
  <2>5. Plain'
    BY <1>0, <2>1, <2>2, <2>3, <2>4 DEF Plain
  <2> QED BY <1>0, <2>2, <2>5 DEF Typed
<1> QED BY <1>1, <1>2, <1>3, <1>4, <1>5, <1>6, <1>7, <1>8, StepKinds DEF Next

LEMMA InitTyped ==
  ASSUME Init
  PROVE  Typed
<1>1. InitialState \in States /\ NoProcess \in Processes \cup {NoProcess}
  BY DEF InitialState, States
<1>2. \A S : <<>> \in Seq(S) /\ Len(<<>>) = 0 /\ DOMAIN <<>> = {}
  BY EmptySeq
<1>3. TypeOK
  BY <1>1, <1>2, BoundsAreTyped DEF Init, TypeOK, Places
<1>4. Engaged /\ Numbered /\ Rooted /\ Plain
  BY <1>2 DEF Init, Engaged, Numbered, Rooted, Plain, Begun
<1> QED BY <1>3, <1>4 DEF Typed

-----------------------------------------------------------------------------
(***************************************************************************)
(* One transaction at a time.                                              *)
(***************************************************************************)
Locked == \A p \in Processes : pc[p] \notin {"idle", "admitted"} => lock = p

\* Whoever has begun owns the last admission, whose journal is pending.
Owning == \A p \in Processes :
  IF Begun(p) THEN own[p] = Len(admitted) /\ own[p] \in Pending
              ELSE own[p] = 0 /\ todo[p] = <<>> /\ applied[p] = <<>>

\* What was prescribed on what was observed: nothing pending for a transition,
\* the one interrupted transaction for a recovery.
Bound(h) ==
  /\ h.transition \in Transitions =>
       /\ h.source.pending = {} /\ ~h.source.state.escalated
       /\ h.transition \in External => h.source.state.publication = "candidate"
  /\ h.transition \in Recoveries =>
       /\ h.transition \in h.source.permitted
       /\ h.source.pending # {}
       /\ \A x \in h.source.pending : x[1] \in DOMAIN admitted /\ Root(x[1]) = h.root
  /\ h.transition \in Recoveries \ {"recovery.escalate"} =>
       /\ \A x \in h.source.pending : x[1] = h.root
       /\ h.transition = "publication.reconcile" <=> admitted[h.root].transition \in External

Prescribed ==
  /\ \A p \in Processes : pc[p] # "idle" => Bound(holds[p])
  /\ \A a \in DOMAIN admitted : Bound(admitted[a])

\* A recovery closes journals of the transaction it recovers, never its own.
Closing == \A p \in Processes : Begun(p) =>
  \A m \in Range(todo[p]) \cup Range(applied[p]) : m.kind = "close" =>
    m.at \in DOMAIN admitted /\ m.at # own[p] /\ Root(m.at) = Root(own[p])

OneRoot == \A a, b \in Pending : Root(a) = Root(b)

Exclusive == Locked /\ Owning /\ Prescribed /\ Closing /\ OneRoot

LEMMA RootsStay ==
  ASSUME Extends, NEW a \in DOMAIN admitted
  PROVE  Root(a)' = Root(a)
BY DEF Extends, Root

LEMMA BoundStays ==
  ASSUME Typed, Extends, NEW h, Bound(h), Grounded(h)
  PROVE  Bound(h)'
<1>1. h.transition \in Recoveries =>
        \A x \in h.source.pending : x[1] \in DOMAIN admitted' /\ Root(x[1])' = h.root
  BY RootsStay DEF Bound, Extends
<1>2. h.transition \in Recoveries => admitted'[h.root] = admitted[h.root]
  BY DEF Grounded, Extends
<1> QED BY <1>1, <1>2 DEF Bound

LEMMA PrescribedStays ==
  ASSUME Typed, Prescribed, UNCHANGED admitted,
         \A q \in Processes : pc'[q] # "idle" => pc[q] # "idle" /\ holds'[q] = holds[q]
  PROVE  Prescribed'
<1>1. Extends
  BY DEF Extends
<1>2. ASSUME NEW q \in Processes, pc'[q] # "idle"
      PROVE  Bound(holds[q])' 
  <2>1. Bound(holds[q]) /\ Grounded(holds[q]) /\ holds'[q] = holds[q]
    BY <1>2 DEF Prescribed, Typed, Engaged
  <2> DEFINE h == holds[q]
  <2> QED BY <1>1, <2>1, BoundStays DEF Bound, Root
<1>3. \A a \in DOMAIN admitted : Bound(admitted[a])'
  BY DEF Prescribed, Bound, Root
<1> QED BY <1>2, <1>3 DEF Prescribed, Bound, Root

\* What recoveryContract permits, and for which transactions.
LEMMA PermittedRecovery ==
  ASSUME TypeOK, Rooted, NEW t \in Permitted
  PROVE  LET r == CHOOSE r \in Groups(0) : TRUE
         IN  /\ t # "recovery.escalate" =>
                  /\ Pending = {r}
                  /\ t = "publication.reconcile" <=> admitted[r].transition \in External
             /\ t = "recovery.resume" => journal[r].mutations # <<>>
<1>1. PICK r \in Groups(0) :
        t \in IF Pending = {r} THEN Contract(r) ELSE {"recovery.escalate"}
  BY DEF Permitted
<1>2. (CHOOSE x \in Groups(0) : TRUE) = r
  BY <1>1, PermittedMeansOneGroup
<1>3. t # "recovery.escalate" => t \in Contract(r) /\ Pending = {r}
  BY <1>1
<1>4. t \in Contract(r) /\ t # "recovery.escalate" =>
        /\ t = "publication.reconcile" <=> admitted[r].transition \in External
        /\ t = "recovery.resume" => journal[r].mutations # <<>>
  BY DEF Contract
<1> QED BY <1>2, <1>3, <1>4

LEMMA AdmissionsAreBound ==
  ASSUME Typed, NEW w \in Worktrees, NEW t \in Prescribable(w)
  PROVE  Bound(NewAdmission(t, w))
<1> DEFINE h == NewAdmission(t, w)
           r == CHOOSE r \in Groups(0) : TRUE
<1>0. TypeOK /\ Rooted
  BY DEF Typed
<1>1. /\ h.transition = t /\ h.source.state = state[w] /\ h.source.permitted = Permitted
      /\ h.source.pending = {<<a, journal[a].status>> : a \in Pending}
      /\ t \in Recoveries => h.root = r
  BY DEF NewAdmission, Snapshot
<1>2. /\ t \in Recoveries => t \in Permitted
      /\ t \in Transitions => SourceMatches(t, w)
      /\ t \in Transitions \cup Recoveries /\ (t \in Recoveries => t \notin Transitions)
  BY TransitionsAreTyped DEF Prescribable, Applicable
<1> HIDE DEF h, r
<1>3. ASSUME t \in Transitions
      PROVE  Bound(h)
  <2>1. Pending = {} /\ ~state[w].escalated /\ (t \in External => state[w].publication = "candidate")
    BY <1>2, <1>3 DEF SourceMatches
  <2> QED BY <1>1, <1>2, <1>3, <2>1 DEF Bound
<1>4. ASSUME t \in Recoveries
      PROVE  Bound(h)
  <2>1. Pending # {} /\ \A a \in Pending : Root(a) = r
    BY <1>0, <1>2, <1>4, PermittedMeansOneGroup DEF r
  <2>2. t # "recovery.escalate" =>
          Pending = {r} /\ (t = "publication.reconcile" <=> admitted[r].transition \in External)
    BY <1>0, <1>2, <1>4, PermittedRecovery DEF r
  <2>3. Pending \subseteq DOMAIN admitted
    BY <1>0, PendingIsFinite, SequencesAreFunctions
  <2>4. \A x \in h.source.pending : x[1] \in Pending
    BY <1>1
  <2>5. h.source.pending # {}
    BY <1>1, <2>1
  <2> QED BY <1>1, <1>2, <1>4, <2>1, <2>2, <2>3, <2>4, <2>5 DEF Bound
<1> QED BY <1>2, <1>3, <1>4 DEF h

\* What is current under the lock was observed before it.
LEMMA CurrentSource ==
  ASSUME NEW h, IsCurrent(h)
  PROVE  /\ h.source.state = state[h.worktree] /\ h.source.artifact = artifact[h.worktree]
         /\ h.source.permitted = Permitted
         /\ h.source.pending = {<<a, journal[a].status>> : a \in Pending}
         /\ Pending = {x[1] : x \in h.source.pending}
<1>1. /\ h.source.state = state[h.worktree] /\ h.source.artifact = artifact[h.worktree]
      /\ h.source.permitted = Permitted
      /\ h.source.pending = {<<a, journal[a].status>> : a \in Pending}
  BY DEF IsCurrent, Snapshot
<1>2. \A a : <<a, journal[a].status>>[1] = a
  OBVIOUS
<1>3. Pending = {x[1] : x \in {<<a, journal[a].status>> : a \in Pending}}
  BY <1>2
<1> QED BY <1>1, <1>3

LEMMA LockedStays ==
  ASSUME Typed, Locked, NEW p \in Processes, Continues(p) \/ Ends(p)
  PROVE  /\ Locked'
         /\ \A q \in Processes \ {p} : Begun(p) => ~Begun(q)
<1>1. \A q \in Processes \ {p} : Begun(p) => ~Begun(q)
  BY DEF Locked, Begun
<1>2. CASE Continues(p)
  BY <1>2 DEF Typed, TypeOK, Locked, Continues, Begun
<1>3. CASE Ends(p)
  <2>1. /\ pc' = [pc EXCEPT ![p] = "idle"] /\ pc \in [Processes -> Places]
        /\ lock' = IF lock = p THEN NoProcess ELSE lock
    BY <1>3 DEF Ends, Return, Goto, Typed, TypeOK
  <2>2. \A q \in Processes : pc'[q] # "idle" => q # p /\ pc'[q] = pc[q]
    BY <2>1
  <2> QED BY <1>1, <2>1, <2>2 DEF Locked
<1> QED BY <1>1, <1>2, <1>3

\* The pending journals after each kind of step.
LEMMA PendingOfMarks ==
  ASSUME NEW p \in Processes, Marks(p)
  PROVE  Pending' = Pending
BY DEF Marks, JournalsKept, Pending

LEMMA PendingOfPuts ==
  ASSUME TypeOK, NEW m \in Mutations, NEW value \in {m.prior, m.next}, Put(m, value)
  PROVE  /\ m.kind # "close" => Pending' = Pending
         /\ m.kind = "close" =>
              Pending' = IF value THEN Pending \cup ({m.at} \cap DOMAIN journal)
                                  ELSE Pending \ {m.at}
         /\ \A a \in Pending' : a \in Pending \/ a = m.at
         /\ \A a \in Pending : a \in Pending' \/ (m.kind = "close" /\ a = m.at)
<1>1. /\ DOMAIN journal' = DOMAIN journal
      /\ \A a \in DOMAIN journal :
           journal'[a].pending = IF m.kind = "close" /\ a = m.at THEN value ELSE journal[a].pending
  BY PutIsTyped DEF JournalsKept
<1> QED BY <1>1 DEF Pending

LEMMA PendingOfEnds ==
  ASSUME TypeOK, NEW p \in Processes, Ending(p)
  PROVE  Pending' = IF Commit(p) \/ Abort(p) THEN Pending \ {own[p]} ELSE Pending
<1>1. /\ DOMAIN journal' = DOMAIN journal
      /\ \A a \in DOMAIN journal :
           journal'[a].pending = (journal[a].pending /\ (a = own[p] => ~(Commit(p) \/ Abort(p))))
  BY EndingEnds DEF JournalsKept
<1> QED BY <1>1 DEF Pending

LEMMA PendingOfBegins ==
  ASSUME Typed, NEW p \in Processes, Begins(p)
  PROVE  Pending' = Pending \cup {Len(admitted) + 1}
<1>1. /\ DOMAIN journal = 1..Len(admitted)
      /\ DOMAIN journal' = DOMAIN journal \cup {Len(admitted) + 1}
      /\ Len(admitted) + 1 \notin DOMAIN journal
  BY LedgerExtends, SequencesAreFunctions DEF Typed
<1>2. /\ journal'[Len(admitted) + 1].pending = TRUE
      /\ \A a \in 1..Len(admitted) : journal'[a] = journal[a]
  BY BeginsFacts
<1> QED BY <1>1, <1>2 DEF Pending

\* A transition begins with nothing pending, a recovery with one group.
LEMMA BeginsOnOneGroup ==
  ASSUME Typed, Exclusive, NEW p \in Processes, Begins(p)
  PROVE  /\ \A q \in Processes \ {p} : ~Begun(q)
         /\ ~Begun(p) /\ applied[p] = <<>>
         /\ Bound(holds[p])
         /\ holds[p].transition \notin Recoveries => Pending = {}
         /\ holds[p].transition \in Recoveries =>
              Pending # {} /\ \A a \in Pending : Root(a) = holds[p].root
<1>1. pc[p] = "locked" /\ IsCurrent(holds[p])
  BY DEF Begins, Begin
<1>2. \A q \in Processes \ {p} : ~Begun(q)
  BY <1>1 DEF Exclusive, Locked, Begun
<1>3. ~Begun(p) /\ applied[p] = <<>> /\ Bound(holds[p])
  BY <1>1 DEF Begun, Exclusive, Owning, Prescribed
<1>4. Pending = {x[1] : x \in holds[p].source.pending}
  BY <1>1, CurrentSource
<1>5. holds[p].transition \in Transitions \cup Recoveries
  BY <1>1 DEF Typed, Engaged, Admissions
<1> QED BY <1>2, <1>3, <1>4, <1>5 DEF Bound

LEMMA ExclusiveBegins ==
  ASSUME Typed, Exclusive, NEW p \in Processes, Begins(p)
  PROVE  Exclusive'
<1>n. PICK n : n = Len(admitted) + 1
  OBVIOUS
<1>h. PICK h : h = holds[p]
  OBVIOUS
<1>0. TypeOK /\ Locked /\ Owning /\ Prescribed /\ Closing /\ OneRoot
  BY DEF Typed, Exclusive
<1>1. /\ own' = [own EXCEPT ![p] = n] /\ pc' = [pc EXCEPT ![p] = "begun"]
      /\ todo' = [todo EXCEPT ![p] = todo'[p]] /\ admitted'[n] = h
      /\ UNCHANGED <<lock, holds, applied>> /\ Grounded(h) /\ Len(admitted') = n
      /\ \A a \in 1..Len(admitted) : admitted'[a] = admitted[a]
      /\ IF IsReplay(h) THEN Range(todo'[p]) = ReplayOf(h)
           ELSE \E seen \in Seen(h) : Range(todo'[p]) = WritesOf(h, n, seen)
  BY <1>n, <1>h, BeginsFacts
<1>2. /\ Extends /\ DOMAIN admitted' = DOMAIN admitted \cup {n} /\ n \notin DOMAIN admitted
      /\ DOMAIN admitted = 1..Len(admitted) /\ Len(admitted) \in Nat
  BY <1>0, <1>n, LedgerExtends, SequencesAreFunctions
<1>3. Pending' = Pending \cup {n} /\ Pending \subseteq DOMAIN admitted
  BY <1>0, <1>2, <1>n, PendingOfBegins, PendingIsFinite
<1>4. /\ \A q \in Processes \ {p} : ~Begun(q)
      /\ ~Begun(p) /\ applied[p] = <<>> /\ Bound(h)
      /\ h.transition \notin Recoveries => Pending = {}
      /\ h.transition \in Recoveries => Pending # {} /\ \A a \in Pending : Root(a) = h.root
  BY <1>h, BeginsOnOneGroup
<1>5. /\ own'[p] = n /\ pc'[p] = "begun"
      /\ \A q \in Processes \ {p} : pc'[q] = pc[q] /\ own'[q] = own[q] /\ todo'[q] = todo[q]
  BY <1>0, <1>1 DEF TypeOK
<1>6. Begun(p)' /\ \A q \in Processes \ {p} : ~Begun(q)'
  BY <1>4, <1>5 DEF Begun
<1>7. \A a \in DOMAIN admitted : Root(a)' = Root(a)
  BY <1>2, RootsStay
<1>8. Root(n)' = IF h.root = 0 THEN n ELSE h.root
  BY <1>1, <1>2 DEF Root
<1>9. Locked'
  BY <1>0, <1>1, <1>5 DEF Locked, Begins, Begin
<1>10. Owning'
  BY <1>0, <1>1, <1>3, <1>4, <1>5, <1>6, <1>n DEF Owning
<1>11. Prescribed'
  <2>1. ASSUME NEW q \in Processes, pc'[q] # "idle"
        PROVE  Bound(holds[q])'
    <3>1. Bound(holds[q]) /\ Grounded(holds[q])
      BY <1>0, <1>1, <1>4, <1>5, <1>h, <2>1 DEF Prescribed, Typed, Engaged
    <3>2. PICK g : g = holds[q]
      OBVIOUS
    <3>3. Bound(g)'
      BY <1>2, <3>1, <3>2, BoundStays
    <3> QED BY <1>1, <3>2, <3>3 DEF Bound, Root
  <2>2. ASSUME NEW a \in DOMAIN admitted'
        PROVE  Bound(admitted[a])'
    <3>g. PICK g : g = admitted'[a]
      OBVIOUS
    <3>1. Bound(g) /\ Grounded(g)
      <4>1. CASE a = n
        BY <1>1, <1>4, <4>1, <3>g
      <4>2. CASE a \in DOMAIN admitted
        <5>1. g = admitted[a]
          BY <1>2, <4>2, <3>g DEF Extends
        <5>2. Bound(admitted[a]) /\ Grounded(admitted[a])
          BY <1>0, <4>2 DEF Prescribed, Typed, Rooted
        <5> QED BY <5>1, <5>2
      <4> QED BY <1>2, <4>1, <4>2
    <3>2. Bound(g)'
      BY <1>2, <3>1, BoundStays
    <3> QED BY <3>2, <3>g DEF Bound, Root
  <2> QED BY <2>1, <2>2 DEF Prescribed
<1>12. Closing'
  <2>1. ASSUME NEW m \in Range(todo'[p]), m.kind = "close"
        PROVE  m.at \in DOMAIN admitted /\ Root(m.at) = h.root /\ h.root # 0
    <3>1. CASE IsReplay(h)
      <4>1. m = Close(h.root)
        <5>1. m \in ReplayOf(h)
          BY <1>1, <2>1, <3>1
        <5>2. \A g \in Range(journal[h.root].mutations) : g \in Mutations /\ g.kind # "close"
          BY <1>0, <1>h, <3>1, PreparedReplay, BeginsFacts DEF Typed
        <5>3. \A g \in Range(journal[h.root].mutations) :
                Restored(g, h.transition = "recovery.resume", h.source.state.revision + 1).kind # "close"
          BY DEF Restored, WriteState, WriteArtifact
        <5> QED BY <2>1, <5>1, <5>3 DEF ReplayOf, WriteState
      <4>2. h.root \in DOMAIN admitted /\ admitted[h.root].root = 0
        BY <1>1, <3>1 DEF Grounded, IsReplay, Recoveries
      <4> QED BY <1>2, <4>1, <4>2 DEF Close, Root
    <3>2. CASE ~IsReplay(h)
      <4>1. PICK x \in IF h.transition \in Recoveries THEN Pending ELSE {} : m = Close(x)
        BY <1>1, <2>1, <3>2 DEF WritesOf, WriteState, WriteArtifact
      <4>2. h.transition \in Recoveries /\ x \in Pending /\ m.at = x
        BY <4>1 DEF Close
      <4> QED BY <1>1, <1>2, <1>3, <1>4, <4>2 DEF Grounded
    <3> QED BY <3>1, <3>2
  <2>2. Range(applied'[p]) = {}
    BY <1>1, <1>4 DEF Range
  <2> QED BY <1>2, <1>5, <1>6, <1>7, <1>8, <2>1, <2>2 DEF Closing
<1>13. OneRoot'
  BY <1>0, <1>1, <1>3, <1>4, <1>7, <1>8 DEF OneRoot, Grounded
<1> QED BY <1>9, <1>10, <1>11, <1>12, <1>13 DEF Exclusive

\* Parts that a step keeps when it goes on with the same admissions.
LEMMA ContinuesStaysBound ==
  ASSUME Typed, Exclusive, NEW p \in Processes, Continues(p)
  PROVE  /\ Locked' /\ Prescribed'
         /\ \A q \in Processes : (Begun(q)' <=> Begun(q))
         /\ \A q \in Processes \ {p} : ~Begun(q)
         /\ Begun(p) /\ own[p] = Len(admitted) /\ own[p] \in Pending
         /\ \A a : Root(a)' = Root(a)
<1>0. TypeOK /\ Locked /\ Owning /\ Prescribed
  BY DEF Typed, Exclusive
<1>1. Begun(p) /\ UNCHANGED <<admitted, lock, holds, own>>
  BY DEF Continues
<1>2. Locked' /\ \A q \in Processes \ {p} : ~Begun(q)
  BY <1>0, <1>1, LockedStays
<1>3. \A q \in Processes : (Begun(q)' <=> Begun(q))
  BY ContinuesKeeps
<1>4. \A q \in Processes : pc'[q] # "idle" => pc[q] # "idle" /\ holds'[q] = holds[q]
  BY <1>0, <1>1 DEF TypeOK, Continues, Begun
<1>5. Prescribed'
  BY <1>0, <1>1, <1>4, PrescribedStays
<1>6. own[p] = Len(admitted) /\ own[p] \in Pending
  BY <1>0, <1>1 DEF Owning
<1>7. \A a : Root(a)' = Root(a)
  BY <1>1 DEF Root
<1> QED BY <1>1, <1>2, <1>3, <1>5, <1>6, <1>7

LEMMA ExclusivePuts ==
  ASSUME Typed, Exclusive, NEW p \in Processes, NEW m \in Mutations,
         NEW value \in {m.prior, m.next}, Puts(p, m, value)
  PROVE  Exclusive'
<1>0. TypeOK /\ Locked /\ Owning /\ Prescribed /\ Closing /\ OneRoot
  BY DEF Typed, Exclusive
<1>1. /\ Continues(p) /\ Put(m, value) /\ m \in Range(todo[p]) \cup Range(applied[p])
      /\ \A q \in Processes :
           /\ q # p => todo'[q] = todo[q] /\ applied'[q] = applied[q]
           /\ Range(todo'[q]) \subseteq Range(todo[q])
           /\ Range(applied'[q]) \subseteq Range(todo[q]) \cup Range(applied[q])
  BY DEF Puts
<1>2. /\ Locked' /\ Prescribed'
      /\ \A q \in Processes : (Begun(q)' <=> Begun(q))
      /\ \A q \in Processes \ {p} : ~Begun(q)
      /\ Begun(p) /\ own[p] = Len(admitted) /\ own[p] \in Pending
      /\ \A a : Root(a)' = Root(a)
  BY <1>1, ContinuesStaysBound
<1>3. UNCHANGED <<admitted, own>>
  BY <1>1 DEF Continues
<1>4. m.kind = "close" => m.at # own[p] /\ Root(m.at) = Root(own[p])
  BY <1>0, <1>1, <1>2 DEF Closing
<1>5. \A a \in Pending' : a \in Pending \/ (a = m.at /\ m.kind = "close")
  BY <1>0, <1>1, PendingOfPuts
<1>6. own[p] \in Pending'
  BY <1>0, <1>1, <1>2, <1>4, PendingOfPuts
<1>7. Owning'
  BY <1>0, <1>1, <1>2, <1>3, <1>6 DEF Owning
<1>8. Closing'
  BY <1>0, <1>1, <1>2, <1>3 DEF Closing
<1>9. OneRoot'
  <2>1. \A a \in Pending' : Root(a) = Root(own[p])
    BY <1>0, <1>2, <1>4, <1>5 DEF OneRoot
  <2> QED BY <1>2, <2>1 DEF OneRoot
<1> QED BY <1>2, <1>7, <1>8, <1>9 DEF Exclusive

LEMMA ExclusiveEnds ==
  ASSUME Typed, Exclusive, NEW p \in Processes, Ending(p)
  PROVE  Exclusive'
<1>0. TypeOK /\ Locked /\ Owning /\ Prescribed /\ Closing /\ OneRoot
  BY DEF Typed, Exclusive
<1>1. Ends(p) /\ (Commit(p) \/ Abort(p) => Begun(p))
  BY <1>0, EndingEnds
<1>2. /\ pc' = [pc EXCEPT ![p] = "idle"] /\ holds' = [holds EXCEPT ![p] = NoAdmission]
      /\ own' = [own EXCEPT ![p] = 0]
      /\ todo' = [todo EXCEPT ![p] = <<>>] /\ applied' = [applied EXCEPT ![p] = <<>>]
      /\ admitted' = admitted
  BY <1>0, <1>1, NoAdmissionStep
<1>3. /\ own'[p] = 0 /\ todo'[p] = <<>> /\ applied'[p] = <<>> /\ pc'[p] = "idle"
      /\ \A q \in Processes \ {p} :
           /\ pc'[q] = pc[q] /\ holds'[q] = holds[q] /\ own'[q] = own[q]
           /\ todo'[q] = todo[q] /\ applied'[q] = applied[q]
  BY <1>0, <1>2 DEF TypeOK
<1>4. ~Begun(p)' /\ \A q \in Processes \ {p} : (Begun(q)' <=> Begun(q))
  BY <1>3 DEF Begun
<1>5. Locked' /\ \A q \in Processes \ {p} : Begun(p) => ~Begun(q)
  BY <1>0, <1>1, LockedStays
<1>6. Pending' \subseteq Pending
      /\ (\A q \in Processes \ {p} : Begun(q) => Pending' = Pending)
  BY <1>0, <1>1, <1>5, PendingOfEnds
<1>7. \A a : Root(a)' = Root(a)
  BY <1>2 DEF Root
<1>8. Prescribed'
  BY <1>0, <1>2, <1>3, PrescribedStays
<1>9. Owning'
  BY <1>0, <1>2, <1>3, <1>4, <1>6 DEF Owning
<1>10. Closing'
  BY <1>0, <1>2, <1>3, <1>4, <1>7 DEF Closing
<1>11. OneRoot'
  BY <1>0, <1>6, <1>7 DEF OneRoot
<1> QED BY <1>5, <1>8, <1>9, <1>10, <1>11 DEF Exclusive

LEMMA ExclusiveInduction ==
  ASSUME Typed, Exclusive, [Next]_vars
  PROVE  Exclusive'
<1>0. TypeOK /\ Locked /\ Owning /\ Prescribed /\ Closing /\ OneRoot
  BY DEF Typed, Exclusive
<1>1. CASE UNCHANGED vars
  BY <1>0, <1>1 DEF Exclusive, Locked, Owning, Prescribed, Closing, OneRoot,
                    Bound, Begun, Root, Pending, vars, ledger, local
<1>2. ASSUME NEW p \in Processes, NEW t \in Transitions \cup Recoveries, Admit(p, t)
      PROVE  Exclusive'
  <2>h. PICK h : h = NewAdmission(t, WorktreeOf[p])
    OBVIOUS
  <2>1. Bound(h)
    BY <1>2, <2>h, AdmissionsAreBound, ProcessesAreTyped DEF Admit
  <2>2. /\ holds' = [holds EXCEPT ![p] = h] /\ pc' = [pc EXCEPT ![p] = "admitted"]
        /\ pc[p] = "idle" /\ UNCHANGED <<admitted, journal, lock, own, todo, applied>>
    BY <1>2, <2>h DEF Admit, Goto, ledger
  <2>3. /\ holds'[p] = h /\ pc'[p] = "admitted"
        /\ \A q \in Processes \ {p} : pc'[q] = pc[q] /\ holds'[q] = holds[q]
    BY <1>0, <2>2 DEF TypeOK
  <2>4. \A q \in Processes : Begun(q)' <=> Begun(q)
    BY <2>2, <2>3 DEF Begun
  <2>5. Pending' = Pending /\ \A a : Root(a)' = Root(a)
    BY <2>2 DEF Pending, Root
  <2>6. Locked' /\ Owning' /\ Closing' /\ OneRoot'
    BY <1>0, <2>2, <2>3, <2>4, <2>5 DEF Locked, Owning, Closing, OneRoot
  <2>7. Prescribed'
    <3>1. Bound(h)'
      BY <2>1, <2>2, <2>5 DEF Bound
    <3>2. ASSUME NEW q \in Processes, pc'[q] # "idle"
          PROVE  Bound(holds[q])'
      BY <1>0, <2>1, <2>2, <2>3, <2>5, <3>2 DEF Prescribed, Bound
    <3>3. ASSUME NEW a \in DOMAIN admitted'
          PROVE  Bound(admitted[a])'
      BY <1>0, <2>2, <2>5, <3>3 DEF Prescribed, Bound
    <3> QED BY <3>2, <3>3 DEF Prescribed
  <2> QED BY <2>6, <2>7 DEF Exclusive
<1>3. ASSUME NEW p \in Processes, Acquire(p)
      PROVE  Exclusive'
  <2>1. /\ pc' = [pc EXCEPT ![p] = "locked"] /\ pc[p] = "admitted"
        /\ lock = NoProcess /\ lock' = p
        /\ UNCHANGED <<admitted, journal, holds, own, todo, applied>>
    BY <1>3 DEF Acquire, Goto, ledger, local
  <2>2. pc'[p] = "locked" /\ \A q \in Processes \ {p} : pc'[q] = pc[q]
    BY <1>0, <2>1 DEF TypeOK
  <2>3. \A q \in Processes : (Begun(q)' <=> Begun(q)) /\ (pc'[q] # "idle" => pc[q] # "idle")
    BY <2>1, <2>2 DEF Begun
  <2>4. Pending' = Pending /\ \A a : Root(a)' = Root(a)
    BY <2>1 DEF Pending, Root
  <2>5. Locked'
    BY <1>0, <2>1, <2>2, ProcessesAreTyped DEF Locked
  <2>6. Prescribed'
    BY <1>0, <2>1, <2>3, PrescribedStays
  <2>7. Owning' /\ Closing' /\ OneRoot'
    BY <1>0, <2>1, <2>3, <2>4 DEF Owning, Closing, OneRoot
  <2> QED BY <2>5, <2>6, <2>7 DEF Exclusive
<1>4. ASSUME NEW p \in Processes, Begins(p)
      PROVE  Exclusive'
  BY <1>4, ExclusiveBegins
<1>5. ASSUME NEW p \in Processes, Marking(p) \/ UndoFails(p)
      PROVE  Exclusive'
  <2>1. /\ Continues(p) /\ Pending' = Pending /\ todo' = todo
        /\ \A q \in Processes : Range(applied'[q]) \subseteq Range(applied[q])
        /\ \A q \in Processes \ {p} : applied'[q] = applied[q]
    <3>1. CASE Marking(p)
      <4>1. Marks(p)
        BY <1>0, <3>1, MarkingMarks
      <4> QED BY <4>1, PendingOfMarks DEF Marks
    <3>2. CASE UndoFails(p)
      <4>1. /\ Continues(p) /\ UNCHANGED <<ledger, todo>>
            /\ applied' = [applied EXCEPT ![p] = applied'[p]]
            /\ Range(applied'[p]) \subseteq Range(applied[p])
        BY <1>0, <3>2, UndoFailsFacts
      <4>2. \A q \in Processes \ {p} : applied'[q] = applied[q]
        BY <1>0, <4>1 DEF TypeOK
      <4>3. Pending' = Pending
        BY <4>1 DEF Pending, ledger
      <4> QED BY <4>1, <4>2, <4>3
    <3> QED BY <1>5, <3>1, <3>2
  <2>2. /\ Locked' /\ Prescribed'
        /\ \A q \in Processes : (Begun(q)' <=> Begun(q))
        /\ \A a : Root(a)' = Root(a) /\ Begun(p)
    BY <2>1, ContinuesStaysBound
  <2>3. UNCHANGED <<admitted, own>>
    BY <2>1 DEF Continues
  <2>4. Owning' /\ Closing' /\ OneRoot'
    BY <1>0, <2>1, <2>2, <2>3 DEF Owning, Closing, OneRoot
  <2> QED BY <2>2, <2>4 DEF Exclusive
<1>6. ASSUME NEW p \in Processes, Putting(p)
      PROVE  Exclusive'
  <2>0. PICK m \in Mutations : \E value \in {m.prior, m.next} : Puts(p, m, value)
    BY <1>0, <1>6, PuttingPuts
  <2> QED BY <2>0, ExclusivePuts
<1>7. ASSUME NEW p \in Processes, Ending(p)
      PROVE  Exclusive'
  BY <1>7, ExclusiveEnds
<1> QED BY <1>1, <1>2, <1>3, <1>4, <1>5, <1>6, <1>7, StepKinds DEF Next

LEMMA InitExclusive ==
  ASSUME Init
  PROVE  Exclusive
<1>1. DOMAIN <<>> = {} /\ \A S : <<>> \in Seq(S) /\ Len(<<>>) = 0
  BY EmptySeq
<1> QED BY <1>1 DEF Init, Exclusive, Locked, Owning, Prescribed, Closing, OneRoot,
                    Begun, Pending

\* The types and the one transaction at a time are an inductive invariant.
LEMMA ExclusiveAlways == Spec => [](Typed /\ Exclusive)
<1>1. Init => Typed /\ Exclusive
  BY InitTyped, InitExclusive
<1>2. Typed /\ Exclusive /\ [Next]_vars => (Typed /\ Exclusive)'
  BY TypedInduction, ExclusiveInduction
<1> QED BY <1>1, <1>2, PTL DEF Spec

\* Interrupted work never becomes a conflict: however many processes and
\* worktrees share the journals and wherever they stop, the pending journals
\* belong to one transaction, so its recovery always has something permitted
\* (observer.go L855-918).
THEOREM InterruptedWorkIsOneGroup == Spec => []OneGroup
<1>1. Typed /\ Exclusive => OneGroup
  <2> SUFFICES ASSUME Typed, Exclusive
               PROVE  OneGroup
    OBVIOUS
  <2>0. TypeOK /\ OneRoot
    BY DEF Typed, Exclusive
  <2>1. Groups(0) = {Root(a) : a \in Pending} /\ IsFiniteSet(Groups(0))
    BY <2>0, GroupsAreFinite, PendingIsFinite, SequencesAreFunctions DEF Groups
  <2>2. CASE Pending = {}
    BY <2>1, <2>2, FS_EmptySet DEF OneGroup
  <2>3. CASE Pending # {}
    <3>1. PICK a : a \in Pending
      BY <2>3
    <3>2. Groups(0) = {Root(a)}
      BY <2>0, <2>1, <3>1 DEF OneRoot
    <3>3. Cardinality(Groups(0)) = 1
      BY <2>1, <3>2, SingletonSet
    <3> QED BY <3>3 DEF OneGroup
  <2> QED BY <2>2, <2>3
<1> QED BY <1>1, ExclusiveAlways, PTL

-----------------------------------------------------------------------------
(***************************************************************************)
(* Receipts and commands.                                                  *)
(***************************************************************************)
\* What is known of p's command, and of the revision it has not yet advanced,
\* at each place: an uncertain command wrote nothing, so that it cannot pass
\* for a transition that advanced.
Told(p) ==
  LET outcome == command[own[p]]
      unmoved == state[holds[p].worktree].revision = holds[p].source.state.revision
      commanded == holds[p].transition \in Commanded
  IN  /\ pc[p] \in {"begun", "commanding"} => outcome = "none" /\ unmoved
      /\ pc[p] = "commanding" => commanded
      /\ pc[p] = "writing" => outcome = IF commanded THEN "passed" ELSE "none"
      /\ pc[p] = "written" => outcome = "uncertain" /\ unmoved
      /\ pc[p] = "observing" => /\ outcome = "uncertain" => unmoved
                                /\ commanded => outcome \in {"passed", "uncertain"}
      /\ pc[p] \in {"verified", "committing"} /\ commanded => outcome = "passed"

Receipted ==
  \A i \in DOMAIN receipts :
    /\ receipts[i].admission \in DOMAIN admitted
    /\ \A p \in Processes : Begun(p) => receipts[i].admission # own[p]

Certified ==
  /\ \A p \in Processes : Begun(p) => Told(p)
  /\ Receipted
  /\ ReceiptsCertifySettledEffects

LEMMA CertifiedWhenUntold ==
  ASSUME Typed, Exclusive, Certified, Extends, receipts' = receipts,
         \A a \in DOMAIN command : (\A q \in Processes : Begun(q) => a # own[q]) =>
                                     command'[a] = command[a],
         \A q \in Processes : Begun(q)' => Told(q)',
         \A q \in Processes : Begun(q)' => own'[q] \notin DOMAIN admitted
                                             \/ (Begun(q) /\ own'[q] = own[q])
  PROVE  Certified'
<1>0. TypeOK /\ Receipted /\ ReceiptsCertifySettledEffects /\ DOMAIN command = DOMAIN admitted
  BY SequencesAreFunctions DEF Typed, Certified
<1>1. Receipted'
  BY <1>0 DEF Receipted, Extends
<1>2. ReceiptsCertifySettledEffects'
  BY <1>0 DEF ReceiptsCertifySettledEffects, Receipted, Extends
<1> QED BY <1>1, <1>2 DEF Certified

LEMMA ToldMarks ==
  ASSUME Typed, Exclusive, NEW p \in Processes, Told(p), Marking(p)
  PROVE  Told(p)'
<1>0. TypeOK /\ Begun(p) /\ UNCHANGED <<admitted, holds, own, state>>
  BY MarkingMarks DEF Typed, Marks, Continues, files
<1>1. /\ own[p] \in DOMAIN command /\ command \in [DOMAIN command -> Outcomes]
      /\ pc \in [Processes -> Places]
      /\ holds[p].source.state.revision \in Nat
  <2>1. own[p] \in DOMAIN admitted /\ DOMAIN admitted = DOMAIN command
    BY <1>0, SequencesAreFunctions DEF Typed, Numbered
  <2>2. command \in Seq(Outcomes)
    BY <1>0 DEF TypeOK
  <2>3. holds[p] \in Admissions
    BY <1>0 DEF Typed, Engaged, Begun
  <2> QED BY <1>0, <2>1, <2>2, <2>3, LenProperties DEF TypeOK, Admissions, Snapshots, States
<1>2. \A place : Goto(p, place) => pc'[p] = place
  BY <1>1 DEF Goto
<1>3. \A v : command' = [command EXCEPT ![own[p]] = v] => command'[own[p]] = v
  BY <1>1
<1>4. holds[p].transition \in Uncertain \cup External => holds[p].transition \in Commanded
  BY TransitionsAreTyped
<1>5. CASE Stage(p)
  BY <1>0, <1>2, <1>5 DEF Stage, Told
<1>6. CASE StageFails(p) \/ InstallFails(p) \/ MarkFails(p) \/ CommitFails(p) \/ Archive(p)
             \/ Undone(p) \/ (UndoRest(p) /\ applied[p] = <<>>) \/ ObserveFails(p)
  <2>1. pc'[p] \in {"aborting", "unsettled", "undoing", "aborted"}
    BY <1>2, <1>6 DEF StageFails, InstallFails, MarkFails, CommitFails, Archive, Undone,
                      UndoRest, ObserveFails
  <2> QED BY <2>1 DEF Told
<1>7. CASE CommandPasses(p) \/ CommandFails(p) \/ CommandUncertain(p) \/ CommandRefused(p)
  <2>1. \/ command'[own[p]] = "passed" /\ pc'[p] = "writing"
        \/ pc'[p] \in {"undoing", "unsettled"}
        \/ /\ command'[own[p]] = "uncertain" /\ pc'[p] = "written"
           /\ holds[p].transition \in Uncertain
    BY <1>2, <1>3, <1>7 DEF CommandPasses, CommandFails, CommandUncertain, CommandRefused, Reported
  <2>2. pc[p] = "commanding"
    BY <1>7 DEF CommandPasses, CommandFails, CommandUncertain, CommandRefused, Reported
  <2> QED BY <1>0, <2>1, <2>2 DEF Told
<1>8. CASE Installed(p)
  <2>1. pc[p] \in {"written", "writing"} /\ pc'[p] = "observing" /\ command' = command
    BY <1>2, <1>8 DEF Installed
  <2> QED BY <1>0, <2>1 DEF Told
<1>9. CASE Observe(p)
  <2>1. command' = command /\ pc[p] = "observing"
    BY <1>9 DEF Observe, ledger
  <2>2. CASE TargetMatches(p) /\ AdvancedOnce(p)
    <3>1. state[holds[p].worktree].revision = holds[p].source.state.revision + 1
      BY <2>2 DEF AdvancedOnce
    <3>2. command[own[p]] # "uncertain"
      BY <1>1, <2>1, <3>1 DEF Told
    <3>3. pc'[p] # "observing" /\ pc'[p] \notin {"begun", "commanding", "writing", "written"}
      BY <1>2, <1>9, <2>2 DEF Observe
    <3> QED BY <1>0, <2>1, <3>2, <3>3 DEF Told
  <2>3. CASE ~(TargetMatches(p) /\ AdvancedOnce(p))
    <3>1. pc'[p] \in {"unsettled", "undoing"}
      BY <1>2, <1>9, <2>3 DEF Observe
    <3> QED BY <3>1 DEF Told
  <2> QED BY <2>2, <2>3
<1>10. CASE Finalize(p)
  <2>1. pc[p] = "verified" /\ pc'[p] = "committing" /\ command' = command
    BY <1>2, <1>10 DEF Finalize
  <2> QED BY <1>0, <2>1 DEF Told
<1> QED BY <1>5, <1>6, <1>7, <1>8, <1>9, <1>10 DEF Marking

LEMMA CertifiedInduction ==
  ASSUME Typed, Exclusive, Certified, [Next]_vars
  PROVE  Certified'
<1>0. /\ TypeOK /\ Receipted /\ ReceiptsCertifySettledEffects /\ DOMAIN command = DOMAIN admitted
      /\ \A q \in Processes : Begun(q) => Told(q) /\ own[q] \in DOMAIN admitted
  BY SequencesAreFunctions DEF Typed, Certified, Numbered
<1>1. CASE UNCHANGED vars
  BY <1>0, <1>1 DEF Certified, Told, Receipted, ReceiptsCertifySettledEffects, Begun,
                    vars, files, ledger, local
<1>2. ASSUME NEW p \in Processes, (\E t \in Transitions \cup Recoveries : Admit(p, t)) \/ Acquire(p)
      PROVE  Certified'
  <2>1. /\ UNCHANGED <<files, ledger, own>>
        /\ pc' = [pc EXCEPT ![p] = pc'[p]] /\ pc'[p] \in {"admitted", "locked"}
        /\ pc[p] \in {"idle", "admitted"}
        /\ \A q \in Processes \ {p} : holds'[q] = holds[q]
    <3>1. CASE Acquire(p)
      BY <1>0, <3>1 DEF Acquire, Goto, TypeOK, local
    <3>2. CASE \E t \in Transitions \cup Recoveries : Admit(p, t)
      BY <1>0, <3>2 DEF Admit, Goto, TypeOK
    <3> QED BY <1>2, <3>1, <3>2
  <2>2. \A q \in Processes \ {p} : pc'[q] = pc[q]
    BY <1>0, <2>1 DEF TypeOK
  <2>3. \A q \in Processes : Begun(q)' => Begun(q) /\ q # p
    BY <2>1, <2>2 DEF Begun
  <2>4. \A q \in Processes : Begun(q)' => Told(q)'
    BY <1>0, <2>1, <2>2, <2>3 DEF Told, files, ledger
  <2> QED BY <1>0, <2>1, <2>3, <2>4 DEF Certified, Receipted, ReceiptsCertifySettledEffects, ledger
<1>3. ASSUME NEW p \in Processes, Begins(p)
      PROVE  Certified'
  <2>n. PICK n : n = Len(admitted) + 1
    OBVIOUS
  <2>1. /\ Extends /\ DOMAIN admitted' = DOMAIN admitted \cup {n}
        /\ DOMAIN admitted = 1..Len(admitted) /\ n \notin DOMAIN admitted
    BY <1>0, <1>3, <2>n, LedgerExtends, SequencesAreFunctions
  <2>2. /\ command'[n] = "none" /\ \A a \in 1..Len(admitted) : command'[a] = command[a]
        /\ own' = [own EXCEPT ![p] = n] /\ pc' = [pc EXCEPT ![p] = "begun"]
        /\ UNCHANGED <<state, receipts, holds>>
    BY <1>3, <2>n, BeginsFacts DEF files
  <2>3. \A q \in Processes \ {p} : ~Begun(q)
    BY <1>3, BeginsOnOneGroup
  <2>4. /\ own'[p] = n /\ pc'[p] = "begun"
        /\ \A q \in Processes \ {p} : pc'[q] = pc[q]
    BY <1>0, <2>2 DEF TypeOK
  <2>5. \A q \in Processes : Begun(q)' => q = p
    BY <2>3, <2>4 DEF Begun
  <2>6. state[holds[p].worktree].revision = holds[p].source.state.revision
    BY <1>3, CurrentSource DEF Begins
  <2>7. Told(p)'
    BY <2>2, <2>4, <2>6 DEF Told
  <2> QED BY <1>0, <2>1, <2>2, <2>4, <2>5, <2>7, CertifiedWhenUntold
<1>4. ASSUME NEW p \in Processes, Marking(p)
      PROVE  Certified'
  <2>1. Marks(p) /\ Continues(p)
    BY <1>0, <1>4, MarkingMarks DEF Marks
  <2>2. /\ Begun(p) /\ \A q \in Processes \ {p} : ~Begun(q)
        /\ \A q \in Processes : (Begun(q)' <=> Begun(q))
    BY <2>1, ContinuesStaysBound
  <2>3. Told(p)'
    BY <1>0, <1>4, <2>2, ToldMarks
  <2>4. Extends /\ own' = own
    BY <2>1, ContinuesKeeps DEF Continues
  <2>5. receipts' = receipts /\ \A a \in DOMAIN command : a # own[p] => command'[a] = command[a]
    BY <2>1 DEF Marks
  <2> QED BY <2>2, <2>3, <2>4, <2>5, CertifiedWhenUntold
<1>5. ASSUME NEW p \in Processes, Putting(p) \/ UndoFails(p)
      PROVE  Certified'
  <2>1. /\ Continues(p) /\ UNCHANGED <<receipts, command>>
        /\ pc'[p] \in {"writing", "undoing", "undoing-in-part"}
        /\ pc'[p] = "writing" => pc[p] = "writing"
    <3>1. CASE Install(p)
      BY <1>0, <3>1, InstallFacts DEF Puts
    <3>2. CASE Undo(p) \/ (UndoRest(p) /\ applied[p] # <<>>)
      BY <1>0, <3>2, UndoFacts DEF Puts
    <3>3. CASE UndoFails(p)
      BY <1>0, <3>3, UndoFailsFacts DEF ledger
    <3> QED BY <1>5, <3>1, <3>2, <3>3 DEF Putting
  <2>2. /\ Begun(p) /\ \A q \in Processes \ {p} : ~Begun(q)
        /\ \A q \in Processes : (Begun(q)' <=> Begun(q))
    BY <2>1, ContinuesStaysBound
  <2>3. Extends /\ UNCHANGED <<own, holds>>
    BY <2>1, ContinuesKeeps DEF Continues
  <2>4. Told(p)'
    BY <1>0, <2>1, <2>2, <2>3 DEF Told
  <2> QED BY <2>1, <2>2, <2>3, <2>4, CertifiedWhenUntold
<1>6. ASSUME NEW p \in Processes, Ending(p)
      PROVE  Certified'
  <2>1. /\ Ends(p) /\ (Commit(p) \/ Abort(p) => Begun(p))
        /\ receipts' = IF Commit(p) THEN Append(receipts, Fact(p)) ELSE receipts
    BY <1>0, <1>6, EndingEnds
  <2>2. /\ pc' = [pc EXCEPT ![p] = "idle"] /\ holds' = [holds EXCEPT ![p] = NoAdmission]
        /\ own' = [own EXCEPT ![p] = 0] /\ UNCHANGED <<files, admitted, command>>
    BY <1>0, <2>1, NoAdmissionStep
  <2>3. /\ pc'[p] = "idle"
        /\ \A q \in Processes \ {p} : pc'[q] = pc[q] /\ own'[q] = own[q] /\ holds'[q] = holds[q]
    BY <1>0, <2>2 DEF TypeOK
  <2>4. \A q \in Processes : Begun(q)' => Begun(q) /\ q # p
    BY <2>3 DEF Begun
  <2>5. \A q \in Processes : Begun(q)' => Told(q)'
    BY <1>0, <2>2, <2>3, <2>4 DEF Told, files
  <2>6. CASE ~Commit(p)
    <3>1. receipts' = receipts
      BY <2>1, <2>6
    <3> QED BY <1>0, <2>2, <2>3, <2>4, <2>5, <3>1
            DEF Certified, Receipted, ReceiptsCertifySettledEffects
  <2>7. CASE Commit(p)
    <3>1. pc[p] = "committing" /\ Begun(p)
      BY <2>7 DEF Commit, Begun
    <3>2. /\ own[p] \in DOMAIN admitted /\ admitted[own[p]] = holds[p]
          /\ \A q \in Processes \ {p} : ~Begun(q)
      BY <3>1, <2>1, LockedStays DEF Typed, Numbered, Exclusive
    <3>3. holds[p].transition \in Commanded => command[own[p]] = "passed"
      BY <1>0, <3>1 DEF Told
    <3>4. Fact(p).admission = own[p]
      BY DEF Fact
    <3>5. receipts \in Seq(Facts)
      BY <1>0 DEF TypeOK
    <3>f. PICK f : f = Fact(p)
      OBVIOUS
    <3>6. /\ DOMAIN receipts' = DOMAIN receipts \cup {Len(receipts) + 1}
          /\ receipts'[Len(receipts) + 1] = Fact(p)
          /\ \A i \in DOMAIN receipts : receipts'[i] = receipts[i]
      <4>1. receipts' = Append(receipts, Fact(p))
        BY <2>1, <2>7
      <4> QED BY <3>5, <4>1, AppendProperties, LenProperties
    <3>7. Receipted'
      BY <1>0, <2>2, <2>4, <3>2, <3>4, <3>6 DEF Receipted
    <3>8. ReceiptsCertifySettledEffects'
      BY <1>0, <2>2, <3>2, <3>3, <3>4, <3>6 DEF ReceiptsCertifySettledEffects
    <3> QED BY <2>5, <3>7, <3>8 DEF Certified
  <2> QED BY <2>6, <2>7
<1> QED BY <1>1, <1>2, <1>3, <1>4, <1>5, <1>6, StepKinds DEF Next

LEMMA InitCertified ==
  ASSUME Init
  PROVE  Certified
<1>1. DOMAIN <<>> = {}
  OBVIOUS
<1> QED BY <1>1 DEF Init, Certified, Begun, Receipted, ReceiptsCertifySettledEffects

\* A receipt certifies a settled effect, also of a transition whose target
\* predicate held before it ran: an uncertain command leaves the revision
\* where it was, and a receipt wants it advanced (receipt.go L172).
THEOREM ReceiptsCertify == Spec => []ReceiptsCertifySettledEffects
<1>1. Init => Certified
  BY InitCertified
<1>2. Typed /\ Exclusive /\ Certified /\ [Next]_vars => Certified'
  BY CertifiedInduction
<1>3. Certified => ReceiptsCertifySettledEffects
  BY DEF Certified
<1> QED BY <1>1, <1>2, <1>3, ExclusiveAlways, PTL DEF Spec

\* The journal, the receipts and the mutations being applied are well formed,
\* and one process at a time works on them.
THEOREM TransactionIsTyped == Spec => []TypeOK
<1>1. Typed /\ Exclusive => TypeOK
  BY DEF Typed
<1> QED BY <1>1, ExclusiveAlways, PTL

-----------------------------------------------------------------------------
(***************************************************************************)
(* What the transaction and its recoveries leave behind, for a clone with  *)
(* one worktree.                                                           *)
(***************************************************************************)
OneWorktree == \E w : Worktrees = {w}

Here == CHOOSE w \in Worktrees : TRUE

-----------------------------------------------------------------------------
(***************************************************************************)
(* Plans: what an admission staged, or is about to.                        *)
(***************************************************************************)
\* The journals that were pending when it was admitted.
Before(h) == {x[1] : x \in h.source.pending}

Staged(a) == Range(journal[a].mutations)

\* The mutations M of one admission fit together: they start from what was
\* observed, advance the revision by one and end in a state that describes
\* the artifacts.
Whole(h, M) ==
  /\ \A m \in M : m.kind = "close" => m.at \in Before(h)
  /\ \A m, n \in M : m.kind = n.kind /\ m.kind # "close" => m = n
  /\ \A m \in M : m.kind = "artifact" =>
       m.prior = h.source.artifact /\ h.transition \notin External
  /\ M # {} => \E m \in M : m.kind = "state"
  /\ \A s \in M : s.kind = "state" =>
       /\ s.prior = h.source.state
       /\ s.next.revision = h.source.state.revision + 1
       /\ \/ s.next.escalated
          \/ \E m \in M : m.kind = "artifact" /\ m.next = s.next.effect
          \/ (\A m \in M : m.kind # "artifact") /\ s.next.effect = h.source.artifact
       /\ h.root = 0 =>
            /\ ~s.next.escalated
            /\ h.transition \in Local => s.next.publication = h.source.state.publication
            /\ h.transition \in External => s.next.publication = "published"

Planned ==
  /\ \A a \in DOMAIN admitted :
       /\ Whole(admitted[a], Staged(a))
       /\ \A b \in Before(admitted[a]) : b < a
       /\ admitted[a].root = 0 =>
            admitted[a].source.state.effect = admitted[a].source.artifact
  /\ \A p \in Processes : pc[p] = "begun" => Whole(holds[p], Range(todo[p]))

\* A state and artifacts that transaction r may have left when it stopped.
Between(r, s, x) ==
  /\ s = admitted[r].source.state
       \/ \E m \in Staged(r) : m.kind = "state" /\ s = m.next
  /\ x = admitted[r].source.artifact
       \/ \E m \in Staged(r) : m.kind = "artifact" /\ x = m.next

\* A recovery that found only the transaction it recovers found it like that.
Found ==
  \A a \in DOMAIN admitted :
    admitted[a].root # 0 /\ Before(admitted[a]) = {admitted[a].root} =>
      Between(admitted[a].root, admitted[a].source.state, admitted[a].source.artifact)

-----------------------------------------------------------------------------
(***************************************************************************)
(* A transaction under way, and none.                                      *)
(***************************************************************************)
Done(M) ==
  \A m \in M : /\ m.kind = "state" => state[Here] = m.next
               /\ m.kind = "artifact" => artifact[Here] = m.next

\* Whatever is not as it was found is among the mutations of M.
Within(h, M) ==
  /\ state[Here] = h.source.state \/ \E m \in M : m.kind = "state" /\ state[Here] = m.next
  /\ artifact[Here] = h.source.artifact
       \/ \E m \in M : m.kind = "artifact" /\ artifact[Here] = m.next

Course(p) ==
  LET h == holds[p] a == own[p] IN
  /\ Pending \subseteq Before(h) \cup {a}
  /\ Range(applied[p]) \subseteq Staged(a)
  /\ Within(h, Staged(a))
  /\ pc[p] = "begun" => Staged(a) = {}
  /\ pc[p] \in {"begun", "commanding", "written", "aborting", "aborted"} => applied[p] = <<>>
  /\ pc[p] \notin {"undoing-in-part", "unsettled"} =>
       /\ Within(h, Range(applied[p]))
       /\ \A b \in Before(h) :
            b \in Pending \/ \E m \in Range(applied[p]) : m.kind = "close" /\ m.at = b
  /\ pc[p] \in {"commanding", "writing"} =>
       Staged(a) = Range(todo[p]) \cup Range(applied[p]) /\ Done(Range(applied[p]))
  /\ pc[p] \in {"verified", "committing"}
       \/ (pc[p] = "observing" /\ command[a] # "uncertain") => Done(Staged(a))
  /\ pc[p] \in {"verified", "committing"} => Pending = {a} /\ AdvancedOnce(p)

Quiet == \A p \in Processes : ~Begun(p)

Left ==
  /\ Pending = {} => state[Here].escalated \/ artifact[Here] = state[Here].effect
  /\ \A r \in Pending : Pending = {r} /\ admitted[r].root = 0 =>
       Between(r, state[Here], artifact[Here])

Sound ==
  /\ Planned /\ Found
  /\ \A p \in Processes : Begun(p) => Course(p)
  /\ Quiet => Left

-----------------------------------------------------------------------------
(***************************************************************************)
(* Revisions and receipts.                                                 *)
(***************************************************************************)
LastResult == IF receipts = <<>> THEN 1 ELSE receipts[Len(receipts)].result

Chained ==
  /\ \A i \in DOMAIN receipts :
       /\ receipts[i].worktree = Here
       /\ receipts[i].result = receipts[i].prior + 1
       /\ receipts[i].result <= LastResult
       /\ receipts[i].prior = admitted[receipts[i].admission].source.state.revision
  /\ \A i, j \in DOMAIN receipts : i < j => receipts[i].result <= receipts[j].prior

Accounted ==
  /\ Chained
  /\ \A p \in Processes : Begun(p) =>
       /\ holds[p].source.state.revision >= LastResult
       /\ Before(holds[p]) = {} => holds[p].source.state.revision = LastResult
  /\ Quiet =>
       /\ state[Here].revision >= LastResult
       /\ Pending = {} => state[Here].revision = LastResult

\* No transaction begins while another is being recovered.
Newest ==
  \A b \in DOMAIN admitted : admitted[b].root = 0 =>
    /\ \A c \in Pending : b <= Root(c)
    /\ \A p \in Processes : Begun(p) => \A c \in Before(holds[p]) : b <= Root(c)

Ordinal ==
  /\ Newest
  /\ \A a \in DOMAIN admitted :
       admitted[a].source.state.revision >= admitted[Root(a)].source.state.revision
  /\ Quiet => \A c \in Pending :
       state[Here].revision >= admitted[Root(c)].source.state.revision
  /\ \A i \in DOMAIN receipts : \A b \in DOMAIN admitted :
       admitted[b].root = 0 /\ b > Root(receipts[i].admission) =>
         receipts[i].result <= admitted[b].source.state.revision

-----------------------------------------------------------------------------
(***************************************************************************)
(* External effects.                                                       *)
(***************************************************************************)
Reached(a) ==
  admitted[a].transition \in External /\ command[a] \in {"passed", "uncertain"}

Shut(s) == s.escalated \/ s.publication # "candidate"

Barred ==
  /\ \A a, b \in DOMAIN admitted : Reached(a) /\ Reached(b) => a = b
  /\ \A a, b \in DOMAIN admitted : Reached(a) /\ admitted[b].root = 0 /\ b > a =>
       admitted[b].source.state.publication # "candidate"
  /\ \A p \in Processes : Begun(p) =>
       /\ \A a \in DOMAIN admitted : Reached(a) /\ a # own[p] =>
            /\ (Root(own[p]) = a /\ Before(holds[p]) # {}) \/ Shut(holds[p].source.state)
            /\ \A m \in (IF pc[p] = "begun" THEN Range(todo[p]) ELSE Staged(own[p])) :
                 m.kind = "state" => Shut(m.next)
       /\ pc[p] \in {"aborting", "aborted"} => command[own[p]] \in {"none", "failed"}
       /\ pc[p] = "undoing" => command[own[p]] # "uncertain"
  /\ Quiet => \A a \in DOMAIN admitted : Reached(a) =>
       (Pending # {} /\ \A c \in Pending : Root(c) = a) \/ Shut(state[Here])

-----------------------------------------------------------------------------
(***************************************************************************)
(* Plans are whole.                                                        *)
(***************************************************************************)
LEMMA OnlyHere ==
  ASSUME OneWorktree, NEW w \in Worktrees
  PROVE  w = Here /\ Here \in Worktrees
BY DEF OneWorktree, Here

LEMMA MutationsAreHere ==
  ASSUME OneWorktree, NEW m \in Mutations, m.kind # "close"
  PROVE  m.at = Here /\ m.kind \in {"state", "artifact"}
BY OnlyHere DEF Mutations

\* An interrupted external transaction leaves the artifacts alone.
LEMMA ExternalLeavesArtifacts ==
  ASSUME NEW r \in DOMAIN admitted, NEW s, NEW x, Between(r, s, x),
         Whole(admitted[r], Staged(r)), admitted[r].root = 0,
         admitted[r].source.state.effect = admitted[r].source.artifact,
         admitted[r].transition \in External
  PROVE  s.effect = x
BY DEF Between, Whole

LEMMA NextStateCases ==
  ASSUME TypeOK, NEW h \in Admissions, NEW a \in Nat, NEW seen \in {"open", "unavailable"},
         ~IsReplay(h)
  PROVE  LET s == state[h.worktree] v == NextState(h, a, seen)
         IN  /\ v.revision = s.revision + 1
             /\ h.transition \in Local =>
                  v.effect = a /\ v.publication = s.publication /\ v.escalated = s.escalated
             /\ h.transition \in External =>
                  v.effect = s.effect /\ v.publication = "published" /\ v.escalated = s.escalated
             /\ h.transition = "publication.reconcile" =>
                  v.effect = s.effect /\ v.publication = seen
             /\ h.transition = "recovery.escalate" => v.escalated
<1> DEFINE s == Advance(state[h.worktree])
<1>1. /\ s \in States /\ s.revision = state[h.worktree].revision + 1
      /\ s.effect = state[h.worktree].effect /\ s.publication = state[h.worktree].publication
      /\ s.escalated = state[h.worktree].escalated
  <2>1. state[h.worktree] \in States
    BY DEF TypeOK, Admissions
  <2> QED BY <2>1 DEF Advance, States
<1> HIDE DEF s
<1>2. CASE h.transition \in Local
  <2>1. NextState(h, a, seen) = [s EXCEPT !.effect = a]
    <3>1. h.transition \notin External /\ h.transition \notin Recoveries
      BY <1>2, TransitionsAreTyped DEF Transitions
    <3> QED BY <1>2, <3>1 DEF NextState, s, Recoveries
  <2> QED BY <1>1, <1>2, <2>1, TransitionsAreTyped DEF States, Transitions, Recoveries
<1>3. CASE h.transition \in External
  <2>1. NextState(h, a, seen) = [s EXCEPT !.publication = "published"]
    <3>1. h.transition \notin Local /\ h.transition \notin Recoveries
      BY <1>3, TransitionsAreTyped DEF Transitions
    <3> QED BY <1>3, <3>1 DEF NextState, s, Recoveries
  <2> QED BY <1>1, <1>3, <2>1, TransitionsAreTyped DEF States, Transitions, Recoveries
<1>4. CASE h.transition = "publication.reconcile"
  <2>0. h.transition \notin Local /\ h.transition \notin External
    BY <1>4, TransitionsAreTyped DEF Transitions, Recoveries
  <2>1. NextState(h, a, seen) = [s EXCEPT !.publication = seen]
    BY <1>4, <2>0 DEF NextState, s
  <2> QED BY <1>1, <1>4, <2>0, <2>1 DEF States
<1>5. CASE h.transition = "recovery.escalate"
  <2>0. h.transition \notin Local /\ h.transition \notin External
    BY <1>5, TransitionsAreTyped DEF Transitions, Recoveries
  <2>1. NextState(h, a, seen) = [s EXCEPT !.escalated = TRUE]
    BY <1>5, <2>0 DEF NextState, s
  <2> QED BY <1>1, <1>5, <2>0, <2>1 DEF States
<1> QED BY <1>2, <1>3, <1>4, <1>5 DEF Admissions, Transitions, Recoveries, IsReplay

LEMMA WholeWrites ==
  ASSUME Typed, NEW h \in Admissions, Grounded(h), ~IsReplay(h), IsCurrent(h),
         NEW n \in Nat, NEW seen \in {"open", "unavailable"},
         h.transition \in Transitions => ~h.source.state.escalated,
         h.transition \in External \cup {"publication.reconcile"} =>
           h.source.state.effect = h.source.artifact
  PROVE  Whole(h, WritesOf(h, n, seen))
<1> DEFINE w == h.worktree
           v == NextState(h, n, seen)
           written == WriteState(w, v)
           added == WriteArtifact(w, n)
           closes == {Close(x) : x \in IF h.transition \in Recoveries THEN Pending ELSE {}}
           M == WritesOf(h, n, seen)
<1>1. /\ written.kind = "state" /\ written.prior = state[w] /\ written.next = v
      /\ added.kind = "artifact" /\ added.prior = artifact[w] /\ added.next = n
      /\ \A m \in closes : m.kind = "close" /\ m.at \in Pending
  BY DEF WriteState, WriteArtifact, Close
<1>2. M = (IF h.transition \in Local THEN {added} ELSE {}) \cup {written} \cup closes
  BY DEF WritesOf
<1>3. /\ h.source.state = state[w] /\ h.source.artifact = artifact[w] /\ Pending = Before(h)
  BY CurrentSource DEF Before
<1>4. /\ v.revision = state[w].revision + 1
      /\ h.transition \in Local =>
           v.effect = n /\ v.publication = state[w].publication /\ v.escalated = state[w].escalated
      /\ h.transition \in External =>
           v.effect = state[w].effect /\ v.publication = "published" /\ v.escalated = state[w].escalated
      /\ h.transition = "publication.reconcile" => v.effect = state[w].effect
      /\ h.transition = "recovery.escalate" => v.escalated
  BY NextStateCases DEF Typed
<1>5. /\ h.transition \in Local => h.transition \notin External /\ h.root = 0
      /\ h.transition \in External => h.root = 0
      /\ h.root = 0 => h.transition \in Transitions
      /\ \/ h.transition \in Local \/ h.transition \in External
         \/ h.transition = "publication.reconcile" \/ h.transition = "recovery.escalate"
      /\ h.transition \in {"publication.reconcile", "recovery.escalate"} => h.root # 0
  <2>1. h.transition \in Recoveries => h.root # 0
    BY SequencesAreFunctions DEF Typed, Grounded
  <2> QED BY <2>1, TransitionsAreTyped DEF Admissions, Transitions, Recoveries, IsReplay, Grounded
<1> HIDE DEF w, v, written, added, closes, M
<1>6. \A m \in M : m.kind = "close" => m.at \in Before(h)
  BY <1>1, <1>2, <1>3
<1>7. \A m1, m2 \in M : m1.kind = m2.kind /\ m1.kind # "close" => m1 = m2
  BY <1>1, <1>2
<1>8. \A m \in M : m.kind = "artifact" => m.prior = h.source.artifact /\ h.transition \notin External
  BY <1>1, <1>2, <1>3, <1>5
<1>9. \E m \in M : m.kind = "state"
  BY <1>1, <1>2
<1>10. ASSUME NEW s \in M, s.kind = "state"
       PROVE  /\ s.prior = h.source.state
              /\ s.next.revision = h.source.state.revision + 1
              /\ \/ s.next.escalated
                 \/ \E m \in M : m.kind = "artifact" /\ m.next = s.next.effect
                 \/ (\A m \in M : m.kind # "artifact") /\ s.next.effect = h.source.artifact
              /\ h.root = 0 =>
                   /\ ~s.next.escalated
                   /\ h.transition \in Local => s.next.publication = h.source.state.publication
                   /\ h.transition \in External => s.next.publication = "published"
  <2>1. s = written
    BY <1>1, <1>2, <1>10
  <2>2. s.prior = h.source.state /\ s.next.revision = h.source.state.revision + 1
    BY <1>1, <1>3, <1>4, <2>1
  <2>3. \/ s.next.escalated
        \/ \E m \in M : m.kind = "artifact" /\ m.next = s.next.effect
        \/ (\A m \in M : m.kind # "artifact") /\ s.next.effect = h.source.artifact
    BY <1>1, <1>2, <1>3, <1>4, <1>5, <2>1
  <2>4. h.root = 0 =>
                   /\ ~s.next.escalated
                   /\ h.transition \in Local => s.next.publication = h.source.state.publication
                   /\ h.transition \in External => s.next.publication = "published"
    BY <1>1, <1>3, <1>4, <1>5, <2>1
  <2> QED BY <2>2, <2>3, <2>4
<1> QED BY <1>6, <1>7, <1>8, <1>9, <1>10 DEF Whole, M

LEMMA WholeReplay ==
  ASSUME Typed, OneWorktree, NEW h \in Admissions, Grounded(h), IsReplay(h), IsCurrent(h),
         Before(h) = {h.root}, Between(h.root, h.source.state, h.source.artifact),
         Whole(admitted[h.root], Staged(h.root)),
         admitted[h.root].source.state.effect = admitted[h.root].source.artifact,
         h.transition = "recovery.resume" => journal[h.root].mutations # <<>>
  PROVE  Whole(h, ReplayOf(h))
<1> DEFINE r == h.root
           g == admitted[r]
           staged == Staged(r)
           resume == h.transition = "recovery.resume"
           revision == h.source.state.revision + 1
           again(m) == Restored(m, resume, revision)
           M == ReplayOf(h)
<1>0. /\ TypeOK /\ h.root \in DOMAIN admitted /\ admitted[h.root].root = 0 /\ h.root # 0
      /\ h.transition \notin External /\ h.worktree = Here /\ Here \in Worktrees
  <2>1. TypeOK /\ h.root \in DOMAIN admitted /\ admitted[h.root].root = 0
    BY DEF Typed, Grounded, IsReplay, Recoveries
  <2>2. h.transition \notin External
    BY TransitionsAreTyped DEF IsReplay, Transitions, Recoveries
  <2>3. h.worktree \in Worktrees
    BY DEF Admissions
  <2> QED BY <2>1, <2>2, <2>3, OnlyHere, SequencesAreFunctions
<1>1. h.source.state = state[Here] /\ h.source.artifact = artifact[Here]
  BY <1>0, CurrentSource
<1>2. \A m \in staged : m \in Mutations /\ m.kind # "close"
  BY <1>0, PreparedReplay DEF Typed, Staged
<1>3. revision \in Nat \ {0} /\ revision = h.source.state.revision + 1
  BY DEF Admissions, Snapshots, States
<1>4. CASE journal[r].mutations = <<>>
  <2>1. M = {Close(r), WriteState(h.worktree, Advance(state[h.worktree]))}
    BY <1>4 DEF ReplayOf
  <2>2. staged = {}
    BY <1>4 DEF Staged, Range
  <2>3. h.source.state = g.source.state /\ h.source.artifact = g.source.artifact
    BY <2>2 DEF Between
  <2>4. /\ Advance(state[Here]).revision = state[Here].revision + 1
        /\ Advance(state[Here]).effect = state[Here].effect
    <3>1. state[Here] \in States
      BY <1>0 DEF TypeOK
    <3> QED BY <3>1 DEF Advance, States
  <2> DEFINE s == WriteState(h.worktree, Advance(state[h.worktree]))
             c == Close(r)
  <2>5. /\ s.kind = "state" /\ s.prior = state[Here] /\ s.next = Advance(state[Here])
        /\ c.kind = "close" /\ c.at = r
    BY <1>0 DEF WriteState, Close
  <2> HIDE DEF s, c
  <2>6. M = {c, s}
    BY <2>1 DEF s, c
  <2> HIDE DEF M
  <2> QED BY <1>0, <1>1, <2>3, <2>4, <2>5, <2>6 DEF Whole, M
<1>5. CASE journal[r].mutations # <<>>
  <2>1. M = {Close(r)} \cup {again(m) : m \in staged}
    BY <1>5 DEF ReplayOf, Staged
  <2>2. staged # {}
    <3>1. journal[r].mutations \in Seq(Mutations)
      BY <1>0, SequencesAreFunctions DEF Journals
    <3> QED BY <1>5, <3>1, HeadAndTail DEF Staged
  <2>3. PICK sm \in staged : sm.kind = "state"
    BY <2>2 DEF Whole
  <2>4. \A m \in staged :
          LET value == IF resume THEN m.next ELSE m.prior IN
          /\ m.kind = "state" =>
               /\ m = sm
               /\ again(m).kind = "state" /\ again(m).prior = state[Here]
               /\ again(m).next = [value EXCEPT !.revision = revision] /\ value \in States
          /\ m.kind # "state" =>
               /\ m.kind = "artifact" /\ again(m).kind = "artifact"
               /\ again(m).prior = artifact[Here] /\ again(m).next = value
    <3> SUFFICES ASSUME NEW m \in staged
                 PROVE  LET value == IF resume THEN m.next ELSE m.prior IN
                        /\ m.kind = "state" =>
                             /\ m = sm
                             /\ again(m).kind = "state" /\ again(m).prior = state[Here]
                             /\ again(m).next = [value EXCEPT !.revision = revision] /\ value \in States
                        /\ m.kind # "state" =>
                             /\ m.kind = "artifact" /\ again(m).kind = "artifact"
                             /\ again(m).prior = artifact[Here] /\ again(m).next = value
      OBVIOUS
    <3> DEFINE value == IF resume THEN m.next ELSE m.prior
    <3>1. m \in Mutations /\ m.kind # "close" /\ m.at = Here /\ m.kind \in {"state", "artifact"}
      BY <1>2, MutationsAreHere
    <3>2. /\ m.kind = "state" =>
                  /\ again(m) = WriteState(m.at, [value EXCEPT !.revision = revision])
                  /\ value \in States
          /\ m.kind # "state" => again(m) = WriteArtifact(m.at, value)
      <4> HIDE DEF revision
      <4> QED BY <1>0, <1>3, <3>1, RestoredMutation
    <3>3. m.kind = "state" => m = sm
      BY <2>3 DEF Whole
    <3> DEFINE advanced == [value EXCEPT !.revision = revision]
    <3>4. m.kind = "state" => again(m) = WriteState(Here, advanced)
      BY <3>1, <3>2
    <3>5. m.kind # "state" => again(m) = WriteArtifact(Here, value)
      BY <3>1, <3>2
    <3> HIDE DEF advanced, again, value, M, staged
    <3>6. m.kind = "state" => /\ again(m).kind = "state" /\ again(m).prior = state[Here]
                              /\ again(m).next = advanced
      BY <3>4 DEF WriteState
    <3>7. m.kind # "state" => /\ again(m).kind = "artifact" /\ again(m).prior = artifact[Here]
                              /\ again(m).next = value
      BY <3>5 DEF WriteArtifact
    <3> QED BY <3>1, <3>2, <3>3, <3>6, <3>7 DEF advanced, value
  <2> DEFINE c == Close(r)
             value == IF resume THEN sm.next ELSE sm.prior
  <2>5. c.kind = "close" /\ c.at = r /\ Close(r) = c
    BY DEF Close
  <2>6. /\ again(sm).kind = "state" /\ again(sm).prior = h.source.state
        /\ again(sm).next.revision = h.source.state.revision + 1
        /\ again(sm).next.effect = value.effect /\ again(sm).next.escalated = value.escalated
    <3>1. /\ again(sm).kind = "state" /\ again(sm).prior = state[Here]
          /\ again(sm).next = [value EXCEPT !.revision = revision] /\ value \in States
      BY <2>3, <2>4
    <3> HIDE DEF value, again, revision
    <3>2. /\ again(sm).next.revision = revision
          /\ again(sm).next.effect = value.effect /\ again(sm).next.escalated = value.escalated
      BY <3>1 DEF States
    <3> QED BY <1>1, <1>3, <3>1, <3>2
  <2>7. \/ \E m \in staged : /\ m.kind = "artifact"
                             /\ (IF resume THEN m.next ELSE m.prior) = value.effect
        \/ (\A m \in staged : m.kind # "artifact") /\ value.effect = h.source.artifact
    <3>1. CASE resume
      <4>1. ~sm.next.escalated
        BY <1>0, <2>3 DEF Whole
      <4>2. CASE \E m \in staged : m.kind = "artifact" /\ m.next = sm.next.effect
        BY <3>1, <4>2
      <4>3. CASE (\A m \in staged : m.kind # "artifact") /\ sm.next.effect = g.source.artifact
        BY <3>1, <4>3 DEF Between
      <4> QED BY <2>3, <4>1, <4>2, <4>3 DEF Whole
    <3>2. CASE ~resume
      <4>1. sm.prior = g.source.state /\ value.effect = g.source.artifact
        BY <2>3, <3>2 DEF Whole
      <4>2. CASE \E m \in staged : m.kind = "artifact"
        BY <3>2, <4>1, <4>2 DEF Whole
      <4>3. CASE \A m \in staged : m.kind # "artifact"
        BY <4>1, <4>3 DEF Between
      <4> QED BY <4>2, <4>3
    <3> QED BY <3>1, <3>2
  <2>k. \A m \in staged : m.kind # "state" =>
          /\ m.kind = "artifact" /\ again(m).kind = "artifact" /\ again(m).prior = h.source.artifact
          /\ again(m).next = IF resume THEN m.next ELSE m.prior
    BY <1>1, <2>4
  <2>l. \A m \in staged : again(m).kind = m.kind
    <3> SUFFICES ASSUME NEW m \in staged
                 PROVE  again(m).kind = m.kind
      OBVIOUS
    <3>1. m.kind = "state" => again(m).kind = "state"
      BY <2>4
    <3> HIDE DEF again, staged
    <3> QED BY <3>1, <2>k
  <2> HIDE DEF c, value, again, M, staged, resume
  <2>8. \A m \in M : m = c \/ \E k \in staged : m = again(k)
    BY <2>1, <2>5
  <2>9. \A m \in M : m.kind = "close" => m.at \in Before(h)
    BY <2>4, <2>5, <2>8
  <2>10. \A m1, m2 \in M : m1.kind = m2.kind /\ m1.kind # "close" => m1 = m2
    <3>1. \A k1, k2 \in staged : k1.kind = k2.kind => k1 = k2
      BY <1>2 DEF Whole, staged
    <3>2. \A k \in staged : again(k).kind = k.kind
      BY <2>4
    <3> QED BY <2>5, <2>8, <3>1, <3>2
  <2>11. \A m \in M : m.kind = "artifact" => m.prior = h.source.artifact /\ h.transition \notin External
    BY <1>0, <2>k, <2>l, <2>5, <2>8
  <2>12. again(sm) \in M /\ again(sm).kind = "state"
    BY <2>1, <2>3, <2>6
  <2>13. \A s \in M : s.kind = "state" => s = again(sm)
    BY <2>10, <2>12
  <2>14. \/ \E m \in M : m.kind = "artifact" /\ m.next = value.effect
         \/ (\A m \in M : m.kind # "artifact") /\ value.effect = h.source.artifact
    BY <2>1, <2>k, <2>l, <2>5, <2>7, <2>8
  <2> QED BY <1>0, <2>6, <2>9, <2>10, <2>11, <2>12, <2>13, <2>14 DEF Whole, M
<1> QED BY <1>4, <1>5

-----------------------------------------------------------------------------
(***************************************************************************)
(* What a transaction leaves behind.                                       *)
(***************************************************************************)
LEMMA StagedStays ==
  ASSUME TypeOK, JournalsKept,
         \A a \in DOMAIN journal : journal'[a].mutations = journal[a].mutations
  PROVE  \A a \in DOMAIN admitted : Staged(a)' = Staged(a)
<1>1. DOMAIN journal = DOMAIN admitted
  BY SequencesAreFunctions
<1> QED BY <1>1 DEF Staged

LEMMA PlansStay ==
  ASSUME Typed, Planned, Found, UNCHANGED admitted,
         \A a \in DOMAIN admitted : Staged(a)' = Staged(a),
         \A q \in Processes : pc'[q] = "begun" =>
           pc[q] = "begun" /\ holds'[q] = holds[q] /\ todo'[q] = todo[q]
  PROVE  Planned' /\ Found'
<1>1. Planned'
  BY DEF Planned
<1>2. \A a \in DOMAIN admitted : admitted[a].root # 0 => admitted[a].root \in DOMAIN admitted
  BY DEF Typed, Rooted, Grounded
<1>3. Found'
  BY <1>2 DEF Found, Between
<1> QED BY <1>1, <1>3

\* Whatever is not a beginning or an end of a transaction.
LEMMA OtherSteps ==
  ASSUME Typed, Exclusive, [Next]_vars
  PROVE  \/ \E p \in Processes : Begins(p)
         \/ \E p \in Processes : Ending(p) /\ Begun(p)
         \/ /\ \E p \in Processes : Marking(p) \/ Putting(p) \/ UndoFails(p)
            /\ UNCHANGED <<admitted, receipts, holds, own>> /\ Extends
            /\ \A q \in Processes : Begun(q)' <=> Begun(q)
            /\ \E q \in Processes : Begun(q)
         \/ /\ UNCHANGED <<files, ledger>> /\ Extends /\ Pending' = Pending
            /\ \A q \in Processes : Begun(q)' <=> Begun(q)
            /\ \A q \in Processes : Begun(q) =>
                 /\ pc'[q] = pc[q] /\ holds'[q] = holds[q] /\ own'[q] = own[q]
                 /\ todo'[q] = todo[q] /\ applied'[q] = applied[q]
<1>0. TypeOK
  BY DEF Typed
<1>1. UNCHANGED <<files, ledger>> => Extends /\ Pending' = Pending
  BY DEF ledger, Extends, Pending
<1>2. CASE UNCHANGED vars
  BY <1>1, <1>2 DEF vars, local, Begun
<1>3. ASSUME NEW p \in Processes, (\E t \in Transitions \cup Recoveries : Admit(p, t)) \/ Acquire(p)
      PROVE  /\ UNCHANGED <<files, ledger>>
             /\ \A q \in Processes : Begun(q)' <=> Begun(q)
             /\ \A q \in Processes : Begun(q) =>
                 /\ pc'[q] = pc[q] /\ holds'[q] = holds[q] /\ own'[q] = own[q]
                 /\ todo'[q] = todo[q] /\ applied'[q] = applied[q]
  <2>1. /\ UNCHANGED <<files, ledger, own, todo, applied>>
        /\ pc' = [pc EXCEPT ![p] = pc'[p]] /\ pc'[p] \in {"admitted", "locked"}
        /\ pc[p] \in {"idle", "admitted"}
        /\ \A q \in Processes \ {p} : holds'[q] = holds[q]
    <3>1. CASE Acquire(p)
      BY <1>0, <3>1 DEF Acquire, Goto, TypeOK, local
    <3>2. CASE \E t \in Transitions \cup Recoveries : Admit(p, t)
      BY <1>0, <3>2 DEF Admit, Goto, TypeOK
    <3> QED BY <1>3, <3>1, <3>2
  <2>2. \A q \in Processes \ {p} : pc'[q] = pc[q]
    BY <1>0, <2>1 DEF TypeOK
  <2>3. \A q \in Processes : (Begun(q)' <=> Begun(q)) /\ (Begun(q) => q # p)
    BY <2>1, <2>2 DEF Begun
  <2> QED BY <2>1, <2>2, <2>3
<1>4. ASSUME NEW p \in Processes, Ending(p), ~Begun(p)
      PROVE  /\ UNCHANGED <<files, ledger>>
             /\ \A q \in Processes : Begun(q)' <=> Begun(q)
             /\ \A q \in Processes : Begun(q) =>
                 /\ pc'[q] = pc[q] /\ holds'[q] = holds[q] /\ own'[q] = own[q]
                 /\ todo'[q] = todo[q] /\ applied'[q] = applied[q]
  <2>1. Ends(p) /\ ~Commit(p) /\ ~Abort(p)
    BY <1>0, <1>4, EndingEnds
  <2>2. UNCHANGED <<files, ledger>>
    <3>1. pc[p] # "unsettled"
      BY <1>4 DEF Begun
    <3> QED BY <1>4, <2>1, <3>1 DEF Ending, RequireRecovery, Stop, Refuses, files, ledger
  <2>3. /\ pc' = [pc EXCEPT ![p] = "idle"] /\ holds' = [holds EXCEPT ![p] = NoAdmission]
        /\ own' = [own EXCEPT ![p] = 0]
        /\ todo' = [todo EXCEPT ![p] = <<>>] /\ applied' = [applied EXCEPT ![p] = <<>>]
    BY <1>0, <2>1, NoAdmissionStep
  <2>4. \A q \in Processes : Begun(q)' <=> Begun(q)
    BY <1>4, <2>1, EndsKeeps
  <2>5. \A q \in Processes : Begun(q) =>
           /\ pc'[q] = pc[q] /\ holds'[q] = holds[q] /\ own'[q] = own[q]
           /\ todo'[q] = todo[q] /\ applied'[q] = applied[q]
    BY <1>0, <1>4, <2>3 DEF TypeOK
  <2> QED BY <2>2, <2>4, <2>5
<1>5. ASSUME NEW p \in Processes, Marking(p) \/ Putting(p) \/ UndoFails(p)
      PROVE  /\ UNCHANGED <<admitted, receipts, holds, own>> /\ Extends
             /\ \A q \in Processes : Begun(q)' <=> Begun(q)
             /\ Begun(p)
  <2>1. Continues(p) /\ UNCHANGED receipts
    <3>1. CASE Marking(p)
      BY <1>0, <3>1, MarkingMarks DEF Marks
    <3>2. CASE Putting(p)
      BY <1>0, <3>2, PuttingPuts DEF Puts
    <3>3. CASE UndoFails(p)
      BY <1>0, <3>3, UndoFailsFacts DEF ledger
    <3> QED BY <1>5, <3>1, <3>2, <3>3
  <2> QED BY <2>1, ContinuesStaysBound, ContinuesKeeps DEF Continues
<1> QED BY <1>1, <1>2, <1>3, <1>4, <1>5, StepKinds DEF Next

\* Steps of processes that have not begun change nothing that matters here.
LEMMA SoundWhenAlike ==
  ASSUME Typed, Sound, UNCHANGED <<files, ledger>>,
         \A q \in Processes : Begun(q)' <=> Begun(q),
         \A q \in Processes : Begun(q) =>
           /\ pc'[q] = pc[q] /\ holds'[q] = holds[q] /\ own'[q] = own[q]
           /\ todo'[q] = todo[q] /\ applied'[q] = applied[q]
  PROVE  Sound'
<1>0. Planned /\ Found
  BY DEF Sound
<1>1. UNCHANGED <<state, artifact, admitted, journal, command>> /\ Pending' = Pending
  BY DEF files, ledger, Pending
<1>2. \A a : Staged(a)' = Staged(a)
  BY <1>1 DEF Staged
<1>3. Planned' /\ Found'
  <2>1. \A q \in Processes : pc'[q] = "begun" =>
           pc[q] = "begun" /\ holds'[q] = holds[q] /\ todo'[q] = todo[q]
    BY DEF Begun
  <2> QED BY <1>0, <1>1, <1>2, <2>1, PlansStay
<1>4. ASSUME NEW q \in Processes, Begun(q)
      PROVE  Course(q)'
  <2>1. Course(q)
    BY <1>4 DEF Sound
  <2>2. /\ \A h, M : Within(h, M)' <=> Within(h, M)
        /\ \A M : Done(M)' <=> Done(M)
        /\ AdvancedOnce(q)' <=> AdvancedOnce(q)
    BY <1>1, <1>4 DEF Within, Done, AdvancedOnce
  <2> QED BY <1>1, <1>2, <1>4, <2>1, <2>2 DEF Course
<1>5. Quiet' => Left'
  BY <1>1, <1>2 DEF Sound, Quiet, Left, Between
<1> QED BY <1>3, <1>4, <1>5 DEF Sound

LEMMA SoundBegins ==
  ASSUME OneWorktree, Typed, Exclusive, Sound, NEW p \in Processes, Begins(p)
  PROVE  Sound'
<1> DEFINE h == holds[p]
<1>n. PICK n : n = Len(admitted) + 1
  OBVIOUS
<1>0. TypeOK /\ Rooted /\ Planned /\ Found /\ Left
  BY BeginsOnOneGroup DEF Typed, Sound, Quiet
<1>1. /\ \A q \in Processes \ {p} : ~Begun(q)
      /\ ~Begun(p) /\ applied[p] = <<>> /\ Bound(h)
      /\ h.transition \notin Recoveries => Pending = {}
      /\ h.transition \in Recoveries => Pending # {} /\ \A a \in Pending : Root(a) = h.root
  BY BeginsOnOneGroup
<1>2. h \in Admissions /\ Grounded(h) /\ IsCurrent(h) /\ h.worktree = Here /\ Here \in Worktrees
  BY BeginsFacts, OnlyHere DEF Begins, Admissions
<1>3. /\ h.source.state = state[Here] /\ h.source.artifact = artifact[Here]
      /\ h.source.permitted = Permitted /\ Pending = Before(h)
  BY <1>2, CurrentSource DEF Before
<1>4. h.transition \in Transitions =>
        ~h.source.state.escalated /\ h.source.state.effect = h.source.artifact
  <2> SUFFICES ASSUME h.transition \in Transitions
               PROVE  ~h.source.state.escalated /\ h.source.state.effect = h.source.artifact
    OBVIOUS
  <2>1. h.transition \notin Recoveries
    BY TransitionsAreTyped
  <2> QED BY <1>0, <1>1, <1>3, <2>1 DEF Bound, Left
<1>5. h.transition \in Recoveries \ {"recovery.escalate"} =>
        /\ Pending = {h.root} /\ h.root \in DOMAIN admitted /\ admitted[h.root].root = 0
        /\ Between(h.root, h.source.state, h.source.artifact)
        /\ Whole(admitted[h.root], Staged(h.root))
        /\ admitted[h.root].source.state.effect = admitted[h.root].source.artifact
  <2> SUFFICES ASSUME h.transition \in Recoveries \ {"recovery.escalate"}
               PROVE  /\ Pending = {h.root} /\ h.root \in DOMAIN admitted /\ admitted[h.root].root = 0
                      /\ Between(h.root, h.source.state, h.source.artifact)
                      /\ Whole(admitted[h.root], Staged(h.root))
                      /\ admitted[h.root].source.state.effect = admitted[h.root].source.artifact
    OBVIOUS
  <2>1. h.root \in DOMAIN admitted /\ admitted[h.root].root = 0
    BY <1>2 DEF Grounded
  <2>2. \A b \in Before(h) : b = h.root
    BY <1>1 DEF Bound, Before
  <2>3. Pending = {h.root}
    BY <1>1, <1>3, <2>2
  <2> QED BY <1>0, <1>3, <2>1, <2>3 DEF Left, Planned
<1>6. h.transition = "publication.reconcile" => h.source.state.effect = h.source.artifact
  <2> SUFFICES ASSUME h.transition = "publication.reconcile"
               PROVE  h.source.state.effect = h.source.artifact
    OBVIOUS
  <2>1. h.transition \in Recoveries \ {"recovery.escalate"}
    BY DEF Recoveries
  <2>2. admitted[h.root].transition \in External
    BY <1>1, <2>1 DEF Bound
  <2> QED BY <1>5, <2>1, <2>2, ExternalLeavesArtifacts
<1>7. Whole(h, Range(todo'[p]))
  <2>1. CASE IsReplay(h)
    <3>1. h.transition \in Recoveries \ {"recovery.escalate"}
      BY <2>1 DEF IsReplay, Recoveries
    <3>2. h.transition = "recovery.resume" => journal[h.root].mutations # <<>>
      <4> SUFFICES ASSUME h.transition = "recovery.resume"
                   PROVE  journal[h.root].mutations # <<>>
        OBVIOUS
      <4>1. "recovery.resume" \in Permitted
        BY <1>1, <1>3, <3>1 DEF Bound
      <4> DEFINE r == CHOOSE r \in Groups(0) : TRUE
      <4>2. journal[r].mutations # <<>>
        BY <1>0, <4>1, PermittedRecovery
      <4>3. \A a \in Pending : Root(a) = r
        BY <1>0, <4>1, PermittedMeansOneGroup
      <4> HIDE DEF r
      <4>4. r = h.root
        BY <1>1, <3>1, <4>3
      <4> QED BY <4>2, <4>4
    <3>3. Range(todo'[p]) = ReplayOf(h)
      BY <2>1, BeginsFacts
    <3>4. Before(h) = {h.root}
      BY <1>3, <1>5, <3>1
    <3> HIDE DEF h
    <3> QED BY <1>2, <1>5, <2>1, <3>1, <3>2, <3>3, <3>4, WholeReplay
  <2>2. CASE ~IsReplay(h)
    <3>1. PICK seen \in Seen(h) : Range(todo'[p]) = WritesOf(h, n, seen)
      BY <1>n, <2>2, BeginsFacts
    <3>2. seen \in {"open", "unavailable"} /\ n \in Nat
      BY <1>0, <1>n, SequencesAreFunctions DEF Seen
    <3>3. h.transition \in External \cup {"publication.reconcile"} =>
            h.source.state.effect = h.source.artifact
      BY <1>4, <1>6 DEF Transitions
    <3> HIDE DEF h
    <3> QED BY <1>2, <1>4, <2>2, <3>1, <3>2, <3>3, WholeWrites
  <2> QED BY <2>1, <2>2
<1>8. /\ Extends /\ DOMAIN admitted' = DOMAIN admitted \cup {n}
      /\ n \notin DOMAIN admitted /\ n \in Nat /\ admitted'[n] = h
      /\ journal'[n].mutations = <<>> /\ \A a \in DOMAIN admitted : journal'[a] = journal[a]
      /\ UNCHANGED <<state, artifact, holds, applied>>
      /\ own' = [own EXCEPT ![p] = n] /\ pc' = [pc EXCEPT ![p] = "begun"]
      /\ Pending' = Pending \cup {n} /\ DOMAIN admitted = 1..Len(admitted)
  <2>1. /\ Extends /\ DOMAIN admitted' = DOMAIN admitted \cup {n} /\ n \notin DOMAIN admitted
        /\ Pending' = Pending \cup {n}
    BY <1>n, LedgerExtends, PendingOfBegins
  <2>2. n \in Nat /\ DOMAIN admitted = 1..Len(admitted)
    BY <1>0, <1>n, SequencesAreFunctions
  <2>3. /\ admitted'[n] = h /\ journal'[n].mutations = <<>>
        /\ \A a \in 1..Len(admitted) : journal'[a] = journal[a]
        /\ UNCHANGED <<state, artifact, holds, applied>>
        /\ own' = [own EXCEPT ![p] = n] /\ pc' = [pc EXCEPT ![p] = "begun"]
    BY <1>n, BeginsFacts DEF files
  <2> HIDE DEF h
  <2> QED BY <2>1, <2>2, <2>3
<1>9. /\ own'[p] = n /\ pc'[p] = "begun" /\ \A q \in Processes \ {p} : pc'[q] = pc[q]
  BY <1>0, <1>8 DEF TypeOK
<1>10. (\A a \in DOMAIN admitted : Staged(a)' = Staged(a)) /\ Staged(n)' = {}
  <2>1. Range(<<>>) = {}
    BY DEF Range
  <2>2. \A a \in DOMAIN admitted : Staged(a)' = Staged(a)
    BY <1>8 DEF Staged
  <2>3. Staged(n)' = Range(journal'[n].mutations)
    BY <1>8 DEF Staged
  <2> QED BY <1>8, <2>1, <2>2, <2>3
<1>11. \A q \in Processes : (Begun(q)' <=> q = p) /\ (pc'[q] = "begun" <=> q = p)
  BY <1>1, <1>9 DEF Begun
<1>12. h.root = 0 => h.transition \in Transitions
  BY <1>0, <1>2, SequencesAreFunctions DEF Grounded, Admissions
<1> HIDE DEF h
<1>13. Planned'
  <2>1. Whole(h, {})
    BY DEF Whole
  <2>2. \A b \in Before(h) : b < n
    BY <1>0, <1>3, <1>n, PendingIsFinite, SequencesAreFunctions
  <2>3. \A a \in DOMAIN admitted' :
           /\ Whole(admitted'[a], Staged(a)')
           /\ \A b \in Before(admitted'[a]) : b < a
           /\ admitted'[a].root = 0 =>
                admitted'[a].source.state.effect = admitted'[a].source.artifact
    <3> SUFFICES ASSUME NEW a \in DOMAIN admitted'
                 PROVE  /\ Whole(admitted'[a], Staged(a)')
                        /\ \A b \in Before(admitted'[a]) : b < a
                        /\ admitted'[a].root = 0 =>
                             admitted'[a].source.state.effect = admitted'[a].source.artifact
      OBVIOUS
    <3>1. CASE a = n
      <4>1. Staged(a)' = {}
        BY <1>10, <3>1
      <4> QED BY <1>4, <1>8, <1>12, <2>1, <2>2, <3>1, <4>1
    <3>2. CASE a \in DOMAIN admitted
      BY <1>0, <1>8, <1>10, <3>2 DEF Planned, Extends
    <3> QED BY <1>8, <3>1, <3>2
  <2>4. \A q \in Processes : pc'[q] = "begun" => Whole(holds'[q], Range(todo'[q]))
    BY <1>7, <1>8, <1>11 DEF h
  <2> QED BY <2>3, <2>4 DEF Planned
<1>14. Found'
  <2>1. ASSUME h.root # 0, Before(h) = {h.root}
        PROVE  Between(h.root, h.source.state, h.source.artifact) /\ h.root \in DOMAIN admitted
    BY <1>0, <1>2, <1>3, <2>1 DEF Left, Grounded
  <2>2. ASSUME NEW a \in DOMAIN admitted, admitted[a].root # 0
        PROVE  admitted[a].root \in DOMAIN admitted
    BY <1>0, <2>2 DEF Rooted, Grounded
  <2> QED BY <1>0, <1>8, <1>10, <2>1, <2>2 DEF Found, Between, Extends
<1>15. Course(p)'
  <2>1. Pending' \subseteq Before(h) \cup {n} /\ \A b \in Before(h) : b \in Pending'
    BY <1>3, <1>8
  <2>2. Range(applied'[p]) = {} /\ holds'[p] = h /\ applied'[p] = <<>>
    BY <1>1, <1>8 DEF Range, h
  <2>3. state'[Here] = h.source.state /\ artifact'[Here] = h.source.artifact
    BY <1>3, <1>8
  <2> QED BY <1>9, <1>10, <2>1, <2>2, <2>3 DEF Course, Within
<1> QED BY <1>11, <1>13, <1>14, <1>15 DEF Sound, Quiet

\* The mutations that fit together still do when the transaction moves on.
LEMMA OwnPlan ==
  ASSUME Typed, Planned, NEW p \in Processes, Begun(p)
  PROVE  /\ own[p] \in DOMAIN admitted /\ own[p] \in DOMAIN journal /\ own[p] \in DOMAIN command
         /\ admitted[own[p]] = holds[p] /\ holds[p] \in Admissions
         /\ holds[p].worktree \in Worktrees
         /\ Whole(holds[p], Staged(own[p]))
         /\ Staged(own[p]) \subseteq Mutations
<1>1. own[p] \in DOMAIN admitted /\ admitted[own[p]] = holds[p] /\ holds[p] \in Admissions
  BY DEF Typed, Numbered, Engaged, Begun
<1>2. own[p] \in DOMAIN journal /\ own[p] \in DOMAIN command /\ journal[own[p]] \in Journals
  BY <1>1, SequencesAreFunctions DEF Typed
<1>3. Staged(own[p]) \subseteq Mutations
  BY <1>2 DEF Staged, Journals, Range
<1> QED BY <1>1, <1>2, <1>3 DEF Planned, Admissions

LEMMA OnlyStageStages ==
  ASSUME TypeOK, NEW p \in Processes, Marking(p), ~Stage(p)
  PROVE  \A b \in DOMAIN journal : journal'[b].mutations = journal[b].mutations
<1>1. CASE UNCHANGED journal
  BY <1>1
<1>2. CASE \E v \in Statuses : Status(p, v)
  BY <1>2, StatusUpdate DEF Status
<1>3. CASE Archive(p)
  BY <1>3, AbortedUpdate DEF Archive
<1> QED BY <1>1, <1>2, <1>3
        DEF Marking, StageFails, CommandPasses, CommandFails, CommandUncertain, CommandRefused,
            Reported, InstallFails, Installed, MarkFails, Observe, ObserveFails, Finalize,
            CommitFails, Undone, UndoRest, ledger, Statuses

LEMMA SoundMarks ==
  ASSUME OneWorktree, Typed, Exclusive, Certified, Sound, NEW p \in Processes, Marking(p)
  PROVE  Sound'
<1>n. PICK a, h : a = own[p] /\ h = holds[p]
  OBVIOUS
<1>0. TypeOK /\ Planned /\ Found /\ Marks(p) /\ Continues(p)
  BY MarkingMarks DEF Typed, Sound, Marks
<1>1. /\ Begun(p) /\ \A q \in Processes \ {p} : ~Begun(q)
      /\ \A q \in Processes : Begun(q)' <=> Begun(q)
      /\ a \in Pending /\ Pending' = Pending
  BY <1>0, <1>n, ContinuesStaysBound, PendingOfMarks
<1>2. /\ a \in DOMAIN admitted /\ a \in DOMAIN journal /\ a \in DOMAIN command
      /\ admitted[a] = h /\ Course(p) /\ Told(p)
      /\ h.worktree = Here /\ pc \in [Processes -> Places]
  BY <1>0, <1>1, <1>n, OwnPlan, OnlyHere DEF Sound, Certified, TypeOK
<1>3. /\ UNCHANGED <<state, artifact, admitted, holds, own, todo, applied>>
      /\ DOMAIN journal' = DOMAIN journal
      /\ \A b \in DOMAIN journal : b # a => journal'[b].mutations = journal[b].mutations
      /\ a' = a /\ h' = h
  BY <1>0, <1>n DEF Marks, Continues, files, JournalsKept
<1>4. \A place : Goto(p, place) => pc' = [pc EXCEPT ![p] = place] /\ pc'[p] = place
  BY <1>2 DEF Goto
<1>5. /\ \A M : Within(h, M)' <=> Within(h, M)
      /\ \A M : Done(M)' <=> Done(M)
      /\ AdvancedOnce(p)' <=> AdvancedOnce(p)
  BY <1>3 DEF Within, Done, AdvancedOnce
<1>6. CASE Stage(p)
  <2>1. /\ pc[p] = "begun" /\ pc'[p] \in {"commanding", "writing"}
        /\ journal'[a].mutations = todo[p]
        /\ \A q \in Processes \ {p} : pc'[q] = pc[q]
    <3>1. TypeOK /\ pc[p] = "begun" /\ (Goto(p, "commanding") \/ Goto(p, "writing"))
      BY <1>0, <1>6 DEF Stage
    <3>2. journal'[a].mutations = todo[p]
      BY <1>2, <1>6, <1>n, <3>1, StageUpdate
    <3> QED BY <1>2, <1>4, <3>1, <3>2
  <2>2. Staged(a)' = Range(todo[p]) /\ \A b \in DOMAIN admitted : b # a => Staged(b)' = Staged(b)
    <3>1. DOMAIN admitted = DOMAIN journal
      BY <1>0, SequencesAreFunctions
    <3> QED BY <1>2, <1>3, <2>1, <3>1 DEF Staged
  <2>3. Whole(h, Range(todo[p]))
    BY <1>0, <1>n, <2>1 DEF Planned
  <2>4. Planned'
    BY <1>0, <1>1, <1>2, <1>3, <2>1, <2>2, <2>3 DEF Planned, Begun
  <2>5. Found'
    <3>1. \A c \in DOMAIN admitted : admitted[c].root # 0 =>
            admitted[c].root \in DOMAIN admitted /\ admitted[c].root # a
      <4>1. \A c \in DOMAIN admitted : admitted[c].root < c /\ c <= Len(admitted) /\ admitted[c].root \in Nat
        BY <1>0, SequencesAreFunctions DEF Typed, Rooted, Admissions
      <4>2. a = Len(admitted) /\ Len(admitted) \in Nat /\ DOMAIN admitted = 1..Len(admitted)
        BY <1>0, <1>1, <1>n, SequencesAreFunctions DEF Exclusive, Owning
      <4> QED BY <4>1, <4>2
    <3> QED BY <1>0, <1>3, <2>2, <3>1 DEF Found, Between
  <2>6. applied[p] = <<>> /\ Within(h, {}) /\ Range(<<>>) = {}
        /\ Pending \subseteq Before(h) \cup {a} /\ \A b \in Before(h) : b \in Pending
    <3>1. Range(<<>>) = {}
      BY DEF Range
    <3> QED BY <1>2, <1>n, <2>1, <3>1 DEF Course
  <2>7. Done({}) /\ \A M : Within(h, M)
    BY <2>6 DEF Done, Within
  <2>8. Course(p)'
    BY <1>1, <1>3, <1>5, <1>n, <2>1, <2>2, <2>6, <2>7 DEF Course
  <2> QED BY <1>1, <2>4, <2>5, <2>8 DEF Sound, Quiet
<1>7. CASE ~Stage(p)
  <2>1. \A b \in DOMAIN journal : journal'[b].mutations = journal[b].mutations
    BY <1>0, <1>7, OnlyStageStages
  <2>2. \A b \in DOMAIN admitted : Staged(b)' = Staged(b)
    BY <1>0, <2>1, StagedStays DEF Marks
  <2>3. /\ pc'[p] # "begun" /\ \A q \in Processes \ {p} : pc'[q] = pc[q]
        /\ pc'[p] = "commanding" => FALSE
        /\ pc'[p] \in {"written", "aborting", "aborted"} => applied[p] = <<>>
        /\ pc'[p] \notin {"undoing-in-part", "unsettled"} => pc[p] \notin {"undoing-in-part", "unsettled"}
        /\ pc'[p] = "writing" => pc[p] = "commanding"
        /\ (pc'[p] \in {"verified", "committing"}
             \/ (pc'[p] = "observing" /\ command'[a] # "uncertain")) => Done(Staged(a))
        /\ pc'[p] \in {"verified", "committing"} => Pending = {a} /\ AdvancedOnce(p)
    <3>0. \A q \in Processes \ {p} : pc'[q] = pc[q]
      BY <1>0, <1>2 DEF Continues
    <3>1. CASE StageFails(p)
      BY <1>2, <1>4, <3>0, <3>1 DEF StageFails, Course
    <3>2. CASE CommandPasses(p) \/ CommandFails(p) \/ CommandUncertain(p) \/ CommandRefused(p)
      BY <1>2, <1>4, <3>0, <3>2
         DEF CommandPasses, CommandFails, CommandUncertain, CommandRefused, Reported, Course
    <3>3. CASE InstallFails(p) \/ MarkFails(p) \/ CommitFails(p)
      BY <1>4, <3>0, <3>3 DEF InstallFails, MarkFails, CommitFails
    <3>4. CASE Installed(p)
      <4>1. command' = command /\ pc'[p] = "observing"
        BY <1>4, <3>4 DEF Installed
      <4>2. CASE pc[p] = "written"
        BY <1>2, <1>n, <3>0, <4>1, <4>2 DEF Told
      <4>3. CASE pc[p] = "writing" /\ todo[p] = <<>>
        <5>1. Range(<<>>) = {}
          BY DEF Range
        <5>2. Done(Staged(a))
          BY <1>2, <1>n, <4>3, <5>1 DEF Course
        <5> QED BY SMTT(30), <3>0, <4>1, <4>3, <5>2
      <4> QED BY <3>4, <4>2, <4>3 DEF Installed
    <3>5. CASE Observe(p)
      <4>0. pc[p] = "observing"
        BY <3>5 DEF Observe
      <4>1. CASE TargetMatches(p) /\ AdvancedOnce(p)
        <5>1. pc'[p] = "verified"
          BY <1>4, <3>5, <4>1 DEF Observe
        <5>2. Pending = {a}
          <6>1. Pending \ {a} = {}
            BY <1>n, <4>1 DEF TargetMatches, Groups
          <6> QED BY <1>1, <6>1
        <5>3. command[a] # "uncertain"
          <6>1. state[Here].revision = h.source.state.revision + 1
            BY <1>2, <1>n, <4>1 DEF AdvancedOnce
          <6>2. command[a] = "uncertain" => state[Here].revision = h.source.state.revision
            BY <1>2, <1>n, <4>0 DEF Told
          <6>3. h.source.state.revision \in Nat
            BY <1>0, <1>1, <1>n, OwnPlan DEF Admissions, Snapshots, States
          <6> QED BY <6>1, <6>2, <6>3
        <5>4. Done(Staged(a))
          BY <1>2, <1>n, <4>0, <5>3 DEF Course
        <5> QED BY <3>0, <4>0, <4>1, <5>1, <5>2, <5>4
      <4>2. CASE ~(TargetMatches(p) /\ AdvancedOnce(p))
        <5>1. pc'[p] \in {"unsettled", "undoing"}
          BY <1>4, <3>5, <4>2 DEF Observe
        <5> QED BY <3>0, <4>0, <5>1
      <4> QED BY <4>1, <4>2
    <3>6. CASE ObserveFails(p)
      BY <1>4, <3>0, <3>6 DEF ObserveFails
    <3>7. CASE Finalize(p)
      BY <1>2, <1>4, <1>n, <3>0, <3>7 DEF Finalize, Course
    <3>8. CASE Undone(p)
      BY <1>4, <3>0, <3>8 DEF Undone
    <3>9. CASE Archive(p)
      BY <1>2, <1>4, <3>0, <3>9 DEF Archive, Course
    <3>10. CASE UndoRest(p) /\ applied[p] = <<>>
      BY <1>4, <3>0, <3>10 DEF UndoRest
    <3> QED BY <1>7, <3>1, <3>2, <3>3, <3>4, <3>5, <3>6, <3>7, <3>8, <3>9, <3>10 DEF Marking
  <2>4. Planned' /\ Found'
    <3>1. \A q \in Processes : pc'[q] = "begun" =>
            pc[q] = "begun" /\ holds'[q] = holds[q] /\ todo'[q] = todo[q]
      BY <1>3, <2>3
    <3> QED BY <1>0, <1>3, <2>2, <3>1, PlansStay
  <2>5. Course(p)'
    BY <1>1, <1>2, <1>3, <1>5, <1>n, <2>2, <2>3 DEF Course
  <2> QED BY <1>1, <2>4, <2>5 DEF Sound, Quiet
<1> QED BY <1>6, <1>7

LEMMA SoundPuts ==
  ASSUME OneWorktree, Typed, Exclusive, Sound, NEW p \in Processes, Putting(p)
  PROVE  Sound'
<1>n. PICK a, h : a = own[p] /\ h = holds[p]
  OBVIOUS
<1>0. TypeOK /\ Planned /\ Found
  BY DEF Typed, Sound
<1> DEFINE Moves(m, value) ==
        /\ Puts(p, m, value) /\ pc[p] \in {"writing", "undoing", "undoing-in-part"}
        /\ \/ /\ pc[p] = "writing" /\ value = m.next
              /\ Range(todo[p]) = Range(todo'[p]) \cup {m}
              /\ Range(applied'[p]) = Range(applied[p]) \cup {m}
           \/ /\ pc[p] # "writing" /\ value = m.prior
              /\ Range(applied[p]) = Range(applied'[p]) \cup {m}
<1>m. PICK m \in Mutations : \E value : Moves(m, value)
  <2>1. CASE Install(p)
    <3>1. Head(todo[p]) \in Mutations
      BY <1>0, <2>1, InstallFacts DEF Puts
    <3> QED BY <1>0, <2>1, <3>1, InstallFacts
  <2>2. CASE Undo(p) \/ (UndoRest(p) /\ applied[p] # <<>>)
    <3>1. Head(applied[p]) \in Mutations
      BY <1>0, <2>2, UndoFacts DEF Puts
    <3> QED BY <1>0, <2>2, <3>1, UndoFacts
  <2> QED BY <2>1, <2>2 DEF Putting
<1>p. PICK value : Moves(m, value)
  BY <1>m
<1>1. /\ Continues(p) /\ Put(m, value) /\ value \in {m.prior, m.next}
      /\ UNCHANGED <<admitted, holds, own, pc, command>>
  BY <1>p DEF Puts, Continues
<1>2. /\ Begun(p) /\ \A q \in Processes \ {p} : ~Begun(q)
      /\ \A q \in Processes : Begun(q)' <=> Begun(q)
  BY <1>1, ContinuesStaysBound
<1>3. /\ a \in DOMAIN admitted /\ admitted[a] = h /\ Course(p) /\ h.worktree = Here
      /\ Here \in Worktrees /\ Whole(h, Staged(a))
  BY <1>0, <1>2, <1>n, OwnPlan, OnlyHere DEF Sound
<1>4. /\ JournalsKept
      /\ \A b \in DOMAIN journal : journal'[b].mutations = journal[b].mutations
  BY <1>0, <1>1, PutIsTyped
<1>5. \A b \in DOMAIN admitted : Staged(b)' = Staged(b)
  BY <1>0, <1>4, StagedStays
<1>6. Planned' /\ Found'
  <2>1. \A q \in Processes : pc'[q] = "begun" =>
            pc[q] = "begun" /\ holds'[q] = holds[q] /\ todo'[q] = todo[q]
    BY <1>1, <1>2, <1>p DEF Begun
  <2> QED BY <1>0, <1>1, <1>5, <2>1, PlansStay
<1>7. /\ m \in Staged(a) /\ Range(applied'[p]) \subseteq Staged(a)
      /\ Range(applied[p]) \subseteq Staged(a)
  BY <1>3, <1>n, <1>p DEF Course
<1>8. /\ m.kind = "state" => state'[Here] = value
      /\ m.kind # "state" => state'[Here] = state[Here]
      /\ m.kind = "artifact" => artifact'[Here] = value
      /\ m.kind # "artifact" => artifact'[Here] = artifact[Here]
  <2>1. m.kind # "close" => m.at = Here
    BY MutationsAreHere
  <2> QED BY <1>0, <1>1, <1>3, <2>1 DEF Put, TypeOK
<1>9. /\ m.kind = "state" => m.prior = h.source.state
      /\ m.kind = "artifact" => m.prior = h.source.artifact
      /\ m.kind = "close" => m.at \in Before(h)
      /\ \A k \in Staged(a) : k.kind = m.kind /\ m.kind # "close" => k = m
  BY <1>3, <1>7 DEF Whole
<1>10. Pending \subseteq Before(h) \cup {a} /\ Pending' \subseteq Before(h) \cup {a}
  <2>1. Pending \subseteq Before(h) \cup {a}
    BY <1>3, <1>n DEF Course
  <2> QED BY <1>0, <1>1, <1>9, <2>1, PendingOfPuts
<1>11. Within(h, Staged(a))'
  <2>1. Within(h, Staged(a))
    BY <1>3, <1>n DEF Course
  <2>2. /\ state'[Here] = h.source.state
             \/ \E k \in Staged(a) : k.kind = "state" /\ state'[Here] = k.next
        /\ artifact'[Here] = h.source.artifact
             \/ \E k \in Staged(a) : k.kind = "artifact" /\ artifact'[Here] = k.next
    BY <1>1, <1>7, <1>8, <1>9, <2>1 DEF Within
  <2> QED BY <1>1, <1>3, <1>5, <1>n, <2>2 DEF Within
<1>12. ASSUME pc[p] # "undoing-in-part"
       PROVE  /\ state'[Here] = h.source.state
                   \/ \E k \in Range(applied'[p]) : k.kind = "state" /\ state'[Here] = k.next
              /\ artifact'[Here] = h.source.artifact
                   \/ \E k \in Range(applied'[p]) : k.kind = "artifact" /\ artifact'[Here] = k.next
              /\ \A b \in Before(h) : b \in Pending' \/ \E k \in Range(applied'[p]) :
                                                         k.kind = "close" /\ k.at = b
  <2>0. /\ Within(h, Range(applied[p]))
        /\ \A b \in Before(h) : b \in Pending \/ \E k \in Range(applied[p]) :
                                                 k.kind = "close" /\ k.at = b
    BY <1>3, <1>12, <1>n, <1>p DEF Course
  <2>1. CASE pc[p] = "writing"
    <3>1. \A b \in Pending : b \in Pending' \/ (m.kind = "close" /\ b = m.at)
      BY <1>0, <1>1, PendingOfPuts
    <3> QED BY <1>8, <1>p, <2>0, <2>1, <3>1 DEF Within
  <2>2. CASE pc[p] # "writing"
    <3>1. m.kind = "close" => /\ \A b \in Pending : b \in Pending'
                              /\ m.at \in Pending'
      <4> SUFFICES ASSUME m.kind = "close"
                   PROVE  (\A b \in Pending : b \in Pending') /\ m.at \in Pending'
        OBVIOUS
      <4>1. value = TRUE
        BY <1>p, <2>2 DEF Mutations
      <4>2. m.at \in DOMAIN journal
        BY <1>0, <1>2, <1>p, <2>2, SequencesAreFunctions DEF Exclusive, Closing
      <4>3. Pending' = Pending \cup {m.at}
        BY <1>0, <1>1, <4>1, <4>2, PendingOfPuts
      <4> QED BY <4>3
    <3>2. m.kind # "close" => Pending' = Pending
      BY <1>0, <1>1, PendingOfPuts
    <3>3. \A k \in Range(applied[p]) : k = m \/ k \in Range(applied'[p])
      BY <1>p, <2>2
    <3>4. value = m.prior
      BY <1>p, <2>2
    <3>5. \A b \in Before(h) : b \in Pending' \/ \E k \in Range(applied'[p]) :
                                                         k.kind = "close" /\ k.at = b
      BY <2>0, <3>1, <3>2, <3>3
    <3> QED BY <1>8, <1>9, <2>0, <3>3, <3>4, <3>5 DEF Within
  <2> QED BY <2>1, <2>2
<1>13. pc[p] = "writing" =>
         /\ Staged(a) = Range(todo'[p]) \cup Range(applied'[p])
         /\ \A k \in Range(applied'[p]) : /\ k.kind = "state" => state'[Here] = k.next
                                          /\ k.kind = "artifact" => artifact'[Here] = k.next
  <2> SUFFICES ASSUME pc[p] = "writing"
               PROVE  /\ Staged(a) = Range(todo'[p]) \cup Range(applied'[p])
                      /\ \A k \in Range(applied'[p]) :
                            /\ k.kind = "state" => state'[Here] = k.next
                            /\ k.kind = "artifact" => artifact'[Here] = k.next
    OBVIOUS
  <2>1. Staged(a) = Range(todo[p]) \cup Range(applied[p]) /\ Done(Range(applied[p]))
    BY <1>3, <1>n DEF Course
  <2>2. Staged(a) = Range(todo'[p]) \cup Range(applied'[p])
    BY <1>p, <2>1
  <2>3. \A k \in Range(applied'[p]) : k = m \/ k \in Range(applied[p])
    BY <1>p
  <2>4. value = m.next
    BY <1>p
  <2> QED BY <1>7, <1>8, <1>9, <2>1, <2>2, <2>3, <2>4 DEF Done
<1>14. Course(p)'
  <2>1. /\ holds'[p] = h /\ own'[p] = a /\ pc'[p] = pc[p]
        /\ pc[p] \in {"writing", "undoing", "undoing-in-part"} /\ Staged(a)' = Staged(a)
        /\ own' = own /\ a' = a /\ h' = h
    BY <1>1, <1>3, <1>5, <1>n, <1>p
  <2>2. pc[p] # "undoing-in-part" =>
          /\ Within(h, Range(applied[p]))'
          /\ \A b \in Before(h) : b \in Pending' \/ \E k \in Range(applied'[p]) :
                                                     k.kind = "close" /\ k.at = b
    BY <1>12, <2>1 DEF Within
  <2>3. pc[p] = "writing" => Staged(a)' = Range(todo'[p]) \cup Range(applied'[p])
    BY <1>13, <2>1
  <2>4. ASSUME pc[p] = "writing"
        PROVE  Done(Range(applied[p]))'
    <3>1. \A k \in Range(applied'[p]) : /\ k.kind = "state" => state'[Here] = k.next
                                        /\ k.kind = "artifact" => artifact'[Here] = k.next
      BY <1>13, <2>4
    <3> QED BY <3>1 DEF Done
  <2> QED BY <1>7, <1>10, <1>11, <1>n, <2>1, <2>2, <2>3, <2>4 DEF Course
<1> QED BY <1>2, <1>6, <1>14 DEF Sound, Quiet

LEMMA SoundUndoFails ==
  ASSUME OneWorktree, Typed, Exclusive, Sound, NEW p \in Processes, UndoFails(p)
  PROVE  Sound'
<1>0. TypeOK /\ Planned /\ Found
  BY DEF Typed, Sound
<1>1. /\ Continues(p) /\ pc[p] = "undoing" /\ pc'[p] = "undoing-in-part"
      /\ UNCHANGED <<files, ledger, todo>> /\ Range(applied'[p]) \subseteq Range(applied[p])
  BY <1>0, UndoFailsFacts
<1>2. /\ Begun(p) /\ \A q \in Processes \ {p} : ~Begun(q)
      /\ \A q \in Processes : Begun(q)' <=> Begun(q)
  BY <1>1, ContinuesStaysBound
<1>3. UNCHANGED <<state, artifact, admitted, journal, holds, own>> /\ Pending' = Pending
  BY <1>1 DEF files, ledger, Continues, Pending
<1>4. \A b : Staged(b)' = Staged(b)
  BY <1>3 DEF Staged
<1>5. Planned' /\ Found'
  <2>1. \A q \in Processes : pc'[q] = "begun" =>
            pc[q] = "begun" /\ holds'[q] = holds[q] /\ todo'[q] = todo[q]
    BY <1>0, <1>1, <1>3 DEF Continues, TypeOK
  <2> QED BY <1>0, <1>3, <1>4, <2>1, PlansStay
<1>6. Course(p) /\ \A h, M : Within(h, M)' <=> Within(h, M)
  BY <1>2, <1>3 DEF Sound, Within
<1>7. Course(p)'
  BY <1>1, <1>3, <1>4, <1>6 DEF Course
<1> QED BY <1>2, <1>5, <1>7 DEF Sound, Quiet

\* What a transaction under way has made of the durable state.
LEMMA StateMoves ==
  ASSUME OneWorktree, Typed, Sound, NEW p \in Processes, Begun(p)
  PROVE  LET s == holds[p].source.state IN
         /\ state[Here].revision \in {s.revision, s.revision + 1} /\ s.revision \in Nat
         /\ state[Here] = s \/ \E m \in Staged(own[p]) : m.kind = "state" /\ state[Here] = m.next
<1>1. Course(p) /\ Whole(holds[p], Staged(own[p])) /\ holds[p] \in Admissions
  BY OwnPlan DEF Sound
<1>2. holds[p].source.state.revision \in Nat
  BY <1>1 DEF Admissions, Snapshots, States
<1> QED BY <1>1, <1>2 DEF Course, Within, Whole

\* A commit leaves nothing pending, and what was staged in place.
LEMMA CommitSettles ==
  ASSUME OneWorktree, Typed, Exclusive, Sound, NEW p \in Processes, Commit(p)
  PROVE  /\ Begun(p) /\ Pending' = {}
         /\ Done(Staged(own[p])) /\ Within(holds[p], Staged(own[p]))
         /\ state[Here].revision = holds[p].source.state.revision + 1
         /\ \E s \in Staged(own[p]) : s.kind = "state" /\ state[Here] = s.next
<1>n. PICK a, h : a = own[p] /\ h = holds[p]
  OBVIOUS
<1>0. TypeOK
  BY DEF Typed
<1>1. pc[p] = "committing" /\ Begun(p) /\ Ending(p)
  BY DEF Commit, Begun, Ending
<1>2. Course(p) /\ h \in Admissions /\ h.worktree = Here
  BY <1>1, <1>n, OwnPlan, OnlyHere DEF Sound
<1>3. Pending = {a} /\ Done(Staged(a)) /\ Within(h, Staged(a)) /\ AdvancedOnce(p)
  BY <1>1, <1>2, <1>n DEF Course
<1>4. Pending' = {}
  BY <1>0, <1>1, <1>3, <1>n, PendingOfEnds
<1>5. state[Here].revision = h.source.state.revision + 1 /\ h.source.state.revision \in Nat
  BY <1>2, <1>3, <1>n DEF AdvancedOnce, Admissions, Snapshots, States
<1>6. state[Here] # h.source.state
  BY <1>5
<1> QED BY <1>1, <1>3, <1>4, <1>5, <1>6, <1>n DEF Within

\* An abort leaves everything as it was found.
LEMMA AbortRestores ==
  ASSUME OneWorktree, Typed, Exclusive, Sound, NEW p \in Processes, Abort(p)
  PROVE  /\ Begun(p) /\ Pending' = Before(holds[p])
         /\ state[Here] = holds[p].source.state /\ artifact[Here] = holds[p].source.artifact
<1>n. PICK a, h : a = own[p] /\ h = holds[p]
  OBVIOUS
<1>0. TypeOK /\ Planned
  BY DEF Typed, Sound
<1>1. pc[p] = "aborted" /\ Begun(p) /\ Ending(p)
  BY DEF Abort, Begun, Ending
<1>2. Course(p) /\ a \in DOMAIN admitted /\ admitted[a] = h
  BY <1>0, <1>1, <1>n, OwnPlan DEF Sound
<1>3. applied[p] = <<>> /\ Range(<<>>) = {}
  <2>1. Range(<<>>) = {}
    BY DEF Range
  <2> QED BY <1>1, <1>2, <2>1 DEF Course
<1>4. /\ state[Here] = h.source.state /\ artifact[Here] = h.source.artifact
      /\ Before(h) \subseteq Pending /\ Pending \subseteq Before(h) \cup {a}
  BY <1>1, <1>2, <1>3, <1>n DEF Course, Within
<1>5. a \notin Before(h)
  <2>1. \A b \in Before(h) : b < a
    BY <1>0, <1>2 DEF Planned
  <2>2. a \in Nat
    BY <1>0, <1>2, SequencesAreFunctions
  <2> QED BY <2>1, <2>2
<1>6. Pending' = Pending \ {a}
  BY <1>0, <1>1, <1>n, PendingOfEnds
<1> QED BY <1>1, <1>4, <1>5, <1>6, <1>n

LEMMA SoundEnds ==
  ASSUME OneWorktree, Typed, Exclusive, Sound, NEW p \in Processes, Ending(p), Begun(p)
  PROVE  Sound'
<1>n. PICK a, h : a = own[p] /\ h = holds[p]
  OBVIOUS
<1>0. TypeOK /\ Planned /\ Found /\ Ends(p)
  BY EndingEnds DEF Typed, Sound
<1>1. /\ UNCHANGED <<state, artifact, admitted>>
      /\ Pending' = IF Commit(p) \/ Abort(p) THEN Pending \ {a} ELSE Pending
      /\ \A b \in DOMAIN admitted : Staged(b)' = Staged(b)
  <2>1. /\ JournalsKept
        /\ \A b \in DOMAIN journal : journal'[b].mutations = journal[b].mutations
    BY <1>0, EndingEnds
  <2> QED BY <1>0, <1>n, <2>1, PendingOfEnds, StagedStays DEF Ends, files
<1>2. (\A q \in Processes \ {p} : ~Begun(q)) /\ \A q \in Processes : ~Begun(q)'
  BY <1>0, EndsKeeps, LockedStays DEF Exclusive
<1>3. /\ a \in DOMAIN admitted /\ admitted[a] = h /\ Course(p) /\ Whole(h, Staged(a))
      /\ h \in Admissions /\ a \in Pending /\ Bound(h) /\ Grounded(h)
  BY <1>0, <1>n, OwnPlan DEF Sound, Exclusive, Owning, Prescribed, Begun, Typed, Engaged
<1>4. Planned' /\ Found'
  <2>1. \A q \in Processes : pc'[q] # "begun"
    BY <1>2 DEF Begun
  <2> QED BY <1>0, <1>1, <2>1, PlansStay
<1>5. h.root = 0 => Before(h) = {} /\ h.source.state.effect = h.source.artifact
  <2> SUFFICES ASSUME h.root = 0
               PROVE  Before(h) = {} /\ h.source.state.effect = h.source.artifact
    OBVIOUS
  <2>1. h.transition \in Transitions
    BY <1>0, <1>3, SequencesAreFunctions DEF Grounded, Admissions
  <2> QED BY <1>0, <1>3, <2>1 DEF Bound, Before, Planned
<1>6. CASE Commit(p)
  <2>1. /\ Pending' = {} /\ Done(Staged(a)) /\ Within(h, Staged(a))
        /\ \E s \in Staged(a) : s.kind = "state" /\ state[Here] = s.next
    BY <1>6, <1>n, CommitSettles
  <2>4. PICK s \in Staged(a) : s.kind = "state" /\ state[Here] = s.next
    BY <2>1
  <2>5. state[Here].escalated \/ artifact[Here] = state[Here].effect
    <3>1. \/ s.next.escalated
          \/ \E m \in Staged(a) : m.kind = "artifact" /\ m.next = s.next.effect
          \/ (\A m \in Staged(a) : m.kind # "artifact") /\ s.next.effect = h.source.artifact
      BY <1>3, <2>4 DEF Whole
    <3> QED BY <2>1, <2>4, <3>1 DEF Done, Within
  <2>6. Left'
    BY <1>1, <2>1, <2>5 DEF Left
  <2> QED BY <1>2, <1>4, <2>6 DEF Sound
<1>7. CASE Abort(p)
  <2>1. state[Here] = h.source.state /\ artifact[Here] = h.source.artifact
    BY <1>7, <1>n, AbortRestores
  <2>2. Pending' = Before(h)
    BY <1>7, <1>n, AbortRestores
  <2>3. Pending' = {} => state[Here].escalated \/ artifact[Here] = state[Here].effect
    <3>1. h.root # 0 => Before(h) # {}
      BY <1>3, TransitionsAreTyped DEF Bound, Before, Grounded, Admissions
    <3> QED BY <1>5, <2>1, <2>2, <3>1
  <2>4. \A r \in Pending' : Pending' = {r} /\ admitted[r].root = 0 =>
          Between(r, state[Here], artifact[Here])
    <3> SUFFICES ASSUME NEW r, Before(h) = {r}, admitted[r].root = 0
                 PROVE  Between(r, state[Here], artifact[Here])
      BY <2>2
    <3>1. h.root # 0
      BY <1>5
    <3>2. r = h.root
      BY <1>3, <3>1 DEF Bound, Before, Root, Grounded
    <3> QED BY <1>0, <1>3, <2>1, <3>1, <3>2 DEF Found
  <2>5. Left'
    <3>1. \A r \in Pending' : r \in DOMAIN admitted
      BY <1>0, <1>1, PendingIsFinite, SequencesAreFunctions
    <3> QED BY <1>1, <2>3, <2>4, <3>1 DEF Left, Between
  <2> QED BY <1>2, <1>4, <2>5 DEF Sound
<1>8. CASE ~Commit(p) /\ ~Abort(p)
  <2>1. Pending' = Pending /\ Within(h, Staged(a))
    BY <1>1, <1>3, <1>8, <1>n DEF Course
  <2>2. \A r \in Pending : Pending = {r} /\ admitted[r].root = 0 =>
          Between(r, state[Here], artifact[Here])
    BY <1>3, <2>1 DEF Within, Between
  <2>3. Left'
    BY <1>1, <1>3, <2>1, <2>2 DEF Left, Between
  <2> QED BY <1>2, <1>4, <2>3 DEF Sound
<1> QED BY <1>6, <1>7, <1>8

LEMMA SoundInduction ==
  ASSUME OneWorktree, Typed, Exclusive, Certified, Sound, [Next]_vars
  PROVE  Sound'
BY OtherSteps, SoundWhenAlike, SoundBegins, SoundMarks, SoundPuts, SoundUndoFails, SoundEnds

LEMMA InitSound ==
  ASSUME OneWorktree, Init
  PROVE  Sound
<1>1. DOMAIN <<>> = {}
  OBVIOUS
<1>2. artifact[Here] = state[Here].effect
  BY OnlyHere DEF OneWorktree, Init, InitialState
<1> QED BY <1>1, <1>2 DEF Init, Sound, Planned, Found, Quiet, Left, Begun, Pending

\* Soundness holds in every reachable state.
LEMMA SoundAlways ==
  ASSUME OneWorktree
  PROVE  Spec => [](Typed /\ Exclusive /\ Certified /\ Sound)
<1>1. Init => Typed /\ Exclusive /\ Certified /\ Sound
  BY InitTyped, InitExclusive, InitCertified, InitSound
<1>2. Typed /\ Exclusive /\ Certified /\ Sound /\ [Next]_vars
        => (Typed /\ Exclusive /\ Certified /\ Sound)'
  BY TypedInduction, ExclusiveInduction, CertifiedInduction, SoundInduction
<1> QED BY <1>1, <1>2, PTL DEF Spec

\* Nobody is under way when nothing is pending.
LEMMA QuietWhenNothingIsPending ==
  ASSUME Exclusive, Pending = {}
  PROVE  Quiet
BY DEF Exclusive, Owning, Quiet

\* All or nothing: when nothing is pending and nothing was handed to a human,
\* the artifacts are those the durable state describes, wherever transactions
\* and their recoveries stopped, failed or were rolled back (prepared.go
\* L120-234, recovery.go L62-262).
THEOREM EffectsAreAllOrNothing ==
  ASSUME OneWorktree
  PROVE  Spec => []AllOrNothing
<1>1. Typed /\ Exclusive /\ Certified /\ Sound => AllOrNothing
  BY OnlyHere, QuietWhenNothingIsPending DEF Sound, Left, AllOrNothing, Settled
<1> QED BY <1>1, SoundAlways, PTL

-----------------------------------------------------------------------------
(***************************************************************************)
(* Receipts account for revisions.                                         *)
(***************************************************************************)
LEMMA ReceiptsAreTyped ==
  ASSUME Typed
  PROVE  /\ receipts \in Seq(Facts) /\ Len(receipts) \in Nat
         /\ DOMAIN receipts = 1..Len(receipts)
         /\ \A i \in DOMAIN receipts : receipts[i] \in Facts /\ i \in Nat
         /\ LastResult \in Nat
<1>1. receipts \in Seq(Facts)
  BY DEF Typed, TypeOK
<1>2. /\ Len(receipts) \in Nat /\ DOMAIN receipts = 1..Len(receipts)
      /\ \A i \in DOMAIN receipts : receipts[i] \in Facts
  BY <1>1, LenProperties, ElementOfSeq
<1>3. receipts # <<>> => Len(receipts) \in DOMAIN receipts
  BY <1>1, <1>2, EmptySeq
<1>4. LastResult \in Nat
  BY <1>2, <1>3 DEF LastResult, Facts
<1>5. \A i \in DOMAIN receipts : i \in Nat
  BY <1>2
<1> QED BY <1>1, <1>2, <1>4, <1>5

\* Steps that leave the receipts and whoever is under way alone.
LEMMA AccountedWhenAlike ==
  ASSUME Typed, Exclusive, Certified, Accounted, Extends, UNCHANGED receipts,
         \A q \in Processes : Begun(q)' => Begun(q) /\ holds'[q] = holds[q],
         Quiet' => Quiet /\ UNCHANGED state /\ Pending' = Pending
  PROVE  Accounted'
<1>1. LastResult' = LastResult
  BY DEF LastResult
<1>2. \A i \in DOMAIN receipts : receipts[i].admission \in DOMAIN admitted
  BY DEF Certified, Receipted
<1>3. Chained'
  BY <1>1, <1>2 DEF Accounted, Chained, Extends
<1> QED BY <1>1, <1>3 DEF Accounted

LEMMA AccountedBegins ==
  ASSUME OneWorktree, Typed, Exclusive, Certified, Accounted, NEW p \in Processes, Begins(p)
  PROVE  Accounted'
<1>0. TypeOK /\ Quiet
  BY BeginsOnOneGroup DEF Typed, Quiet
<1>1. /\ holds[p].source.state = state[Here] /\ Pending = Before(holds[p])
  <2>1. holds[p].worktree = Here
    BY BeginsFacts, OnlyHere DEF Admissions
  <2> QED BY <2>1, CurrentSource DEF Begins, Before
<1>2. /\ UNCHANGED <<receipts, holds>> /\ pc' = [pc EXCEPT ![p] = "begun"] /\ Extends
  BY BeginsFacts, LedgerExtends
<1>3. pc'[p] = "begun" /\ \A q \in Processes \ {p} : pc'[q] = pc[q]
  BY <1>0, <1>2 DEF TypeOK
<1>4. \A q \in Processes : Begun(q)' <=> q = p
  BY <1>0, <1>3 DEF Begun, Quiet
<1>5. LastResult' = LastResult
  BY <1>2 DEF LastResult
<1>6. \A i \in DOMAIN receipts : receipts[i].admission \in DOMAIN admitted
  BY DEF Certified, Receipted
<1>7. Chained'
  BY <1>2, <1>5, <1>6 DEF Accounted, Chained, Extends
<1> QED BY <1>0, <1>1, <1>2, <1>4, <1>5, <1>7 DEF Accounted, Quiet

LEMMA AppendedReceipt ==
  ASSUME Typed, NEW p \in Processes, Commit(p)
  PROVE  /\ DOMAIN receipts' = DOMAIN receipts \cup {Len(receipts) + 1}
         /\ receipts'[Len(receipts) + 1] = Fact(p)
         /\ \A i \in DOMAIN receipts : receipts'[i] = receipts[i] /\ i < Len(receipts) + 1
         /\ LastResult' = Fact(p).result
<1>1. receipts' = Append(receipts, Fact(p)) /\ receipts \in Seq(Facts)
  BY DEF Commit, Typed, TypeOK
<1>2. /\ Len(receipts') = Len(receipts) + 1 /\ DOMAIN receipts' = 1..(Len(receipts) + 1)
      /\ Len(receipts) \in Nat /\ DOMAIN receipts = 1..Len(receipts)
      /\ receipts'[Len(receipts) + 1] = Fact(p)
      /\ \A i \in 1..Len(receipts) : receipts'[i] = receipts[i]
      /\ receipts' # <<>>
  BY <1>1, AppendProperties, LenProperties, EmptySeq
<1>3. LastResult' = Fact(p).result
  BY <1>2 DEF LastResult
<1> QED BY <1>2, <1>3

LEMMA AccountedEnds ==
  ASSUME OneWorktree, Typed, Exclusive, Certified, Sound, Accounted,
         NEW p \in Processes, Ending(p), Begun(p)
  PROVE  Accounted'
<1>n. PICK a, h : a = own[p] /\ h = holds[p]
  OBVIOUS
<1>0. TypeOK /\ Ends(p) /\ UNCHANGED <<state, admitted>>
  BY EndingEnds DEF Typed, Ends, files
<1>1. /\ \A q \in Processes : ~Begun(q)'
      /\ a \in DOMAIN admitted /\ admitted[a] = h /\ h.worktree = Here /\ a \in Pending
  BY <1>0, <1>n, EndsKeeps, LockedStays, OwnPlan, OnlyHere DEF Exclusive, Owning, Sound
<1>2. /\ h.source.state.revision >= LastResult /\ LastResult \in Nat
      /\ Before(h) = {} => h.source.state.revision = LastResult
      /\ h.source.state.revision \in Nat
  BY <1>n, StateMoves, ReceiptsAreTyped DEF Accounted
<1>3. /\ \A i \in DOMAIN receipts : receipts[i].admission \in DOMAIN admitted
      /\ \A i \in DOMAIN receipts : receipts[i] \in Facts /\ receipts[i].result \in Nat
  BY ReceiptsAreTyped DEF Certified, Receipted, Facts
<1>4. CASE Commit(p)
  <2>1. Pending' = {} /\ state[Here].revision = h.source.state.revision + 1
    BY <1>4, <1>n, CommitSettles
  <2>f. PICK f, l : f = Fact(p) /\ l = Len(receipts) + 1
    OBVIOUS
  <2>2. /\ DOMAIN receipts' = DOMAIN receipts \cup {l}
        /\ receipts'[l] = f
        /\ \A i \in DOMAIN receipts : receipts'[i] = receipts[i] /\ i < l
        /\ LastResult' = f.result /\ l \in Nat
    <3>1. l \in Nat
      BY <2>f, ReceiptsAreTyped
    <3>2. /\ DOMAIN receipts' = DOMAIN receipts \cup {Len(receipts) + 1}
          /\ receipts'[Len(receipts) + 1] = Fact(p)
          /\ \A i \in DOMAIN receipts : receipts'[i] = receipts[i] /\ i < Len(receipts) + 1
          /\ LastResult' = Fact(p).result
      BY <1>4, AppendedReceipt
    <3> QED BY <2>f, <3>1, <3>2
  <2>3. /\ f.worktree = Here /\ f.prior = h.source.state.revision
        /\ f.result = h.source.state.revision + 1 /\ f.admission = a
    BY <1>1, <1>n, <2>f DEF Fact
  <2>4. \A i \in DOMAIN receipts : receipts[i].result <= f.prior
    BY <1>2, <1>3, <2>3 DEF Accounted, Chained
  <2>5. Chained'
    <3>1. \A i \in DOMAIN receipts' :
             /\ receipts'[i].worktree = Here
             /\ receipts'[i].result = receipts'[i].prior + 1
             /\ receipts'[i].result <= LastResult'
             /\ receipts'[i].prior = admitted[receipts'[i].admission].source.state.revision
      BY <1>1, <1>2, <1>3, <2>2, <2>3, <2>4 DEF Accounted, Chained
    <3>2. \A i, j \in DOMAIN receipts' : i < j => receipts'[i].result <= receipts'[j].prior
      <4>1. \A i \in DOMAIN receipts : ~(l < i) /\ ~(l < l)
        BY <2>2, ReceiptsAreTyped
      <4> QED BY <2>2, <2>4, <4>1 DEF Accounted, Chained
    <3> QED BY <1>0, <3>1, <3>2 DEF Chained
  <2> QED BY <1>0, <1>1, <1>2, <2>1, <2>2, <2>3, <2>5 DEF Accounted
<1>5. CASE ~Commit(p)
  <2>1. UNCHANGED receipts
    BY <1>0, <1>5, EndingEnds
  <2>2. LastResult' = LastResult
    BY <2>1 DEF LastResult
  <2>3. Chained'
    BY <1>0, <2>1, <2>2 DEF Accounted, Chained
  <2>4. CASE Abort(p)
    BY <1>0, <1>1, <1>2, <1>n, <2>2, <2>3, <2>4, AbortRestores DEF Accounted
  <2>5. CASE ~Abort(p)
    <3>1. Pending' # {}
      BY <1>0, <1>1, <1>5, <2>5, PendingOfEnds
    <3>2. state[Here].revision \in {h.source.state.revision, h.source.state.revision + 1}
      BY <1>n, StateMoves
    <3> QED BY <1>0, <1>1, <1>2, <2>2, <2>3, <3>1, <3>2 DEF Accounted
  <2> QED BY <2>4, <2>5
<1> QED BY <1>4, <1>5

LEMMA AccountedInduction ==
  ASSUME OneWorktree, Typed, Exclusive, Certified, Sound, Accounted, [Next]_vars
  PROVE  Accounted'
<1>1. ASSUME UNCHANGED <<receipts, holds>>, Extends, \A q \in Processes : Begun(q)' <=> Begun(q),
             \E q \in Processes : Begun(q)
      PROVE  Accounted'
  BY <1>1, AccountedWhenAlike DEF Quiet
<1>2. ASSUME UNCHANGED <<files, ledger>>, Extends, Pending' = Pending,
             \A q \in Processes : Begun(q)' <=> Begun(q),
             \A q \in Processes : Begun(q) => holds'[q] = holds[q]
      PROVE  Accounted'
  BY <1>2, AccountedWhenAlike DEF Quiet, files, ledger
<1> QED BY <1>1, <1>2, OtherSteps, AccountedBegins, AccountedEnds

LEMMA InitAccounted ==
  ASSUME OneWorktree, Init
  PROVE  Accounted
<1>1. DOMAIN <<>> = {}
  OBVIOUS
<1>2. state[Here].revision = 1
  BY OnlyHere DEF OneWorktree, Init, InitialState
<1> QED BY <1>1, <1>2 DEF Init, Accounted, Chained, LastResult, Begun

\* The receipts account for the durable state: with nothing pending its
\* revision is the result of the last receipt, and the receipts form one
\* chain (prescription-transactions.md L33-37).
THEOREM RevisionsAreAccountedFor ==
  ASSUME OneWorktree
  PROVE  Spec => []ReceiptsAccountForRevisions
<1>1. OneWorktree /\ Init => Accounted
  BY InitAccounted
<1>2. OneWorktree /\ Typed /\ Exclusive /\ Certified /\ Sound /\ Accounted /\ [Next]_vars => Accounted'
  BY AccountedInduction
<1>3. Typed /\ Exclusive /\ Accounted => ReceiptsAccountForRevisions
  <2> SUFFICES ASSUME Typed, Exclusive, Accounted
               PROVE  ReceiptsAccountForRevisions
    OBVIOUS
  <2>1. \A w \in Worktrees : ReceiptsOf(w) = DOMAIN receipts
    BY OnlyHere DEF ReceiptsOf, Accounted, Chained
  <2>2. Pending = {} => state[Here].revision = LastResult
    BY QuietWhenNothingIsPending DEF Accounted
  <2>3. DOMAIN receipts # {} =>
          /\ Len(receipts) \in DOMAIN receipts /\ LastResult = receipts[Len(receipts)].result
          /\ \A j \in DOMAIN receipts : j <= Len(receipts)
    BY ReceiptsAreTyped DEF LastResult
  <2>4. DOMAIN receipts = {} => LastResult = 1
    BY ReceiptsAreTyped, EmptySeq DEF LastResult
  <2> QED BY <2>1, <2>2, <2>3, <2>4, OnlyHere DEF ReceiptsAccountForRevisions, Accounted, Chained
<1> QED BY <1>1, <1>2, <1>3, SoundAlways, PTL DEF Spec

-----------------------------------------------------------------------------
(***************************************************************************)
(* Requests take effect once.                                              *)
(***************************************************************************)
LEMMA RootsExist ==
  ASSUME Typed
  PROVE  /\ \A a \in DOMAIN admitted : Root(a) \in DOMAIN admitted /\ Root(a) <= a /\ a \in Nat
         /\ \A c \in Pending : c \in DOMAIN admitted
         /\ \A a \in DOMAIN admitted : /\ admitted[a] \in Admissions
                                       /\ admitted[a].source.state.revision \in Nat
         /\ \A i \in DOMAIN receipts : receipts[i] \in Facts /\ receipts[i].result \in Nat
<1>0. TypeOK /\ Rooted
  BY DEF Typed
<1>1. \A a \in DOMAIN admitted : Root(a) \in DOMAIN admitted /\ Root(a) <= a /\ a \in Nat
  <2>1. \A a \in DOMAIN admitted : admitted[a].root < a /\ a \in Nat
    BY <1>0, SequencesAreFunctions DEF Rooted
  <2>2. \A a \in DOMAIN admitted : Root(a) \in DOMAIN admitted
    BY <1>0, RootsAreGrounded
  <2>3. \A a \in DOMAIN admitted : Root(a) \in {a, admitted[a].root} /\ Root(a) \in Nat
    BY <1>0, <2>2, SequencesAreFunctions DEF Root
  <2> QED BY <2>1, <2>2, <2>3
<1>2. \A c \in Pending : c \in DOMAIN admitted
  BY <1>0, PendingIsFinite, SequencesAreFunctions
<1>3. \A a \in DOMAIN admitted : admitted[a] \in Admissions
  BY <1>0, SequencesAreFunctions
<1>4. \A a \in DOMAIN admitted : admitted[a].source.state.revision \in Nat
  BY <1>3 DEF Admissions, Snapshots, States
<1>5. \A i \in DOMAIN receipts : receipts[i] \in Facts /\ receipts[i].result \in Nat
  BY ReceiptsAreTyped DEF Facts
<1> QED BY <1>1, <1>2, <1>3, <1>4, <1>5

LEMMA OrdinalBegins ==
  ASSUME OneWorktree, Typed, Exclusive, Certified, Accounted, Ordinal, NEW p \in Processes, Begins(p)
  PROVE  Ordinal'
<1>n. PICK n, h : n = Len(admitted) + 1 /\ h = holds[p]
  OBVIOUS
<1>0. TypeOK /\ Quiet /\ (h.transition \notin Recoveries => Pending = {})
      /\ (h.transition \in Recoveries => Pending # {} /\ \A a \in Pending : Root(a) = h.root)
  BY <1>n, BeginsOnOneGroup DEF Typed, Quiet
<1>1. /\ h.source.state = state[Here] /\ Pending = Before(h)
      /\ h \in Admissions /\ Grounded(h)
  <2>1. holds[p].worktree = Here
    BY BeginsFacts, OnlyHere DEF Admissions
  <2> QED BY <1>n, <2>1, CurrentSource, BeginsFacts DEF Begins, Before
<1>2. /\ UNCHANGED <<receipts, holds>> /\ pc' = [pc EXCEPT ![p] = "begun"] /\ Extends
      /\ DOMAIN admitted' = DOMAIN admitted \cup {n} /\ n \notin DOMAIN admitted
      /\ admitted'[n] = h /\ Pending' = Pending \cup {n} /\ n \in Nat
      /\ \A a \in DOMAIN admitted : a < n
  <2>1. /\ Extends /\ DOMAIN admitted' = DOMAIN admitted \cup {n} /\ n \notin DOMAIN admitted
        /\ Pending' = Pending \cup {n}
    BY <1>n, LedgerExtends, PendingOfBegins
  <2>2. n \in Nat /\ \A a \in DOMAIN admitted : a < n
    BY <1>0, <1>n, SequencesAreFunctions
  <2>3. /\ UNCHANGED <<receipts, holds>> /\ pc' = [pc EXCEPT ![p] = "begun"] /\ admitted'[n] = h
    BY <1>n, BeginsFacts
  <2> QED BY <2>1, <2>2, <2>3
<1>3. \A q \in Processes : Begun(q)' <=> q = p
  <2>1. pc'[p] = "begun" /\ \A q \in Processes \ {p} : pc'[q] = pc[q]
    BY <1>0, <1>2 DEF TypeOK
  <2> QED BY <1>0, <2>1 DEF Begun, Quiet
<1>4. /\ \A a \in DOMAIN admitted : Root(a)' = Root(a)
      /\ Root(n)' = IF h.root = 0 THEN n ELSE h.root
  BY <1>2, RootsStay DEF Root
<1>5. /\ h.root = 0 => Pending = {}
      /\ h.root # 0 => /\ h.root \in DOMAIN admitted
                       /\ Pending # {} /\ \A a \in Pending : Root(a) = h.root
  BY <1>0, <1>1, SequencesAreFunctions DEF Grounded
<1>6. Newest'
  <2>1. ASSUME NEW b \in DOMAIN admitted', admitted'[b].root = 0, NEW c \in Pending'
        PROVE  b <= Root(c)'
    <3>1. CASE h.root = 0
      <4>1. c = n
        BY <1>2, <1>5, <3>1
      <4> QED BY <1>2, <1>4, <3>1, <4>1, RootsExist
    <3>2. CASE h.root # 0
      <4>1. b \in DOMAIN admitted /\ admitted[b].root = 0
        BY <1>2, <2>1, <3>2 DEF Extends
      <4>2. PICK d \in Pending : Root(d) = h.root
        BY <1>5, <3>2
      <4>3. b <= h.root
        BY <4>1, <4>2 DEF Ordinal, Newest
      <4>4. Root(c)' = h.root
        BY <1>2, <1>4, <1>5, <3>2, RootsExist
      <4> QED BY <4>3, <4>4
    <3> QED BY <3>1, <3>2
  <2>2. Before(h) \subseteq Pending'
    BY <1>1, <1>2
  <2> QED BY <1>2, <1>3, <1>n, <2>1, <2>2 DEF Newest
<1>7. \A a \in DOMAIN admitted' :
        admitted'[a].source.state.revision >= admitted'[Root(a)'].source.state.revision
  <2>1. h.source.state.revision \in Nat
    BY <1>1 DEF Admissions, Snapshots, States
  <2>2. h.root # 0 => h.source.state.revision >= admitted[h.root].source.state.revision
    BY <1>0, <1>1, <1>5 DEF Ordinal
  <2>3. \A a \in DOMAIN admitted :
          /\ Root(a) \in DOMAIN admitted
          /\ admitted[a].source.state.revision >= admitted[Root(a)].source.state.revision
    BY RootsExist DEF Ordinal
  <2> QED BY <1>2, <1>4, <1>5, <2>1, <2>2, <2>3 DEF Extends
<1>8. \A i \in DOMAIN receipts : \A b \in DOMAIN admitted' :
        admitted'[b].root = 0 /\ b > Root(receipts[i].admission) =>
          receipts[i].result <= admitted'[b].source.state.revision
  <2> SUFFICES ASSUME NEW i \in DOMAIN receipts, NEW b \in DOMAIN admitted',
                      admitted'[b].root = 0, b > Root(receipts[i].admission)
               PROVE  receipts[i].result <= admitted'[b].source.state.revision
    OBVIOUS
  <2>1. receipts[i].admission \in DOMAIN admitted
    BY DEF Certified, Receipted
  <2>2. CASE b = n
    <3>1. Pending = {} /\ state[Here].revision = LastResult
      BY <1>0, <1>2, <1>5, <2>2 DEF Accounted
    <3> QED BY <1>1, <1>2, <2>2, <3>1 DEF Accounted, Chained
  <2>3. CASE b \in DOMAIN admitted
    BY <1>2, <1>4, <2>1, <2>3 DEF Ordinal, Extends
  <2> QED BY <1>2, <2>2, <2>3
<1>9. ~Quiet'
  BY <1>3 DEF Quiet
<1>10. \A i \in DOMAIN receipts : /\ receipts[i].admission \in DOMAIN admitted
                                  /\ Root(receipts[i].admission)' = Root(receipts[i].admission)
  <2>1. \A i \in DOMAIN receipts : receipts[i].admission \in DOMAIN admitted
    BY DEF Certified, Receipted
  <2>2. UNCHANGED receipts
    BY <1>2
  <2> QED BY <1>4, <2>1, <2>2
<1> QED BY <1>2, <1>6, <1>7, <1>8, <1>9, <1>10 DEF Ordinal

LEMMA OrdinalEnds ==
  ASSUME OneWorktree, Typed, Exclusive, Certified, Sound, Accounted, Ordinal,
         NEW p \in Processes, Ending(p), Begun(p)
  PROVE  Ordinal'
<1>n. PICK a, h : a = own[p] /\ h = holds[p]
  OBVIOUS
<1>0. TypeOK /\ Ends(p) /\ UNCHANGED <<state, admitted>>
  BY EndingEnds DEF Typed, Ends, files
<1>1. /\ \A q \in Processes : ~Begun(q)'
      /\ a \in DOMAIN admitted /\ admitted[a] = h /\ a \in Pending
  BY <1>0, <1>n, EndsKeeps, LockedStays, OwnPlan DEF Exclusive, Owning, Sound
<1>2. Pending' \subseteq Pending /\ \A c : Root(c)' = Root(c)
  BY <1>0, PendingOfEnds DEF Root
<1>3. Newest'
  BY <1>0, <1>1, <1>2 DEF Ordinal, Newest
<1>4. \A c \in Pending' : state'[Here].revision >= admitted'[Root(c)'].source.state.revision
  <2> SUFFICES ASSUME NEW c \in Pending
               PROVE  state[Here].revision >= admitted[Root(c)].source.state.revision
    BY <1>0, <1>2
  <2>1. Root(c) = Root(a) /\ Root(a) \in DOMAIN admitted
    BY <1>1, RootsExist DEF Exclusive, OneRoot
  <2>2. h.source.state.revision >= admitted[Root(c)].source.state.revision
    BY <1>1, <2>1 DEF Ordinal
  <2>3. /\ state[Here].revision \in {h.source.state.revision, h.source.state.revision + 1}
        /\ h.source.state.revision \in Nat
    BY <1>n, StateMoves
  <2>4. admitted[Root(c)].source.state.revision \in Nat
    BY <2>1, RootsExist
  <2> QED BY <2>2, <2>3, <2>4
<1>5. \A i \in DOMAIN receipts' : \A b \in DOMAIN admitted :
        admitted[b].root = 0 /\ b > Root(receipts'[i].admission) =>
          receipts'[i].result <= admitted[b].source.state.revision
  <2>1. CASE ~Commit(p)
    <3>1. receipts' = receipts
      BY <1>0, <2>1, EndingEnds
    <3> QED BY <3>1 DEF Ordinal
  <2>2. CASE Commit(p)
    <3>1. \A b \in DOMAIN admitted : admitted[b].root = 0 => ~(b > Root(a))
      <4>1. \A b \in DOMAIN admitted : admitted[b].root = 0 => b <= Root(a)
        BY <1>1 DEF Ordinal, Newest
      <4>2. Root(a) \in Nat /\ \A b \in DOMAIN admitted : b \in Nat
        BY <1>1, RootsExist
      <4> QED BY <4>1, <4>2
    <3>l. PICK l : l = Len(receipts) + 1
      OBVIOUS
    <3>2. /\ DOMAIN receipts' = DOMAIN receipts \cup {l} /\ receipts'[l].admission = a
          /\ \A i \in DOMAIN receipts : receipts'[i] = receipts[i]
      <4>1. Fact(p).admission = a
        BY <1>n DEF Fact
      <4>2. /\ DOMAIN receipts' = DOMAIN receipts \cup {Len(receipts) + 1}
            /\ receipts'[Len(receipts) + 1] = Fact(p)
            /\ \A i \in DOMAIN receipts : receipts'[i] = receipts[i]
        BY <2>2, AppendedReceipt
      <4> QED BY <3>l, <4>1, <4>2
    <3> QED BY <3>1, <3>2 DEF Ordinal
  <2> QED BY <2>1, <2>2
<1> QED BY <1>0, <1>2, <1>3, <1>4, <1>5 DEF Ordinal

LEMMA OrdinalInduction ==
  ASSUME OneWorktree, Typed, Exclusive, Certified, Sound, Accounted, Ordinal, [Next]_vars, Sound'
  PROVE  Ordinal'
<1>1. ASSUME UNCHANGED <<admitted, receipts, holds, own>>,
             \A q \in Processes : Begun(q)' <=> Begun(q), NEW p \in Processes, Begun(p)
      PROVE  Ordinal'
  <2>1. Pending' \subseteq Before(holds[p]) \cup {own[p]} /\ own[p] \in Pending
    BY <1>1 DEF Sound, Course, Exclusive, Owning
  <2>2. \A c : Root(c)' = Root(c)
    BY <1>1 DEF Root
  <2>3. Newest'
    BY <1>1, <2>1, <2>2 DEF Ordinal, Newest
  <2> QED BY <1>1, <2>2, <2>3 DEF Ordinal, Quiet
<1>2. ASSUME UNCHANGED <<files, ledger>>, Pending' = Pending,
             \A q \in Processes : Begun(q)' <=> Begun(q),
             \A q \in Processes : Begun(q) => holds'[q] = holds[q]
      PROVE  Ordinal'
  <2>1. UNCHANGED <<state, admitted, receipts>> /\ (Quiet' <=> Quiet) /\ \A c : Root(c)' = Root(c)
    BY <1>2 DEF files, ledger, Quiet, Root
  <2>2. Newest'
    BY <1>2, <2>1 DEF Ordinal, Newest
  <2> QED BY <1>2, <2>1, <2>2 DEF Ordinal
<1> QED BY <1>1, <1>2, OtherSteps, OrdinalBegins, OrdinalEnds

LEMMA InitOrdinal ==
  ASSUME Init
  PROVE  Ordinal
<1>1. DOMAIN <<>> = {}
  OBVIOUS
<1> QED BY <1>1 DEF Init, Ordinal, Newest, Pending

\* What the invariants say when both of two equal requests took effect.
LEMMA OnceAtMost ==
  ASSUME Typed, Certified, Accounted, Ordinal,
         NEW a \in DOMAIN admitted, NEW b \in DOMAIN admitted, a < b,
         admitted[a] = admitted[b], TookEffect(a), TookEffect(b)
  PROVE  FALSE
<1>1. PICK i \in DOMAIN receipts :
        \/ receipts[i].admission = a
        \/ /\ admitted[receipts[i].admission].root = a
           /\ admitted[receipts[i].admission].transition = "recovery.resume"
  BY DEF TookEffect
<1>2. PICK j \in DOMAIN receipts :
        \/ receipts[j].admission = b
        \/ /\ admitted[receipts[j].admission].root = b
           /\ admitted[receipts[j].admission].transition = "recovery.resume"
  BY DEF TookEffect
<1>3. \A k \in DOMAIN receipts :
        /\ receipts[k].admission \in DOMAIN admitted
        /\ receipts[k].prior = admitted[receipts[k].admission].source.state.revision
        /\ receipts[k].result = receipts[k].prior + 1
  BY DEF Certified, Receipted, Accounted, Chained
<1>4. a \in Nat /\ b \in Nat /\ a # 0 /\ b # 0
  BY SequencesAreFunctions DEF Typed
<1>5. /\ admitted[a].source.state.revision \in Nat
      /\ \A k \in DOMAIN receipts : admitted[receipts[k].admission].source.state.revision \in Nat
  BY <1>3, RootsExist
<1>6. CASE admitted[a].root = 0
  <2>1. Root(receipts[i].admission) = a
    BY <1>1, <1>4, <1>6 DEF Root
  <2>2. receipts[i].result <= admitted[b].source.state.revision
    BY <1>4, <1>6, <2>1 DEF Ordinal
  <2>3. admitted[receipts[i].admission].source.state.revision >= admitted[a].source.state.revision
    BY <1>3, <2>1 DEF Ordinal
  <2> QED BY <1>3, <1>5, <2>2, <2>3
<1>7. CASE admitted[a].root # 0
  <2>1. \A k \in DOMAIN admitted : admitted[k].root # 0 => admitted[admitted[k].root].root = 0
    BY SequencesAreFunctions DEF Typed, Rooted, Grounded
  <2>2. receipts[i].admission = a /\ receipts[j].admission = b
    BY <1>1, <1>2, <1>3, <1>4, <1>7, <2>1
  <2>3. i # j /\ i \in Nat /\ j \in Nat
    BY <2>2, <1>4, ReceiptsAreTyped
  <2>4. receipts[i].prior = receipts[j].prior /\ receipts[i].prior \in Nat
    BY <1>3, <1>5, <2>2
  <2>5. i < j => receipts[i].result <= receipts[j].prior
    BY DEF Accounted, Chained
  <2>6. j < i => receipts[j].result <= receipts[i].prior
    BY DEF Accounted, Chained
  <2> QED BY <1>3, <2>3, <2>4, <2>5, <2>6
<1> QED BY <1>6, <1>7

\* However often one request is presented and whatever interrupts it, it takes
\* effect once: two admissions with one idempotency key never both commit, be
\* it themselves or through a recovery that resumes them (admission.go
\* L156-167).
THEOREM RequestsTakeEffectOnceAlways ==
  ASSUME OneWorktree
  PROVE  Spec => []RequestsTakeEffectOnce
<1>1. OneWorktree /\ Init => Accounted /\ Ordinal
  BY InitAccounted, InitOrdinal
<1>2. OneWorktree /\ Typed /\ Exclusive /\ Certified /\ Sound /\ Accounted /\ Ordinal /\ [Next]_vars
        => (Accounted /\ Ordinal)'
  BY AccountedInduction, SoundInduction, OrdinalInduction
<1>3. Typed /\ Certified /\ Accounted /\ Ordinal => RequestsTakeEffectOnce
  <2> SUFFICES ASSUME Typed, Certified, Accounted, Ordinal,
                      NEW a \in DOMAIN admitted, NEW b \in DOMAIN admitted, a # b,
                      admitted[a] = admitted[b], TookEffect(a), TookEffect(b)
               PROVE  FALSE
    BY DEF RequestsTakeEffectOnce
  <2>1. a < b \/ b < a
    BY RootsExist
  <2> QED BY <2>1, OnceAtMost
<1> QED BY <1>1, <1>2, <1>3, SoundAlways, PTL DEF Spec

-----------------------------------------------------------------------------
(***************************************************************************)
(* External effects are not retried.                                       *)
(***************************************************************************)
\* Once an external command may have had its effect, what is prepared next
\* leaves no candidate to publish.
LEMMA PreparedIsShut ==
  ASSUME OneWorktree, Typed, Exclusive, Certified, Sound, Barred, Sound',
         NEW p \in Processes, Begins(p), NEW x \in DOMAIN admitted, Reached(x),
         NEW m \in Range(todo'[p]), m.kind = "state"
  PROVE  Shut(m.next)
<1>n. PICK n, h : n = Len(admitted) + 1 /\ h = holds[p]
  OBVIOUS
<1>0. /\ TypeOK /\ Planned /\ Left /\ Quiet /\ Bound(h)
      /\ h.transition \notin Recoveries => Pending = {}
      /\ h.transition \in Recoveries => Pending # {} /\ \A c \in Pending : Root(c) = h.root
  BY <1>n, BeginsOnOneGroup DEF Typed, Sound, Quiet
<1>1. /\ h \in Admissions /\ Grounded(h) /\ IsCurrent(h) /\ h.worktree = Here /\ Here \in Worktrees
      /\ h.source.state = state[Here] /\ Pending = Before(h)
  <2>1. holds[p] \in Admissions /\ Grounded(holds[p]) /\ holds[p].worktree = Here /\ Here \in Worktrees
    BY BeginsFacts, OnlyHere DEF Admissions
  <2> QED BY <1>n, <2>1, CurrentSource DEF Begins, Before
<1>2. Shut(state[Here]) \/ (Pending # {} /\ \A c \in Pending : Root(c) = x)
  BY <1>0 DEF Barred
<1>3. CASE h.root = 0
  <2>1. h.transition \in Transitions /\ Pending = {}
    BY <1>0, <1>1, <1>3, SequencesAreFunctions DEF Grounded, Admissions
  <2>2. ~state[Here].escalated /\ state[Here].publication # "candidate"
    BY <1>0, <1>1, <1>2, <2>1 DEF Bound, Shut
  <2>3. h.transition \in Local
    BY <1>0, <1>1, <2>1, <2>2 DEF Bound, Transitions
  <2>4. Whole(h, Range(todo'[p]))
    <3>1. pc'[p] = "begun" /\ holds'[p] = h
      BY <1>0, <1>n, BeginsFacts DEF TypeOK
    <3> QED BY <3>1 DEF Sound, Planned
  <2> QED BY <1>1, <1>3, <2>2, <2>3, <2>4 DEF Whole, Shut
<1>4. CASE h.root # 0 /\ ~IsReplay(h)
  <2>1. h.transition \in {"publication.reconcile", "recovery.escalate"}
    BY <1>1, <1>4 DEF Grounded, Recoveries, IsReplay
  <2>2. PICK seen \in Seen(h) : Range(todo'[p]) = WritesOf(h, n, seen)
    BY <1>4, <1>n, BeginsFacts
  <2>3. seen \in {"open", "unavailable"} /\ n \in Nat
    BY <1>0, <1>n, SequencesAreFunctions DEF Seen
  <2> DEFINE v == NextState(h, n, seen)
  <2>4. Shut(v)
    BY <1>0, <1>1, <1>4, <2>1, <2>3, NextStateCases DEF Shut
  <2> HIDE DEF v
  <2>5. m = WriteState(h.worktree, v) \/ m.kind # "state"
    BY <2>2 DEF WritesOf, v, Close, WriteArtifact
  <2>6. m.next = v
    BY <2>5 DEF WriteState
  <2> QED BY <2>4, <2>6
<1>5. CASE IsReplay(h)
  <2>r. PICK r : r = h.root
    OBVIOUS
  <2>0. /\ h.transition \in Recoveries \ {"recovery.escalate"} /\ h.transition # "publication.reconcile"
        /\ r \in DOMAIN admitted /\ admitted[r].root = 0
    BY <1>1, <1>5, <2>r DEF IsReplay, Recoveries, Grounded
  <2>1. admitted[r].transition \notin External /\ Pending = {r}
    <3>1. \A b \in Before(h) : b = r
      BY <1>0, <2>0, <2>r DEF Bound, Before
    <3> QED BY <1>0, <1>1, <2>0, <2>r, <3>1 DEF Bound
  <2>2. /\ admitted[r].transition \in Local /\ ~admitted[r].source.state.escalated
        /\ Whole(admitted[r], Staged(r)) /\ Between(r, state[Here], artifact[Here])
    <3>1. admitted[r] \in Admissions /\ Grounded(admitted[r]) /\ Bound(admitted[r])
      BY <2>0, SequencesAreFunctions DEF Typed, Rooted, Exclusive, Prescribed
    <3>2. admitted[r].transition \in Local
      BY <2>0, <2>1, <3>1, SequencesAreFunctions DEF Typed, Grounded, Admissions, Transitions
    <3> QED BY <1>0, <2>0, <2>1, <3>1, <3>2 DEF Bound, Transitions, Planned, Left
  <2>3. Shut(state[Here])
    <3>1. x # r
      BY <2>1 DEF Reached
    <3>2. Root(r) = r
      BY <2>0 DEF Root
    <3> QED BY <1>2, <2>1, <3>1, <3>2
  <2>4. \A k \in Staged(r) : k.kind = "state" =>
          /\ ~k.next.escalated /\ k.next.publication = admitted[r].source.state.publication
          /\ k.prior.publication = admitted[r].source.state.publication
    BY <2>0, <2>2 DEF Whole
  <2>5. /\ ~state[Here].escalated
        /\ state[Here].publication = admitted[r].source.state.publication
    BY <2>2, <2>4 DEF Between
  <2>6. admitted[r].source.state.publication # "candidate"
    BY <2>3, <2>5 DEF Shut
  <2>7. Range(todo'[p]) = ReplayOf(h)
    BY <1>5, <1>n, BeginsFacts
  <2>8. CASE journal[r].mutations = <<>>
    <3>1. m = Close(r) \/ m = WriteState(h.worktree, Advance(state[h.worktree]))
      BY <2>7, <2>8, <2>r DEF ReplayOf
    <3>2. m.next = Advance(state[Here])
      BY <1>1, <3>1 DEF Close, WriteState
    <3>3. state[Here] \in States
      BY <1>0, <1>1 DEF TypeOK
    <3>4. Advance(state[Here]).publication = state[Here].publication
      BY <3>3 DEF Advance, States
    <3> QED BY <2>5, <2>6, <3>2, <3>4 DEF Shut
  <2>9. CASE journal[r].mutations # <<>>
    <3> DEFINE resume == h.transition = "recovery.resume"
               revision == h.source.state.revision + 1
    <3>1. PICK k \in Staged(r) : m = Restored(k, resume, revision)
      <4>1. m # Close(r)
        BY DEF Close
      <4> QED BY <2>7, <2>9, <2>r, <4>1 DEF ReplayOf, Staged
    <3>2. k \in Mutations /\ k.kind # "close"
      BY <1>0, <1>1, <1>5, <2>r, PreparedReplay DEF Typed, Staged, Seen
    <3>3. revision \in Nat \ {0} /\ resume \in BOOLEAN
      BY <1>1 DEF Admissions, Snapshots, States
    <3> DEFINE value == IF resume THEN k.next ELSE k.prior
    <3> HIDE DEF revision, resume
    <3>4. /\ k.kind = "state" => /\ m = WriteState(k.at, [value EXCEPT !.revision = revision])
                                 /\ value \in States
          /\ k.kind # "state" => m = WriteArtifact(k.at, value)
      BY <1>0, <3>1, <3>2, <3>3, RestoredMutation
    <3>5. value.publication = admitted[r].source.state.publication \/ k.kind # "state"
      BY <2>4
    <3> HIDE DEF value
    <3>6. k.kind = "state"
      BY <3>4 DEF WriteArtifact
    <3> DEFINE v == [value EXCEPT !.revision = revision]
    <3>7. v.publication = value.publication
      BY <3>4, <3>6 DEF States
    <3>8. m = WriteState(k.at, v)
      BY <3>4, <3>6
    <3> HIDE DEF v
    <3>9. m.next = v
      BY <3>8 DEF WriteState
    <3> QED BY <2>6, <3>5, <3>6, <3>7, <3>9 DEF Shut
  <2> QED BY <2>8, <2>9
<1> QED BY <1>1, <1>3, <1>4, <1>5, SequencesAreFunctions, <1>0 DEF Grounded, IsReplay, Recoveries

LEMMA BarredBegins ==
  ASSUME OneWorktree, Typed, Exclusive, Certified, Sound, Barred, Sound',
         NEW p \in Processes, Begins(p)
  PROVE  Barred'
<1>n. PICK n, h : n = Len(admitted) + 1 /\ h = holds[p]
  OBVIOUS
<1>0. /\ TypeOK /\ Quiet /\ Bound(h)
      /\ h.transition \notin Recoveries => Pending = {}
      /\ h.transition \in Recoveries => Pending # {} /\ \A c \in Pending : Root(c) = h.root
  BY <1>n, BeginsOnOneGroup DEF Typed, Quiet
<1>1. /\ h \in Admissions /\ Grounded(h)
      /\ h.source.state = state[Here] /\ Pending = Before(h)
  <2>1. holds[p] \in Admissions /\ Grounded(holds[p]) /\ holds[p].worktree = Here
    BY BeginsFacts, OnlyHere DEF Admissions
  <2> QED BY <1>n, <2>1, CurrentSource DEF Begins, Before
<1>2. /\ Extends /\ DOMAIN admitted' = DOMAIN admitted \cup {n} /\ n \notin DOMAIN admitted
      /\ \A a \in DOMAIN admitted : a < n
  <2>1. /\ Extends /\ DOMAIN admitted' = DOMAIN admitted \cup {n} /\ n \notin DOMAIN admitted
    BY <1>n, LedgerExtends
  <2>2. \A a \in DOMAIN admitted : a < n
    BY <1>0, <1>n, SequencesAreFunctions
  <2> QED BY <2>1, <2>2
<1>3. /\ UNCHANGED <<state, holds>> /\ admitted'[n] = h /\ command'[n] = "none"
      /\ \A a \in DOMAIN admitted : command'[a] = command[a]
      /\ pc'[p] = "begun" /\ own'[p] = n
      /\ \A q \in Processes : Begun(q)' <=> q = p
  <2>1. /\ UNCHANGED <<state, holds>> /\ admitted'[n] = h /\ command'[n] = "none"
        /\ \A a \in 1..Len(admitted) : command'[a] = command[a]
        /\ pc' = [pc EXCEPT ![p] = "begun"] /\ own' = [own EXCEPT ![p] = n]
    BY <1>n, BeginsFacts DEF files
  <2>2. /\ pc'[p] = "begun" /\ own'[p] = n /\ \A q \in Processes \ {p} : pc'[q] = pc[q]
    BY <1>0, <2>1 DEF TypeOK
  <2>3. \A q \in Processes : Begun(q)' <=> q = p
    BY <1>0, <2>2 DEF Begun, Quiet
  <2>4. DOMAIN admitted = 1..Len(admitted)
    BY <1>0, SequencesAreFunctions
  <2> QED BY <2>1, <2>2, <2>3, <2>4
<1>4. \A a \in DOMAIN admitted' : Reached(a)' => a \in DOMAIN admitted /\ Reached(a)
  BY <1>2, <1>3 DEF Reached, Extends
<1>5. Root(n)' = IF h.root = 0 THEN n ELSE h.root
  BY <1>3 DEF Root
<1>6. \A a, b \in DOMAIN admitted' : Reached(a)' /\ Reached(b)' => a = b
  BY <1>4 DEF Barred
<1>7. ASSUME NEW a \in DOMAIN admitted, Reached(a), h.root = 0
      PROVE  h.source.state.publication # "candidate"
  <2>1. h.transition \in Transitions /\ Pending = {}
    BY <1>0, <1>1, <1>7, SequencesAreFunctions DEF Grounded, Admissions
  <2> QED BY <1>0, <1>1, <1>7, <2>1 DEF Bound, Barred, Shut
<1>8. \A a, b \in DOMAIN admitted' : Reached(a)' /\ admitted'[b].root = 0 /\ b > a =>
        admitted'[b].source.state.publication # "candidate"
  <2> SUFFICES ASSUME NEW a \in DOMAIN admitted, Reached(a), NEW b \in DOMAIN admitted',
                      admitted'[b].root = 0, b > a
               PROVE  admitted'[b].source.state.publication # "candidate"
    BY <1>4
  <2>1. CASE b = n
    BY <1>3, <1>7, <2>1
  <2>2. CASE b \in DOMAIN admitted
    BY <1>2, <2>2 DEF Extends, Barred
  <2> QED BY <1>2, <2>1, <2>2
<1>9. ASSUME NEW a \in DOMAIN admitted, Reached(a)
      PROVE  /\ (Root(n)' = a /\ Before(h) # {}) \/ Shut(h.source.state)
             /\ \A m \in Range(todo'[p]) : m.kind = "state" => Shut(m.next)
  <2>1. \A m \in Range(todo'[p]) : m.kind = "state" => Shut(m.next)
    BY <1>9, PreparedIsShut
  <2>2. Shut(state[Here]) \/ (Pending # {} /\ \A c \in Pending : Root(c) = a)
    BY <1>0, <1>9 DEF Barred
  <2>3. Pending # {} => h.root # 0 /\ \A c \in Pending : Root(c) = h.root
    BY <1>0, <1>1, SequencesAreFunctions DEF Grounded
  <2> QED BY <1>1, <1>5, <2>1, <2>2, <2>3
<1> QED BY <1>3, <1>4, <1>6, <1>8, <1>9, <1>n DEF Barred, Quiet

LEMMA BarredMarks ==
  ASSUME OneWorktree, Typed, Exclusive, Certified, Sound, Barred, NEW p \in Processes, Marking(p)
  PROVE  Barred'
<1>n. PICK a, h : a = own[p] /\ h = holds[p]
  OBVIOUS
<1>0. TypeOK /\ Marks(p) /\ Continues(p)
  BY MarkingMarks DEF Typed, Marks
<1>1. /\ Begun(p) /\ \A q \in Processes \ {p} : ~Begun(q)
      /\ \A q \in Processes : Begun(q)' <=> Begun(q)
      /\ a = Len(admitted) /\ \A c : Root(c)' = Root(c)
  BY <1>0, <1>n, ContinuesStaysBound
<1>2. /\ a \in DOMAIN admitted /\ a \in DOMAIN journal /\ a \in DOMAIN command
      /\ admitted[a] = h /\ Told(p) /\ h \in Admissions /\ Bound(h) /\ Grounded(h)
      /\ pc \in [Processes -> Places] /\ DOMAIN command = DOMAIN admitted
      /\ command \in Seq(Outcomes) /\ DOMAIN journal = DOMAIN admitted
  BY <1>0, <1>1, <1>n, OwnPlan, SequencesAreFunctions
     DEF Sound, Certified, TypeOK, Exclusive, Prescribed, Typed, Engaged, Begun
<1>3. /\ UNCHANGED <<state, admitted, holds, own, todo>>
      /\ \A b \in DOMAIN journal : b # a => journal'[b].mutations = journal[b].mutations
      /\ \A b \in DOMAIN command : b # a => command'[b] = command[b]
  BY <1>0, <1>n DEF Marks, Continues, files
<1>4. \A place : Goto(p, place) => pc'[p] = place
  BY <1>2 DEF Goto
<1>5. \A b \in DOMAIN admitted : b # a => (Reached(b)' <=> Reached(b))
  BY <1>2, <1>3 DEF Reached
\* What the step makes of p's own command and place.
<1>6. /\ pc'[p] \in {"aborting", "aborted"} => command'[a] \in {"none", "failed"}
      /\ pc'[p] = "undoing" => command'[a] # "uncertain"
      /\ pc'[p] # "begun" /\ (pc[p] = "begun" => Stage(p) \/ StageFails(p))
      /\ command'[a] = command[a] \/ pc[p] = "commanding"
  <2>1. \A v : command' = [command EXCEPT ![own[p]] = v] => command'[a] = v
    BY <1>2, <1>n
  <2>2. CASE Stage(p)
    <3>1. pc'[p] \in {"commanding", "writing"} /\ command' = command
      BY <1>4, <2>2 DEF Stage
    <3> QED BY <2>2, <3>1
  <2>3. CASE StageFails(p)
    <3>1. pc'[p] = "aborting" /\ command' = command /\ pc[p] = "begun"
      BY <1>4, <2>3 DEF StageFails, ledger
    <3> QED BY <1>2, <1>n, <2>3, <3>1 DEF Told
  <2>4. CASE CommandPasses(p) \/ CommandFails(p) \/ CommandUncertain(p) \/ CommandRefused(p)
    <3>1. /\ pc[p] = "commanding" /\ pc'[p] \in {"writing", "undoing", "written", "unsettled"}
          /\ pc'[p] = "undoing" => command'[a] = "failed"
      BY <1>4, <2>1, <2>4 DEF CommandPasses, CommandFails, CommandUncertain, CommandRefused, Reported
    <3> QED BY <3>1
  <2>5. CASE InstallFails(p)
    <3>1. pc'[p] \in {"unsettled", "undoing"} /\ command' = command /\ pc[p] = "writing"
      BY <1>4, <2>5 DEF InstallFails, ledger
    <3> QED BY <1>2, <1>n, <3>1 DEF Told
  <2>6. CASE Installed(p) \/ MarkFails(p) \/ Finalize(p) \/ CommitFails(p)
             \/ (UndoRest(p) /\ applied[p] = <<>>)
    <3>1. pc'[p] \in {"observing", "unsettled", "committing"} /\ command' = command /\ pc[p] # "begun"
      BY <1>4, <2>6 DEF Installed, MarkFails, Finalize, CommitFails, UndoRest, ledger
    <3> QED BY <3>1
  <2>7. CASE Observe(p)
    <3>0. pc[p] = "observing" /\ command' = command
      BY <2>7 DEF Observe, ledger
    <3>1. CASE TargetMatches(p)
      <4>1. pc'[p] \in {"verified", "unsettled"}
        BY <1>4, <2>7, <3>1 DEF Observe
      <4> QED BY <3>0, <4>1
    <3>2. CASE ~TargetMatches(p) /\ command[a] = "uncertain"
      <4>1. pc'[p] = "unsettled"
        BY <1>4, <1>n, <2>7, <3>2 DEF Observe
      <4> QED BY <3>0, <4>1
    <3>3. CASE ~TargetMatches(p) /\ command[a] # "uncertain"
      <4>1. pc'[p] = "undoing"
        BY <1>4, <1>n, <2>7, <3>3 DEF Observe
      <4> QED BY <3>0, <3>3, <4>1
    <3> QED BY <3>1, <3>2, <3>3
  <2>8. CASE ObserveFails(p)
    <3>1. /\ pc'[p] \in {"unsettled", "undoing"} /\ command' = command /\ pc[p] = "observing"
          /\ pc'[p] = "undoing" => command[a] # "uncertain"
      BY <1>4, <1>n, <2>8 DEF ObserveFails, ledger
    <3> QED BY <3>1
  <2>9. CASE Undone(p)
    <3>1. command' = command /\ pc[p] = "undoing" /\ command[a] # "uncertain"
      BY <1>1, <1>n, <2>9 DEF Undone, ledger, Barred
    <3>2. pc'[p] = IF command[a] = "passed" THEN "unsettled" ELSE "aborting"
      BY <1>4, <1>n, <2>9 DEF Undone
    <3>3. command[a] \in Outcomes
      BY <1>2, ElementOfSeq, LenProperties
    <3> QED BY <3>1, <3>2, <3>3 DEF Outcomes
  <2>10. CASE Archive(p)
    <3>1. command' = command /\ pc[p] = "aborting" /\ pc'[p] = "aborted"
      BY <1>4, <2>10 DEF Archive
    <3> QED BY <1>1, <1>n, <3>1 DEF Barred
  <2> QED BY <2>2, <2>3, <2>4, <2>5, <2>6, <2>7, <2>8, <2>9, <2>10 DEF Marking
\* An external command meets no other one.
<1>7. ASSUME Reached(a)', NEW b \in DOMAIN admitted, b # a
      PROVE  ~Reached(b)
  <2>1. CASE Reached(a)
    BY <1>2, <1>7, <2>1 DEF Barred
  <2>2. CASE ~Reached(a)
    <3>1. h.transition \in External
      BY <1>2, <1>3, <1>7 DEF Reached
    <3>2. h.root = 0 /\ Root(a) = a
      <4>1. h.transition \in Transitions /\ h.transition \notin Recoveries
        BY <3>1, TransitionsAreTyped DEF Transitions
      <4> QED BY <1>2, <4>1 DEF Grounded, Root
    <3>3. ~Shut(h.source.state)
      BY <1>2, <3>1 DEF Bound, Shut, Transitions
    <3> QED BY <1>1, <1>7, <1>n, <3>2, <3>3 DEF Barred
  <2> QED BY <2>1, <2>2
<1>8. ASSUME NEW b \in DOMAIN admitted, Reached(b)', b # a
      PROVE  /\ (Root(a) = b /\ Before(h) # {}) \/ Shut(h.source.state)
             /\ \A m \in Staged(a)' : m.kind = "state" => Shut(m.next)
  <2>1. Reached(b) /\ b # own[p]
    BY <1>5, <1>8, <1>n
  <2>2. /\ (Root(a) = b /\ Before(h) # {}) \/ Shut(h.source.state)
        /\ \A m \in (IF pc[p] = "begun" THEN Range(todo[p]) ELSE Staged(a)) :
             m.kind = "state" => Shut(m.next)
    BY <1>1, <1>n, <2>1 DEF Barred
  <2>3. CASE Stage(p)
    <3>1. pc[p] = "begun" /\ journal'[a].mutations = todo[p]
      BY <1>0, <1>2, <1>n, <2>3, StageUpdate DEF Stage
    <3>2. Staged(a)' = Range(todo[p])
      BY <3>1 DEF Staged
    <3> QED BY <2>2, <3>1, <3>2
  <2>4. CASE StageFails(p)
    <3>1. UNCHANGED journal /\ pc[p] = "begun"
      BY <2>4 DEF StageFails, ledger
    <3>2. Staged(a) = {}
      BY <1>1, <1>n, <3>1 DEF Sound, Course
    <3>3. Staged(a)' = Staged(a)
      BY <3>1 DEF Staged
    <3> QED BY <2>2, <3>2, <3>3
  <2>5. CASE ~Stage(p) /\ ~StageFails(p)
    <3>1. pc[p] # "begun"
      BY <1>6, <2>5
    <3>2. journal'[a].mutations = journal[a].mutations
      BY <1>0, <1>2, <2>5, OnlyStageStages
    <3> QED BY <2>2, <2>5, <3>1, <3>2 DEF Staged
  <2> QED BY <2>3, <2>4, <2>5
<1>9. \A b, c \in DOMAIN admitted : Reached(b)' /\ Reached(c)' => b = c
  BY <1>5, <1>7 DEF Barred
<1>10. \A b, c \in DOMAIN admitted : Reached(b)' /\ admitted[c].root = 0 /\ c > b =>
         admitted[c].source.state.publication # "candidate"
  <2>1. \A c \in DOMAIN admitted : ~(c > a)
    BY <1>0, <1>1, SequencesAreFunctions
  <2> QED BY <1>5, <2>1 DEF Barred
<1> QED BY <1>1, <1>3, <1>6, <1>8, <1>9, <1>10, <1>n DEF Barred, Quiet

LEMMA BarredEnds ==
  ASSUME OneWorktree, Typed, Exclusive, Certified, Sound, Barred,
         NEW p \in Processes, Ending(p), Begun(p)
  PROVE  Barred'
<1>n. PICK a, h : a = own[p] /\ h = holds[p]
  OBVIOUS
<1>0. TypeOK /\ Ends(p) /\ UNCHANGED <<state, admitted, command>>
  BY EndingEnds DEF Typed, Ends, files
<1>1. /\ \A q \in Processes : ~Begun(q)'
      /\ a \in DOMAIN admitted /\ admitted[a] = h /\ a \in Pending
      /\ Bound(h) /\ Grounded(h) /\ h \in Admissions /\ Whole(h, Staged(a))
      /\ pc[p] \notin {"idle", "admitted", "locked", "begun"} \/ Staged(a) = {}
  BY <1>0, <1>n, EndsKeeps, LockedStays, OwnPlan
     DEF Exclusive, Owning, Sound, Course, Prescribed, Begun, Typed, Engaged
<1>2. /\ \A c : (Root(c)' = Root(c)) /\ (Reached(c)' <=> Reached(c))
      /\ \A c \in Pending : Root(c) = Root(a)
      /\ Root(a) = IF h.root = 0 THEN a ELSE h.root
  BY <1>0, <1>1 DEF Root, Reached, Exclusive, OneRoot
<1>3. ASSUME NEW b \in DOMAIN admitted, Reached(b)
      PROVE  (Pending' # {} /\ \A c \in Pending' : Root(c) = b) \/ Shut(state[Here])
  <2>1. CASE b = a
    <3>1. h.transition \in External /\ h.root = 0 /\ Root(a) = a
      <4>1. h.transition \in External
        BY <1>1, <1>3, <2>1 DEF Reached
      <4>2. h.transition \in Transitions /\ h.transition \notin Recoveries
        BY <4>1, TransitionsAreTyped DEF Transitions
      <4> QED BY <1>1, <1>2, <4>1, <4>2 DEF Grounded
    <3>2. CASE Commit(p)
      <4>1. \E s \in Staged(a) : s.kind = "state" /\ state[Here] = s.next
        BY <1>n, <3>2, CommitSettles
      <4> QED BY <1>1, <3>1, <4>1 DEF Whole, Shut
    <3>3. ~Abort(p)
      <4>1. Abort(p) => command[a] \in {"none", "failed"}
        BY <1>n, Zenon DEF Abort, Barred, Begun
      <4> QED BY <1>3, <2>1, <4>1 DEF Reached
    <3>4. CASE ~Commit(p)
      BY <1>0, <1>1, <1>2, <2>1, <3>1, <3>3, <3>4, PendingOfEnds
    <3> QED BY <3>2, <3>4
  <2>2. CASE b # a
    <3>1. /\ (Root(a) = b /\ Before(h) # {}) \/ Shut(h.source.state)
          /\ \A m \in Staged(a) : m.kind = "state" => Shut(m.next)
      BY <1>1, <1>3, <1>n, <2>2 DEF Barred
    <3>2. CASE Commit(p)
      <4>1. \E s \in Staged(a) : s.kind = "state" /\ state[Here] = s.next
        BY <1>n, <3>2, CommitSettles
      <4> QED BY <3>1, <4>1
    <3>3. CASE Abort(p)
      <4>1. Pending' = Before(h) /\ state[Here] = h.source.state
        BY <1>n, <3>3, AbortRestores
      <4>2. Pending' \subseteq Pending
        BY <1>0, PendingOfEnds
      <4> QED BY <1>2, <3>1, <4>1, <4>2
    <3>4. CASE ~Commit(p) /\ ~Abort(p)
      <4>1. Pending' = Pending
        BY <1>0, <3>4, PendingOfEnds
      <4>2. state[Here] = h.source.state \/ \E m \in Staged(a) : m.kind = "state" /\ state[Here] = m.next
        BY <1>n, StateMoves
      <4> QED BY <1>1, <1>2, <3>1, <4>1, <4>2
    <3> QED BY <3>2, <3>3, <3>4
  <2> QED BY <2>1, <2>2
<1> QED BY <1>0, <1>1, <1>2, <1>3 DEF Barred

LEMMA BarredInduction ==
  ASSUME OneWorktree, Typed, Exclusive, Certified, Sound, Barred, [Next]_vars, Sound'
  PROVE  Barred'
<1>0. TypeOK
  BY DEF Typed
<1>1. ASSUME NEW p \in Processes, Putting(p) \/ UndoFails(p)
      PROVE  Barred'
  <2>1. /\ Continues(p) /\ UNCHANGED command /\ JournalsKept
        /\ \A b \in DOMAIN journal : journal'[b].mutations = journal[b].mutations
        /\ pc[p] \in {"writing", "undoing", "undoing-in-part"}
        /\ pc'[p] = pc[p] \/ pc'[p] = "undoing-in-part"
    <3>1. CASE Putting(p)
      <4>1. pc[p] \in {"writing", "undoing", "undoing-in-part"}
        BY <3>1 DEF Putting, Install, Undo, UndoRest
      <4>2. PICK m \in Mutations : \E value \in {m.prior, m.next} : Puts(p, m, value)
        BY <1>0, <3>1, PuttingPuts
      <4> QED BY <1>0, <4>1, <4>2, PutIsTyped DEF Puts
    <3>2. CASE UndoFails(p)
      BY <1>0, <3>2, UndoFailsFacts DEF ledger, JournalsKept, TypeOK
    <3> QED BY <1>1, <3>1, <3>2
  <2>2. /\ Begun(p) /\ \A q \in Processes \ {p} : ~Begun(q)
        /\ \A q \in Processes : Begun(q)' <=> Begun(q)
        /\ \A c : Root(c)' = Root(c)
    BY <2>1, ContinuesStaysBound
  <2>3. UNCHANGED <<admitted, holds, own>> /\ own[p] \in DOMAIN admitted
    BY <2>1, <2>2, OwnPlan DEF Continues, Sound
  <2>4. \A b \in DOMAIN admitted : Staged(b)' = Staged(b) /\ (Reached(b)' <=> Reached(b))
    BY <1>0, <2>1, <2>3, StagedStays DEF Reached
  <2> QED BY <2>1, <2>2, <2>3, <2>4 DEF Barred, Quiet
<1>2. ASSUME UNCHANGED <<files, ledger>>, Pending' = Pending,
             \A q \in Processes : Begun(q)' <=> Begun(q),
             \A q \in Processes : Begun(q) =>
                 /\ pc'[q] = pc[q] /\ holds'[q] = holds[q] /\ own'[q] = own[q]
                 /\ todo'[q] = todo[q] /\ applied'[q] = applied[q]
      PROVE  Barred'
  <2>1. /\ UNCHANGED <<state, admitted, command>> /\ (Quiet' <=> Quiet)
        /\ \A c : Root(c)' = Root(c) /\ (Reached(c)' <=> Reached(c)) /\ Staged(c)' = Staged(c)
    BY <1>2 DEF files, ledger, Quiet, Root, Reached, Staged
  <2> QED BY <1>2, <2>1 DEF Barred
<1> QED BY <1>1, <1>2, OtherSteps, BarredBegins, BarredMarks, BarredEnds

LEMMA InitBarred ==
  ASSUME Init
  PROVE  Barred
<1>1. DOMAIN <<>> = {}
  OBVIOUS
<1> QED BY <1>1 DEF Init, Barred, Begun

\* The command of an external transition has its effect at most once: after
\* one that passed or may have passed, neither it nor any other external
\* command runs to an end, whatever recoveries make of the interrupted one
\* (prescription-transactions.md L50).
THEOREM ExternalEffectsHappenOnce ==
  ASSUME OneWorktree
  PROVE  Spec => []ExternalEffectsAreNotRetried
<1>1. OneWorktree /\ Init => Barred
  BY InitBarred
<1>2. OneWorktree /\ Typed /\ Exclusive /\ Certified /\ Sound /\ Barred /\ [Next]_vars => Barred'
  BY BarredInduction, SoundInduction
<1>3. Typed /\ Barred => ExternalEffectsAreNotRetried
  <2> SUFFICES ASSUME Typed, Barred, NEW a \in DOMAIN admitted, NEW b \in DOMAIN admitted, a # b,
                      admitted[a].transition \in External,
                      admitted[b].transition = admitted[a].transition,
                      {command[a], command[b]} \cap {"none", "failed"} = {}
               PROVE  FALSE
    BY DEF ExternalEffectsAreNotRetried
  <2>1. command[a] \in Outcomes /\ command[b] \in Outcomes
    BY SequencesAreFunctions DEF Typed
  <2>2. Reached(a) /\ Reached(b)
    BY <2>1 DEF Reached, Outcomes
  <2> QED BY <2>2 DEF Barred
<1> QED BY <1>1, <1>2, <1>3, SoundAlways, PTL DEF Spec
=============================================================================
