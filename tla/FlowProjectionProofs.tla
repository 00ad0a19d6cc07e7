-------------------------- MODULE FlowProjectionProofs -------------------------
(***************************************************************************)
(* Proofs about the compilation of Flows under a user who edits, and       *)
(* beside the maintenance of host projections: for any compilers, paths,   *)
(* sources, versions and hosts, and without the bounds of the runs.        *)
(***************************************************************************)
EXTENDS MaintenanceProjection, FiniteSetTheorems, SequenceTheorems, WellFoundedInduction, TLAPS

(***************************************************************************)
(* Sequences of paths.                                                     *)
(***************************************************************************)

LEMMA LeastOfNaturals ==
  ASSUME NEW T, T \subseteq Nat, T # {}
  PROVE  \E m \in T : \A n \in T : m <= n
<1>1. PICK m \in T : \A n \in T : ~ (<<n, m>> \in OpToRel(<, Nat))
  BY NatLessThanWellFounded, WFMin
<1>2. ASSUME NEW n \in T PROVE m <= n
  <2>1. <<n, m>> \in Nat \X Nat
    OBVIOUS
  <2>2. ~ (n < m)
    BY <1>1, <2>1 DEF OpToRel
  <2> QED BY <2>1, <2>2
<1> QED BY <1>2

LEMMA ElementsOfTail ==
  ASSUME NEW S, NEW s \in Seq(S), s # <<>>
  PROVE  /\ Head(s) \in S /\ Tail(s) \in Seq(S)
         /\ ToSet(s) = {Head(s)} \cup ToSet(Tail(s))
<1>1. /\ Len(s) \in Nat \ {0} /\ DOMAIN s = 1..Len(s)
      /\ Head(s) = s[1] /\ Head(s) \in S
      /\ Tail(s) \in Seq(S) /\ Len(Tail(s)) = Len(s) - 1
      /\ \A i \in 1..Len(Tail(s)) : Tail(s)[i] = s[i + 1]
  BY HeadTailProperties, LenProperties, EmptySeq
<1>2. DOMAIN Tail(s) = 1..(Len(s) - 1)
  BY <1>1, LenProperties
<1>3. ASSUME NEW i \in DOMAIN s PROVE s[i] = Head(s) \/ s[i] \in ToSet(Tail(s))
  <2>1. CASE i = 1
    BY <2>1, <1>1
  <2>2. CASE i # 1
    <3>1. i - 1 \in 1..Len(Tail(s)) /\ Tail(s)[i - 1] = s[i]
      BY <2>2, <1>1
    <3> QED BY <3>1, <1>1, <1>2 DEF ToSet
  <2> QED BY <2>1, <2>2
<1>4. ASSUME NEW i \in DOMAIN Tail(s) PROVE Tail(s)[i] \in ToSet(s)
  <2>1. i + 1 \in DOMAIN s /\ Tail(s)[i] = s[i + 1]
    BY <1>1, <1>2
  <2> QED BY <2>1 DEF ToSet
<1>5. Head(s) \in ToSet(s)
  BY <1>1 DEF ToSet
<1> QED BY <1>1, <1>3, <1>4, <1>5 DEF ToSet

LEMMA ElementsOfAppend ==
  ASSUME NEW S, NEW s \in Seq(S), NEW x \in S
  PROVE  Append(s, x) \in Seq(S) /\ ToSet(Append(s, x)) = ToSet(s) \cup {x}
<1>1. /\ Append(s, x) \in Seq(S) /\ Len(Append(s, x)) = Len(s) + 1
      /\ \A i \in 1..Len(s) : Append(s, x)[i] = s[i]
      /\ Append(s, x)[Len(s) + 1] = x
  BY AppendProperties
<1>2. Len(s) \in Nat /\ DOMAIN s = 1..Len(s) /\ DOMAIN Append(s, x) = 1..(Len(s) + 1)
  BY <1>1, LenProperties
<1>3. \A i \in DOMAIN Append(s, x) : Append(s, x)[i] \in ToSet(s) \cup {x}
  BY <1>1, <1>2 DEF ToSet
<1>4. \A i \in DOMAIN s : s[i] \in ToSet(Append(s, x))
  BY <1>1, <1>2 DEF ToSet
<1>5. x \in ToSet(Append(s, x))
  BY <1>1, <1>2 DEF ToSet
<1> QED BY <1>1, <1>3, <1>4, <1>5 DEF ToSet

LEMMA ElementsOfReverse ==
  ASSUME NEW S, NEW s \in Seq(S)
  PROVE  Reverse(s) \in Seq(S) /\ ToSet(Reverse(s)) = ToSet(s)
<1>1. Len(s) \in Nat /\ DOMAIN s = 1..Len(s) /\ \A i \in 1..Len(s) : s[i] \in S
  BY LenProperties, ElementOfSeq
<1>2. Reverse(s) = [i \in 1..Len(s) |-> s[(Len(s) - i) + 1]]
  BY DEF Reverse
<1>3. \A i \in 1..Len(s) : Reverse(s)[i] = s[(Len(s) - i) + 1]
                           /\ (Len(s) - i) + 1 \in 1..Len(s)
  BY <1>1, <1>2
<1>4. Reverse(s) \in Seq(S)
  BY <1>1, <1>2, <1>3, IsASeq
<1>5. DOMAIN Reverse(s) = 1..Len(s)
  BY <1>2
<1>6. ASSUME NEW i \in 1..Len(s) PROVE s[i] \in ToSet(Reverse(s))
  <2>1. (Len(s) - i) + 1 \in 1..Len(s) /\ Reverse(s)[(Len(s) - i) + 1] = s[i]
    BY <1>1, <1>2
  <2> QED BY <2>1, <1>5 DEF ToSet
<1>7. \A i \in 1..Len(s) : Reverse(s)[i] \in ToSet(s)
  BY <1>1, <1>3 DEF ToSet
<1>8. ToSet(Reverse(s)) \subseteq ToSet(s)
  BY <1>5, <1>7 DEF ToSet
<1>9. ToSet(s) \subseteq ToSet(Reverse(s))
  BY <1>1, <1>6 DEF ToSet
<1> QED BY <1>4, <1>8, <1>9

\* The places of a set of paths have a first, a second and so on.
LEMMA PlacesAreCounted ==
  ASSUME NEW places, places \subseteq Nat, IsFiniteSet(places),
         NEW k \in 1..Cardinality(places)
  PROVE  \E i \in places : Cardinality({j \in places : j <= i}) = k
<1>0. \A i \in places : i \in Nat
  OBVIOUS
<1> DEFINE upTo(i) == {j \in places : j <= i}
           counted(n) == \E i \in places : Cardinality(upTo(i)) = n
           missed == {n \in 1..Cardinality(places) : ~counted(n)}
<1>1. Cardinality(places) \in Nat
  BY FS_CardinalityType
<1>2. ASSUME missed # {} PROVE FALSE
  <2>1. missed \subseteq Nat
    BY <1>1
  <2>2. PICK n \in missed : \A m \in missed : n <= m
    BY <1>2, <2>1, LeastOfNaturals
  <2>3. n \in 1..Cardinality(places) /\ ~counted(n)
    OBVIOUS
  <2>4. CASE n = 1
    <3>1. places # {}
      BY <2>3, <1>1, FS_EmptySet
    <3>2. PICK i \in places : \A j \in places : i <= j
      BY <3>1, LeastOfNaturals
    <3>3. upTo(i) = {i}
      <4>1. \A j \in places : j <= i <=> j = i
        BY <3>2, <1>0
      <4> QED BY <4>1
    <3>4. Cardinality({i}) = 1
      BY FS_Singleton
    <3> QED BY <2>3, <2>4, <3>3, <3>4
  <2>5. CASE n # 1
    <3>1. n - 1 \in 1..Cardinality(places) /\ n - 1 \notin missed
      BY <2>2, <2>3, <2>5, <1>1
    <3>2. PICK i \in places : Cardinality(upTo(i)) = n - 1
      BY <3>1
    <3>3. upTo(i) # places
      <4>1. Cardinality(upTo(i)) < Cardinality(places)
        BY <3>2, <2>3, <1>1
      <4> QED BY <4>1, <1>1
    <3> DEFINE later == {j \in places : j > i}
    <3>4. later # {} /\ later \subseteq Nat
      <4>1. PICK j \in places : j \notin upTo(i)
        BY <3>3
      <4>2. j > i
        BY <4>1, <1>0
      <4> QED BY <4>2, <1>0
    <3> HIDE DEF later
    <3>5. PICK l \in later : \A j \in later : l <= j
      BY <3>4, LeastOfNaturals
    <3>6. l \in places /\ l > i /\ l \notin upTo(i)
      BY <3>5 DEF later
    <3>7. upTo(l) = upTo(i) \cup {l}
      <4>1. ASSUME NEW j \in places PROVE j <= l <=> j <= i \/ j = l
        <5>1. j \in Nat /\ l \in Nat /\ i \in Nat
          BY <3>6, <1>0
        <5>2. CASE j > i
          BY <5>1, <5>2, <3>5, <3>6 DEF later
        <5> QED BY <5>1, <5>2, <3>6
      <4> QED BY <4>1, <3>6
    <3>8. IsFiniteSet(upTo(i))
      BY FS_Subset
    <3>9. Cardinality(upTo(i) \cup {l}) = Cardinality(upTo(i)) + 1
      BY <3>6, <3>8, FS_AddElement
    <3>10. Cardinality(upTo(l)) = n
      BY <3>2, <3>7, <3>9, <2>3, <1>1
    <3> QED BY <3>10, <3>6, <2>3
  <2> QED BY <2>4, <2>5
<1> QED BY <1>2

LEMMA OrderedPathsAreOfTheSet ==
  ASSUME NEW S
  PROVE  InPathOrder(S) \in Seq(Paths) /\ ToSet(InPathOrder(S)) \subseteq S
<1> DEFINE places == {i \in DOMAIN Order : Order[i] \in S}
           place(k) == CHOOSE i \in places : Cardinality({j \in places : j <= i}) = k
<1>1. Order \in Seq(Paths) /\ Len(Order) \in Nat /\ DOMAIN Order = 1..Len(Order)
  BY PathsAreListedOnce, LenProperties
<1>2. places \subseteq Nat /\ IsFiniteSet(places)
  <2>1. IsFiniteSet(1..Len(Order))
    BY <1>1, FS_Interval
  <2> QED BY <1>1, <2>1, FS_Subset
<1>3. Cardinality(places) \in Nat
  BY <1>2, FS_CardinalityType
<1>4. ASSUME NEW k \in 1..Cardinality(places) PROVE place(k) \in places
  BY <1>2, PlacesAreCounted
<1> HIDE DEF place
<1>5. ASSUME NEW k \in 1..Cardinality(places)
      PROVE  Order[place(k)] \in S /\ Order[place(k)] \in Paths
  BY <1>4, <1>1 DEF Paths
<1>6. InPathOrder(S) = [k \in 1..Cardinality(places) |-> Order[place(k)]]
  BY DEF InPathOrder, place
<1>7. InPathOrder(S) \in Seq(Paths)
  BY <1>3, <1>5, <1>6, IsASeq
<1> QED BY <1>5, <1>6, <1>7 DEF ToSet
-----------------------------------------------------------------------------
(***************************************************************************)
(* Types.                                                                  *)
(***************************************************************************)
Rendering == Contents \cup ArtifactBytes

Begun == [source : Sources, inputs : Inputs, prior : Inputs \cup {None}]

\* Who is in a compilation has its job.
Typed ==
  /\ TypeOK
  /\ \A c \in Compilers : pc[c] # "idle" => job[c] \in Begun
  /\ edits \in Nat /\ changes \in Nat /\ faults \in Nat

LEMMA FilesAreTyped ==
  ASSUME NEW s \in Sources, NEW i \in Inputs
  PROVE  /\ DOMAIN Files[s][i] \subseteq Paths
         /\ ArtifactAt[s][i.version] \in DOMAIN Files[s][i]
         /\ \A p \in DOMAIN Files[s][i] : Files[s][i][p] \in Rendering
<1> DEFINE outputs  == {p \in DOMAIN Rendered[s][i.version] : HostOf[p] \in i.hosts \cup {None}}
           artifact == ArtifactAt[s][i.version]
<1>1. Files[s][i] =
        [p \in outputs \cup {artifact} |->
           IF p = artifact THEN [source |-> s, inputs |-> i] ELSE Rendered[s][i.version][p]]
  BY DEF Files
<1>2. i.version \in Versions
  BY DEF Inputs
<1>3. outputs \subseteq Paths /\ artifact \in Paths
  BY <1>2, RenderingsAreTyped
<1>4. \A p \in outputs : Rendered[s][i.version][p] \in Contents
  BY <1>2, RenderingsAreTyped
<1>5. [source |-> s, inputs |-> i] \in ArtifactBytes
  BY DEF ArtifactBytes
<1> HIDE DEF outputs, artifact
<1>6. DOMAIN Files[s][i] = outputs \cup {artifact}
  BY <1>1
<1>7. ASSUME NEW p \in outputs \cup {artifact} PROVE Files[s][i][p] \in Rendering
  BY <1>1, <1>4, <1>5, <1>7 DEF Rendering
<1> QED BY <1>3, <1>6, <1>7 DEF artifact

\* What a compilation writes, and what it may find.
LEMMA JobsAreTyped ==
  ASSUME NEW j \in Begun
  PROVE  /\ DOMAIN Writes(j) \subseteq Paths
         /\ Artifact(j) \in DOMAIN Writes(j) /\ Outputs(j) \subseteq Paths
         /\ \A p \in DOMAIN Writes(j) : Writes(j)[p] \in Rendering
         /\ \A p : Previous(j, p) \in Rendering \cup {Absent}
         /\ Removals(j) \subseteq Obsolete(j) /\ Obsolete(j) \subseteq Paths
         /\ \A p \in Obsolete(j) : p \notin DOMAIN Writes(j)
<1>1. j.source \in Sources /\ j.inputs \in Inputs /\ j.prior \in Inputs \cup {None}
  BY DEF Begun
<1>2. /\ DOMAIN Writes(j) \subseteq Paths
      /\ Artifact(j) \in DOMAIN Writes(j) /\ Outputs(j) \subseteq Paths
      /\ \A p \in DOMAIN Writes(j) : Writes(j)[p] \in Rendering
  BY <1>1, FilesAreTyped DEF Writes, Artifact, Outputs
<1> DEFINE prior == Record(j.source, j.prior)
<1>3. DOMAIN prior \subseteq Paths /\ \A p \in DOMAIN prior : prior[p] \in Rendering
  <2>1. CASE j.prior = None
    BY <2>1, EmptySeq DEF Record
  <2>2. CASE j.prior # None
    BY <2>2, <1>1, FilesAreTyped DEF Record
  <2> QED BY <2>1, <2>2
<1>4. \A p : Previous(j, p) \in Rendering \cup {Absent}
  BY <1>3 DEF Previous
<1>5. Removals(j) \subseteq Obsolete(j) /\ Obsolete(j) \subseteq Paths
      /\ \A p \in Obsolete(j) : p \notin DOMAIN Writes(j)
  BY <1>3 DEF Removals, Obsolete
<1> QED BY <1>2, <1>4, <1>5

LEMMA ForeignIsNotRendered ==
  /\ Foreign \notin Rendering /\ Absent \notin Rendering /\ Unread \notin Rendering
  /\ Unread \notin Bytes /\ Foreign # Absent /\ Foreign # Unread /\ Absent # Unread
  /\ Bytes = Rendering \cup {Absent, Foreign}
BY NamesAreDistinct DEF Rendering, Bytes

LEMMA InitIsTyped == Init => Typed
<1> SUFFICES ASSUME Init PROVE Typed
  OBVIOUS
<1>1. file \in [Paths -> Bytes]
  <2>1. PICK chosen \in [Sources -> [version : Versions, hosts : {hosts}] \cup {None}] :
          file = Checkout(chosen)
    BY DEF Init
  <2>2. hosts \in SUBSET Hosts /\ \A s \in Sources : chosen[s] \in Inputs \cup {None}
    BY DEF Init, Inputs
  <2>3. ASSUME NEW p \in Paths PROVE Checkout(chosen)[p] \in Bytes
    <3> DEFINE flows == {s \in Sources : p \in DOMAIN Record(s, chosen[s])}
               flow == CHOOSE s \in flows : TRUE
    <3>1. CASE p \in DOMAIN Maintained /\ HostOf[p] \in manifest
      BY <3>1, RenderingsAreTyped DEF Checkout, Bytes
    <3>2. CASE ~(p \in DOMAIN Maintained /\ HostOf[p] \in manifest) /\ flows = {}
      BY <3>2 DEF Checkout, Bytes
    <3>3. CASE ~(p \in DOMAIN Maintained /\ HostOf[p] \in manifest) /\ flows # {}
      <4>1. flow \in Sources /\ p \in DOMAIN Record(flow, chosen[flow])
        BY <3>3
      <4>2. Checkout(chosen)[p] = Record(flow, chosen[flow])[p]
        BY <3>3 DEF Checkout
      <4> HIDE DEF flow
      <4>3. chosen[flow] # None
        <5>1. DOMAIN <<>> = {}
          OBVIOUS
        <5> QED BY <5>1, <4>1 DEF Record
      <4>4. chosen[flow] \in Inputs
        BY <2>2, <4>1, <4>3
      <4>5. Record(flow, chosen[flow])[p] \in Rendering
        BY <4>1, <4>3, <4>4, FilesAreTyped DEF Record
      <4> QED BY <4>2, <4>5, ForeignIsNotRendered
    <3> QED BY <3>1, <3>2, <3>3
  <2> QED BY <2>1, <2>3 DEF Checkout
<1>2. TypeOK
  <2>1. <<>> \in Seq(Paths)
    BY EmptySeq
  <2>2. Absent \in Bytes
    BY DEF Bytes
  <2>3. Free \notin Compilers
    BY NamesAreDistinct
  <2> QED BY <1>1, <2>1, <2>2, <2>3 DEF Init, TypeOK, Jobs, NoJob, Committing
<1> QED BY <1>2 DEF Typed, Init

\* The end of a call, and the end of the lock.
LEMMA ReturnIsTyped ==
  ASSUME Typed, NEW c \in Compilers, Return(c)
  PROVE  /\ job' \in [Compilers -> Jobs]
         /\ pc' \in [Compilers -> {"idle", "frontend", "ready"} \cup Committing]
         /\ pc'[c] = "idle" /\ \A d \in Compilers \ {c} : pc'[d] = pc[d]
         /\ \A d \in Compilers : pc'[d] # "idle" => job'[d] \in Begun
<1>1. NoJob \in Jobs
  BY DEF NoJob, Jobs
<1> QED BY <1>1 DEF Typed, TypeOK, Return

LEMMA ReleaseIsTyped ==
  ASSUME Release
  PROVE  /\ todo' \in Seq(Paths) /\ changed' \in Seq(Paths) /\ retired' \subseteq Paths
         /\ saw' \in Bytes \cup {Unread} /\ snapshot' \in [Paths -> Bytes]
         /\ unread' \subseteq Paths \cup Sources /\ edited' \subseteq Paths
         /\ lock' = Free
BY EmptySeq DEF Release, Bytes

LEMMA AbandonIsTyped ==
  ASSUME Typed, NEW c \in Compilers, Abandon(c), pc[c] \in Committing
  PROVE  /\ todo' \in Seq(Paths) /\ ToSet(todo') = ToSet(changed) /\ saw' = Unread
         /\ pc' \in [Compilers -> {"idle", "frontend", "ready"} \cup Committing]
         /\ pc'[c] = "undo" /\ \A d \in Compilers \ {c} : pc'[d] = pc[d]
<1>1. changed \in Seq(Paths)
  BY DEF Typed, TypeOK
<1> QED BY <1>1, ElementsOfReverse DEF Abandon, Typed, TypeOK, Committing

\* An action before the lock, by a compiler that does not hold it.
LEMMA PlanningIsTyped ==
  ASSUME Typed, NEW c \in Compilers,
         (\E s \in Sources : Load(c, s)) \/ Plan(c) \/ Busy(c) \/ Refuse(c)
  PROVE  Typed' /\ UNCHANGED <<world, lock, memory, history, bounds>>
         /\ lock # c /\ \A d \in Compilers \ {c} : pc'[d] = pc[d] /\ job'[d] = job[d]
<1>1. NoJob \in Jobs
  BY DEF NoJob, Jobs
<1>2. UNCHANGED <<world, lock, memory, history, bounds>>
  BY DEF Load, Plan, Busy, Refuse
<1>3. lock # c
  BY DEF Typed, TypeOK, Load, Plan, Busy, Refuse, Committing
<1>4. /\ pc' \in [Compilers -> {"idle", "frontend", "ready"} \cup Committing]
      /\ pc'[c] \notin Committing
      /\ job' \in [Compilers -> Jobs]
      /\ \A d \in Compilers \ {c} : pc'[d] = pc[d] /\ job'[d] = job[d]
      /\ \A d \in Compilers : pc'[d] # "idle" => job'[d] \in Begun
  <2>1. ASSUME NEW s \in Sources, Load(c, s) PROVE <1>4!:
    <3>1. Says(s) \in Inputs
      BY DEF Says, Inputs, Typed, TypeOK
    <3> QED BY <2>1, <3>1 DEF Load, Typed, TypeOK, Begun, Jobs, Committing
  <2>2. CASE Plan(c)
    <3>1. CASE InputsAreCurrent(job[c])
      <4>1. job[c] \in Begun /\ job[c] \in Jobs
        BY <2>2 DEF Plan, Typed, TypeOK
      <4>2. owned[job[c].source] \in Inputs \cup {None}
        BY <4>1 DEF Typed, TypeOK, Begun
      <4>3. [job[c] EXCEPT !.prior = owned[job[c].source]] \in Begun \cap Jobs
        BY <4>1, <4>2 DEF Begun, Jobs
      <4>4. /\ job' = [job EXCEPT ![c] = [job[c] EXCEPT !.prior = owned[job[c].source]]]
            /\ pc' = [pc EXCEPT ![c] = "ready"]
        BY <2>2, <3>1 DEF Plan
      <4> QED BY <4>3, <4>4 DEF Typed, TypeOK, Committing
    <3>2. CASE ~InputsAreCurrent(job[c])
      BY <2>2, <3>2, <1>1 DEF Plan, Return, Typed, TypeOK, Committing
    <3> QED BY <3>1, <3>2
  <2>3. CASE Busy(c) \/ Refuse(c)
    BY <2>3, <1>1 DEF Busy, Refuse, Return, Typed, TypeOK, Committing
  <2> QED BY <2>1, <2>2, <2>3
<1>5. \A d \in Compilers : pc'[d] \in Committing <=> lock' = d
  BY <1>2, <1>3, <1>4 DEF Typed, TypeOK
<1> QED BY <1>2, <1>3, <1>4, <1>5
        DEF Typed, TypeOK, world, memory, history, bounds

\* The steps of the holder of the lock.
LEMMA HolderIsTyped ==
  ASSUME Typed, NEW c \in Compilers, lock = c
  PROVE  /\ pc[c] \in Committing /\ job[c] \in Begun /\ lock # Free
         /\ \A d \in Compilers \ {c} : pc[d] \notin Committing
BY NamesAreDistinct DEF Typed, TypeOK, Committing

LEMMA ReadingIsTyped ==
  ASSUME Typed, NEW c \in Compilers, Read(c)
  PROVE  Typed'
<1>1. Head(todo) \in Paths
  BY ElementsOfTail DEF Typed, TypeOK, Read
<1>2. saw' \in Bytes \cup {Unread}
  BY <1>1 DEF Typed, TypeOK, Read
<1>3. unread' \subseteq Paths \cup Sources
  BY DEF Typed, TypeOK, Read
<1> QED BY <1>2, <1>3 DEF Read, Typed, TypeOK, world, bounds

\* What changes when a file is replaced or removed.
LEMMA ChangeIsTyped ==
  ASSUME Typed, todo # <<>>, NEW p, p = Head(todo), NEW content \in Bytes, Change(p, content)
  PROVE  /\ file' \in [Paths -> Bytes] /\ changed' \in Seq(Paths)
         /\ ToSet(changed') = ToSet(changed) \cup {p}
         /\ todo' \in Seq(Paths) /\ saw' = Unread
<1>1. p \in Paths /\ Tail(todo) \in Seq(Paths)
  BY ElementsOfTail DEF Typed, TypeOK
<1>2. file \in [Paths -> Bytes] /\ changed \in Seq(Paths)
  BY DEF Typed, TypeOK
<1> QED BY <1>1, <1>2, ElementsOfAppend DEF Change, Passed

\* One of the three ways in which a replacement or a removal goes.
LEMMA ReplacingIsTyped ==
  ASSUME Typed, NEW c \in Compilers, lock = c, todo # <<>>,
         NEW content \in Bytes,
         \/ Abandon(c) /\ UNCHANGED <<file, changed>>
         \/ Passed /\ UNCHANGED <<file, changed, pc>>
         \/ Change(Head(todo), content) /\ UNCHANGED pc,
         UNCHANGED <<source, hosts, manifest, owned, lock, job, retired, snapshot, history, bounds>>
  PROVE  Typed'
<1>1. pc[c] \in Committing /\ job[c] \in Begun
  BY HolderIsTyped
<1>2. /\ todo' \in Seq(Paths) /\ changed' \in Seq(Paths) /\ saw' \in Bytes \cup {Unread}
      /\ file' \in [Paths -> Bytes]
      /\ pc' \in [Compilers -> {"idle", "frontend", "ready"} \cup Committing]
      /\ \A d \in Compilers : pc'[d] \in Committing <=> pc[d] \in Committing
      /\ \A d \in Compilers : pc'[d] # "idle" => pc[d] # "idle"
  <2>1. CASE Abandon(c) /\ UNCHANGED <<file, changed>>
    <3>1. "undo" \in Committing /\ "undo" # "idle" /\ pc[c] # "idle"
      BY <1>1 DEF Committing
    <3>2. /\ todo' \in Seq(Paths) /\ saw' = Unread
          /\ pc' \in [Compilers -> {"idle", "frontend", "ready"} \cup Committing]
          /\ pc'[c] = "undo" /\ \A d \in Compilers \ {c} : pc'[d] = pc[d]
      BY <2>1, <1>1, AbandonIsTyped
    <3> QED BY <3>1, <3>2, <2>1, <1>1 DEF Typed, TypeOK
  <2>2. CASE Passed /\ UNCHANGED <<file, changed, pc>>
    BY <2>2, ElementsOfTail DEF Passed, Typed, TypeOK
  <2>3. CASE Change(Head(todo), content) /\ UNCHANGED pc
    BY <2>3, ChangeIsTyped DEF Typed, TypeOK
  <2> QED BY <2>1, <2>2, <2>3
<1> QED BY <1>2 DEF Typed, TypeOK, history, bounds

LEMMA WritingIsTyped ==
  ASSUME Typed, NEW c \in Compilers, Write(c) \/ Retire(c),
         \* the head of the list is one of the files to write
         pc[c] \in {"writes", "publish"} => Head(todo) \in DOMAIN Writes(job[c])
  PROVE  Typed'
<1>1. /\ lock = c /\ todo # <<>>
      /\ UNCHANGED <<source, hosts, manifest, owned, lock, job, retired, snapshot, history, bounds>>
  BY DEF Write, Retire, Holds
<1>2. CASE Write(c)
  <2> DEFINE desired == Writes(job[c])[Head(todo)]
  <2>1. desired \in Bytes
    BY <1>1, <1>2, HolderIsTyped, JobsAreTyped, ForeignIsNotRendered DEF Write
  <2>2. \/ Abandon(c) /\ UNCHANGED <<file, changed>>
        \/ Passed /\ UNCHANGED <<file, changed, pc>>
        \/ Change(Head(todo), desired) /\ UNCHANGED pc
    BY <1>2 DEF Write
  <2> QED BY <1>1, <2>1, <2>2, ReplacingIsTyped
<1>3. CASE Retire(c)
  <2>1. Absent \in Bytes
    BY DEF Bytes
  <2>2. \/ Abandon(c) /\ UNCHANGED <<file, changed>>
        \/ Passed /\ UNCHANGED <<file, changed, pc>>
        \/ Change(Head(todo), Absent) /\ UNCHANGED pc
    BY <1>3 DEF Retire
  <2> QED BY <1>1, <2>1, <2>2, ReplacingIsTyped
<1> QED BY <1>2, <1>3

\* One loop is over and the next begins, or the second look.
LEMMA AdvancingIsTyped ==
  ASSUME Typed, NEW c \in Compilers,
         EndWrites(c) \/ EndRemovals(c) \/ Verify(c) \/ EndPublication(c)
  PROVE  Typed'
<1>1. lock = c /\ pc[c] \in Committing /\ job[c] \in Begun
  BY HolderIsTyped DEF EndWrites, EndRemovals, Verify, EndPublication, Holds
<1>2. {"removals", "verify", "publish", "record", "undo"} \subseteq Committing
      /\ "idle" \notin Committing
  BY DEF Committing
<1>3. UNCHANGED <<world, lock, job, retired, changed, snapshot, edited, interrupted, bounds>>
  BY DEF EndWrites, EndRemovals, Verify, EndPublication, memory, history
<1>4. /\ todo' \in Seq(Paths) /\ saw' \in Bytes \cup {Unread}
      /\ unread' \subseteq Paths \cup Sources
      /\ pc' \in [Compilers -> {"idle", "frontend", "ready"} \cup Committing]
      /\ pc'[c] \in Committing /\ \A d \in Compilers \ {c} : pc'[d] = pc[d]
  <2>1. CASE EndWrites(c)
    BY <2>1, <1>2, OrderedPathsAreOfTheSet DEF EndWrites, Typed, TypeOK, history
  <2>2. CASE EndRemovals(c) \/ EndPublication(c)
    BY <2>2, <1>2 DEF EndRemovals, EndPublication, Typed, TypeOK, memory, history
  <2>3. CASE Verify(c)
    <3>1. unread' \subseteq Paths \cup Sources
      BY <2>3 DEF Verify, Typed, TypeOK
    <3>2. CASE Settled(c)
      <4>1. Artifact(job[c]) \in Paths
        BY <1>1, JobsAreTyped
      <4>2. <<Artifact(job[c])>> \in Seq(Paths)
        BY <4>1
      <4> QED BY <2>3, <3>1, <3>2, <4>2, <1>2 DEF Verify, Typed, TypeOK
    <3>3. CASE ~Settled(c)
      <4>1. Abandon(c)
        BY <2>3, <3>3 DEF Verify
      <4> QED BY <4>1, <3>1, <1>1, <1>2, AbandonIsTyped
    <3> QED BY <3>2, <3>3
  <2> QED BY <2>1, <2>2, <2>3
<1>5. \A d \in Compilers : (pc'[d] \in Committing <=> lock' = d)
                           /\ (pc'[d] # "idle" => job'[d] \in Begun)
  BY <1>1, <1>3, <1>4 DEF Typed, TypeOK
<1> QED BY <1>3, <1>4, <1>5 DEF Typed, TypeOK, world, bounds

\* Whoever holds the lock returns and gives it up.
LEMMA EndingIsTyped ==
  ASSUME Typed, NEW c \in Compilers, lock = c, Return(c), Release,
         owned' \in [Sources -> Inputs \cup {None}],
         interrupted' \in [Sources -> Inputs \cup {None}],
         UNCHANGED <<file, source, hosts, manifest, edits, changes>>,
         faults' \in Nat
  PROVE  Typed'
<1>1. Free \notin Compilers
  BY NamesAreDistinct
<1>2. \A d \in Compilers \ {c} : pc[d] \notin Committing
  BY HolderIsTyped
<1>3. "idle" \notin Committing
  BY DEF Committing
<1>4. /\ job' \in [Compilers -> Jobs]
      /\ pc' \in [Compilers -> {"idle", "frontend", "ready"} \cup Committing]
      /\ pc'[c] = "idle" /\ \A d \in Compilers \ {c} : pc'[d] = pc[d]
      /\ \A d \in Compilers : pc'[d] # "idle" => job'[d] \in Begun
  BY ReturnIsTyped
<1>5. \A d \in Compilers : pc'[d] \notin Committing /\ lock' # d
  BY <1>1, <1>2, <1>3, <1>4, ReleaseIsTyped
<1> QED BY <1>4, <1>5, ReleaseIsTyped DEF Typed, TypeOK

LEMMA RecordingIsTyped ==
  ASSUME Typed, NEW c \in Compilers, ReplaceRecord(c) \/ EndUndo(c)
  PROVE  Typed'
<1>1. lock = c /\ pc[c] \in Committing /\ job[c] \in Begun
  BY HolderIsTyped DEF ReplaceRecord, EndUndo, Holds
<1>2. CASE EndUndo(c)
  BY <1>1, <1>2, EndingIsTyped DEF EndUndo, world, bounds, Typed, TypeOK
<1>3. CASE ReplaceRecord(c) /\ owned[job[c].source] = job[c].prior
  <2>1. job[c].source \in Sources /\ job[c].inputs \in Inputs
    BY <1>1 DEF Begun
  <2>2. /\ owned' \in [Sources -> Inputs \cup {None}]
        /\ interrupted' \in [Sources -> Inputs \cup {None}]
    BY <1>3, <2>1 DEF ReplaceRecord, Typed, TypeOK
  <2> QED BY <1>1, <1>3, <2>2, EndingIsTyped DEF ReplaceRecord, bounds, Typed, TypeOK
<1>4. CASE ReplaceRecord(c) /\ owned[job[c].source] # job[c].prior
  <2>1. /\ Abandon(c)
        /\ UNCHANGED <<world, job, lock, retired, changed, snapshot, history, bounds>>
    BY <1>4 DEF ReplaceRecord, world
  <2>2. "undo" \in Committing /\ "idle" \notin Committing
    BY DEF Committing
  <2> QED BY <1>1, <2>1, <2>2, AbandonIsTyped
          DEF Typed, TypeOK, world, history, bounds
<1> QED BY <1>2, <1>3, <1>4

LEMMA UndoingIsTyped ==
  ASSUME Typed, NEW c \in Compilers, Undo(c)
  PROVE  Typed'
<1>1. Head(todo) \in Paths /\ Tail(todo) \in Seq(Paths)
  BY ElementsOfTail DEF Undo, Typed, TypeOK
<1>2. file' \in [Paths -> Bytes]
  BY <1>1 DEF Undo, Typed, TypeOK
<1>3. todo' \in Seq(Paths) /\ saw' \in Bytes \cup {Unread}
  BY <1>1 DEF Undo, Passed
<1> QED BY <1>2, <1>3 DEF Undo, Typed, TypeOK, history, bounds

LEMMA FailingIsTyped ==
  ASSUME Typed, NEW c \in Compilers, Fail(c) \/ FailUndo(c) \/ Stop(c)
  PROVE  Typed'
<1>1. faults' \in Nat
  BY DEF Fail, FailUndo, Stop, Faulty, Typed
<1>2. job[c] \in Begun
  BY HolderIsTyped DEF Fail, FailUndo, Stop, Holds, Typed
<1>3. Interrupt(c) => interrupted' \in [Sources -> Inputs \cup {None}]
  BY <1>2 DEF Interrupt, Typed, TypeOK, Begun
<1>4. CASE Fail(c)
  <2>1. "undo" \in Committing /\ "idle" \notin Committing /\ lock = c /\ pc[c] \in Committing
    BY <1>4 DEF Committing, Fail
  <2> QED BY <1>1, <1>4, <2>1, <1>2, AbandonIsTyped
          DEF Fail, Typed, TypeOK, world, history
<1>5. CASE FailUndo(c) \/ (Stop(c) /\ lock = c)
  <2>1. /\ lock = c /\ Return(c) /\ Release /\ Interrupt(c)
        /\ UNCHANGED <<world, edits, changes>>
    BY <1>5 DEF FailUndo, Stop, Holds
  <2> QED BY <1>1, <1>3, <2>1, EndingIsTyped DEF world, Typed, TypeOK
<1>6. CASE Stop(c) /\ lock # c
  <2>1. /\ Return(c)
        /\ UNCHANGED <<lock, memory, history, world, edits, changes>>
    BY <1>6 DEF Stop
  <2>2. "idle" \notin Committing
    BY DEF Committing
  <2> QED BY <1>1, <1>6, <2>1, <2>2, ReturnIsTyped
          DEF Typed, TypeOK, memory, history, world
<1> QED BY <1>4, <1>5, <1>6

LEMMA KnownIsTyped == \A p \in Paths : Known[p] \subseteq Rendering
<1> SUFFICES ASSUME NEW p \in Paths, NEW b \in Known[p] PROVE b \in Rendering
  OBVIOUS
<1>1. PICK x \in Sources \X Inputs :
        p \in DOMAIN Files[x[1]][x[2]] /\ b = Files[x[1]][x[2]][p]
  BY DEF Known
<1> QED BY <1>1, FilesAreTyped

LEMMA EditingIsTyped ==
  ASSUME Typed,
         \/ \E p \in Paths : \E content \in Known[p] \cup {Absent, Foreign} : Edit(p, content)
         \/ \E s \in Sources, v \in Versions : ChangeSource(s, v)
  PROVE  Typed'
<1>1. ASSUME NEW p \in Paths, NEW content \in Known[p] \cup {Absent, Foreign}, Edit(p, content)
      PROVE  Typed'
  <2>1. content \in Bytes
    BY KnownIsTyped, ForeignIsNotRendered
  <2>2. /\ file' \in [Paths -> Bytes] /\ edits' \in Nat
        /\ unread' \subseteq Paths \cup Sources /\ edited' \subseteq Paths
    BY <1>1, <2>1 DEF Edit, Typed, TypeOK
  <2> QED BY <1>1, <2>2 DEF Edit, Typed, TypeOK, memory
<1>2. ASSUME NEW s \in Sources, NEW v \in Versions, ChangeSource(s, v)
      PROVE  Typed'
  <2>1. /\ source' \in [Sources -> Versions] /\ changes' \in Nat
        /\ unread' \subseteq Paths \cup Sources
    BY <1>2 DEF ChangeSource, Typed, TypeOK
  <2> QED BY <1>2, <2>1 DEF ChangeSource, Typed, TypeOK, memory
<1> QED BY <1>1, <1>2
-----------------------------------------------------------------------------
(***************************************************************************)
(* What is true of the compiler that holds the lock.                       *)
(***************************************************************************)

\* Each loop goes over the files of the job.
OnCourse(c) ==
  /\ retired \subseteq Obsolete(job[c])
  /\ pc[c] = "writes" => ToSet(todo) \subseteq Outputs(job[c])
  /\ pc[c] = "removals" => ToSet(todo) \subseteq retired
  /\ pc[c] = "publish" => todo \in {<<>>, <<Artifact(job[c])>>}
  /\ pc[c] \in {"verify", "record"} => todo = <<>>

\* What was read is what is there, unless the user has edited it since.
Looked ==
  saw # Unread =>
    /\ todo # <<>>
    /\ saw = file[Head(todo)] \/ Head(todo) \in unread \cap edited

\* A file the user left alone is as it was found, or as the commit made it and
\* still to be undone if the commit is.
Traced(c) ==
  \A p \in Paths \ edited :
    \/ file[p] = snapshot[p]
    \/ /\ file[p] = Committed(job[c], p)
       /\ p \in ToSet(IF pc[c] = "undo" THEN todo ELSE changed)

\* What the second look found, as far as the user left it alone.
Settling(c) ==
  pc[c] \in {"publish", "record"} =>
    /\ \A p \in Outputs(job[c]) \ edited : file[p] = Writes(job[c])[p]
    /\ \A p \in retired \ edited : file[p] = Absent
    /\ pc[c] = "record" \/ todo = <<>> =>
         Artifact(job[c]) \in edited \/ file[Artifact(job[c])] = Writes(job[c])[Artifact(job[c])]

\* And since that look, until the artifact is published.
Fresh(c) ==
  pc[c] = "publish" /\ todo # <<>> =>
    /\ \A p \in Outputs(job[c]) \ unread : file[p] = Writes(job[c])[p]
    /\ \A p \in retired \ unread : file[p] = Absent
    /\ job[c].source \in unread \/ InputsAreCurrent(job[c])

HolderInv(c) == OnCourse(c) /\ Looked /\ Traced(c) /\ Settling(c) /\ Fresh(c)

CommitInv == \A c \in Compilers : lock = c => HolderInv(c)

\* Everything the invariant speaks of.
Matters == <<file, source, hosts, lock, memory, unread, edited>>

\* Steps of others that leave the holder and the files alone.
LEMMA OthersKeepTheHolder ==
  ASSUME NEW c \in Compilers, HolderInv(c), UNCHANGED Matters,
         pc'[c] = pc[c], job'[c] = job[c]
  PROVE  HolderInv(c)'
<1>1. UNCHANGED <<file, source, hosts, todo, saw, retired, changed, snapshot, unread, edited>>
  BY DEF Matters, memory
<1> QED BY <1>1 DEF HolderInv, OnCourse, Looked, Traced, Settling, Fresh, Obsolete, Record,
          Writes, Artifact, Outputs, Committed, InputsAreCurrent, Says

\* A rollback may begin at any point.
LEMMA AbandonKeepsHolder ==
  ASSUME Typed, NEW c \in Compilers, lock = c, HolderInv(c), Abandon(c),
         UNCHANGED <<file, job, retired, changed, snapshot, edited>>,
         pc[c] # "undo"
  PROVE  HolderInv(c)'
<1>1. pc[c] \in Committing
  BY HolderIsTyped
<1>2. ToSet(todo') = ToSet(changed) /\ saw' = Unread /\ pc'[c] = "undo"
  BY <1>1, AbandonIsTyped
<1>3. Traced(c)'
  <2>1. ASSUME NEW p \in Paths \ edited
        PROVE  \/ file[p] = snapshot[p]
               \/ file[p] = Committed(job[c], p) /\ p \in ToSet(changed)
    BY DEF HolderInv, Traced
  <2>2. job'[c] = job[c] /\ \A p : Committed(job[c], p)' = Committed(job[c], p)
    BY DEF Committed, Writes
  <2> QED BY <1>2, <2>1, <2>2 DEF Traced
<1>4. OnCourse(c)'
  BY <1>2 DEF HolderInv, OnCourse, Obsolete, Record, Writes
<1>5. Looked'
  BY <1>2 DEF Looked
<1>6. Settling(c)' /\ Fresh(c)'
  BY <1>2 DEF Settling, Fresh
<1> QED BY <1>3, <1>4, <1>5, <1>6 DEF HolderInv

LEMMA AcquiringMakesHolder ==
  ASSUME Typed, NEW c \in Compilers, Acquire(c)
  PROVE  Typed' /\ lock' = c /\ HolderInv(c)'
<1>1. job[c] \in Begun /\ job' = job /\ lock' = c /\ lock = Free
  BY DEF Acquire, Typed
<1>2. /\ todo' \in Seq(Paths) /\ ToSet(todo') \subseteq Outputs(job[c])
      /\ retired' = Removals(job[c]) /\ Removals(job[c]) \subseteq Obsolete(job[c])
      /\ Obsolete(job[c]) \subseteq Paths
      /\ snapshot' = file /\ file' = file /\ saw' = Unread /\ changed' = <<>>
  BY <1>1, OrderedPathsAreOfTheSet, JobsAreTyped DEF Acquire, world
<1>3. pc' = [pc EXCEPT ![c] = "writes"]
  BY DEF Acquire
<1>4. "writes" \in Committing /\ "idle" \notin Committing
  BY DEF Committing
<1>5. \A d \in Compilers : pc[d] \notin Committing
  BY <1>1, NamesAreDistinct DEF Typed, TypeOK
<1>6. Typed'
  <2>1. \A d \in Compilers : pc'[d] \in Committing <=> lock' = d
    BY <1>1, <1>3, <1>4, <1>5 DEF Typed, TypeOK
  <2>2. \A d \in Compilers : pc'[d] # "idle" => job'[d] \in Begun
    BY <1>1, <1>3 DEF Typed, TypeOK
  <2> QED BY <1>1, <1>2, <1>3, <1>4, <2>1, <2>2, EmptySeq
          DEF Acquire, Typed, TypeOK, world, history, bounds
<1>7. pc'[c] = "writes"
  BY <1>3 DEF Typed, TypeOK
<1>8. OnCourse(c)'
  BY <1>1, <1>2, <1>7 DEF OnCourse, Obsolete, Outputs, Record, Writes, Artifact
<1>9. Looked' /\ Settling(c)' /\ Fresh(c)' /\ Traced(c)'
  BY <1>2, <1>7 DEF Looked, Settling, Fresh, Traced
<1> QED BY <1>1, <1>6, <1>8, <1>9 DEF HolderInv

LEMMA ReadingKeepsHolder ==
  ASSUME Typed, NEW c \in Compilers, HolderInv(c), Read(c)
  PROVE  HolderInv(c)'
<1>1. /\ lock = c /\ todo # <<>> /\ saw' = file[Head(todo)]
      /\ unread' = unread \ {Head(todo)}
      /\ UNCHANGED <<file, source, hosts, todo, pc, job, retired, changed, snapshot, edited>>
  BY DEF Read, world
<1>2. job[c] \in Begun
  BY <1>1, HolderIsTyped
<1>3. Looked'
  BY <1>1 DEF Looked
<1>4. OnCourse(c)' /\ Traced(c)' /\ Settling(c)'
  BY <1>1 DEF HolderInv, OnCourse, Traced, Settling, Obsolete, Record, Writes, Artifact,
              Outputs, Committed
<1>5. Fresh(c)'
  <2> SUFFICES ASSUME pc[c] = "publish"
               PROVE  /\ \A p \in Outputs(job[c]) \ unread' : file[p] = Writes(job[c])[p]
                      /\ \A p \in retired \ unread' : file[p] = Absent
                      /\ job[c].source \in unread' \/ InputsAreCurrent(job[c])
    BY <1>1 DEF Fresh, Outputs, Writes, Artifact, InputsAreCurrent, Says
  <2>1. Head(todo) = Artifact(job[c])
    BY <1>1 DEF HolderInv, OnCourse
  <2>2. Artifact(job[c]) \notin Outputs(job[c]) /\ Artifact(job[c]) \notin retired
    BY <1>2, JobsAreTyped DEF Outputs, HolderInv, OnCourse
  <2>3. job[c].source # Head(todo)
    <3>1. Head(todo) \in Paths
      BY <1>1, ElementsOfTail DEF Typed, TypeOK
    <3> QED BY <3>1, <1>2, NamesAreDistinct DEF Begun
  <2> QED BY <1>1, <2>1, <2>2, <2>3 DEF HolderInv, Fresh
<1> QED BY <1>3, <1>4, <1>5 DEF HolderInv

\* What a step of a loop comes to: the next path, with the file of this one as it
\* was or as the commit makes it.
LEMMA SteppingKeepsHolder ==
  ASSUME Typed, NEW c \in Compilers, lock = c, HolderInv(c), pc[c] # "undo",
         todo # <<>>, saw # Unread,
         UNCHANGED <<source, hosts, pc, job, retired, snapshot, unread, edited>>,
         Passed,
         \/ /\ UNCHANGED <<file, changed>>
            /\ pc[c] = "publish" => saw = Writes(job[c])[Artifact(job[c])]
         \/ Change(Head(todo), Committed(job[c], Head(todo)))
  PROVE  HolderInv(c)'
<1>1. /\ Head(todo) \in Paths /\ Tail(todo) \in Seq(Paths)
      /\ ToSet(todo) = {Head(todo)} \cup ToSet(Tail(todo))
  BY ElementsOfTail DEF Typed, TypeOK
<1>2. todo' = Tail(todo) /\ saw' = Unread
  BY DEF Passed
<1>3. job[c] \in Begun
  BY HolderIsTyped
<1>4. /\ file \in [Paths -> Bytes] /\ changed \in Seq(Paths)
  BY DEF Typed, TypeOK
<1>5. /\ \A p \in Paths \ {Head(todo)} : file'[p] = file[p]
      /\ \/ file'[Head(todo)] = file[Head(todo)]
         \/ /\ file'[Head(todo)] = Committed(job[c], Head(todo))
            /\ Head(todo) \in ToSet(changed')
      /\ ToSet(changed) \subseteq ToSet(changed')
  <2>1. CASE UNCHANGED <<file, changed>>
    BY <2>1
  <2>2. CASE Change(Head(todo), Committed(job[c], Head(todo)))
    <3>1. changed' = Append(changed, Head(todo))
          /\ file' = [file EXCEPT ![Head(todo)] = Committed(job[c], Head(todo))]
      BY <2>2 DEF Change
    <3>2. ToSet(changed') = ToSet(changed) \cup {Head(todo)}
      BY <3>1, <1>1, <1>4, ElementsOfAppend
    <3> QED BY <3>1, <3>2, <1>1, <1>4
  <2> QED BY <2>1, <2>2
<1>6. /\ Writes(job[c])' = Writes(job[c]) /\ Artifact(job[c])' = Artifact(job[c])
      /\ Outputs(job[c])' = Outputs(job[c]) /\ Obsolete(job[c])' = Obsolete(job[c])
      /\ \A p : Committed(job[c], p)' = Committed(job[c], p)
  BY DEF Writes, Artifact, Outputs, Obsolete, Record, Committed
<1>7. pc[c] = "publish" =>
        /\ Head(todo) = Artifact(job[c]) /\ todo' = <<>>
        /\ Artifact(job[c]) \notin Outputs(job[c]) /\ Artifact(job[c]) \notin retired
        /\ Outputs(job[c]) \subseteq Paths /\ retired \subseteq Paths
  <2>1. ASSUME pc[c] = "publish" PROVE todo = <<Artifact(job[c])>>
    BY <2>1 DEF HolderInv, OnCourse
  <2> QED BY <2>1, <1>2, <1>3, JobsAreTyped DEF Outputs, HolderInv, OnCourse
<1>8. pc[c] \notin {"verify", "record"}
  BY DEF HolderInv, OnCourse
<1>9. OnCourse(c)'
  BY <1>1, <1>2, <1>6, <1>7, <1>8 DEF HolderInv, OnCourse
<1>10. Looked' /\ Fresh(c)'
  BY <1>2, <1>7 DEF Looked, Fresh
<1>11. Traced(c)'
  <2> SUFFICES ASSUME NEW p \in Paths \ edited
               PROVE  \/ file'[p] = snapshot[p]
                      \/ file'[p] = Committed(job[c], p) /\ p \in ToSet(changed')
    BY <1>6 DEF Traced
  <2>1. \/ file[p] = snapshot[p]
        \/ file[p] = Committed(job[c], p) /\ p \in ToSet(changed)
    BY DEF HolderInv, Traced
  <2> QED BY <2>1, <1>5
<1>12. Settling(c)'
  <2> SUFFICES ASSUME pc[c] = "publish"
               PROVE  /\ \A p \in Outputs(job[c]) \ edited : file'[p] = Writes(job[c])[p]
                      /\ \A p \in retired \ edited : file'[p] = Absent
                      /\ \/ Artifact(job[c]) \in edited
                         \/ file'[Artifact(job[c])] = Writes(job[c])[Artifact(job[c])]
    BY <1>6, <1>8 DEF Settling
  <2>1. /\ \A p \in Outputs(job[c]) \ edited : file[p] = Writes(job[c])[p]
        /\ \A p \in retired \ edited : file[p] = Absent
    BY DEF HolderInv, Settling
  <2>2. \/ Artifact(job[c]) \in edited
        \/ file'[Artifact(job[c])] = Writes(job[c])[Artifact(job[c])]
    <3>1. CASE UNCHANGED <<file, changed>>
      BY <3>1, <1>7 DEF HolderInv, Looked, Change
    <3>2. CASE Change(Head(todo), Committed(job[c], Head(todo)))
      BY <3>2, <1>1, <1>3, <1>4, <1>7, JobsAreTyped DEF Change, Committed
    <3> QED BY <3>1, <3>2
  <2> QED BY <2>1, <2>2, <1>5, <1>7
<1> QED BY <1>9, <1>10, <1>11, <1>12 DEF HolderInv

LEMMA WritingKeepsHolder ==
  ASSUME Typed, NEW c \in Compilers, HolderInv(c), Write(c) \/ Retire(c)
  PROVE  Typed' /\ HolderInv(c)'
<1>1. /\ lock = c /\ todo # <<>> /\ saw # Unread
      /\ pc[c] \in {"writes", "publish", "removals"}
      /\ UNCHANGED <<source, hosts, job, retired, snapshot, unread, edited>>
  BY DEF Write, Retire, Holds, history
<1>2. job[c] \in Begun /\ Head(todo) \in Paths /\ Head(todo) \in ToSet(todo)
  BY <1>1, HolderIsTyped, ElementsOfTail DEF Typed, TypeOK
<1>3. pc[c] \in {"writes", "publish"} => Head(todo) \in DOMAIN Writes(job[c])
  <2>1. CASE pc[c] = "writes"
    BY <2>1, <1>2 DEF HolderInv, OnCourse, Outputs
  <2>2. CASE pc[c] = "publish"
    <3>1. todo = <<Artifact(job[c])>>
      BY <2>2, <1>1 DEF HolderInv, OnCourse
    <3> QED BY <3>1, <1>2, JobsAreTyped
  <2> QED BY <2>1, <2>2
<1>4. Typed'
  BY <1>3, WritingIsTyped
<1>5. CASE Abandon(c) /\ UNCHANGED <<file, changed>>
  BY <1>1, <1>4, <1>5, AbandonKeepsHolder
<1>6. CASE Write(c) /\ ~Abandon(c)
  <2>1. pc[c] \in {"writes", "publish"}
    BY <1>6 DEF Write
  <2>2. Committed(job[c], Head(todo)) = Writes(job[c])[Head(todo)]
    BY <1>3, <2>1 DEF Committed
  <2>3. pc[c] = "publish" => Head(todo) = Artifact(job[c])
    BY <1>1 DEF HolderInv, OnCourse
  <2>4. /\ Passed /\ UNCHANGED pc
        /\ \/ UNCHANGED <<file, changed>> /\ saw = Writes(job[c])[Head(todo)]
           \/ Change(Head(todo), Writes(job[c])[Head(todo)])
    BY <1>6 DEF Write, Change
  <2>5. \/ /\ UNCHANGED <<file, changed>>
           /\ pc[c] = "publish" => saw = Writes(job[c])[Artifact(job[c])]
        \/ Change(Head(todo), Committed(job[c], Head(todo)))
    BY <2>2, <2>3, <2>4
  <2> QED BY <1>1, <1>4, <2>1, <2>4, <2>5, SteppingKeepsHolder
<1>7. CASE Retire(c) /\ ~Abandon(c)
  <2>1. pc[c] = "removals"
    BY <1>7 DEF Retire, Holds
  <2>2. Head(todo) \in Obsolete(job[c])
    BY <2>1, <1>2 DEF HolderInv, OnCourse
  <2>3. Committed(job[c], Head(todo)) = Absent
    BY <2>2, <1>2, JobsAreTyped DEF Committed
  <2>4. /\ Passed /\ UNCHANGED pc
        /\ \/ UNCHANGED <<file, changed>>
           \/ Change(Head(todo), Absent)
    BY <1>7 DEF Retire, Change
  <2> QED BY <1>1, <1>4, <2>1, <2>3, <2>4, SteppingKeepsHolder
<1>8. Abandon(c) => UNCHANGED <<file, changed>>
  <2>1. ASSUME Abandon(c), ~ UNCHANGED <<file, changed>> PROVE FALSE
    <3>1. UNCHANGED pc /\ pc'[c] = "undo"
      BY <2>1 DEF Write, Retire, Abandon, Typed, TypeOK
    <3> QED BY <3>1, <1>1
  <2> QED BY <2>1
<1> QED BY <1>4, <1>5, <1>6, <1>7, <1>8

LEMMA AdvancingKeepsHolder ==
  ASSUME Typed, NEW c \in Compilers, HolderInv(c),
         EndWrites(c) \/ EndRemovals(c) \/ Verify(c) \/ EndPublication(c)
  PROVE  HolderInv(c)'
<1>1. /\ lock = c /\ pc[c] \in {"writes", "removals", "verify", "publish"}
      /\ UNCHANGED <<file, source, hosts, job, retired, changed, snapshot, edited>>
  BY DEF EndWrites, EndRemovals, Verify, EndPublication, Holds, memory, history, world
<1>2. job[c] \in Begun
  BY <1>1, HolderIsTyped
<1>3. /\ Writes(job[c])' = Writes(job[c]) /\ Artifact(job[c])' = Artifact(job[c])
      /\ Outputs(job[c])' = Outputs(job[c]) /\ Obsolete(job[c])' = Obsolete(job[c])
      /\ \A p : Committed(job[c], p)' = Committed(job[c], p)
  BY <1>1 DEF Writes, Artifact, Outputs, Obsolete, Record, Committed
<1>4. saw = Unread
  <2>1. todo = <<>>
    BY <1>1 DEF HolderInv, OnCourse, EndWrites, EndRemovals, Verify, EndPublication, Holds
  <2> QED BY <2>1 DEF HolderInv, Looked
<1>5. CASE EndWrites(c)
  <2>1. /\ pc'[c] = "removals" /\ saw' = Unread
        /\ ToSet(todo') \subseteq retired
    BY <1>4, <1>5, OrderedPathsAreOfTheSet DEF EndWrites, Typed, TypeOK
  <2>2. OnCourse(c)' /\ Looked' /\ Settling(c)' /\ Fresh(c)'
    BY <1>1, <1>3, <2>1 DEF HolderInv, OnCourse, Looked, Settling, Fresh
  <2>3. Traced(c)'
    BY <1>1, <1>3, <2>1, <1>5 DEF HolderInv, Traced, EndWrites, Holds
  <2> QED BY <2>2, <2>3 DEF HolderInv
<1>6. CASE EndRemovals(c)
  <2>1. pc'[c] = "verify" /\ saw' = Unread /\ todo' = <<>> /\ pc[c] = "removals"
    BY <1>4, <1>6 DEF EndRemovals, memory, Typed, TypeOK, Holds
  <2>2. OnCourse(c)' /\ Looked' /\ Settling(c)' /\ Fresh(c)'
    BY <1>1, <1>3, <2>1 DEF HolderInv, OnCourse, Looked, Settling, Fresh
  <2>3. Traced(c)'
    BY <1>1, <1>3, <2>1 DEF HolderInv, Traced
  <2> QED BY <2>2, <2>3 DEF HolderInv
<1>7. CASE EndPublication(c)
  <2>1. /\ pc'[c] = "record" /\ saw' = Unread /\ todo' = <<>> /\ todo = <<>>
        /\ pc[c] = "publish"
    BY <1>4, <1>7 DEF EndPublication, memory, Typed, TypeOK, Holds
  <2>2. OnCourse(c)' /\ Looked' /\ Settling(c)' /\ Fresh(c)'
    BY <1>1, <1>3, <2>1 DEF HolderInv, OnCourse, Looked, Settling, Fresh
  <2>3. Traced(c)'
    BY <1>1, <1>3, <2>1 DEF HolderInv, Traced
  <2> QED BY <2>2, <2>3 DEF HolderInv
<1>8. CASE Verify(c) /\ ~Settled(c)
  BY <1>1, <1>8, AbandonKeepsHolder DEF Verify, Holds
<1>9. CASE Verify(c) /\ Settled(c)
  <2>1. /\ pc'[c] = "publish" /\ saw' = Unread /\ todo' = <<Artifact(job[c])>>
        /\ pc[c] = "verify"
    BY <1>4, <1>9 DEF Verify, Typed, TypeOK, Holds
  <2>2. OnCourse(c)' /\ Looked'
    BY <1>1, <1>3, <2>1 DEF HolderInv, OnCourse, Looked
  <2>3. Settling(c)' /\ Fresh(c)'
    <3>1. InputsAreCurrent(job[c])' = InputsAreCurrent(job[c])
      BY <1>1 DEF InputsAreCurrent, Says
    <3>2. todo' # <<>>
      BY <2>1
    <3> QED BY <1>1, <1>3, <1>9, <2>1, <3>1, <3>2 DEF Settled, Settling, Fresh
  <2>4. Traced(c)'
    BY <1>1, <1>3, <2>1 DEF HolderInv, Traced
  <2> QED BY <2>2, <2>3, <2>4 DEF HolderInv
<1> QED BY <1>5, <1>6, <1>7, <1>8, <1>9

LEMMA UndoingKeepsHolder ==
  ASSUME Typed, NEW c \in Compilers, HolderInv(c), Undo(c)
  PROVE  HolderInv(c)'
<1>1. /\ lock = c /\ pc[c] = "undo" /\ todo # <<>> /\ saw # Unread
      /\ UNCHANGED <<source, hosts, pc, job, retired, changed, snapshot, unread, edited>>
      /\ todo' = Tail(todo) /\ saw' = Unread
      /\ file' = IF saw = Committed(job[c], Head(todo))
                   THEN [file EXCEPT ![Head(todo)] = snapshot[Head(todo)]] ELSE file
  BY DEF Undo, Holds, Passed, history
<1>2. /\ Head(todo) \in Paths
      /\ ToSet(todo) = {Head(todo)} \cup ToSet(Tail(todo))
  BY <1>1, ElementsOfTail DEF Typed, TypeOK
<1>3. \A p : Committed(job[c], p)' = Committed(job[c], p)
  BY <1>1 DEF Committed, Writes
<1>4. Traced(c)'
  <2> SUFFICES ASSUME NEW p \in Paths \ edited
               PROVE  \/ file'[p] = snapshot[p]
                      \/ file'[p] = Committed(job[c], p) /\ p \in ToSet(todo')
    BY <1>1, <1>3 DEF Traced
  <2>1. \/ file[p] = snapshot[p]
        \/ file[p] = Committed(job[c], p) /\ p \in ToSet(todo)
    BY <1>1 DEF HolderInv, Traced
  <2>2. file \in [Paths -> Bytes]
    BY DEF Typed, TypeOK
  <2>3. CASE p = Head(todo)
    <3>1. saw = file[p]
      BY <1>1, <2>3 DEF HolderInv, Looked
    <3> QED BY <1>1, <1>2, <2>1, <2>2, <2>3, <3>1
  <2>4. CASE p # Head(todo)
    BY <1>1, <1>2, <2>1, <2>2, <2>4
  <2> QED BY <2>3, <2>4
<1>5. OnCourse(c)' /\ Looked' /\ Settling(c)' /\ Fresh(c)'
  BY <1>1 DEF HolderInv, OnCourse, Looked, Settling, Fresh, Obsolete, Record, Writes
<1> QED BY <1>4, <1>5 DEF HolderInv

LEMMA EditingKeepsHolder ==
  ASSUME Typed, NEW c \in Compilers, lock = c, HolderInv(c),
         \/ \E p \in Paths : \E content \in Known[p] \cup {Absent, Foreign} : Edit(p, content)
         \/ \E s \in Sources, v \in Versions : ChangeSource(s, v)
  PROVE  HolderInv(c)'
<1>1. job[c] \in Begun
  BY HolderIsTyped
<1>2. ASSUME NEW p \in Paths, NEW content \in Known[p] \cup {Absent, Foreign}, Edit(p, content)
      PROVE  HolderInv(c)'
  <2>1. /\ \A q \in Paths \ {p} : file'[q] = file[q]
        /\ unread' = unread \cup {p} /\ edited' = edited \cup {p}
        /\ UNCHANGED <<source, hosts, lock, pc, job, todo, saw, retired, changed, snapshot>>
    BY <1>2 DEF Edit, memory, Typed, TypeOK
  <2>2. /\ Writes(job[c])' = Writes(job[c]) /\ Artifact(job[c])' = Artifact(job[c])
        /\ Outputs(job[c])' = Outputs(job[c]) /\ Obsolete(job[c])' = Obsolete(job[c])
        /\ \A q : Committed(job[c], q)' = Committed(job[c], q)
        /\ InputsAreCurrent(job[c])' = InputsAreCurrent(job[c])
    BY <2>1 DEF Writes, Artifact, Outputs, Obsolete, Record, Committed, InputsAreCurrent, Says
  <2>3. OnCourse(c)'
    BY <2>1, <2>2 DEF HolderInv, OnCourse
  <2>4. Looked'
    <3>1. saw # Unread => Head(todo) \in Paths
      BY ElementsOfTail DEF HolderInv, Looked, Typed, TypeOK
    <3> QED BY <2>1, <3>1 DEF HolderInv, Looked
  <2>5. Traced(c)'
    BY <2>1, <2>2 DEF HolderInv, Traced
  <2>6. /\ Outputs(job[c]) \subseteq Paths /\ Artifact(job[c]) \in Paths
        /\ retired \subseteq Paths
    BY <1>1, JobsAreTyped DEF Typed, TypeOK
  <2>7. Settling(c)'
    BY <2>1, <2>2, <2>6 DEF HolderInv, Settling
  <2>8. Fresh(c)'
    BY <2>1, <2>2, <2>6 DEF HolderInv, Fresh
  <2> QED BY <2>3, <2>4, <2>5, <2>7, <2>8 DEF HolderInv
<1>3. ASSUME NEW s \in Sources, NEW v \in Versions, ChangeSource(s, v)
      PROVE  HolderInv(c)'
  <2>1. /\ \A x \in Sources \ {s} : source'[x] = source[x]
        /\ unread' = unread \cup {s}
        /\ UNCHANGED <<file, hosts, lock, pc, job, todo, saw, retired, changed, snapshot, edited>>
    BY <1>3 DEF ChangeSource, memory, Typed, TypeOK
  <2>2. /\ Writes(job[c])' = Writes(job[c]) /\ Artifact(job[c])' = Artifact(job[c])
        /\ Outputs(job[c])' = Outputs(job[c]) /\ Obsolete(job[c])' = Obsolete(job[c])
        /\ \A q : Committed(job[c], q)' = Committed(job[c], q)
    BY <2>1 DEF Writes, Artifact, Outputs, Obsolete, Record, Committed
  <2>3. OnCourse(c)' /\ Looked' /\ Traced(c)' /\ Settling(c)'
    BY <2>1, <2>2 DEF HolderInv, OnCourse, Looked, Traced, Settling
  <2>4. job[c].source # s => InputsAreCurrent(job[c])' = InputsAreCurrent(job[c])
    BY <1>1, <2>1 DEF InputsAreCurrent, Says, Begun
  <2>5. Fresh(c)'
    BY <2>1, <2>2, <2>4 DEF HolderInv, Fresh
  <2> QED BY <2>3, <2>5 DEF HolderInv
<1> QED BY <1>2, <1>3

(***************************************************************************)
(* A step of a compiler, of the user or of a failure keeps both.           *)
(***************************************************************************)
LEMMA StepKeepsInv ==
  ASSUME Typed, CommitInv, [Next]_vars
  PROVE  Typed' /\ CommitInv'
<1>1. ASSUME NEW c \in Compilers,
             (\E s \in Sources : Load(c, s)) \/ Plan(c) \/ Busy(c) \/ Refuse(c)
      PROVE  Typed' /\ CommitInv'
  <2>1. /\ Typed' /\ UNCHANGED <<world, lock, memory, history, bounds>>
        /\ lock # c /\ \A d \in Compilers \ {c} : pc'[d] = pc[d] /\ job'[d] = job[d]
    BY <1>1, PlanningIsTyped
  <2>2. ASSUME NEW d \in Compilers, lock' = d PROVE HolderInv(d)'
    <3>1. lock = d /\ d # c /\ HolderInv(d) /\ UNCHANGED Matters
      BY <2>1, <2>2 DEF CommitInv, Matters, world, history
    <3> QED BY <2>1, <3>1, OthersKeepTheHolder
  <2> QED BY <2>1, <2>2 DEF CommitInv
<1>2. ASSUME NEW c \in Compilers, Acquire(c) PROVE Typed' /\ CommitInv'
  BY <1>2, AcquiringMakesHolder DEF CommitInv
<1>3. ASSUME NEW c \in Compilers, Commit(c) PROVE Typed' /\ CommitInv'
  <2>1. lock = c
    BY <1>3 DEF Commit, Read, Write, EndWrites, Retire, EndRemovals, Verify, EndPublication,
                ReplaceRecord, Undo, EndUndo, Holds
  <2>2. HolderInv(c)
    BY <2>1 DEF CommitInv
  <2>3. CASE lock' = lock
    <3>1. Typed' /\ HolderInv(c)'
      <4>1. CASE Read(c)
        BY <4>1, <2>2, ReadingIsTyped, ReadingKeepsHolder
      <4>2. CASE Write(c) \/ Retire(c)
        BY <4>2, <2>2, WritingKeepsHolder
      <4>3. CASE EndWrites(c) \/ EndRemovals(c) \/ Verify(c) \/ EndPublication(c)
        BY <4>3, <2>2, AdvancingIsTyped, AdvancingKeepsHolder
      <4>4. CASE Undo(c)
        BY <4>4, <2>2, UndoingIsTyped, UndoingKeepsHolder
      <4>5. CASE ReplaceRecord(c)
        <5>1. lock # Free
          BY <2>1, HolderIsTyped
        <5>2. /\ Abandon(c) /\ pc[c] = "record"
              /\ UNCHANGED <<file, job, retired, changed, snapshot, edited>>
          BY <4>5, <5>1, <2>3 DEF ReplaceRecord, Release, Holds, history
        <5> QED BY <4>5, <5>2, <2>1, <2>2, RecordingIsTyped, AbandonKeepsHolder
      <4>6. CASE EndUndo(c)
        BY <4>6, <2>1, <2>3, HolderIsTyped DEF EndUndo, Release
      <4> QED BY <1>3, <4>1, <4>2, <4>3, <4>4, <4>5, <4>6 DEF Commit
    <3> QED BY <3>1, <2>1, <2>3 DEF CommitInv
  <2>4. CASE lock' # lock
    <3>1. (ReplaceRecord(c) \/ EndUndo(c)) /\ lock' = Free
      BY <1>3, <2>4 DEF Commit, Read, Write, EndWrites, Retire, EndRemovals, Verify,
                        EndPublication, ReplaceRecord, Undo, EndUndo, Release
    <3> QED BY <3>1, RecordingIsTyped, NamesAreDistinct DEF CommitInv
  <2> QED BY <2>3, <2>4
<1>4. ASSUME NEW c \in Compilers, Fail(c) \/ FailUndo(c) \/ Stop(c)
      PROVE  Typed' /\ CommitInv'
  <2>1. Typed'
    BY <1>4, FailingIsTyped
  <2>2. CASE Fail(c)
    <3>1. /\ lock = c /\ Abandon(c) /\ pc[c] # "undo"
          /\ UNCHANGED <<lock, file, job, retired, changed, snapshot, edited>>
      BY <2>2 DEF Fail, history, world
    <3>2. HolderInv(c)'
      BY <3>1, AbandonKeepsHolder DEF CommitInv
    <3> QED BY <2>1, <3>1, <3>2 DEF CommitInv
  <2>3. CASE FailUndo(c) \/ (Stop(c) /\ lock = c)
    <3>1. lock' = Free
      BY <2>3 DEF FailUndo, Stop, Release
    <3> QED BY <2>1, <3>1, NamesAreDistinct DEF CommitInv
  <2>4. CASE Stop(c) /\ lock # c
    <3>1. /\ UNCHANGED Matters /\ Return(c)
      BY <2>4 DEF Stop, Matters, history, world
    <3>2. ASSUME NEW d \in Compilers, lock' = d PROVE HolderInv(d)'
      <4>1. lock = d /\ d # c /\ HolderInv(d)
        BY <2>4, <3>1, <3>2 DEF CommitInv, Matters
      <4>2. pc'[d] = pc[d] /\ job'[d] = job[d]
        BY <3>1, <4>1 DEF Return, Typed, TypeOK
      <4> QED BY <3>1, <4>1, <4>2, OthersKeepTheHolder
    <3> QED BY <2>1, <3>2 DEF CommitInv
  <2> QED BY <1>4, <2>2, <2>3, <2>4
<1>5. ASSUME \/ \E p \in Paths : \E content \in Known[p] \cup {Absent, Foreign} : Edit(p, content)
             \/ \E s \in Sources, v \in Versions : ChangeSource(s, v)
      PROVE  Typed' /\ CommitInv'
  <2>1. Typed'
    BY <1>5, EditingIsTyped
  <2>2. lock' = lock
    BY <1>5 DEF Edit, ChangeSource
  <2>3. ASSUME NEW d \in Compilers, lock' = d PROVE HolderInv(d)'
    BY <1>5, <2>2, <2>3, EditingKeepsHolder DEF CommitInv
  <2> QED BY <2>1, <2>3 DEF CommitInv
<1>6. CASE UNCHANGED vars
  <2>1. UNCHANGED <<world, lock, pc, job, memory, history, bounds>>
    BY <1>6 DEF vars
  <2>2. Typed'
    BY <2>1 DEF Typed, TypeOK, world, memory, history, bounds
  <2>3. ASSUME NEW d \in Compilers, lock' = d PROVE HolderInv(d)'
    <3>1. HolderInv(d) /\ UNCHANGED Matters /\ pc'[d] = pc[d] /\ job'[d] = job[d]
      BY <2>1, <2>3 DEF CommitInv, Matters, world, history
    <3> QED BY <3>1, OthersKeepTheHolder
  <2> QED BY <2>2, <2>3 DEF CommitInv
<1> QED BY <1>1, <1>2, <1>3, <1>4, <1>5, <1>6 DEF Next, Compile, Disturb

LEMMA InitIsCommitted == Init => CommitInv
BY NamesAreDistinct DEF Init, CommitInv
-----------------------------------------------------------------------------
(***************************************************************************)
(* What a step may not do.                                                 *)
(***************************************************************************)

\* Which steps change a file, and how the lock goes from one to another.
LEMMA FilesChangeUnderTheLock ==
  ASSUME Typed, [Next]_vars
  PROVE  /\ \/ file' = file
            \/ edits' # edits
            \/ \E c \in Compilers : lock = c /\ (Write(c) \/ Retire(c) \/ Undo(c))
         /\ \/ lock' = lock
            \/ lock = Free /\ \E c \in Compilers : Acquire(c)
            \/ lock \in Compilers /\ lock' = Free
<1>1. ASSUME NEW c \in Compilers,
             (\E s \in Sources : Load(c, s)) \/ Plan(c) \/ Busy(c) \/ Refuse(c)
      PROVE  file' = file /\ lock' = lock
  BY <1>1, PlanningIsTyped DEF world
<1>2. ASSUME NEW c \in Compilers, Acquire(c) PROVE file' = file /\ lock = Free
  BY <1>2 DEF Acquire, world
<1>3. ASSUME NEW c \in Compilers,
             Read(c) \/ EndWrites(c) \/ EndRemovals(c) \/ Verify(c) \/ EndPublication(c)
      PROVE  file' = file /\ lock' = lock
  BY <1>3 DEF Read, EndWrites, EndRemovals, Verify, EndPublication, world
<1>4. ASSUME NEW c \in Compilers, Write(c) \/ Retire(c) \/ Undo(c)
      PROVE  lock = c /\ lock' = lock
  BY <1>4 DEF Write, Retire, Undo, Holds
<1>5. ASSUME NEW c \in Compilers, ReplaceRecord(c) \/ EndUndo(c)
      PROVE  file' = file /\ lock = c /\ lock' \in {lock, Free}
  BY <1>5 DEF ReplaceRecord, EndUndo, Holds, Release, world
<1>6. ASSUME NEW c \in Compilers, Fail(c) \/ FailUndo(c) \/ Stop(c)
      PROVE  file' = file /\ (lock' = lock \/ (lock = c /\ lock' = Free))
  BY <1>6 DEF Fail, FailUndo, Stop, Holds, Release, world
<1>7. ASSUME NEW p \in Paths, NEW content \in Known[p] \cup {Absent, Foreign}, Edit(p, content)
      PROVE  edits' # edits /\ lock' = lock
  BY <1>7 DEF Edit, Typed
<1>8. ASSUME NEW s \in Sources, NEW v \in Versions, ChangeSource(s, v)
      PROVE  file' = file /\ lock' = lock
  BY <1>8 DEF ChangeSource
<1>9. CASE UNCHANGED vars
  BY <1>9 DEF vars, world
<1> QED BY <1>1, <1>2, <1>3, <1>4, <1>5, <1>6, <1>7, <1>8, <1>9
        DEF Next, Compile, Commit, Disturb

LEMMA StepKeepsForeignBytes ==
  ASSUME Typed, CommitInv, [Next]_vars
  PROVE  [KeepsForeignBytes]_vars
<1> SUFFICES ASSUME NEW p \in Paths, file[p] = Foreign, file'[p] # Foreign, edits' = edits
             PROVE  p \in unread
  BY DEF KeepsForeignBytes
<1>1. PICK c \in Compilers : lock = c /\ (Write(c) \/ Retire(c) \/ Undo(c))
  BY FilesChangeUnderTheLock
<1>2. job[c] \in Begun /\ Looked /\ HolderInv(c)
  BY <1>1, HolderIsTyped DEF CommitInv, HolderInv
<1>3. saw # Unread /\ todo # <<>>
  BY <1>1 DEF Write, Retire, Undo
<1>4. p = Head(todo)
  <2>1. Head(todo) \in Paths /\ file \in [Paths -> Bytes]
    BY <1>3, ElementsOfTail DEF Typed, TypeOK
  <2> QED BY <1>1, <2>1 DEF Write, Retire, Undo, Change
<1>5. SUFFICES ASSUME saw = Foreign PROVE FALSE
  BY <1>2, <1>3, <1>4 DEF Looked
<1>6. CASE Write(c)
  <2>1. pc[c] \in {"writes", "publish"} /\ Authorized(job[c], p, saw)
    BY <1>4, <1>6 DEF Write
  <2>2. p \in DOMAIN Writes(job[c])
    <3>1. p \in ToSet(todo)
      BY <1>3, <1>4, ElementsOfTail DEF Typed, TypeOK
    <3>2. CASE pc[c] = "writes"
      BY <3>1, <3>2, <1>2 DEF HolderInv, OnCourse, Outputs
    <3>3. CASE pc[c] = "publish"
      <4>1. todo = <<Artifact(job[c])>>
        BY <3>3, <1>2, <1>3 DEF HolderInv, OnCourse
      <4> QED BY <4>1, <1>2, <1>4, JobsAreTyped
    <3> QED BY <2>1, <3>2, <3>3
  <2> QED BY <2>1, <2>2, <1>2, <1>5, JobsAreTyped, ForeignIsNotRendered DEF Authorized
<1>7. CASE Retire(c)
  <2>1. saw = Previous(job[c], p)
    BY <1>4, <1>5, <1>7, ForeignIsNotRendered DEF Retire
  <2> QED BY <2>1, <1>2, <1>5, JobsAreTyped, ForeignIsNotRendered
<1>8. CASE Undo(c)
  <2>1. saw = Committed(job[c], p)
    BY <1>4, <1>8 DEF Undo
  <2> QED BY <2>1, <1>2, <1>5, JobsAreTyped, ForeignIsNotRendered DEF Committed
<1> QED BY <1>1, <1>6, <1>7, <1>8

LEMMA StepPublishesLast ==
  ASSUME Typed, CommitInv, [Next]_vars
  PROVE  PublishesLast
<1> SUFFICES ASSUME NEW c \in Compilers, Holds(c, "publish"),
                    file'[Artifact(job[c])] # file[Artifact(job[c])], edits' = edits
             PROVE  /\ \A p \in Outputs(job[c]) \ unread : file[p] = Writes(job[c])[p]
                    /\ \A p \in retired \ unread : file[p] = Absent
                    /\ job[c].source \in unread \/ InputsAreCurrent(job[c])
  BY DEF PublishesLast
<1>1. lock = c /\ pc[c] = "publish" /\ HolderInv(c)
  BY DEF Holds, CommitInv
<1>2. PICK d \in Compilers : lock = d /\ (Write(d) \/ Retire(d) \/ Undo(d))
  BY FilesChangeUnderTheLock
<1>3. todo # <<>>
  BY <1>2 DEF Write, Retire, Undo
<1> QED BY <1>1, <1>3 DEF HolderInv, Fresh

LEMMA StepIsAllOrNothing ==
  ASSUME Typed, CommitInv, [Next]_vars
  PROVE  AllOrNothing
<1> SUFFICES ASSUME NEW c \in Compilers, lock = c, lock' = Free, faults' = faults
             PROVE  IF pc[c] = "record"
                      THEN /\ \A p \in DOMAIN Writes(job[c]) \ edited : file'[p] = Writes(job[c])[p]
                           /\ \A p \in retired \ edited : file'[p] = Absent
                      ELSE \A p \in Paths \ edited : file'[p] = snapshot[p]
  BY DEF AllOrNothing
<1>1. c # Free /\ HolderInv(c)
  BY NamesAreDistinct DEF CommitInv
<1>2. \E d \in Compilers : ReplaceRecord(d) \/ EndUndo(d)
  <2>1. ASSUME NEW d \in Compilers,
               (\E s \in Sources : Load(d, s)) \/ Plan(d) \/ Busy(d) \/ Refuse(d)
        PROVE  FALSE
    BY <2>1, <1>1, PlanningIsTyped
  <2>2. ASSUME NEW d \in Compilers, Acquire(d) PROVE FALSE
    BY <2>2, <1>1 DEF Acquire
  <2>3. ASSUME NEW d \in Compilers,
               \/ Read(d) \/ Write(d) \/ EndWrites(d) \/ Retire(d) \/ EndRemovals(d)
               \/ Verify(d) \/ EndPublication(d) \/ Undo(d)
        PROVE  FALSE
    BY <2>3, <1>1 DEF Read, Write, EndWrites, Retire, EndRemovals, Verify, EndPublication, Undo
  <2>4. ASSUME NEW d \in Compilers, Fail(d) \/ FailUndo(d) \/ Stop(d) PROVE FALSE
    BY <2>4 DEF Fail, FailUndo, Stop, Faulty, Typed
  <2>5. ASSUME NEW p \in Paths, NEW content \in Known[p] \cup {Absent, Foreign}, Edit(p, content)
        PROVE  FALSE
    BY <2>5, <1>1 DEF Edit
  <2>6. ASSUME NEW s \in Sources, NEW v \in Versions, ChangeSource(s, v) PROVE FALSE
    BY <2>6, <1>1 DEF ChangeSource
  <2>7. CASE UNCHANGED vars
    BY <2>7, <1>1 DEF vars
  <2> QED BY <2>1, <2>2, <2>3, <2>4, <2>5, <2>6, <2>7 DEF Next, Compile, Commit, Disturb
<1>3. (ReplaceRecord(c) \/ EndUndo(c)) /\ file' = file
  BY <1>2 DEF ReplaceRecord, EndUndo, Holds, world
<1>4. CASE pc[c] = "record"
  <2>1. \A p \in DOMAIN Writes(job[c]) : p \in Outputs(job[c]) \/ p = Artifact(job[c])
    BY DEF Outputs
  <2> QED BY <2>1, <1>1, <1>3, <1>4 DEF HolderInv, Settling
<1>5. CASE pc[c] # "record"
  <2>1. pc[c] = "undo" /\ todo = <<>>
    BY <1>3, <1>5 DEF ReplaceRecord, EndUndo, Holds
  <2>2. ToSet(<<>>) = {}
    BY DEF ToSet
  <2> QED BY <2>1, <2>2, <1>1, <1>3, <1>5 DEF HolderInv, Traced
<1> QED BY <1>4, <1>5

\* Whoever compiles and whatever fails or stops, bytes that no version renders are
\* never replaced or removed after a compiler has read them: only what the user puts
\* under the lock between the last look at a file and its replacement can be lost.
THEOREM ForeignBytesAreKept == Spec => ForeignBytesSurvive
<1>1. Init => Typed /\ CommitInv
  BY InitIsTyped, InitIsCommitted
<1>2. Typed /\ CommitInv /\ [Next]_vars => (Typed /\ CommitInv)'
  BY StepKeepsInv
<1>3. Typed /\ CommitInv /\ [Next]_vars => [KeepsForeignBytes]_vars
  BY StepKeepsForeignBytes
<1> QED BY <1>1, <1>2, <1>3, PTL DEF Spec, ForeignBytesSurvive
-----------------------------------------------------------------------------
(***************************************************************************)
(* Beside maintenance.                                                     *)
(***************************************************************************)
MaintainTyped ==
  /\ plan \in Seq(PlannedMutations) /\ applied \in 0..Len(plan)
  /\ journal = None \/ journal \in Seq(PlannedMutations)

\* Who maintains holds the lease or goes by a journal.  Nobody maintains beside a
\* compiler in its commit, and there is no journal to recover from.
Leased ==
  /\ mpc # "idle" => lock = Maintainer \/ journal # None
  /\ lock \in Compilers => mpc = "idle" /\ journal = None

\* What holds until an interruption is passed over: Leased does not hold after it.
Careful == Typed /\ MaintainTyped /\ Leased /\ CommitInv

MaintainedInv == loose \in BOOLEAN /\ (~loose => Careful)

LEMMA PuttingIsTyped ==
  ASSUME Typed, NEW m \in PlannedMutations,
         Put(m.path, m.target) \/ Put(m.path, m.prior)
  PROVE  /\ file' \in [Paths -> Bytes] /\ hosts' \subseteq Hosts /\ manifest' \subseteq Hosts
         /\ source' = source /\ owned' = owned
<1>1. CASE m \in FileMutations
  <2>1. m.path \in Paths /\ m.path # ProjectJson /\ m.path # ManifestJson
    BY <1>1, PathsAreApart DEF FileMutations
  <2> QED BY <1>1, <2>1 DEF FileMutations, Put, Typed, TypeOK
<1>2. CASE m \in HostMutations
  <2>1. m.path \in {ProjectJson, ManifestJson} /\ m.path \notin Paths
    BY <1>2, PathsAreApart DEF HostMutations
  <2> QED BY <1>2, <2>1 DEF HostMutations, Put, Typed, TypeOK
<1> QED BY <1>1, <1>2 DEF PlannedMutations

LEMMA MutationsAreTyped ==
  ASSUME Typed, NEW H \in SUBSET Hosts
  PROVE  Mutations(H) \in Seq(PlannedMutations)
<1> DEFINE files == InPathOrder(Created(H) \cup Deleted(H))
           mutate(p) == Mutation(p, IF p \in Created(H) THEN Maintained[p] ELSE Absent)
           first == <<Mutation(ProjectJson, H)>>
           middle == [i \in DOMAIN files |-> mutate(files[i])]
           last == IF manifest = H THEN <<>> ELSE <<Mutation(ManifestJson, H)>>
<1>1. /\ Mutation(ProjectJson, H) \in PlannedMutations
      /\ Mutation(ManifestJson, H) \in PlannedMutations
  <2>1. hosts \in SUBSET Hosts /\ manifest \in SUBSET Hosts
    BY DEF Typed, TypeOK
  <2>2. Current(ProjectJson) = hosts /\ Current(ManifestJson) = manifest
    BY PathsAreApart DEF Current
  <2> QED BY <2>1, <2>2 DEF Mutation, PlannedMutations, HostMutations
<1>2. first \in Seq(PlannedMutations) /\ last \in Seq(PlannedMutations)
  BY <1>1, EmptySeq
<1>3. ASSUME NEW p \in Created(H) \cup Deleted(H) PROVE mutate(p) \in PlannedMutations
  <2>1. p \in DOMAIN Maintained
    BY DEF Created, Deleted, Desired
  <2>2. p \in Paths /\ Maintained[p] \in Contents
    BY <2>1, RenderingsAreTyped
  <2>3. Current(p) = file[p] /\ file[p] \in Bytes
    <3>1. p # ProjectJson /\ p # ManifestJson
      BY <2>2, PathsAreApart
    <3> QED BY <2>2, <3>1 DEF Current, Typed, TypeOK
  <2> QED BY <2>2, <2>3 DEF Mutation, PlannedMutations, FileMutations, Bytes
<1> HIDE DEF mutate, files, first, last
<1>4. files \in Seq(Paths) /\ ToSet(files) \subseteq Created(H) \cup Deleted(H)
  BY OrderedPathsAreOfTheSet DEF files
<1>5. Len(files) \in Nat /\ DOMAIN files = 1..Len(files)
  BY <1>4, LenProperties
<1>6. middle \in Seq(PlannedMutations)
  <2>1. ASSUME NEW i \in 1..Len(files) PROVE mutate(files[i]) \in PlannedMutations
    <3>1. files[i] \in Created(H) \cup Deleted(H)
      BY <1>4, <1>5 DEF ToSet
    <3> QED BY <3>1, <1>3
  <2>2. middle = [i \in 1..Len(files) |-> mutate(files[i])]
    BY <1>5
  <2> QED BY <1>5, <2>1, <2>2, IsASeq
<1> HIDE DEF middle
<1>7. Mutations(H) = first \o middle \o last
  BY DEF Mutations, mutate, files, first, middle, last
<1>8. first \o middle \in Seq(PlannedMutations)
  BY <1>2, <1>6, ConcatProperties
<1> QED BY <1>2, <1>7, <1>8, ConcatProperties
\* What every step of the maintainer leaves alone, and how it takes the lock.
LEMMA MaintainingIsTyped ==
  ASSUME Typed,
         file' \in [Paths -> Bytes], hosts' \subseteq Hosts, manifest' \subseteq Hosts,
         UNCHANGED <<source, owned, pc, job, memory, history, edits>>,
         changes' \in Nat, faults' \in Nat,
         lock' \in {lock, Free, Maintainer}, lock \in Compilers => lock' = lock
  PROVE  Typed'
<1>1. UNCHANGED <<source, owned, pc, job, todo, saw, retired, changed, snapshot,
                  unread, edited, interrupted, edits>>
  BY DEF memory, history
<1>2. lock' \in Compilers \cup {Free, Maintainer}
  BY DEF Typed, TypeOK
<1>3. \A c \in Compilers : lock' = c <=> lock = c
  BY NamesAreDistinct
<1> QED BY <1>1, <1>2, <1>3 DEF Typed, TypeOK

LEMMA MaintainKeepsInv ==
  ASSUME Careful, Maintain
  PROVE  Careful' /\ lock \notin Compilers
<1> USE DEF Careful
<1>0. /\ Free # Maintainer /\ Free \notin Compilers /\ Maintainer \notin Compilers
      /\ Len(plan) \in Nat /\ applied \in 0..Len(plan)
      /\ DOMAIN plan = 1..Len(plan)
      /\ \A i \in 1..Len(plan) : plan[i] \in PlannedMutations
  BY NamesAreDistinct, LenProperties, ElementOfSeq DEF MaintainTyped
<1>1. file \in [Paths -> Bytes] /\ hosts \subseteq Hosts /\ manifest \subseteq Hosts
      /\ changes \in Nat /\ faults \in Nat
  BY DEF Typed, TypeOK
<1> DEFINE Kept ==
      /\ UNCHANGED <<source, owned, pc, job, memory, history, edits>>
      /\ file' \in [Paths -> Bytes] /\ hosts' \subseteq Hosts /\ manifest' \subseteq Hosts
      /\ changes' \in Nat /\ faults' \in Nat
      /\ lock' \in {lock, Free, Maintainer} /\ (lock \in Compilers => lock' = lock)
      /\ MaintainTyped' /\ Leased' /\ lock \notin Compilers
<1>2. ASSUME NEW H \in SUBSET Hosts, Configure(H) PROVE Kept
  <2>1. Mutations(H) \in Seq(PlannedMutations) /\ Len(Mutations(H)) \in Nat
    BY MutationsAreTyped, LenProperties
  <2>2. /\ lock = Free /\ lock' = Maintainer /\ mpc' = "install"
        /\ plan' = Mutations(H) /\ applied' = 0 /\ journal' = Mutations(H)
        /\ changes' = changes + 1
        /\ UNCHANGED <<source, owned, pc, job, memory, history, edits, file, hosts, manifest, faults>>
    BY <1>2 DEF Configure, Begin, world
  <2> QED BY <1>0, <1>1, <2>1, <2>2 DEF MaintainTyped, Leased
<1>3. ASSUME NEW leased \in BOOLEAN, Replay(leased) PROVE Kept
  <2>1. journal # None /\ journal \in Seq(PlannedMutations) /\ Len(journal) \in Nat
    BY <1>3, LenProperties DEF Replay, MaintainTyped
  <2> DEFINE back == [i \in DOMAIN journal |-> Mutation(journal[i].path, journal[i].prior)]
  <2>2. back \in Seq(PlannedMutations) /\ Len(back) \in Nat
    <3>1. DOMAIN journal = 1..Len(journal)
      BY <2>1, LenProperties
    <3>2. ASSUME NEW i \in 1..Len(journal)
          PROVE  Mutation(journal[i].path, journal[i].prior) \in PlannedMutations
      <4>1. journal[i] \in PlannedMutations
        BY <2>1, ElementOfSeq
      <4> DEFINE m == journal[i]
      <4>2. CASE m \in FileMutations
        <5>1. m.path \in Paths /\ m.path # ProjectJson /\ m.path # ManifestJson
          BY <4>2, PathsAreApart DEF FileMutations
        <5>2. Current(m.path) \in Bytes /\ m.prior \in Bytes
          BY <4>2, <5>1, <1>1 DEF Current, FileMutations
        <5> HIDE DEF m
        <5>3. Mutation(m.path, m.prior) \in FileMutations
          BY <5>1, <5>2 DEF Mutation, FileMutations
        <5> QED BY <5>3 DEF PlannedMutations, m
      <4>3. CASE m \in HostMutations
        <5>1. m.path \in {ProjectJson, ManifestJson} /\ m.prior \in SUBSET Hosts
          BY <4>3 DEF HostMutations
        <5>2. Current(m.path) \in SUBSET Hosts
          BY <5>1, <1>1, PathsAreApart DEF Current
        <5> HIDE DEF m
        <5>3. Mutation(m.path, m.prior) \in HostMutations
          BY <5>1, <5>2 DEF Mutation, HostMutations
        <5> QED BY <5>3 DEF PlannedMutations, m
      <4> QED BY <4>1, <4>2, <4>3 DEF PlannedMutations
    <3>3. back = [i \in 1..Len(journal) |-> Mutation(journal[i].path, journal[i].prior)]
      BY <3>1
    <3>4. back \in Seq(PlannedMutations)
      BY <2>1, <3>2, <3>3, IsASeq
    <3> QED BY <3>4, LenProperties
  <2> HIDE DEF back
  <2>3. /\ mpc = "idle" /\ mpc' = "install" /\ plan' = back /\ applied' = 0
        /\ journal' = journal
        /\ IF leased THEN lock = Free /\ lock' = Maintainer ELSE lock' = lock
        /\ UNCHANGED <<source, owned, pc, job, memory, history, edits, file, hosts, manifest,
                       changes, faults>>
    BY <1>3 DEF Replay, Begin, world, bounds, back
  <2> QED BY <1>0, <1>1, <2>1, <2>2, <2>3 DEF MaintainTyped, Leased
<1>4. ASSUME NEW leased \in BOOLEAN, CloseJournal(leased) PROVE Kept
  <2>1. /\ journal # None /\ journal' = None /\ mpc = "idle" /\ UNCHANGED <<mpc, plan, applied>>
        /\ UNCHANGED <<source, owned, pc, job, memory, history, edits, file, hosts, manifest,
                       changes, faults, lock>>
    BY <1>4, <1>0 DEF CloseJournal, vars, world, bounds
  <2> QED BY <1>0, <1>1, <2>1 DEF MaintainTyped, Leased
<1>5. ASSUME Install \/ Restore PROVE Kept
  <2>1. /\ mpc # "idle" /\ UNCHANGED <<mpc, plan, journal, lock, changes, faults>>
        /\ UNCHANGED <<pc, job, memory, history, edits>>
    BY <1>5 DEF Install, Restore, bounds
  <2>2. \E i \in 1..Len(plan) :
          (Put(plan[i].path, plan[i].target) \/ Put(plan[i].path, plan[i].prior))
          /\ applied' \in 0..Len(plan)
    <3>1. CASE Install
      BY <3>1, <1>0 DEF Install
    <3>2. CASE Restore
      BY <3>2, <1>0 DEF Restore
    <3> QED BY <1>5, <3>1, <3>2
  <2>3. /\ file' \in [Paths -> Bytes] /\ hosts' \subseteq Hosts /\ manifest' \subseteq Hosts
        /\ source' = source /\ owned' = owned
    BY <2>2, <1>0, PuttingIsTyped
  <2> QED BY <1>0, <1>1, <2>1, <2>2, <2>3 DEF MaintainTyped, Leased
<1>6. ASSUME Settle \/ EndRestore \/ StopMaintainer PROVE Kept
  <2>1. /\ mpc # "idle" /\ mpc' = "idle" /\ plan' = <<>> /\ applied' = 0
        /\ journal' \in {None, journal}
        /\ lock' = IF lock = Maintainer THEN Free ELSE lock
        /\ UNCHANGED <<source, owned, pc, job, memory, history, edits, file, hosts, manifest, changes>>
    BY <1>6 DEF Settle, EndRestore, StopMaintainer, End, world, bounds
  <2>2. faults' \in Nat
    BY <1>6, <1>1 DEF Settle, EndRestore, StopMaintainer, Faulty, bounds
  <2>3. <<>> \in Seq(PlannedMutations) /\ Len(<<>>) = 0
    BY EmptySeq
  <2> QED BY <1>0, <1>1, <2>1, <2>2, <2>3 DEF MaintainTyped, Leased
<1>7. ASSUME FailInstall \/ FailRestore PROVE Kept
  <2>1. /\ mpc # "idle" /\ UNCHANGED <<plan, journal, lock, changes>>
        /\ faults' = faults + 1
        /\ UNCHANGED <<source, owned, pc, job, memory, history, edits, file, hosts, manifest>>
    BY <1>7 DEF FailInstall, FailRestore, Faulty, world
  <2>2. applied' \in 0..Len(plan)
    BY <1>7, <1>0 DEF FailInstall, FailRestore
  <2> QED BY <1>0, <1>1, <2>1, <2>2 DEF MaintainTyped, Leased
<1>8. Kept
  BY <1>2, <1>3, <1>4, <1>5, <1>6, <1>7 DEF Maintain
<1>9. Typed'
  BY <1>8, MaintainingIsTyped
<1>10. CommitInv'
  BY <1>0, <1>8 DEF CommitInv
<1> QED BY <1>0, <1>8, <1>9, <1>10
LEMMA CompilerStepKeepsInv ==
  ASSUME Careful, CompilerStep(Next), ~loose'
  PROVE  Careful' /\ AllOrNothing /\ PublishesLast
<1> USE DEF Careful
<1>1. /\ Next /\ UNCHANGED <<mpc, plan, applied, replaying, journal>>
      /\ ~(lock' \in Compilers /\ lock = Free /\ journal # None)
  BY DEF CompilerStep, effect
<1>2. Typed' /\ CommitInv' /\ AllOrNothing /\ PublishesLast
  BY <1>1, StepKeepsInv, StepIsAllOrNothing, StepPublishesLast
<1>3. MaintainTyped'
  BY <1>1 DEF MaintainTyped
<1>4. Leased'
  <2>1. \/ lock' = lock
        \/ lock = Free
        \/ lock \in Compilers /\ lock' = Free
    BY <1>1, FilesChangeUnderTheLock
  <2> QED BY <1>1, <2>1, NamesAreDistinct DEF Leased
<1> QED BY <1>2, <1>3, <1>4

\* That an interruption was passed over is not forgotten.
LEMMA LooseIsHistory ==
  ASSUME loose \in BOOLEAN, [MaintainedNext]_allVars
  PROVE  loose' \in BOOLEAN /\ (loose => loose')
<1>1. CASE CompilerStep(Next)
  BY <1>1 DEF CompilerStep
<1>2. ASSUME NEW leased \in BOOLEAN, CloseJournal(leased) PROVE loose' \in BOOLEAN /\ (loose => loose')
  BY <1>2 DEF CloseJournal
<1>3. ASSUME \/ \E H \in SUBSET Hosts : Configure(H)
             \/ \E leased \in BOOLEAN : Replay(leased)
             \/ Install \/ Settle \/ Restore \/ EndRestore
             \/ FailInstall \/ FailRestore \/ StopMaintainer
      PROVE  loose' = loose
  BY <1>3 DEF Configure, Replay, Install, Settle, Restore, EndRestore,
              FailInstall, FailRestore, StopMaintainer
<1>4. CASE UNCHANGED allVars
  BY <1>4 DEF allVars
<1> QED BY <1>1, <1>2, <1>3, <1>4 DEF MaintainedNext, Maintain

LEMMA MaintainedStep ==
  ASSUME MaintainedInv, [MaintainedNext]_allVars
  PROVE  /\ MaintainedInv'
         /\ [~loose' => AllOrNothing]_allVars /\ [~loose' => PublishesLast]_allVars
<1>1. loose' \in BOOLEAN /\ (loose => loose')
  BY LooseIsHistory DEF MaintainedInv
<1>2. CASE loose'
  BY <1>1, <1>2 DEF MaintainedInv
<1>3. CASE ~loose'
  <2>1. Careful
    BY <1>1, <1>3 DEF MaintainedInv
  <2>2. Careful' /\ (UNCHANGED allVars \/ (AllOrNothing /\ PublishesLast))
    <3>1. CASE CompilerStep(Next)
      BY <1>3, <2>1, <3>1, CompilerStepKeepsInv
    <3>2. CASE Maintain
      BY <2>1, <3>2, MaintainKeepsInv DEF AllOrNothing, PublishesLast, Holds
    <3>3. CASE UNCHANGED allVars
      <4>1. UNCHANGED vars /\ UNCHANGED <<mpc, plan, applied, journal, lock>>
        BY <3>3 DEF allVars, effect, vars
      <4> QED BY <2>1, <3>3, <4>1, StepKeepsInv DEF Careful, MaintainTyped, Leased
    <3> QED BY <3>1, <3>2, <3>3 DEF MaintainedNext
  <2> QED BY <1>1, <1>3, <2>2 DEF MaintainedInv
<1> QED BY <1>1, <1>2, <1>3

LEMMA InitIsMaintained == MaintainedInit => MaintainedInv
<1> SUFFICES ASSUME MaintainedInit PROVE MaintainedInv
  OBVIOUS
<1>1. Typed /\ CommitInv /\ lock = Free
  BY InitIsTyped, InitIsCommitted DEF MaintainedInit, Init
<1>2. <<>> \in Seq(PlannedMutations) /\ Len(<<>>) = 0
  BY EmptySeq
<1>3. /\ mpc = "idle" /\ plan = <<>> /\ applied = 0 /\ journal = None /\ loose = FALSE
  BY DEF MaintainedInit
<1>4. MaintainTyped
  BY <1>2, <1>3 DEF MaintainTyped
<1>5. Leased
  BY <1>1, <1>3 DEF Leased
<1> QED BY <1>1, <1>3, <1>4, <1>5 DEF MaintainedInv, Careful

\* A compilation that ends by itself leaves the new version and its record or what
\* it found, whatever configurations are installed, undone, interrupted and recovered
\* beside it, as long as no interrupted one was passed over.
THEOREM CompilationsAreAtomic == MaintainedSpec => CompilationsStayAtomic
<1>1. MaintainedInv /\ [MaintainedNext]_allVars
        => MaintainedInv' /\ [~loose' => AllOrNothing]_allVars
  BY MaintainedStep
<1> QED BY <1>1, InitIsMaintained, PTL DEF MaintainedSpec, CompilationsStayAtomic

\* Under the same condition an artifact appears only when all it names is in place,
\* but for edits made since the last look.
THEOREM ArtifactsArePublishedLast == MaintainedSpec => ArtifactsStayPublishedLast
<1>1. MaintainedInv /\ [MaintainedNext]_allVars
        => MaintainedInv' /\ [~loose' => PublishesLast]_allVars
  BY MaintainedStep
<1> QED BY <1>1, InitIsMaintained, PTL DEF MaintainedSpec, ArtifactsStayPublishedLast
-----------------------------------------------------------------------------
(***************************************************************************)
(* Files beside maintenance, while nobody edits them.                      *)
(***************************************************************************)

\* What is promised of the files f, which are those in the worktree or those that a
\* compiler found when it took the lock.
KeepsMaintained(f) == \A p \in DOMAIN Maintained : f[p] \in {Absent, Maintained[p]}

KeepsFlow(f, s) ==
  IF interrupted[s] = None
  THEN \A p \in DOMAIN Record(s, owned[s]) : f[p] = Record(s, owned[s])[p]
  ELSE /\ \A p \in DOMAIN Writes(Retry(s)) : Authorized(Retry(s), p, f[p])
       /\ \A p \in Obsolete(Retry(s)) : f[p] \in {Absent, Previous(Retry(s), p)}

IsInPlace(f) == \A p \in Desired(manifest) : f[p] = Maintained[p]

Peaceful(f) ==
  /\ KeepsMaintained(f)
  /\ \A s \in Sources : KeepsFlow(f, s)
  /\ mpc = "idle" /\ journal = None => IsInPlace(f)

\* The paths that a source wants to be there whatever becomes of it.
Claims(s) ==
  IF interrupted[s] = None THEN DOMAIN Record(s, owned[s])
  ELSE DOMAIN Record(s, owned[s]) \cap DOMAIN Record(s, interrupted[s])

\* A compiler in its commit.
Commits(c) ==
  LET j == job[c]
  IN  /\ owned[j.source] = j.prior
      /\ retired = Removals(j)
      /\ Peaceful(snapshot)
      /\ \A p \in DOMAIN Writes(j) : Authorized(j, p, snapshot[p])
      /\ \A p \in retired : snapshot[p] \in {Absent, Previous(j, p)}
      /\ ToSet(changed) \subseteq DOMAIN Writes(j) \cup retired
      /\ pc[c] = "undo" => ToSet(todo) \subseteq DOMAIN Writes(j) \cup retired

\* Once the content content[i] is at each of the paths path[i], the files that H wants are there.
Leads(n, path, content, H) ==
  /\ \A i \in 1..n : path[i] = ManifestJson => content[i] = H
  /\ (\A i \in 1..n : path[i] # ManifestJson) => manifest = H
  /\ \A p \in Desired(H) :
       \/ \E i \in 1..n : path[i] = p /\ content[i] = Maintained[p]
       \/ file[p] = Maintained[p] /\ \A i \in 1..n : path[i] # p

PathsOf(J) == [i \in 1..Len(J) |-> J[i].path]
TargetsOf(J) == [i \in 1..Len(J) |-> J[i].target]
PriorsOf(J) == [i \in 1..Len(J) |-> J[i].prior]

\* Mutations of maintained files that no Flow claims.
Harmless(J) ==
  \A i \in 1..Len(J) : J[i].path \in Paths =>
    /\ J[i].path \in DOMAIN Maintained
    /\ {J[i].prior, J[i].target} \subseteq {Absent, Maintained[J[i].path]}
    /\ \A s \in Sources : J[i].path \notin Claims(s)

IsSound(J) ==
  /\ Harmless(J)
  /\ \A i, k \in 1..Len(J) : J[i].path = J[k].path => i = k
  /\ \E H \in SUBSET Hosts : Leads(Len(J), PathsOf(J), TargetsOf(J), H)
  /\ \E H \in SUBSET Hosts : Leads(Len(J), PathsOf(J), PriorsOf(J), H)

\* Where the maintainer is in its plan.
Progress ==
  mpc # "idle" =>
    /\ journal # None
    /\ ~replaying => plan = journal
    /\ replaying =>
         /\ Harmless(plan) /\ Len(plan) = Len(journal)
         /\ \A i \in 1..Len(plan) :
              plan[i].path = journal[i].path /\ plan[i].target = journal[i].prior
    /\ mpc = "install" =>
         \A i \in 1..Len(plan) : i <= applied => Current(plan[i].path) = plan[i].target
    /\ ~replaying /\ mpc \in {"install", "restore"} =>
         \A i \in 1..Len(plan) : i > applied => Current(plan[i].path) = plan[i].prior

Peace ==
  /\ edited = {}
  /\ lock \notin Compilers => Peaceful(file)
  /\ \A c \in Compilers : lock = c => Commits(c)
  /\ journal # None => IsSound(journal)
  /\ Progress

PeaceInv == edits = 0 /\ ~loose => Peace
-----------------------------------------------------------------------------
(* The paths of the files. *)

\* All of a set of paths are listed, and each once.
LEMMA OrderedPathsAreTheSet ==
  ASSUME NEW S \in SUBSET Paths
  PROVE  /\ ToSet(InPathOrder(S)) = S
         /\ Len(InPathOrder(S)) \in Nat /\ DOMAIN InPathOrder(S) = 1..Len(InPathOrder(S))
         /\ \A k, l \in DOMAIN InPathOrder(S) : InPathOrder(S)[k] = InPathOrder(S)[l] => k = l
<1> DEFINE places == {i \in DOMAIN Order : Order[i] \in S}
           upTo(i) == {j \in places : j <= i}
           place(k) == CHOOSE i \in places : Cardinality({j \in places : j <= i}) = k
<1>1. /\ Order \in Seq(Paths) /\ Len(Order) \in Nat /\ DOMAIN Order = 1..Len(Order)
      /\ \A i, j \in DOMAIN Order : Order[i] = Order[j] => i = j
  BY PathsAreListedOnce, LenProperties DEF IsInjective
<1>2. places \subseteq Nat /\ IsFiniteSet(places)
  <2>1. IsFiniteSet(1..Len(Order))
    BY <1>1, FS_Interval
  <2> QED BY <1>1, <2>1, FS_Subset
<1>3. Cardinality(places) \in Nat
  BY <1>2, FS_CardinalityType
<1>4. ASSUME NEW k \in 1..Cardinality(places)
      PROVE  place(k) \in places /\ Cardinality(upTo(place(k))) = k
  <2> DEFINE isThe(i) == Cardinality({j \in places : j <= i}) = k
  <2>1. \E i \in places : isThe(i)
    BY <1>2, PlacesAreCounted
  <2>2. place(k) = CHOOSE i \in places : isThe(i)
    OBVIOUS
  <2>3. isThe(place(k)) => Cardinality(upTo(place(k))) = k
    OBVIOUS
  <2> HIDE DEF isThe, place, upTo
  <2> QED BY <2>1, <2>2, <2>3
<1>5. InPathOrder(S) = [k \in 1..Cardinality(places) |-> Order[place(k)]]
  BY DEF InPathOrder
<1>6. ASSUME NEW i \in places
      PROVE  /\ Cardinality(upTo(i)) \in 1..Cardinality(places)
             /\ IsFiniteSet(upTo(i)) /\ Cardinality(upTo(i)) \in Nat
  <2>1. upTo(i) \subseteq places /\ i \in upTo(i)
    BY <1>2
  <2>2. IsFiniteSet(upTo(i)) /\ Cardinality(upTo(i)) <= Cardinality(places)
    BY <1>2, <2>1, FS_Subset
  <2>3. Cardinality(upTo(i)) \in Nat /\ Cardinality(upTo(i)) # 0
    BY <2>1, <2>2, FS_CardinalityType, FS_EmptySet
  <2> QED BY <1>3, <2>2, <2>3
<1>7. ASSUME NEW i \in places, NEW j \in places, i < j
      PROVE  Cardinality(upTo(i)) # Cardinality(upTo(j))
  <2>1. upTo(i) \subseteq upTo(j) /\ j \in upTo(j) /\ j \notin upTo(i)
    BY <1>2, <1>7
  <2> QED BY <1>6, <2>1, FS_Subset
<1>8. ASSUME NEW i \in places, NEW j \in places, Cardinality(upTo(i)) = Cardinality(upTo(j))
      PROVE  i = j
  <2>1. i \in Nat /\ j \in Nat
    BY <1>2
  <2>2. ~(i < j) /\ ~(j < i)
    BY <1>7, <1>8
  <2> QED BY <2>1, <2>2
<1> HIDE DEF place, upTo
<1>9. /\ DOMAIN InPathOrder(S) = 1..Cardinality(places)
      /\ \A k \in 1..Cardinality(places) : InPathOrder(S)[k] = Order[place(k)]
  BY <1>5
<1>10. Len(InPathOrder(S)) \in Nat /\ DOMAIN InPathOrder(S) = 1..Len(InPathOrder(S))
  <2>1. InPathOrder(S) \in Seq(Paths)
    BY OrderedPathsAreOfTheSet
  <2> QED BY <2>1, LenProperties
<1>11. ASSUME NEW p \in S PROVE p \in ToSet(InPathOrder(S))
  <2>1. PICK i \in DOMAIN Order : p = Order[i]
    BY DEF Paths
  <2>2. i \in places
    BY <2>1
  <2>3. PICK k : k = Cardinality(upTo(i))
    OBVIOUS
  <2>4. k \in 1..Cardinality(places)
    BY <1>6, <2>2, <2>3
  <2>5. place(k) = i
    BY <1>4, <1>8, <2>2, <2>3, <2>4
  <2>6. InPathOrder(S)[k] = p /\ k \in DOMAIN InPathOrder(S)
    BY <1>9, <2>1, <2>4, <2>5
  <2> QED BY <2>6 DEF ToSet
<1>12. ASSUME NEW k \in 1..Cardinality(places), NEW l \in 1..Cardinality(places),
              Order[place(k)] = Order[place(l)]
       PROVE  k = l
  <2>1. place(k) \in DOMAIN Order /\ place(l) \in DOMAIN Order
    BY <1>4
  <2>2. place(k) = place(l)
    BY <1>1, <1>12, <2>1
  <2> QED BY <1>4, <2>2
<1>13. ToSet(InPathOrder(S)) = S
  BY <1>11, OrderedPathsAreOfTheSet
<1> QED BY <1>9, <1>10, <1>12, <1>13

\* A maintained path of a Flow is shared, and has the same bytes for all.
LEMMA SharedBytesAgree ==
  ASSUME NEW s \in Sources, NEW i \in Inputs, NEW p \in DOMAIN Files[s][i],
         p \in DOMAIN Maintained
  PROVE  p \in Shared /\ Files[s][i][p] = Maintained[p]
<1> DEFINE outputs  == {q \in DOMAIN Rendered[s][i.version] : HostOf[q] \in i.hosts \cup {None}}
           artifact == ArtifactAt[s][i.version]
<1>1. Files[s][i] =
        [q \in outputs \cup {artifact} |->
           IF q = artifact THEN [source |-> s, inputs |-> i] ELSE Rendered[s][i.version][q]]
  BY DEF Files
<1>2. i.version \in Versions
  BY DEF Inputs
<1>3. artifact \notin DOMAIN Maintained
  BY <1>2, RenderingsAreTyped
<1>4. p \in outputs /\ p # artifact
  BY <1>1, <1>3
<1>5. p \in Shared /\ Rendered[s][i.version][p] = Maintained[p]
  BY <1>2, <1>4, RenderingsAreTyped
<1> HIDE DEF outputs, artifact
<1> QED BY <1>1, <1>4, <1>5

LEMMA SharedIsMaintained ==
  /\ Shared \subseteq DOMAIN Maintained /\ DOMAIN Maintained \subseteq Paths
  /\ \A p \in DOMAIN Maintained : /\ Maintained[p] \in Contents /\ Maintained[p] # Absent
                                  /\ p # ProjectJson /\ p # ManifestJson
<1>1. \A p \in DOMAIN Maintained : Maintained[p] \in Contents
  BY RenderingsAreTyped
<1> QED BY <1>1, RenderingsAreTyped, NamesAreDistinct, PathsAreApart

LEMMA NobodyRecordsNothing ==
  ASSUME NEW s
  PROVE  Record(s, None) = <<>> /\ DOMAIN Record(s, None) = {}
BY EmptySeq DEF Record

\* What is promised to a source stays as long as the paths that it claims and those
\* that are its own stay, and the shared files hold what maintenance installs or nothing.
LEMMA FlowIsKept ==
  ASSUME Typed, NEW s \in Sources, NEW f, NEW g, KeepsFlow(f, s), KeepsMaintained(g),
         \A p \in Claims(s) : g[p] = f[p],
         \A i \in Inputs : \A p \in DOMAIN Files[s][i] \ Shared : g[p] = f[p]
  PROVE  KeepsFlow(g, s)
<1>1. interrupted[s] \in Inputs \cup {None} /\ owned[s] \in Inputs \cup {None}
  BY DEF Typed, TypeOK
<1>2. CASE interrupted[s] = None
  BY <1>2 DEF KeepsFlow, Claims
<1>3. CASE interrupted[s] # None
  <2> DEFINE j == Retry(s)
  <2>1. /\ Writes(j) = Files[s][interrupted[s]] /\ interrupted[s] \in Inputs
        /\ Record(s, interrupted[s]) = Writes(j)
        /\ Record(j.source, j.prior) = Record(s, owned[s])
    BY <1>1, <1>3 DEF Retry, Writes, Record
  <2>2. ASSUME NEW p \in DOMAIN Record(s, owned[s])
        PROVE  /\ Previous(j, p) = Record(s, owned[s])[p]
               /\ p \in Shared \/ g[p] = f[p]
               /\ p \in Shared => Previous(j, p) = Maintained[p]
    <3>1. owned[s] \in Inputs /\ Record(s, owned[s]) = Files[s][owned[s]]
      BY <1>1, <2>2, NobodyRecordsNothing DEF Record
    <3>2. Previous(j, p) = Record(s, owned[s])[p]
      BY <2>1, <2>2 DEF Previous
    <3>3. p \in Shared => Files[s][owned[s]][p] = Maintained[p]
      BY <3>1, SharedBytesAgree, SharedIsMaintained
    <3> QED BY <3>1, <3>2, <3>3
  <2>3. ASSUME NEW p \in DOMAIN Writes(j) PROVE Authorized(j, p, g[p])
    <3>1. Authorized(j, p, f[p])
      BY <1>3 DEF KeepsFlow
    <3>2. CASE g[p] = f[p]
      BY <3>1, <3>2
    <3>3. CASE g[p] # f[p]
      <4>1. p \in Shared /\ p \notin DOMAIN Record(s, owned[s])
        BY <1>3, <2>1, <3>3 DEF Claims
      <4>2. Writes(j)[p] = Maintained[p]
        BY <2>1, <4>1, SharedBytesAgree, SharedIsMaintained
      <4>3. Previous(j, p) = Absent
        BY <2>1, <4>1 DEF Previous
      <4>4. g[p] \in {Absent, Maintained[p]}
        BY <4>1, SharedIsMaintained DEF KeepsMaintained
      <4> QED BY <4>2, <4>3, <4>4 DEF Authorized
    <3> QED BY <3>2, <3>3
  <2>4. ASSUME NEW p \in Obsolete(j) PROVE g[p] \in {Absent, Previous(j, p)}
    <3>1. p \in DOMAIN Record(s, owned[s]) /\ f[p] \in {Absent, Previous(j, p)}
      BY <1>3, <2>1 DEF KeepsFlow, Obsolete
    <3>2. p \in Shared => g[p] \in {Absent, Maintained[p]}
      BY SharedIsMaintained DEF KeepsMaintained
    <3> QED BY <2>2, <3>1, <3>2
  <2> QED BY <1>3, <2>3, <2>4 DEF KeepsFlow
<1> QED BY <1>2, <1>3

\* A claimed path that is shared holds what maintenance installs.
LEMMA ClaimsAreInPlace ==
  ASSUME Typed, NEW s \in Sources, NEW f, KeepsFlow(f, s), NEW p \in Claims(s)
  PROVE  /\ p \in DOMAIN Record(s, owned[s])
         /\ p \in DOMAIN Maintained => p \in Shared /\ f[p] = Maintained[p]
<1>1. interrupted[s] \in Inputs \cup {None} /\ owned[s] \in Inputs \cup {None}
  BY DEF Typed, TypeOK
<1>2. p \in DOMAIN Record(s, owned[s])
  BY DEF Claims
<1>3. owned[s] \in Inputs /\ Record(s, owned[s]) = Files[s][owned[s]]
  BY <1>1, <1>2, NobodyRecordsNothing DEF Record
<1>4. ASSUME p \in DOMAIN Maintained PROVE p \in Shared /\ f[p] = Maintained[p]
  <2>1. p \in Shared /\ Record(s, owned[s])[p] = Maintained[p]
    BY <1>2, <1>3, <1>4, SharedBytesAgree
  <2>2. CASE interrupted[s] = None
    BY <1>2, <2>1, <2>2 DEF KeepsFlow
  <2>3. CASE interrupted[s] # None
    <3> DEFINE j == Retry(s)
    <3>1. /\ Writes(j) = Files[s][interrupted[s]] /\ interrupted[s] \in Inputs
          /\ Record(s, interrupted[s]) = Writes(j)
          /\ Record(j.source, j.prior) = Record(s, owned[s])
      BY <1>1, <2>3 DEF Retry, Writes, Record
    <3>2. p \in DOMAIN Writes(j)
      BY <2>3, <3>1 DEF Claims
    <3>3. Writes(j)[p] = Maintained[p] /\ Previous(j, p) = Maintained[p]
      BY <1>2, <1>4, <2>1, <3>1, <3>2, SharedBytesAgree DEF Previous
    <3>4. Authorized(j, p, f[p])
      BY <2>3, <3>2 DEF KeepsFlow
    <3> QED BY <2>1, <3>3, <3>4 DEF Authorized
  <2> QED BY <2>2, <2>3
<1> QED BY <1>2, <1>4

\* A file is as the job of the compiler in the commit found it or as it makes it.
IsOfJob(j, f, g) ==
  \A p \in Paths :
    \/ g[p] = f[p]
    \/ p \in DOMAIN Writes(j) /\ g[p] = Writes(j)[p]
    \/ p \in Removals(j) /\ g[p] = Absent

\* A job keeps what is promised to the others.
LEMMA OthersAreKept ==
  ASSUME Typed, FlowsAreApart, NEW j \in Begun, NEW f, NEW g, IsOfJob(j, f, g),
         KeepsMaintained(f), \A t \in Sources : KeepsFlow(f, t)
  PROVE  /\ KeepsMaintained(g)
         /\ \A t \in Sources \ {j.source} : KeepsFlow(g, t)
         /\ IsInPlace(f) => IsInPlace(g)
<1>1. j.source \in Sources /\ j.inputs \in Inputs /\ j.prior \in Inputs \cup {None}
      /\ Writes(j) = Files[j.source][j.inputs]
  BY DEF Begun, Writes
<1>2. ASSUME NEW p \in DOMAIN Maintained, p \in DOMAIN Writes(j)
      PROVE  p \in Shared /\ Writes(j)[p] = Maintained[p]
  BY <1>1, <1>2, SharedBytesAgree
<1>3. ASSUME NEW p \in Removals(j)
      PROVE  /\ \E i \in Inputs : p \in DOMAIN Files[j.source][i]
             /\ p \in Shared => ~Referenced(p, j.source)
             /\ p \in DOMAIN Maintained => p \in Shared
  <2>1. p \in DOMAIN Record(j.source, j.prior)
    BY <1>3 DEF Removals, Obsolete
  <2>2. j.prior \in Inputs /\ Record(j.source, j.prior) = Files[j.source][j.prior]
    BY <1>1, <2>1, NobodyRecordsNothing DEF Record
  <2>3. p \in Shared => ~Referenced(p, j.source)
    BY <1>3 DEF Removals
  <2>4. p \in DOMAIN Maintained => p \in Shared
    BY <1>1, <2>1, <2>2, SharedBytesAgree
  <2> QED BY <2>1, <2>2, <2>3, <2>4
<1>4. KeepsMaintained(g)
  <2> SUFFICES ASSUME NEW p \in DOMAIN Maintained PROVE g[p] \in {Absent, Maintained[p]}
    BY DEF KeepsMaintained
  <2>1. p \in Paths /\ f[p] \in {Absent, Maintained[p]}
    BY SharedIsMaintained DEF KeepsMaintained
  <2> QED BY <1>2, <2>1 DEF IsOfJob
<1>5. ASSUME NEW t \in Sources \ {j.source} PROVE KeepsFlow(g, t)
  <2>1. KeepsFlow(f, t)
    OBVIOUS
  <2>2. ASSUME NEW p \in Claims(t) PROVE g[p] = f[p]
    <3>1. p \in DOMAIN Record(t, owned[t])
      BY <2>1, ClaimsAreInPlace
    <3>2. owned[t] \in Inputs /\ Record(t, owned[t]) = Files[t][owned[t]]
      BY <3>1, NobodyRecordsNothing DEF Record, Typed, TypeOK
    <3>3. p \in Paths
      BY <3>1, <3>2, FilesAreTyped
    <3>4. CASE p \in Removals(j)
      <4>1. PICK i \in Inputs : p \in DOMAIN Files[j.source][i]
        BY <1>3, <3>4
      <4>2. p \in Shared
        BY <1>1, <3>1, <3>2, <4>1 DEF FlowsAreApart
      <4>3. Referenced(p, j.source)
        BY <3>1 DEF Referenced
      <4> QED BY <1>3, <3>4, <4>2, <4>3
    <3>5. CASE p \in DOMAIN Writes(j)
      <4>1. p \in Shared
        BY <1>1, <3>1, <3>2, <3>5 DEF FlowsAreApart
      <4>2. Writes(j)[p] = Maintained[p] /\ f[p] = Maintained[p]
        <5>1. p \in DOMAIN Maintained
          BY <4>1, SharedIsMaintained
        <5> QED BY <1>2, <2>1, <3>5, <5>1, ClaimsAreInPlace
      <4>3. p \notin Removals(j)
        BY <3>5 DEF Removals, Obsolete
      <4> QED BY <3>3, <4>2, <4>3 DEF IsOfJob
    <3> QED BY <3>3, <3>4, <3>5 DEF IsOfJob
  <2>3. ASSUME NEW i \in Inputs, NEW p \in DOMAIN Files[t][i] \ Shared PROVE g[p] = f[p]
    <3>1. p \in Paths
      BY FilesAreTyped
    <3>2. \A k \in Inputs : p \notin DOMAIN Files[j.source][k]
      BY <1>1 DEF FlowsAreApart
    <3>3. p \notin DOMAIN Writes(j) /\ p \notin Removals(j)
      BY <1>1, <1>3, <3>2
    <3> QED BY <3>1, <3>3 DEF IsOfJob
  <2> QED BY <1>4, <2>1, <2>2, <2>3, FlowIsKept
<1>6. ASSUME IsInPlace(f) PROVE IsInPlace(g)
  <2> SUFFICES ASSUME NEW p \in Desired(manifest) PROVE g[p] = Maintained[p]
    BY DEF IsInPlace
  <2>1. p \in DOMAIN Maintained /\ HostOf[p] \in manifest /\ f[p] = Maintained[p]
    BY <1>6 DEF IsInPlace, Desired
  <2>2. p \in Paths
    BY <2>1, SharedIsMaintained
  <2>3. p \notin Removals(j)
    BY <1>3, <2>1 DEF Referenced
  <2> QED BY <1>2, <2>1, <2>2, <2>3 DEF IsOfJob
<1> QED BY <1>4, <1>5, <1>6

\* What a compilation was to write it may write again, and what it was to remove is as
\* it was or gone.
LEMMA JobIsKept ==
  ASSUME NEW j \in Begun, NEW f, NEW g, IsOfJob(j, f, g),
         \A p \in DOMAIN Writes(j) : Authorized(j, p, f[p]),
         \A p \in Removals(j) : f[p] \in {Absent, Previous(j, p)},
         KeepsMaintained(g)
  PROVE  /\ \A p \in DOMAIN Writes(j) : Authorized(j, p, g[p])
         /\ \A p \in Obsolete(j) : g[p] \in {Absent, Previous(j, p)}
<1>1. /\ DOMAIN Writes(j) \subseteq Paths /\ Obsolete(j) \subseteq Paths
      /\ \A p \in Obsolete(j) : p \notin DOMAIN Writes(j)
      /\ Removals(j) \subseteq Obsolete(j)
  BY JobsAreTyped
<1>2. ASSUME NEW p \in DOMAIN Writes(j) PROVE Authorized(j, p, g[p])
  BY <1>1, <1>2 DEF IsOfJob, Authorized
<1>3. ASSUME NEW p \in Obsolete(j) PROVE g[p] \in {Absent, Previous(j, p)}
  <2>1. CASE p \in Removals(j)
    BY <1>1, <1>3, <2>1 DEF IsOfJob
  <2>2. CASE p \notin Removals(j)
    <3>1. p \in Shared
      BY <1>3, <2>2 DEF Removals
    <3>2. g[p] \in {Absent, Maintained[p]}
      BY <3>1, SharedIsMaintained DEF KeepsMaintained
    <3>3. p \in DOMAIN Record(j.source, j.prior)
      BY DEF Obsolete
    <3>4. j.prior \in Inputs /\ j.source \in Sources
          /\ Record(j.source, j.prior) = Files[j.source][j.prior]
      BY <3>3, NobodyRecordsNothing DEF Record, Begun
    <3>5. Previous(j, p) = Maintained[p]
      BY <3>1, <3>3, <3>4, SharedBytesAgree, SharedIsMaintained DEF Previous
    <3> QED BY <3>2, <3>5
  <2> QED BY <2>1, <2>2
<1> QED BY <1>2, <1>3
-----------------------------------------------------------------------------
(* A step of a compiler keeps the peace. *)

Holdings == <<owned, interrupted, manifest, mpc, journal>>

LEMMA PeacefulStays ==
  ASSUME NEW f, Peaceful(f), UNCHANGED Holdings
  PROVE  Peaceful(f)'
<1>1. UNCHANGED <<owned, interrupted, manifest, mpc, journal>>
  BY DEF Holdings
<1>2. \A s \in Sources : KeepsFlow(f, s)'
  BY <1>1 DEF Peaceful, KeepsFlow, Retry, Writes, Record, Authorized, Previous, Obsolete
<1>3. KeepsMaintained(f)'
  BY DEF Peaceful, KeepsMaintained
<1>4. (mpc = "idle" /\ journal = None => IsInPlace(f))'
  BY <1>1 DEF Peaceful, IsInPlace, Desired
<1> QED BY <1>2, <1>3, <1>4 DEF Peaceful

\* What is pending stays as it is while no file changes.
LEMMA PendingStays ==
  ASSUME Peace, UNCHANGED <<file, hosts, manifest, owned, interrupted, effect>>
  PROVE  (journal # None => IsSound(journal))' /\ Progress'
<1>1. UNCHANGED <<mpc, plan, applied, replaying, journal>>
  BY DEF effect
<1>2. \A s : Claims(s)' = Claims(s)
  BY DEF Claims, Record
<1>3. \A p : Current(p)' = Current(p)
  BY DEF Current
<1>4. \A J : Harmless(J)' = Harmless(J)
  BY <1>2 DEF Harmless
<1>5. ASSUME NEW n, NEW path, NEW content, NEW H
      PROVE  Leads(n, path, content, H)' = Leads(n, path, content, H)
  BY DEF Leads, Desired
<1>6. ASSUME journal # None PROVE IsSound(journal)'
  <2>1. IsSound(journal)
    BY <1>6 DEF Peace
  <2>2. Harmless(journal)'
    BY <1>1, <1>2, <2>1 DEF IsSound, Harmless
  <2>3. (\A i, k \in 1..Len(journal) : journal[i].path = journal[k].path => i = k)'
    BY <1>1, <2>1 DEF IsSound
  <2>4. PICK H \in SUBSET Hosts : Leads(Len(journal), PathsOf(journal), TargetsOf(journal), H)
    BY <2>1 DEF IsSound
  <2>5. Leads(Len(journal), PathsOf(journal), TargetsOf(journal), H)'
    BY <1>1, <2>4 DEF Leads, Desired, PathsOf, TargetsOf
  <2>6. PICK G \in SUBSET Hosts : Leads(Len(journal), PathsOf(journal), PriorsOf(journal), G)
    BY <2>1 DEF IsSound
  <2>7. Leads(Len(journal), PathsOf(journal), PriorsOf(journal), G)'
    BY <1>1, <2>6 DEF Leads, Desired, PathsOf, PriorsOf
  <2> QED BY <2>2, <2>3, <2>5, <2>7 DEF IsSound
<1>7. Progress'
  <2>1. Harmless(plan)' = Harmless(plan)
    BY <1>1, <1>2 DEF Harmless
  <2> QED BY <1>1, <1>3, <2>1 DEF Peace, Progress
<1> QED BY <1>1, <1>6, <1>7

\* The files under a compiler in its commit.
LEMMA HeldFiles ==
  ASSUME Typed, FlowsAreApart, NEW c \in Compilers, lock = c, HolderInv(c), Commits(c),
         edited = {}
  PROVE  /\ KeepsMaintained(file)
         /\ \A t \in Sources \ {job[c].source} : KeepsFlow(file, t)
         /\ mpc = "idle" /\ journal = None => IsInPlace(file)
         /\ \A p \in DOMAIN Writes(job[c]) : Authorized(job[c], p, file[p])
         /\ \A p \in Obsolete(job[c]) : file[p] \in {Absent, Previous(job[c], p)}
<1>1. job[c] \in Begun
  BY HolderIsTyped
<1>2. Peaceful(snapshot) /\ retired = Removals(job[c])
  BY DEF Commits
<1>3. IsOfJob(job[c], snapshot, file)
  <2> SUFFICES ASSUME NEW p \in Paths, file[p] # snapshot[p]
               PROVE  \/ p \in DOMAIN Writes(job[c]) /\ file[p] = Writes(job[c])[p]
                      \/ p \in Removals(job[c]) /\ file[p] = Absent
    BY DEF IsOfJob
  <2>1. /\ file[p] = Committed(job[c], p)
        /\ p \in ToSet(IF pc[c] = "undo" THEN todo ELSE changed)
    BY DEF HolderInv, Traced
  <2>2. p \in DOMAIN Writes(job[c]) \cup retired
    BY <2>1 DEF Commits
  <2>3. \A q \in Removals(job[c]) : q \notin DOMAIN Writes(job[c])
    BY <1>1, JobsAreTyped
  <2> QED BY <1>2, <2>1, <2>2, <2>3 DEF Committed
<1>4. /\ KeepsMaintained(snapshot) /\ \A t \in Sources : KeepsFlow(snapshot, t)
      /\ mpc = "idle" /\ journal = None => IsInPlace(snapshot)
  BY <1>2 DEF Peaceful
<1>5. /\ KeepsMaintained(file)
      /\ \A t \in Sources \ {job[c].source} : KeepsFlow(file, t)
      /\ IsInPlace(snapshot) => IsInPlace(file)
  BY <1>1, <1>3, <1>4, OthersAreKept
<1>6. /\ \A p \in DOMAIN Writes(job[c]) : Authorized(job[c], p, file[p])
      /\ \A p \in Obsolete(job[c]) : file[p] \in {Absent, Previous(job[c], p)}
  <2>1. /\ \A p \in DOMAIN Writes(job[c]) : Authorized(job[c], p, snapshot[p])
        /\ \A p \in Removals(job[c]) : snapshot[p] \in {Absent, Previous(job[c], p)}
    BY <1>2 DEF Commits
  <2> QED BY <1>1, <1>3, <1>5, <2>1, JobIsKept
<1> QED BY <1>4, <1>5, <1>6

\* A compiler that goes on, or begins to roll back.
LEMMA HolderGoesOn ==
  ASSUME Typed, NEW c \in Compilers, Commits(c),
         UNCHANGED Holdings, job'[c] = job[c], UNCHANGED <<retired, snapshot>>,
         ToSet(changed') \subseteq ToSet(changed) \cup DOMAIN Writes(job[c]) \cup retired,
         pc'[c] = "undo" =>
           ToSet(todo') \subseteq ToSet(changed) \/ (pc[c] = "undo" /\ ToSet(todo') \subseteq ToSet(todo))
  PROVE  Commits(c)'
<1>1. UNCHANGED <<owned, interrupted, manifest, mpc, journal>>
  BY DEF Holdings
<1>2. PICK f : f = snapshot
  OBVIOUS
<1>3. Peaceful(f)'
  BY <1>2, PeacefulStays DEF Commits
<1>4. Peaceful(snapshot)'
  BY <1>2, <1>3 DEF Peaceful, KeepsMaintained, KeepsFlow, IsInPlace
<1>5. PICK j : j = job[c]
  OBVIOUS
<1>6. Removals(j)' = Removals(j)
  BY <1>1 DEF Removals, Obsolete, Referenced, Record, Writes
<1>7. /\ DOMAIN Writes(j)' = DOMAIN Writes(j) /\ \A p : Previous(j, p)' = Previous(j, p)
      /\ \A p, b : Authorized(j, p, b)' = Authorized(j, p, b)
  BY DEF Writes, Previous, Authorized, Record
<1>8. /\ owned'[j.source] = j.prior /\ retired' = Removals(j)'
      /\ \A p \in DOMAIN Writes(j) : Authorized(j, p, snapshot'[p])
      /\ \A p \in retired' : snapshot'[p] \in {Absent, Previous(j, p)}
      /\ ToSet(changed') \subseteq DOMAIN Writes(j) \cup retired'
      /\ pc'[c] = "undo" => ToSet(todo') \subseteq DOMAIN Writes(j) \cup retired'
  BY <1>1, <1>5, <1>6 DEF Commits
<1>9. job'[c] = j
  BY <1>5
<1> QED BY <1>4, <1>7, <1>8, <1>9 DEF Commits, Removals, Obsolete, Referenced, Record, Writes,
        Previous, Authorized
\* A step beside the holder of the lock that changes no file and no record.
LEMMA StandingByKeepsPeace ==
  ASSUME Careful, Peace,
         UNCHANGED <<file, hosts, manifest, owned, interrupted, effect, lock, memory, edited>>,
         \A c \in Compilers : lock = c => pc'[c] = pc[c] /\ job'[c] = job[c]
  PROVE  Peace'
<1>1. UNCHANGED <<file, owned, interrupted, manifest, mpc, journal, lock, edited,
                  todo, retired, changed, snapshot>>
  BY DEF effect, memory
<1>2. UNCHANGED Holdings
  BY <1>1 DEF Holdings
<1>3. (journal # None => IsSound(journal))' /\ Progress'
  BY PendingStays
<1>4. ASSUME lock' \notin Compilers PROVE Peaceful(file)'
  <2>1. PICK f : f = file
    OBVIOUS
  <2>2. Peaceful(f)
    BY <1>1, <1>4, <2>1 DEF Peace
  <2>3. Peaceful(f)'
    BY <1>2, <2>2, PeacefulStays
  <2>4. file' = f
    BY <1>1, <2>1
  <2> QED BY <2>3, <2>4 DEF Peaceful, KeepsMaintained, KeepsFlow, IsInPlace
<1>5. ASSUME NEW c \in Compilers, lock' = c PROVE Commits(c)'
  <2>1. lock = c /\ Commits(c) /\ pc'[c] = pc[c] /\ job'[c] = job[c]
    BY <1>1, <1>5 DEF Peace
  <2> QED BY <1>1, <1>2, <2>1, HolderGoesOn DEF Careful
<1> QED BY <1>1, <1>3, <1>4, <1>5 DEF Peace

LEMMA AcquiringKeepsPeace ==
  ASSUME Careful, Peace, NEW c \in Compilers, Acquire(c), UNCHANGED effect, journal = None
  PROVE  Peace'
<1>1. /\ lock = Free /\ lock' = c /\ pc'[c] = "writes" /\ job'[c] = job[c]
      /\ retired' = Removals(job[c]) /\ snapshot' = file /\ changed' = <<>>
      /\ UNCHANGED <<file, owned, manifest, interrupted, edited>> /\ Admissible(job[c])
  BY DEF Acquire, world, history, Careful, Typed, TypeOK
<1>2. UNCHANGED <<mpc, journal>> /\ mpc = "idle"
  BY <1>1, NamesAreDistinct DEF effect, Careful, Leased
<1>3. UNCHANGED Holdings
  BY <1>1, <1>2 DEF Holdings
<1>4. PICK f : f = file
  OBVIOUS
<1>5. Peaceful(f)
  BY <1>1, <1>4, NamesAreDistinct DEF Peace
<1>6. Peaceful(f)'
  BY <1>3, <1>5, PeacefulStays
<1>7. Peaceful(snapshot)'
  BY <1>1, <1>4, <1>6 DEF Peaceful, KeepsMaintained, KeepsFlow, IsInPlace
<1>8. PICK j : j = job[c]
  OBVIOUS
<1>9. /\ owned[j.source] = j.prior
      /\ \A p \in DOMAIN Writes(j) : Authorized(j, p, f[p])
      /\ \A p \in Removals(j) : f[p] \in {Absent, Previous(j, p)}
  BY <1>1, <1>4, <1>8 DEF Admissible, WritesAreAuthorized, RemovalsAreCurrent
<1>10. Removals(j)' = Removals(j)
  BY <1>1 DEF Removals, Obsolete, Referenced, Record, Writes
<1>11. ToSet(<<>>) = {}
  BY EmptySeq DEF ToSet
<1>12. Commits(c)'
  <2>1. /\ job'[c] = j /\ owned'[j.source] = j.prior /\ retired' = Removals(j)'
        /\ \A p \in DOMAIN Writes(j) : Authorized(j, p, snapshot'[p])
        /\ \A p \in retired' : snapshot'[p] \in {Absent, Previous(j, p)}
        /\ ToSet(changed') = {} /\ pc'[c] # "undo"
    BY <1>1, <1>4, <1>8, <1>9, <1>10, <1>11
  <2> QED BY <1>7, <2>1 DEF Commits, Removals, Obsolete, Referenced, Record, Writes,
          Previous, Authorized
<1>13. Progress'
  BY <1>2 DEF Progress
<1> QED BY <1>1, <1>2, <1>12, <1>13 DEF Peace

\* A step of the holder that does not end its commit.
LEMMA CommittingKeepsPeace ==
  ASSUME Careful, Peace, NEW c \in Compilers, lock = c, lock' = c, Commit(c) \/ Fail(c),
         UNCHANGED effect
  PROVE  Peace'
<1>1. UNCHANGED <<mpc, journal>> /\ mpc = "idle" /\ journal = None
  BY DEF effect, Careful, Leased
<1>2. Typed /\ HolderInv(c) /\ Commits(c) /\ edited = {}
  BY DEF Careful, CommitInv, Peace
<1>3. pc[c] \in Committing /\ pc \in [Compilers -> {"idle", "frontend", "ready"} \cup Committing]
      /\ lock # Free /\ todo \in Seq(Paths) /\ changed \in Seq(Paths)
  BY <1>2, HolderIsTyped DEF Typed, TypeOK
<1>4. UNCHANGED <<manifest, owned, interrupted, edited, job, retired, snapshot>>
  BY <1>3 DEF Commit, Fail, Read, Write, EndWrites, Retire, EndRemovals, Verify, EndPublication,
     ReplaceRecord, Undo, EndUndo, Release, world, memory, history
<1> DEFINE Grows == /\ ToSet(changed') \subseteq ToSet(changed) \cup DOMAIN Writes(job[c]) \cup retired
                    /\ pc'[c] = "undo" =>
                         \/ ToSet(todo') \subseteq ToSet(changed)
                         \/ pc[c] = "undo" /\ ToSet(todo') \subseteq ToSet(todo)
<1>5. ASSUME Abandon(c), changed' = changed PROVE Grows
  BY <1>2, <1>3, <1>5, AbandonIsTyped
<1>6. ASSUME NEW p \in Paths, changed' = Append(changed, p), p \in DOMAIN Writes(job[c]) \cup retired,
             pc' = pc, pc[c] # "undo"
      PROVE  Grows
  <2>1. ToSet(changed') = ToSet(changed) \cup {p}
    BY <1>3, <1>6, ElementsOfAppend
  <2> QED BY <1>6, <2>1
<1>7. ASSUME changed' = changed, pc'[c] # "undo" PROVE Grows
  BY <1>7
<1>8. ASSUME Read(c) PROVE Grows
  BY <1>8 DEF Read
<1>9. ASSUME Write(c) PROVE Grows
  <2>1. todo # <<>> /\ pc[c] \in {"writes", "publish"}
    BY <1>9 DEF Write
  <2>2. Head(todo) \in ToSet(todo) /\ Head(todo) \in Paths
    BY <1>3, <2>1, ElementsOfTail
  <2>3. Head(todo) \in DOMAIN Writes(job[c])
    <3>1. CASE pc[c] = "writes"
      BY <1>2, <2>2, <3>1 DEF HolderInv, OnCourse, Outputs
    <3>2. CASE pc[c] = "publish"
      <4>1. todo = <<Artifact(job[c])>>
        BY <1>2, <2>1, <3>2 DEF HolderInv, OnCourse
      <4>2. job[c] \in Begun
        BY <1>2, HolderIsTyped
      <4> QED BY <4>1, <4>2, JobsAreTyped
    <3> QED BY <2>1, <3>1, <3>2
  <2>4. \/ Abandon(c) /\ changed' = changed
        \/ changed' = changed /\ pc' = pc
        \/ changed' = Append(changed, Head(todo)) /\ pc' = pc
    BY <1>9 DEF Write, Change
  <2> HIDE DEF Grows
  <2> QED BY <1>5, <1>6, <1>7, <2>1, <2>2, <2>3, <2>4
<1>10. ASSUME Retire(c) PROVE Grows
  <2>1. todo # <<>> /\ pc[c] = "removals"
    BY <1>10 DEF Retire, Holds
  <2>2. Head(todo) \in ToSet(todo) /\ Head(todo) \in Paths
    BY <1>3, <2>1, ElementsOfTail
  <2>3. Head(todo) \in retired
    BY <1>2, <2>1, <2>2 DEF HolderInv, OnCourse
  <2>4. \/ Abandon(c) /\ changed' = changed
        \/ changed' = changed /\ pc' = pc
        \/ changed' = Append(changed, Head(todo)) /\ pc' = pc
    BY <1>10 DEF Retire, Change
  <2> HIDE DEF Grows
  <2> QED BY <1>5, <1>6, <1>7, <2>1, <2>2, <2>3, <2>4
<1>11. ASSUME EndWrites(c) \/ EndRemovals(c) \/ EndPublication(c) PROVE Grows
  <2>1. changed' = changed /\ pc'[c] # "undo"
    BY <1>3, <1>11 DEF EndWrites, EndRemovals, EndPublication, memory
  <2> HIDE DEF Grows
  <2> QED BY <1>7, <2>1
<1>12. ASSUME Verify(c) PROVE Grows
  <2>1. changed' = changed /\ (Abandon(c) \/ pc'[c] # "undo")
    BY <1>3, <1>12 DEF Verify
  <2> HIDE DEF Grows
  <2> QED BY <1>5, <1>7, <2>1
<1>13. ASSUME ReplaceRecord(c) \/ Fail(c) PROVE Grows
  <2>1. changed' = changed /\ Abandon(c)
    BY <1>3, <1>13 DEF ReplaceRecord, Fail, Release
  <2> HIDE DEF Grows
  <2> QED BY <1>5, <2>1
<1>14. ASSUME Undo(c) PROVE Grows
  <2>1. changed' = changed /\ pc[c] = "undo" /\ todo # <<>> /\ todo' = Tail(todo)
    BY <1>14 DEF Undo, Holds, Passed
  <2>2. ToSet(Tail(todo)) \subseteq ToSet(todo)
    BY <1>3, <2>1, ElementsOfTail
  <2> QED BY <2>1, <2>2
<1>15. ASSUME EndUndo(c) PROVE Grows
  BY <1>3, <1>15 DEF EndUndo, Release
<1>16. Grows
  <2> HIDE DEF Grows
  <2> QED BY <1>8, <1>9, <1>10, <1>11, <1>12, <1>13, <1>14, <1>15 DEF Commit
<1>17. UNCHANGED Holdings
  BY <1>1, <1>4 DEF Holdings
<1>18. Commits(c)'
  BY <1>2, <1>4, <1>16, <1>17, HolderGoesOn
<1>19. Progress'
  BY <1>1 DEF Progress
<1> QED BY <1>1, <1>2, <1>4, <1>18, <1>19 DEF Peace
\* What was promised to a source under files and records that stay as they are for it.
LEMMA FlowStays ==
  ASSUME NEW s, KeepsFlow(file, s), file' = file,
         owned'[s] = owned[s], interrupted'[s] = interrupted[s]
  PROVE  KeepsFlow(file, s)'
BY DEF KeepsFlow, Retry, Writes, Record, Authorized, Previous, Obsolete

\* The end of a commit, whatever became of it.
LEMMA EndingKeepsPeace ==
  ASSUME Careful, Peace, FlowsAreApart, NEW c \in Compilers, lock = c, lock' # c,
         Commit(c) \/ FailUndo(c) \/ Stop(c), UNCHANGED effect
  PROVE  Peace'
<1>1. UNCHANGED <<mpc, journal>> /\ mpc = "idle" /\ journal = None
  BY DEF effect, Careful, Leased
<1>2. /\ Typed /\ HolderInv(c) /\ Commits(c) /\ edited = {}
      /\ job[c] \in Begun /\ pc[c] \in Committing /\ lock # Free
  BY HolderIsTyped DEF Careful, CommitInv, Peace
<1>3. PICK j \in Begun : j = job[c]
  BY <1>2
<1>4. /\ j.source \in Sources /\ j.inputs \in Inputs /\ j.inputs # None
      /\ j = [source |-> j.source, inputs |-> j.inputs, prior |-> j.prior]
      /\ owned[j.source] = j.prior
  BY <1>2, <1>3, NamesAreDistinct DEF Begun, Commits
<1>5. /\ owned \in [Sources -> Inputs \cup {None}] /\ interrupted \in [Sources -> Inputs \cup {None}]
      /\ file \in [Paths -> Bytes] /\ snapshot \in [Paths -> Bytes]
  BY <1>2 DEF Typed, TypeOK
<1>6. /\ lock' = Free /\ edited' = {} /\ UNCHANGED <<file, manifest>>
      /\ \/ /\ pc[c] = "record"
            /\ owned' = [owned EXCEPT ![j.source] = j.inputs]
            /\ interrupted' = [interrupted EXCEPT ![j.source] = None]
         \/ pc[c] = "undo" /\ todo = <<>> /\ UNCHANGED <<owned, interrupted>>
         \/ owned' = owned /\ interrupted' = [interrupted EXCEPT ![j.source] = j.inputs]
  <2>1. CASE ReplaceRecord(c)
    BY <1>2, <1>3, <2>1 DEF ReplaceRecord, Holds, Release
  <2>2. CASE EndUndo(c)
    BY <2>2 DEF EndUndo, Holds, Release, world
  <2>3. CASE FailUndo(c)
    BY <1>3, <2>3 DEF FailUndo, Release, Interrupt, world
  <2>4. CASE Stop(c)
    BY <1>3, <2>4 DEF Stop, Release, Interrupt, world
  <2>5. CASE Commit(c) /\ ~ReplaceRecord(c) /\ ~EndUndo(c)
    BY <2>5 DEF Commit, Read, Write, EndWrites, Retire, EndRemovals, Verify, EndPublication, Undo
  <2> QED BY <2>1, <2>2, <2>3, <2>4, <2>5
<1>7. /\ KeepsMaintained(file)
      /\ \A t \in Sources \ {j.source} : KeepsFlow(file, t)
      /\ IsInPlace(file)
      /\ \A p \in DOMAIN Writes(j) : Authorized(j, p, file[p])
      /\ \A p \in Obsolete(j) : file[p] \in {Absent, Previous(j, p)}
  BY <1>1, <1>2, <1>3, HeldFiles
<1>8. ASSUME NEW t \in Sources \ {j.source} PROVE KeepsFlow(file, t)'
  <2>1. owned'[t] = owned[t] /\ interrupted'[t] = interrupted[t]
    BY <1>4, <1>5, <1>6
  <2> QED BY <1>6, <1>7, <2>1, FlowStays
<1>9. KeepsMaintained(file)' /\ IsInPlace(file)'
  BY <1>6, <1>7 DEF KeepsMaintained, IsInPlace, Desired
<1>10. KeepsFlow(file, j.source)'
  <2>1. CASE /\ pc[c] = "record"
             /\ owned' = [owned EXCEPT ![j.source] = j.inputs]
             /\ interrupted' = [interrupted EXCEPT ![j.source] = None]
    <3>1. owned'[j.source] = j.inputs /\ interrupted'[j.source] = None
      BY <1>4, <1>5, <2>1
    <3>2. \A p \in DOMAIN Writes(j) : file[p] = Writes(j)[p]
      BY <1>2, <1>3, <2>1 DEF HolderInv, Settling, Outputs
    <3>3. \A p \in DOMAIN Files[j.source][j.inputs] : file[p] = Files[j.source][j.inputs][p]
      BY <3>2 DEF Writes
    <3> QED BY <1>4, <1>6, <3>1, <3>3 DEF KeepsFlow, Record
  <2>2. CASE pc[c] = "undo" /\ todo = <<>> /\ UNCHANGED <<owned, interrupted>>
    <3>1. ToSet(todo) = {}
      BY <2>2, EmptySeq DEF ToSet
    <3>2. \A p \in Paths : file[p] = snapshot[p]
      BY <1>2, <2>2, <3>1 DEF HolderInv, Traced
    <3>3. file = snapshot
      BY <1>5, <3>2
    <3>4. KeepsFlow(file, j.source)
      BY <1>2, <1>4, <3>3 DEF Commits, Peaceful
    <3> QED BY <1>6, <2>2, <3>4, FlowStays
  <2>3. CASE owned' = owned /\ interrupted' = [interrupted EXCEPT ![j.source] = j.inputs]
    <3>1. interrupted'[j.source] = j.inputs /\ owned'[j.source] = j.prior
      BY <1>4, <1>5, <2>3
    <3>2. Retry(j.source)' = j
      BY <1>4, <3>1 DEF Retry
    <3>3. /\ \A p \in DOMAIN Writes(j)' : Authorized(j, p, file[p])'
          /\ \A p \in Obsolete(j)' : file'[p] \in {Absent, Previous(j, p)'}
      BY <1>6, <1>7 DEF Writes, Authorized, Previous, Obsolete, Record
    <3> QED BY <1>4, <3>1, <3>2, <3>3 DEF KeepsFlow, Writes, Authorized, Previous, Obsolete, Record
  <2> QED BY <1>6, <2>1, <2>2, <2>3
<1>11. Peaceful(file)'
  BY <1>8, <1>9, <1>10 DEF Peaceful
<1>12. Progress'
  BY <1>1 DEF Progress
<1> QED BY <1>1, <1>6, <1>11, <1>12, NamesAreDistinct DEF Peace

LEMMA CompilerKeepsPeace ==
  ASSUME Careful, Peace, FlowsAreApart, CompilerStep(Next), ~loose', edits \in Nat, edits' = edits
  PROVE  Peace'
<1>1. Next /\ UNCHANGED effect /\ ~(lock' \in Compilers /\ lock = Free /\ journal # None)
  BY DEF CompilerStep
<1>2. ASSUME NEW c \in Compilers,
             (\E s \in Sources : Load(c, s)) \/ Plan(c) \/ Busy(c) \/ Refuse(c)
      PROVE  Peace'
  <2>1. /\ UNCHANGED <<world, lock, memory, history, bounds>>
        /\ lock # c /\ \A d \in Compilers \ {c} : pc'[d] = pc[d] /\ job'[d] = job[d]
    BY <1>2, PlanningIsTyped DEF Careful
  <2>2. UNCHANGED <<file, hosts, manifest, owned, interrupted, edited>>
    BY <2>1 DEF world, history
  <2> QED BY <1>1, <2>1, <2>2, StandingByKeepsPeace
<1>3. ASSUME NEW c \in Compilers, Acquire(c) PROVE Peace'
  <2>1. journal = None
    BY <1>1, <1>3 DEF Acquire
  <2> QED BY <1>1, <1>3, <2>1, AcquiringKeepsPeace
<1>4. ASSUME NEW c \in Compilers, Commit(c) \/ Fail(c) \/ FailUndo(c) \/ (Stop(c) /\ lock = c)
      PROVE  Peace'
  <2>1. lock = c
    BY <1>4 DEF Commit, Read, Write, EndWrites, Retire, EndRemovals, Verify, EndPublication,
                ReplaceRecord, Undo, EndUndo, Fail, FailUndo, Holds
  <2>2. lock' = c => Commit(c) \/ Fail(c)
    BY <1>4, NamesAreDistinct DEF FailUndo, Stop, Release
  <2>3. lock' # c => Commit(c) \/ FailUndo(c) \/ Stop(c)
    BY <1>4, <2>1 DEF Fail
  <2> QED BY <1>1, <2>1, <2>2, <2>3, CommittingKeepsPeace, EndingKeepsPeace
<1>5. ASSUME NEW c \in Compilers, Stop(c), lock # c PROVE Peace'
  <2>1. /\ Return(c) /\ UNCHANGED <<file, hosts, manifest, owned, lock, memory, interrupted, edited>>
    BY <1>5 DEF Stop, world, history
  <2>2. \A d \in Compilers \ {c} : pc'[d] = pc[d] /\ job'[d] = job[d]
    BY <2>1 DEF Return, Careful, Typed, TypeOK
  <2> QED BY <1>1, <1>5, <2>1, <2>2, StandingByKeepsPeace
<1>6. ASSUME NEW s \in Sources, NEW v \in Versions, ChangeSource(s, v) PROVE Peace'
  <2>1. UNCHANGED <<file, hosts, manifest, owned, lock, memory, interrupted, edited, pc, job>>
    BY <1>6 DEF ChangeSource
  <2> QED BY <1>1, <2>1, StandingByKeepsPeace
<1>7. ~\E p \in Paths : \E content \in Known[p] \cup {Absent, Foreign} : Edit(p, content)
  BY DEF Edit
<1> QED BY <1>1, <1>2, <1>3, <1>4, <1>5, <1>6, <1>7 DEF Next, Compile, Disturb
-----------------------------------------------------------------------------
(* A step of the maintainer keeps the peace. *)

\* What a mutation is of.
LEMMA MutationsHavePaths ==
  ASSUME NEW m \in PlannedMutations
  PROVE  /\ m.path \in Paths \cup {ProjectJson, ManifestJson}
         /\ m.path \in Paths => m.path # ProjectJson /\ m.path # ManifestJson
BY PathsAreApart DEF PlannedMutations, FileMutations, HostMutations

LEMMA CurrentIsOfPath ==
  /\ \A p \in Paths : Current(p) = file[p]
  /\ Current(ProjectJson) = hosts /\ Current(ManifestJson) = manifest
BY PathsAreApart DEF Current

\* One path is written.
LEMMA PuttingIsLocal ==
  ASSUME Typed, NEW p \in Paths \cup {ProjectJson, ManifestJson}, NEW content, Put(p, content)
  PROVE  /\ Current(p)' = content
         /\ \A q \in Paths \cup {ProjectJson, ManifestJson} : q # p => Current(q)' = Current(q)
         /\ \A q \in Paths : q # p => file'[q] = file[q]
         /\ p \in Paths => file'[p] = content
         /\ p # ManifestJson => manifest' = manifest
         /\ owned' = owned
<1>1. file \in [Paths -> Bytes]
  BY DEF Typed, TypeOK
<1>2. /\ hosts' = IF p = ProjectJson THEN content ELSE hosts
      /\ manifest' = IF p = ManifestJson THEN content ELSE manifest
      /\ file' = IF p \in Paths THEN [file EXCEPT ![p] = content] ELSE file
      /\ owned' = owned
  BY DEF Put
<1>3. /\ \A q \in Paths : q # p => file'[q] = file[q]
      /\ p \in Paths => file'[p] = content
  BY <1>1, <1>2
<1>4. ASSUME NEW q \in Paths PROVE Current(q)' = file'[q] /\ Current(q) = file[q]
  BY PathsAreApart DEF Current
<1>5. /\ Current(ProjectJson)' = hosts' /\ Current(ManifestJson)' = manifest'
      /\ Current(ProjectJson) = hosts /\ Current(ManifestJson) = manifest
  BY PathsAreApart DEF Current
<1>6. {ProjectJson, ManifestJson} \cap Paths = {} /\ ProjectJson # ManifestJson
  BY PathsAreApart
<1>7. Current(p)' = content
  <2>1. CASE p \in Paths
    BY <1>3, <1>4, <2>1
  <2>2. CASE p = ProjectJson
    BY <1>2, <1>5, <2>2
  <2>3. CASE p = ManifestJson
    BY <1>2, <1>5, <2>3
  <2> QED BY <2>1, <2>2, <2>3
<1>8. ASSUME NEW q \in Paths \cup {ProjectJson, ManifestJson}, q # p
      PROVE  Current(q)' = Current(q)
  <2>1. CASE q \in Paths
    BY <1>3, <1>4, <1>8, <2>1
  <2>2. CASE q = ProjectJson
    BY <1>2, <1>5, <1>8, <2>2
  <2>3. CASE q = ManifestJson
    BY <1>2, <1>5, <1>8, <2>3
  <2> QED BY <2>1, <2>2, <2>3
<1> QED BY <1>2, <1>3, <1>7, <1>8

\* Maintenance of a path that no Flow claims keeps what is promised to the Flows.
LEMMA FlowsArePutAside ==
  ASSUME Typed, NEW p \in Paths \cup {ProjectJson, ManifestJson}, NEW content, Put(p, content),
         interrupted' = interrupted, KeepsMaintained(file),
         \A s \in Sources : KeepsFlow(file, s),
         p \in Paths =>
           /\ p \in DOMAIN Maintained /\ content \in {Absent, Maintained[p]}
           /\ \A s \in Sources : p \notin Claims(s)
  PROVE  KeepsMaintained(file)' /\ \A s \in Sources : KeepsFlow(file, s)'
<1>1. /\ \A q \in Paths : q # p => file'[q] = file[q]
      /\ p \in Paths => file'[p] = content
      /\ owned' = owned
  BY PuttingIsLocal
<1>2. PICK g : g = file'
  OBVIOUS
<1>3. KeepsMaintained(g)
  BY <1>1, <1>2, SharedIsMaintained DEF KeepsMaintained
<1>4. KeepsMaintained(file)'
  BY <1>2, <1>3 DEF KeepsMaintained
<1>5. ASSUME NEW s \in Sources PROVE KeepsFlow(file, s)'
  <2>1. KeepsFlow(file, s)
    OBVIOUS
  <2>2. ASSUME NEW q \in Claims(s) PROVE g[q] = file[q]
    <3>1. q \in DOMAIN Record(s, owned[s])
      BY <2>1, ClaimsAreInPlace
    <3>2. owned[s] \in Inputs /\ Record(s, owned[s]) = Files[s][owned[s]]
      BY <3>1, NobodyRecordsNothing DEF Record, Typed, TypeOK
    <3>3. q \in Paths
      BY <3>1, <3>2, FilesAreTyped
    <3> QED BY <1>1, <1>2, <3>3
  <2>3. ASSUME NEW i \in Inputs, NEW q \in DOMAIN Files[s][i] \ Shared PROVE g[q] = file[q]
    <3>1. q \in Paths /\ q \notin DOMAIN Maintained
      BY FilesAreTyped, SharedBytesAgree
    <3> QED BY <1>1, <1>2, <3>1
  <2>4. KeepsFlow(g, s)
    BY <1>3, <2>1, <2>2, <2>3, FlowIsKept
  <2> QED BY <1>1, <1>2, <2>4
          DEF KeepsFlow, Retry, Writes, Record, Authorized, Previous, Obsolete
<1> QED BY <1>4, <1>5

\* Steps that write only paths of a plan keep where it leads.
LEMMA LeadsStays ==
  ASSUME NEW n, NEW path, NEW content, NEW H, Leads(n, path, content, H),
         \A q \in Paths : (\A i \in 1..n : path[i] # q) => file'[q] = file[q],
         (\A i \in 1..n : path[i] # ManifestJson) => manifest' = manifest
  PROVE  Leads(n, path, content, H)'
<1>1. Desired(H) \subseteq Paths
  BY SharedIsMaintained DEF Desired
<1>2. /\ \A i \in 1..n : path[i] = ManifestJson => content[i] = H
      /\ (\A i \in 1..n : path[i] # ManifestJson) => manifest' = H
  BY DEF Leads
<1>3. ASSUME NEW p \in Desired(H)
      PROVE  \/ \E i \in 1..n : path[i] = p /\ content[i] = Maintained[p]
             \/ file'[p] = Maintained[p] /\ \A i \in 1..n : path[i] # p
  BY <1>1 DEF Leads
<1>4. Desired(H)' = Desired(H)
  BY DEF Desired
<1> QED BY <1>2, <1>3, <1>4 DEF Leads

\* Where it leads it is in place.
LEMMA LedIsInPlace ==
  ASSUME NEW n, NEW path, NEW content, NEW H, Leads(n, path, content, H),
         \A i \in 1..n : Current(path[i]) = content[i]
  PROVE  IsInPlace(file)
<1>1. manifest = H
  BY CurrentIsOfPath DEF Leads
<1>2. ASSUME NEW p \in Desired(H) PROVE file[p] = Maintained[p]
  <2>1. p \in Paths
    BY SharedIsMaintained DEF Desired
  <2> QED BY <2>1, CurrentIsOfPath DEF Leads
<1> QED BY <1>1, <1>2 DEF IsInPlace

\* A journal is as sound after steps that write only its paths.
LEMMA SoundnessStays ==
  ASSUME NEW J, IsSound(J), UNCHANGED <<owned, interrupted>>,
         \A q \in Paths : (\A i \in 1..Len(J) : J[i].path # q) => file'[q] = file[q],
         (\A i \in 1..Len(J) : J[i].path # ManifestJson) => manifest' = manifest
  PROVE  IsSound(J)'
<1>1. Harmless(J)'
  BY DEF IsSound, Harmless, Claims, Record
<1>2. PICK H \in SUBSET Hosts : Leads(Len(J), PathsOf(J), TargetsOf(J), H)
  BY DEF IsSound
<1>3. PICK G \in SUBSET Hosts : Leads(Len(J), PathsOf(J), PriorsOf(J), G)
  BY DEF IsSound
<1>4. PICK n : n = Len(J)
  OBVIOUS
<1>5. PICK path : path = PathsOf(J)
  OBVIOUS
<1>6. /\ \A q \in Paths : (\A i \in 1..n : path[i] # q) => file'[q] = file[q]
      /\ (\A i \in 1..n : path[i] # ManifestJson) => manifest' = manifest
  BY <1>4, <1>5 DEF PathsOf
<1>7. PICK target : target = TargetsOf(J)
  OBVIOUS
<1>8. PICK prior : prior = PriorsOf(J)
  OBVIOUS
<1>9. Leads(n, path, target, H)' /\ Leads(n, path, prior, G)'
  BY <1>2, <1>3, <1>4, <1>5, <1>6, <1>7, <1>8, LeadsStays
<1>10. Leads(Len(J), PathsOf(J), TargetsOf(J), H)' /\ Leads(Len(J), PathsOf(J), PriorsOf(J), G)'
  BY <1>4, <1>5, <1>7, <1>8, <1>9 DEF PathsOf, TargetsOf, PriorsOf
<1>11. \A i, k \in 1..Len(J) : J[i].path = J[k].path => i = k
  BY DEF IsSound
<1> QED BY <1>1, <1>10, <1>11 DEF IsSound
\* What a configuration changes: the files created and deleted between project.json
\* and the manifest, each once.
LEMMA MutationsAreOfFiles ==
  ASSUME Typed, NEW H \in SUBSET Hosts
  PROVE  LET M == Mutations(H)
             files == Created(H) \cup Deleted(H)
         IN  /\ Len(M) \in Nat
             /\ \A i \in 1..Len(M) : M[i].prior = Current(M[i].path)
             /\ \A i \in 1..Len(M) : M[i].path \in files \cup {ProjectJson, ManifestJson}
             /\ \A i \in 1..Len(M) : M[i].path \in files =>
                  /\ M[i].prior = file[M[i].path]
                  /\ M[i].target =
                       IF M[i].path \in Created(H) THEN Maintained[M[i].path] ELSE Absent
             /\ \A i \in 1..Len(M) : M[i].path = ManifestJson =>
                  M[i].target = H /\ M[i].prior = manifest
             /\ \A p \in files : \E i \in 1..Len(M) : M[i].path = p
             /\ manifest # H => \E i \in 1..Len(M) : M[i].path = ManifestJson
             /\ \A i, k \in 1..Len(M) : M[i].path = M[k].path => i = k
<1> DEFINE set == Created(H) \cup Deleted(H)
           files == InPathOrder(set)
           target(p) == IF p \in Created(H) THEN Maintained[p] ELSE Absent
           mutate(p) == Mutation(p, target(p))
           first == <<Mutation(ProjectJson, H)>>
           middle == [i \in DOMAIN files |-> mutate(files[i])]
           last == IF manifest = H THEN <<>> ELSE <<Mutation(ManifestJson, H)>>
           n == Len(files)
<1>1. set \subseteq Paths
  BY SharedIsMaintained DEF Created, Deleted, Desired
<1>2. /\ ToSet(files) = set /\ n \in Nat /\ DOMAIN files = 1..n
      /\ \A k, l \in DOMAIN files : files[k] = files[l] => k = l
  BY <1>1, OrderedPathsAreTheSet
<1>3. \A k \in 1..n : files[k] \in set
  BY <1>2 DEF ToSet
<1>4. \A p \in set : \E k \in 1..n : files[k] = p
  BY <1>2 DEF ToSet
<1>5. Mutations(H) = first \o middle \o last
  BY DEF Mutations
<1> HIDE DEF files, set, target
<1>6. middle = [i \in 1..n |-> mutate(files[i])]
  BY <1>2
<1> DEFINE any == {mutate(files[i]) : i \in 1..n} \cup {Mutation(ProjectJson, H), Mutation(ManifestJson, H)}
<1>7. /\ first \in Seq(any) /\ last \in Seq(any) /\ Len(first) = 1
      /\ Len(last) = IF manifest = H THEN 0 ELSE 1
      /\ first[1] = Mutation(ProjectJson, H)
      /\ manifest # H => last[1] = Mutation(ManifestJson, H)
  <2>1. first \in Seq(any) /\ Len(first) = 1 /\ first[1] = Mutation(ProjectJson, H)
    OBVIOUS
  <2>2. CASE manifest = H
    BY <2>1, <2>2, EmptySeq
  <2>3. CASE manifest # H
    <3>1. last = <<Mutation(ManifestJson, H)>>
      BY <2>3
    <3> HIDE DEF last
    <3>2. last \in Seq(any) /\ Len(last) = 1 /\ last[1] = Mutation(ManifestJson, H)
      BY <3>1
    <3> QED BY <2>1, <2>3, <3>2
  <2> QED BY <2>2, <2>3
<1>8. middle \in Seq(any) /\ Len(middle) = n /\ \A i \in 1..n : middle[i] = mutate(files[i])
  <2>1. middle \in Seq(any)
    BY <1>2, <1>6, IsASeq
  <2>2. DOMAIN middle = 1..n /\ \A i \in 1..n : middle[i] = mutate(files[i])
    BY <1>6
  <2>3. Len(middle) \in Nat /\ DOMAIN middle = 1..Len(middle)
    BY <2>1, LenProperties
  <2> QED BY <1>2, <2>1, <2>2, <2>3
<1> HIDE DEF any, first, middle, last, mutate
<1> DEFINE M == Mutations(H)
<1>9. /\ first \o middle \in Seq(any) /\ Len(first \o middle) = n + 1
      /\ (first \o middle)[1] = Mutation(ProjectJson, H)
      /\ \A k \in 1..n : (first \o middle)[k + 1] = mutate(files[k])
  <2>1. /\ first \o middle \in Seq(any) /\ Len(first \o middle) = Len(first) + Len(middle)
        /\ \A i \in 1..(Len(first) + Len(middle)) :
             (first \o middle)[i] = IF i <= Len(first) THEN first[i] ELSE middle[i - Len(first)]
    <3>1. first \in Seq(any) /\ middle \in Seq(any)
      BY <1>7, <1>8
    <3> QED BY <3>1, ConcatProperties
  <2>2. (first \o middle)[1] = Mutation(ProjectJson, H)
    BY <1>2, <1>7, <1>8, <2>1
  <2>3. ASSUME NEW k \in 1..n PROVE (first \o middle)[k + 1] = mutate(files[k])
    <3>1. k + 1 \in 1..(1 + n) /\ ~(k + 1 <= 1) /\ (k + 1) - 1 = k
      BY <1>2
    <3>2. (first \o middle)[k + 1] = middle[k]
      BY <1>7, <1>8, <2>1, <3>1
    <3> QED BY <1>8, <3>2
  <2> QED BY <1>2, <1>7, <1>8, <2>1, <2>2, <2>3
<1>10. /\ Len(M) = n + 1 + (IF manifest = H THEN 0 ELSE 1)
       /\ M[1] = Mutation(ProjectJson, H)
       /\ \A k \in 1..n : M[k + 1] = mutate(files[k])
       /\ manifest # H => M[n + 2] = Mutation(ManifestJson, H)
  BY <1>2, <1>5, <1>7, <1>9, ConcatProperties
<1> HIDE DEF M, n
<1>11. n \in Nat
  BY <1>2 DEF n
<1>12. ASSUME NEW i \in 1..Len(M)
       PROVE  \/ i = 1
              \/ \E k \in 1..n : i = k + 1
              \/ i = n + 2 /\ manifest # H
  <2>1. CASE i \in 2..(n + 1)
    <3>1. i - 1 \in 1..n /\ i = (i - 1) + 1
      BY <1>11, <2>1
    <3> QED BY <3>1
  <2>2. CASE i \notin 2..(n + 1)
    BY <1>10, <1>11, <1>12, <2>2
  <2> QED BY <2>1, <2>2
<1>13. /\ M[1].path = ProjectJson
       /\ \A k \in 1..n : /\ M[k + 1].path = files[k] /\ M[k + 1].prior = file[files[k]]
                          /\ M[k + 1].target = target(files[k])
       /\ manifest # H => /\ M[n + 2].path = ManifestJson /\ M[n + 2].target = H
                          /\ M[n + 2].prior = manifest
  <2>1. \A k \in 1..n : Current(files[k]) = file[files[k]]
    BY <1>1, <1>3, CurrentIsOfPath
  <2>2. Current(ManifestJson) = manifest
    BY CurrentIsOfPath
  <2>3. M[1].path = ProjectJson
    BY <1>10 DEF Mutation
  <2>4. ASSUME NEW k \in 1..n
        PROVE  /\ M[k + 1].path = files[k] /\ M[k + 1].prior = file[files[k]]
               /\ M[k + 1].target = target(files[k])
    <3>1. M[k + 1] = [path |-> files[k], prior |-> Current(files[k]), target |-> target(files[k])]
      BY <1>10 DEF Mutation, mutate
    <3> QED BY <2>1, <3>1
  <2>5. manifest # H => /\ M[n + 2].path = ManifestJson /\ M[n + 2].target = H
                        /\ M[n + 2].prior = manifest
    BY <1>10, <2>2 DEF Mutation
  <2> QED BY <2>3, <2>4, <2>5
<1>14. set \cap {ProjectJson, ManifestJson} = {} /\ ProjectJson # ManifestJson
  BY <1>1, PathsAreApart
<1>15. \A i \in 1..Len(M) : M[i].path \in set \cup {ProjectJson, ManifestJson}
  BY <1>3, <1>12, <1>13
<1>16. ASSUME NEW i \in 1..Len(M), M[i].path \in set
       PROVE  M[i].prior = file[M[i].path] /\ M[i].target = target(M[i].path)
  BY <1>12, <1>13, <1>14, <1>16
<1>17. ASSUME NEW i \in 1..Len(M), M[i].path = ManifestJson
       PROVE  i = n + 2 /\ manifest # H /\ M[i].target = H /\ M[i].prior = manifest
  BY <1>3, <1>12, <1>13, <1>14, <1>17
<1>18. ASSUME NEW p \in set PROVE \E i \in 1..Len(M) : M[i].path = p
  <2>1. PICK k \in 1..n : files[k] = p
    BY <1>4 DEF n
  <2>2. k + 1 \in 1..Len(M)
    BY <1>10, <1>11
  <2> QED BY <1>13, <2>1, <2>2
<1>19. manifest # H => \E i \in 1..Len(M) : M[i].path = ManifestJson
  <2>1. manifest # H => n + 2 \in 1..Len(M)
    BY <1>10, <1>11
  <2> QED BY <1>13, <2>1
<1>20. ASSUME NEW i \in 1..Len(M), NEW k \in 1..Len(M), M[i].path = M[k].path PROVE i = k
  <2>1. CASE M[i].path = ProjectJson
    <3>1. ASSUME NEW a \in 1..Len(M), M[a].path = ProjectJson PROVE a = 1
      <4>1. \A b \in 1..n : M[b + 1].path # ProjectJson
        BY <1>3, <1>13, <1>14
      <4> QED BY <1>12, <1>13, <1>14, <3>1, <4>1
    <3> QED BY <1>20, <2>1, <3>1
  <2>2. CASE M[i].path = ManifestJson
    BY <1>17, <1>20, <2>2
  <2>3. CASE M[i].path \in set
    <3>1. PICK a \in 1..n : i = a + 1
      BY <1>12, <1>13, <1>14, <2>3
    <3>2. PICK b \in 1..n : k = b + 1
      BY <1>12, <1>13, <1>14, <1>20, <2>3
    <3>3. files[a] = files[b]
      BY <1>13, <1>20, <3>1, <3>2
    <3> QED BY <1>2, <3>1, <3>2, <3>3 DEF n
  <2> QED BY <1>15, <2>1, <2>2, <2>3
<1>21. Len(M) \in Nat
  BY <1>10, <1>11
<1>22. ASSUME NEW i \in 1..Len(M) PROVE M[i].prior = Current(M[i].path)
  <2>1. \E p, content : M[i] = Mutation(p, content)
    BY <1>10, <1>12 DEF mutate
  <2> QED BY <2>1 DEF Mutation
<1> QED BY <1>15, <1>16, <1>17, <1>18, <1>19, <1>20, <1>21, <1>22 DEF M, set, target

\* From files at peace a configuration is a sound plan, forth and back.
LEMMA ConfigurationsAreSound ==
  ASSUME Typed, NEW H \in SUBSET Hosts, Preparable(H), Peaceful(file),
         mpc = "idle", journal = None
  PROVE  IsSound(Mutations(H))
<1> DEFINE M == Mutations(H)
           set == Created(H) \cup Deleted(H)
<1>1. /\ Len(M) \in Nat
      /\ \A i \in 1..Len(M) : M[i].path \in set \cup {ProjectJson, ManifestJson}
      /\ \A i \in 1..Len(M) : M[i].path \in set =>
           /\ M[i].prior = file[M[i].path]
           /\ M[i].target = IF M[i].path \in Created(H) THEN Maintained[M[i].path] ELSE Absent
      /\ \A i \in 1..Len(M) : M[i].path = ManifestJson => M[i].target = H /\ M[i].prior = manifest
      /\ \A p \in set : \E i \in 1..Len(M) : M[i].path = p
      /\ manifest # H => \E i \in 1..Len(M) : M[i].path = ManifestJson
      /\ \A i, k \in 1..Len(M) : M[i].path = M[k].path => i = k
  BY MutationsAreOfFiles
<1>2. /\ KeepsMaintained(file) /\ \A s \in Sources : KeepsFlow(file, s)
      /\ \A p \in Desired(manifest) : file[p] = Maintained[p]
  BY DEF Peaceful, IsInPlace
<1>3. set \subseteq DOMAIN Maintained /\ set \subseteq Paths
  BY SharedIsMaintained DEF Created, Deleted, Desired
<1>4. ASSUME NEW p \in set
      PROVE  /\ file[p] \in {Absent, Maintained[p]}
             /\ \A s \in Sources : p \notin Claims(s)
  <2>1. file[p] \in {Absent, Maintained[p]}
    BY <1>2, <1>3 DEF KeepsMaintained
  <2>2. ASSUME NEW s \in Sources, p \in Claims(s) PROVE FALSE
    <3>1. p \in DOMAIN Record(s, owned[s]) /\ p \in Shared /\ file[p] = Maintained[p]
      BY <1>2, <1>3, <2>2, ClaimsAreInPlace
    <3> QED BY <3>1 DEF Created, Deleted, ReferencedByFlow
  <2> QED BY <2>1, <2>2
<1>5. \A p \in {ProjectJson, ManifestJson} : p \notin Paths
  BY PathsAreApart
<1> HIDE DEF M, set
<1>6. Harmless(M)
  <2> SUFFICES ASSUME NEW i \in 1..Len(M), M[i].path \in Paths
               PROVE  /\ M[i].path \in DOMAIN Maintained
                      /\ {M[i].prior, M[i].target} \subseteq {Absent, Maintained[M[i].path]}
                      /\ \A s \in Sources : M[i].path \notin Claims(s)
    BY DEF Harmless
  <2>1. M[i].path \in set
    BY <1>1, <1>5
  <2> QED BY <1>1, <1>3, <1>4, <2>1
<1>7. Leads(Len(M), PathsOf(M), TargetsOf(M), H)
  <2>1. ASSUME NEW p \in Desired(H)
        PROVE  \/ \E i \in 1..Len(M) : M[i].path = p /\ M[i].target = Maintained[p]
               \/ file[p] = Maintained[p] /\ \A i \in 1..Len(M) : M[i].path # p
    <3>1. CASE p \in Created(H)
      BY <1>1, <3>1 DEF set
    <3>2. CASE p \notin Created(H)
      <4>1. file[p] = Maintained[p] /\ p \notin set /\ p \in Paths
        BY <3>2, SharedIsMaintained DEF Created, Deleted, Desired, set
      <4> QED BY <1>1, <1>5, <4>1
    <3> QED BY <3>1, <3>2
  <2> QED BY <1>1, <2>1 DEF Leads, PathsOf, TargetsOf
<1>8. Leads(Len(M), PathsOf(M), PriorsOf(M), manifest)
  <2>1. ASSUME NEW p \in Desired(manifest)
        PROVE  \/ \E i \in 1..Len(M) : M[i].path = p /\ M[i].prior = Maintained[p]
               \/ file[p] = Maintained[p] /\ \A i \in 1..Len(M) : M[i].path # p
    <3>1. file[p] = Maintained[p] /\ p \in Paths
      BY <1>2, SharedIsMaintained DEF Desired
    <3>2. \A i \in 1..Len(M) : M[i].path = p => M[i].prior = file[p]
      BY <1>1, <1>5, <3>1
    <3> QED BY <3>1, <3>2
  <2> QED BY <1>1, <2>1 DEF Leads, PathsOf, PriorsOf
<1>9. manifest \in SUBSET Hosts
  BY DEF Typed, TypeOK
<1>10. \A i, k \in 1..Len(M) : M[i].path = M[k].path => i = k
  BY <1>1 DEF M
<1> QED BY <1>6, <1>7, <1>8, <1>9, <1>10 DEF IsSound, M
\* The journal is the one that was shown to be sound.
LEMMA JournalIsSound ==
  ASSUME NEW J, IsSound(J)', journal' = J
  PROVE  IsSound(journal)'
<1>1. Harmless(journal)'
  BY DEF IsSound, Harmless, Claims, Record
<1>2. (\A i, k \in 1..Len(journal) : journal[i].path = journal[k].path => i = k)'
  BY DEF IsSound
<1>3. PICK H \in SUBSET Hosts : Leads(Len(J), PathsOf(J), TargetsOf(J), H)'
  BY DEF IsSound
<1>4. PICK G \in SUBSET Hosts : Leads(Len(J), PathsOf(J), PriorsOf(J), G)'
  BY DEF IsSound
<1>5. /\ Leads(Len(journal), PathsOf(journal), TargetsOf(journal), H)'
      /\ Leads(Len(journal), PathsOf(journal), PriorsOf(journal), G)'
  BY <1>3, <1>4 DEF Leads, Desired, PathsOf, TargetsOf, PriorsOf
<1> QED BY <1>1, <1>2, <1>5 DEF IsSound

\* The maintainer leaves the records alone, and its plan is typed.
LEMMA MaintainerIsTyped ==
  ASSUME Careful
  PROVE  /\ Typed /\ Free \notin Compilers /\ Maintainer \notin Compilers
         /\ Len(plan) \in Nat /\ applied \in 0..Len(plan)
         /\ \A i \in 1..Len(plan) : plan[i] \in PlannedMutations
         /\ \A i \in 1..Len(plan) : plan[i].path \in Paths \cup {ProjectJson, ManifestJson}
         /\ journal # None =>
              /\ journal \in Seq(PlannedMutations) /\ Len(journal) \in Nat
              /\ DOMAIN journal = 1..Len(journal)
         /\ mpc # "idle" => lock \notin Compilers
<1>1. /\ Len(plan) \in Nat /\ applied \in 0..Len(plan)
      /\ \A i \in 1..Len(plan) : plan[i] \in PlannedMutations
  BY LenProperties, ElementOfSeq DEF Careful, MaintainTyped
<1>2. \A i \in 1..Len(plan) : plan[i].path \in Paths \cup {ProjectJson, ManifestJson}
  BY <1>1, MutationsHavePaths
<1>3. journal # None =>
        /\ journal \in Seq(PlannedMutations) /\ Len(journal) \in Nat
        /\ DOMAIN journal = 1..Len(journal)
  BY LenProperties DEF Careful, MaintainTyped
<1> QED BY <1>1, <1>2, <1>3, NamesAreDistinct DEF Careful, Leased

\* What is promised to the Flows stays when nothing is written.
LEMMA FlowsStay ==
  ASSUME Peaceful(file), UNCHANGED <<file, owned, interrupted>>
  PROVE  KeepsMaintained(file)' /\ \A s \in Sources : KeepsFlow(file, s)'
BY FlowStays DEF Peaceful, KeepsMaintained

\* A configuration begins.
LEMMA ConfiguringKeepsPeace ==
  ASSUME Careful, Peace, NEW H \in SUBSET Hosts, Configure(H)
  PROVE  Peace'
<1>1. /\ lock = Free /\ lock' = Maintainer /\ mpc = "idle" /\ journal = None
      /\ Preparable(H) /\ mpc' = "install" /\ applied' = 0 /\ replaying' = FALSE
      /\ plan' = Mutations(H) /\ journal' = Mutations(H)
      /\ UNCHANGED <<file, hosts, manifest, owned, interrupted, edited>>
  BY DEF Configure, Begin, world, history
<1>2. Typed /\ Free \notin Compilers /\ Maintainer \notin Compilers
  BY MaintainerIsTyped
<1>3. Peaceful(file)
  BY <1>1, <1>2 DEF Peace
<1>4. PICK M : M = Mutations(H)
  OBVIOUS
<1>5. IsSound(M)
  BY <1>1, <1>2, <1>3, <1>4, ConfigurationsAreSound
<1>6. IsSound(M)'
  BY <1>1, <1>5, SoundnessStays
<1>7. IsSound(journal)'
  BY <1>1, <1>4, <1>6, JournalIsSound
<1>8. KeepsMaintained(file)' /\ \A s \in Sources : KeepsFlow(file, s)'
  BY <1>1, <1>3, FlowsStay
<1>9. Peaceful(file)'
  BY <1>1, <1>8 DEF Peaceful
<1>10. M \in Seq(PlannedMutations) /\ M # None
  BY <1>2, <1>4, MutationsAreTyped, NoneIsNoPlan
<1>11. ASSUME NEW i \in 1..Len(M) PROVE Current(M[i].path)' = M[i].prior
  <2>1. M[i].path \in Paths \cup {ProjectJson, ManifestJson}
    BY <1>10, ElementOfSeq, MutationsHavePaths
  <2>2. Current(M[i].path)' = Current(M[i].path)
    BY <1>1 DEF Current
  <2>3. Current(M[i].path) = M[i].prior
    BY <1>2, <1>4, MutationsAreOfFiles
  <2> QED BY <2>2, <2>3
<1>12. Progress'
  <2>1. (\A i \in 1..Len(plan) : i > applied => Current(plan[i].path) = plan[i].prior)'
    BY <1>1, <1>4, <1>11
  <2>2. (\A i \in 1..Len(plan) : i <= applied => Current(plan[i].path) = plan[i].target)'
    BY <1>1, <1>4, <1>10, LenProperties
  <2> QED BY <1>1, <1>4, <1>10, <2>1, <2>2 DEF Progress
<1> QED BY <1>1, <1>2, <1>7, <1>9, <1>12 DEF Peace

\* Recovery begins to put the prior bytes back.
LEMMA ReplayingKeepsPeace ==
  ASSUME Careful, Peace, NEW leased \in BOOLEAN, Replay(leased)
  PROVE  Peace'
<1> DEFINE back == [i \in DOMAIN journal |-> Mutation(journal[i].path, journal[i].prior)]
<1>1. /\ mpc = "idle" /\ journal # None /\ mpc' = "install" /\ applied' = 0 /\ replaying' = TRUE
      /\ plan' = back /\ journal' = journal
      /\ lock' \in {lock, Maintainer}
      /\ UNCHANGED <<file, hosts, manifest, owned, interrupted, edited>>
  BY DEF Replay, Begin, world, history
<1>2. /\ Typed /\ Maintainer \notin Compilers
      /\ journal \in Seq(PlannedMutations) /\ Len(journal) \in Nat /\ DOMAIN journal = 1..Len(journal)
  BY <1>1, MaintainerIsTyped
<1>3. lock \notin Compilers
  BY <1>1 DEF Careful, Leased
<1>4. Peaceful(file)
  BY <1>3 DEF Peace
<1>5. PICK J : J = journal
  OBVIOUS
<1>6. IsSound(J)
  BY <1>1, <1>5 DEF Peace
<1>7. IsSound(J)'
  BY <1>1, <1>6, SoundnessStays
<1>8. IsSound(journal)'
  BY <1>1, <1>5, <1>7, JournalIsSound
<1>9. KeepsMaintained(file)' /\ \A s \in Sources : KeepsFlow(file, s)'
  BY <1>1, <1>4, FlowsStay
<1>10. Peaceful(file)'
  BY <1>1, <1>9 DEF Peaceful
<1>11. Len(back) = Len(journal)
       /\ \A i \in 1..Len(journal) :
            /\ back[i].path = journal[i].path /\ back[i].target = journal[i].prior
            /\ back[i].prior = Current(journal[i].path)
  <2>1. back = [i \in 1..Len(journal) |-> Mutation(journal[i].path, journal[i].prior)]
    BY <1>2
  <2>2. \A i \in 1..Len(journal) : back[i] = Mutation(journal[i].path, journal[i].prior)
    BY <2>1
  <2> HIDE DEF back
  <2>3. Len(back) = Len(journal)
    BY <1>2, <2>1
  <2>4. ASSUME NEW i \in 1..Len(journal)
        PROVE  /\ back[i].path = journal[i].path /\ back[i].target = journal[i].prior
               /\ back[i].prior = Current(journal[i].path)
    <3>1. PICK m : m = back[i]
      OBVIOUS
    <3>2. m = Mutation(journal[i].path, journal[i].prior)
      BY <2>2, <3>1
    <3>3. /\ m.path = journal[i].path /\ m.target = journal[i].prior
          /\ m.prior = Current(journal[i].path)
      BY <3>2 DEF Mutation
    <3> QED BY <3>1, <3>3
  <2> QED BY <2>3, <2>4
<1> HIDE DEF back
<1>12. PICK b : b = back
  OBVIOUS
<1>13. Harmless(b)
  <2>1. Harmless(journal) /\ KeepsMaintained(file)
    BY <1>4, <1>5, <1>6 DEF IsSound, Peaceful
  <2>2. ASSUME NEW i \in 1..Len(b), b[i].path \in Paths
        PROVE  /\ b[i].path \in DOMAIN Maintained
               /\ {b[i].prior, b[i].target} \subseteq {Absent, Maintained[b[i].path]}
               /\ \A s \in Sources : b[i].path \notin Claims(s)
    <3>1. /\ i \in 1..Len(journal) /\ b[i].path = journal[i].path
          /\ b[i].target = journal[i].prior /\ b[i].prior = Current(journal[i].path)
      BY <1>11, <1>12
    <3>2. /\ b[i].path \in DOMAIN Maintained
          /\ b[i].target \in {Absent, Maintained[b[i].path]}
          /\ \A s \in Sources : b[i].path \notin Claims(s)
      BY <2>1, <2>2, <3>1 DEF Harmless
    <3>3. b[i].prior = file[b[i].path]
      BY <2>2, <3>1, CurrentIsOfPath
    <3> QED BY <2>1, <3>2, <3>3 DEF KeepsMaintained
  <2> QED BY <2>2 DEF Harmless
<1>14. Harmless(b)'
  BY <1>1, <1>13 DEF Harmless, Claims, Record
<1>15. Harmless(plan)'
  BY <1>1, <1>12, <1>14 DEF Harmless, Claims, Record
<1>16. Progress'
  BY <1>1, <1>2, <1>11, <1>15 DEF Progress
<1> QED BY <1>1, <1>3, <1>2, <1>8, <1>10, <1>16 DEF Peace
\* One mutation of the plan is made or taken back.
LEMMA PuttingKeepsPeace ==
  ASSUME Careful, Peace, mpc # "idle", mpc' = mpc,
         UNCHANGED <<lock, owned, interrupted, edited, plan, replaying, journal>>,
         NEW a \in 1..Len(plan), NEW content \in {plan[a].prior, plan[a].target},
         Put(plan[a].path, content),
         applied' \in 0..Len(plan),
         mpc = "install" => content = plan[a].target /\ a = applied + 1 /\ applied' = a,
         mpc # "install" => content = plan[a].prior /\ a = applied /\ applied' = a - 1
  PROVE  Peace'
<1>1. /\ Typed /\ lock \notin Compilers /\ Len(plan) \in Nat /\ applied \in 0..Len(plan)
      /\ \A i \in 1..Len(plan) : plan[i].path \in Paths \cup {ProjectJson, ManifestJson}
  BY MaintainerIsTyped
<1>2. Peaceful(file) /\ journal # None /\ IsSound(journal)
  BY <1>1 DEF Peace, Progress
<1>3. /\ Harmless(plan) /\ Len(plan) = Len(journal)
      /\ \A i \in 1..Len(plan) : plan[i].path = journal[i].path
  BY <1>2 DEF Peace, Progress, IsSound
<1>4. \A i, k \in 1..Len(plan) : plan[i].path = plan[k].path => i = k
  BY <1>2, <1>3 DEF IsSound
<1>5. PICK p : p = plan[a].path
  OBVIOUS
<1>6. p \in Paths \cup {ProjectJson, ManifestJson} /\ Put(p, content)
  BY <1>1, <1>5
<1>7. /\ Current(p)' = content
      /\ \A q \in Paths \cup {ProjectJson, ManifestJson} : q # p => Current(q)' = Current(q)
      /\ \A q \in Paths : q # p => file'[q] = file[q]
      /\ p # ManifestJson => manifest' = manifest
  BY <1>1, <1>6, PuttingIsLocal
<1>8. p \in Paths =>
        /\ p \in DOMAIN Maintained /\ content \in {Absent, Maintained[p]}
        /\ \A s \in Sources : p \notin Claims(s)
  BY <1>3, <1>5 DEF Harmless
<1>9. KeepsMaintained(file)' /\ \A s \in Sources : KeepsFlow(file, s)'
  <2>1. KeepsMaintained(file) /\ \A s \in Sources : KeepsFlow(file, s)
    BY <1>2 DEF Peaceful
  <2> QED BY <1>1, <1>6, <1>8, <2>1, FlowsArePutAside
<1>10. Peaceful(file)'
  BY <1>9 DEF Peaceful
<1>11. PICK J : J = journal
  OBVIOUS
<1>12. /\ \A q \in Paths : (\A i \in 1..Len(J) : J[i].path # q) => file'[q] = file[q]
       /\ (\A i \in 1..Len(J) : J[i].path # ManifestJson) => manifest' = manifest
  BY <1>3, <1>5, <1>7, <1>11
<1>13. IsSound(J)'
  BY <1>2, <1>11, <1>12, SoundnessStays
<1>14. IsSound(journal)'
  BY <1>11, <1>13, JournalIsSound
<1>15. Harmless(plan)'
  BY <1>3 DEF Harmless, Claims, Record
<1>16. ASSUME NEW i \in 1..Len(plan), i # a
       PROVE  Current(plan[i].path)' = Current(plan[i].path)
  <2>1. PICK q : q = plan[i].path
    OBVIOUS
  <2>2. q \in Paths \cup {ProjectJson, ManifestJson} /\ q # p
    BY <1>1, <1>4, <1>5, <1>16, <2>1
  <2>3. Current(q)' = Current(q)
    BY <1>7, <2>2
  <2>4. Current(plan[i].path)' = Current(q)'
    BY <2>1 DEF Current
  <2> QED BY <2>1, <2>3, <2>4
<1>17. Current(plan[a].path)' = content
  BY <1>5, <1>7 DEF Current
<1>18. (mpc = "install" =>
          \A i \in 1..Len(plan) : i <= applied => Current(plan[i].path) = plan[i].target)'
  <2> SUFFICES ASSUME mpc = "install", NEW i \in 1..Len(plan), i <= applied'
               PROVE  Current(plan[i].path)' = plan[i].target
    OBVIOUS
  <2>1. CASE i = a
    BY <1>17, <2>1
  <2>2. CASE i # a
    <3>1. i <= applied
      BY <1>1, <2>2
    <3>2. Current(plan[i].path) = plan[i].target
      BY <3>1 DEF Peace, Progress
    <3> QED BY <1>16, <2>2, <3>2
  <2> QED BY <2>1, <2>2
<1>19. (~replaying /\ mpc \in {"install", "restore"} =>
          \A i \in 1..Len(plan) : i > applied => Current(plan[i].path) = plan[i].prior)'
  <2> SUFFICES ASSUME ~replaying, mpc \in {"install", "restore"},
                      NEW i \in 1..Len(plan), i > applied'
               PROVE  Current(plan[i].path)' = plan[i].prior
    OBVIOUS
  <2>1. CASE i = a
    <3>1. mpc # "install"
      BY <1>1, <2>1
    <3> QED BY <1>17, <2>1, <3>1
  <2>2. CASE i # a
    <3>1. i > applied
      BY <1>1, <2>2
    <3>2. Current(plan[i].path) = plan[i].prior
      BY <3>1 DEF Peace, Progress
    <3> QED BY <1>16, <2>2, <3>2
  <2> QED BY <2>1, <2>2
<1>20. Progress'
  <2>1. /\ ~replaying => plan = journal
        /\ replaying => \A i \in 1..Len(plan) :
             plan[i].path = journal[i].path /\ plan[i].target = journal[i].prior
    BY DEF Peace, Progress
  <2>2. (/\ journal # None
         /\ ~replaying => plan = journal
         /\ replaying =>
              /\ Harmless(plan) /\ Len(plan) = Len(journal)
              /\ \A i \in 1..Len(plan) :
                   plan[i].path = journal[i].path /\ plan[i].target = journal[i].prior)'
    BY <1>2, <1>3, <1>15, <2>1
  <2> QED BY <1>18, <1>19, <2>2 DEF Progress
<1> QED BY <1>1, <1>10, <1>14, <1>20 DEF Peace

\* The maintainer ends, and its journal only over files in place.
LEMMA MaintainerEnds ==
  ASSUME Careful, Peace, lock \notin Compilers, lock' \in {lock, Free}, mpc' = "idle",
         UNCHANGED <<file, hosts, manifest, owned, interrupted, edited>>,
         journal' \in {None, journal}, journal' = None => IsInPlace(file)
  PROVE  Peace'
<1>1. Free \notin Compilers
  BY MaintainerIsTyped
<1>2. Peaceful(file)
  BY DEF Peace
<1>3. KeepsMaintained(file)' /\ \A s \in Sources : KeepsFlow(file, s)'
  BY <1>2, FlowsStay
<1>4. Peaceful(file)'
  BY <1>3 DEF Peaceful, IsInPlace, Desired
<1>5. ASSUME journal' # None PROVE IsSound(journal)'
  <2>1. PICK J : J = journal
    OBVIOUS
  <2>2. IsSound(J) /\ journal' = J
    BY <1>5, <2>1 DEF Peace
  <2>3. IsSound(J)'
    BY <2>2, SoundnessStays
  <2> QED BY <2>2, <2>3, JournalIsSound
<1>6. Progress'
  BY DEF Progress
<1> QED BY <1>1, <1>4, <1>5, <1>6 DEF Peace

\* A journal that is done or undone is over files in place.
LEMMA DoneIsInPlace ==
  ASSUME NEW J, IsSound(J),
         \/ \A i \in 1..Len(J) : Current(J[i].path) = J[i].target
         \/ \A i \in 1..Len(J) : Current(J[i].path) = J[i].prior
  PROVE  IsInPlace(file)
<1>1. PICK H \in SUBSET Hosts : Leads(Len(J), PathsOf(J), TargetsOf(J), H)
  BY DEF IsSound
<1>2. PICK G \in SUBSET Hosts : Leads(Len(J), PathsOf(J), PriorsOf(J), G)
  BY DEF IsSound
<1>3. CASE \A i \in 1..Len(J) : Current(J[i].path) = J[i].target
  <2>1. \A i \in 1..Len(J) : Current(PathsOf(J)[i]) = TargetsOf(J)[i]
    BY <1>3 DEF PathsOf, TargetsOf
  <2> QED BY <1>1, <2>1, LedIsInPlace
<1>4. CASE \A i \in 1..Len(J) : Current(J[i].path) = J[i].prior
  <2>1. \A i \in 1..Len(J) : Current(PathsOf(J)[i]) = PriorsOf(J)[i]
    BY <1>4 DEF PathsOf, PriorsOf
  <2> QED BY <1>2, <2>1, LedIsInPlace
<1> QED BY <1>3, <1>4
LEMMA MaintainKeepsPeace ==
  ASSUME Careful, Peace, Maintain, ~loose'
  PROVE  Peace'
<1>1. /\ Len(plan) \in Nat /\ applied \in 0..Len(plan)
      /\ mpc # "idle" => lock \notin Compilers /\ journal # None
      /\ Free \notin Compilers
  BY MaintainerIsTyped DEF Peace, Progress
<1>2. mpc # "idle" => IsSound(journal) /\ Len(plan) = Len(journal)
  BY <1>1 DEF Peace, Progress
<1>3. ASSUME NEW H \in SUBSET Hosts, Configure(H) PROVE Peace'
  BY <1>3, ConfiguringKeepsPeace
<1>4. ASSUME NEW leased \in BOOLEAN, Replay(leased) PROVE Peace'
  BY <1>4, ReplayingKeepsPeace
<1>5. CASE Install
  <2>1. /\ mpc = "install" /\ applied < Len(plan)
        /\ Put(plan[applied + 1].path, plan[applied + 1].target) /\ applied' = applied + 1
        /\ UNCHANGED <<lock, interrupted, edited, mpc, plan, replaying, journal>>
    BY <1>5 DEF Install, history
  <2>2. PICK a : a = applied + 1
    OBVIOUS
  <2>3. PICK content : content = plan[a].target
    OBVIOUS
  <2>4. a \in 1..Len(plan) /\ applied' \in 0..Len(plan) /\ owned' = owned
    BY <1>1, <2>1, <2>2 DEF Put
  <2> QED BY <2>1, <2>2, <2>3, <2>4, PuttingKeepsPeace
<1>6. CASE Restore
  <2>1. /\ mpc \in {"restore", "strand"} /\ applied > 0
        /\ Put(plan[applied].path, plan[applied].prior) /\ applied' = applied - 1
        /\ UNCHANGED <<lock, interrupted, edited, mpc, plan, replaying, journal>>
    BY <1>6 DEF Restore, history
  <2>2. PICK a : a = applied
    OBVIOUS
  <2>3. PICK content : content = plan[a].prior
    OBVIOUS
  <2>4. a \in 1..Len(plan) /\ applied' \in 0..Len(plan) /\ owned' = owned
    BY <1>1, <2>1, <2>2 DEF Put
  <2> QED BY <2>1, <2>2, <2>3, <2>4, PuttingKeepsPeace
<1>7. CASE Settle
  <2>1. /\ mpc = "install" /\ applied = Len(plan) /\ mpc' = "idle" /\ journal' = None
        /\ lock' \in {lock, Free}
        /\ UNCHANGED <<file, hosts, manifest, owned, interrupted, edited>>
    BY <1>7 DEF Settle, End, world, history
  <2>2. \A i \in 1..Len(plan) : Current(plan[i].path) = plan[i].target
    BY <1>1, <2>1 DEF Peace, Progress
  <2>3. \/ \A i \in 1..Len(journal) : Current(journal[i].path) = journal[i].target
        \/ \A i \in 1..Len(journal) : Current(journal[i].path) = journal[i].prior
    <3>1. CASE replaying
      <4>1. \A i \in 1..Len(plan) :
              plan[i].path = journal[i].path /\ plan[i].target = journal[i].prior
        BY <2>1, <3>1 DEF Peace, Progress
      <4> QED BY <1>2, <2>1, <2>2, <4>1
    <3>2. CASE ~replaying
      BY <2>1, <2>2, <3>2 DEF Peace, Progress
    <3> QED BY <3>1, <3>2
  <2>4. IsInPlace(file)
    BY <1>2, <2>1, <2>3, DoneIsInPlace
  <2> QED BY <1>1, <2>1, <2>4, MaintainerEnds
<1>8. CASE EndRestore
  <2>1. /\ mpc \in {"restore", "strand"} /\ applied = 0 /\ mpc' = "idle"
        /\ journal' = IF mpc = "restore" /\ ~replaying THEN None ELSE journal
        /\ lock' \in {lock, Free}
        /\ UNCHANGED <<file, hosts, manifest, owned, interrupted, edited>>
    BY <1>8 DEF EndRestore, End, world, history
  <2>2. ASSUME journal' = None PROVE IsInPlace(file)
    <3>1. mpc = "restore" /\ ~replaying
      BY <1>1, <2>1, <2>2
    <3>2. plan = journal /\ \A i \in 1..Len(plan) : i > applied => Current(plan[i].path) = plan[i].prior
      BY <3>1 DEF Peace, Progress
    <3>3. \A i \in 1..Len(journal) : Current(journal[i].path) = journal[i].prior
      BY <1>1, <2>1, <3>2
    <3> QED BY <1>2, <3>1, <3>3, DoneIsInPlace
  <2> QED BY <1>1, <2>1, <2>2, MaintainerEnds
<1>9. CASE StopMaintainer
  <2>1. /\ mpc # "idle" /\ mpc' = "idle" /\ journal' = journal /\ lock' \in {lock, Free}
        /\ UNCHANGED <<file, hosts, manifest, owned, interrupted, edited>>
    BY <1>9 DEF StopMaintainer, End, world, history
  <2> QED BY <1>1, <2>1, MaintainerEnds
<1>10. ASSUME NEW leased \in BOOLEAN, CloseJournal(leased) PROVE Peace'
  <2>1. /\ mpc = "idle" /\ mpc' = "idle" /\ journal # None /\ journal' = None /\ lock' = lock
        /\ \A m \in ToSet(journal) : Current(m.path) = m.target
        /\ UNCHANGED <<file, hosts, manifest, owned, interrupted, edited>>
    BY <1>10 DEF CloseJournal, vars, world, history
  <2>2. lock \notin Compilers
    BY <2>1 DEF Careful, Leased
  <2>3. DOMAIN journal = 1..Len(journal)
    BY <2>1, MaintainerIsTyped
  <2>4. \A i \in 1..Len(journal) : Current(journal[i].path) = journal[i].target
    BY <2>1, <2>3 DEF ToSet
  <2>5. IsInPlace(file)
    BY <2>1, <2>4, DoneIsInPlace DEF Peace
  <2> QED BY <2>1, <2>2, <2>5, MaintainerEnds
<1>11. CASE FailInstall \/ FailRestore
  <2>1. /\ mpc # "idle" /\ mpc' # "idle" /\ mpc' # "install"
        /\ UNCHANGED <<lock, file, hosts, manifest, owned, interrupted, edited, plan, replaying, journal>>
        /\ mpc' = "restore" => applied' = applied /\ mpc = "install"
    BY <1>11 DEF FailInstall, FailRestore, world, history
  <2>2. Peaceful(file)
    BY <1>1, <2>1 DEF Peace
  <2>3. KeepsMaintained(file)' /\ \A s \in Sources : KeepsFlow(file, s)'
    BY <2>1, <2>2, FlowsStay
  <2>4. Peaceful(file)'
    BY <2>1, <2>3 DEF Peaceful
  <2>5. PICK J : J = journal
    OBVIOUS
  <2>6. IsSound(J)'
    BY <1>2, <2>1, <2>5, SoundnessStays
  <2>7. IsSound(journal)'
    BY <2>1, <2>5, <2>6, JournalIsSound
  <2>8. Harmless(plan)' = Harmless(plan)
    BY <2>1 DEF Harmless, Claims, Record
  <2>9. \A p : Current(p)' = Current(p)
    BY <2>1 DEF Current
  <2>10. Progress'
    BY <2>1, <2>8, <2>9 DEF Peace, Progress
  <2> QED BY <1>1, <2>1, <2>4, <2>7, <2>10 DEF Peace
<1> QED BY <1>3, <1>4, <1>5, <1>6, <1>7, <1>8, <1>9, <1>10, <1>11 DEF Maintain
-----------------------------------------------------------------------------
\* Edits are not forgotten, nor that an interruption was passed over.
LEMMA EditsAreHistory ==
  ASSUME Careful, [MaintainedNext]_allVars, edits' = 0
  PROVE  edits = 0
<1>1. edits \in Nat
  BY DEF Careful, Typed
<1>2. CASE Maintain
  BY <1>2 DEF Maintain, Configure, Replay, CloseJournal, Install, Settle, Restore, EndRestore,
     FailInstall, FailRestore, StopMaintainer, vars, bounds
<1>3. CASE CompilerStep(Next)
  <2>1. ASSUME NEW c \in Compilers, Compile(c) PROVE edits' = edits
    BY <2>1 DEF Compile, Load, Plan, Busy, Refuse, Acquire, Commit, Read, Write, EndWrites,
       Retire, EndRemovals, Verify, EndPublication, ReplaceRecord, Undo, EndUndo, bounds
  <2>2. CASE Disturb
    BY <1>1, <2>2 DEF Disturb, Fail, FailUndo, Stop, Edit, ChangeSource
  <2> QED BY <1>3, <2>1, <2>2 DEF CompilerStep, Next
<1>4. CASE UNCHANGED allVars
  BY <1>4 DEF allVars, vars, bounds
<1> QED BY <1>2, <1>3, <1>4 DEF MaintainedNext

LEMMA PeaceStep ==
  ASSUME FlowsAreApart, MaintainedInv, PeaceInv, [MaintainedNext]_allVars
  PROVE  PeaceInv'
<1> SUFFICES ASSUME edits' = 0, ~loose' PROVE Peace'
  BY DEF PeaceInv
<1>1. Careful /\ ~loose
  BY LooseIsHistory DEF MaintainedInv
<1>2. edits = 0
  BY <1>1, EditsAreHistory
<1>3. Peace
  BY <1>1, <1>2 DEF PeaceInv
<1>4. CASE CompilerStep(Next)
  BY <1>1, <1>2, <1>3, <1>4, CompilerKeepsPeace
<1>5. CASE Maintain
  BY <1>1, <1>3, <1>5, MaintainKeepsPeace
<1>6. CASE UNCHANGED allVars
  <2>1. UNCHANGED <<file, hosts, manifest, owned, interrupted, effect, lock, memory, edited, pc, job>>
    BY <1>6 DEF allVars, vars, world, history
  <2> QED BY <1>1, <1>3, <2>1, StandingByKeepsPeace
<1> QED BY <1>4, <1>5, <1>6 DEF MaintainedNext

LEMMA InitIsPeaceful == MaintainedInit => PeaceInv
<1> SUFFICES ASSUME MaintainedInit PROVE Peace
  BY DEF PeaceInv
<1>1. /\ edited = {} /\ lock = Free /\ mpc = "idle" /\ journal = None
      /\ owned = [s \in Sources |-> None] /\ interrupted = [s \in Sources |-> None]
      /\ hosts \in SUBSET Hosts
  BY DEF MaintainedInit, Init
<1>2. PICK chosen \in [Sources -> [version : Versions, hosts : {hosts}] \cup {None}] :
        file = Checkout(chosen)
  BY DEF MaintainedInit, Init
<1>3. ASSUME NEW p \in DOMAIN Maintained
      PROVE  /\ file[p] \in {Absent, Maintained[p]}
             /\ HostOf[p] \in manifest => file[p] = Maintained[p]
  <2> DEFINE flows == {s \in Sources : p \in DOMAIN Record(s, chosen[s])}
             flow == CHOOSE s \in flows : TRUE
  <2>1. p \in Paths
    BY SharedIsMaintained
  <2>2. CASE HostOf[p] \in manifest
    BY <1>2, <2>1, <2>2 DEF Checkout
  <2>3. CASE HostOf[p] \notin manifest /\ flows = {}
    BY <1>2, <2>1, <2>3 DEF Checkout
  <2>4. CASE HostOf[p] \notin manifest /\ flows # {}
    <3>1. flow \in Sources /\ p \in DOMAIN Record(flow, chosen[flow])
      BY <2>4
    <3>2. file[p] = Record(flow, chosen[flow])[p]
      BY <1>2, <2>1, <2>4 DEF Checkout
    <3> HIDE DEF flow
    <3>3. chosen[flow] \in Inputs \cup {None}
      BY <1>1, <3>1 DEF Inputs
    <3>4. chosen[flow] \in Inputs /\ Record(flow, chosen[flow]) = Files[flow][chosen[flow]]
      BY <3>1, <3>3, NobodyRecordsNothing DEF Record
    <3> QED BY <2>4, <3>1, <3>2, <3>4, SharedBytesAgree
  <2> QED BY <2>2, <2>3, <2>4
<1>4. KeepsMaintained(file) /\ IsInPlace(file)
  BY <1>3 DEF KeepsMaintained, IsInPlace, Desired
<1>5. ASSUME NEW s \in Sources PROVE KeepsFlow(file, s)
  BY <1>1, NobodyRecordsNothing DEF KeepsFlow
<1>6. Peaceful(file)
  BY <1>4, <1>5 DEF Peaceful
<1> QED BY <1>1, <1>6, NamesAreDistinct DEF Peace, Progress

\* While nobody edits, and unless an interrupted configuration was passed over: whatever a
\* stopped compilation left, compiling the same version again is authorized to take it.
THEOREM ResidueStaysTheirs ==
  ASSUME FlowsAreApart
  PROVE  MaintainedSpec => []ResidueStaysAuthorized
<1>1. MaintainedInit => MaintainedInv /\ PeaceInv
  BY InitIsMaintained, InitIsPeaceful
<1>2. MaintainedInv /\ PeaceInv /\ [MaintainedNext]_allVars => (MaintainedInv /\ PeaceInv)'
  BY MaintainedStep, PeaceStep
<1>3. MaintainedInv /\ PeaceInv => ResidueStaysAuthorized
  <2> SUFFICES ASSUME PeaceInv, ~loose, edits = 0, lock = Free,
                      NEW s \in Sources, interrupted[s] # None
               PROVE  WritesAreAuthorized(Retry(s)) /\ RemovalsAreCurrent(Retry(s))
    BY DEF ResidueStaysAuthorized, ResidueIsAuthorized
  <2>1. KeepsFlow(file, s)
    BY NamesAreDistinct DEF PeaceInv, Peace, Peaceful
  <2>2. Removals(Retry(s)) \subseteq Obsolete(Retry(s))
    BY DEF Removals
  <2> QED BY <2>1, <2>2 DEF KeepsFlow, WritesAreAuthorized, RemovalsAreCurrent
<1> QED BY <1>1, <1>2, <1>3, PTL DEF MaintainedSpec

\* Under the same conditions what the manifest lists is in place while no configuration is
\* pending, so that the next one is not refused, whatever the Flows retired.
THEOREM MaintenanceFindsItsFiles ==
  ASSUME FlowsAreApart
  PROVE  MaintainedSpec => []MaintainedFilesAreInPlace
<1>1. MaintainedInit => MaintainedInv /\ PeaceInv
  BY InitIsMaintained, InitIsPeaceful
<1>2. MaintainedInv /\ PeaceInv /\ [MaintainedNext]_allVars => (MaintainedInv /\ PeaceInv)'
  BY MaintainedStep, PeaceStep
<1>3. MaintainedInv /\ PeaceInv => MaintainedFilesAreInPlace
  BY NamesAreDistinct DEF MaintainedFilesAreInPlace, Quiet, PeaceInv, Peace, Peaceful, IsInPlace
<1> QED BY <1>1, <1>2, <1>3, PTL DEF MaintainedSpec

\* And what a Flow's record lists is in place, whatever maintenance and the other Flows
\* retired.
THEOREM FlowsFindTheirFiles ==
  ASSUME FlowsAreApart
  PROVE  MaintainedSpec => []FlowFilesAreInPlace
<1>1. MaintainedInit => MaintainedInv /\ PeaceInv
  BY InitIsMaintained, InitIsPeaceful
<1>2. MaintainedInv /\ PeaceInv /\ [MaintainedNext]_allVars => (MaintainedInv /\ PeaceInv)'
  BY MaintainedStep, PeaceStep
<1>3. MaintainedInv /\ PeaceInv => FlowFilesAreInPlace
  <2> SUFFICES ASSUME PeaceInv, ~loose, edits = 0, lock = Free,
                      NEW s \in Sources, interrupted[s] = None,
                      NEW p \in DOMAIN Record(s, owned[s])
               PROVE  file[p] = Record(s, owned[s])[p]
    BY DEF FlowFilesAreInPlace, RecordedFilesAreInPlace, Quiet
  <2>1. KeepsFlow(file, s)
    BY NamesAreDistinct DEF PeaceInv, Peace, Peaceful
  <2> QED BY <2>1 DEF KeepsFlow
<1> QED BY <1>1, <1>2, <1>3, PTL DEF MaintainedSpec
================================================================================
