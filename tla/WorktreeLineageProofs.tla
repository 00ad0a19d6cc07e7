------------------------ MODULE WorktreeLineageProofs ------------------------
(***************************************************************************)
(* Proofs about the deliveries and receipts of a clone: for any worktrees, *)
(* branches and runs, whatever is interrupted, and for any number of       *)
(* receipts, revisions and disturbances.                                   *)
(***************************************************************************)
EXTENDS WorktreeLineage, FiniteSetTheorems, SequenceTheorems, WellFoundedInduction, TLAPS

Link(w) == StateOf(w).link

-----------------------------------------------------------------------------
(* Records. *)

LEMMA FreshIsTyped ==
  /\ NoLink = [branch |-> Nothing, tree |-> Nothing, ref |-> Nothing]
  /\ NoLink \in Links
  /\ Fresh \in States
  /\ Fresh.active = FALSE /\ Fresh.link = NoLink /\ Fresh.revision = 1
<1>1. NoLink \in Links
  BY DEF Links
<1>2. 1 \in 1 .. MaxRevision
  BY BoundsAssumption
<1> QED BY <1>1, <1>2 DEF Fresh, States, NoLink

LEMMA LinkIsNoNoLink ==
  ASSUME NEW b \in Branches, NEW t \in Trees, NEW r \in Refs
  PROVE  /\ [branch |-> b, tree |-> t, ref |-> r] \in Links
         /\ [branch |-> b, tree |-> t, ref |-> r] # NoLink
<1>1. t # Nothing
  BY NamesAssumption
<1> QED BY <1>1 DEF Links, NoLink

LEMMA LinkFields ==
  ASSUME NEW l \in Links, l # NoLink
  PROVE  /\ l.branch \in Branches /\ l.tree \in Trees /\ l.ref \in Refs
         /\ l.tree # Nothing
         /\ l = [branch |-> l.branch, tree |-> l.tree, ref |-> l.ref]
  BY NamesAssumption DEF Links

LEMMA NoLinkIsNowhere ==
  ASSUME NEW l \in Links, l.tree \in Trees
  PROVE  l # NoLink
  BY NamesAssumption DEF NoLink

LEMMA StateOfIsTyped ==
  ASSUME TypeOK, NEW w \in Trees
  PROVE  /\ StateOf(w) \in States
         /\ StateOf(w).revision \in 1 .. MaxRevision
         /\ IsActive(w) \in BOOLEAN
         /\ Link(w) \in Links
         /\ state[w] # Nothing => state[w] \in States /\ StateOf(w) = state[w]
         /\ IsActive(w) => state[w] # Nothing
         /\ Link(w) # NoLink => state[w] # Nothing
<1>1. state[w] \in States \cup {Nothing}
  BY DEF TypeOK
<1>2. StateOf(w) \in States
  BY <1>1, FreshIsTyped DEF StateOf
<1> QED BY <1>1, <1>2, FreshIsTyped DEF StateOf, IsActive, Link, States

\* What the transitions make of a state.
LEMMA ParkedIsTyped ==
  ASSUME NEW s, NEW r \in 1 .. MaxRevision
  PROVE  /\ ParkedSource(s, r) \in States
         /\ ParkedSource(s, r).active = FALSE
         /\ ParkedSource(s, r).link = NoLink
         /\ ParkedSource(s, r).revision = r
  BY FreshIsTyped DEF ParkedSource, States

LEMMA TransferredIsTyped ==
  ASSUME NEW s \in States, NEW r \in 1 .. MaxRevision, NEW l \in Links
  PROVE  /\ Transferred(s, r, l) \in States
         /\ Transferred(s, r, l).active = s.active
         /\ Transferred(s, r, l).link = l
         /\ Transferred(s, r, l).revision = r
  BY DEF Transferred, States

LEMMA RevisedIsTyped ==
  ASSUME NEW s \in States, NEW r \in 1 .. MaxRevision
  PROVE  /\ [s EXCEPT !.revision = r] \in States
         /\ [s EXCEPT !.revision = r].active = s.active
         /\ [s EXCEPT !.revision = r].link = s.link
         /\ [s EXCEPT !.revision = r].revision = r
  BY DEF States

LEMMA ReturnedIsTyped ==
  ASSUME NEW s \in States, s.revision < MaxRevision
  PROVE  /\ Returned(s) \in States
         /\ Returned(s).active = s.active
         /\ Returned(s).link = NoLink
         /\ Returned(s).revision = s.revision + 1
<1>1. s.revision + 1 \in 1 .. MaxRevision
  BY BoundsAssumption DEF States
<1> QED BY <1>1, FreshIsTyped DEF Returned, States

LEMMA FinishedIsTyped ==
  ASSUME NEW s \in States, s.revision < MaxRevision
  PROVE  LET f == [s EXCEPT !.revision = @ + 1, !.active = FALSE] IN
         f \in States /\ f.active = FALSE /\ f.link = s.link
<1>1. s.revision + 1 \in 1 .. MaxRevision
  BY BoundsAssumption DEF States
<1> QED BY <1>1 DEF States

LEMMA EscalatedIsTyped ==
  ASSUME NEW s \in States, s.revision < MaxRevision
  PROVE  LET e == [s EXCEPT !.revision = @ + 1, !.escalated = TRUE] IN
         e \in States /\ e.active = s.active /\ e.link = s.link /\ e.revision = s.revision + 1
<1>1. s.revision + 1 \in 1 .. MaxRevision
  BY BoundsAssumption DEF States
<1> QED BY <1>1 DEF States

LEMMA BoundIsTyped ==
  ASSUME NEW run \in Runs, NEW r \in 1 .. MaxRevision
  PROVE  LET s == [Fresh EXCEPT !.revision = r, !.delivery = Delivery(run), !.active = TRUE] IN
         s \in States /\ s.active = TRUE /\ s.link = NoLink /\ s.revision = r
  BY FreshIsTyped DEF States

-----------------------------------------------------------------------------
(* Receipts. *)

LEMMA DomainIs ==
  ASSUME TypeOK
  PROVE  /\ Len(receipts) \in Nat /\ Len(receipts) <= MaxReceipts
         /\ DOMAIN receipts = 1 .. Len(receipts)
         /\ \A i \in DOMAIN receipts : receipts[i] \in Receipts
         /\ DOMAIN receipts \subseteq 1 .. MaxReceipts
<1>1. receipts \in Seq(Receipts) /\ Len(receipts) <= MaxReceipts
  BY DEF TypeOK
<1>2. Len(receipts) \in Nat /\ DOMAIN receipts = 1 .. Len(receipts)
  BY <1>1, LenProperties
<1>3. \A i \in DOMAIN receipts : receipts[i] \in Receipts
  BY <1>1, <1>2, ElementOfSeq
<1> QED BY <1>1, <1>2, <1>3, BoundsAssumption

LEMMA ContextIsTyped ==
  ASSUME TypeOK, NEW w \in Trees, Exists(w)
  PROVE  head[w] \in Refs /\ Context(w) \in Contexts /\ Context(w) # Nothing
<1>1. head[w] \in Refs
  BY DEF TypeOK, Exists
<1> QED BY <1>1, NothingAssumption DEF Context, Contexts

LEMMA ReceiptFields ==
  ASSUME NEW i \in Receipts
  PROVE  /\ i.flow \in Runs /\ i.from \in Contexts /\ i.to \in Contexts \cup {Nothing}
         /\ i.revision \in 1 .. MaxRevision
  BY DEF Receipts

\* What a transition commits comes after all that has been committed.
LEMMA LoggedIs ==
  ASSUME TypeOK, NEW flow \in Flows, NEW w \in Trees, Exists(w), Bounded(w), CanLog(flow),
         NEW kind \in {"bind", "output", "configure", "advance"},
         NEW to \in Contexts \cup {Nothing},
         receipts' = Logged(flow, kind, w, to)
  PROVE  /\ receipts' \in Seq(Receipts) /\ Len(receipts') <= MaxReceipts
         /\ DOMAIN receipts \subseteq DOMAIN receipts'
         /\ \A i \in DOMAIN receipts : receipts'[i] = receipts[i]
         /\ flow = Operator => receipts' = receipts
         /\ flow # Operator =>
              /\ flow \in Runs
              /\ Len(receipts') = Len(receipts) + 1
              /\ DOMAIN receipts' = DOMAIN receipts \cup {Len(receipts) + 1}
              /\ Len(receipts) + 1 \notin DOMAIN receipts
              /\ receipts'[Len(receipts) + 1] =
                   [flow |-> flow, kind |-> kind, from |-> Context(w), to |-> to,
                    revision |-> StateOf(w).revision + 1]
         /\ \A past \in SUBSET DOMAIN receipts :
              /\ Here(past, flow) \subseteq DOMAIN receipts'
              /\ Here(past, flow) \in SUBSET (1 .. MaxReceipts)
              /\ past \subseteq Here(past, flow)
              /\ flow # Operator => Here(past, flow) = past \cup {Len(receipts) + 1}
<1> DEFINE n == Len(receipts) + 1
           x == [flow |-> flow, kind |-> kind, from |-> Context(w), to |-> to,
                 revision |-> StateOf(w).revision + 1]
<1>1. receipts \in Seq(Receipts) /\ Len(receipts) \in Nat /\ Len(receipts) <= MaxReceipts
      /\ DOMAIN receipts = 1 .. Len(receipts) /\ DOMAIN receipts \subseteq 1 .. MaxReceipts
  BY DomainIs DEF TypeOK
<1>2. CASE flow = Operator
  BY <1>1, <1>2 DEF Logged, Here
<1>3. CASE flow # Operator
  <2>1. flow \in Runs /\ Len(receipts) < MaxReceipts /\ receipts' = Append(receipts, x)
    BY <1>3 DEF Flows, CanLog, Logged
  <2>2. StateOf(w).revision + 1 \in 1 .. MaxRevision
    BY StateOfIsTyped, BoundsAssumption DEF Bounded
  <2>3. x \in Receipts
    BY <2>1, <2>2, ContextIsTyped DEF Receipts
  <2> HIDE DEF x
  <2>4. /\ receipts' \in Seq(Receipts) /\ Len(receipts') = n
        /\ \A i \in 1 .. Len(receipts) : receipts'[i] = receipts[i]
        /\ receipts'[n] = x
    BY <1>1, <2>1, <2>3, AppendProperties
  <2>5. DOMAIN receipts' = 1 .. n
    BY <2>4, LenProperties
  <2>6. n <= MaxReceipts /\ n \in 1 .. MaxReceipts /\ n \notin DOMAIN receipts
        /\ DOMAIN receipts' = DOMAIN receipts \cup {n}
    BY <1>1, <2>1, <2>5, BoundsAssumption
  <2>7. \A past : Here(past, flow) = past \cup {n}
    BY <1>3 DEF Here
  <2> HIDE DEF n
  <2>8. \A past \in SUBSET DOMAIN receipts :
          /\ Here(past, flow) \subseteq DOMAIN receipts'
          /\ Here(past, flow) \in SUBSET (1 .. MaxReceipts)
          /\ past \subseteq Here(past, flow)
          /\ flow # Operator => Here(past, flow) = past \cup {n}
    BY <1>1, <2>6, <2>7
  <2>9. /\ receipts' \in Seq(Receipts) /\ Len(receipts') <= MaxReceipts
        /\ DOMAIN receipts \subseteq DOMAIN receipts'
        /\ \A i \in DOMAIN receipts : receipts'[i] = receipts[i]
    BY <1>1, <2>4, <2>6
  <2> USE DEF n, x
  <2> QED BY <1>3, <2>1, <2>4, <2>6, <2>8, <2>9, Zenon
<1> QED BY <1>2, <1>3

LEMMA LeastOfNaturals ==
  ASSUME NEW T, T \subseteq Nat, T # {}
  PROVE  \E m \in T : \A n \in T : m <= n
<1>1. PICK m \in T : \A n \in T : ~ (<<n, m>> \in OpToRel(<, Nat))
  BY NatLessThanWellFounded, WFMin
<1>2. ASSUME NEW n \in T PROVE m <= n
  <2>1. <<n, m>> \in Nat \X Nat
    OBVIOUS
  <2>2. ~ (n < m)
    BY <1>1, <2>1 DEF OpToRel
  <2> QED BY <2>1, <2>2
<1> QED BY <1>2

\* The greatest of some receipts is one of them.
LEMMA GreatestIsOne ==
  ASSUME NEW S, S \subseteq Nat, S # {}, NEW bound \in Nat, \A i \in S : i <= bound
  PROVE  Max(S) \in S /\ \A i \in S : i <= Max(S)
<1> DEFINE D == {d \in Nat : bound - d \in S}
<1>1. PICK some \in S : TRUE
  OBVIOUS
<1>2. bound - (bound - some) = some /\ bound - some \in Nat
  OBVIOUS
<1>3. D \subseteq Nat /\ D # {}
  <2>1. bound - some \in D
    BY <1>2
  <2> QED BY <2>1
<1>4. PICK d \in D : \A e \in D : d <= e
  <2> HIDE DEF D
  <2> QED BY <1>3, LeastOfNaturals
<1>5. bound - d \in S /\ d \in Nat
  BY <1>4
<1>6. ASSUME NEW i \in S PROVE bound - d >= i
  <2>1. i \in Nat /\ bound - i \in Nat /\ bound - (bound - i) = i
    OBVIOUS
  <2>2. bound - i \in D
    BY <2>1
  <2> HIDE DEF D
  <2>3. d <= bound - i
    BY <1>4, <2>2
  <2> QED BY <1>5, <2>1, <2>3
<1>7. \E m \in S : \A i \in S : m >= i
  BY <1>5, <1>6
<1>8. Max(S) \in S /\ \A i \in S : Max(S) >= i
  BY <1>7 DEF Max
<1> QED BY <1>8

-----------------------------------------------------------------------------
(* What a step makes of the worktrees. *)

Revision(w) == StateOf(w).revision

LEMMA NewStateIs ==
  ASSUME NEW u \in Trees
  PROVE  /\ state'[u] = state[u] => /\ IsActive(u)' = IsActive(u) /\ Link(u)' = Link(u)
                                    /\ Revision(u)' = Revision(u)
         /\ state'[u] = Nothing => IsActive(u)' = FALSE /\ Link(u)' = NoLink
         /\ \A s \in States : state'[u] = s =>
              IsActive(u)' = s.active /\ Link(u)' = s.link /\ Revision(u)' = s.revision
  BY FreshIsTyped, NothingAssumption DEF StateOf, IsActive, Link, Revision

LEMMA OriginFields ==
  ASSUME NEW o \in Origins, NEW past \in SUBSET (1 .. MaxReceipts),
         NEW ref \in Refs \cup {Nothing}
  PROVE  /\ [o EXCEPT !.past = past] \in Origins
         /\ [o EXCEPT !.past = past].run = o.run /\ [o EXCEPT !.past = past].ref = o.ref
         /\ [o EXCEPT !.past = past].past = past
         /\ [o EXCEPT !.ref = ref] \in Origins
         /\ [o EXCEPT !.ref = ref].run = o.run /\ [o EXCEPT !.ref = ref].past = o.past
         /\ [o EXCEPT !.ref = ref].ref = ref
         /\ [o EXCEPT !.ref = ref, !.past = past] \in Origins
         /\ [o EXCEPT !.ref = ref, !.past = past].run = o.run
         /\ [o EXCEPT !.ref = ref, !.past = past].ref = ref
         /\ [o EXCEPT !.ref = ref, !.past = past].past = past
  BY DEF Origins

LEMMA NoOriginIsTyped ==
  NoOrigin \in Origins /\ NoOrigin.run = Nothing /\ NoOrigin.past = {}
  BY DEF NoOrigin, Origins

LEMMA OriginIsTyped ==
  ASSUME TypeOK, NEW w \in Trees
  PROVE  /\ origin[w] \in Origins
         /\ origin[w].run \in Runs \cup {Nothing}
         /\ origin[w].ref \in Refs \cup {Nothing}
         /\ origin[w].past \subseteq DOMAIN receipts
         /\ origin[w].past \in SUBSET (1 .. MaxReceipts)
  BY DEF TypeOK, Origins

LEMMA MovedIs ==
  ASSUME TypeOK, NEW w \in Trees, NEW v \in Trees, w # v, NEW flow \in Flows,
         NEW ref \in Refs, Here(origin[w].past, flow) \in SUBSET (1 .. MaxReceipts),
         origin' = Moved(w, v, flow, ref)
  PROVE  /\ origin' \in [Trees -> Origins]
         /\ \A u \in Trees :
              /\ origin'[u].run = origin[IF u = v THEN w ELSE u].run
              /\ origin'[u].ref = IF u = v THEN ref ELSE origin[u].ref
              /\ origin'[u].past = IF u \in {v, w} THEN Here(origin[w].past, flow)
                                                   ELSE origin[u].past
<1> DEFINE past == Here(origin[w].past, flow)
           there == [origin[w] EXCEPT !.ref = ref, !.past = past]
           here == [origin[w] EXCEPT !.past = past]
<1>1. /\ there \in Origins /\ there.run = origin[w].run /\ there.ref = ref /\ there.past = past
      /\ here \in Origins /\ here.run = origin[w].run /\ here.ref = origin[w].ref
      /\ here.past = past
  <2>1. past \in SUBSET (1 .. MaxReceipts) /\ origin[w] \in Origins /\ ref \in Refs \cup {Nothing}
    BY OriginIsTyped
  <2> HIDE DEF past
  <2> QED BY <2>1 DEF Origins
<1>2. origin \in [Trees -> Origins]
  BY DEF TypeOK
<1>3. origin' = [origin EXCEPT ![v] = there, ![w] = here]
  BY DEF Moved
<1> HIDE DEF there, here, past
<1>4. /\ origin' \in [Trees -> Origins]
      /\ \A u \in Trees : origin'[u] = IF u = w THEN here ELSE IF u = v THEN there ELSE origin[u]
  BY <1>1, <1>2, <1>3
<1> QED BY <1>1, <1>4 DEF past

\* A step leaves the worktrees outside a set as they are.
KeptBut(S) ==
  \A u \in Trees \ S : /\ head'[u] = head[u] /\ state'[u] = state[u] /\ origin'[u] = origin[u]
                       /\ IsActive(u)' = IsActive(u) /\ Link(u)' = Link(u)
                       /\ Revision(u)' = Revision(u)

LEMMA BundleIsTyped ==
  ASSUME TypeOK, NEW w \in Trees
  PROVE  /\ Bundle(w) \in 0 .. MaxReceipts
         /\ Bundle(w) # 0 => Bundle(w) \in origin[w].past /\ receipts[Bundle(w)].kind = "configure"
<1> DEFINE S == {i \in origin[w].past : receipts[i].kind = "configure"} \cup {0}
<1>1. S \subseteq Nat /\ S # {} /\ \A i \in S : i <= MaxReceipts
  BY OriginIsTyped, BoundsAssumption
<1>2. Max(S) \in S /\ Bundle(w) = Max(S)
  <2>1. Bundle(w) = Max(S)
    BY DEF Bundle
  <2> HIDE DEF S
  <2> QED BY <1>1, <2>1, GreatestIsOne, BoundsAssumption
<1> QED BY <1>1, <1>2, BoundsAssumption

LEMMA GrantIsTyped ==
  ASSUME TypeOK, NEW run \in Runs, NEW w \in Trees, Exists(w),
         grant' = [grant EXCEPT ![run] = [context |-> Context(w), bundle |-> Bundle(w)]]
  PROVE  /\ grant' \in [Runs -> Grants \cup {Nothing}]
         /\ grant'[run] # Nothing /\ grant'[run].context = Context(w)
         /\ grant'[run].bundle = Bundle(w)
         /\ \A r \in Runs \ {run} : grant'[r] = grant[r]
<1>1. [context |-> Context(w), bundle |-> Bundle(w)] \in Grants
  BY ContextIsTyped, BundleIsTyped DEF Grants
<1>2. grant \in [Runs -> Grants \cup {Nothing}]
  BY DEF TypeOK
<1> QED BY <1>1, <1>2, NothingAssumption

LEMMA AuthorizeIs ==
  ASSUME TypeOK, NEW run \in Runs, NEW w \in Trees, Authorize(run, w) \/ Reproject(run, w)
  PROVE  TypeOK' /\ KeptBut({})
<1>1. Exists(w) /\ grant' = [grant EXCEPT ![run] = [context |-> Context(w), bundle |-> Bundle(w)]]
      /\ UNCHANGED <<head, state, receipts, pending, origin, live, mixed, loose, disturbances>>
  BY DEF Authorize, Reproject
<1>2. TypeOK'
  BY <1>1, GrantIsTyped DEF TypeOK
<1> QED BY <1>1, <1>2, NewStateIs DEF KeptBut

LEMMA SwitchIs ==
  ASSUME TypeOK, NEW w \in Trees, Switch(w)
  PROVE  /\ TypeOK'
         /\ UNCHANGED <<state, receipts, grant, pending, origin, live, mixed, loose>>
         /\ \A u \in Trees \ {w} : head'[u] = head[u]
         /\ Exists(w) /\ head'[w] \in Refs
         /\ head'[w] \in {Elsewhere, IF w \in FirstTrees THEN Ref(w) ELSE Link(w).branch}
         /\ w \in FirstTrees \/ Link(w) # NoLink
         /\ \A u \in Trees : Exists(u)' <=> Exists(u)
<1>1. w \in FirstTrees => Ref(w) \in Refs
  BY DEF Refs
<1>2. w \notin FirstTrees => Link(w).branch \in Refs
  BY LinkFields, StateOfIsTyped DEF Refs, Switch, Link
<1>3. Elsewhere \in Refs
  BY DEF Refs
<1>4. head'[w] \in Refs
      /\ head'[w] \in {Elsewhere, IF w \in FirstTrees THEN Ref(w) ELSE Link(w).branch}
  BY <1>1, <1>2, <1>3 DEF Switch, TypeOK, Link
<1>5. head' \in [Trees -> Refs \cup {Nothing}]
  BY <1>4 DEF Switch, TypeOK
<1>6. TypeOK'
  BY <1>5, BoundsAssumption DEF Switch, TypeOK
<1>7. \A u \in Trees \ {w} : head'[u] = head[u]
  BY DEF Switch, TypeOK
<1>8. Exists(w) /\ Exists(w)'
  BY <1>4, NamesAssumption DEF Switch, Exists
<1> QED BY <1>4, <1>6, <1>7, <1>8 DEF Switch, Exists, Link

LEMMA FinishIs ==
  ASSUME TypeOK, NEW w \in Trees, Finish(w)
  PROVE  /\ TypeOK' /\ KeptBut({w})
         /\ IsActive(w) /\ IsActive(w)' = FALSE /\ Link(w)' = Link(w)
         /\ live' = live \ {origin[w].run}
         /\ pending = Nothing
         /\ UNCHANGED <<head, receipts, grant, pending, origin, mixed, loose>>
<1> DEFINE s == [state[w] EXCEPT !.revision = @ + 1, !.active = FALSE]
<1>1. state[w] \in States /\ StateOf(w) = state[w] /\ IsActive(w)
  BY StateOfIsTyped DEF Finish
<1>2. s \in States /\ s.active = FALSE /\ s.link = Link(w)
  BY <1>1, FinishedIsTyped DEF Finish, Bounded, Link
<1>3. state' = [state EXCEPT ![w] = s]
  BY DEF Finish
<1>4. state \in [Trees -> States \cup {Nothing}]
  BY DEF TypeOK
<1> HIDE DEF s
<1>5. state' \in [Trees -> States \cup {Nothing}] /\ state'[w] = s
      /\ \A u \in Trees \ {w} : state'[u] = state[u]
  BY <1>2, <1>3, <1>4
<1>6. TypeOK'
  BY <1>5 DEF Finish, TypeOK
<1>7. IsActive(w)' = FALSE /\ Link(w)' = Link(w)
  BY <1>2, <1>5, NewStateIs
<1> QED BY <1>1, <1>5, <1>6, <1>7, NewStateIs DEF Finish, IsOpen, KeptBut

LEMMA StepIs ==
  ASSUME TypeOK, NEW run \in Runs, NEW w \in Trees, NEW kind \in {"output", "configure"},
         Step(run, w, kind)
  PROVE  /\ TypeOK' /\ KeptBut({w})
         /\ IsActive(w) /\ IsActive(w)' /\ Link(w)' = Link(w)
         /\ Revision(w)' = Revision(w) + 1
         /\ origin'[w].run = origin[w].run /\ origin'[w].ref = origin[w].ref
         /\ origin'[w].past = origin[w].past \cup {Len(receipts) + 1}
         /\ receipts' = Logged(run, kind, w, Nothing)
         /\ Exists(w) /\ Bounded(w) /\ CanLog(run) /\ MayAct(run, w) /\ pending = Nothing
         /\ UNCHANGED <<head, grant, pending, live, mixed, loose>>
<1> DEFINE s == [state[w] EXCEPT !.revision = @ + 1]
           o == [origin[w] EXCEPT !.past = Here(@, run)]
<1>1. state[w] \in States /\ StateOf(w) = state[w] /\ IsActive(w)
  BY StateOfIsTyped DEF Step
<1>2. run \in Flows /\ run # Operator /\ Exists(w)
  BY NamesAssumption DEF Flows, Step, IsOpen
<1>3. /\ receipts' \in Seq(Receipts) /\ Len(receipts') <= MaxReceipts
      /\ DOMAIN receipts \subseteq DOMAIN receipts'
      /\ \A past \in SUBSET DOMAIN receipts :
           /\ Here(past, run) \subseteq DOMAIN receipts'
           /\ Here(past, run) \in SUBSET (1 .. MaxReceipts)
           /\ Here(past, run) = past \cup {Len(receipts) + 1}
  BY <1>2, LoggedIs DEF Step
<1>4. state[w].revision + 1 \in 1 .. MaxRevision
  BY <1>1, StateOfIsTyped, BoundsAssumption DEF Step, Bounded
<1>5. s \in States /\ s.active = TRUE /\ s.link = Link(w) /\ s.revision = Revision(w) + 1
  BY <1>1, <1>4, RevisedIsTyped DEF Link, Revision, IsActive
<1>6. o \in Origins /\ o.run = origin[w].run /\ o.ref = origin[w].ref
      /\ o.past = origin[w].past \cup {Len(receipts) + 1}
      /\ o.past \subseteq DOMAIN receipts'
  BY <1>3, OriginIsTyped DEF Origins
<1>7. state' = [state EXCEPT ![w] = s] /\ origin' = [origin EXCEPT ![w] = o]
  BY DEF Step
<1> HIDE DEF s, o
<1>8. /\ state' \in [Trees -> States \cup {Nothing}] /\ origin' \in [Trees -> Origins]
      /\ state'[w] = s /\ origin'[w] = o
      /\ \A u \in Trees \ {w} : state'[u] = state[u] /\ origin'[u] = origin[u]
  BY <1>5, <1>6, <1>7 DEF TypeOK
<1>9. \A u \in Trees : origin'[u].past \subseteq DOMAIN receipts'
  BY <1>3, <1>6, <1>8 DEF TypeOK
<1>10. TypeOK'
  BY <1>3, <1>8, <1>9 DEF Step, TypeOK
<1>11. IsActive(w)' = TRUE /\ Link(w)' = Link(w) /\ Revision(w)' = Revision(w) + 1
  BY <1>5, <1>8, NewStateIs
<1>12. KeptBut({w})
  BY <1>8, NewStateIs DEF Step, KeptBut
<1> QED BY <1>1, <1>2, <1>6, <1>8, <1>10, <1>11, <1>12 DEF Step, IsOpen

LEMMA BindIs ==
  ASSUME TypeOK, NEW run \in Runs, NEW w \in Trees, Bind(run, w)
  PROVE  /\ TypeOK' /\ KeptBut({w})
         /\ IsActive(w) = FALSE /\ IsActive(w)' = TRUE /\ Link(w)' = NoLink
         /\ Revision(w)' = Revision(w) + 1
         /\ origin'[w].run = run /\ origin'[w].ref = head[w]
         /\ origin'[w].past = origin[w].past \cup {Len(receipts) + 1}
         /\ receipts' = Logged(run, "bind", w, Nothing)
         /\ live' = live \cup {run}
         /\ Exists(w) /\ Bounded(w) /\ CanLog(run) /\ MayAct(run, w) /\ pending = Nothing
         /\ UNCHANGED <<head, grant, pending, mixed, loose>>
         /\ OneAtATime => ~IsParked(w) /\ \A v \in Trees : IsActive(v) => origin[v].run # run
<1> DEFINE s == [Fresh EXCEPT !.revision = StateOf(w).revision + 1,
                              !.delivery = Delivery(run), !.active = TRUE]
           o == [run |-> run, ref |-> head[w], past |-> Here(origin[w].past, run)]
<1>1. run \in Flows /\ run # Operator /\ Exists(w)
  BY NamesAssumption DEF Flows, Bind, IsOpen
<1>2. /\ receipts' \in Seq(Receipts) /\ Len(receipts') <= MaxReceipts
      /\ DOMAIN receipts \subseteq DOMAIN receipts'
      /\ \A past \in SUBSET DOMAIN receipts :
           /\ Here(past, run) \subseteq DOMAIN receipts'
           /\ Here(past, run) \in SUBSET (1 .. MaxReceipts)
           /\ Here(past, run) = past \cup {Len(receipts) + 1}
  BY <1>1, LoggedIs DEF Bind
<1>3. StateOf(w).revision + 1 \in 1 .. MaxRevision
  BY StateOfIsTyped, BoundsAssumption DEF Bind, Bounded
<1>4. s \in States /\ s.active = TRUE /\ s.link = NoLink /\ s.revision = Revision(w) + 1
  BY <1>3, BoundIsTyped DEF Revision
<1>5. o \in Origins /\ o.past = origin[w].past \cup {Len(receipts) + 1}
      /\ o.past \subseteq DOMAIN receipts'
  BY <1>1, <1>2, OriginIsTyped, ContextIsTyped DEF Origins
<1>6. o.run = run /\ o.ref = head[w]
  OBVIOUS
<1>7. state' = [state EXCEPT ![w] = s] /\ origin' = [origin EXCEPT ![w] = o]
  BY DEF Bind
<1> HIDE DEF s, o
<1>8. /\ state' \in [Trees -> States \cup {Nothing}] /\ origin' \in [Trees -> Origins]
      /\ state'[w] = s /\ origin'[w] = o
      /\ \A u \in Trees \ {w} : state'[u] = state[u] /\ origin'[u] = origin[u]
  BY <1>4, <1>5, <1>7 DEF TypeOK
<1>9. \A u \in Trees : origin'[u].past \subseteq DOMAIN receipts'
  BY <1>2, <1>5, <1>8 DEF TypeOK
<1>10. TypeOK'
  BY <1>2, <1>8, <1>9 DEF Bind, TypeOK
<1>11. IsActive(w)' = TRUE /\ Link(w)' = NoLink /\ Revision(w)' = Revision(w) + 1
  BY <1>4, <1>8, NewStateIs
<1>12. KeptBut({w})
  BY <1>8, NewStateIs DEF Bind, KeptBut
<1>13. IsActive(w) = FALSE
  BY StateOfIsTyped DEF Bind
<1> QED BY <1>1, <1>5, <1>6, <1>8, <1>10, <1>11, <1>12, <1>13 DEF Bind, IsOpen

LEMMA EscalateIs ==
  ASSUME TypeOK, NEW flow \in Flows, NEW w \in Trees, Escalate(flow, w)
  PROVE  /\ TypeOK' /\ KeptBut({w})
         /\ IsActive(w)' = IsActive(w) /\ Link(w)' = Link(w)
         /\ Revision(w)' = Revision(w) + 1
         /\ pending # Nothing /\ pending' = Nothing
         /\ live' = live \ {pending.run}
         /\ UNCHANGED <<head, receipts, grant, origin, mixed, loose>>
<1> DEFINE s == [StateOf(w) EXCEPT !.revision = @ + 1, !.escalated = TRUE]
<1>1. s \in States /\ s.active = IsActive(w) /\ s.link = Link(w) /\ s.revision = Revision(w) + 1
  BY StateOfIsTyped, EscalatedIsTyped DEF Escalate, Bounded, IsActive, Link, Revision
<1>2. state' = [state EXCEPT ![w] = s]
  BY DEF Escalate
<1> HIDE DEF s
<1>3. /\ state' \in [Trees -> States \cup {Nothing}] /\ state'[w] = s
      /\ \A u \in Trees \ {w} : state'[u] = state[u]
  BY <1>1, <1>2 DEF TypeOK
<1>4. TypeOK'
  BY <1>3 DEF Escalate, TypeOK
<1>5. IsActive(w)' = IsActive(w) /\ Link(w)' = Link(w) /\ Revision(w)' = Revision(w) + 1
  BY <1>1, <1>3, NewStateIs
<1> QED BY <1>3, <1>4, <1>5, NewStateIs DEF Escalate, KeptBut

\* What a transfer records as its source.
CutLink(w, b) == [branch |-> b, tree |-> w, ref |-> head[w]]

LEMMA CanCutIs ==
  ASSUME TypeOK, NEW flow \in Flows, NEW w \in Trees, NEW v \in Trees, NEW b \in Branches,
         CanCut(flow, w, v, b)
  PROVE  /\ w # v /\ Exists(w) /\ ~Exists(v) /\ pending = Nothing
         /\ IsActive(w) = TRUE /\ Link(w) = NoLink
         /\ state[w] \in States /\ StateOf(w) = state[w]
         /\ state[w].active = TRUE /\ state[w].link = NoLink
         /\ state[w].revision + 1 \in 1 .. MaxRevision
         /\ Cutting(flow, w, v, b) \in Cuts
         /\ Cutting(flow, w, v, b).link = CutLink(w, b)
         /\ CutLink(w, b) \in Links /\ CutLink(w, b) # NoLink
         /\ b \in Refs /\ b # Nothing
<1>1. Exists(w) /\ ~Exists(v) /\ pending = Nothing /\ IsActive(w) /\ Link(w) = NoLink
      /\ StateOf(w).revision < MaxRevision
  BY DEF CanCut, IsOpen, Link, Bounded
<1>2. state[w] \in States /\ StateOf(w) = state[w] /\ StateOf(w).revision \in 1 .. MaxRevision
      /\ IsActive(w) \in BOOLEAN
  BY <1>1, StateOfIsTyped
<1>3. state[w].active = TRUE /\ state[w].link = NoLink
  BY <1>1, <1>2 DEF IsActive, Link
<1>4. state[w].revision + 1 \in 1 .. MaxRevision
  BY <1>1, <1>2, BoundsAssumption
<1>5. head[w] \in Refs /\ b \in Refs /\ b # Nothing
  BY <1>1, ContextIsTyped, NamesAssumption DEF Refs
<1>6. CutLink(w, b) \in Links /\ CutLink(w, b) # NoLink
  BY <1>5, LinkIsNoNoLink DEF CutLink
<1>7. Cutting(flow, w, v, b) \in Cuts /\ Cutting(flow, w, v, b).link = CutLink(w, b)
  <2>1. origin[w].run \in Runs \cup {Nothing}
    BY OriginIsTyped
  <2> QED BY <1>2, <1>6, <2>1 DEF Cutting, Cuts, CutLink
<1> QED BY <1>1, <1>2, <1>3, <1>4, <1>5, <1>6, <1>7

\* The delivery of w in v, and w parked.
Transfers(w, v, flow, run, link) ==
  /\ w # v
  /\ IsActive(w)' = FALSE /\ Link(w)' = NoLink
  /\ IsActive(v)' = TRUE /\ Link(v)' = link
  /\ origin'[w].run = origin[w].run
  /\ origin'[v].run = run
  /\ origin'[v].ref = link.branch
  /\ origin'[v].past = Here(origin[w].past, flow)

LEMMA CutIs ==
  ASSUME TypeOK, NEW flow \in Flows, NEW w \in Trees, NEW v \in Trees, NEW b \in Branches,
         Cut(flow, w, v, b)
  PROVE  /\ TypeOK' /\ KeptBut({w, v})
         /\ Transfers(w, v, flow, origin[w].run, CutLink(w, b))
         /\ Revision(w)' = Revision(w) + 1 /\ Revision(v)' = Revision(w) + 1
         /\ IsActive(w) /\ Link(w) = NoLink /\ Exists(w) /\ ~Exists(v) /\ pending = Nothing
         /\ CutLink(w, b) \in Links /\ CutLink(w, b) # NoLink
         /\ head'[w] = head[w] /\ head'[v] = b /\ b # Nothing
         /\ receipts' = Logged(flow, "advance", w, [tree |-> v, ref |-> b])
         /\ [tree |-> v, ref |-> b] \in Contexts
         /\ MayAct(flow, w) /\ Bounded(w) /\ CanLog(flow)
         /\ Mixes(flow, origin[w].run)
         /\ UNCHANGED <<grant, pending, live, loose>>
<1> DEFINE r == state[w].revision + 1
           parked == ParkedSource(state[w], r)
           moved == Transferred(state[w], r, CutLink(w, b))
           to == [tree |-> v, ref |-> b]
<1>1. CanCut(flow, w, v, b) /\ CanLog(flow)
  BY DEF Cut
<1>2. /\ w # v /\ Exists(w) /\ ~Exists(v) /\ pending = Nothing
      /\ IsActive(w) = TRUE /\ Link(w) = NoLink
      /\ state[w] \in States /\ StateOf(w) = state[w]
      /\ state[w].active = TRUE
      /\ r \in 1 .. MaxRevision
      /\ Cutting(flow, w, v, b).link = CutLink(w, b)
      /\ CutLink(w, b) \in Links /\ CutLink(w, b) # NoLink
      /\ b \in Refs /\ b # Nothing
  BY <1>1, CanCutIs
<1>3. to \in Contexts /\ MayAct(flow, w) /\ Bounded(w)
  BY <1>1, <1>2 DEF Contexts, CanCut
<1>4. receipts' = Logged(flow, "advance", w, to)
  BY DEF Cut
<1>5. /\ receipts' \in Seq(Receipts) /\ Len(receipts') <= MaxReceipts
      /\ DOMAIN receipts \subseteq DOMAIN receipts'
      /\ \A past \in SUBSET DOMAIN receipts :
           /\ Here(past, flow) \subseteq DOMAIN receipts'
           /\ Here(past, flow) \in SUBSET (1 .. MaxReceipts)
  <2> HIDE DEF to
  <2> QED BY <1>1, <1>2, <1>3, <1>4, LoggedIs
<1>6. /\ parked \in States /\ parked.active = FALSE /\ parked.link = NoLink
      /\ parked.revision = Revision(w) + 1
      /\ moved \in States /\ moved.active = TRUE /\ moved.link = CutLink(w, b)
      /\ moved.revision = Revision(w) + 1
  <2>1. r \in 1 .. MaxRevision /\ r = Revision(w) + 1
    BY <1>2 DEF Revision
  <2> HIDE DEF r
  <2>2. /\ parked \in States /\ parked.active = FALSE /\ parked.link = NoLink
        /\ parked.revision = r
    BY <2>1, ParkedIsTyped
  <2>3. /\ moved \in States /\ moved.active = TRUE /\ moved.link = CutLink(w, b)
        /\ moved.revision = r
    BY <1>2, <2>1, TransferredIsTyped
  <2> QED BY <2>1, <2>2, <2>3
<1>7. state' = [state EXCEPT ![w] = parked, ![v] = moved]
  BY <1>2 DEF Cut
<1> HIDE DEF parked, moved
<1>8. /\ state' \in [Trees -> States \cup {Nothing}]
      /\ state'[w] = parked /\ state'[v] = moved
      /\ \A u \in Trees \ {w, v} : state'[u] = state[u]
  BY <1>2, <1>6, <1>7 DEF TypeOK
<1>9. /\ origin' \in [Trees -> Origins]
      /\ \A u \in Trees :
           /\ origin'[u].run = origin[IF u = v THEN w ELSE u].run
           /\ origin'[u].ref = IF u = v THEN b ELSE origin[u].ref
           /\ origin'[u].past = IF u \in {v, w} THEN Here(origin[w].past, flow)
                                                ELSE origin[u].past
  <2>1. Here(origin[w].past, flow) \in SUBSET (1 .. MaxReceipts)
    BY <1>5, OriginIsTyped
  <2>2. origin' = Moved(w, v, flow, b)
    BY DEF Cut
  <2> QED BY <1>2, <2>1, <2>2, MovedIs
<1>10. \A u \in Trees : origin'[u].past \subseteq DOMAIN receipts'
  BY <1>5, <1>9, OriginIsTyped
<1>11. /\ head' \in [Trees -> Refs \cup {Nothing}] /\ head'[v] = b /\ head'[w] = head[w]
       /\ \A u \in Trees \ {v} : head'[u] = head[u]
  BY <1>2 DEF Cut, TypeOK
<1>12. mixed' \subseteq Flows \cup {Nothing} /\ disturbances' \in 0 .. MaxDisturbances
  BY OriginIsTyped, BoundsAssumption DEF Cut, Mixes, Disturbs, TypeOK, Flows
<1>13. TypeOK'
  BY <1>5, <1>8, <1>9, <1>10, <1>11, <1>12 DEF Cut, TypeOK
<1>14. /\ IsActive(w)' = FALSE /\ Link(w)' = NoLink /\ Revision(w)' = Revision(w) + 1
       /\ IsActive(v)' = TRUE /\ Link(v)' = CutLink(w, b) /\ Revision(v)' = Revision(w) + 1
  BY <1>6, <1>8, NewStateIs
<1>15. Transfers(w, v, flow, origin[w].run, CutLink(w, b))
  BY <1>2, <1>9, <1>14 DEF Transfers, CutLink
<1>16. \A u \in Trees \ {w, v} : origin'[u] = origin[u]
  <2>1. origin' = Moved(w, v, flow, b)
    BY DEF Cut
  <2> QED BY <2>1 DEF Moved, TypeOK
<1>17. KeptBut({w, v})
  BY <1>8, <1>11, <1>16, NewStateIs DEF KeptBut
<1> QED BY <1>1, <1>2, <1>3, <1>4, <1>11, <1>13, <1>14, <1>15, <1>17 DEF Cut

LEMMA CutStopsIs ==
  ASSUME TypeOK, NEW flow \in Flows, NEW w \in Trees, NEW v \in Trees, NEW b \in Branches,
         NEW done \in 0 .. 3, CutStops(flow, w, v, b, done)
  PROVE  /\ TypeOK' /\ KeptBut({w, v})
         /\ w # v /\ Exists(w) /\ ~Exists(v) /\ pending = Nothing
         /\ IsActive(w) = TRUE /\ Link(w) = NoLink
         /\ pending' = Cutting(flow, w, v, b) /\ pending' \in Cuts
         /\ pending'.link = CutLink(w, b)
         /\ CutLink(w, b) \in Links /\ CutLink(w, b) # NoLink
         /\ pending'.prior \in States /\ pending'.prior.active = TRUE
         /\ pending'.prior.link = NoLink /\ pending'.prior.revision = Revision(w)
         /\ head'[w] = head[w] /\ origin'[w] = origin[w]
         /\ head'[v] \in {head[v], b}
         /\ Link(w)' = NoLink /\ Revision(w)' \in {Revision(w), Revision(w) + 1}
         /\ IsActive(w)' \in BOOLEAN
         /\ \/ /\ origin'[v] = origin[v]
               /\ IsActive(v)' = IsActive(v) /\ Link(v)' = Link(v)
            \/ /\ IsActive(w)' = FALSE /\ IsActive(v)' = TRUE /\ Link(v)' = CutLink(w, b)
               /\ origin'[v].run = origin[w].run
         /\ MayAct(flow, w)
         /\ mixed' = IF head[w] = origin[w].ref THEN mixed ELSE mixed \cup {origin[w].run}
         /\ UNCHANGED <<receipts, grant, live, loose>>
<1> DEFINE r == state[w].revision + 1
           parked == IF done < 2 THEN state[w] ELSE ParkedSource(state[w], r)
           moved == IF done < 3 THEN state[v] ELSE Transferred(state[w], r, CutLink(w, b))
           o == IF done < 3 THEN origin[v] ELSE [origin[w] EXCEPT !.ref = b]
           h == IF done = 0 THEN head[v] ELSE b
<1>1. CanCut(flow, w, v, b) /\ MayAct(flow, w)
  BY DEF CutStops, CanCut
<1>2. /\ w # v /\ Exists(w) /\ ~Exists(v) /\ pending = Nothing
      /\ IsActive(w) = TRUE /\ Link(w) = NoLink
      /\ state[w] \in States /\ StateOf(w) = state[w]
      /\ state[w].active = TRUE /\ state[w].link = NoLink
      /\ r \in 1 .. MaxRevision
      /\ Cutting(flow, w, v, b) \in Cuts
      /\ Cutting(flow, w, v, b).link = CutLink(w, b)
      /\ CutLink(w, b) \in Links /\ CutLink(w, b) # NoLink
      /\ b \in Refs /\ b # Nothing
  BY <1>1, CanCutIs
<1>3. pending' = Cutting(flow, w, v, b) /\ Cutting(flow, w, v, b).prior = state[w]
  BY DEF CutStops, Cutting
<1>m. /\ mixed' \subseteq Flows \cup {Nothing} /\ disturbances' \in 0 .. MaxDisturbances
      /\ mixed' = IF head[w] = origin[w].ref THEN mixed ELSE mixed \cup {origin[w].run}
      /\ UNCHANGED <<receipts, grant, live, loose>>
  BY OriginIsTyped, BoundsAssumption DEF CutStops, TypeOK, Flows
<1>4. r \in 1 .. MaxRevision /\ r = Revision(w) + 1 /\ state[w].revision = Revision(w)
  BY <1>2 DEF Revision
<1>5. /\ parked \in States /\ parked.link = NoLink /\ parked.active = (done < 2)
      /\ parked.revision \in {Revision(w), Revision(w) + 1}
  <2> HIDE DEF r
  <2>1. CASE done < 2
    BY <1>2, <1>4, <2>1
  <2>2. CASE ~(done < 2)
    <3>1. /\ ParkedSource(state[w], r) \in States
          /\ ParkedSource(state[w], r).active = FALSE /\ ParkedSource(state[w], r).link = NoLink
          /\ ParkedSource(state[w], r).revision = r
      BY <1>4, ParkedIsTyped
    <3>2. parked = ParkedSource(state[w], r) /\ (done < 2) = FALSE
      BY <2>2
    <3> HIDE DEF parked
    <3> QED BY <1>4, <3>1, <3>2
  <2> QED BY <2>1, <2>2
<1>6. CASE done < 3
  <2>1. moved = state[v] /\ o = origin[v]
    BY <1>6
  <2>2. state' = [state EXCEPT ![w] = parked, ![v] = moved]
    BY <1>2, <1>3 DEF CutStops
  <2>3. origin' = [origin EXCEPT ![v] = o] /\ head' = [head EXCEPT ![v] = h]
    BY <1>2 DEF CutStops, TypeOK
  <2> HIDE DEF parked, moved, o
  <2>4. /\ state' \in [Trees -> States \cup {Nothing}] /\ state'[w] = parked
        /\ \A u \in Trees \ {w} : state'[u] = state[u]
    BY <1>2, <1>5, <2>1, <2>2 DEF TypeOK
  <2>5. origin' = origin
    BY <2>1, <2>3 DEF TypeOK
  <2>6. /\ head' \in [Trees -> Refs \cup {Nothing}] /\ head'[v] = h
        /\ \A u \in Trees \ {v} : head'[u] = head[u]
    BY <1>2, <2>3 DEF TypeOK
  <2>7. TypeOK'
    BY <1>2, <1>3, <1>m, <2>4, <2>5, <2>6 DEF TypeOK
  <2>8. /\ IsActive(w)' \in BOOLEAN /\ Link(w)' = NoLink
        /\ Revision(w)' \in {Revision(w), Revision(w) + 1}
    <3>1. IsActive(w)' = parked.active /\ Link(w)' = parked.link /\ Revision(w)' = parked.revision
      BY <1>5, <2>4, NewStateIs
    <3>2. parked.active \in BOOLEAN
      BY <1>5 DEF States
    <3> QED BY <1>5, <3>1, <3>2
  <2>9. KeptBut({w, v}) /\ IsActive(v)' = IsActive(v) /\ Link(v)' = Link(v)
    BY <1>2, <2>4, <2>5, <2>6, NewStateIs DEF KeptBut
  <2> QED BY <1>1, <1>2, <1>3, <1>4, <1>6, <1>m, <2>4, <2>5, <2>6, <2>7, <2>8, <2>9
<1>7. CASE done = 3
  <2>1. /\ moved = Transferred(state[w], r, CutLink(w, b)) /\ o = [origin[w] EXCEPT !.ref = b]
    BY <1>7
  <2>2. state' = [state EXCEPT ![w] = parked, ![v] = moved]
    BY <1>2, <1>3, <1>7 DEF CutStops
  <2>3. origin' = [origin EXCEPT ![v] = o] /\ head' = [head EXCEPT ![v] = h]
    BY <1>2, <1>7 DEF CutStops
  <2>4. moved \in States /\ moved.active = TRUE /\ moved.link = CutLink(w, b)
    <3> HIDE DEF r, moved
    <3> QED BY <1>2, <1>4, <2>1, TransferredIsTyped
  <2>5. o \in Origins /\ o.run = origin[w].run /\ o.past = origin[w].past
    BY <1>2, <2>1, OriginIsTyped DEF Origins
  <2> HIDE DEF parked, moved, o
  <2>6. /\ state' \in [Trees -> States \cup {Nothing}] /\ state'[w] = parked
        /\ state'[v] = moved
        /\ \A u \in Trees \ {w, v} : state'[u] = state[u]
    BY <1>2, <1>5, <2>2, <2>4 DEF TypeOK
  <2>7. /\ origin' \in [Trees -> Origins] /\ origin'[v] = o
        /\ \A u \in Trees \ {v} : origin'[u] = origin[u]
    BY <2>3, <2>5 DEF TypeOK
  <2>8. /\ head' \in [Trees -> Refs \cup {Nothing}] /\ head'[v] = h
        /\ \A u \in Trees \ {v} : head'[u] = head[u]
    BY <1>2, <1>7, <2>3 DEF TypeOK
  <2>9. \A u \in Trees : origin'[u].past \subseteq DOMAIN receipts
    BY <2>5, <2>7, OriginIsTyped
  <2>10. TypeOK'
    BY <1>2, <1>3, <1>m, <2>6, <2>7, <2>8, <2>9 DEF TypeOK
  <2>11. /\ IsActive(w)' = FALSE /\ Link(w)' = NoLink
         /\ Revision(w)' \in {Revision(w), Revision(w) + 1}
    <3>1. IsActive(w)' = parked.active /\ Link(w)' = parked.link /\ Revision(w)' = parked.revision
      BY <1>5, <2>6, NewStateIs
    <3>2. (done < 2) = FALSE
      BY <1>7
    <3> QED BY <1>5, <3>1, <3>2
  <2>13. IsActive(v)' = TRUE /\ Link(v)' = CutLink(w, b)
    BY <2>4, <2>6, NewStateIs
  <2>12. KeptBut({w, v})
    BY <2>6, <2>7, <2>8, NewStateIs DEF KeptBut
  <2> QED BY <1>1, <1>2, <1>3, <1>4, <1>7, <1>m, <2>5, <2>7, <2>8, <2>10, <2>11, <2>12, <2>13
<1>8. done < 3 \/ done = 3
  OBVIOUS
<1> QED BY <1>6, <1>7, <1>8, Zenon

LEMMA CutFields ==
  ASSUME TypeOK, pending # Nothing, pending.transition = "workspace.cut"
  PROVE  /\ pending \in Cuts
         /\ pending.tree \in Trees /\ pending.to \in Trees /\ pending.flow \in Flows
         /\ pending.branch \in Branches /\ pending.branch \in Refs
         /\ pending.run \in Runs \cup {Nothing}
         /\ pending.prior \in States /\ pending.link \in Links
<1>1. pending \in Cuts \cup Removals
  BY DEF TypeOK
<1>2. pending \notin Removals
  BY DEF Removals
<1> QED BY <1>1, <1>2 DEF Cuts, Refs

LEMMA ReconcilesIs ==
  ASSUME TypeOK, NEW flow \in Flows, NEW u \in Trees, ReconcileCut(flow, u)
  PROVE  /\ pending # Nothing /\ pending \in Cuts /\ pending' = Nothing
         /\ Exists(u) /\ MayAct(flow, u) /\ Bounded(u) /\ CanLog(flow)
         /\ Revision(u) + 1 \in 1 .. MaxRevision
         /\ mixed' \subseteq Flows \cup {Nothing} /\ disturbances' \in 0 .. MaxDisturbances
         /\ IF u = pending.tree THEN Mixes(flow, pending.run)
                                ELSE mixed' = mixed \cup {flow, pending.run}
         /\ UNCHANGED <<head, grant, live, loose>>
<1>1. pending # Nothing /\ pending.transition = "workspace.cut" /\ MayAct(flow, u) /\ Bounded(u)
      /\ CanLog(flow) /\ Disturbs(flow)
      /\ pending' = Nothing /\ UNCHANGED <<head, grant, live, loose>>
      /\ IF u = pending.tree THEN Mixes(flow, pending.run)
                             ELSE mixed' = mixed \cup {flow, pending.run}
  BY DEF ReconcileCut
<1>2. pending \in Cuts /\ pending.run \in Runs \cup {Nothing}
  BY <1>1, CutFields
<1>3. Revision(u) + 1 \in 1 .. MaxRevision
  BY <1>1, StateOfIsTyped, BoundsAssumption DEF Bounded, Revision
<1>4. mixed' \subseteq Flows \cup {Nothing} /\ disturbances' \in 0 .. MaxDisturbances
  BY <1>1, <1>2, BoundsAssumption DEF Mixes, Disturbs, TypeOK, Flows
<1> QED BY <1>1, <1>2, <1>3, <1>4 DEF MayAct

LEMMA CompletedIs ==
  ASSUME TypeOK, NEW flow \in Flows, NEW u \in Trees, ReconcileCut(flow, u),
         NEW w, NEW v, w = pending.tree, v = pending.to, w # v, Exists(v),
         pending.prior.active = TRUE, pending.link.branch = pending.branch
  PROVE  /\ TypeOK' /\ KeptBut({w, v})
         /\ head[v] = pending.branch
         /\ Transfers(w, v, flow, origin[w].run, pending.link)
         /\ Revision(w)' = Revision(u) + 1 /\ Revision(v)' = Revision(u) + 1
         /\ receipts' = Logged(flow, "advance", u, [tree |-> v, ref |-> pending.branch])
         /\ [tree |-> v, ref |-> pending.branch] \in Contexts
<1> DEFINE r == Revision(u) + 1
           parked == ParkedSource(pending.prior, r)
           moved == Transferred(pending.prior, r, pending.link)
           b == pending.branch
           to == [tree |-> v, ref |-> b]
<1>1. /\ pending # Nothing /\ pending \in Cuts /\ pending' = Nothing
      /\ Exists(u) /\ MayAct(flow, u) /\ Bounded(u) /\ CanLog(flow)
      /\ r \in 1 .. MaxRevision
      /\ mixed' \subseteq Flows \cup {Nothing} /\ disturbances' \in 0 .. MaxDisturbances
      /\ UNCHANGED <<head, grant, live, loose>>
  BY ReconcilesIs
<1>2. /\ w \in Trees /\ v \in Trees /\ b \in Refs
      /\ pending.prior \in States /\ pending.link \in Links
  BY <1>1, CutFields DEF Cuts
<1>3. /\ head[v] = b
      /\ state' = [state EXCEPT ![w] = parked, ![v] = moved]
      /\ receipts' = Logged(flow, "advance", u, to)
      /\ origin' = Moved(w, v, flow, b)
  BY DEF ReconcileCut, Revision
<1>4. to \in Contexts
  BY <1>2 DEF Contexts
<1>5. /\ receipts' \in Seq(Receipts) /\ Len(receipts') <= MaxReceipts
      /\ DOMAIN receipts \subseteq DOMAIN receipts'
      /\ \A past \in SUBSET DOMAIN receipts :
           /\ Here(past, flow) \subseteq DOMAIN receipts'
           /\ Here(past, flow) \in SUBSET (1 .. MaxReceipts)
  <2> HIDE DEF to
  <2> QED BY <1>1, <1>3, <1>4, LoggedIs
<1>6. /\ parked \in States /\ parked.active = FALSE /\ parked.link = NoLink
      /\ parked.revision = r
      /\ moved \in States /\ moved.active = TRUE /\ moved.link = pending.link
      /\ moved.revision = r
  <2>1. r \in 1 .. MaxRevision
    BY <1>1
  <2> HIDE DEF r
  <2>2. /\ parked \in States /\ parked.active = FALSE /\ parked.link = NoLink
        /\ parked.revision = r
    BY <2>1, ParkedIsTyped
  <2>3. /\ moved \in States /\ moved.active = TRUE /\ moved.link = pending.link
        /\ moved.revision = r
    BY <1>2, <2>1, TransferredIsTyped
  <2> QED BY <2>2, <2>3
<1> HIDE DEF parked, moved
<1>7. /\ state' \in [Trees -> States \cup {Nothing}]
      /\ state'[w] = parked /\ state'[v] = moved
      /\ \A x \in Trees \ {w, v} : state'[x] = state[x]
  BY <1>2, <1>3, <1>6 DEF TypeOK
<1>8. /\ origin' \in [Trees -> Origins]
      /\ \A x \in Trees :
           /\ origin'[x].run = origin[IF x = v THEN w ELSE x].run
           /\ origin'[x].ref = IF x = v THEN b ELSE origin[x].ref
           /\ origin'[x].past = IF x \in {v, w} THEN Here(origin[w].past, flow)
                                                ELSE origin[x].past
  <2>1. Here(origin[w].past, flow) \in SUBSET (1 .. MaxReceipts)
    BY <1>2, <1>5, OriginIsTyped
  <2> HIDE DEF b
  <2> QED BY <1>2, <1>3, <2>1, MovedIs
<1>9. \A x \in Trees : origin'[x].past \subseteq DOMAIN receipts'
  BY <1>2, <1>5, <1>8, OriginIsTyped
<1>10. TypeOK'
  BY <1>1, <1>5, <1>7, <1>8, <1>9 DEF TypeOK
<1>11. /\ IsActive(w)' = FALSE /\ Link(w)' = NoLink /\ Revision(w)' = r
       /\ IsActive(v)' = TRUE /\ Link(v)' = pending.link /\ Revision(v)' = r
  BY <1>2, <1>6, <1>7, NewStateIs
<1>12. Transfers(w, v, flow, origin[w].run, pending.link)
  BY <1>2, <1>8, <1>11 DEF Transfers
<1>13. \A x \in Trees \ {w, v} : origin'[x] = origin[x]
  BY <1>2, <1>3 DEF Moved, TypeOK
<1>14. KeptBut({w, v})
  BY <1>1, <1>7, <1>13, NewStateIs DEF KeptBut
<1> QED BY <1>3, <1>4, <1>10, <1>11, <1>12, <1>14

\* The cut of w to v as if it had not begun.
Undoes(w, v, flow) ==
  /\ IsActive(w)' = pending.prior.active /\ Link(w)' = pending.prior.link
  /\ Revision(w)' = Revision(w) + 1
  /\ IsActive(v)' = FALSE /\ Link(v)' = NoLink
  /\ origin'[w].run = origin[w].run /\ origin'[w].ref = origin[w].ref
  /\ origin'[w].past = Here(origin[w].past, flow)
  /\ origin'[v] = origin[v]

LEMMA UndoneIs ==
  ASSUME TypeOK, NEW flow \in Flows, NEW u \in Trees, ReconcileCut(flow, u),
         NEW w, NEW v, w = pending.tree, v = pending.to, w # v, ~Exists(v)
  PROVE  /\ TypeOK' /\ KeptBut({w, v})
         /\ u = w
         /\ Undoes(w, v, flow)
         /\ receipts' = Logged(flow, "advance", w, Context(w))
<1> DEFINE r == Revision(u) + 1
           back == [pending.prior EXCEPT !.revision = r]
           o == [origin[w] EXCEPT !.past = Here(@, flow)]
           to == Context(w)
<1>1. /\ pending # Nothing /\ pending \in Cuts /\ pending' = Nothing
      /\ Exists(u) /\ MayAct(flow, u) /\ Bounded(u) /\ CanLog(flow)
      /\ r \in 1 .. MaxRevision
      /\ mixed' \subseteq Flows \cup {Nothing} /\ disturbances' \in 0 .. MaxDisturbances
      /\ UNCHANGED <<head, grant, live, loose>>
  BY ReconcilesIs
<1>2. /\ w \in Trees /\ v \in Trees /\ pending.prior \in States
  BY <1>1, CutFields DEF Cuts
<1>3. /\ u = w
      /\ state' = [state EXCEPT ![w] = back, ![v] = Nothing]
      /\ receipts' = Logged(flow, "advance", w, to)
      /\ origin' = [origin EXCEPT ![w] = o]
  BY DEF ReconcileCut, Revision
<1>4. to \in Contexts
  BY <1>1, <1>2, <1>3, ContextIsTyped
<1>5. /\ receipts' \in Seq(Receipts) /\ Len(receipts') <= MaxReceipts
      /\ DOMAIN receipts \subseteq DOMAIN receipts'
      /\ \A past \in SUBSET DOMAIN receipts :
           /\ Here(past, flow) \subseteq DOMAIN receipts'
           /\ Here(past, flow) \in SUBSET (1 .. MaxReceipts)
  <2>1. Exists(w) /\ Bounded(w) /\ w \in Trees /\ to \in Contexts \cup {Nothing}
    BY <1>1, <1>2, <1>3, <1>4
  <2>2. CanLog(flow) /\ receipts' = Logged(flow, "advance", w, to)
    BY <1>1, <1>3
  <2> HIDE DEF to
  <2>3. ASSUME NEW x \in Trees, NEW c \in Contexts \cup {Nothing},
               Exists(x), Bounded(x), receipts' = Logged(flow, "advance", x, c)
        PROVE  /\ receipts' \in Seq(Receipts) /\ Len(receipts') <= MaxReceipts
               /\ DOMAIN receipts \subseteq DOMAIN receipts'
               /\ \A past \in SUBSET DOMAIN receipts :
                    /\ Here(past, flow) \subseteq DOMAIN receipts'
                    /\ Here(past, flow) \in SUBSET (1 .. MaxReceipts)
    BY <2>2, <2>3, LoggedIs
  <2> QED BY <2>1, <2>2, <2>3
<1>6. /\ back \in States /\ back.active = pending.prior.active
      /\ back.link = pending.prior.link /\ back.revision = r
  <2>1. r \in 1 .. MaxRevision
    BY <1>1
  <2> HIDE DEF r
  <2> QED BY <1>2, <2>1, RevisedIsTyped
<1>7. o \in Origins /\ o.run = origin[w].run /\ o.ref = origin[w].ref
      /\ o.past = Here(origin[w].past, flow) /\ o.past \subseteq DOMAIN receipts'
  BY <1>2, <1>5, OriginIsTyped DEF Origins
<1> HIDE DEF back, o
<1>8. /\ state' \in [Trees -> States \cup {Nothing}]
      /\ state'[w] = back /\ state'[v] = Nothing
      /\ \A x \in Trees \ {w, v} : state'[x] = state[x]
  BY <1>2, <1>3, <1>6 DEF TypeOK
<1>9. /\ origin' \in [Trees -> Origins] /\ origin'[w] = o
      /\ \A x \in Trees \ {w} : origin'[x] = origin[x]
  BY <1>2, <1>3, <1>7 DEF TypeOK
<1>10. \A x \in Trees : origin'[x].past \subseteq DOMAIN receipts'
  BY <1>2, <1>5, <1>7, <1>9, OriginIsTyped
<1>11. TypeOK'
  BY <1>1, <1>5, <1>8, <1>9, <1>10 DEF TypeOK
<1>12. /\ IsActive(w)' = pending.prior.active /\ Link(w)' = pending.prior.link
       /\ Revision(w)' = r /\ IsActive(v)' = FALSE /\ Link(v)' = NoLink
  BY <1>2, <1>6, <1>8, NewStateIs
<1>13. KeptBut({w, v})
  BY <1>1, <1>2, <1>8, <1>9, NewStateIs DEF KeptBut
<1>14. Undoes(w, v, flow)
  BY <1>2, <1>3, <1>7, <1>9, <1>12 DEF Undoes
<1> QED BY <1>3, <1>11, <1>13, <1>14

LEMMA CanReturnIs ==
  ASSUME TypeOK, NEW flow \in Flows, NEW w \in Trees, CanReturn(flow, w)
  PROVE  /\ Exists(w) /\ pending = Nothing /\ MayAct(flow, w) /\ Bounded(w)
         /\ Link(w) # NoLink /\ Link(w).tree \in Trees
         /\ state[w] \in States /\ StateOf(w) = state[w] /\ state[w].link = Link(w)
         /\ Exists(Link(w).tree)
         /\ head[Link(w).tree] = Link(w).ref /\ head[w] = Link(w).branch
         /\ Returned(state[w]) \in States
         /\ Returned(state[w]).active = IsActive(w) /\ Returned(state[w]).link = NoLink
         /\ Returned(state[w]).revision = Revision(w) + 1
         /\ Context(Link(w).tree) \in Contexts /\ Context(w) \in Contexts
         /\ flow \in Runs => IsActive(w)
<1>1. /\ Exists(w) /\ pending = Nothing /\ MayAct(flow, w) /\ Bounded(w) /\ Link(w) # NoLink
      /\ flow \in Runs => IsActive(w)
  BY DEF CanReturn, IsOpen, Link
<1>2. Link(w).tree \in Trees /\ Link(w).ref \in Refs /\ state[w] \in States
      /\ StateOf(w) = state[w]
  BY <1>1, StateOfIsTyped, LinkFields
<1>3. state[w].link = Link(w) /\ state[w].revision < MaxRevision
      /\ state[w].active = IsActive(w) /\ state[w].revision = Revision(w)
  BY <1>1, <1>2 DEF Link, Bounded, IsActive, Revision
<1>4. head[Link(w).tree] = Link(w).ref /\ head[w] = Link(w).branch
  BY <1>3 DEF CanReturn
<1>5. Exists(Link(w).tree)
  BY <1>2, <1>4, NamesAssumption DEF Exists
<1>6. /\ Returned(state[w]) \in States
      /\ Returned(state[w]).active = IsActive(w) /\ Returned(state[w]).link = NoLink
      /\ Returned(state[w]).revision = Revision(w) + 1
  BY <1>2, <1>3, ReturnedIsTyped
<1>7. Context(Link(w).tree) \in Contexts /\ Context(w) \in Contexts
  BY <1>1, <1>2, <1>5, ContextIsTyped
<1> QED BY <1>1, <1>2, <1>3, <1>4, <1>5, <1>6, <1>7

\* The delivery of the linked worktree w back in s.
Brings(w, s, flow) ==
  /\ IsActive(w)' = FALSE /\ Link(w)' = NoLink
  /\ IsActive(s)' = IsActive(w) /\ Link(s)' = NoLink /\ Revision(s)' = Revision(w) + 1
  /\ origin'[s].run = origin[w].run /\ origin'[s].ref = head[s]
  /\ origin'[s].past = Here(origin[w].past, flow)

LEMMA ReturnIs ==
  ASSUME TypeOK, NEW flow \in Flows, NEW w \in Trees, Return(flow, w),
         NEW s, s = Link(w).tree, s # w
  PROVE  /\ TypeOK' /\ KeptBut({w, s})
         /\ Exists(w) /\ Exists(s) /\ pending = Nothing /\ Link(w) # NoLink /\ s \in Trees
         /\ head[s] = Link(w).ref /\ head[w] = Link(w).branch
         /\ head'[w] = Nothing /\ head'[s] = head[s]
         /\ Brings(w, s, flow)
         /\ receipts' = Logged(flow, "advance", w, Context(s))
         /\ Context(s) \in Contexts
         /\ MayAct(flow, w) /\ Bounded(w) /\ CanLog(flow)
         /\ flow \in Runs => IsActive(w)
         /\ Mixes(flow, origin[w].run)
         /\ UNCHANGED <<grant, pending, live>>
<1> DEFINE back == Returned(state[w])
           o == [origin[w] EXCEPT !.ref = head[s], !.past = Here(@, flow)]
           to == Context(s)
<1>1. CanReturn(flow, w) /\ CanLog(flow)
  BY DEF Return
<1>2. /\ Exists(w) /\ pending = Nothing /\ MayAct(flow, w) /\ Bounded(w)
      /\ Link(w) # NoLink /\ s \in Trees
      /\ state[w].link = Link(w)
      /\ Exists(s) /\ head[s] = Link(w).ref /\ head[w] = Link(w).branch
      /\ back \in States /\ back.active = IsActive(w) /\ back.link = NoLink
      /\ back.revision = Revision(w) + 1
      /\ to \in Contexts /\ Context(w) \in Contexts
      /\ flow \in Runs => IsActive(w)
  BY <1>1, CanReturnIs
<1>3. /\ head' = [head EXCEPT ![w] = Nothing]
      /\ state' = [state EXCEPT ![w] = Nothing, ![s] = back]
      /\ receipts' = Logged(flow, "advance", w, to)
      /\ origin' = [origin EXCEPT ![s] = o, ![w] = NoOrigin]
      /\ loose' \in {loose, loose \cup {Context(w)}}
  BY <1>2 DEF Return
<1>4. /\ receipts' \in Seq(Receipts) /\ Len(receipts') <= MaxReceipts
      /\ DOMAIN receipts \subseteq DOMAIN receipts'
      /\ \A past \in SUBSET DOMAIN receipts :
           /\ Here(past, flow) \subseteq DOMAIN receipts'
           /\ Here(past, flow) \in SUBSET (1 .. MaxReceipts)
  <2> HIDE DEF to
  <2>1. to \in Contexts \cup {Nothing}
    BY <1>2
  <2> QED BY <1>1, <1>2, <1>3, <2>1, LoggedIs
<1>5. o \in Origins /\ o.run = origin[w].run /\ o.ref = head[s]
      /\ o.past = Here(origin[w].past, flow) /\ o.past \subseteq DOMAIN receipts'
  <2>1. head[s] \in Refs \cup {Nothing}
    BY <1>2 DEF TypeOK
  <2> QED BY <1>4, <2>1, OriginIsTyped DEF Origins
<1> HIDE DEF back, o
<1>6. /\ state' \in [Trees -> States \cup {Nothing}]
      /\ state'[w] = Nothing /\ state'[s] = back
      /\ \A x \in Trees \ {w, s} : state'[x] = state[x]
  BY <1>2, <1>3 DEF TypeOK
<1>7. /\ origin' \in [Trees -> Origins] /\ origin'[s] = o /\ origin'[w] = NoOrigin
      /\ \A x \in Trees \ {w, s} : origin'[x] = origin[x]
  BY <1>2, <1>3, <1>5, NoOriginIsTyped DEF TypeOK
<1>8. \A x \in Trees : origin'[x].past \subseteq DOMAIN receipts'
  BY <1>4, <1>5, <1>7, OriginIsTyped, NoOriginIsTyped
<1>9. /\ head' \in [Trees -> Refs \cup {Nothing}] /\ head'[w] = Nothing
      /\ \A x \in Trees \ {w} : head'[x] = head[x]
  BY <1>3 DEF TypeOK
<1>10. mixed' \subseteq Flows \cup {Nothing} /\ disturbances' \in 0 .. MaxDisturbances
       /\ loose' \subseteq Contexts
  BY <1>2, <1>3, OriginIsTyped, BoundsAssumption DEF Return, Mixes, Disturbs, TypeOK, Flows
<1>11. TypeOK'
  BY <1>4, <1>6, <1>7, <1>8, <1>9, <1>10 DEF Return, TypeOK
<1>12. /\ IsActive(w)' = FALSE /\ Link(w)' = NoLink
       /\ IsActive(s)' = IsActive(w) /\ Link(s)' = NoLink /\ Revision(s)' = Revision(w) + 1
  BY <1>2, <1>6, NewStateIs
<1>13. KeptBut({w, s})
  BY <1>6, <1>7, <1>9, NewStateIs DEF KeptBut
<1>14. Brings(w, s, flow)
  BY <1>2, <1>5, <1>7, <1>12 DEF Brings
<1> QED BY <1>1, <1>2, <1>3, <1>9, <1>11, <1>13, <1>14 DEF Return

LEMMA ReturnStopsIs ==
  ASSUME TypeOK, NEW flow \in Flows, NEW w \in Trees, NEW done \in 0 .. 3,
         ReturnStops(flow, w, done),
         NEW s, s = Link(w).tree, s # w
  PROVE  /\ TypeOK' /\ KeptBut({w, s})
         /\ Exists(w) /\ Exists(s) /\ pending = Nothing /\ Link(w) # NoLink /\ s \in Trees
         /\ head'[w] \in {head[w], Nothing} /\ head'[s] = head[s]
         /\ \/ /\ IsActive(w)' = IsActive(w) /\ Link(w)' = Link(w) /\ origin'[w] = origin[w]
               /\ IsActive(s)' = IsActive(s) /\ Link(s)' = Link(s) /\ origin'[s] = origin[s]
            \/ /\ IsActive(w)' = FALSE /\ Link(w)' = NoLink
               /\ IsActive(s)' = IsActive(s) /\ Link(s)' = Link(s) /\ origin'[s] = origin[s]
            \/ /\ IsActive(w)' = FALSE /\ Link(w)' = NoLink
               /\ IsActive(s)' = IsActive(w) /\ Link(s)' = NoLink
               /\ origin'[s].run = origin[w].run
         /\ pending' = [transition |-> "workspace.cleanup", tree |-> w, run |-> origin[w].run]
         /\ mixed' = mixed \cup {origin[w].run}
         /\ UNCHANGED <<receipts, grant, live>>
<1> DEFINE back == IF done < 3 THEN state[s] ELSE Returned(state[w])
           gone == IF done < 2 THEN state[w] ELSE Nothing
           o == IF done < 3 THEN origin[s] ELSE [origin[w] EXCEPT !.ref = head[s]]
           p == IF done < 2 THEN origin[w] ELSE NoOrigin
           h == IF done = 0 THEN head[w] ELSE Nothing
<1>1. CanReturn(flow, w)
  BY DEF ReturnStops
<1>2. /\ Exists(w) /\ pending = Nothing /\ Link(w) # NoLink /\ s \in Trees
      /\ state[w] \in States /\ state[w].link = Link(w) /\ Exists(s)
      /\ Returned(state[w]) \in States
      /\ Returned(state[w]).active = IsActive(w) /\ Returned(state[w]).link = NoLink
      /\ Context(w) \in Contexts
  BY <1>1, CanReturnIs
<1>3. /\ head' = [head EXCEPT ![w] = h]
      /\ state' = [state EXCEPT ![w] = gone, ![s] = back]
      /\ origin' = [origin EXCEPT ![s] = o, ![w] = p]
      /\ loose' \in {loose, loose \cup {Context(w)}}
      /\ pending' = [transition |-> "workspace.cleanup", tree |-> w, run |-> origin[w].run]
  BY <1>2 DEF ReturnStops, TypeOK
<1>4. /\ back \in States \cup {Nothing} /\ gone \in States \cup {Nothing}
      /\ h \in Refs \cup {Nothing} /\ h \in {head[w], Nothing}
  BY <1>2 DEF TypeOK
<1>5. /\ o \in Origins /\ o.past \subseteq DOMAIN receipts
      /\ p \in Origins /\ p.past \subseteq DOMAIN receipts
  <2>1. head[s] \in Refs \cup {Nothing}
    BY <1>2 DEF TypeOK
  <2>2. /\ [origin[w] EXCEPT !.ref = head[s]] \in Origins
        /\ [origin[w] EXCEPT !.ref = head[s]].past = origin[w].past
    BY <2>1, OriginIsTyped DEF Origins
  <2> QED BY <1>2, <2>2, OriginIsTyped, NoOriginIsTyped
<1>6. /\ done < 3 => back = state[s] /\ o = origin[s]
      /\ done = 3 => back = Returned(state[w]) /\ o.run = origin[w].run
      /\ done < 2 => gone = state[w] /\ p = origin[w]
      /\ ~(done < 2) => gone = Nothing
  BY OriginIsTyped DEF Origins
<1> HIDE DEF back, gone, o, p, h
<1>7. /\ state' \in [Trees -> States \cup {Nothing}]
      /\ state'[w] = gone /\ state'[s] = back
      /\ \A x \in Trees \ {w, s} : state'[x] = state[x]
  BY <1>2, <1>3, <1>4 DEF TypeOK
<1>8. /\ origin' \in [Trees -> Origins] /\ origin'[s] = o /\ origin'[w] = p
      /\ \A x \in Trees \ {w, s} : origin'[x] = origin[x]
  BY <1>2, <1>3, <1>5 DEF TypeOK
<1>9. \A x \in Trees : origin'[x].past \subseteq DOMAIN receipts
  BY <1>5, <1>8, OriginIsTyped
<1>10. /\ head' \in [Trees -> Refs \cup {Nothing}] /\ head'[w] = h
       /\ \A x \in Trees \ {w} : head'[x] = head[x]
  BY <1>3, <1>4 DEF TypeOK
<1>11. pending' \in Removals /\ mixed' \subseteq Flows \cup {Nothing} /\ loose' \subseteq Contexts
       /\ disturbances' \in 0 .. MaxDisturbances
  BY <1>2, <1>3, OriginIsTyped, BoundsAssumption DEF ReturnStops, TypeOK, Flows, Removals
<1>12. TypeOK'
  BY <1>7, <1>8, <1>9, <1>10, <1>11 DEF ReturnStops, TypeOK
<1>13. KeptBut({w, s})
  BY <1>7, <1>8, <1>10, NewStateIs DEF KeptBut
<1>14. done < 2 \/ done = 2 \/ done = 3
  OBVIOUS
<1>15. CASE done < 2
  <2>1. done < 3
    BY <1>15
  <2>2. state'[w] = state[w] /\ state'[s] = state[s] /\ origin'[w] = origin[w]
        /\ origin'[s] = origin[s]
    BY <1>6, <1>7, <1>8, <1>15, <2>1
  <2>3. /\ IsActive(w)' = IsActive(w) /\ Link(w)' = Link(w)
        /\ IsActive(s)' = IsActive(s) /\ Link(s)' = Link(s)
    BY <1>2, <2>2, NewStateIs
  <2> QED BY <1>2, <1>3, <1>4, <1>10, <1>12, <1>13, <2>2, <2>3 DEF ReturnStops
<1>16. CASE done = 2
  <2>1. done < 3 /\ ~(done < 2)
    BY <1>16
  <2>2. state'[w] = Nothing /\ state'[s] = state[s] /\ origin'[s] = origin[s]
    BY <1>6, <1>7, <1>8, <2>1
  <2>3. /\ IsActive(w)' = FALSE /\ Link(w)' = NoLink
        /\ IsActive(s)' = IsActive(s) /\ Link(s)' = Link(s)
    BY <1>2, <2>2, NewStateIs
  <2> QED BY <1>2, <1>3, <1>4, <1>10, <1>12, <1>13, <2>2, <2>3 DEF ReturnStops
<1>17. CASE done = 3
  <2>1. ~(done < 2)
    BY <1>17
  <2>2. state'[w] = Nothing /\ state'[s] = Returned(state[w]) /\ origin'[s].run = origin[w].run
    BY <1>6, <1>7, <1>8, <1>17, <2>1
  <2>3. /\ IsActive(w)' = FALSE /\ Link(w)' = NoLink
        /\ IsActive(s)' = IsActive(w) /\ Link(s)' = NoLink
    BY <1>2, <2>2, NewStateIs
  <2> QED BY <1>2, <1>3, <1>4, <1>10, <1>12, <1>13, <2>2, <2>3 DEF ReturnStops
<1> QED BY <1>14, <1>15, <1>16, <1>17

-----------------------------------------------------------------------------
(* Where the deliveries are. *)

\* A worktree with a delivery holds that of a run, and no other holds it.
Holdings ==
  /\ \A w \in Trees : IsActive(w) => origin[w].run \in Runs
  /\ \A w, u \in Trees :
       (IsActive(w) /\ IsActive(u) /\ origin[w].run = origin[u].run) => w = u

\* The checkout that a linked worktree returns to waits for it.
Parkings ==
  /\ \A w, s \in Trees : Link(w).tree = s =>
       (s # w /\ Exists(s) /\ ~IsActive(s) /\ Link(s) = NoLink)
  /\ \A w, u, s \in Trees : (Link(w).tree = s /\ Link(u).tree = s) => w = u
  /\ \A w \in FirstTrees : Exists(w) /\ Link(w) = NoLink

Kept ==
  \A run \in live : (pending # Nothing => pending.run # run) =>
    \E w \in Trees : IsActive(w) /\ Exists(w) /\ origin[w].run = run

\* What the journal of an interrupted cut of w to v says, and what it left.
CutIsSound(w, v) ==
  /\ w # v /\ Exists(w) /\ v \notin FirstTrees
  /\ pending.run \in Runs /\ origin[w].run = pending.run
  /\ pending.prior.active = TRUE /\ pending.prior.link = NoLink
  /\ pending.link.branch = pending.branch /\ pending.link.tree = w
  /\ Link(w) = NoLink
  /\ \A u \in Trees : /\ Link(u).tree # v
                      /\ Link(u).tree = w => u = v
                      /\ (u \notin {w, v} /\ IsActive(u)) => origin[u].run # pending.run
  /\ (IsActive(v) /\ origin[v].run \in live) => origin[v].run = pending.run

CutCustody ==
  (pending # Nothing /\ pending.transition = "workspace.cut") =>
    CutIsSound(pending.tree, pending.to)

Custody == Holdings /\ Parkings /\ Kept /\ CutCustody

LEMMA InitialCustody ==
  ASSUME Init
  PROVE  TypeOK /\ Custody
<1>1. \A w \in Trees : state[w] = Nothing
  BY DEF Init
<1>2. \A w \in Trees : IsActive(w) = FALSE /\ Link(w) = NoLink
  BY <1>1, FreshIsTyped DEF StateOf, IsActive, Link
<1>3. NoLink.tree \notin Trees
  BY NamesAssumption DEF NoLink
<1>4. \A w \in FirstTrees : w \in Trees /\ Exists(w)
  BY NamesAssumption DEF Init, Exists, Refs
<1>5. TypeOK
  <2>1. receipts \in Seq(Receipts) /\ Len(receipts) = 0
    BY EmptySeq DEF Init
  <2>2. head \in [Trees -> Refs \cup {Nothing}]
    BY DEF Init, Refs
  <2>3. origin \in [Trees -> Origins] /\ \A w \in Trees : origin[w].past = {}
    BY NoOriginIsTyped DEF Init
  <2> QED BY <2>1, <2>2, <2>3, BoundsAssumption DEF Init, TypeOK
<1>6. Custody
  BY <1>2, <1>3, <1>4 DEF Init, Custody, Holdings, Parkings, Kept, CutCustody
<1> QED BY <1>5, <1>6

\* The conditions of the model that make a transfer one between two worktrees.
LEMMA TransfersAreBetweenTwo ==
  ASSUME TypeOK, Custody, NEW w \in Trees
  PROVE  /\ Link(w) # NoLink => Link(w).tree \in Trees /\ Link(w).tree # w
         /\ (pending # Nothing /\ pending.transition = "workspace.cut") =>
              CutIsSound(pending.tree, pending.to)
<1>1. Link(w) # NoLink => Link(w).tree \in Trees
  BY StateOfIsTyped, LinkFields
<1> QED BY <1>1 DEF Custody, Parkings, CutCustody

LEMMA AuthorizeKeepsCustody ==
  ASSUME TypeOK, Custody, NEW run \in Runs, NEW w \in Trees,
         Authorize(run, w) \/ Reproject(run, w)
  PROVE  TypeOK' /\ Custody'
<1>1. TypeOK' /\ KeptBut({}) /\ pending' = pending /\ live' = live
  BY AuthorizeIs DEF Authorize, Reproject
<1>2. Holdings' /\ Parkings'
  BY <1>1, NamesAssumption DEF KeptBut, Custody, Holdings, Parkings, Exists
<1>3. Kept'
  BY <1>1 DEF KeptBut, Custody, Kept, Exists
<1>4. CutCustody'
  BY <1>1, CutFields DEF KeptBut, Custody, CutCustody, CutIsSound, Exists
<1> QED BY <1>1, <1>2, <1>3, <1>4 DEF Custody

LEMMA BindKeepsCustody ==
  ASSUME TypeOK, Custody, OneAtATime, NEW run \in Runs, NEW w \in Trees, Bind(run, w)
  PROVE  TypeOK' /\ Custody'
<1>1. /\ TypeOK' /\ KeptBut({w})
      /\ IsActive(w) = FALSE /\ IsActive(w)' = TRUE /\ Link(w)' = NoLink
      /\ origin'[w].run = run
      /\ live' = live \cup {run} /\ head' = head
      /\ Exists(w) /\ pending = Nothing /\ pending' = pending
      /\ ~IsParked(w) /\ \A v \in Trees : IsActive(v) => origin[v].run # run
  BY BindIs
<1>2. \A u \in Trees : Link(u).tree # w
  BY <1>1 DEF IsParked, Link
<1>3. NoLink.tree \notin Trees
  BY NamesAssumption DEF NoLink
<1>4. Holdings'
  BY <1>1 DEF KeptBut, Custody, Holdings
<1>5. Parkings'
  BY <1>1, <1>2, <1>3, NamesAssumption DEF KeptBut, Custody, Parkings, Exists
<1>6. Kept'
  BY <1>1 DEF KeptBut, Custody, Kept, Exists
<1>7. CutCustody'
  BY <1>1 DEF CutCustody
<1> QED BY <1>1, <1>4, <1>5, <1>6, <1>7 DEF Custody

LEMMA StepKeepsCustody ==
  ASSUME TypeOK, Custody, NEW run \in Runs, NEW w \in Trees,
         NEW kind \in {"output", "configure"}, Step(run, w, kind)
  PROVE  TypeOK' /\ Custody'
<1>1. /\ TypeOK' /\ KeptBut({w})
      /\ IsActive(w) /\ IsActive(w)' /\ Link(w)' = Link(w)
      /\ origin'[w].run = origin[w].run
      /\ live' = live /\ head' = head /\ pending = Nothing /\ pending' = pending
  BY StepIs
<1>2. Holdings'
  BY <1>1 DEF KeptBut, Custody, Holdings
<1>3. Parkings'
  BY <1>1, NamesAssumption DEF KeptBut, Custody, Parkings, Exists
<1>4. Kept'
  BY <1>1 DEF KeptBut, Custody, Kept, Exists
<1>5. CutCustody'
  BY <1>1 DEF CutCustody
<1> QED BY <1>1, <1>2, <1>3, <1>4, <1>5 DEF Custody

LEMMA FinishKeepsCustody ==
  ASSUME TypeOK, Custody, NEW w \in Trees, Finish(w)
  PROVE  TypeOK' /\ Custody'
<1>1. /\ TypeOK' /\ KeptBut({w})
      /\ IsActive(w) /\ IsActive(w)' = FALSE /\ Link(w)' = Link(w)
      /\ origin' = origin /\ live' = live \ {origin[w].run}
      /\ head' = head /\ pending = Nothing /\ pending' = pending
  BY FinishIs
<1>2. Holdings'
  BY <1>1 DEF KeptBut, Custody, Holdings
<1>3. Parkings'
  BY <1>1, NamesAssumption DEF KeptBut, Custody, Parkings, Exists
<1>4. Kept'
  BY <1>1 DEF KeptBut, Custody, Kept, Exists
<1>5. CutCustody'
  BY <1>1 DEF CutCustody
<1> QED BY <1>1, <1>2, <1>3, <1>4, <1>5 DEF Custody

LEMMA SwitchKeepsCustody ==
  ASSUME TypeOK, Custody, NEW w \in Trees, Switch(w)
  PROVE  TypeOK' /\ Custody'
<1>1. /\ TypeOK'
      /\ UNCHANGED <<state, pending, origin, live>>
      /\ \A u \in Trees : Exists(u)' <=> Exists(u)
  BY SwitchIs
<1>2. \A u \in Trees : IsActive(u)' = IsActive(u) /\ Link(u)' = Link(u)
  BY <1>1, NewStateIs
<1>3. Holdings'
  BY <1>1, <1>2 DEF Custody, Holdings
<1>4. Parkings'
  BY <1>1, <1>2, NamesAssumption DEF Custody, Parkings
<1>5. Kept'
  BY <1>1, <1>2 DEF Custody, Kept
<1>6. CutCustody'
  BY <1>1, <1>2, CutFields DEF Custody, CutCustody, CutIsSound
<1> QED BY <1>1, <1>3, <1>4, <1>5, <1>6 DEF Custody

LEMMA EscalateKeepsCustody ==
  ASSUME TypeOK, Custody, NEW flow \in Flows, NEW w \in Trees, Escalate(flow, w)
  PROVE  TypeOK' /\ Custody'
<1>1. /\ TypeOK' /\ KeptBut({w})
      /\ IsActive(w)' = IsActive(w) /\ Link(w)' = Link(w)
      /\ pending # Nothing /\ pending' = Nothing /\ live' = live \ {pending.run}
      /\ head' = head /\ origin' = origin
  BY EscalateIs
<1>2. \A u \in Trees : IsActive(u)' = IsActive(u) /\ Link(u)' = Link(u)
  BY <1>1 DEF KeptBut
<1>3. Holdings'
  BY <1>1, <1>2 DEF Custody, Holdings
<1>4. Parkings'
  BY <1>1, <1>2, NamesAssumption DEF Custody, Parkings, Exists
<1>5. Kept'
  BY <1>1, <1>2 DEF Custody, Kept, Exists
<1>6. CutCustody'
  BY <1>1 DEF CutCustody
<1> QED BY <1>1, <1>3, <1>4, <1>5, <1>6 DEF Custody

\* A delivery that goes from w to v, where nobody else holds it.
LEMMA TransferKeepsCustody ==
  ASSUME TypeOK, Custody, NEW w \in Trees, NEW v \in Trees, NEW flow \in Flows,
         NEW l \in Links, KeptBut({w, v}), Transfers(w, v, flow, origin[w].run, l), l.tree = w,
         origin[w].run \in Runs,
         \A u \in Trees \ {w, v} : IsActive(u) => origin[u].run # origin[w].run,
         \A u \in Trees : /\ Link(u).tree # v
                          /\ Link(u).tree = w => u = v,
         Exists(w)', Exists(v)', Exists(w), v \notin FirstTrees, Link(w) = NoLink,
         pending' = Nothing, live' = live,
         \A run \in live \ {origin[w].run} :
           \E u \in Trees \ {w, v} : IsActive(u) /\ Exists(u) /\ origin[u].run = run
  PROVE  Custody'
<1>1. /\ w # v /\ IsActive(w)' = FALSE /\ Link(w)' = NoLink
      /\ IsActive(v)' = TRUE /\ Link(v)' = l
      /\ origin'[w].run = origin[w].run /\ origin'[v].run = origin[w].run
  BY DEF Transfers
<1>2. NoLink.tree \notin Trees
  BY NamesAssumption DEF NoLink
<1>3. \A u \in Trees \ {w, v} :
        /\ head'[u] = head[u] /\ origin'[u] = origin[u]
        /\ IsActive(u)' = IsActive(u) /\ Link(u)' = Link(u)
        /\ Exists(u)' <=> Exists(u)
  BY DEF KeptBut, Exists
<1>4. Holdings'
  BY <1>1, <1>3 DEF Custody, Holdings
<1>5. Parkings'
  <2>1. \A u, s \in Trees : Link(u)'.tree = s =>
          (s # u /\ Exists(s)' /\ ~IsActive(s)' /\ Link(s)' = NoLink)
    BY <1>1, <1>2, <1>3 DEF Custody, Parkings
  <2>2. \A u, x, s \in Trees : (Link(u)'.tree = s /\ Link(x)'.tree = s) => u = x
    BY <1>1, <1>2, <1>3 DEF Custody, Parkings
  <2>3. \A u \in FirstTrees : Exists(u)' /\ Link(u)' = NoLink
    BY <1>1, <1>3, NamesAssumption DEF Custody, Parkings
  <2> QED BY <2>1, <2>2, <2>3 DEF Parkings
<1>6. Kept'
  BY <1>1, <1>3 DEF Kept
<1>7. CutCustody'
  BY DEF CutCustody
<1> QED BY <1>4, <1>5, <1>6, <1>7 DEF Custody

LEMMA CutKeepsCustody ==
  ASSUME TypeOK, Custody, NEW flow \in Flows, NEW w \in Trees, NEW v \in Trees,
         NEW b \in Branches, Cut(flow, w, v, b)
  PROVE  TypeOK' /\ Custody'
<1>1. /\ TypeOK' /\ KeptBut({w, v})
      /\ Transfers(w, v, flow, origin[w].run, CutLink(w, b))
      /\ IsActive(w) /\ Link(w) = NoLink /\ Exists(w) /\ ~Exists(v)
      /\ CutLink(w, b) \in Links
      /\ head'[w] = head[w] /\ head'[v] = b /\ b # Nothing
      /\ pending = Nothing /\ pending' = Nothing /\ live' = live
  BY CutIs
<1>2. CutLink(w, b).tree = w
  BY DEF CutLink
<1>3. /\ origin[w].run \in Runs
      /\ \A u \in Trees \ {w, v} : IsActive(u) => origin[u].run # origin[w].run
  BY <1>1 DEF Custody, Holdings
<1>4. \A u \in Trees : Link(u).tree # v /\ Link(u).tree # w
  BY <1>1 DEF Custody, Parkings
<1>5. Exists(w)' /\ Exists(v)' /\ v \notin FirstTrees
  BY <1>1 DEF Exists, Custody, Parkings
<1>6. \A run \in live \ {origin[w].run} :
        \E u \in Trees \ {w, v} : IsActive(u) /\ Exists(u) /\ origin[u].run = run
  BY <1>1 DEF Custody, Kept
<1> QED BY <1>1, <1>2, <1>3, <1>4, <1>5, <1>6, TransferKeepsCustody

LEMMA CutStopsKeepsCustody ==
  ASSUME TypeOK, Custody, NEW flow \in Flows, NEW w \in Trees, NEW v \in Trees,
         NEW b \in Branches, NEW done \in 0 .. 3, CutStops(flow, w, v, b, done)
  PROVE  TypeOK' /\ Custody'
<1> DEFINE run == origin[w].run
<1>1. /\ TypeOK' /\ KeptBut({w, v})
      /\ w # v /\ Exists(w) /\ ~Exists(v) /\ pending = Nothing
      /\ IsActive(w) = TRUE /\ Link(w) = NoLink
      /\ pending' = Cutting(flow, w, v, b)
      /\ pending'.link = CutLink(w, b)
      /\ pending'.prior.active = TRUE /\ pending'.prior.link = NoLink
      /\ head'[w] = head[w] /\ origin'[w] = origin[w]
      /\ Link(w)' = NoLink
      /\ IsActive(w)' \in BOOLEAN
      /\ live' = live
  BY CutStopsIs
<1>2. \/ /\ origin'[v] = origin[v] /\ IsActive(v)' = IsActive(v) /\ Link(v)' = Link(v)
      \/ /\ IsActive(w)' = FALSE /\ IsActive(v)' = TRUE /\ Link(v)' = CutLink(w, b)
         /\ origin'[v].run = run
  BY CutStopsIs
<1>3. /\ pending'.transition = "workspace.cut" /\ pending'.tree = w /\ pending'.to = v
      /\ pending'.branch = b /\ pending'.run = run
      /\ CutLink(w, b).tree = w /\ CutLink(w, b).branch = b
  BY <1>1 DEF Cutting, CutLink
<1>4. \A u \in Trees \ {w, v} :
        /\ head'[u] = head[u] /\ origin'[u] = origin[u]
        /\ IsActive(u)' = IsActive(u) /\ Link(u)' = Link(u)
        /\ Exists(u)' <=> Exists(u)
  BY <1>1 DEF KeptBut, Exists
<1>5. NoLink.tree \notin Trees
  BY NamesAssumption DEF NoLink
<1>6. /\ run \in Runs /\ v \notin FirstTrees
      /\ \A u \in Trees : Link(u).tree # v /\ Link(u).tree # w
      /\ \A u \in Trees \ {w} : IsActive(u) => origin[u].run # run
      /\ IsActive(v) => origin[v].run \notin live
  <2>1. run \in Runs /\ \A u \in Trees \ {w} : IsActive(u) => origin[u].run # run
    BY <1>1 DEF Custody, Holdings
  <2>2. v \notin FirstTrees /\ \A u \in Trees : Link(u).tree # v /\ Link(u).tree # w
    BY <1>1 DEF Custody, Parkings
  <2>3. IsActive(v) => origin[v].run \notin live
    BY <1>1 DEF Custody, Holdings, Kept
  <2> QED BY <2>1, <2>2, <2>3
<1>7. Exists(w)'
  BY <1>1 DEF Exists
<1> HIDE DEF run
<1>8. Holdings'
  BY <1>1, <1>2, <1>4, <1>6 DEF Custody, Holdings, run
<1>9. Parkings'
  <2>1. \A u, s \in Trees : Link(u)'.tree = s =>
          (s # u /\ Exists(s)' /\ ~IsActive(s)' /\ Link(s)' = NoLink)
    BY <1>1, <1>2, <1>3, <1>4, <1>5, <1>6, <1>7 DEF Custody, Parkings
  <2>2. \A u, x, s \in Trees : (Link(u)'.tree = s /\ Link(x)'.tree = s) => u = x
    BY <1>1, <1>2, <1>3, <1>4, <1>5, <1>6 DEF Custody, Parkings
  <2>3. \A u \in FirstTrees : Exists(u)' /\ Link(u)' = NoLink
    BY <1>1, <1>4, <1>6, <1>7, NamesAssumption DEF Custody, Parkings
  <2> QED BY <2>1, <2>2, <2>3 DEF Parkings
<1>10. Kept'
  <2>1. ASSUME NEW r \in live, r # run
        PROVE  \E u \in Trees \ {w, v} : IsActive(u) /\ Exists(u) /\ origin[u].run = r
    BY <1>1, <2>1 DEF Custody, Kept, run
  <2>2. \A r \in live : pending'.run # r => r # run
    BY <1>3
  <2>3. pending' # Nothing
    BY <1>1, CutStopsIs, NothingAssumption
  <2>4. ASSUME NEW r \in live, r # run
        PROVE  \E u \in Trees : IsActive(u)' /\ Exists(u)' /\ origin'[u].run = r
    BY <1>4, <2>1, <2>4
  <2> QED BY <1>1, <2>2, <2>3, <2>4 DEF Kept
<1>11. CutIsSound(w, v)'
  <2>1. \A u \in Trees : /\ Link(u)'.tree # v
                         /\ Link(u)'.tree = w => u = v
    BY <1>1, <1>2, <1>3, <1>4, <1>5, <1>6
  <2>2. \A u \in Trees \ {w, v} : IsActive(u)' => origin'[u].run # run
    BY <1>4, <1>6
  <2>3. (IsActive(v)' /\ origin'[v].run \in live') => origin'[v].run = run
    BY <1>1, <1>2, <1>6
  <2>4. origin'[w].run = run
    BY <1>1 DEF run
  <2> QED BY <1>1, <1>3, <1>6, <1>7, <2>1, <2>2, <2>3, <2>4 DEF CutIsSound
<1>12. CutCustody'
  BY <1>3, <1>11 DEF CutCustody
<1> QED BY <1>1, <1>8, <1>9, <1>10, <1>12 DEF Custody

LEMMA ReconcileKeepsCustody ==
  ASSUME TypeOK, Custody, NEW flow \in Flows, NEW u \in Trees, ReconcileCut(flow, u)
  PROVE  TypeOK' /\ Custody'
<1>1. /\ pending # Nothing /\ pending.transition = "workspace.cut" /\ pending' = Nothing
      /\ Exists(u) /\ head' = head /\ live' = live
  BY ReconcilesIs DEF ReconcileCut
<1>2. pending.tree \in Trees /\ pending.to \in Trees /\ pending.link \in Links
  BY <1>1, CutFields
<1>w. PICK w \in Trees : w = pending.tree
  BY <1>2
<1>v. PICK v \in Trees : v = pending.to
  BY <1>2
<1>3. /\ w # v /\ Exists(w) /\ v \notin FirstTrees
      /\ pending.run \in Runs /\ origin[w].run = pending.run
      /\ pending.prior.active = TRUE /\ pending.prior.link = NoLink
      /\ pending.link.branch = pending.branch /\ pending.link.tree = w
      /\ Link(w) = NoLink
      /\ \A x \in Trees : /\ Link(x).tree # v
                          /\ Link(x).tree = w => x = v
                          /\ (x \notin {w, v} /\ IsActive(x)) => origin[x].run # pending.run
      /\ (IsActive(v) /\ origin[v].run \in live) => origin[v].run = pending.run
  BY <1>1, <1>w, <1>v DEF Custody, CutCustody, CutIsSound
<1>4. \A run \in live \ {origin[w].run} :
        \E x \in Trees \ {w, v} : IsActive(x) /\ Exists(x) /\ origin[x].run = run
  BY <1>1, <1>3 DEF Custody, Kept
<1>5. CASE Exists(v)
  <2>1. TypeOK' /\ KeptBut({w, v}) /\ Transfers(w, v, flow, origin[w].run, pending.link)
    BY <1>3, <1>5, <1>w, <1>v, CompletedIs
  <2>2. Exists(w)' /\ Exists(v)'
    BY <1>1, <1>3, <1>5 DEF Exists
  <2>3. \A x \in Trees \ {w, v} : IsActive(x) => origin[x].run # origin[w].run
    BY <1>3
  <2>4. Custody'
    BY <1>1, <1>2, <1>3, <1>4, <2>1, <2>2, <2>3, TransferKeepsCustody
  <2> QED BY <2>1, <2>4
<1>6. CASE ~Exists(v)
  <2>1. /\ TypeOK' /\ KeptBut({w, v})
        /\ IsActive(w)' = TRUE /\ Link(w)' = NoLink
        /\ IsActive(v)' = FALSE /\ Link(v)' = NoLink
        /\ origin'[w].run = origin[w].run
    <3>1. TypeOK' /\ KeptBut({w, v}) /\ Undoes(w, v, flow)
      BY <1>3, <1>6, <1>w, <1>v, UndoneIs
    <3> QED BY <1>3, <3>1 DEF Undoes
  <2>2. \A x \in Trees \ {w, v} :
          /\ origin'[x] = origin[x]
          /\ IsActive(x)' = IsActive(x) /\ Link(x)' = Link(x)
    BY <2>1 DEF KeptBut
  <2>3. \A x \in Trees : Exists(x)' <=> Exists(x)
    BY <1>1 DEF Exists
  <2>4. NoLink.tree \notin Trees
    BY NamesAssumption DEF NoLink
  <2>5. Holdings'
    BY <1>3, <2>1, <2>2 DEF Custody, Holdings
  <2>6. Parkings'
    BY <1>3, <2>1, <2>2, <2>3, <2>4, NamesAssumption DEF Custody, Parkings
  <2>7. Kept'
    BY <1>1, <1>2, <1>3, <1>4, <2>1, <2>2, <2>3 DEF Kept
  <2>8. CutCustody'
    BY <1>1 DEF CutCustody
  <2> QED BY <2>1, <2>5, <2>6, <2>7, <2>8 DEF Custody
<1> QED BY <1>5, <1>6

LEMMA ReturnKeepsCustody ==
  ASSUME TypeOK, Custody, NEW flow \in Flows, NEW w \in Trees, Return(flow, w)
  PROVE  TypeOK' /\ Custody'
<1>1. PICK s \in Trees : s = Link(w).tree /\ s # w
  <2>1. Link(w) # NoLink
    BY DEF Return, CanReturn, Link
  <2> QED BY <2>1, TransfersAreBetweenTwo
<1>2. /\ TypeOK' /\ KeptBut({w, s})
      /\ Exists(w) /\ Exists(s) /\ pending = Nothing /\ s \in Trees
      /\ head'[s] = head[s]
      /\ IsActive(w)' = FALSE /\ Link(w)' = NoLink
      /\ IsActive(s)' = IsActive(w) /\ Link(s)' = NoLink
      /\ origin'[s].run = origin[w].run
      /\ pending' = pending /\ live' = live
      /\ Link(w) # NoLink
  <2>1. /\ TypeOK' /\ KeptBut({w, s}) /\ Brings(w, s, flow)
        /\ Exists(w) /\ Exists(s) /\ pending = Nothing /\ s \in Trees
        /\ head'[s] = head[s]
        /\ pending' = pending /\ live' = live
        /\ Link(w) # NoLink
    BY <1>1, ReturnIs
  <2> QED BY <2>1 DEF Brings
<1>3. /\ ~IsActive(s) /\ Link(s) = NoLink /\ w \notin FirstTrees
      /\ \A u \in Trees : Link(u).tree = s => u = w
      /\ \A u \in Trees : Link(u).tree # w
  BY <1>1, <1>2 DEF Custody, Parkings
<1>4. \A u \in Trees \ {w, s} :
        /\ head'[u] = head[u] /\ origin'[u] = origin[u]
        /\ IsActive(u)' = IsActive(u) /\ Link(u)' = Link(u)
        /\ Exists(u)' <=> Exists(u)
  BY <1>2 DEF KeptBut, Exists
<1>5. Exists(s)'
  BY <1>2 DEF Exists
<1>6. NoLink.tree \notin Trees
  BY NamesAssumption DEF NoLink
<1>7. Holdings'
  BY <1>1, <1>2, <1>3, <1>4 DEF Custody, Holdings
<1>8. Parkings'
  BY <1>1, <1>2, <1>3, <1>4, <1>5, <1>6, NamesAssumption DEF Custody, Parkings
<1>9. Kept'
  BY <1>1, <1>2, <1>3, <1>4, <1>5 DEF Custody, Kept
<1>10. CutCustody'
  BY <1>2 DEF CutCustody
<1> QED BY <1>2, <1>7, <1>8, <1>9, <1>10 DEF Custody

LEMMA ReturnStopsKeepsCustody ==
  ASSUME TypeOK, Custody, NEW flow \in Flows, NEW w \in Trees, NEW done \in 0 .. 3,
         ReturnStops(flow, w, done)
  PROVE  TypeOK' /\ Custody'
<1>1. PICK s \in Trees : s = Link(w).tree /\ s # w
  <2>1. Link(w) # NoLink
    BY DEF ReturnStops, CanReturn, Link
  <2> QED BY <2>1, TransfersAreBetweenTwo
<1>2. /\ TypeOK' /\ KeptBut({w, s})
      /\ Exists(w) /\ Exists(s) /\ pending = Nothing /\ Link(w) # NoLink /\ s \in Trees
      /\ head'[s] = head[s] /\ live' = live
      /\ \/ /\ IsActive(w)' = IsActive(w) /\ Link(w)' = Link(w) /\ origin'[w] = origin[w]
            /\ IsActive(s)' = IsActive(s) /\ Link(s)' = Link(s) /\ origin'[s] = origin[s]
         \/ /\ IsActive(w)' = FALSE /\ Link(w)' = NoLink
            /\ IsActive(s)' = IsActive(s) /\ Link(s)' = Link(s) /\ origin'[s] = origin[s]
         \/ /\ IsActive(w)' = FALSE /\ Link(w)' = NoLink
            /\ IsActive(s)' = IsActive(w) /\ Link(s)' = NoLink
            /\ origin'[s].run = origin[w].run
      /\ pending' = [transition |-> "workspace.cleanup", tree |-> w, run |-> origin[w].run]
  BY <1>1, ReturnStopsIs
<1>3. /\ ~IsActive(s) /\ Link(s) = NoLink /\ w \notin FirstTrees
      /\ \A u \in Trees : Link(u).tree = s => u = w
      /\ \A u \in Trees : Link(u).tree # w
  BY <1>1, <1>2 DEF Custody, Parkings
<1>4. pending'.transition # "workspace.cut" /\ pending'.run = origin[w].run
      /\ pending' # Nothing
  <2>1. pending' \in Removals
    BY <1>2, OriginIsTyped DEF Removals
  <2> QED BY <1>2, <2>1, NothingAssumption
<1>5. \A u \in Trees \ {w, s} :
        /\ head'[u] = head[u] /\ origin'[u] = origin[u]
        /\ IsActive(u)' = IsActive(u) /\ Link(u)' = Link(u)
        /\ Exists(u)' <=> Exists(u)
  BY <1>2 DEF KeptBut, Exists
<1>6. Exists(s)'
  BY <1>2 DEF Exists
<1>7. NoLink.tree \notin Trees
  BY NamesAssumption DEF NoLink
<1>8. Holdings'
  BY <1>1, <1>2, <1>3, <1>5 DEF Custody, Holdings
<1>9. Parkings'
  BY <1>1, <1>2, <1>3, <1>5, <1>6, <1>7, NamesAssumption DEF Custody, Parkings
<1>10. Kept'
  BY <1>1, <1>2, <1>3, <1>4, <1>5 DEF Custody, Kept
<1>11. CutCustody'
  BY <1>4 DEF CutCustody
<1> QED BY <1>2, <1>8, <1>9, <1>10, <1>11 DEF Custody

LEMMA CustodyIsKept ==
  ASSUME TypeOK, Custody, OneAtATime, [Next]_vars
  PROVE  TypeOK' /\ Custody'
<1>1. CASE UNCHANGED vars
  <2>1. \A u \in Trees : IsActive(u)' = IsActive(u) /\ Link(u)' = Link(u)
                         /\ (Exists(u)' <=> Exists(u))
    BY <1>1, NewStateIs DEF vars, Exists
  <2>2. TypeOK'
    BY <1>1 DEF vars, TypeOK
  <2>3. Custody'
    BY <1>1, <2>1, CutFields, NamesAssumption
       DEF vars, Custody, Holdings, Parkings, Kept, CutCustody, CutIsSound
  <2> QED BY <2>2, <2>3
<1>2. CASE Next
  <2>1. ASSUME NEW r \in Runs, NEW w \in Trees, Authorize(r, w) \/ Reproject(r, w) \/ Bind(r, w)
        PROVE  TypeOK' /\ Custody'
    BY <2>1, AuthorizeKeepsCustody, BindKeepsCustody
  <2>2. ASSUME NEW r \in Runs, NEW w \in Trees, NEW k \in {"output", "configure"}, Step(r, w, k)
        PROVE  TypeOK' /\ Custody'
    BY <2>2, StepKeepsCustody
  <2>3. ASSUME NEW w \in Trees, Finish(w) \/ Switch(w)
        PROVE  TypeOK' /\ Custody'
    BY <2>3, FinishKeepsCustody, SwitchKeepsCustody
  <2>4. ASSUME NEW f \in Flows, NEW w \in Trees, NEW v \in Trees, NEW b \in Branches,
               Cut(f, w, v, b) \/ \E done \in 0 .. 3 : CutStops(f, w, v, b, done)
        PROVE  TypeOK' /\ Custody'
    BY <2>4, CutKeepsCustody, CutStopsKeepsCustody
  <2>5. ASSUME NEW f \in Flows, NEW w \in Trees,
               \/ Return(f, w)
               \/ \E done \in 0 .. 3 : ReturnStops(f, w, done)
               \/ pending # Nothing /\ ReconcileCut(f, w)
               \/ Escalate(f, w)
        PROVE  TypeOK' /\ Custody'
    BY <2>5, ReturnKeepsCustody, ReturnStopsKeepsCustody, ReconcileKeepsCustody,
       EscalateKeepsCustody
  <2> QED BY <1>2, <2>1, <2>2, <2>3, <2>4, <2>5 DEF Next
<1> QED BY <1>1, <1>2

\* With one delivery of a run at a time, the records of a clone have the types and
\* the worktrees hold and wait for what Custody says, after any steps.
THEOREM CustodyHolds ==
  OneAtATime => (Spec => [](TypeOK /\ Custody))
<1> SUFFICES ASSUME OneAtATime PROVE Spec => [](TypeOK /\ Custody)
  OBVIOUS
<1>1. Init => TypeOK /\ Custody
  BY InitialCustody
<1>2. (TypeOK /\ Custody) /\ [Next]_vars => (TypeOK /\ Custody)'
  BY CustodyIsKept
<1> QED BY <1>1, <1>2, PTL DEF Spec

\* A delivery that is neither ended nor given up is in exactly one worktree: no
\* interrupted transfer, whoever recovers it and from where, loses or doubles it.
THEOREM NoDeliveryIsLost ==
  OneAtATime => (Spec => []DeliveriesAreKept)
<1> SUFFICES ASSUME OneAtATime PROVE Spec => []DeliveriesAreKept
  OBVIOUS
<1>1. TypeOK /\ Custody => DeliveriesAreKept
  <2> SUFFICES ASSUME TypeOK, Custody, pending = Nothing, NEW run \in live
               PROVE  Cardinality({w \in Trees : IsActive(w) /\ origin[w].run = run}) = 1
    BY DEF DeliveriesAreKept
  <2>1. PICK w \in Trees : IsActive(w) /\ origin[w].run = run
    BY DEF Custody, Kept
  <2>2. {u \in Trees : IsActive(u) /\ origin[u].run = run} = {w}
    BY <2>1 DEF Custody, Holdings
  <2> QED BY <2>2, FS_Singleton
<1>2. Spec => [](TypeOK /\ Custody)
  BY CustodyHolds
<1> QED BY <1>1, <1>2, PTL

-----------------------------------------------------------------------------
(* The receipts of a run that has begun once. *)

Places(run, home) == {home} \cup {receipts[j].to : j \in Advances(run)}

\* place is where the advances of a run have led from home before receipt n.
IsAt(run, home, n, place) ==
  \/ /\ \A j \in Advances(run) : j >= n
     /\ place = home
  \/ \E j \in Advances(run) : /\ j < n
                              /\ place = receipts[j].to
                              /\ \A k \in Advances(run) : k < n => k <= j

\* The run began at home, each receipt was committed where the advances before it
\* had led, place is where they lead now, and there is no way out of home but the
\* one to place.
Recorded(run, home, place) ==
  /\ \E b \in Beginnings(run) : receipts[b].from = home
  /\ \A i \in Of(run) : IsAt(run, home, i, receipts[i].from)
  /\ IsAt(run, home, Len(receipts) + 1, place)
  /\ \A j \in Later(run, home) : receipts[j].to = place
  /\ \A j \in Advances(run) : receipts[j].to = home \/ receipts[j].to.tree # home.tree
  /\ grant[run] # Nothing /\ grant[run].context \in Places(run, home)

LEMMA OfAreReceipts ==
  ASSUME TypeOK, NEW run
  PROVE  /\ Of(run) \subseteq DOMAIN receipts /\ Advances(run) \subseteq Of(run)
         /\ \A i \in Of(run) : /\ i \in Nat /\ i \in 1 .. Len(receipts)
                               /\ i < Len(receipts) + 1 /\ i <= Len(receipts)
                               /\ receipts[i] \in Receipts /\ receipts[i].flow = run
         /\ \A home : Later(run, home) \subseteq Advances(run)
         /\ Len(receipts) \in Nat
<1>1. Len(receipts) \in Nat /\ DOMAIN receipts = 1 .. Len(receipts)
      /\ \A i \in DOMAIN receipts : receipts[i] \in Receipts
  BY DomainIs
<1>2. Of(run) \subseteq DOMAIN receipts /\ Advances(run) \subseteq Of(run)
      /\ \A i \in Of(run) : receipts[i].flow = run
  BY DEF Of, Advances
<1>3. \A home : Later(run, home) \subseteq Advances(run)
  BY DEF Later
<1>4. \A i \in DOMAIN receipts :
        i \in Nat /\ i \in 1 .. Len(receipts) /\ i < Len(receipts) + 1 /\ i <= Len(receipts)
  BY <1>1
<1> QED BY <1>1, <1>2, <1>3, <1>4

\* Where the advances have led is reached from every place they came through.
LEMMA PlaceIsReached ==
  ASSUME TypeOK, NEW run, NEW home, NEW n \in Nat, NEW place, NEW from,
         IsAt(run, home, n, place), from \in Places(run, home),
         \A j \in Advances(run) : receipts[j].to = from => j < n
  PROVE  place \in Reached(run, from, n)
<1> DEFINE into == {j \in Advances(run) : receipts[j].to = from}
<1>1. \A j \in Advances(run) : j \in Nat
  BY OfAreReceipts
<1>2. Later(run, from) = {i \in Advances(run) : \A j \in into : i > j}
  BY DEF Later
<1>3. Reached(run, from, n)
        = {from} \cup {receipts[j].to : j \in {k \in Later(run, from) : k < n}}
  BY DEF Reached
<1>4. CASE (\A j \in Advances(run) : j >= n) /\ place = home
  <2>1. into = {}
    BY <1>1, <1>4
  <2>2. from = home
    BY <2>1 DEF Places
  <2> QED BY <1>3, <1>4, <2>2
<1>5. ASSUME NEW j \in Advances(run), j < n, place = receipts[j].to,
             \A k \in Advances(run) : k < n => k <= j
      PROVE  place \in Reached(run, from, n)
  <2>1. CASE j \in into
    BY <1>3, <1>5, <2>1
  <2>2. CASE j \notin into
    <3>1. ASSUME NEW k \in into PROVE j > k
      <4>1. k \in Nat /\ j \in Nat /\ k # j /\ k <= j
        BY <1>1, <1>5, <2>2
      <4> QED BY <4>1
    <3>2. j \in Later(run, from)
      BY <1>2, <3>1
    <3> QED BY <1>3, <1>5, <3>2
  <2> QED BY <2>1, <2>2
<1> QED BY <1>4, <1>5 DEF IsAt

LEMMA PlacesAreContexts ==
  ASSUME TypeOK, NEW run, NEW home \in Contexts
  PROVE  Places(run, home) \subseteq Contexts
<1>1. ASSUME NEW j \in Advances(run) PROVE receipts[j].to \in Contexts
  BY OfAreReceipts, ReceiptFields DEF Advances
<1> QED BY <1>1 DEF Places

\* What is reached from a place a run came through is one too.
LEMMA ReachedArePlaces ==
  ASSUME TypeOK, NEW run, NEW home, NEW from \in Places(run, home), NEW n
  PROVE  Reached(run, from, n) \subseteq Places(run, home)
  BY OfAreReceipts DEF Reached, Places

\* The lookup succeeds from every place the run came through.
LEMMA RecordsLeadHere ==
  ASSUME TypeOK, NEW run, NEW home, NEW place, NEW from \in Places(run, home),
         Recorded(run, home, place)
  PROVE  LineageIsValid(run, from) /\ place \in Reached(run, from, Len(receipts) + 1)
<1>1. Len(receipts) + 1 \in Nat /\ \A j \in Advances(run) : j < Len(receipts) + 1
  BY OfAreReceipts
<1>2. place \in Reached(run, from, Len(receipts) + 1)
  BY <1>1, PlaceIsReached DEF Recorded
<1>3. ASSUME NEW i \in Later(run, from)
      PROVE  receipts[i].from \in Reached(run, from, i)
  <2>1. i \in Of(run) /\ i \in Nat
    BY OfAreReceipts
  <2>2. IsAt(run, home, i, receipts[i].from)
    BY <2>1 DEF Recorded
  <2>3. \A j \in Advances(run) : receipts[j].to = from => j < i
    <3>1. \A j \in Advances(run) : receipts[j].to = from => i > j
      BY DEF Later
    <3> QED BY <2>1, <3>1, OfAreReceipts
  <2> QED BY <2>1, <2>2, <2>3, PlaceIsReached
<1> QED BY <1>2, <1>3 DEF LineageIsValid

\* The place of a receipt is one the run came through.
LEMMA FromIsAPlace ==
  ASSUME TypeOK, NEW run, NEW home, NEW place, Recorded(run, home, place)
  PROVE  /\ \A i \in Of(run) : receipts[i].from \in Places(run, home)
         /\ place \in Places(run, home)
  BY DEF Recorded, IsAt, Places

\* From home, the lookup knows nothing but home and the present place.
LEMMA ReachedFromHome ==
  ASSUME TypeOK, NEW run, NEW home, NEW place, Recorded(run, home, place), NEW n
  PROVE  Reached(run, home, n) \subseteq {home, place}
  BY DEF Reached, Recorded

\* A step that commits nothing for the run.
Spares(run) ==
  /\ Of(run)' = Of(run)
  /\ \A i \in Of(run) : receipts'[i] = receipts[i]
  /\ Len(receipts') >= Len(receipts)

\* A step that commits a receipt for the run, in context from and leading to to.
Commits(run, kind, from, to, revision) ==
  LET n == Len(receipts) + 1
  IN  /\ Of(run)' = Of(run) \cup {n}
      /\ \A i \in Of(run) : receipts'[i] = receipts[i]
      /\ receipts'[n] = [flow |-> run, kind |-> kind, from |-> from, to |-> to,
                         revision |-> revision]
      /\ Len(receipts') = n

\* No step changes what is committed.
Keeps(run) ==
  Of(run) \subseteq Of(run)' /\ \A i \in Of(run) : receipts'[i] = receipts[i]

LEMMA KeptReceipts ==
  ASSUME NEW run, Keeps(run)
  PROVE  /\ Beginnings(run) \subseteq Beginnings(run)'
         /\ BeganOnce(run)' => BeganOnce(run)
<1>1. Beginnings(run) \subseteq Beginnings(run)'
  BY DEF Keeps, Beginnings
<1> QED BY <1>1 DEF BeganOnce

LEMMA LoggedCommits ==
  ASSUME TypeOK, TypeOK', NEW flow \in Flows, NEW w \in Trees,
         Exists(w), Bounded(w), CanLog(flow),
         NEW kind \in {"bind", "output", "configure", "advance"},
         NEW to \in Contexts \cup {Nothing},
         receipts' = Logged(flow, kind, w, to)
  PROVE  /\ \A run : Keeps(run)
         /\ \A run : run # flow => Spares(run)
         /\ flow \in Runs => Commits(flow, kind, Context(w), to, Revision(w) + 1)
<1> DEFINE n == Len(receipts) + 1
           x == [flow |-> flow, kind |-> kind, from |-> Context(w), to |-> to,
                 revision |-> StateOf(w).revision + 1]
<1>1. Len(receipts) \in Nat /\ Len(receipts') \in Nat
  BY DomainIs DEF TypeOK
<1>2. /\ \A i \in DOMAIN receipts : receipts'[i] = receipts[i]
      /\ flow = Operator => receipts' = receipts
  BY LoggedIs
<1>5. \A run : Keeps(run)
  <2>1. DOMAIN receipts \subseteq DOMAIN receipts'
    BY LoggedIs
  <2> QED BY <1>2, <2>1 DEF Keeps, Of
<1>3. CASE flow = Operator
  <2>1. \A run : Spares(run)
    BY <1>1, <1>2, <1>3 DEF Spares, Of
  <2> QED BY <1>3, <1>5, <2>1, NamesAssumption
<1>4. CASE flow # Operator
  <2>0. /\ Len(receipts') = n
        /\ DOMAIN receipts' = DOMAIN receipts \cup {n}
        /\ n \notin DOMAIN receipts
    BY <1>4, LoggedIs
  <2>8. receipts'[n] = x
    BY <1>4, LoggedIs
  <2>1. x.flow = flow
    OBVIOUS
  <2>2. n \in Nat /\ n >= Len(receipts)
    BY <1>1
  <2> HIDE DEF n, x
  <2>3. \A run : Of(run) \subseteq DOMAIN receipts
    BY DEF Of
  <2>4. ASSUME NEW run, run # flow PROVE Of(run)' = Of(run)
    BY <1>2, <2>0, <2>1, <2>8, <2>4 DEF Of
  <2>5. Of(flow)' = Of(flow) \cup {n}
    BY <1>2, <2>0, <2>1, <2>8 DEF Of
  <2>6. \A run : run # flow => Spares(run)
    BY <1>2, <2>0, <2>2, <2>3, <2>4 DEF Spares
  <2>7. Commits(flow, kind, Context(w), to, Revision(w) + 1)
    <3>1. receipts'[n] = x /\ Len(receipts') = n
          /\ \A i \in Of(flow) : receipts'[i] = receipts[i]
      BY <1>2, <2>0, <2>8, <2>3
    <3> QED BY <2>5, <3>1 DEF Commits, Revision, n, x
  <2> QED BY <1>5, <2>6, <2>7
<1> QED BY <1>3, <1>4

LEMMA QuietSpares ==
  ASSUME TypeOK, UNCHANGED receipts, NEW run
  PROVE  Spares(run) /\ Keeps(run)
<1>1. Len(receipts) \in Nat
  BY DomainIs
<1> QED BY <1>1 DEF Spares, Keeps, Of

\* What another run does leaves the records of a run as they are.
LEMMA SparedRecords ==
  ASSUME TypeOK, TypeOK', NEW run \in Runs, Spares(run)
  PROVE  /\ Advances(run)' = Advances(run) /\ Beginnings(run)' = Beginnings(run)
         /\ \A home, place :
              (/\ Recorded(run, home, place)
               /\ grant'[run] # Nothing
               /\ grant'[run].context \in Places(run, home)) => Recorded(run, home, place)'
<1>1. Of(run)' = Of(run) /\ \A i \in Of(run) : receipts'[i] = receipts[i]
  BY DEF Spares
<1>2. Advances(run)' = Advances(run) /\ Beginnings(run)' = Beginnings(run)
      /\ Advances(run) \subseteq Of(run) /\ Beginnings(run) \subseteq Of(run)
  BY <1>1 DEF Advances, Beginnings
<1>3. SUFFICES ASSUME NEW home, NEW place, Recorded(run, home, place),
                      grant'[run] # Nothing, grant'[run].context \in Places(run, home)
               PROVE  Recorded(run, home, place)'
  BY <1>2
<1>4. \A n, p : IsAt(run, home, n, p)' <=> IsAt(run, home, n, p)
  BY <1>1, <1>2 DEF IsAt
<1>5. Later(run, home)' = Later(run, home) /\ Later(run, home) \subseteq Advances(run)
  BY <1>1, <1>2 DEF Later
<1>6. Places(run, home)' = Places(run, home)
  BY <1>1, <1>2 DEF Places
<1>7. IsAt(run, home, Len(receipts) + 1, place)'
  <2>1. /\ Len(receipts) \in Nat /\ Len(receipts') \in Nat /\ Len(receipts') >= Len(receipts)
        /\ \A j \in Advances(run) : j \in Nat /\ j <= Len(receipts)
    BY DomainIs, OfAreReceipts DEF Spares, TypeOK
  <2>2. \A j \in Advances(run) : /\ j < Len(receipts) + 1 /\ j < Len(receipts') + 1
                                 /\ j >= Len(receipts) + 1 <=> j >= Len(receipts') + 1
    BY <2>1
  <2>3. IsAt(run, home, Len(receipts) + 1, place)
    BY <1>3 DEF Recorded
  <2> QED BY <1>1, <1>2, <2>2, <2>3 DEF IsAt
<1>8. (\E b \in Beginnings(run) : receipts[b].from = home)'
  BY <1>1, <1>2, <1>3 DEF Recorded
<1>9. (\A i \in Of(run) : IsAt(run, home, i, receipts[i].from))'
  <2>1. ASSUME NEW i \in Of(run) PROVE IsAt(run, home, i, receipts[i].from)'
    <3>1. PICK p : p = receipts[i].from
      OBVIOUS
    <3>2. IsAt(run, home, i, p)' /\ p = receipts'[i].from
      BY <1>1, <1>3, <1>4, <3>1 DEF Recorded
    <3> QED BY <3>2 DEF IsAt
  <2> QED BY <1>1, <2>1
<1>10. (\A j \in Later(run, home) : receipts[j].to = place)'
  BY <1>1, <1>2, <1>3, <1>5 DEF Recorded
<1>11. (\A j \in Advances(run) : receipts[j].to = home \/ receipts[j].to.tree # home.tree)'
  BY <1>1, <1>2, <1>3 DEF Recorded
<1> QED BY <1>3, <1>6, <1>7, <1>8, <1>9, <1>10, <1>11 DEF Recorded

\* What the run itself commits where its records have led continues them.
LEMMA ContinuedRecords ==
  ASSUME TypeOK, TypeOK', NEW run \in Runs, NEW home \in Contexts, NEW place \in Contexts,
         NEW kind, NEW to \in Contexts \cup {Nothing}, NEW revision,
         Recorded(run, home, place), Commits(run, kind, place, to, revision),
         to \in {Nothing, home} \/ (place = home /\ to.tree # home.tree),
         grant' = grant,
         NEW next, next = IF to = Nothing THEN place ELSE to
  PROVE  Recorded(run, home, next)'
<1> DEFINE x == [flow |-> run, kind |-> kind, from |-> place, to |-> to, revision |-> revision]
<1>n. PICK n : n = Len(receipts) + 1
  OBVIOUS
<1>1. /\ Of(run)' = Of(run) \cup {n}
      /\ \A i \in Of(run) : receipts'[i] = receipts[i]
      /\ receipts'[n] = x /\ Len(receipts') = n
      /\ x.to = to /\ x.from = place
  BY <1>n DEF Commits
<1>2. /\ n \in Nat /\ n < n + 1 /\ n + 1 \in Nat
      /\ \A i \in Of(run) : i \in Nat /\ i < n /\ i <= n /\ i # n /\ i < n + 1
      /\ Advances(run) \subseteq Of(run)
  <2>1. /\ Len(receipts) \in Nat /\ \A i \in Of(run) : i \in Nat /\ i <= Len(receipts)
        /\ Advances(run) \subseteq Of(run)
    BY OfAreReceipts
  <2> QED BY <1>n, <2>1
<1>3. home # Nothing /\ place # Nothing
  BY NothingAssumption
<1> HIDE DEF x
<1>4. Advances(run)' = IF to = Nothing THEN Advances(run) ELSE Advances(run) \cup {n}
  BY <1>1, <1>2 DEF Advances
<1>5. Beginnings(run) \subseteq Beginnings(run)' /\ Beginnings(run) \subseteq Of(run)
  BY <1>1 DEF Beginnings
<1>6. \A j \in Advances(run) : receipts'[j] = receipts[j]
  BY <1>1, <1>2
<1>7. ASSUME NEW m \in Nat, m <= n, NEW p, IsAt(run, home, m, p)
      PROVE  IsAt(run, home, m, p)'
  <2>1. ~(n < m) /\ n >= m
    BY <1>2, <1>7
  <2>2. CASE (\A j \in Advances(run) : j >= m) /\ p = home
    <3>1. \A j \in Advances(run)' : j >= m
      BY <1>4, <2>1, <2>2
    <3> QED BY <2>2, <3>1 DEF IsAt
  <2>3. CASE \E j \in Advances(run) : /\ j < m /\ p = receipts[j].to
                                      /\ \A k \in Advances(run) : k < m => k <= j
    <3>1. PICK j \in Advances(run) : /\ j < m /\ p = receipts[j].to
                                     /\ \A k \in Advances(run) : k < m => k <= j
      BY <2>3
    <3>2. j \in Advances(run)' /\ p = receipts'[j].to
          /\ \A k \in Advances(run)' : k < m => k <= j
      BY <1>4, <1>6, <2>1, <3>1
    <3> QED BY <3>1, <3>2 DEF IsAt
  <2> QED BY <1>7, <2>2, <2>3 DEF IsAt
<1>8. \E b \in Beginnings(run)' : receipts'[b].from = home
  BY <1>1, <1>5 DEF Recorded
<1>9. IsAt(run, home, n, place) /\ \A i \in Of(run) : IsAt(run, home, i, receipts[i].from)
  BY <1>n DEF Recorded
<1>10. (\A i \in Of(run) : IsAt(run, home, i, receipts[i].from))'
  <2>1. ASSUME NEW i \in Of(run) PROVE IsAt(run, home, i, receipts[i].from)'
    <3>1. PICK p : p = receipts[i].from
      OBVIOUS
    <3>2. IsAt(run, home, i, p)'
      BY <1>2, <1>7, <1>9, <3>1
    <3>3. p = receipts'[i].from
      BY <1>1, <3>1
    <3> QED BY <3>2, <3>3 DEF IsAt
  <2>2. ASSUME NEW i, i = n PROVE IsAt(run, home, i, receipts[i].from)'
    <3>1. IsAt(run, home, i, place)'
      BY <1>2, <1>7, <1>9, <2>2
    <3>2. receipts'[i].from = place
      BY <1>1, <2>2
    <3> QED BY <3>1, <3>2 DEF IsAt
  <2> QED BY <1>1, <2>1, <2>2
<1>11. ASSUME NEW p, p = next PROVE IsAt(run, home, n + 1, p)'
  <2>1. CASE to = Nothing
    <3>1. \A j \in Advances(run) : (j >= n <=> j >= n + 1) /\ j < n + 1 /\ j < n
      BY <1>2
    <3>2. Advances(run)' = Advances(run) /\ p = place
      BY <1>4, <1>11, <2>1
    <3> QED BY <1>6, <1>9, <3>1, <3>2 DEF IsAt
  <2>2. CASE to # Nothing
    <3>1. n \in Advances(run)' /\ receipts'[n].to = to /\ p = to
          /\ \A k \in Advances(run)' : k <= n
      BY <1>1, <1>2, <1>4, <1>11, <2>2
    <3> QED BY <1>2, <3>1 DEF IsAt
  <2> QED BY <2>1, <2>2
<1>12. \A j \in Later(run, home)' : receipts'[j].to = next
  <2>1. CASE to = Nothing
    <3>1. Later(run, home)' = Later(run, home)
      BY <1>4, <1>6, <2>1 DEF Later
    <3>2. Later(run, home) \subseteq Advances(run)
      BY DEF Later
    <3> QED BY <1>6, <2>1, <3>1, <3>2 DEF Recorded
  <2>2. CASE to = home
    <3>1. n \in Advances(run)' /\ receipts'[n].to = home
      BY <1>1, <1>3, <1>4, <2>2
    <3>2. \A i \in Advances(run)' : ~(i > n)
      BY <1>2, <1>3, <1>4, <2>2
    <3>3. Later(run, home)' = {}
      BY <3>1, <3>2 DEF Later
    <3> QED BY <3>3
  <2>3. CASE to # Nothing /\ to # home
    <3>1. place = home
      BY <2>3
    <3>2. \A j \in Advances(run) : receipts[j].to = home => ~(j > j)
      BY <1>2
    <3>3. Later(run, home) = {}
      BY <3>1, <3>2 DEF Recorded, Later
    <3>4. Later(run, home)' \subseteq Later(run, home) \cup {n}
      BY <1>4, <1>6, <2>3 DEF Later
    <3> QED BY <1>1, <2>3, <3>3, <3>4
  <2> QED BY <2>1, <2>2, <2>3
<1>13. \A j \in Advances(run)' : receipts'[j].to = home \/ receipts'[j].to.tree # home.tree
  <2>1. to # Nothing => (to = home \/ to.tree # home.tree)
    OBVIOUS
  <2> QED BY <1>1, <1>4, <1>6, <2>1 DEF Recorded
<1>14. grant'[run] # Nothing /\ grant'[run].context \in Places(run, home)'
  <2>1. Places(run, home) \subseteq Places(run, home)'
    BY <1>4, <1>6 DEF Places
  <2> QED BY <2>1 DEF Recorded
<1>15. IsAt(run, home, Len(receipts) + 1, next)'
  <2>1. PICK p : p = next
    OBVIOUS
  <2>2. IsAt(run, home, n + 1, p)' /\ Len(receipts') + 1 = n + 1
    BY <1>1, <1>11, <2>1
  <2> QED BY <2>1, <2>2 DEF IsAt
<1> QED BY <1>8, <1>10, <1>12, <1>13, <1>14, <1>15 DEF Recorded

\* A run that begins has been authorized for where it begins.
LEMMA FirstRecord ==
  ASSUME TypeOK, TypeOK', NEW run \in Runs, NEW home \in Contexts, NEW revision,
         Of(run) = {}, Commits(run, "bind", home, Nothing, revision),
         grant'[run] = grant[run], grant[run] # Nothing,
         AuthorizedByRecords(run, grant[run].context, home)
  PROVE  Recorded(run, home, home)'
<1> DEFINE n == Len(receipts) + 1
           x == [flow |-> run, kind |-> "bind", from |-> home, to |-> Nothing,
                 revision |-> revision]
<1>1. /\ Of(run)' = {n} /\ receipts'[n] = x /\ Len(receipts') = n
      /\ x.to = Nothing /\ x.from = home /\ x.kind = "bind"
  BY DEF Commits
<1> HIDE DEF n, x
<1>2. Advances(run)' = {} /\ Beginnings(run)' = {n}
  BY <1>1 DEF Advances, Beginnings
<1>3. Later(run, home)' = {}
  BY <1>2 DEF Later
<1>4. \A m, p : p = home => IsAt(run, home, m, p)'
  BY <1>2 DEF IsAt
<1>5. grant[run].context = home
  <2>1. Advances(run) = {}
    BY DEF Advances
  <2>2. Later(run, grant[run].context) = {}
    BY <2>1 DEF Later
  <2> QED BY <2>2 DEF AuthorizedByRecords, Reached
<1>6. Places(run, home)' = {home}
  BY <1>2 DEF Places
<1>7. (\A i \in Of(run) : IsAt(run, home, i, receipts[i].from))'
  BY <1>1, <1>2 DEF IsAt
<1>8. IsAt(run, home, Len(receipts) + 1, home)'
  BY <1>2 DEF IsAt
<1> QED BY <1>1, <1>2, <1>3, <1>5, <1>6, <1>7, <1>8 DEF Recorded

-----------------------------------------------------------------------------
(* Where the delivery of a run is, by its records. *)

\* At home, or in the worktree that home waits for.
Stays(w, home, place) ==
  \/ /\ w = home.tree /\ place = home
     /\ Link(w) = NoLink /\ origin[w].ref = home.ref
  \/ /\ w # home.tree /\ place = [tree |-> w, ref |-> Link(w).branch]
     /\ Link(w).tree = home.tree /\ Link(w).ref = home.ref
     /\ origin[w].ref = Link(w).branch

\* A cut has interrupted the run at home.
Waits(run, w, home, place) ==
  /\ pending.transition = "workspace.cut" /\ w = pending.tree
  /\ w = home.tree /\ place = home
  /\ origin[w].ref = home.ref /\ pending.link.ref = home.ref

IsInterrupted(run) == pending # Nothing /\ pending.run = run

\* The state in w has everything from the run, which has led it to place.
Descends(run, w) ==
  /\ origin[w].run = run
  /\ Of(run) \subseteq origin[w].past
  /\ \A i \in Of(run) : receipts[i].revision <= Revision(w)

Followed(run, w, home, place) ==
  /\ Recorded(run, home, place)
  /\ Descends(run, w)
  /\ IsInterrupted(run) => Waits(run, w, home, place)
  /\ ~IsInterrupted(run) => IsActive(w) /\ Stays(w, home, place)

Clean(run) == run \in live /\ run \notin mixed /\ BeganOnce(run)

Lineages ==
  \A run \in Runs : Clean(run) =>
    \E w \in Trees, home, place \in Contexts : Followed(run, w, home, place)

HasBegun(run) == Beginnings(run) # {}

\* What commits for a run, holds its delivery or was cut has begun.
Began ==
  /\ \A run \in Runs : (run \notin mixed /\ Of(run) # {}) => HasBegun(run)
  /\ \A w \in Trees : IsActive(w) => HasBegun(origin[w].run)
  /\ pending # Nothing =>
       /\ pending.transition = "workspace.cut" => HasBegun(pending.run)
       /\ pending.transition # "workspace.cut" => pending.run \in mixed

LEMMA ContextFields ==
  ASSUME NEW c \in Contexts
  PROVE  c = [tree |-> c.tree, ref |-> c.ref] /\ c.tree \in Trees /\ c.ref \in Refs
  BY DEF Contexts

\* The run that is selected where there is a delivery has begun, and what it began
\* with applies there.
LEMMA SelectedHasBegun ==
  ASSUME TypeOK, NEW run \in Runs, NEW w \in Trees, MayAct(run, w), IsActive(w)
  PROVE  \E b \in Beginnings(run) : AppliesTo(b, w)
<1>1. LatestFlows(w) = {run}
  BY DEF MayAct, Selects
<1>2. \E i \in Bindings(w) : AppliesTo(i, w) /\ receipts[i].flow = run
  BY <1>1 DEF LatestFlows
<1> QED BY <1>2 DEF Bindings, Beginnings, Of

\* Where a run is authorized, its records have been.
LEMMA AuthorizedIsAPlace ==
  ASSUME TypeOK, NEW run \in Runs, NEW w \in Trees, NEW home, NEW place,
         Recorded(run, home, place), InItsLineage(run, w)
  PROVE  Context(w) \in Places(run, home)
<1>1. PICK from : from = grant[run].context
  OBVIOUS
<1>2. from \in Places(run, home) /\ Context(w) \in Reached(run, from, Len(receipts) + 1)
  BY <1>1 DEF Recorded, InItsLineage, AuthorizedByRecords
<1> QED BY <1>2, ReachedArePlaces

\* Only home is a place in the tree of home.
LEMMA HomeIsOnePlace ==
  ASSUME NEW run, NEW home, NEW place, Recorded(run, home, place), NEW c \in Places(run, home),
         c.tree = home.tree
  PROVE  c = home
  BY DEF Recorded, Places

\* A run that has begun once and is not interrupted acts where its delivery is.
LEMMA ActsWhereItIs ==
  ASSUME TypeOK, Custody, NEW run \in Runs, BeganOnce(run), NEW w \in Trees,
         NEW home \in Contexts, NEW place \in Contexts, Followed(run, w, home, place),
         ~IsInterrupted(run), NEW x \in Trees, MayAct(run, x), IsActive(x)
  PROVE  x = w /\ Context(x) = place
<1>1. Recorded(run, home, place) /\ Stays(w, home, place) /\ IsActive(w)
  BY DEF Followed
<1>2. PICK b \in Beginnings(run) : AppliesTo(b, x)
  BY SelectedHasBegun
<1>3. receipts[b].from = home /\ receipts[b].flow = run
  BY <1>1 DEF Recorded, BeganOnce, Beginnings, Of
<1>4. x = home.tree \/ Context(x) \in {home, place}
  BY <1>1, <1>2, <1>3, ReachedFromHome DEF AppliesTo, AuthorizedByRecords
<1>5. Context(x) \in Places(run, home)
  BY <1>1, AuthorizedIsAPlace DEF MayAct, Authorized
<1>6. Context(x).tree = x
  BY DEF Context
<1>7. x = home.tree => Context(x) = home
  BY <1>1, <1>5, <1>6, HomeIsOnePlace
<1>8. home.tree \in Trees
  BY ContextFields
<1>9. CASE w = home.tree /\ place = home
  BY <1>4, <1>6, <1>7, <1>9
<1>10. CASE /\ w # home.tree /\ place = [tree |-> w, ref |-> Link(w).branch]
            /\ Link(w).tree = home.tree
  <2>1. ~IsActive(home.tree)
    BY <1>8, <1>10 DEF Custody, Parkings
  <2>2. x # home.tree
    BY <2>1
  <2>3. Context(x) = place
    BY <1>4, <1>6, <2>2
  <2> QED BY <1>6, <1>10, <2>3
<1> QED BY <1>1, <1>9, <1>10 DEF Stays

\* Where an interrupted run is still authorized at home, it has what it began with.
LEMMA WaitsAtHome ==
  ASSUME TypeOK, NEW run \in Runs, NEW w \in Trees,
         NEW home \in Contexts, NEW place \in Contexts, Followed(run, w, home, place),
         IsInterrupted(run), MayAct(run, w)
  PROVE  Context(w) = home
<1>1. Context(w) \in Places(run, home)
  BY AuthorizedIsAPlace DEF MayAct, Authorized, Followed
<1>2. Context(w).tree = home.tree
  BY DEF Context, Followed, Waits
<1> QED BY <1>1, <1>2, HomeIsOnePlace DEF Followed

-----------------------------------------------------------------------------
(* What follows for the receipts. *)

\* What is IsOwn is where the records of its run have led.
LEMMA OwnIsFollowed ==
  ASSUME TypeOK, Custody, Lineages, NEW w \in Trees, IsOwn(w),
         NEW run, run = origin[w].run
  PROVE  /\ run \in Runs /\ Exists(w)
         /\ \E home \in Contexts :
              Recorded(run, home, Context(w)) /\ Descends(run, w)
<1>1. /\ pending = Nothing /\ IsActive(w) /\ run \in Runs /\ Clean(run)
      /\ head[w] = origin[w].ref
  BY DEF IsOwn, Clean, Custody, Holdings
<1>2. PICK x \in Trees, home \in Contexts, place \in Contexts : Followed(run, x, home, place)
  BY <1>1 DEF Lineages
<1>3. /\ Recorded(run, home, place) /\ Descends(run, x) /\ IsActive(x) /\ Stays(x, home, place)
  BY <1>1, <1>2 DEF Followed, IsInterrupted
<1>4. x = w
  BY <1>1, <1>3 DEF Descends, Custody, Holdings
<1>5. Context(w) = place
  BY <1>1, <1>3, <1>4, ContextFields DEF Stays, Context
<1>6. Exists(w)
  <2>1. Context(w) \in Contexts /\ Context(w).ref = head[w]
    BY <1>5 DEF Context
  <2> QED BY <2>1, ContextFields, NamesAssumption DEF Exists
<1> QED BY <1>1, <1>3, <1>4, <1>5, <1>6

\* From there every receipt of the run applies.
LEMMA OwnReceiptsApply ==
  ASSUME TypeOK, NEW run \in Runs, NEW w \in Trees, NEW home \in Contexts,
         Recorded(run, home, Context(w)), NEW i \in Of(run)
  PROVE  AppliesTo(i, w) /\ LineageIsValid(receipts[i].flow, receipts[i].from)
<1>1. PICK from : from = receipts[i].from
  OBVIOUS
<1>2. from \in Places(run, home) /\ receipts[i].flow = run
  BY <1>1, FromIsAPlace, OfAreReceipts
<1>3. LineageIsValid(run, from) /\ Context(w) \in Reached(run, from, Len(receipts) + 1)
  BY <1>2, RecordsLeadHere
<1> QED BY <1>1, <1>2, <1>3 DEF AppliesTo, AuthorizedByRecords

LEMMA LineagesAuthorize ==
  ASSUME TypeOK, Custody, Lineages
  PROVE  RunsStayAuthorized
<1> SUFFICES ASSUME NEW w \in Trees, IsOwn(w), NEW run, run = origin[w].run
             PROVE  /\ InItsLineage(run, w)
                    /\ Bundle(w) \in Of(run) \ {grant[run].bundle} => ReprojectionAdmits(run, w)
  BY DEF RunsStayAuthorized
<1>1. run \in Runs
  BY OwnIsFollowed
<1>2. PICK home \in Contexts : Recorded(run, home, Context(w)) /\ Descends(run, w)
  BY OwnIsFollowed
<1>3. InItsLineage(run, w)
  <2>1. PICK from : from = grant[run].context
    OBVIOUS
  <2>2. grant[run] # Nothing /\ from \in Places(run, home)
    BY <1>2, <2>1 DEF Recorded
  <2>3. LineageIsValid(run, from) /\ Context(w) \in Reached(run, from, Len(receipts) + 1)
    BY <1>1, <1>2, <2>2, RecordsLeadHere
  <2> QED BY <2>1, <2>2, <2>3 DEF InItsLineage, AuthorizedByRecords
<1>4. ASSUME Bundle(w) \in Of(run) PROVE ReprojectionAdmits(run, w)
  <2>1. AppliesTo(Bundle(w), w)
    BY <1>1, <1>2, <1>4, OwnReceiptsApply
  <2>2. receipts[Bundle(w)].revision <= StateOf(w).revision
    BY <1>2, <1>4 DEF Descends, Revision
  <2> QED BY <1>4, <2>1, <2>2 DEF ReprojectionAdmits
<1> QED BY <1>3, <1>4

LEMMA LineagesAreAncestral ==
  ASSUME TypeOK, Custody, Lineages
  PROVE  ResultsAreAncestral
<1> SUFFICES ASSUME NEW w \in Trees, IsOwn(w), NEW run, run = origin[w].run
             PROVE  LatestOutput(run, w)
                    = Max({i \in origin[w].past \cap Of(run) : receipts[i].kind = "output"} \cup {0})
  BY DEF ResultsAreAncestral
<1> DEFINE S == {i \in Of(run) : receipts[i].kind = "output"}
<1>1. run \in Runs
  BY OwnIsFollowed
<1>2. PICK home \in Contexts : Recorded(run, home, Context(w)) /\ Descends(run, w)
  BY OwnIsFollowed
<1>3. {i \in origin[w].past \cap Of(run) : receipts[i].kind = "output"} = S
  BY <1>2 DEF Descends
<1>4. Outputs(run, w) = S
  BY <1>2 DEF Outputs, Descends, Revision
<1>5. ~Fails(Outputs(run, w), w) /\ {i \in Outputs(run, w) : AppliesTo(i, w)} = S
  <2>1. \A i \in Of(run) : AppliesTo(i, w) /\ LineageIsValid(receipts[i].flow, receipts[i].from)
    BY <1>1, <1>2, OwnReceiptsApply
  <2> QED BY <1>4, <2>1 DEF Fails
<1>6. LatestOutput(run, w) = IF S = {} THEN 0 ELSE Max(S)
  BY <1>5 DEF LatestOutput
<1>7. S \subseteq Nat /\ Len(receipts) \in Nat /\ \A i \in S : i <= Len(receipts)
  BY OfAreReceipts
<1> HIDE DEF S
<1>8. (IF S = {} THEN 0 ELSE Max(S)) = Max(S \cup {0})
  <2>1. Max(S \cup {0}) \in S \cup {0} /\ \A i \in S \cup {0} : i <= Max(S \cup {0})
    <3>1. S \cup {0} \subseteq Nat /\ S \cup {0} # {} /\ \A i \in S \cup {0} : i <= Len(receipts)
      BY <1>7
    <3> QED BY <1>7, <3>1, GreatestIsOne
  <2>2. CASE S = {}
    BY <2>1, <2>2
  <2>3. CASE S # {}
    <3>1. Max(S) \in S /\ \A i \in S : i <= Max(S)
      BY <1>7, <2>3, GreatestIsOne
    <3>2. PICK m : m = Max(S)
      OBVIOUS
    <3>3. PICK n : n = Max(S \cup {0})
      OBVIOUS
    <3>4. m \in S /\ m \in Nat /\ n \in Nat /\ m <= n
      <4>1. m \in S /\ n \in S \cup {0} /\ \A i \in S \cup {0} : i <= n
        BY <2>1, <3>1, <3>2, <3>3
      <4> QED BY <1>7, <4>1
    <3>5. n <= m
      <4>1. CASE n \in S
        BY <3>1, <3>2, <4>1
      <4>2. CASE n = 0
        BY <3>4, <4>2
      <4> QED BY <2>1, <3>3, <4>1, <4>2
    <3> QED BY <2>3, <3>2, <3>3, <3>4, <3>5
  <2> QED BY <2>2, <2>3
<1> QED BY <1>3, <1>6, <1>8

-----------------------------------------------------------------------------
(* The lineages of the runs are kept. *)

LEMMA InitialLineages ==
  ASSUME Init
  PROVE  Lineages /\ Began
<1>1. DOMAIN receipts = {} /\ live = {} /\ pending = Nothing
  BY EmptySeq DEF Init
<1>2. \A run : Of(run) = {}
  BY <1>1 DEF Of
<1>3. \A w \in Trees : IsActive(w) = FALSE
  BY FreshIsTyped DEF Init, StateOf, IsActive
<1> QED BY <1>1, <1>2, <1>3 DEF Lineages, Began, Clean

LEMMA BeganIsKept ==
  ASSUME Began, NEW flow, \A q : Keeps(q), \A q : q # flow => Spares(q), mixed \subseteq mixed',
         flow \in Runs => (flow \in mixed' \/ HasBegun(flow) \/ HasBegun(flow)' \/ Spares(flow)),
         \A w \in Trees : \A q :
           (IsActive(w)' /\ origin'[w].run = q) => (HasBegun(q) \/ HasBegun(q)'),
         pending' # Nothing =>
           \A q : pending'.run = q =>
             /\ pending'.transition = "workspace.cut" => HasBegun(q)
             /\ pending'.transition # "workspace.cut" => q \in mixed'
  PROVE  Began'
<1>1. \A q : HasBegun(q) => HasBegun(q)'
  BY KeptReceipts DEF HasBegun
<1>2. ASSUME NEW run \in Runs, run \notin mixed', Of(run)' # {}
      PROVE  HasBegun(run)'
  <2>1. CASE Spares(run)
    <3>1. Of(run)' = Of(run)
      BY <2>1 DEF Spares
    <3>2. Of(run) # {} /\ run \notin mixed
      BY <1>2, <3>1
    <3>3. HasBegun(run)
      BY <3>2 DEF Began
    <3> QED BY <1>1, <3>3
  <2> QED BY <1>1, <1>2, <2>1
<1>3. ASSUME NEW w \in Trees, IsActive(w)' PROVE HasBegun(origin[w].run)'
  <2>1. PICK q : q = origin'[w].run
    OBVIOUS
  <2>2. HasBegun(q)'
    BY <1>1, <1>3, <2>1
  <2> QED BY <2>1, <2>2 DEF HasBegun, Beginnings, Of
<1>4. ASSUME pending' # Nothing
      PROVE  /\ pending'.transition = "workspace.cut" => HasBegun(pending.run)'
             /\ pending'.transition # "workspace.cut" => pending'.run \in mixed'
  <2>1. PICK q : q = pending'.run
    OBVIOUS
  <2>2. pending'.transition = "workspace.cut" => HasBegun(q)'
    BY <1>1, <1>4, <2>1
  <2>3. pending'.transition # "workspace.cut" => q \in mixed'
    BY <1>4, <2>1
  <2> QED BY <2>1, <2>2, <2>3 DEF HasBegun, Beginnings, Of
<1> QED BY <1>2, <1>3, <1>4 DEF Began

LEMMA CleanBefore ==
  ASSUME NEW run, Keeps(run), mixed \subseteq mixed', run \in live, Clean(run)'
  PROVE  Clean(run)
  BY KeptReceipts DEF Clean

\* What another run or nobody commits leaves a run where it is.
LEMMA StayFollowed ==
  ASSUME TypeOK, TypeOK', NEW run \in Runs, NEW w \in Trees, NEW home \in Contexts,
         NEW place \in Contexts, Followed(run, w, home, place), Spares(run),
         \/ grant' = grant
         \/ grant'[run] # Nothing /\ grant'[run].context \in Places(run, home),
         IsActive(w)' = IsActive(w), Link(w)' = Link(w),
         Revision(w)' \in {Revision(w), Revision(w) + 1},
         origin'[w].run = origin[w].run, origin'[w].ref = origin[w].ref,
         origin[w].past \subseteq origin'[w].past,
         pending' = pending \/ (~IsInterrupted(run) /\ ~IsInterrupted(run)')
  PROVE  Followed(run, w, home, place)'
<1>1. Recorded(run, home, place)'
  BY SparedRecords DEF Followed, Recorded
<1>2. Descends(run, w)'
  <2>1. Of(run)' = Of(run) /\ \A i \in Of(run) : receipts'[i] = receipts[i]
    BY DEF Spares
  <2>2. Of(run)' \subseteq origin'[w].past /\ origin'[w].run = run
    BY <2>1 DEF Followed, Descends
  <2>3. ASSUME NEW i \in Of(run) PROVE receipts'[i].revision <= Revision(w)'
    <3>1. receipts[i].revision \in Nat /\ Revision(w) \in Nat
      BY OfAreReceipts, ReceiptFields, StateOfIsTyped DEF Revision
    <3>2. receipts[i].revision <= Revision(w) /\ receipts'[i] = receipts[i]
      BY <2>1 DEF Followed, Descends
    <3> QED BY <3>1, <3>2
  <2> QED BY <2>1, <2>2, <2>3 DEF Descends
<1>3. IsInterrupted(run)' => Waits(run, w, home, place)'
  BY DEF Followed, IsInterrupted, Waits
<1>4. ~IsInterrupted(run)' => (IsActive(w)' /\ Stays(w, home, place)')
  BY DEF Followed, IsInterrupted, Stays
<1> QED BY <1>1, <1>2, <1>3, <1>4 DEF Followed

LEMMA KeptFollowed ==
  ASSUME TypeOK, TypeOK', NEW run \in Runs, NEW S, NEW w \in Trees, w \notin S, KeptBut(S),
         NEW home \in Contexts, NEW place \in Contexts, Followed(run, w, home, place), Spares(run),
         grant' = grant,
         pending' = pending \/ (~IsInterrupted(run) /\ ~IsInterrupted(run)')
  PROVE  \E x \in Trees, h, p \in Contexts : Followed(run, x, h, p)'
<1>1. /\ IsActive(w)' = IsActive(w) /\ Link(w)' = Link(w) /\ Revision(w)' = Revision(w)
      /\ origin'[w] = origin[w]
  BY DEF KeptBut
<1>2. Followed(run, w, home, place)'
  BY <1>1, StayFollowed
<1> QED BY <1>2

LEMMA AuthorizeKeepsLineages ==
  ASSUME TypeOK, Custody, Lineages, Began, NEW r \in Runs, NEW x \in Trees,
         Authorize(r, x) \/ Reproject(r, x)
  PROVE  Lineages' /\ Began'
<1>1. /\ TypeOK' /\ KeptBut({})
      /\ UNCHANGED <<receipts, pending, origin, live, mixed>>
  BY AuthorizeIs DEF Authorize, Reproject
<1>2. /\ grant'[r] # Nothing /\ grant'[r].context = Context(x)
      /\ \A q \in Runs \ {r} : grant'[q] = grant[q]
  BY GrantIsTyped DEF Authorize, Reproject
<1>3. \A q : Spares(q) /\ Keeps(q)
  BY <1>1, QuietSpares
<1>4. Began'
  BY <1>1, <1>3, BeganIsKept DEF KeptBut, Began
<1>5. ASSUME NEW run \in Runs, Clean(run)'
      PROVE  \E w \in Trees, home, place \in Contexts : Followed(run, w, home, place)'
  <2>1. Clean(run)
    BY <1>1, <1>3, <1>5, CleanBefore DEF Clean
  <2>2. PICK w \in Trees, home \in Contexts, place \in Contexts : Followed(run, w, home, place)
    BY <2>1 DEF Lineages
  <2>3. grant'[run] # Nothing /\ grant'[run].context \in Places(run, home)
    <3>1. CASE run # r
      BY <1>2, <2>2, <3>1 DEF Followed, Recorded
    <3>2. CASE run = r
      <4>1. Recorded(run, home, place) /\ grant[run] # Nothing
        BY <2>2 DEF Followed, Recorded
      <4>2. InItsLineage(run, x)
        BY <3>2, <4>1 DEF Authorize, Reproject
      <4> QED BY <1>2, <3>2, <4>1, <4>2, AuthorizedIsAPlace
    <3> QED BY <3>1, <3>2
  <2>4. /\ IsActive(w)' = IsActive(w) /\ Link(w)' = Link(w) /\ Revision(w)' = Revision(w)
        /\ origin'[w] = origin[w]
    BY <1>1 DEF KeptBut
  <2>5. Followed(run, w, home, place)'
    BY <1>1, <1>3, <2>2, <2>3, <2>4, StayFollowed
  <2> QED BY <2>5
<1> QED BY <1>4, <1>5 DEF Lineages

LEMMA BindKeepsLineages ==
  ASSUME TypeOK, Custody, Lineages, Began, OneAtATime,
         NEW r \in Runs, NEW x \in Trees, Bind(r, x)
  PROVE  Lineages' /\ Began'
<1> DEFINE n == Len(receipts) + 1
<1>1. /\ TypeOK' /\ KeptBut({x})
      /\ IsActive(x) = FALSE /\ IsActive(x)' = TRUE /\ Link(x)' = NoLink
      /\ Revision(x)' = Revision(x) + 1
      /\ origin'[x].run = r /\ origin'[x].ref = head[x]
      /\ origin'[x].past = origin[x].past \cup {n}
      /\ receipts' = Logged(r, "bind", x, Nothing)
      /\ live' = live \cup {r}
      /\ Exists(x) /\ Bounded(x) /\ CanLog(r) /\ MayAct(r, x)
      /\ pending = Nothing /\ pending' = Nothing
      /\ grant' = grant /\ mixed' = mixed
  BY BindIs
<1>2. /\ \A q : Keeps(q)
      /\ \A q : q # r => Spares(q)
      /\ Commits(r, "bind", Context(x), Nothing, Revision(x) + 1)
  BY <1>1, LoggedCommits DEF Flows
<1>3. Len(receipts) \in Nat
  BY DomainIs
<1>4. /\ n \in Beginnings(r)' /\ Of(r)' = Of(r) \cup {n}
      /\ receipts'[n].revision = Revision(x) + 1
  BY <1>2 DEF Commits, Beginnings
<1> HIDE DEF n
<1>5. Began'
  <2>1. HasBegun(r)'
    BY <1>4 DEF HasBegun
  <2>2. ASSUME NEW w \in Trees, NEW q, IsActive(w)', origin'[w].run = q
        PROVE  HasBegun(q) \/ HasBegun(q)'
    BY <1>1, <2>1, <2>2 DEF KeptBut, Began
  <2> QED BY <1>1, <1>2, <2>1, <2>2, BeganIsKept
<1>6. ASSUME NEW run \in Runs, Clean(run)'
      PROVE  \E w \in Trees, home, place \in Contexts : Followed(run, w, home, place)'
  <2>1. CASE run = r
    <3>1. Of(run) = {}
      <4>1. n \notin Of(run)
        BY <1>3, OfAreReceipts DEF n
      <4>2. Beginnings(run) \subseteq Beginnings(run)' /\ Beginnings(run) \subseteq Of(run)
        BY <1>2, KeptReceipts DEF Beginnings
      <4>3. \A b \in Beginnings(run)' : b = n
        BY <1>4, <1>6, <2>1 DEF Clean, BeganOnce
      <4>4. ~HasBegun(run) /\ run \notin mixed
        BY <1>1, <1>6, <4>1, <4>2, <4>3 DEF HasBegun, Clean
      <4> QED BY <4>4 DEF Began
    <3>2. PICK home \in Contexts : home = Context(x)
      BY <1>1, ContextIsTyped
    <3>3. home.tree = x /\ home.ref = head[x]
      BY <3>2 DEF Context
    <3>4. grant[run] # Nothing /\ AuthorizedByRecords(run, grant[run].context, home)
      BY <1>1, <2>1, <3>2 DEF MayAct, Authorized, InItsLineage
    <3>5. Recorded(run, home, home)'
      BY <1>1, <1>2, <2>1, <3>1, <3>2, <3>4, FirstRecord
    <3>6. Descends(run, x)'
      <4>1. Of(run)' = {n} /\ Revision(x)' \in Nat
        BY <1>1, <1>4, <2>1, <3>1, StateOfIsTyped DEF Revision
      <4> QED BY <1>1, <1>4, <2>1, <4>1 DEF Descends
    <3>7. ~IsInterrupted(run)' /\ Stays(x, home, home)'
      BY <1>1, <3>3 DEF IsInterrupted, Stays
    <3>8. Followed(run, x, home, home)'
      BY <1>1, <3>5, <3>6, <3>7 DEF Followed
    <3> QED BY <3>8
  <2>2. CASE run # r
    <3>1. Clean(run)
      BY <1>1, <1>2, <1>6, <2>2, CleanBefore DEF Clean
    <3>2. PICK w \in Trees, home \in Contexts, place \in Contexts : Followed(run, w, home, place)
      BY <3>1 DEF Lineages
    <3>3. IsActive(w) /\ w # x
      BY <1>1, <3>2 DEF Followed, IsInterrupted
    <3> QED BY <1>1, <1>2, <2>2, <3>2, <3>3, KeptFollowed
  <2> QED BY <2>1, <2>2
<1> QED BY <1>5, <1>6 DEF Lineages

\* Where a run has moved to, it has what it had.
LEMMA DescendsOn ==
  ASSUME TypeOK, TypeOK', NEW run \in Runs, NEW w \in Trees, NEW v \in Trees,
         Descends(run, w), NEW kind, NEW from, NEW to,
         Commits(run, kind, from, to, Revision(w) + 1),
         origin'[v].run = run, origin'[v].past = origin[w].past \cup {Len(receipts) + 1},
         Revision(v)' = Revision(w) + 1
  PROVE  Descends(run, v)'
<1>1. PICK n : n = Len(receipts) + 1
  OBVIOUS
<1>2. /\ Of(run)' = Of(run) \cup {n}
      /\ \A i \in Of(run) : receipts'[i] = receipts[i]
      /\ receipts'[n].revision = Revision(w) + 1
  BY <1>1 DEF Commits
<1>3. Revision(w) \in Nat
  BY StateOfIsTyped DEF Revision
<1>4. ASSUME NEW i \in Of(run) PROVE receipts'[i].revision <= Revision(v)'
  <2>1. receipts[i].revision \in Nat /\ receipts[i].revision <= Revision(w)
    BY OfAreReceipts, ReceiptFields DEF Descends
  <2> QED BY <1>2, <1>3, <2>1
<1>5. Of(run)' \subseteq origin'[v].past
  BY <1>1, <1>2 DEF Descends
<1> QED BY <1>2, <1>3, <1>4, <1>5 DEF Descends

LEMMA HereIs ==
  ASSUME NEW run \in Runs, NEW past
  PROVE  Here(past, run) = past \cup {Len(receipts) + 1}
  BY NamesAssumption DEF Here

LEMMA MixesIs ==
  ASSUME NEW flow, NEW run, Mixes(flow, run)
  PROVE  mixed \subseteq mixed' /\ (flow # run => flow \in mixed' /\ run \in mixed')
  BY DEF Mixes

LEMMA StepKeepsLineages ==
  ASSUME TypeOK, Custody, Lineages, Began, NEW r \in Runs, NEW x \in Trees,
         NEW kind \in {"output", "configure"}, Step(r, x, kind)
  PROVE  Lineages' /\ Began'
<1>1. /\ TypeOK' /\ KeptBut({x})
      /\ IsActive(x) /\ IsActive(x)' /\ Link(x)' = Link(x)
      /\ Revision(x)' = Revision(x) + 1
      /\ origin'[x].run = origin[x].run /\ origin'[x].ref = origin[x].ref
      /\ origin'[x].past = origin[x].past \cup {Len(receipts) + 1}
      /\ receipts' = Logged(r, kind, x, Nothing)
      /\ Exists(x) /\ Bounded(x) /\ CanLog(r) /\ MayAct(r, x)
      /\ pending = Nothing /\ pending' = Nothing
      /\ grant' = grant /\ live' = live /\ mixed' = mixed
  BY StepIs
<1>2. /\ \A q : Keeps(q)
      /\ \A q : q # r => Spares(q)
      /\ Commits(r, kind, Context(x), Nothing, Revision(x) + 1)
  BY <1>1, LoggedCommits DEF Flows
<1>3. Began'
  <2>1. HasBegun(r)
    BY <1>1, SelectedHasBegun DEF HasBegun
  <2>2. ASSUME NEW w \in Trees, NEW q, IsActive(w)', origin'[w].run = q
        PROVE  HasBegun(q) \/ HasBegun(q)'
    BY <1>1, <2>2 DEF KeptBut, Began
  <2> QED BY <1>1, <1>2, <2>1, <2>2, BeganIsKept
<1>4. ASSUME NEW run \in Runs, Clean(run)'
      PROVE  \E w \in Trees, home, place \in Contexts : Followed(run, w, home, place)'
  <2>1. Clean(run)
    BY <1>1, <1>2, <1>4, CleanBefore DEF Clean
  <2>2. PICK w \in Trees, home \in Contexts, place \in Contexts : Followed(run, w, home, place)
    BY <2>1 DEF Lineages
  <2>3. ~IsInterrupted(run) /\ ~IsInterrupted(run)'
    BY <1>1 DEF IsInterrupted
  <2>4. CASE run = r
    <3>1. x = w /\ Context(x) = place
      BY <1>1, <2>1, <2>2, <2>3, <2>4, ActsWhereItIs DEF Clean
    <3>2. Recorded(run, home, place) /\ Descends(run, w) /\ Stays(w, home, place)
      BY <2>2, <2>3 DEF Followed
    <3>3. Recorded(run, home, place)'
      BY <1>1, <1>2, <2>4, <3>1, <3>2, ContinuedRecords
    <3>4. Descends(run, w)'
      <4>1. origin[w].run = run
        BY <3>2 DEF Descends
      <4> QED BY <1>1, <1>2, <2>4, <3>1, <3>2, <4>1, DescendsOn
    <3>5. Stays(w, home, place)'
      BY <1>1, <3>1, <3>2 DEF Stays
    <3>6. Followed(run, w, home, place)'
      BY <1>1, <2>3, <3>1, <3>3, <3>4, <3>5 DEF Followed
    <3> QED BY <3>6
  <2>5. CASE run # r /\ w = x
    <3>1. IsActive(w)' = IsActive(w)
      BY <1>1, <2>5, StateOfIsTyped
    <3>2. Followed(run, w, home, place)'
      BY <1>1, <1>2, <2>2, <2>5, <3>1, StayFollowed
    <3> QED BY <3>2
  <2>6. CASE run # r /\ w # x
    BY <1>1, <1>2, <2>2, <2>6, KeptFollowed
  <2> QED BY <2>4, <2>5, <2>6
<1> QED BY <1>3, <1>4 DEF Lineages

LEMMA FinishKeepsLineages ==
  ASSUME TypeOK, Custody, Lineages, Began, NEW x \in Trees, Finish(x)
  PROVE  Lineages' /\ Began'
<1>1. /\ TypeOK' /\ KeptBut({x}) /\ IsActive(x)' = FALSE
      /\ live' = live \ {origin[x].run}
      /\ pending = Nothing /\ pending' = Nothing
      /\ UNCHANGED <<receipts, grant, origin, mixed>>
  BY FinishIs
<1>2. \A q : Spares(q) /\ Keeps(q)
  BY <1>1, QuietSpares
<1>3. Began'
  <2>1. ASSUME NEW w \in Trees, NEW q, IsActive(w)', origin'[w].run = q
        PROVE  HasBegun(q) \/ HasBegun(q)'
    BY <1>1, <2>1 DEF KeptBut, Began
  <2> QED BY <1>1, <1>2, <2>1, BeganIsKept
<1>4. ASSUME NEW run \in Runs, Clean(run)'
      PROVE  \E w \in Trees, home, place \in Contexts : Followed(run, w, home, place)'
  <2>1. Clean(run) /\ run # origin[x].run
    BY <1>1, <1>2, <1>4, CleanBefore DEF Clean
  <2>2. PICK w \in Trees, home \in Contexts, place \in Contexts : Followed(run, w, home, place)
    BY <2>1 DEF Lineages
  <2>3. w # x
    BY <2>1, <2>2 DEF Followed, Descends
  <2> QED BY <1>1, <1>2, <2>2, <2>3, KeptFollowed
<1> QED BY <1>3, <1>4 DEF Lineages

LEMMA SwitchKeepsLineages ==
  ASSUME TypeOK, Custody, Lineages, Began, NEW x \in Trees, Switch(x)
  PROVE  Lineages' /\ Began'
<1>1. TypeOK' /\ UNCHANGED <<state, receipts, grant, pending, origin, live, mixed>>
  BY SwitchIs
<1>2. \A q : Spares(q) /\ Keeps(q)
  BY <1>1, QuietSpares
<1>3. \A u \in Trees : /\ IsActive(u)' = IsActive(u) /\ Link(u)' = Link(u)
                       /\ Revision(u)' = Revision(u)
  BY <1>1, NewStateIs
<1>4. Began'
  <2>1. ASSUME NEW w \in Trees, NEW q, IsActive(w)', origin'[w].run = q
        PROVE  HasBegun(q) \/ HasBegun(q)'
    BY <1>1, <1>3, <2>1 DEF Began
  <2> QED BY <1>1, <1>2, <2>1, BeganIsKept DEF Began
<1>5. ASSUME NEW run \in Runs, Clean(run)'
      PROVE  \E w \in Trees, home, place \in Contexts : Followed(run, w, home, place)'
  <2>1. Clean(run)
    BY <1>1, <1>2, <1>5, CleanBefore DEF Clean
  <2>2. PICK w \in Trees, home \in Contexts, place \in Contexts : Followed(run, w, home, place)
    BY <2>1 DEF Lineages
  <2>3. Followed(run, w, home, place)'
    BY <1>1, <1>2, <1>3, <2>2, StayFollowed
  <2> QED BY <2>3
<1> QED BY <1>4, <1>5 DEF Lineages

LEMMA EscalateKeepsLineages ==
  ASSUME TypeOK, Custody, Lineages, Began, NEW flow \in Flows, NEW x \in Trees,
         Escalate(flow, x)
  PROVE  Lineages' /\ Began'
<1>1. /\ TypeOK' /\ KeptBut({x})
      /\ IsActive(x)' = IsActive(x) /\ Link(x)' = Link(x)
      /\ Revision(x)' = Revision(x) + 1
      /\ pending # Nothing /\ pending' = Nothing
      /\ live' = live \ {pending.run}
      /\ UNCHANGED <<receipts, grant, origin, mixed>>
  BY EscalateIs
<1>2. \A q : Spares(q) /\ Keeps(q)
  BY <1>1, QuietSpares
<1>3. Began'
  <2>1. ASSUME NEW w \in Trees, NEW q, IsActive(w)', origin'[w].run = q
        PROVE  HasBegun(q) \/ HasBegun(q)'
    BY <1>1, <2>1 DEF KeptBut, Began
  <2> QED BY <1>1, <1>2, <2>1, BeganIsKept
<1>4. ASSUME NEW run \in Runs, Clean(run)'
      PROVE  \E w \in Trees, home, place \in Contexts : Followed(run, w, home, place)'
  <2>1. Clean(run) /\ run # pending.run
    BY <1>1, <1>2, <1>4, CleanBefore DEF Clean
  <2>2. PICK w \in Trees, home \in Contexts, place \in Contexts : Followed(run, w, home, place)
    BY <2>1 DEF Lineages
  <2>3. ~IsInterrupted(run) /\ ~IsInterrupted(run)'
    BY <1>1, <2>1 DEF IsInterrupted
  <2>4. CASE w = x
    <3>1. Followed(run, w, home, place)'
      BY <1>1, <1>2, <2>2, <2>3, <2>4, StayFollowed
    <3> QED BY <3>1
  <2>5. CASE w # x
    BY <1>1, <1>2, <2>2, <2>3, <2>5, KeptFollowed
  <2> QED BY <2>4, <2>5
<1> QED BY <1>3, <1>4 DEF Lineages

\* The delivery of a run that lives is in no worktree but the one of its lineage.
LEMMA HolderIs ==
  ASSUME TypeOK, Custody, NEW run \in Runs, run \in live, pending = Nothing,
         NEW w \in Trees, NEW home, NEW place, Followed(run, w, home, place)
  PROVE  /\ IsActive(w) /\ Exists(w) /\ origin[w].run = run
         /\ Recorded(run, home, place) /\ Descends(run, w) /\ Stays(w, home, place)
         /\ \A x \in Trees : (IsActive(x) /\ origin[x].run = run) => x = w
<1>1. /\ IsActive(w) /\ origin[w].run = run
      /\ Recorded(run, home, place) /\ Descends(run, w) /\ Stays(w, home, place)
  BY DEF Followed, IsInterrupted, Descends
<1>2. \A x \in Trees : (IsActive(x) /\ origin[x].run = run) => x = w
  BY <1>1 DEF Custody, Holdings
<1>3. \E x \in Trees : IsActive(x) /\ Exists(x) /\ origin[x].run = run
  BY DEF Custody, Kept
<1> QED BY <1>1, <1>2, <1>3

\* A run that is cut by its own transition goes from home to the new worktree.
LEMMA CutIsFollowed ==
  ASSUME TypeOK, TypeOK', NEW run \in Runs, NEW w \in Trees, NEW v \in Trees, w # v,
         NEW home \in Contexts, Context(w) = home,
         Recorded(run, home, home), Descends(run, w), NEW l \in Links, l # NoLink,
         l.tree = w, l.ref = home.ref,
         NEW to \in Contexts, to = [tree |-> v, ref |-> l.branch],
         Commits(run, "advance", home, to, Revision(w) + 1), grant' = grant,
         Transfers(w, v, run, run, l), Revision(v)' = Revision(w) + 1, pending' = Nothing
  PROVE  \E x \in Trees, h, p \in Contexts : Followed(run, x, h, p)'
<1>1. home.tree = w /\ to.tree = v
  BY DEF Context
<1>2. to # Nothing
  BY NothingAssumption
<1>3. Recorded(run, home, to)'
  BY <1>1, <1>2, ContinuedRecords
<1>4. /\ IsActive(v)' /\ Link(v)' = l
      /\ origin'[v].run = run /\ origin'[v].ref = l.branch
      /\ origin'[v].past = origin[w].past \cup {Len(receipts) + 1}
  BY HereIs DEF Transfers
<1>5. Descends(run, v)'
  BY <1>4, DescendsOn
<1>6. Stays(v, home, to)'
  BY <1>1, <1>4 DEF Stays
<1>7. ~IsInterrupted(run)'
  BY DEF IsInterrupted
<1>8. Followed(run, v, home, to)'
  BY <1>3, <1>4, <1>5, <1>6, <1>7 DEF Followed
<1> QED BY <1>8

LEMMA CutKeepsLineages ==
  ASSUME TypeOK, Custody, Lineages, Began, NEW flow \in Flows, NEW w \in Trees,
         NEW v \in Trees, NEW b \in Branches, Cut(flow, w, v, b)
  PROVE  Lineages' /\ Began'
<1>1. /\ TypeOK' /\ KeptBut({w, v})
      /\ Transfers(w, v, flow, origin[w].run, CutLink(w, b))
      /\ Revision(v)' = Revision(w) + 1
      /\ IsActive(w) /\ Link(w) = NoLink /\ Exists(w) /\ ~Exists(v)
      /\ CutLink(w, b) \in Links /\ CutLink(w, b) # NoLink
      /\ receipts' = Logged(flow, "advance", w, [tree |-> v, ref |-> b])
      /\ [tree |-> v, ref |-> b] \in Contexts
      /\ MayAct(flow, w) /\ Bounded(w) /\ CanLog(flow)
      /\ Mixes(flow, origin[w].run)
      /\ pending = Nothing /\ pending' = Nothing
      /\ grant' = grant /\ live' = live
  BY CutIs
<1>to. PICK to \in Contexts : to = [tree |-> v, ref |-> b]
  BY <1>1
<1>2. /\ \A q : Keeps(q)
      /\ \A q : q # flow => Spares(q)
      /\ flow \in Runs => Commits(flow, "advance", Context(w), to, Revision(w) + 1)
  BY <1>1, <1>to, LoggedCommits
<1>3. /\ mixed \subseteq mixed'
      /\ flow # origin[w].run => flow \in mixed' /\ origin[w].run \in mixed'
  BY <1>1, MixesIs
<1>4. /\ w # v /\ IsActive(w)' = FALSE /\ origin'[v].run = origin[w].run
  BY <1>1 DEF Transfers
<1>5. Began'
  <2>1. flow \in Runs => HasBegun(flow)
    BY <1>1, SelectedHasBegun DEF HasBegun
  <2>2. ASSUME NEW u \in Trees, NEW q, IsActive(u)', origin'[u].run = q
        PROVE  HasBegun(q) \/ HasBegun(q)'
    BY <1>1, <1>4, <2>2 DEF KeptBut, Began
  <2> QED BY <1>1, <1>2, <1>3, <2>1, <2>2, BeganIsKept
<1>6. ASSUME NEW run \in Runs, Clean(run)'
      PROVE  \E x \in Trees, home, place \in Contexts : Followed(run, x, home, place)'
  <2>1. Clean(run) /\ run \in live /\ run \notin mixed'
    BY <1>1, <1>2, <1>3, <1>6, CleanBefore DEF Clean
  <2>2. PICK x \in Trees, home \in Contexts, place \in Contexts : Followed(run, x, home, place)
    BY <2>1 DEF Lineages
  <2>3. /\ IsActive(x) /\ Exists(x) /\ origin[x].run = run
        /\ Recorded(run, home, place) /\ Descends(run, x) /\ Stays(x, home, place)
        /\ \A u \in Trees : (IsActive(u) /\ origin[u].run = run) => u = x
    BY <1>1, <2>1, <2>2, HolderIs
  <2>4. ~IsInterrupted(run) /\ ~IsInterrupted(run)'
    BY <1>1 DEF IsInterrupted
  <2>5. CASE x = w
    <3>1. flow = run
      BY <1>3, <2>1, <2>3, <2>5
    <3>2. Context(w) = place
      BY <1>1, <2>1, <2>2, <2>4, <2>5, <3>1, ActsWhereItIs DEF Clean
    <3>3. home.tree \in Trees
      BY ContextFields
    <3>4. place = home
      BY <1>1, <2>3, <2>5, <3>3, NamesAssumption DEF Stays, NoLink
    <3>5. CutLink(w, b).tree = w /\ CutLink(w, b).ref = home.ref /\ CutLink(w, b).branch = b
      BY <3>2, <3>4 DEF CutLink, Context
    <3>6. PICK l \in Links : l = CutLink(w, b)
      BY <1>1
    <3> QED BY <1>1, <1>to, <1>2, <1>4, <2>3, <2>5, <3>1, <3>2, <3>4, <3>5, <3>6, CutIsFollowed
  <2>6. CASE x # w
    <3>1. run # flow /\ x # v
      BY <1>1, <1>3, <2>1, <2>3, <2>6
    <3> QED BY <1>1, <1>2, <2>2, <2>4, <2>6, <3>1, KeptFollowed
  <2> QED BY <2>5, <2>6
<1> QED BY <1>5, <1>6 DEF Lineages

LEMMA CutStopsKeepsLineages ==
  ASSUME TypeOK, Custody, Lineages, Began, NEW flow \in Flows, NEW w \in Trees,
         NEW v \in Trees, NEW b \in Branches, NEW done \in 0 .. 3,
         CutStops(flow, w, v, b, done)
  PROVE  Lineages' /\ Began'
<1>1. /\ TypeOK' /\ KeptBut({w, v})
      /\ w # v /\ Exists(w) /\ ~Exists(v) /\ pending = Nothing
      /\ IsActive(w) = TRUE /\ Link(w) = NoLink
      /\ pending' = Cutting(flow, w, v, b)
      /\ pending'.link = CutLink(w, b)
      /\ origin'[w] = origin[w]
      /\ Revision(w)' \in {Revision(w), Revision(w) + 1}
      /\ mixed' = IF head[w] = origin[w].ref THEN mixed ELSE mixed \cup {origin[w].run}
      /\ UNCHANGED <<receipts, grant, live>>
  BY CutStopsIs
<1>2. \/ /\ origin'[v] = origin[v] /\ IsActive(v)' = IsActive(v)
      \/ origin'[v].run = origin[w].run
  BY CutStopsIs
<1>3. /\ pending'.transition = "workspace.cut" /\ pending'.tree = w
      /\ pending'.run = origin[w].run /\ CutLink(w, b).ref = head[w]
  BY <1>1 DEF Cutting, CutLink
<1>4. \A q : Spares(q) /\ Keeps(q)
  BY <1>1, QuietSpares
<1>5. mixed \subseteq mixed' /\ (head[w] # origin[w].ref => origin[w].run \in mixed')
  BY <1>1
<1>6. Began'
  <2>1. ASSUME NEW u \in Trees, NEW q, IsActive(u)', origin'[u].run = q
        PROVE  HasBegun(q) \/ HasBegun(q)'
    <3>1. CASE u = w
      BY <1>1, <2>1, <3>1 DEF Began
    <3>2. CASE u = v
      BY <1>1, <1>2, <2>1, <3>2 DEF Began
    <3>3. CASE u \notin {w, v}
      BY <1>1, <2>1, <3>3 DEF KeptBut, Began
    <3> QED BY <3>1, <3>2, <3>3
  <2>2. HasBegun(origin[w].run)
    BY <1>1 DEF Began
  <2> QED BY <1>3, <1>4, <1>5, <2>1, <2>2, BeganIsKept
<1>7. ASSUME NEW run \in Runs, Clean(run)'
      PROVE  \E x \in Trees, home, place \in Contexts : Followed(run, x, home, place)'
  <2>1. Clean(run) /\ run \in live /\ run \notin mixed'
    BY <1>1, <1>4, <1>5, <1>7, CleanBefore DEF Clean
  <2>2. PICK x \in Trees, home \in Contexts, place \in Contexts : Followed(run, x, home, place)
    BY <2>1 DEF Lineages
  <2>3. /\ IsActive(x) /\ Exists(x) /\ origin[x].run = run
        /\ Recorded(run, home, place) /\ Descends(run, x) /\ Stays(x, home, place)
        /\ \A u \in Trees : (IsActive(u) /\ origin[u].run = run) => u = x
    BY <1>1, <2>1, <2>2, HolderIs
  <2>4. CASE x = w
    <3>1. head[w] = origin[w].ref
      BY <1>5, <2>1, <2>3, <2>4
    <3>2. home.tree \in Trees
      BY ContextFields
    <3>3. place = home /\ w = home.tree /\ origin[w].ref = home.ref
      BY <1>1, <2>3, <2>4, <3>2, NamesAssumption DEF Stays, NoLink
    <3>4. Recorded(run, home, place)'
      BY <1>1, <1>4, <2>3, SparedRecords DEF Recorded
    <3>5. Descends(run, w)'
      <4>1. Of(run)' = Of(run) /\ \A i \in Of(run) : receipts'[i] = receipts[i]
        BY <1>4 DEF Spares
      <4>2. ASSUME NEW i \in Of(run) PROVE receipts'[i].revision <= Revision(w)'
        <5>1. receipts[i].revision \in Nat /\ Revision(w) \in Nat
              /\ receipts[i].revision <= Revision(w)
          BY <2>3, <2>4, OfAreReceipts, ReceiptFields, StateOfIsTyped DEF Revision, Descends
        <5> QED BY <1>1, <4>1, <5>1
      <4> QED BY <1>1, <2>3, <2>4, <4>1, <4>2 DEF Descends
    <3>6. IsInterrupted(run)' /\ Waits(run, w, home, place)'
      <4>1. pending' # Nothing
        BY <1>1, CutStopsIs, NothingAssumption
      <4> QED BY <1>1, <1>3, <2>3, <2>4, <3>1, <3>3, <4>1 DEF IsInterrupted, Waits
    <3>7. Followed(run, w, home, place)'
      BY <3>4, <3>5, <3>6 DEF Followed
    <3> QED BY <3>7
  <2>5. CASE x # w
    <3>1. run # origin[w].run /\ x # v
      BY <1>1, <2>3, <2>5
    <3>2. ~IsInterrupted(run) /\ ~IsInterrupted(run)'
      BY <1>1, <1>3, <3>1 DEF IsInterrupted
    <3> QED BY <1>1, <1>4, <2>2, <2>5, <3>1, <3>2, KeptFollowed
  <2> QED BY <2>4, <2>5
<1> QED BY <1>6, <1>7 DEF Lineages

LEMMA ReconcileKeepsLineages ==
  ASSUME TypeOK, Custody, Lineages, Began, NEW flow \in Flows, NEW u \in Trees,
         ReconcileCut(flow, u)
  PROVE  Lineages' /\ Began'
<1>1. /\ pending # Nothing /\ pending.transition = "workspace.cut" /\ pending' = Nothing
      /\ Exists(u) /\ MayAct(flow, u) /\ Bounded(u) /\ CanLog(flow)
      /\ IF u = pending.tree THEN Mixes(flow, pending.run)
                             ELSE mixed' = mixed \cup {flow, pending.run}
      /\ head' = head /\ grant' = grant /\ live' = live
  BY ReconcilesIs DEF ReconcileCut
<1>2. /\ pending.tree \in Trees /\ pending.to \in Trees /\ pending.link \in Links
      /\ pending.branch \in Refs
  BY <1>1, CutFields
<1>w. PICK w \in Trees : w = pending.tree
  BY <1>2
<1>v. PICK v \in Trees : v = pending.to
  BY <1>2
<1>l. PICK l \in Links : l = pending.link
  BY <1>2
<1>3. /\ w # v /\ Exists(w)
      /\ pending.run \in Runs /\ origin[w].run = pending.run
      /\ pending.prior.active = TRUE /\ pending.prior.link = NoLink
      /\ pending.link.branch = pending.branch /\ l.tree = w /\ l.branch = pending.branch
      /\ (IsActive(v) /\ origin[v].run \in live) => origin[v].run = pending.run
  BY <1>1, <1>w, <1>v, <1>l DEF Custody, CutCustody, CutIsSound
<1>4. /\ mixed \subseteq mixed'
      /\ (u # w \/ flow # pending.run) => (flow \in mixed' /\ pending.run \in mixed')
  BY <1>1, <1>w, MixesIs
<1>5. /\ TypeOK' /\ KeptBut({w, v})
      /\ \A q : Keeps(q)
      /\ \A q : q # flow => Spares(q)
      /\ \A x \in {w, v} : IsActive(x)' => origin'[x].run = pending.run
  <2>1. CASE Exists(v)
    <3>1. /\ TypeOK' /\ KeptBut({w, v})
          /\ Transfers(w, v, flow, origin[w].run, pending.link)
          /\ receipts' = Logged(flow, "advance", u, [tree |-> v, ref |-> pending.branch])
          /\ [tree |-> v, ref |-> pending.branch] \in Contexts
      BY <1>3, <1>w, <1>v, <2>1, CompletedIs
    <3>2. PICK to \in Contexts : to = [tree |-> v, ref |-> pending.branch]
      BY <3>1
    <3>3. /\ \A q : Keeps(q)
          /\ \A q : q # flow => Spares(q)
      BY <1>1, <3>1, <3>2, LoggedCommits
    <3>4. \A x \in {w, v} : IsActive(x)' => origin'[x].run = pending.run
      BY <1>3, <3>1 DEF Transfers
    <3> QED BY <3>1, <3>3, <3>4
  <2>2. CASE ~Exists(v)
    <3>1. /\ TypeOK' /\ KeptBut({w, v}) /\ u = w /\ Undoes(w, v, flow)
          /\ receipts' = Logged(flow, "advance", w, Context(w))
      BY <1>3, <1>w, <1>v, <2>2, UndoneIs
    <3>2. PICK to \in Contexts : to = Context(w)
      BY <1>3, ContextIsTyped
    <3>3. /\ \A q : Keeps(q)
          /\ \A q : q # flow => Spares(q)
      BY <1>1, <3>1, <3>2, LoggedCommits
    <3>4. \A x \in {w, v} : IsActive(x)' => origin'[x].run = pending.run
      BY <1>3, <3>1 DEF Undoes
    <3> QED BY <3>1, <3>3, <3>4
  <2> QED BY <2>1, <2>2
<1>6. Began'
  <2>1. HasBegun(pending.run)
    BY <1>1 DEF Began
  <2>2. flow \in mixed' \/ HasBegun(flow)
    BY <1>4, <2>1
  <2>3. ASSUME NEW x \in Trees, NEW q, IsActive(x)', origin'[x].run = q
        PROVE  HasBegun(q) \/ HasBegun(q)'
    BY <1>5, <2>1, <2>3 DEF KeptBut, Began
  <2> QED BY <1>1, <1>4, <1>5, <2>2, <2>3, BeganIsKept
<1>7. ASSUME NEW run \in Runs, Clean(run)'
      PROVE  \E x \in Trees, home, place \in Contexts : Followed(run, x, home, place)'
  <2>1. Clean(run) /\ run \in live /\ run \notin mixed'
    BY <1>1, <1>4, <1>5, <1>7, CleanBefore DEF Clean
  <2>2. PICK x \in Trees, home \in Contexts, place \in Contexts : Followed(run, x, home, place)
    BY <2>1 DEF Lineages
  <2>3. CASE pending.run = run
    <3>1. u = w /\ flow = run
      BY <1>4, <2>1, <2>3
    <3>2. IsInterrupted(run)
      BY <1>1, <2>3 DEF IsInterrupted
    <3>3. /\ x = w /\ w = home.tree /\ place = home
          /\ origin[w].ref = home.ref /\ l.ref = home.ref
          /\ Recorded(run, home, home) /\ Descends(run, w)
      BY <1>w, <1>l, <2>2, <3>2 DEF Followed, Waits
    <3>4. Context(w) = home
      BY <1>1, <2>2, <3>1, <3>2, <3>3, WaitsAtHome
    <3>5. CASE Exists(v)
      <4>1. /\ TypeOK'
            /\ Transfers(w, v, run, run, l)
            /\ Revision(v)' = Revision(w) + 1
            /\ receipts' = Logged(run, "advance", w, [tree |-> v, ref |-> pending.branch])
            /\ [tree |-> v, ref |-> pending.branch] \in Contexts
        <5>1. /\ TypeOK'
              /\ Transfers(w, v, flow, origin[w].run, pending.link)
              /\ Revision(v)' = Revision(u) + 1
              /\ receipts' = Logged(flow, "advance", u, [tree |-> v, ref |-> pending.branch])
              /\ [tree |-> v, ref |-> pending.branch] \in Contexts
          BY <1>3, <1>w, <1>v, <3>5, CompletedIs
        <5> QED BY <1>3, <1>l, <2>3, <3>1, <5>1
      <4>2. PICK to \in Contexts : to = [tree |-> v, ref |-> l.branch]
        BY <1>3, <4>1
      <4>3. Commits(run, "advance", home, to, Revision(w) + 1)
        BY <1>1, <1>3, <3>1, <3>4, <4>1, <4>2, LoggedCommits
      <4>4. l # NoLink
        BY <1>3, NoLinkIsNowhere
      <4> QED BY <1>1, <1>3, <3>3, <3>4, <4>1, <4>2, <4>3, <4>4, CutIsFollowed
    <3>6. CASE ~Exists(v)
      <4>1. TypeOK' /\ Undoes(w, v, run)
            /\ receipts' = Logged(run, "advance", w, Context(w))
        BY <1>3, <1>w, <1>v, <3>1, <3>6, UndoneIs
      <4>2. Commits(run, "advance", home, home, Revision(w) + 1)
        BY <1>1, <1>3, <3>1, <3>4, <4>1, LoggedCommits
      <4>3. home # Nothing
        BY NothingAssumption
      <4>4. Recorded(run, home, home)'
        BY <1>1, <3>3, <4>1, <4>2, <4>3, ContinuedRecords
      <4>5. /\ IsActive(w)' /\ Link(w)' = NoLink /\ Revision(w)' = Revision(w) + 1
            /\ origin'[w].run = run /\ origin'[w].ref = home.ref
            /\ origin'[w].past = origin[w].past \cup {Len(receipts) + 1}
        BY <1>3, <2>3, <3>3, <4>1, HereIs DEF Undoes
      <4>6. Descends(run, w)'
        BY <3>3, <4>1, <4>2, <4>5, DescendsOn
      <4>7. Stays(w, home, home)' /\ ~IsInterrupted(run)'
        BY <1>1, <3>3, <4>5 DEF Stays, IsInterrupted
      <4>8. Followed(run, w, home, home)'
        BY <4>4, <4>5, <4>6, <4>7 DEF Followed
      <4> QED BY <4>8
    <3> QED BY <3>5, <3>6
  <2>4. CASE pending.run # run
    <3>1. ~IsInterrupted(run) /\ ~IsInterrupted(run)'
      BY <1>1, <2>4 DEF IsInterrupted
    <3>2. IsActive(x) /\ origin[x].run = run
      BY <2>2, <3>1 DEF Followed, Descends
    <3>3. x \notin {w, v} /\ run # flow
      BY <1>3, <1>4, <2>1, <2>4, <3>2
    <3> QED BY <1>1, <1>5, <2>2, <3>1, <3>3, KeptFollowed
  <2> QED BY <2>3, <2>4
<1> QED BY <1>6, <1>7 DEF Lineages

LEMMA ReturnKeepsLineages ==
  ASSUME TypeOK, Custody, Lineages, Began, NEW flow \in Flows, NEW w \in Trees,
         Return(flow, w)
  PROVE  Lineages' /\ Began'
<1>1. PICK s \in Trees : s = Link(w).tree /\ s # w
  <2>1. Link(w) # NoLink
    BY DEF Return, CanReturn, Link
  <2> QED BY <2>1, TransfersAreBetweenTwo
<1>2. /\ TypeOK' /\ KeptBut({w, s}) /\ Brings(w, s, flow)
      /\ Exists(w) /\ Exists(s) /\ pending = Nothing /\ pending' = Nothing
      /\ Link(w) # NoLink
      /\ head[s] = Link(w).ref
      /\ receipts' = Logged(flow, "advance", w, Context(s))
      /\ Context(s) \in Contexts
      /\ MayAct(flow, w) /\ Bounded(w) /\ CanLog(flow)
      /\ flow \in Runs => IsActive(w)
      /\ Mixes(flow, origin[w].run)
      /\ grant' = grant /\ live' = live
  BY <1>1, ReturnIs
<1>to. PICK to \in Contexts : to = Context(s)
  BY <1>2
<1>3. /\ IsActive(w)' = FALSE
      /\ IsActive(s)' = IsActive(w) /\ Link(s)' = NoLink /\ Revision(s)' = Revision(w) + 1
      /\ origin'[s].run = origin[w].run /\ origin'[s].ref = head[s]
      /\ origin'[s].past = Here(origin[w].past, flow)
  BY <1>2 DEF Brings
<1>4. /\ \A q : Keeps(q)
      /\ \A q : q # flow => Spares(q)
      /\ flow \in Runs => Commits(flow, "advance", Context(w), to, Revision(w) + 1)
  BY <1>2, <1>to, LoggedCommits
<1>5. /\ mixed \subseteq mixed'
      /\ flow # origin[w].run => flow \in mixed' /\ origin[w].run \in mixed'
  BY <1>2, MixesIs
<1>6. Began'
  <2>1. flow \in Runs => HasBegun(flow)
    BY <1>2, SelectedHasBegun DEF HasBegun
  <2>2. ASSUME NEW u \in Trees, NEW q, IsActive(u)', origin'[u].run = q
        PROVE  HasBegun(q) \/ HasBegun(q)'
    BY <1>2, <1>3, <2>2 DEF KeptBut, Began
  <2> QED BY <1>2, <1>4, <1>5, <2>1, <2>2, BeganIsKept
<1>7. ~IsActive(s)
  BY <1>1 DEF Custody, Parkings
<1>8. ASSUME NEW run \in Runs, Clean(run)'
      PROVE  \E x \in Trees, home, place \in Contexts : Followed(run, x, home, place)'
  <2>1. Clean(run) /\ run \in live /\ run \notin mixed'
    BY <1>2, <1>4, <1>5, <1>8, CleanBefore DEF Clean
  <2>2. PICK x \in Trees, home \in Contexts, place \in Contexts : Followed(run, x, home, place)
    BY <2>1 DEF Lineages
  <2>3. /\ IsActive(x) /\ origin[x].run = run
        /\ Recorded(run, home, place) /\ Descends(run, x) /\ Stays(x, home, place)
        /\ \A u \in Trees : (IsActive(u) /\ origin[u].run = run) => u = x
    BY <1>2, <2>1, <2>2, HolderIs
  <2>4. ~IsInterrupted(run) /\ ~IsInterrupted(run)'
    BY <1>2 DEF IsInterrupted
  <2>5. CASE x = w
    <3>1. flow = run
      BY <1>5, <2>1, <2>3, <2>5
    <3>2. Context(w) = place
      BY <1>2, <2>1, <2>2, <2>3, <2>4, <2>5, <3>1, ActsWhereItIs DEF Clean
    <3>3. s = home.tree /\ head[s] = home.ref
      BY <1>1, <1>2, <2>3, <2>5 DEF Stays
    <3>4. to = home
      BY <1>to, <3>3, ContextFields DEF Context
    <3>5. home # Nothing
      BY NothingAssumption
    <3>6. Commits(run, "advance", place, home, Revision(w) + 1)
      BY <1>4, <3>1, <3>2, <3>4
    <3>7. Recorded(run, home, home)'
      BY <1>2, <2>3, <3>5, <3>6, ContinuedRecords
    <3>8. Descends(run, s)'
      <4>1. origin'[s].past = origin[w].past \cup {Len(receipts) + 1}
        BY <1>3, <3>1, HereIs
      <4> QED BY <1>2, <1>3, <2>3, <2>5, <3>6, <4>1, DescendsOn
    <3>9. IsActive(s)' /\ Stays(s, home, home)'
      BY <1>3, <2>3, <2>5, <3>3 DEF Stays
    <3>10. Followed(run, s, home, home)'
      BY <2>4, <3>7, <3>8, <3>9 DEF Followed
    <3> QED BY <3>10
  <2>6. CASE x # w
    <3>1. x # s
      BY <1>7, <2>3
    <3>2. run # flow
      BY <1>2, <1>5, <2>1, <2>3, <2>6
    <3> QED BY <1>2, <1>4, <2>2, <2>4, <2>6, <3>1, <3>2, KeptFollowed
  <2> QED BY <2>5, <2>6
<1> QED BY <1>6, <1>8 DEF Lineages

LEMMA ReturnStopsKeepsLineages ==
  ASSUME TypeOK, Custody, Lineages, Began, NEW flow \in Flows, NEW w \in Trees,
         NEW done \in 0 .. 3, ReturnStops(flow, w, done)
  PROVE  Lineages' /\ Began'
<1>1. PICK s \in Trees : s = Link(w).tree /\ s # w
  <2>1. Link(w) # NoLink
    BY DEF ReturnStops, CanReturn, Link
  <2> QED BY <2>1, TransfersAreBetweenTwo
<1>2. /\ TypeOK' /\ KeptBut({w, s}) /\ pending = Nothing
      /\ pending' = [transition |-> "workspace.cleanup", tree |-> w, run |-> origin[w].run]
      /\ mixed' = mixed \cup {origin[w].run}
      /\ UNCHANGED <<receipts, grant, live>>
  BY <1>1, ReturnStopsIs
<1>3. \/ /\ IsActive(w)' = IsActive(w) /\ origin'[w] = origin[w]
         /\ IsActive(s)' = IsActive(s) /\ origin'[s] = origin[s]
      \/ /\ IsActive(w)' = FALSE
         /\ IsActive(s)' = IsActive(s) /\ origin'[s] = origin[s]
      \/ /\ IsActive(w)' = FALSE
         /\ IsActive(s)' = IsActive(w) /\ origin'[s].run = origin[w].run
  BY <1>1, ReturnStopsIs
<1>4. /\ pending'.transition # "workspace.cut" /\ pending'.run = origin[w].run
      /\ origin[w].run \in mixed' /\ mixed \subseteq mixed'
  BY <1>2
<1>5. \A q : Spares(q) /\ Keeps(q)
  BY <1>2, QuietSpares
<1>6. Began'
  <2>1. ASSUME NEW u \in Trees, NEW q, IsActive(u)', origin'[u].run = q
        PROVE  HasBegun(q) \/ HasBegun(q)'
    <3>1. CASE u \notin {w, s}
      BY <1>2, <2>1, <3>1 DEF KeptBut, Began
    <3>2. CASE u = w
      BY <1>3, <2>1, <3>2 DEF Began
    <3>3. CASE u = s
      BY <1>3, <2>1, <3>3 DEF Began
    <3> QED BY <3>1, <3>2, <3>3
  <2> QED BY <1>4, <1>5, <2>1, BeganIsKept
<1>7. ~IsActive(s)
  BY <1>1 DEF Custody, Parkings
<1>8. ASSUME NEW run \in Runs, Clean(run)'
      PROVE  \E x \in Trees, home, place \in Contexts : Followed(run, x, home, place)'
  <2>1. Clean(run) /\ run \in live /\ run # origin[w].run
    BY <1>2, <1>4, <1>5, <1>8, CleanBefore DEF Clean
  <2>2. PICK x \in Trees, home \in Contexts, place \in Contexts : Followed(run, x, home, place)
    BY <2>1 DEF Lineages
  <2>3. IsActive(x) /\ origin[x].run = run
    BY <1>2, <2>1, <2>2, HolderIs
  <2>4. ~IsInterrupted(run) /\ ~IsInterrupted(run)'
    BY <1>2, <1>4, <2>1 DEF IsInterrupted
  <2>5. x \notin {w, s}
    BY <1>7, <2>1, <2>3
  <2> QED BY <1>2, <1>5, <2>2, <2>4, <2>5, KeptFollowed
<1> QED BY <1>6, <1>8 DEF Lineages

LEMMA LineagesAreKept ==
  ASSUME TypeOK, Custody, Lineages, Began, OneAtATime, [Next]_vars
  PROVE  Lineages' /\ Began'
<1>1. CASE UNCHANGED vars
  <2>1. Lineages'
    BY <1>1 DEF vars, Lineages, Clean, BeganOnce, Beginnings, Of, Followed, Recorded, IsAt,
       Advances, Later, Places, Descends, Revision, StateOf, IsInterrupted, Waits, IsActive,
       Stays, Link
  <2>2. Began'
    BY <1>1 DEF vars, Began, HasBegun, Beginnings, Of, IsActive, StateOf
  <2> QED BY <2>1, <2>2
<1>2. CASE Next
  <2>1. ASSUME NEW r \in Runs, NEW w \in Trees, Authorize(r, w) \/ Reproject(r, w) \/ Bind(r, w)
        PROVE  Lineages' /\ Began'
    BY <2>1, AuthorizeKeepsLineages, BindKeepsLineages
  <2>2. ASSUME NEW r \in Runs, NEW w \in Trees, NEW k \in {"output", "configure"}, Step(r, w, k)
        PROVE  Lineages' /\ Began'
    BY <2>2, StepKeepsLineages
  <2>3. ASSUME NEW w \in Trees, Finish(w) \/ Switch(w)
        PROVE  Lineages' /\ Began'
    BY <2>3, FinishKeepsLineages, SwitchKeepsLineages
  <2>4. ASSUME NEW f \in Flows, NEW w \in Trees, NEW v \in Trees, NEW b \in Branches,
               Cut(f, w, v, b) \/ \E done \in 0 .. 3 : CutStops(f, w, v, b, done)
        PROVE  Lineages' /\ Began'
    BY <2>4, CutKeepsLineages, CutStopsKeepsLineages
  <2>5. ASSUME NEW f \in Flows, NEW w \in Trees,
               \/ Return(f, w)
               \/ \E done \in 0 .. 3 : ReturnStops(f, w, done)
               \/ pending # Nothing /\ ReconcileCut(f, w)
               \/ Escalate(f, w)
        PROVE  Lineages' /\ Began'
    BY <2>5, ReturnKeepsLineages, ReturnStopsKeepsLineages, ReconcileKeepsLineages,
       EscalateKeepsLineages
  <2> QED BY <1>2, <2>1, <2>2, <2>3, <2>4, <2>5 DEF Next
<1> QED BY <1>1, <1>2

\* The records of a run that nobody else has moved, and that has begun once, lead
\* from where it began to where its delivery is, after any steps.
THEOREM LineagesHold ==
  OneAtATime => (Spec => [](TypeOK /\ Custody /\ Lineages /\ Began))
<1> SUFFICES ASSUME OneAtATime PROVE Spec => [](TypeOK /\ Custody /\ Lineages /\ Began)
  OBVIOUS
<1>1. Init => TypeOK /\ Custody /\ Lineages /\ Began
  BY InitialCustody, InitialLineages
<1>2. (TypeOK /\ Custody /\ Lineages /\ Began) /\ [Next]_vars
        => (TypeOK /\ Custody /\ Lineages /\ Began)'
  BY CustodyIsKept, LineagesAreKept
<1> QED BY <1>1, <1>2, PTL DEF Spec

\* The receipts of a run authorize it, and let it renew its authority, wherever its
\* own transitions have taken its delivery.
THEOREM AuthorityFollowsTheRun ==
  OneAtATime => (Spec => []RunsStayAuthorized)
<1> SUFFICES ASSUME OneAtATime PROVE Spec => []RunsStayAuthorized
  OBVIOUS
<1>1. TypeOK /\ Custody /\ Lineages /\ Began => RunsStayAuthorized
  BY LineagesAuthorize
<1> QED BY <1>1, LineagesHold, PTL

\* There a run finds its own latest result, and none that what it stands on does
\* not come from.
THEOREM ResultsFollowTheRun ==
  OneAtATime => (Spec => []ResultsAreAncestral)
<1> SUFFICES ASSUME OneAtATime PROVE Spec => []ResultsAreAncestral
  OBVIOUS
<1>1. TypeOK /\ Custody /\ Lineages /\ Began => ResultsAreAncestral
  BY LineagesAreAncestral
<1> QED BY <1>1, LineagesHold, PTL

-----------------------------------------------------------------------------
(* Which of the runs that have been in a worktree is the latest there. *)

\* No run has moved or reconciled what is not its own, and none has begun again.
Undisturbed == \A run \in Runs : BeganOnce(run) /\ run \notin mixed

\* What an active state says of its delivery is that of its run, and whatever is
\* linked is or was a run's.
Named ==
  /\ \A x \in Trees : IsActive(x) => StateOf(x).delivery = Delivery(origin[x].run)
  /\ \A x \in Trees : Link(x) # NoLink => origin[x].run \in Runs
  /\ (pending # Nothing /\ pending.transition = "workspace.cut") =>
       pending.prior.delivery = Delivery(pending.run)

Ends(home, place) == {home.tree, place.tree}

BoundBy(run, n) == \A b \in Beginnings(run) : receipts[b].revision <= n

Precedes(run, next) ==
  \A b \in Beginnings(run), c \in Beginnings(next) : receipts[b].revision < receipts[c].revision

\* Each run has been where its records say, and these worktrees are there.
Traced(home, place) ==
  \A run \in Runs : HasBegun(run) =>
    /\ Recorded(run, home[run], place[run])
    /\ \A x \in Ends(home[run], place[run]) : Exists(x) /\ BoundBy(run, Revision(x))

\* The delivery is at home, or in a worktree that will carry it back there.
Stands(x, home, place) ==
  \/ /\ x = home.tree /\ place = home
     /\ Link(x) = NoLink /\ origin[x].ref = home.ref
  \/ /\ x # home.tree /\ (place = home \/ place.tree = x)
     /\ Link(x).tree = home.tree /\ Link(x).ref = home.ref

Standing(home, place) ==
  \A x \in Trees, run \in Runs : (IsActive(x) /\ origin[x].run = run) =>
    Stands(x, home[run], place[run])

\* Of the runs that have been at the home of a delivery, its own began last, and
\* no other has been where it went from there.
Latest(home, place) ==
  \A x \in Trees, run, other \in Runs :
    (IsActive(x) /\ origin[x].run = run /\ other # run /\ HasBegun(other)) =>
      /\ home[run].tree \in Ends(home[other], place[other]) => Precedes(other, run)
      /\ x \in Ends(home[other], place[other]) => x = home[run].tree

\* The same of a run whose cut was interrupted.
Waiting(home, place) ==
  pending # Nothing =>
    /\ pending.transition = "workspace.cut"
    /\ \A run \in Runs : pending.run = run =>
         /\ pending.tree = home[run].tree /\ place[run] = home[run]
         /\ pending.link.ref = home[run].ref /\ origin[pending.tree].ref = home[run].ref
         /\ \A other \in Runs : HasBegun(other) =>
              /\ pending.to \notin Ends(home[other], place[other])
              /\ (other # run /\ pending.tree \in Ends(home[other], place[other])) =>
                   Precedes(other, run)

Ordered(home, place) ==
  Traced(home, place) /\ Standing(home, place) /\ Latest(home, place) /\ Waiting(home, place)

Identified ==
  Undisturbed => \E home, place \in [Runs -> Contexts] : Ordered(home, place)

-----------------------------------------------------------------------------
(* The states name the deliveries of their runs. *)

NamedAt(x) ==
  /\ IsActive(x) => StateOf(x).delivery = Delivery(origin[x].run)
  /\ Link(x) # NoLink => origin[x].run \in Runs

LEMMA DeliveryFields ==
  ASSUME NEW s \in States
  PROVE  /\ \A r : /\ [s EXCEPT !.revision = r].delivery = s.delivery
                   /\ [s EXCEPT !.revision = r, !.escalated = TRUE].delivery = s.delivery
                   /\ \A l : Transferred(s, r, l).delivery = s.delivery
         /\ Returned(s).delivery = s.delivery
         /\ [s EXCEPT !.revision = @ + 1, !.active = FALSE].link = s.link
         /\ [s EXCEPT !.revision = @ + 1, !.active = FALSE].active = FALSE
         /\ [s EXCEPT !.revision = @ + 1].delivery = s.delivery
         /\ [s EXCEPT !.revision = @ + 1, !.escalated = TRUE].delivery = s.delivery
  BY DEF States, Transferred, Returned

LEMMA NewDeliveryIs ==
  ASSUME NEW u \in Trees
  PROVE  /\ state'[u] = state[u] => StateOf(u).delivery' = StateOf(u).delivery
         /\ \A s \in States : state'[u] = s => StateOf(u).delivery' = s.delivery
  BY NothingAssumption DEF StateOf

LEMMA KeptNamed ==
  ASSUME NEW S, KeptBut(S), NEW u \in Trees \ S, NamedAt(u)
  PROVE  NamedAt(u)'
<1>1. state'[u] = state[u] /\ origin'[u] = origin[u]
      /\ IsActive(u)' = IsActive(u) /\ Link(u)' = Link(u)
  BY DEF KeptBut
<1>2. StateOf(u).delivery' = StateOf(u).delivery
  BY <1>1, NewDeliveryIs
<1> QED BY <1>1, <1>2 DEF NamedAt

\* A worktree whose state carries the delivery that was in w.
LEMMA CarriedNamed ==
  ASSUME NEW u \in Trees, NEW s \in States, state'[u] = s,
         NEW run \in Runs, origin'[u].run = run, s.active = TRUE => s.delivery = Delivery(run)
  PROVE  NamedAt(u)'
<1>1. IsActive(u)' = s.active /\ StateOf(u).delivery' = s.delivery
  BY NewDeliveryIs, NewStateIs
<1>2. IsActive(u)' => s.active = TRUE
  <2>1. s.active \in BOOLEAN
    BY DEF States
  <2> QED BY <1>1, <2>1
<1> QED BY <1>1, <1>2 DEF NamedAt

LEMMA EmptyNamed ==
  ASSUME NEW u \in Trees, IsActive(u)' = FALSE, Link(u)' = NoLink
  PROVE  NamedAt(u)'
  BY DEF NamedAt

LEMMA NamedParts ==
  ASSUME \A x \in Trees : NamedAt(x),
         (pending # Nothing /\ pending.transition = "workspace.cut") =>
           pending.prior.delivery = Delivery(pending.run)
  PROVE  Named
  BY DEF Named, NamedAt

LEMMA InitialNamed ==
  ASSUME Init
  PROVE  Named
<1>1. \A x \in Trees : IsActive(x) = FALSE /\ Link(x) = NoLink
  BY FreshIsTyped DEF Init, StateOf, IsActive, Link
<1> QED BY <1>1 DEF Init, Named

LEMMA CarryingOnNamed ==
  ASSUME TypeOK, Custody, Named,
         \/ \E r \in Runs, w \in Trees : Authorize(r, w) \/ Reproject(r, w) \/ Bind(r, w)
         \/ \E r \in Runs, w \in Trees, k \in {"output", "configure"} : Step(r, w, k)
         \/ \E w \in Trees : Finish(w) \/ Switch(w)
         \/ \E f \in Flows, w \in Trees : Escalate(f, w)
  PROVE  Named'
<1>1. \A x \in Trees : NamedAt(x)
  BY DEF Named, NamedAt
<1>2. ASSUME NEW r \in Runs, NEW w \in Trees, Authorize(r, w) \/ Reproject(r, w)
      PROVE  Named'
  <2>1. KeptBut({}) /\ pending' = pending
    BY <1>2, AuthorizeIs DEF Authorize, Reproject
  <2>2. \A x \in Trees : NamedAt(x)'
    BY <1>1, <2>1, KeptNamed
  <2> QED BY <2>1, <2>2 DEF Named, NamedAt
<1>3. ASSUME NEW r \in Runs, NEW w \in Trees, Bind(r, w) PROVE Named'
  <2>1. KeptBut({w}) /\ pending' = Nothing /\ origin'[w].run = r /\ Link(w)' = NoLink
    BY <1>3, BindIs
  <2>2. StateOf(w).delivery' = Delivery(r)
    <3>1. state'[w] = [Fresh EXCEPT !.revision = StateOf(w).revision + 1,
                                    !.delivery = Delivery(r), !.active = TRUE]
      BY <1>3 DEF Bind, TypeOK
    <3>2. state'[w] # Nothing
      <4>1. IsActive(w)' = TRUE
        BY <1>3, BindIs
      <4> QED BY <4>1, NewStateIs
    <3>3. state'[w].delivery = Delivery(r)
      BY <3>1 DEF Fresh
    <3> QED BY <3>2, <3>3 DEF StateOf
  <2>3. NamedAt(w)'
    BY <2>1, <2>2 DEF NamedAt
  <2>4. \A x \in Trees : NamedAt(x)'
    BY <1>1, <2>1, <2>3, KeptNamed
  <2> QED BY <2>1, <2>4 DEF Named, NamedAt
<1>4. ASSUME NEW r \in Runs, NEW w \in Trees, NEW k \in {"output", "configure"}, Step(r, w, k)
      PROVE  Named'
  <2>1. /\ KeptBut({w}) /\ pending' = Nothing /\ origin'[w].run = origin[w].run
        /\ IsActive(w) /\ Link(w)' = Link(w)
    BY <1>4, StepIs
  <2>2. state[w] \in States /\ StateOf(w) = state[w]
    BY <2>1, StateOfIsTyped
  <2>3. state'[w] = [state[w] EXCEPT !.revision = @ + 1]
    BY <1>4 DEF Step, TypeOK
  <2>4. state'[w] # Nothing
    <3>1. IsActive(w)' = TRUE
      BY <1>4, StepIs, StateOfIsTyped
    <3> QED BY <3>1, NewStateIs
  <2>5. StateOf(w).delivery' = StateOf(w).delivery
    BY <2>2, <2>3, <2>4, DeliveryFields DEF StateOf
  <2>6. NamedAt(w)'
    BY <1>1, <2>1, <2>5 DEF NamedAt
  <2>7. \A x \in Trees : NamedAt(x)'
    BY <1>1, <2>1, <2>6, KeptNamed
  <2> QED BY <2>1, <2>7 DEF Named, NamedAt
<1>5. ASSUME NEW w \in Trees, Finish(w) PROVE Named'
  <2>1. /\ KeptBut({w}) /\ pending' = Nothing /\ origin' = origin
        /\ IsActive(w)' = FALSE /\ Link(w)' = Link(w)
    BY <1>5, FinishIs
  <2>2. NamedAt(w)'
    BY <1>1, <2>1 DEF NamedAt
  <2>3. \A x \in Trees : NamedAt(x)'
    BY <1>1, <2>1, <2>2, KeptNamed
  <2> QED BY <2>1, <2>3 DEF Named, NamedAt
<1>6. ASSUME NEW w \in Trees, Switch(w) PROVE Named'
  <2>1. UNCHANGED <<state, origin, pending>>
    BY <1>6, SwitchIs
  <2> QED BY <2>1 DEF Named, IsActive, Link, StateOf
<1>7. ASSUME NEW f \in Flows, NEW w \in Trees, Escalate(f, w) PROVE Named'
  <2>1. /\ KeptBut({w}) /\ pending' = Nothing /\ origin' = origin
        /\ IsActive(w)' = IsActive(w) /\ Link(w)' = Link(w)
    BY <1>7, EscalateIs
  <2>2. IsActive(w) => StateOf(w).delivery' = StateOf(w).delivery
    <3>1. state'[w] = [StateOf(w) EXCEPT !.revision = @ + 1, !.escalated = TRUE]
      BY <1>7 DEF Escalate, TypeOK
    <3>2. StateOf(w) \in States
      BY StateOfIsTyped
    <3>3. IsActive(w) => state'[w] # Nothing
      BY <2>1, NewStateIs
    <3> QED BY <3>1, <3>2, <3>3, DeliveryFields DEF StateOf
  <2>3. NamedAt(w)'
    BY <1>1, <2>1, <2>2 DEF NamedAt
  <2>4. \A x \in Trees : NamedAt(x)'
    BY <1>1, <2>1, <2>3, KeptNamed
  <2> QED BY <2>1, <2>4 DEF Named, NamedAt
<1> QED BY <1>2, <1>3, <1>4, <1>5, <1>6, <1>7

LEMMA CutNamed ==
  ASSUME TypeOK, Custody, Named, NEW f \in Flows, NEW w \in Trees, NEW v \in Trees,
         NEW b \in Branches,
         Cut(f, w, v, b) \/ \E done \in 0 .. 3 : CutStops(f, w, v, b, done)
  PROVE  Named'
<1>1. CanCut(f, w, v, b)
  BY DEF Cut, CutStops
<1>2. /\ w # v /\ IsActive(w) = TRUE /\ state[w] \in States /\ StateOf(w) = state[w]
      /\ state[w].active = TRUE /\ state[w].revision + 1 \in 1 .. MaxRevision
      /\ CutLink(w, b) \in Links
      /\ Cutting(f, w, v, b).link = CutLink(w, b)
  BY <1>1, CanCutIs
<1>3. origin[w].run \in Runs /\ state[w].delivery = Delivery(origin[w].run)
  BY <1>2 DEF Custody, Holdings, Named
<1>4. \A x \in Trees : NamedAt(x)
  BY DEF Named, NamedAt
<1> DEFINE moved == Transferred(state[w], state[w].revision + 1, CutLink(w, b))
<1>5. moved \in States /\ moved.delivery = Delivery(origin[w].run)
  BY <1>2, <1>3, TransferredIsTyped, DeliveryFields
<1> HIDE DEF moved
<1>6. ASSUME state'[v] = moved, origin'[v].run = origin[w].run PROVE NamedAt(v)'
  BY <1>3, <1>5, <1>6, CarriedNamed
<1>7. CASE Cut(f, w, v, b)
  <2>1. /\ KeptBut({w, v}) /\ pending = Nothing /\ pending' = pending
        /\ IsActive(w)' = FALSE /\ Link(w)' = NoLink /\ origin'[v].run = origin[w].run
    BY <1>7, CutIs DEF Transfers
  <2>2. state'[v] = moved
    BY <1>2, <1>7 DEF Cut, TypeOK, moved
  <2>3. NamedAt(v)' /\ NamedAt(w)'
    BY <1>6, <2>1, <2>2, EmptyNamed
  <2>4. \A x \in Trees : NamedAt(x)'
    BY <1>4, <2>1, <2>3, KeptNamed
  <2> QED BY <2>1, <2>4 DEF Named, NamedAt
<1>8. ASSUME NEW done \in 0 .. 3, CutStops(f, w, v, b, done) PROVE Named'
  <2>1. /\ KeptBut({w, v}) /\ pending' = Cutting(f, w, v, b) /\ pending'.link = CutLink(w, b)
        /\ origin'[w] = origin[w]
    BY <1>8, CutStopsIs
  <2>2. pending'.prior.delivery = Delivery(pending'.run)
    <3>1. pending'.prior = state[w] /\ pending'.run = origin[w].run
      BY <2>1 DEF Cutting
    <3> QED BY <1>3, <3>1
  <2>3. NamedAt(w)'
    <3>1. state'[w] = IF done < 2 THEN state[w] ELSE ParkedSource(state[w], state[w].revision + 1)
      BY <1>2, <1>8 DEF CutStops, TypeOK
    <3>2. CASE done < 2
      BY <1>2, <1>3, <2>1, <3>1, <3>2, CarriedNamed
    <3>3. CASE ~(done < 2)
      <4>1. PICK s : s = ParkedSource(state[w], state[w].revision + 1)
        OBVIOUS
      <4>2. s \in States /\ s.active = FALSE /\ s.link = NoLink
        BY <1>2, <4>1, ParkedIsTyped
      <4>3. IsActive(w)' = FALSE /\ Link(w)' = NoLink
        BY <3>1, <3>3, <4>1, <4>2, NewStateIs
      <4> QED BY <4>3, EmptyNamed
    <3> QED BY <3>2, <3>3
  <2>4. NamedAt(v)'
    <3>1. state'[v] = IF done < 3 THEN state[v] ELSE moved
      BY <1>2, <1>8, <2>1 DEF CutStops, TypeOK, moved
    <3>2. origin'[v] = IF done < 3 THEN origin[v] ELSE [origin[w] EXCEPT !.ref = b]
      BY <1>8 DEF CutStops, TypeOK
    <3>3. CASE done < 3
      <4>1. IsActive(v)' = IsActive(v) /\ Link(v)' = Link(v)
            /\ StateOf(v).delivery' = StateOf(v).delivery
        BY <3>1, <3>3, NewStateIs, NewDeliveryIs
      <4> QED BY <1>4, <3>2, <3>3, <4>1 DEF NamedAt
    <3>4. CASE ~(done < 3)
      <4>1. origin'[v].run = origin[w].run
        BY <3>2, <3>4
      <4> QED BY <1>6, <3>1, <3>4, <4>1
    <3> QED BY <3>3, <3>4
  <2>5. \A x \in Trees : NamedAt(x)'
    BY <1>4, <2>1, <2>3, <2>4, KeptNamed
  <2> QED BY <2>2, <2>5 DEF Named, NamedAt
<1> QED BY <1>7, <1>8

LEMMA ReconcileNamed ==
  ASSUME TypeOK, Custody, Named, NEW f \in Flows, NEW u \in Trees,
         pending # Nothing, ReconcileCut(f, u)
  PROVE  Named'
<1>w. PICK w, v : w = pending.tree /\ v = pending.to
  OBVIOUS
<1>1. /\ pending.transition = "workspace.cut" /\ pending' = Nothing
      /\ w \in Trees /\ v \in Trees /\ pending.prior \in States /\ pending.link \in Links
      /\ Revision(u) + 1 \in 1 .. MaxRevision
  BY <1>w, ReconcilesIs, CutFields DEF ReconcileCut
<1>2. /\ w # v /\ origin[w].run \in Runs /\ pending.run = origin[w].run
      /\ pending.prior.active = TRUE /\ pending.prior.link = NoLink
      /\ pending.link.branch = pending.branch
      /\ pending.prior.delivery = Delivery(origin[w].run)
  BY <1>w, <1>1 DEF Custody, CutCustody, CutIsSound, Named
<1>3. \A x \in Trees : NamedAt(x)
  BY DEF Named, NamedAt
<1>4. CASE Exists(v)
  <2>1. /\ KeptBut({w, v}) /\ IsActive(w)' = FALSE /\ Link(w)' = NoLink
        /\ origin'[v].run = origin[w].run
    BY <1>w, <1>2, <1>4, CompletedIs DEF Transfers
  <2>2. state'[v] = Transferred(pending.prior, Revision(u) + 1, pending.link)
    BY <1>w, <1>1, <1>2, <1>4 DEF ReconcileCut, TypeOK, Revision
  <2>3. NamedAt(v)'
    <3>1. PICK s : s = Transferred(pending.prior, Revision(u) + 1, pending.link)
      OBVIOUS
    <3>2. s \in States /\ s.delivery = Delivery(origin[w].run)
      BY <1>1, <1>2, <3>1, TransferredIsTyped, DeliveryFields
    <3> QED BY <1>1, <1>2, <2>1, <2>2, <3>1, <3>2, CarriedNamed
  <2>4. \A x \in Trees : NamedAt(x)'
    BY <1>1, <1>3, <2>1, <2>3, KeptNamed, EmptyNamed
  <2> QED BY <1>1, <2>4 DEF Named, NamedAt
<1>5. CASE ~Exists(v)
  <2>1. /\ KeptBut({w, v}) /\ u = w /\ IsActive(v)' = FALSE /\ Link(v)' = NoLink
        /\ origin'[w].run = origin[w].run
    <3>1. KeptBut({w, v}) /\ u = w /\ Undoes(w, v, f)
      BY <1>w, <1>2, <1>5, UndoneIs
    <3> QED BY <3>1 DEF Undoes
  <2>2. state'[w] = [pending.prior EXCEPT !.revision = Revision(u) + 1]
    BY <1>w, <1>1, <1>2, <1>5 DEF ReconcileCut, TypeOK, Revision
  <2>3. NamedAt(w)'
    <3>1. PICK s : s = [pending.prior EXCEPT !.revision = Revision(u) + 1]
      OBVIOUS
    <3>2. s \in States /\ s.delivery = Delivery(origin[w].run)
      BY <1>1, <1>2, <3>1, RevisedIsTyped, DeliveryFields
    <3> QED BY <1>1, <1>2, <2>1, <2>2, <3>1, <3>2, CarriedNamed
  <2>4. \A x \in Trees : NamedAt(x)'
    BY <1>1, <1>3, <2>1, <2>3, KeptNamed, EmptyNamed
  <2> QED BY <1>1, <2>4 DEF Named, NamedAt
<1> QED BY <1>4, <1>5

LEMMA ReturnNamed ==
  ASSUME TypeOK, Custody, Named, NEW f \in Flows, NEW w \in Trees,
         Return(f, w) \/ \E done \in 0 .. 3 : ReturnStops(f, w, done)
  PROVE  Named'
<1>s. PICK s : s = Link(w).tree
  OBVIOUS
<1>1. CanReturn(f, w)
  BY DEF Return, ReturnStops
<1>2. /\ pending = Nothing /\ Link(w) # NoLink /\ s \in Trees
      /\ state[w] \in States /\ StateOf(w) = state[w] /\ state[w].link = Link(w)
      /\ Returned(state[w]) \in States /\ Returned(state[w]).active = IsActive(w)
  BY <1>s, <1>1, CanReturnIs
<1>3. s # w /\ origin[w].run \in Runs
  BY <1>s, <1>2 DEF Custody, Parkings, Named
<1>4. \A x \in Trees : NamedAt(x)
  BY DEF Named, NamedAt
<1>5. ASSUME state'[s] = Returned(state[w]), origin'[s].run = origin[w].run PROVE NamedAt(s)'
  <2>1. PICK r : r = Returned(state[w])
    OBVIOUS
  <2>2. r \in States /\ (r.active = TRUE => r.delivery = Delivery(origin[w].run))
    BY <1>2, <2>1, DeliveryFields DEF Named
  <2> QED BY <1>2, <1>3, <1>5, <2>1, <2>2, CarriedNamed
<1>6. CASE Return(f, w)
  <2>1. /\ KeptBut({w, s}) /\ pending' = Nothing /\ IsActive(w)' = FALSE /\ Link(w)' = NoLink
        /\ origin'[s].run = origin[w].run
    <3>1. KeptBut({w, s}) /\ Brings(w, s, f) /\ pending' = pending
      BY <1>s, <1>3, <1>6, ReturnIs
    <3> QED BY <1>2, <3>1 DEF Brings
  <2>2. state'[s] = Returned(state[w])
    BY <1>s, <1>2, <1>3, <1>6 DEF Return, TypeOK
  <2>3. \A x \in Trees : NamedAt(x)'
    BY <1>4, <1>5, <2>1, <2>2, KeptNamed, EmptyNamed
  <2> QED BY <2>1, <2>3 DEF Named, NamedAt
<1>7. ASSUME NEW done \in 0 .. 3, ReturnStops(f, w, done) PROVE Named'
  <2>1. /\ KeptBut({w, s}) /\ pending'.transition # "workspace.cut"
    <3>1. /\ KeptBut({w, s})
          /\ pending' = [transition |-> "workspace.cleanup", tree |-> w, run |-> origin[w].run]
      BY <1>s, <1>3, <1>7, ReturnStopsIs
    <3> QED BY <3>1
  <2>2. NamedAt(w)'
    <3>1. state'[w] = IF done < 2 THEN state[w] ELSE Nothing
      BY <1>s, <1>2, <1>3, <1>7 DEF ReturnStops, TypeOK
    <3>2. CASE done < 2
      <4>1. origin'[w] = origin[w]
        BY <1>s, <1>2, <1>3, <1>7, <3>2 DEF ReturnStops, TypeOK
      <4>2. state[w].active = TRUE => state[w].delivery = Delivery(origin[w].run)
        BY <1>2 DEF Named, IsActive
      <4> QED BY <1>2, <1>3, <3>1, <3>2, <4>1, <4>2, CarriedNamed
    <3>3. CASE ~(done < 2)
      BY <3>1, <3>3, NewStateIs, EmptyNamed
    <3> QED BY <3>2, <3>3
  <2>3. NamedAt(s)'
    <3>1. state'[s] = IF done < 3 THEN state[s] ELSE Returned(state[w])
      BY <1>s, <1>2, <1>3, <1>7 DEF ReturnStops, TypeOK
    <3>2. origin'[s] = IF done < 3 THEN origin[s] ELSE [origin[w] EXCEPT !.ref = head[s]]
      BY <1>s, <1>2, <1>3, <1>7 DEF ReturnStops, TypeOK
    <3>3. CASE done < 3
      <4>1. IsActive(s)' = IsActive(s) /\ Link(s)' = Link(s)
            /\ StateOf(s).delivery' = StateOf(s).delivery
        BY <1>2, <3>1, <3>3, NewStateIs, NewDeliveryIs
      <4> QED BY <1>2, <1>4, <3>2, <3>3, <4>1 DEF NamedAt
    <3>4. CASE ~(done < 3)
      <4>1. origin'[s].run = origin[w].run
        BY <3>2, <3>4
      <4> QED BY <1>5, <3>1, <3>4, <4>1
    <3> QED BY <3>3, <3>4
  <2>4. \A x \in Trees : NamedAt(x)'
    BY <1>4, <2>1, <2>2, <2>3, KeptNamed
  <2> QED BY <2>1, <2>4 DEF Named, NamedAt
<1> QED BY <1>6, <1>7

LEMMA NamedIsKept ==
  ASSUME TypeOK, Custody, Named, [Next]_vars
  PROVE  Named'
<1>1. CASE UNCHANGED vars
  BY <1>1 DEF vars, Named, IsActive, Link, StateOf
<1>2. CASE Next
  BY <1>2, CarryingOnNamed, CutNamed, ReconcileNamed, ReturnNamed DEF Next
<1> QED BY <1>1, <1>2

-----------------------------------------------------------------------------
(* The latest run of a worktree is the one that is found there. *)

LEMMA BeginningIs ==
  ASSUME TypeOK, NEW run \in Runs, BeganOnce(run), NEW home, NEW place,
         Recorded(run, home, place), NEW b \in Beginnings(run)
  PROVE  /\ b \in Of(run) /\ b \in DOMAIN receipts /\ receipts[b].flow = run
         /\ receipts[b].kind = "bind" /\ receipts[b].from = home
         /\ receipts[b].revision \in Nat
         /\ LineageIsValid(run, home)
<1>1. b \in Of(run) /\ receipts[b].kind = "bind" /\ receipts[b].from = home
  BY DEF Recorded, BeganOnce, Beginnings
<1>2. b \in DOMAIN receipts /\ receipts[b].flow = run
  BY <1>1, OfAreReceipts
<1>3. receipts[b].revision \in Nat
  BY <1>1, OfAreReceipts, ReceiptFields
<1>4. home \in Places(run, home)
  BY DEF Places
<1>5. LineageIsValid(run, home)
  BY <1>4, RecordsLeadHere
<1> QED BY <1>1, <1>2, <1>3, <1>5

\* What a run began with applies at its ends only.
LEMMA AppliesAtEnds ==
  ASSUME TypeOK, NEW run \in Runs, BeganOnce(run), NEW home \in Contexts, NEW place \in Contexts,
         Recorded(run, home, place), NEW b \in Beginnings(run), NEW x \in Trees, AppliesTo(b, x)
  PROVE  x \in Ends(home, place) /\ (x # home.tree => Context(x) = place)
<1>1. receipts[b].from = home /\ receipts[b].flow = run
  BY BeginningIs
<1>2. home.tree = x \/ Context(x) \in {home, place}
  BY <1>1, ReachedFromHome DEF AppliesTo, AuthorizedByRecords
<1>3. Context(x).tree = x
  BY DEF Context
<1> QED BY <1>2, <1>3 DEF Ends

\* Where a run is found at the home of the delivery, none has begun after it.
LEMMA FoundIsHolder ==
  ASSUME TypeOK, Named, NEW home \in [Runs -> Contexts], NEW place \in [Runs -> Contexts],
         Traced(home, place), Latest(home, place), Undisturbed,
         NEW x \in Trees, IsActive(x), NEW holder \in Runs, origin[x].run = holder,
         HasBegun(holder), NEW run \in Runs, LatestFlows(x) = {run}
  PROVE  run = holder
<1> SUFFICES ASSUME run # holder PROVE FALSE
  OBVIOUS
<1>1. PICK i \in Bindings(x) :
        /\ AppliesTo(i, x) /\ receipts[i].flow = run
        /\ \A k \in Bindings(x) : AppliesTo(k, x) => receipts[k].revision <= receipts[i].revision
  <2>1. run \in LatestFlows(x)
    OBVIOUS
  <2>2. ~Fails(Bindings(x), x)
    BY <2>1 DEF LatestFlows
  <2> QED BY <2>1, <2>2 DEF LatestFlows
<1>2. i \in Beginnings(run) /\ HasBegun(run)
  BY <1>1 DEF Bindings, Beginnings, Of, HasBegun
<1>3. Recorded(run, home[run], place[run]) /\ BeganOnce(run)
  BY <1>2 DEF Traced, Undisturbed
<1>4. x \in Ends(home[run], place[run])
  BY <1>1, <1>2, <1>3, AppliesAtEnds
<1>5. x = home[holder].tree /\ Precedes(run, holder)
  BY <1>2, <1>4 DEF Latest
<1>6. PICK b : b \in Beginnings(holder)
  BY DEF HasBegun
<1>7. Recorded(holder, home[holder], place[holder]) /\ BeganOnce(holder)
      /\ BoundBy(holder, Revision(x))
  BY <1>5 DEF Traced, Undisturbed, Ends
<1>8. /\ b \in DOMAIN receipts /\ receipts[b].flow = holder /\ receipts[b].kind = "bind"
      /\ receipts[b].from = home[holder] /\ receipts[b].revision \in Nat
  BY <1>6, <1>7, BeginningIs
<1>9. receipts[i].revision < receipts[b].revision /\ receipts[i].revision \in Nat
  BY <1>2, <1>3, <1>5, <1>6, BeginningIs DEF Precedes
<1>10. b \in Bindings(x)
  <2>1. Delivery(holder) = StateOf(x).delivery
    BY DEF Named
  <2>2. receipts[b].revision <= StateOf(x).revision
    BY <1>6, <1>7 DEF BoundBy, Revision
  <2> QED BY <1>8, <2>1, <2>2 DEF Bindings
<1>11. AppliesTo(b, x)
  BY <1>5, <1>8 DEF AppliesTo
<1>12. receipts[b].revision <= receipts[i].revision
  BY <1>1, <1>10, <1>11
<1> QED BY <1>8, <1>9, <1>12

\* A run that acts where there is a delivery acts for its own, where its records lead.
LEMMA ActsForItsOwn ==
  ASSUME TypeOK, Custody, Began, Named,
         NEW home \in [Runs -> Contexts], NEW place \in [Runs -> Contexts],
         Ordered(home, place), Undisturbed,
         NEW run \in Runs, NEW x \in Trees, MayAct(run, x), IsActive(x)
  PROVE  /\ origin[x].run = run /\ Context(x) = place[run]
         /\ HasBegun(run) /\ Recorded(run, home[run], place[run])
         /\ Stands(x, home[run], place[run])
         /\ x \in Ends(home[run], place[run])
         /\ x # home[run].tree => place[run].tree = x
<1>1. LatestFlows(x) = {run}
  BY DEF MayAct, Selects
<1>2. origin[x].run \in Runs /\ HasBegun(origin[x].run)
  BY DEF Custody, Holdings, Began
<1>3. origin[x].run = run
  BY <1>1, <1>2, FoundIsHolder DEF Ordered
<1>4. PICK b \in Beginnings(run) : AppliesTo(b, x)
  BY SelectedHasBegun
<1>5. HasBegun(run) /\ Recorded(run, home[run], place[run]) /\ BeganOnce(run)
  BY <1>4 DEF HasBegun, Ordered, Traced, Undisturbed
<1>6. x \in Ends(home[run], place[run]) /\ (x # home[run].tree => Context(x) = place[run])
  BY <1>4, <1>5, AppliesAtEnds
<1>7. Stands(x, home[run], place[run])
  BY <1>3 DEF Ordered, Standing
<1>8. Context(x) \in Places(run, home[run])
  BY <1>5, AuthorizedIsAPlace DEF MayAct, Authorized
<1>9. Context(x).tree = x
  BY DEF Context
<1>10. x = home[run].tree => Context(x) = place[run]
  <2>1. x = home[run].tree => Context(x) = home[run]
    BY <1>5, <1>8, <1>9, HomeIsOnePlace
  <2> QED BY <1>7, <2>1 DEF Stands
<1> QED BY <1>3, <1>5, <1>6, <1>7, <1>9, <1>10

LEMMA OrderedIdentify ==
  ASSUME TypeOK, Custody, Lineages, Began, Named, Identified
  PROVE  RunsKeepTheirIdentity
<1> SUFFICES ASSUME Undisturbed, NEW x \in Trees, IsOwn(x), NEW run, run = origin[x].run
             PROVE  LatestFlows(x) = {run}
  BY DEF RunsKeepTheirIdentity, Undisturbed
<1>1. PICK home, place \in [Runs -> Contexts] : Ordered(home, place)
  BY DEF Identified
<1>2. run \in Runs /\ IsActive(x) /\ HasBegun(run) /\ BeganOnce(run)
  BY OwnIsFollowed DEF IsOwn, Began
<1>3. PICK h \in Contexts : Recorded(run, h, Context(x)) /\ Descends(run, x)
  BY OwnIsFollowed
<1>4. ASSUME NEW i \in Bindings(x)
      PROVE  /\ receipts[i].flow \in Runs /\ i \in Beginnings(receipts[i].flow)
             /\ HasBegun(receipts[i].flow)
             /\ LineageIsValid(receipts[i].flow, receipts[i].from)
             /\ receipts[i].revision \in Nat
  <2>1. PICK q : q = receipts[i].flow
    OBVIOUS
  <2>2. i \in DOMAIN receipts /\ receipts[i].kind = "bind"
    BY <1>4 DEF Bindings
  <2>3. q \in Runs
    BY <2>1, <2>2, DomainIs, ReceiptFields
  <2>4. i \in Beginnings(q) /\ HasBegun(q)
    BY <2>1, <2>2 DEF Beginnings, Of, HasBegun
  <2>5. Recorded(q, home[q], place[q]) /\ BeganOnce(q)
    BY <1>1, <2>3, <2>4 DEF Ordered, Traced, Undisturbed
  <2>6. receipts[i].from = home[q] /\ LineageIsValid(q, home[q]) /\ receipts[i].revision \in Nat
    BY <2>3, <2>4, <2>5, BeginningIs
  <2> QED BY <2>1, <2>3, <2>4, <2>6
<1>5. ~Fails(Bindings(x), x)
  BY <1>4 DEF Fails
<1>6. PICK b : b \in Beginnings(run)
  BY <1>2 DEF HasBegun
<1>7. /\ b \in Bindings(x) /\ AppliesTo(b, x) /\ receipts[b].flow = run
      /\ receipts[b].revision \in Nat
  <2>1. b \in Of(run) /\ b \in DOMAIN receipts /\ receipts[b].flow = run
        /\ receipts[b].kind = "bind" /\ receipts[b].revision \in Nat
    BY <1>2, <1>3, <1>6, BeginningIs
  <2>2. AppliesTo(b, x)
    BY <1>2, <1>3, <2>1, OwnReceiptsApply
  <2>3. receipts[b].revision <= StateOf(x).revision
    BY <1>3, <2>1 DEF Descends, Revision
  <2>4. Delivery(run) = StateOf(x).delivery
    BY <1>2 DEF Named
  <2> QED BY <2>1, <2>2, <2>3, <2>4 DEF Bindings
<1>8. ASSUME NEW i \in Bindings(x), AppliesTo(i, x), receipts[i].flow # run
      PROVE  receipts[i].revision < receipts[b].revision
  <2>1. PICK q : q = receipts[i].flow
    OBVIOUS
  <2>2. q \in Runs /\ i \in Beginnings(q) /\ HasBegun(q)
    BY <1>4, <2>1
  <2>3. Recorded(q, home[q], place[q]) /\ BeganOnce(q)
    BY <1>1, <2>2 DEF Ordered, Traced, Undisturbed
  <2>4. x \in Ends(home[q], place[q])
    BY <1>8, <2>2, <2>3, AppliesAtEnds
  <2>5. x = home[run].tree /\ Precedes(q, run)
    BY <1>1, <1>2, <1>8, <2>1, <2>2, <2>4 DEF Ordered, Latest
  <2> QED BY <1>6, <2>2, <2>5 DEF Precedes
<1>9. ASSUME NEW i \in Bindings(x), receipts[i].flow = run PROVE i = b
  BY <1>2, <1>4, <1>6, <1>9 DEF BeganOnce
<1> DEFINE found == {i \in Bindings(x) : AppliesTo(i, x)}
           latest == {j \in found : \A k \in found : receipts[k].revision <= receipts[j].revision}
<1>10. b \in latest
  <2>1. ASSUME NEW k \in found PROVE receipts[k].revision <= receipts[b].revision
    <3>1. receipts[k].revision \in Nat
      BY <1>4
    <3>2. CASE receipts[k].flow = run
      BY <1>7, <1>9, <3>2
    <3>3. CASE receipts[k].flow # run
      BY <1>7, <1>8, <3>1, <3>3
    <3> QED BY <3>2, <3>3
  <2> QED BY <1>7, <2>1
<1>11. ASSUME NEW j \in latest PROVE receipts[j].flow = run
  <2>1. receipts[b].revision <= receipts[j].revision /\ receipts[j].revision \in Nat
    BY <1>4, <1>7
  <2> QED BY <1>7, <1>8, <2>1
<1>12. LatestFlows(x) = {receipts[i].flow : i \in latest}
  BY <1>5 DEF LatestFlows
<1> HIDE DEF latest
<1> QED BY <1>7, <1>10, <1>11, <1>12

-----------------------------------------------------------------------------
(* The order of the runs is kept. *)

\* A step with which no run begins.
KeepsBindings ==
  \A q \in Runs : /\ Beginnings(q)' = Beginnings(q)
                  /\ \A b \in Beginnings(q) : receipts'[b] = receipts[b]

LEMMA SparedBindings ==
  ASSUME TypeOK, TypeOK', NEW q \in Runs, Spares(q)
  PROVE  /\ Beginnings(q)' = Beginnings(q)
         /\ \A b \in Beginnings(q) : receipts'[b] = receipts[b]
<1>1. Beginnings(q)' = Beginnings(q)
  BY SparedRecords
<1> QED BY <1>1 DEF Spares, Beginnings

LEMMA QuietBindings ==
  ASSUME TypeOK, TypeOK', UNCHANGED receipts
  PROVE  KeepsBindings
  BY QuietSpares, SparedBindings DEF KeepsBindings

LEMMA LoggedBindings ==
  ASSUME TypeOK, TypeOK', NEW flow \in Flows, NEW w \in Trees, Exists(w), Bounded(w),
         CanLog(flow), NEW kind \in {"output", "configure", "advance"},
         NEW to \in Contexts \cup {Nothing}, receipts' = Logged(flow, kind, w, to)
  PROVE  KeepsBindings
<1>1. /\ \A run : run # flow => Spares(run)
      /\ flow \in Runs => Commits(flow, kind, Context(w), to, Revision(w) + 1)
  BY LoggedCommits
<1>2. ASSUME NEW q \in Runs
      PROVE  /\ Beginnings(q)' = Beginnings(q)
             /\ \A b \in Beginnings(q) : receipts'[b] = receipts[b]
  <2>1. CASE q # flow
    BY <1>1, <2>1, SparedBindings
  <2>2. CASE q = flow
    <3>1. PICK n : n = Len(receipts) + 1
      OBVIOUS
    <3>2. /\ Of(q)' = Of(q) \cup {n} /\ \A i \in Of(q) : receipts'[i] = receipts[i]
          /\ receipts'[n].kind = kind
      BY <1>1, <2>2, <3>1 DEF Commits
    <3>3. receipts'[n].kind # "bind"
      BY <3>2
    <3> QED BY <3>2, <3>3 DEF Beginnings
  <2> QED BY <2>1, <2>2
<1> QED BY <1>2 DEF KeepsBindings

LEMMA SameOrder ==
  ASSUME TypeOK, KeepsBindings
  PROVE  \A q \in Runs :
           /\ HasBegun(q)' <=> HasBegun(q)
           /\ \A n, m \in Nat : (n <= m /\ BoundBy(q, n)) => BoundBy(q, m)'
           /\ \A r \in Runs : Precedes(q, r) => Precedes(q, r)'
<1> SUFFICES ASSUME NEW q \in Runs
             PROVE  /\ HasBegun(q)' <=> HasBegun(q)
                    /\ \A n, m \in Nat : (n <= m /\ BoundBy(q, n)) => BoundBy(q, m)'
                    /\ \A r \in Runs : Precedes(q, r) => Precedes(q, r)'
  OBVIOUS
<1>1. \A b \in Beginnings(q) : receipts[b].revision \in Nat
  BY OfAreReceipts, ReceiptFields DEF Beginnings
<1>2. HasBegun(q)' <=> HasBegun(q)
  BY DEF KeepsBindings, HasBegun
<1>3. ASSUME NEW n \in Nat, NEW m \in Nat, n <= m, BoundBy(q, n) PROVE BoundBy(q, m)'
  BY <1>1, <1>3 DEF KeepsBindings, BoundBy
<1>4. ASSUME NEW r \in Runs, Precedes(q, r) PROVE Precedes(q, r)'
  BY <1>4 DEF KeepsBindings, Precedes
<1> QED BY <1>2, <1>3, <1>4

LEMMA UndisturbedBefore ==
  ASSUME \A q : Keeps(q), mixed \subseteq mixed', Undisturbed'
  PROVE  Undisturbed
  BY KeptReceipts DEF Undisturbed

LEMMA RecordedOn ==
  ASSUME TypeOK, TypeOK', grant' = grant, NEW q \in Runs, Spares(q), NEW home, NEW place,
         Recorded(q, home, place)
  PROVE  Recorded(q, home, place)'
  BY SparedRecords DEF Recorded

LEMMA EndsAreTrees ==
  ASSUME NEW home \in [Runs -> Contexts], NEW place \in [Runs -> Contexts], NEW q \in Runs
  PROVE  home[q].tree \in Trees /\ place[q].tree \in Trees
         /\ Ends(home[q], place[q]) \subseteq Trees
<1>1. home[q] \in Contexts /\ place[q] \in Contexts
  OBVIOUS
<1> QED BY <1>1, ContextFields DEF Ends

LEMMA RevisionIsNat ==
  ASSUME TypeOK, NEW x \in Trees
  PROVE  Revision(x) \in Nat
  BY StateOfIsTyped DEF Revision

LEMMA NewRevisionIsNat ==
  ASSUME TypeOK', NEW x \in Trees
  PROVE  Revision(x)' \in Nat
<1>1. state'[x] \in States \cup {Nothing}
  BY DEF TypeOK
<1>2. StateOf(x)' \in States
  BY <1>1, FreshIsTyped DEF StateOf
<1> QED BY <1>2 DEF Revision, States

\* Where a run's records are continued and its worktrees are there, it is traced.
LEMMA TracedOn ==
  ASSUME TypeOK, TypeOK', KeepsBindings,
         NEW home \in [Runs -> Contexts], NEW place \in [Runs -> Contexts],
         Traced(home, place), NEW q \in Runs, HasBegun(q), NEW x \in Ends(home[q], place[q]),
         Exists(x) => Exists(x)', Revision(x) <= Revision(x)'
  PROVE  Exists(x)' /\ BoundBy(q, Revision(x))'
<1>1. x \in Trees
  BY EndsAreTrees
<1>2. Exists(x) /\ BoundBy(q, Revision(x))
  BY DEF Traced
<1>3. PICK n, m : n = Revision(x) /\ m = Revision(x)'
  OBVIOUS
<1>4. n \in Nat /\ m \in Nat
  BY <1>1, <1>3, RevisionIsNat, NewRevisionIsNat
<1>5. BoundBy(q, m)'
  BY <1>2, <1>3, <1>4, SameOrder
<1> QED BY <1>2, <1>3, <1>5 DEF BoundBy

\* A step that moves no delivery.
LEMMA OrderStays ==
  ASSUME TypeOK, TypeOK', KeepsBindings,
         NEW home \in [Runs -> Contexts], NEW place \in [Runs -> Contexts],
         Ordered(home, place),
         \A q \in Runs : Recorded(q, home[q], place[q]) => Recorded(q, home[q], place[q])',
         \A x \in Trees : /\ Exists(x) => Exists(x)'
                          /\ Revision(x) <= Revision(x)'
                          /\ IsActive(x)' => IsActive(x)
                          /\ Link(x)' = Link(x)
                          /\ origin'[x].run = origin[x].run /\ origin'[x].ref = origin[x].ref,
         pending' \in {pending, Nothing}
  PROVE  Ordered(home, place)'
<1>1. Traced(home, place)'
  <2>1. ASSUME NEW q \in Runs, HasBegun(q)'
        PROVE  /\ Recorded(q, home[q], place[q])'
               /\ \A x \in Ends(home[q], place[q]) : (Exists(x) /\ BoundBy(q, Revision(x)))'
    <3>1. HasBegun(q)
      BY <2>1, SameOrder
    <3>2. Recorded(q, home[q], place[q])'
      BY <3>1 DEF Ordered, Traced
    <3> QED BY <3>1, <3>2, TracedOn, EndsAreTrees DEF Ordered
  <2> QED BY <2>1 DEF Traced
<1>2. Standing(home, place)'
  BY DEF Ordered, Standing, Stands
<1>3. Latest(home, place)'
  BY SameOrder DEF Ordered, Latest
<1>4. Waiting(home, place)'
  <2> SUFFICES ASSUME pending' # Nothing PROVE Waiting(home, place)'
    BY DEF Waiting
  <2>1. pending' = pending /\ pending # Nothing
    OBVIOUS
  <2>2. origin'[pending.tree].ref = origin[pending.tree].ref
    BY <2>1, CutFields DEF Ordered, Waiting
  <2> QED BY <2>1, <2>2, SameOrder DEF Ordered, Waiting
<1> QED BY <1>1, <1>2, <1>3, <1>4 DEF Ordered

LEMMA AuthorizeIdentifies ==
  ASSUME TypeOK, Identified, NEW r \in Runs, NEW x \in Trees, Authorize(r, x) \/ Reproject(r, x)
  PROVE  Identified'
<1> SUFFICES ASSUME Undisturbed'
             PROVE  \E home, place \in [Runs -> Contexts] : Ordered(home, place)'
  BY DEF Identified
<1>1. /\ TypeOK' /\ KeptBut({})
      /\ UNCHANGED <<receipts, pending, mixed>>
  BY AuthorizeIs DEF Authorize, Reproject
<1>2. /\ grant'[r] # Nothing /\ grant'[r].context = Context(x)
      /\ \A q \in Runs \ {r} : grant'[q] = grant[q]
  BY GrantIsTyped DEF Authorize, Reproject
<1>3. \A q : Spares(q) /\ Keeps(q)
  BY <1>1, QuietSpares
<1>4. PICK home, place \in [Runs -> Contexts] : Ordered(home, place)
  BY <1>1, <1>3, UndisturbedBefore DEF Identified
<1>5. ASSUME NEW q \in Runs, Recorded(q, home[q], place[q])
      PROVE  Recorded(q, home[q], place[q])'
  <2>1. grant'[q] # Nothing /\ grant'[q].context \in Places(q, home[q])
    <3>1. CASE q # r
      BY <1>2, <1>5, <3>1 DEF Recorded
    <3>2. CASE q = r
      <4>1. grant[q] # Nothing
        BY <1>5 DEF Recorded
      <4>2. InItsLineage(q, x)
        BY <3>2, <4>1 DEF Authorize, Reproject
      <4> QED BY <1>2, <1>5, <3>2, <4>2, AuthorizedIsAPlace
    <3> QED BY <3>1, <3>2
  <2> QED BY <1>1, <1>3, <1>5, <2>1, SparedRecords
<1>6. \A u \in Trees : /\ head'[u] = head[u] /\ origin'[u] = origin[u]
                       /\ IsActive(u)' = IsActive(u) /\ Link(u)' = Link(u)
                       /\ Revision(u)' = Revision(u)
  BY <1>1 DEF KeptBut
<1>7. \A u \in Trees : (Exists(u) => Exists(u)') /\ Revision(u) <= Revision(u)'
  BY <1>6, RevisionIsNat DEF Exists
<1>8. Ordered(home, place)'
  BY <1>1, <1>4, <1>5, <1>6, <1>7, QuietBindings, OrderStays
<1> QED BY <1>8

\* Finishing, escalating and what a user checks out.
LEMMA UncommittedIdentifies ==
  ASSUME TypeOK, Identified, NEW x \in Trees,
         Finish(x) \/ Switch(x) \/ \E f \in Flows : Escalate(f, x)
  PROVE  Identified'
<1> SUFFICES ASSUME Undisturbed'
             PROVE  \E home, place \in [Runs -> Contexts] : Ordered(home, place)'
  BY DEF Identified
<1>1. /\ TypeOK' /\ UNCHANGED <<receipts, grant, origin, mixed>>
      /\ pending' \in {pending, Nothing}
      /\ \A u \in Trees : /\ Exists(u) => Exists(u)'
                          /\ Revision(u) <= Revision(u)'
                          /\ IsActive(u)' => IsActive(u)
                          /\ Link(u)' = Link(u)
  <2>1. CASE Finish(x)
    <3>1. /\ TypeOK' /\ KeptBut({x}) /\ UNCHANGED <<head, receipts, grant, pending, origin, mixed>>
          /\ IsActive(x)' = FALSE /\ Link(x)' = Link(x)
      BY <2>1, FinishIs
    <3>2. Revision(x)' = Revision(x) + 1
      <4>1. state[x] \in States /\ StateOf(x) = state[x]
        BY <2>1, StateOfIsTyped DEF Finish
      <4>2. state'[x] = [state[x] EXCEPT !.revision = @ + 1, !.active = FALSE]
        BY <2>1 DEF Finish, TypeOK
      <4>3. state'[x] \in States
        BY <2>1, <4>1, <4>2, FinishedIsTyped DEF Finish, Bounded
      <4>4. state'[x].revision = state[x].revision + 1
        BY <4>1, <4>2 DEF States
      <4> QED BY <4>1, <4>3, <4>4, NewStateIs DEF Revision
    <3> QED BY <3>1, <3>2, RevisionIsNat DEF KeptBut, Exists
  <2>2. CASE Switch(x)
    <3>1. /\ TypeOK' /\ UNCHANGED <<state, receipts, grant, pending, origin, mixed>>
          /\ \A u \in Trees : Exists(u)' <=> Exists(u)
      BY <2>2, SwitchIs
    <3>2. \A u \in Trees : /\ Revision(u)' = Revision(u)
                           /\ IsActive(u)' = IsActive(u) /\ Link(u)' = Link(u)
      BY <3>1 DEF Revision, IsActive, Link, StateOf
    <3> QED BY <3>1, <3>2, RevisionIsNat
  <2>3. ASSUME NEW f \in Flows, Escalate(f, x)
        PROVE  /\ TypeOK' /\ UNCHANGED <<receipts, grant, origin, mixed>>
               /\ pending' \in {pending, Nothing}
               /\ \A u \in Trees : /\ Exists(u) => Exists(u)'
                                   /\ Revision(u) <= Revision(u)'
                                   /\ IsActive(u)' => IsActive(u)
                                   /\ Link(u)' = Link(u)
    <3>1. /\ TypeOK' /\ KeptBut({x}) /\ UNCHANGED <<head, receipts, grant, origin, mixed>>
          /\ IsActive(x)' = IsActive(x) /\ Link(x)' = Link(x)
          /\ Revision(x)' = Revision(x) + 1 /\ pending' = Nothing
      BY <2>3, EscalateIs
    <3> QED BY <3>1, RevisionIsNat DEF KeptBut, Exists
  <2> QED BY <2>1, <2>2, <2>3
<1>2. \A q : Spares(q) /\ Keeps(q)
  BY <1>1, QuietSpares
<1>3. PICK home, place \in [Runs -> Contexts] : Ordered(home, place)
  BY <1>1, <1>2, UndisturbedBefore DEF Identified
<1>4. \A q \in Runs : Recorded(q, home[q], place[q]) => Recorded(q, home[q], place[q])'
  BY <1>1, <1>2, RecordedOn
<1>5. Ordered(home, place)'
  BY <1>1, <1>3, <1>4, QuietBindings, OrderStays
<1> QED BY <1>5

LEMMA StepIdentifies ==
  ASSUME TypeOK, Custody, Began, Named, Identified,
         NEW r \in Runs, NEW x \in Trees, NEW k \in {"output", "configure"}, Step(r, x, k)
  PROVE  Identified'
<1> SUFFICES ASSUME Undisturbed'
             PROVE  \E home, place \in [Runs -> Contexts] : Ordered(home, place)'
  BY DEF Identified
<1>1. /\ TypeOK' /\ KeptBut({x})
      /\ IsActive(x) /\ IsActive(x)' /\ Link(x)' = Link(x)
      /\ Revision(x)' = Revision(x) + 1
      /\ origin'[x].run = origin[x].run /\ origin'[x].ref = origin[x].ref
      /\ receipts' = Logged(r, k, x, Nothing)
      /\ Exists(x) /\ Bounded(x) /\ CanLog(r) /\ MayAct(r, x)
      /\ UNCHANGED <<head, grant, pending, mixed>>
  BY StepIs
<1>2. r \in Flows
  BY DEF Flows
<1>3. /\ \A q : Keeps(q)
      /\ \A q : q # r => Spares(q)
      /\ Commits(r, k, Context(x), Nothing, Revision(x) + 1)
  BY <1>1, <1>2, LoggedCommits
<1>4. Undisturbed
  BY <1>1, <1>3, UndisturbedBefore
<1>5. PICK home, place \in [Runs -> Contexts] : Ordered(home, place)
  BY <1>4 DEF Identified
<1>6. Context(x) = place[r] /\ Recorded(r, home[r], place[r])
  BY <1>1, <1>4, <1>5, ActsForItsOwn
<1>7. Recorded(r, home[r], place[r])'
  <2>1. PICK h, p \in Contexts : h = home[r] /\ p = place[r]
    OBVIOUS
  <2>2. Recorded(r, h, p) /\ Commits(r, k, p, Nothing, Revision(x) + 1)
    BY <1>3, <1>6, <2>1
  <2>3. Recorded(r, h, p)'
    BY <1>1, <2>2, ContinuedRecords
  <2> QED BY <2>1, <2>3
<1>8. \A q \in Runs : Recorded(q, home[q], place[q]) => Recorded(q, home[q], place[q])'
  BY <1>1, <1>3, <1>7, RecordedOn
<1>9. KeepsBindings
  BY <1>1, <1>2, LoggedBindings
<1>10. \A u \in Trees : /\ Exists(u) => Exists(u)'
                        /\ Revision(u) <= Revision(u)'
                        /\ IsActive(u)' => IsActive(u)
                        /\ Link(u)' = Link(u)
                        /\ origin'[u].run = origin[u].run /\ origin'[u].ref = origin[u].ref
  BY <1>1, RevisionIsNat DEF KeptBut, Exists
<1>11. Ordered(home, place)'
  BY <1>1, <1>5, <1>8, <1>9, <1>10, OrderStays
<1> QED BY <1>11

\* A delivery goes from its home w to v.
LEMMA OrderTransfers ==
  ASSUME TypeOK, TypeOK', Custody, Began, KeepsBindings,
         NEW home \in [Runs -> Contexts], NEW place \in [Runs -> Contexts],
         Ordered(home, place),
         NEW w \in Trees, NEW v \in Trees, NEW flow, NEW run \in Runs, NEW link,
         Transfers(w, v, flow, run, link), KeptBut({w, v}),
         HasBegun(run), home[run].tree = w, place[run] = home[run],
         link.tree = w, link.ref = home[run].ref,
         Exists(w)', Exists(v)', Revision(w) <= Revision(w)', Revision(w) <= Revision(v)',
         \A q \in Runs : HasBegun(q) =>
           /\ v \notin Ends(home[q], place[q])
           /\ (q # run /\ w \in Ends(home[q], place[q])) => Precedes(q, run),
         \A x \in Trees \ {w, v} : IsActive(x) => origin[x].run # run,
         \A q \in Runs \ {run} : Recorded(q, home[q], place[q]) => Recorded(q, home[q], place[q])',
         NEW to \in Contexts, to.tree = v, Recorded(run, home[run], to)',
         pending' = Nothing
  PROVE  Ordered(home, [place EXCEPT ![run] = to])'
<1> DEFINE next == [place EXCEPT ![run] = to]
<1>1. /\ next \in [Runs -> Contexts] /\ next[run] = to
      /\ \A q \in Runs \ {run} : next[q] = place[q]
  OBVIOUS
<1>2. /\ Ends(home[run], place[run]) = {w} /\ Ends(home[run], next[run]) = {w, v}
      /\ \A q \in Runs \ {run} : Ends(home[q], next[q]) = Ends(home[q], place[q])
  BY <1>1 DEF Ends
<1> HIDE DEF next
<1>3. /\ w # v /\ IsActive(w)' = FALSE
      /\ IsActive(v)' = TRUE /\ Link(v)' = link /\ origin'[v].run = run
  BY DEF Transfers
<1>4. \A x \in Trees \ {w, v} :
        /\ head'[x] = head[x] /\ origin'[x] = origin[x]
        /\ IsActive(x)' = IsActive(x) /\ Link(x)' = Link(x) /\ Revision(x)' = Revision(x)
  BY DEF KeptBut
<1>5. \A q \in Runs : HasBegun(q)' <=> HasBegun(q)
  BY SameOrder
<1>6. Traced(home, next)'
  <2>1. ASSUME NEW q \in Runs, q # run, HasBegun(q), NEW x \in Ends(home[q], place[q])
        PROVE  Exists(x)' /\ BoundBy(q, Revision(x))'
    <3>1. x \in Trees /\ x # v
      BY <2>1, EndsAreTrees
    <3>2. Exists(x) => Exists(x)'
      BY <1>4, <3>1 DEF Exists
    <3>3. Revision(x) <= Revision(x)'
      BY <1>4, <3>1, RevisionIsNat
    <3> QED BY <2>1, <3>2, <3>3, TracedOn DEF Ordered
  <2>2. ASSUME NEW x \in {w, v} PROVE Exists(x)' /\ BoundBy(run, Revision(x))'
    <3>1. BoundBy(run, Revision(w))
      BY <1>2 DEF Ordered, Traced
    <3>2. PICK n, m : n = Revision(w) /\ m = Revision(x)'
      OBVIOUS
    <3>3. n \in Nat /\ m \in Nat /\ n <= m
      BY <3>2, RevisionIsNat, NewRevisionIsNat
    <3>4. BoundBy(run, m)'
      BY <3>1, <3>2, <3>3, SameOrder
    <3> QED BY <3>2, <3>4 DEF BoundBy
  <2>3. ASSUME NEW q \in Runs, HasBegun(q)'
        PROVE  /\ Recorded(q, home[q], next[q])'
               /\ \A x \in Ends(home[q], next[q]) : (Exists(x) /\ BoundBy(q, Revision(x)))'
    <3>1. HasBegun(q)
      BY <1>5, <2>3
    <3>2. CASE q = run
      <4>1. Recorded(q, home[q], next[q])'
        BY <1>1, <3>2
      <4> QED BY <1>2, <2>2, <3>2, <4>1
    <3>3. CASE q # run
      <4>1. Recorded(q, home[q], place[q])
        BY <3>1 DEF Ordered, Traced
      <4>2. Recorded(q, home[q], next[q])'
        BY <1>1, <3>3, <4>1
      <4> QED BY <1>2, <2>1, <3>1, <3>3, <4>2
    <3> QED BY <3>2, <3>3
  <2> QED BY <2>3 DEF Traced
<1>7. Standing(home, next)'
  <2>1. ASSUME NEW x \in Trees, NEW r \in Runs, IsActive(x)', origin'[x].run = r
        PROVE  Stands(x, home[r], next[r])'
    <3>1. CASE x = v
      BY <1>1, <1>3, <2>1, <3>1 DEF Stands
    <3>2. CASE x # v
      <4>1. x \in Trees \ {w, v}
        BY <1>3, <2>1, <3>2
      <4>2. IsActive(x) /\ origin[x].run = r /\ r # run
        BY <1>4, <2>1, <4>1
      <4>3. Stands(x, home[r], place[r])
        BY <4>2 DEF Ordered, Standing
      <4> QED BY <1>1, <1>4, <4>1, <4>2, <4>3 DEF Stands
    <3> QED BY <3>1, <3>2
  <2> QED BY <2>1 DEF Standing
<1>8. Latest(home, next)'
  <2>1. ASSUME NEW x \in Trees, NEW r \in Runs, NEW q \in Runs,
               IsActive(x)', origin'[x].run = r, q # r, HasBegun(q)'
        PROVE  /\ home[r].tree \in Ends(home[q], next[q]) => Precedes(q, r)'
               /\ x \in Ends(home[q], next[q]) => x = home[r].tree
    <3>1. HasBegun(q)
      BY <1>5, <2>1
    <3>2. CASE x = v
      <4>1. r = run
        BY <1>3, <2>1, <3>2
      <4>2. Precedes(q, r) => Precedes(q, r)'
        BY SameOrder
      <4> QED BY <1>2, <2>1, <3>1, <3>2, <4>1, <4>2
    <3>3. CASE x # v
      <4>1. x \in Trees \ {w, v}
        BY <1>3, <2>1, <3>3
      <4>2. IsActive(x) /\ origin[x].run = r /\ r # run
        BY <1>4, <2>1, <4>1
      <4>3. /\ home[r].tree \in Ends(home[q], place[q]) => Precedes(q, r)
            /\ x \in Ends(home[q], place[q]) => x = home[r].tree
        BY <2>1, <3>1, <4>2 DEF Ordered, Latest
      <4>4. Precedes(q, r) => Precedes(q, r)'
        BY SameOrder
      <4>5. home[r].tree # v
        <5>1. HasBegun(r)
          BY <4>2 DEF Began
        <5> QED BY <5>1 DEF Ends
      <4> QED BY <1>2, <4>1, <4>3, <4>4, <4>5
    <3> QED BY <3>2, <3>3
  <2> QED BY <2>1 DEF Latest
<1> QED BY <1>6, <1>7, <1>8 DEF Ordered, Waiting, next

LEMMA CutIdentifies ==
  ASSUME TypeOK, Custody, Began, Named, Identified,
         NEW f \in Flows, NEW w \in Trees, NEW v \in Trees, NEW b \in Branches, Cut(f, w, v, b)
  PROVE  Identified'
<1> SUFFICES ASSUME Undisturbed'
             PROVE  \E home, place \in [Runs -> Contexts] : Ordered(home, place)'
  BY DEF Identified
<1>t. PICK to : to = [tree |-> v, ref |-> b]
  OBVIOUS
<1>1. /\ TypeOK' /\ KeptBut({w, v})
      /\ Transfers(w, v, f, origin[w].run, CutLink(w, b))
      /\ Revision(w)' = Revision(w) + 1 /\ Revision(v)' = Revision(w) + 1
      /\ IsActive(w) /\ Link(w) = NoLink /\ Exists(w) /\ ~Exists(v) /\ pending = Nothing
      /\ head'[w] = head[w] /\ head'[v] = b /\ b # Nothing
      /\ receipts' = Logged(f, "advance", w, to) /\ to \in Contexts
      /\ MayAct(f, w) /\ Bounded(w) /\ CanLog(f)
      /\ Mixes(f, origin[w].run)
      /\ UNCHANGED <<grant, pending>>
  BY <1>t, CutIs
<1>2. PICK run \in Runs : origin[w].run = run /\ HasBegun(run)
  BY <1>1 DEF Custody, Holdings, Began
<1>3. f = run /\ mixed' = mixed
  BY <1>1, <1>2 DEF Mixes, Undisturbed
<1>4. /\ \A q : Keeps(q)
      /\ \A q : q # run => Spares(q)
      /\ Commits(run, "advance", Context(w), to, Revision(w) + 1)
      /\ KeepsBindings
  BY <1>1, <1>3, LoggedCommits, LoggedBindings
<1>5. Undisturbed
  BY <1>3, <1>4, UndisturbedBefore
<1>6. PICK home, place \in [Runs -> Contexts] : Ordered(home, place)
  BY <1>5 DEF Identified
<1>7. PICK h \in Contexts, p \in Contexts : h = home[run] /\ p = place[run]
  OBVIOUS
<1>8. Context(w) = p /\ Recorded(run, h, p) /\ Stands(w, h, p)
  BY <1>1, <1>3, <1>5, <1>6, <1>7, ActsForItsOwn
<1>9. w = h.tree /\ p = h /\ head[w] = h.ref
  <2>1. h.tree \in Trees /\ NoLink.tree \notin Trees
    BY ContextFields, NamesAssumption DEF NoLink
  <2>2. w = h.tree /\ p = h
    BY <1>1, <1>8, <2>1 DEF Stands
  <2> QED BY <1>8, <2>2 DEF Context
<1>10. Recorded(run, h, to)'
  <2>1. to.tree = v /\ v # w
    BY <1>1, <1>t DEF Transfers
  <2> QED BY <1>1, <1>4, <1>8, <1>9, <2>1, ContinuedRecords, PlacesAreContexts, ContextFields,
             NothingAssumption
<1>11. \A q \in Runs : HasBegun(q) =>
         /\ v \notin Ends(home[q], place[q])
         /\ (q # run /\ w \in Ends(home[q], place[q])) => Precedes(q, run)
  BY <1>1, <1>2, <1>6, <1>7, <1>9 DEF Ordered, Traced, Latest
<1>12. \A x \in Trees \ {w, v} : IsActive(x) => origin[x].run # run
  BY <1>1, <1>2 DEF Custody, Holdings
<1>13. \A q \in Runs \ {run} :
         Recorded(q, home[q], place[q]) => Recorded(q, home[q], place[q])'
  BY <1>1, <1>4, RecordedOn
<1>14. /\ Exists(w)' /\ Exists(v)' /\ Revision(w) <= Revision(w)' /\ Revision(w) <= Revision(v)'
  BY <1>1, RevisionIsNat DEF Exists
<1>15. PICK link : link = CutLink(w, b)
  OBVIOUS
<1>16. Ordered(home, [place EXCEPT ![run] = to])'
  <2>1. to.tree = v /\ Transfers(w, v, f, run, link) /\ KeptBut({w, v})
    BY <1>1, <1>2, <1>15, <1>t
  <2>2. link.tree = w /\ link.ref = home[run].ref
    BY <1>7, <1>9, <1>15 DEF CutLink
  <2>3. home[run].tree = w /\ place[run] = home[run] /\ Recorded(run, home[run], to)'
    <3>1. Recorded(run, home[run], to)' = Recorded(run, h, to)'
      BY <1>7
    <3> QED BY <1>7, <1>9, <1>10, <3>1
  <2>4. TypeOK' /\ pending' = Nothing /\ to \in Contexts /\ KeepsBindings /\ HasBegun(run)
    BY <1>1, <1>2, <1>4
  <2> QED BY <1>6, <1>11, <1>12, <1>13, <1>14, <2>1, <2>2, <2>3, <2>4, OrderTransfers
<1>17. [place EXCEPT ![run] = to] \in [Runs -> Contexts]
  BY <1>1
<1> QED BY <1>16, <1>17

LEMMA CutStopsIdentifies ==
  ASSUME TypeOK, Custody, Began, Named, Identified,
         NEW f \in Flows, NEW w \in Trees, NEW v \in Trees, NEW b \in Branches,
         NEW done \in 0 .. 3, CutStops(f, w, v, b, done)
  PROVE  Identified'
<1> SUFFICES ASSUME Undisturbed'
             PROVE  \E home, place \in [Runs -> Contexts] : Ordered(home, place)'
  BY DEF Identified
<1>1. /\ TypeOK' /\ KeptBut({w, v})
      /\ w # v /\ Exists(w) /\ ~Exists(v) /\ pending = Nothing
      /\ IsActive(w) = TRUE /\ Link(w) = NoLink
      /\ pending' = Cutting(f, w, v, b) /\ pending'.link = CutLink(w, b)
      /\ head'[w] = head[w] /\ origin'[w] = origin[w]
      /\ Link(w)' = NoLink /\ Revision(w)' \in {Revision(w), Revision(w) + 1}
      /\ \/ /\ origin'[v] = origin[v]
            /\ IsActive(v)' = IsActive(v) /\ Link(v)' = Link(v)
         \/ /\ IsActive(v)' = TRUE /\ Link(v)' = CutLink(w, b)
            /\ origin'[v].run = origin[w].run
      /\ mixed' = IF head[w] = origin[w].ref THEN mixed ELSE mixed \cup {origin[w].run}
      /\ UNCHANGED <<receipts, grant>>
  <2>1. /\ TypeOK' /\ KeptBut({w, v})
        /\ w # v /\ Exists(w) /\ ~Exists(v) /\ pending = Nothing
        /\ IsActive(w) = TRUE /\ Link(w) = NoLink
        /\ pending' = Cutting(f, w, v, b) /\ pending'.link = CutLink(w, b)
        /\ head'[w] = head[w] /\ origin'[w] = origin[w]
        /\ Link(w)' = NoLink /\ Revision(w)' \in {Revision(w), Revision(w) + 1}
        /\ mixed' = IF head[w] = origin[w].ref THEN mixed ELSE mixed \cup {origin[w].run}
        /\ UNCHANGED <<receipts, grant>>
    BY CutStopsIs
  <2>2. \/ /\ origin'[v] = origin[v]
           /\ IsActive(v)' = IsActive(v) /\ Link(v)' = Link(v)
        \/ /\ IsActive(w)' = FALSE /\ IsActive(v)' = TRUE /\ Link(v)' = CutLink(w, b)
           /\ origin'[v].run = origin[w].run
    BY CutStopsIs
  <2> QED BY <2>1, <2>2
<1>2. PICK run \in Runs : origin[w].run = run /\ HasBegun(run)
  BY <1>1 DEF Custody, Holdings, Began
<1>3. head[w] = origin[w].ref /\ mixed' = mixed
  BY <1>1, <1>2 DEF Undisturbed
<1>4. (\A q : Spares(q) /\ Keeps(q)) /\ KeepsBindings
  BY <1>1, QuietSpares, QuietBindings
<1>5. PICK home, place \in [Runs -> Contexts] : Ordered(home, place)
  BY <1>3, <1>4, UndisturbedBefore DEF Identified
<1>6. w = home[run].tree /\ place[run] = home[run] /\ origin[w].ref = home[run].ref
  <2>1. home[run].tree \in Trees /\ NoLink.tree \notin Trees
    BY EndsAreTrees, NamesAssumption DEF NoLink
  <2>2. Stands(w, home[run], place[run])
    BY <1>1, <1>2, <1>5 DEF Ordered, Standing
  <2> QED BY <1>1, <2>1, <2>2 DEF Stands
<1>7. CutLink(w, b).tree = w /\ CutLink(w, b).ref = home[run].ref
  BY <1>3, <1>6 DEF CutLink
<1>8. \A q \in Runs : HasBegun(q) =>
        /\ v \notin Ends(home[q], place[q])
        /\ (q # run /\ w \in Ends(home[q], place[q])) => Precedes(q, run)
  BY <1>1, <1>2, <1>5, <1>6 DEF Ordered, Traced, Latest
<1>9. \A q \in Runs : HasBegun(q)' <=> HasBegun(q)
  BY <1>4, SameOrder
<1>10. \A x \in Trees \ {w, v} :
         /\ head'[x] = head[x] /\ origin'[x] = origin[x]
         /\ IsActive(x)' = IsActive(x) /\ Link(x)' = Link(x) /\ Revision(x)' = Revision(x)
  BY <1>1 DEF KeptBut
<1>11. Traced(home, place)'
  <2>1. ASSUME NEW q \in Runs, HasBegun(q), NEW x \in Ends(home[q], place[q])
        PROVE  Exists(x)' /\ BoundBy(q, Revision(x))'
    <3>1. x \in Trees /\ x # v
      BY <1>8, <2>1, EndsAreTrees
    <3>2. (Exists(x) => Exists(x)') /\ Revision(x) <= Revision(x)'
      BY <1>1, <1>10, <3>1, RevisionIsNat DEF Exists
    <3> QED BY <1>1, <1>4, <1>5, <2>1, <3>2, TracedOn DEF Ordered
  <2>2. ASSUME NEW q \in Runs, HasBegun(q) PROVE Recorded(q, home[q], place[q])'
    BY <1>1, <1>4, <1>5, <2>2, RecordedOn DEF Ordered, Traced
  <2> QED BY <1>9, <2>1, <2>2 DEF Traced
<1>12. Standing(home, place)'
  <2>1. ASSUME NEW x \in Trees, NEW r \in Runs, IsActive(x)', origin'[x].run = r
        PROVE  Stands(x, home[r], place[r])'
    <3>1. CASE x = w
      BY <1>1, <1>2, <1>6, <2>1, <3>1 DEF Stands
    <3>2. CASE /\ x # w
               /\ origin'[x] = origin[x] /\ IsActive(x)' = IsActive(x) /\ Link(x)' = Link(x)
      BY <1>5, <2>1, <3>2 DEF Ordered, Standing, Stands
    <3>3. CASE x = v /\ Link(v)' = CutLink(w, b) /\ origin'[v].run = origin[w].run
      <4>1. r = run
        BY <1>2, <2>1, <3>3
      <4> QED BY <1>1, <1>6, <1>7, <3>3, <4>1 DEF Stands
    <3> QED BY <1>1, <1>10, <3>1, <3>2, <3>3
  <2> QED BY <2>1 DEF Standing
<1>13. Latest(home, place)'
  <2>1. ASSUME NEW x \in Trees, NEW r \in Runs, NEW q \in Runs,
               IsActive(x)', origin'[x].run = r, q # r, HasBegun(q)
        PROVE  /\ home[r].tree \in Ends(home[q], place[q]) => Precedes(q, r)
               /\ x \in Ends(home[q], place[q]) => x = home[r].tree
    <3>1. CASE x = w
      BY <1>1, <1>2, <1>6, <1>8, <2>1, <3>1
    <3>2. CASE /\ x # w
               /\ origin'[x] = origin[x] /\ IsActive(x)' = IsActive(x)
      BY <1>5, <2>1, <3>2 DEF Ordered, Latest
    <3>3. CASE x = v /\ origin'[v].run = origin[w].run
      BY <1>2, <1>6, <1>8, <2>1, <3>3
    <3> QED BY <1>1, <1>10, <3>1, <3>2, <3>3
  <2> QED BY <1>4, <1>9, <2>1, SameOrder DEF Latest
<1>14. Waiting(home, place)'
  <2>1. /\ pending'.transition = "workspace.cut" /\ pending'.tree = w /\ pending'.to = v
        /\ pending'.run = run
    BY <1>1, <1>2 DEF Cutting
  <2>2. origin'[pending'.tree].ref = home[run].ref /\ pending'.link.ref = home[run].ref
    BY <1>1, <1>6, <1>7, <2>1
  <2>3. ASSUME NEW q \in Runs, HasBegun(q)'
        PROVE  /\ v \notin Ends(home[q], place[q])
               /\ (q # run /\ w \in Ends(home[q], place[q])) => Precedes(q, run)'
    BY <1>4, <1>8, <1>9, <2>3, SameOrder
  <2> QED BY <1>6, <2>1, <2>2, <2>3 DEF Waiting
<1>15. Ordered(home, place)'
  BY <1>11, <1>12, <1>13, <1>14 DEF Ordered
<1> QED BY <1>15

LEMMA ReconcileIdentifies ==
  ASSUME TypeOK, Custody, Began, Named, Identified,
         NEW f \in Flows, NEW u \in Trees, pending # Nothing, ReconcileCut(f, u)
  PROVE  Identified'
<1> SUFFICES ASSUME Undisturbed'
             PROVE  \E home, place \in [Runs -> Contexts] : Ordered(home, place)'
  BY DEF Identified
<1>w. PICK w, v, run : w = pending.tree /\ v = pending.to /\ run = pending.run
  OBVIOUS
<1>1. /\ pending.transition = "workspace.cut" /\ pending' = Nothing
      /\ w \in Trees /\ v \in Trees /\ pending.branch \in Branches
      /\ Exists(u) /\ MayAct(f, u) /\ Bounded(u) /\ CanLog(f)
      /\ IF u = w THEN Mixes(f, run) ELSE mixed' = mixed \cup {f, run}
      /\ UNCHANGED <<head, grant>>
  BY <1>w, ReconcilesIs, CutFields DEF ReconcileCut
<1>2. CutIsSound(w, v) /\ HasBegun(run)
  <2>1. HasBegun(pending.run)
    BY <1>1 DEF Began
  <2> QED BY <1>w, <1>1, <2>1 DEF Custody, CutCustody
<1>3. /\ run \in Runs /\ origin[w].run = run /\ w # v /\ Exists(w)
      /\ pending.prior.active = TRUE /\ pending.prior.link = NoLink
      /\ pending.link.branch = pending.branch /\ pending.link.tree = w
      /\ \A x \in Trees \ {w, v} : IsActive(x) => origin[x].run # run
  BY <1>w, <1>2 DEF CutIsSound
<1>4. u = w /\ f = run /\ mixed' = mixed
  BY <1>1, <1>3 DEF Mixes, Undisturbed
<1>5. Exists(w)' /\ (Exists(v) => Exists(v)')
  BY <1>1, <1>3 DEF Exists
<1>6. PICK to : to = IF Exists(v) THEN [tree |-> v, ref |-> pending.branch] ELSE Context(w)
  OBVIOUS
<1>7. TypeOK' /\ receipts' = Logged(f, "advance", w, to) /\ to \in Contexts
  <2>1. CASE Exists(v)
    <3>1. /\ TypeOK' /\ receipts' = Logged(f, "advance", u, [tree |-> v, ref |-> pending.branch])
          /\ [tree |-> v, ref |-> pending.branch] \in Contexts
      BY <1>w, <1>3, <2>1, CompletedIs
    <3> QED BY <1>4, <1>6, <2>1, <3>1
  <2>2. CASE ~Exists(v)
    <3>1. TypeOK' /\ receipts' = Logged(f, "advance", w, to)
      BY <1>w, <1>3, <1>4, <1>6, <2>2, UndoneIs
    <3>2. Context(w) \in Contexts
      BY <1>1, <1>3, ContextIsTyped
    <3> QED BY <1>6, <2>2, <3>1, <3>2
  <2> QED BY <2>1, <2>2
<1>8. /\ \A q : Keeps(q)
      /\ \A q : q # run => Spares(q)
      /\ Commits(run, "advance", Context(w), to, Revision(w) + 1)
      /\ KeepsBindings
  BY <1>1, <1>3, <1>4, <1>7, LoggedCommits, LoggedBindings
<1>9. PICK home, place \in [Runs -> Contexts] : Ordered(home, place)
  BY <1>4, <1>8, UndisturbedBefore DEF Identified
<1>10. /\ w = home[run].tree /\ place[run] = home[run]
       /\ pending.link.ref = home[run].ref /\ origin[w].ref = home[run].ref
       /\ \A q \in Runs : HasBegun(q) =>
            /\ v \notin Ends(home[q], place[q])
            /\ (q # run /\ w \in Ends(home[q], place[q])) => Precedes(q, run)
  BY <1>w, <1>3, <1>9 DEF Ordered, Waiting
<1>11. PICK h \in Contexts : h = home[run] /\ Recorded(run, h, h)
  BY <1>2, <1>3, <1>9, <1>10 DEF Ordered, Traced
<1>12. Context(w) = h
  <2>1. Context(w) \in Places(run, h)
    BY <1>1, <1>3, <1>4, <1>11, AuthorizedIsAPlace DEF MayAct, Authorized
  <2>2. Context(w).tree = h.tree
    BY <1>10, <1>11 DEF Context
  <2> QED BY <1>11, <2>1, <2>2, HomeIsOnePlace
<1>13. Recorded(run, h, to)'
  <2>1. to = h \/ to.tree # h.tree
    BY <1>3, <1>6, <1>10, <1>11, <1>12
  <2>2. Commits(run, "advance", h, to, Revision(w) + 1) /\ to # Nothing
    BY <1>7, <1>8, <1>12, NothingAssumption
  <2> QED BY <1>1, <1>3, <1>7, <1>11, <2>1, <2>2, ContinuedRecords
<1>14. \A q \in Runs \ {run} :
         Recorded(q, home[q], place[q]) => Recorded(q, home[q], place[q])'
  BY <1>1, <1>7, <1>8, RecordedOn
<1>15. Recorded(run, home[run], to)'
  <2>1. Recorded(run, home[run], to)' = Recorded(run, h, to)'
    BY <1>11
  <2> QED BY <1>13, <2>1
<1>16. CASE Exists(v)
  <2>1. /\ KeptBut({w, v}) /\ Transfers(w, v, f, origin[w].run, pending.link)
        /\ Revision(w)' = Revision(w) + 1 /\ Revision(v)' = Revision(w) + 1
    <3>1. /\ KeptBut({w, v}) /\ Transfers(w, v, f, origin[w].run, pending.link)
          /\ Revision(w)' = Revision(u) + 1 /\ Revision(v)' = Revision(u) + 1
      BY <1>w, <1>3, <1>16, CompletedIs
    <3> QED BY <1>4, <3>1
  <2>2. PICK link : link = pending.link
    OBVIOUS
  <2>3. Transfers(w, v, f, run, link) /\ link.tree = w /\ link.ref = home[run].ref
    BY <1>3, <1>10, <2>1, <2>2
  <2>4. to.tree = v
    BY <1>6, <1>16
  <2>5. Revision(w) <= Revision(w)' /\ Revision(w) <= Revision(v)' /\ Exists(w)' /\ Exists(v)'
    BY <1>1, <1>5, <1>16, <2>1, RevisionIsNat
  <2>6. /\ TypeOK' /\ pending' = Nothing /\ to \in Contexts /\ KeepsBindings /\ HasBegun(run)
        /\ home[run].tree = w /\ place[run] = home[run]
        /\ w \in Trees /\ v \in Trees /\ run \in Runs
        /\ \A x \in Trees \ {w, v} : IsActive(x) => origin[x].run # run
        /\ \A q \in Runs : HasBegun(q) =>
             /\ v \notin Ends(home[q], place[q])
             /\ (q # run /\ w \in Ends(home[q], place[q])) => Precedes(q, run)
    BY <1>1, <1>2, <1>3, <1>7, <1>8, <1>10
  <2>7. Ordered(home, [place EXCEPT ![run] = to])'
    BY <1>9, <1>14, <1>15, <2>1, <2>3, <2>4, <2>5, <2>6, OrderTransfers
  <2> QED BY <1>7, <2>7
<1>17. CASE ~Exists(v)
  <2>1. KeptBut({w, v}) /\ Undoes(w, v, f)
    BY <1>w, <1>3, <1>17, UndoneIs
  <2>2. /\ Link(w)' = NoLink /\ Revision(w)' = Revision(w) + 1
        /\ IsActive(v)' = FALSE
        /\ origin'[w].run = run /\ origin'[w].ref = origin[w].ref
    BY <1>3, <2>1 DEF Undoes
  <2>3. \A x \in Trees \ {w, v} :
          /\ origin'[x] = origin[x]
          /\ IsActive(x)' = IsActive(x) /\ Link(x)' = Link(x) /\ Revision(x)' = Revision(x)
    BY <2>1 DEF KeptBut
  <2>4. \A q \in Runs : HasBegun(q)' <=> HasBegun(q)
    BY <1>8, SameOrder
  <2>5. Recorded(run, home[run], place[run])'
    <3>1. to = place[run]
      BY <1>6, <1>10, <1>11, <1>12, <1>17
    <3>2. Recorded(run, home[run], to)' = Recorded(run, home[run], place[run])'
      BY <3>1
    <3> QED BY <1>15, <3>2
  <2>6. Traced(home, place)'
    <3>1. ASSUME NEW q \in Runs, HasBegun(q), NEW x \in Ends(home[q], place[q])
          PROVE  Exists(x)' /\ BoundBy(q, Revision(x))'
      <4>1. x \in Trees /\ x # v
        BY <1>10, <3>1, EndsAreTrees
      <4>2. (Exists(x) => Exists(x)') /\ Revision(x) <= Revision(x)'
        BY <1>1, <2>2, <2>3, <4>1, RevisionIsNat DEF Exists
      <4> QED BY <1>7, <1>8, <1>9, <3>1, <4>2, TracedOn DEF Ordered
    <3>2. ASSUME NEW q \in Runs, HasBegun(q) PROVE Recorded(q, home[q], place[q])'
      BY <1>9, <1>14, <2>5, <3>2 DEF Ordered, Traced
    <3> QED BY <2>4, <3>1, <3>2 DEF Traced
  <2>7. Standing(home, place)'
    <3>1. ASSUME NEW x \in Trees, NEW r \in Runs, IsActive(x)', origin'[x].run = r
          PROVE  Stands(x, home[r], place[r])'
      <4>1. CASE x = w
        BY <1>10, <2>2, <3>1, <4>1 DEF Stands
      <4>2. CASE x # w
        BY <1>9, <2>2, <2>3, <3>1, <4>2 DEF Ordered, Standing, Stands
      <4> QED BY <4>1, <4>2
    <3> QED BY <3>1 DEF Standing
  <2>8. Latest(home, place)'
    <3>1. ASSUME NEW x \in Trees, NEW r \in Runs, NEW q \in Runs,
                 IsActive(x)', origin'[x].run = r, q # r, HasBegun(q)
          PROVE  /\ home[r].tree \in Ends(home[q], place[q]) => Precedes(q, r)
                 /\ x \in Ends(home[q], place[q]) => x = home[r].tree
      <4>1. CASE x = w
        BY <1>10, <2>2, <3>1, <4>1
      <4>2. CASE x # w
        BY <1>9, <2>2, <2>3, <3>1, <4>2 DEF Ordered, Latest
      <4> QED BY <4>1, <4>2
    <3> QED BY <1>8, <2>4, <3>1, SameOrder DEF Latest
  <2>9. Ordered(home, place)'
    BY <1>1, <2>6, <2>7, <2>8 DEF Ordered, Waiting
  <2> QED BY <2>9
<1> QED BY <1>16, <1>17

LEMMA ReturnIdentifies ==
  ASSUME TypeOK, Custody, Began, Named, Identified,
         NEW f \in Flows, NEW w \in Trees, Return(f, w)
  PROVE  Identified'
<1> SUFFICES ASSUME Undisturbed'
             PROVE  \E home, place \in [Runs -> Contexts] : Ordered(home, place)'
  BY DEF Identified
<1>s. PICK s : s = Link(w).tree
  OBVIOUS
<1>1. Link(w) # NoLink /\ s \in Trees /\ s # w
  <2>1. Link(w) # NoLink /\ s \in Trees
    BY <1>s, CanReturnIs DEF Return
  <2> QED BY <1>s, <2>1 DEF Custody, Parkings
<1>2. /\ TypeOK' /\ KeptBut({w, s})
      /\ Exists(w) /\ Exists(s) /\ pending = Nothing
      /\ head[s] = Link(w).ref /\ head'[s] = head[s]
      /\ Brings(w, s, f)
      /\ receipts' = Logged(f, "advance", w, Context(s)) /\ Context(s) \in Contexts
      /\ MayAct(f, w) /\ Bounded(w) /\ CanLog(f)
      /\ f \in Runs => IsActive(w)
      /\ Mixes(f, origin[w].run)
      /\ UNCHANGED <<grant, pending>>
  BY <1>s, <1>1, ReturnIs
<1>3. PICK run \in Runs : origin[w].run = run
  BY <1>1 DEF Named
<1>4. f = run /\ mixed' = mixed /\ IsActive(w)
  BY <1>2, <1>3 DEF Mixes, Undisturbed
<1>5. PICK to : to = Context(s)
  OBVIOUS
<1>6. /\ \A q : Keeps(q)
      /\ \A q : q # run => Spares(q)
      /\ Commits(run, "advance", Context(w), to, Revision(w) + 1)
      /\ KeepsBindings
  BY <1>2, <1>4, <1>5, LoggedCommits, LoggedBindings
<1>7. Undisturbed
  BY <1>4, <1>6, UndisturbedBefore
<1>8. PICK home, place \in [Runs -> Contexts] : Ordered(home, place)
  BY <1>7 DEF Identified
<1>9. PICK h \in Contexts, p \in Contexts : h = home[run] /\ p = place[run]
  OBVIOUS
<1>10. /\ Context(w) = p /\ HasBegun(run) /\ Recorded(run, h, p) /\ Stands(w, h, p)
       /\ w \in Ends(h, p)
  BY <1>2, <1>4, <1>7, <1>8, <1>9, ActsForItsOwn
<1>11. w # h.tree /\ s = h.tree /\ Link(w).ref = h.ref
  BY <1>1, <1>s, <1>10 DEF Stands
<1>12. to = h
  BY <1>2, <1>5, <1>11, ContextFields DEF Context
<1>13. Recorded(run, h, h)'
  <2>1. h # Nothing
    BY NothingAssumption
  <2> QED BY <1>2, <1>6, <1>10, <1>12, <2>1, ContinuedRecords
<1> DEFINE next == [place EXCEPT ![run] = h]
<1>14. /\ next \in [Runs -> Contexts] /\ next[run] = h
       /\ \A q \in Runs \ {run} : next[q] = place[q]
  OBVIOUS
<1> HIDE DEF next
<1>15. /\ Ends(home[run], next[run]) = {s} /\ s \in Ends(home[run], place[run])
       /\ \A q \in Runs \ {run} : Ends(home[q], next[q]) = Ends(home[q], place[q])
  BY <1>9, <1>11, <1>14 DEF Ends
<1>16. /\ IsActive(w)' = FALSE
       /\ Link(s)' = NoLink /\ Revision(s)' = Revision(w) + 1
       /\ origin'[s].run = run /\ origin'[s].ref = h.ref
  BY <1>2, <1>3, <1>11 DEF Brings
<1>17. \A x \in Trees \ {w, s} :
         /\ head'[x] = head[x] /\ origin'[x] = origin[x]
         /\ IsActive(x)' = IsActive(x) /\ Link(x)' = Link(x) /\ Revision(x)' = Revision(x)
  BY <1>2 DEF KeptBut
<1>18. \A q \in Runs : HasBegun(q)' <=> HasBegun(q)
  BY <1>6, SameOrder
<1>19. ASSUME NEW q \in Runs, HasBegun(q), q # run
       PROVE  /\ s \in Ends(home[q], place[q]) => Precedes(q, run)
              /\ w \notin Ends(home[q], place[q])
  BY <1>3, <1>4, <1>8, <1>9, <1>11, <1>19 DEF Ordered, Latest
<1>20. Traced(home, next)'
  <2>1. ASSUME NEW q \in Runs, HasBegun(q), s \in Ends(home[q], place[q])
        PROVE  Exists(s)' /\ BoundBy(q, Revision(s))'
    <3>1. BoundBy(run, Revision(w))
      BY <1>8, <1>9, <1>10 DEF Ordered, Traced
    <3>2. BoundBy(q, Revision(w))
      <4>1. CASE q = run
        BY <3>1, <4>1
      <4>2. CASE q # run
        <5>1. Precedes(q, run)
          BY <1>19, <2>1, <4>2
        <5>2. PICK b : b \in Beginnings(run)
          BY <1>10 DEF HasBegun
        <5>3. receipts[b].revision <= Revision(w) /\ receipts[b].revision \in Nat
          BY <3>1, <5>2, OfAreReceipts, ReceiptFields DEF BoundBy, Beginnings
        <5>4. ASSUME NEW c \in Beginnings(q) PROVE receipts[c].revision <= Revision(w)
          <6>1. receipts[c].revision < receipts[b].revision /\ receipts[c].revision \in Nat
            BY <5>1, <5>2, <5>4, OfAreReceipts, ReceiptFields DEF Precedes, Beginnings
          <6> QED BY <5>3, <6>1, RevisionIsNat
        <5> QED BY <5>4 DEF BoundBy
      <4> QED BY <4>1, <4>2
    <3>3. PICK n, m : n = Revision(w) /\ m = Revision(s)'
      OBVIOUS
    <3>4. n \in Nat /\ m \in Nat /\ n <= m
      BY <1>16, <3>3, RevisionIsNat
    <3>5. BoundBy(q, m)'
      BY <1>6, <3>2, <3>3, <3>4, SameOrder
    <3>6. Exists(s)'
      BY <1>2 DEF Exists
    <3> QED BY <3>3, <3>5, <3>6 DEF BoundBy
  <2>2. ASSUME NEW q \in Runs, HasBegun(q), q # run, NEW x \in Ends(home[q], place[q]), x # s
        PROVE  Exists(x)' /\ BoundBy(q, Revision(x))'
    <3>1. x \in Trees \ {w, s}
      BY <1>19, <2>2, EndsAreTrees
    <3>2. (Exists(x) => Exists(x)') /\ Revision(x) <= Revision(x)'
      BY <1>17, <3>1, RevisionIsNat DEF Exists
    <3> QED BY <1>2, <1>6, <1>8, <2>2, <3>2, TracedOn DEF Ordered
  <2>3. ASSUME NEW q \in Runs, HasBegun(q) PROVE Recorded(q, home[q], next[q])'
    <3>1. CASE q = run
      <4>1. Recorded(q, home[q], next[q])' = Recorded(run, h, h)'
        BY <1>9, <1>14, <3>1
      <4> QED BY <1>13, <4>1
    <3>2. CASE q # run
      <4>1. Recorded(q, home[q], place[q])
        BY <1>8, <2>3 DEF Ordered, Traced
      <4>2. Recorded(q, home[q], place[q])'
        BY <1>2, <1>6, <3>2, <4>1, RecordedOn
      <4> QED BY <1>14, <3>2, <4>2
    <3> QED BY <3>1, <3>2
  <2>4. ASSUME NEW q \in Runs, HasBegun(q), NEW x \in Ends(home[q], next[q])
        PROVE  Exists(x)' /\ BoundBy(q, Revision(x))'
    BY <1>15, <2>1, <2>2, <2>4
  <2> QED BY <1>18, <2>3, <2>4 DEF Traced
<1>21. Standing(home, next)'
  <2>1. ASSUME NEW x \in Trees, NEW r \in Runs, IsActive(x)', origin'[x].run = r
        PROVE  Stands(x, home[r], next[r])'
    <3>1. CASE x = s
      BY <1>9, <1>11, <1>14, <1>16, <2>1, <3>1 DEF Stands
    <3>2. CASE x # s
      <4>1. x \in Trees \ {w, s}
        BY <1>16, <2>1, <3>2
      <4>2. IsActive(x) /\ origin[x].run = r
        BY <1>17, <2>1, <4>1
      <4>3. r # run
        BY <1>3, <1>4, <4>1, <4>2 DEF Custody, Holdings
      <4>4. Stands(x, home[r], place[r])
        BY <1>8, <4>2 DEF Ordered, Standing
      <4> QED BY <1>14, <1>17, <4>1, <4>3, <4>4 DEF Stands
    <3> QED BY <3>1, <3>2
  <2> QED BY <2>1 DEF Standing
<1>22. Latest(home, next)'
  <2>1. ASSUME NEW x \in Trees, NEW r \in Runs, NEW q \in Runs,
               IsActive(x)', origin'[x].run = r, q # r, HasBegun(q)
        PROVE  /\ home[r].tree \in Ends(home[q], next[q]) => Precedes(q, r)
               /\ x \in Ends(home[q], next[q]) => x = home[r].tree
    <3>1. CASE x = s
      BY <1>9, <1>11, <1>15, <1>16, <1>19, <2>1, <3>1
    <3>2. CASE x # s
      <4>1. x \in Trees \ {w, s}
        BY <1>16, <2>1, <3>2
      <4>2. IsActive(x) /\ origin[x].run = r
        BY <1>17, <2>1, <4>1
      <4>3. /\ home[r].tree \in Ends(home[q], place[q]) => Precedes(q, r)
            /\ x \in Ends(home[q], place[q]) => x = home[r].tree
        BY <1>8, <2>1, <4>2 DEF Ordered, Latest
      <4> QED BY <1>15, <4>3
    <3> QED BY <3>1, <3>2
  <2> QED BY <1>6, <1>18, <2>1, SameOrder DEF Latest
<1>23. Ordered(home, next)'
  BY <1>2, <1>20, <1>21, <1>22 DEF Ordered, Waiting
<1> QED BY <1>14, <1>23

\* An interrupted removal is not the run's own any more.
LEMMA ReturnStopsIdentifies ==
  ASSUME TypeOK, Custody, Named, NEW f \in Flows, NEW w \in Trees, NEW done \in 0 .. 3,
         ReturnStops(f, w, done)
  PROVE  Identified'
<1>1. Link(w) # NoLink
  BY CanReturnIs DEF ReturnStops
<1>2. origin[w].run \in Runs
  BY <1>1 DEF Named
<1>3. mixed' = mixed \cup {origin[w].run}
  BY DEF ReturnStops
<1> QED BY <1>2, <1>3 DEF Identified, Undisturbed

LEMMA BindIdentifies ==
  ASSUME TypeOK, Custody, Began, Identified, OneAtATime,
         NEW r \in Runs, NEW w \in Trees, Bind(r, w)
  PROVE  Identified'
<1> SUFFICES ASSUME Undisturbed'
             PROVE  \E home, place \in [Runs -> Contexts] : Ordered(home, place)'
  BY DEF Identified
<1>1. /\ TypeOK' /\ KeptBut({w})
      /\ IsActive(w) = FALSE /\ IsActive(w)' = TRUE /\ Link(w)' = NoLink
      /\ Revision(w)' = Revision(w) + 1
      /\ origin'[w].run = r /\ origin'[w].ref = head[w]
      /\ receipts' = Logged(r, "bind", w, Nothing)
      /\ Exists(w) /\ Bounded(w) /\ CanLog(r) /\ MayAct(r, w) /\ pending = Nothing
      /\ UNCHANGED <<head, grant, pending, mixed>>
      /\ ~IsParked(w)
  BY BindIs
<1>2. PICK h : h = Context(w)
  OBVIOUS
<1>3. h \in Contexts /\ h.tree = w /\ h.ref = head[w]
  <2>1. Context(w) \in Contexts
    BY <1>1, ContextIsTyped
  <2> QED BY <1>2, <2>1 DEF Context
<1>4. r \in Flows
  BY DEF Flows
<1>5. PICK n : n = Revision(w) + 1
  OBVIOUS
<1>6. /\ \A q : Keeps(q)
      /\ \A q : q # r => Spares(q)
      /\ Commits(r, "bind", h, Nothing, n)
  BY <1>1, <1>2, <1>4, <1>5, LoggedCommits
<1>7. Undisturbed
  BY <1>1, <1>6, UndisturbedBefore
<1>8. PICK home, place \in [Runs -> Contexts] : Ordered(home, place)
  BY <1>7 DEF Identified
<1>9. PICK m : m = Len(receipts) + 1
  OBVIOUS
<1>10. /\ Of(r)' = Of(r) \cup {m} /\ m \notin Of(r)
       /\ \A i \in Of(r) : receipts'[i] = receipts[i]
       /\ receipts'[m].kind = "bind" /\ receipts'[m].revision = n
  <2>1. /\ Of(r)' = Of(r) \cup {m} /\ \A i \in Of(r) : receipts'[i] = receipts[i]
        /\ receipts'[m] = [flow |-> r, kind |-> "bind", from |-> h, to |-> Nothing,
                           revision |-> n]
    BY <1>6, <1>9 DEF Commits
  <2>2. m \notin Of(r)
    BY <1>9, OfAreReceipts
  <2> QED BY <2>1, <2>2
<1>11. ~HasBegun(r) /\ Of(r) = {}
  <2>1. ~HasBegun(r)
    <3>1. m \in Beginnings(r)' /\ Beginnings(r) \subseteq Beginnings(r)'
      BY <1>6, <1>10, KeptReceipts DEF Beginnings
    <3>2. \A i, j \in Beginnings(r)' : i = j
      BY DEF Undisturbed, BeganOnce
    <3>3. m \notin Beginnings(r)
      BY <1>10 DEF Beginnings
    <3> QED BY <3>1, <3>2, <3>3 DEF HasBegun
  <2> QED BY <1>7, <2>1 DEF Began, Undisturbed
<1>12. Beginnings(r)' = {m} /\ HasBegun(r)'
  BY <1>10, <1>11 DEF Beginnings, HasBegun
<1>13. \A q \in Runs \ {r} : /\ Beginnings(q)' = Beginnings(q)
                             /\ \A b \in Beginnings(q) : receipts'[b] = receipts[b]
  BY <1>1, <1>6, SparedBindings
<1>14. \A q \in Runs : \A b \in Beginnings(q) : receipts[b].revision \in Nat
  BY OfAreReceipts, ReceiptFields DEF Beginnings
<1>15. Recorded(r, h, h)'
  <2>1. grant[r] # Nothing /\ AuthorizedByRecords(r, grant[r].context, h)
    BY <1>1, <1>2 DEF MayAct, Authorized, InItsLineage
  <2> QED BY <1>1, <1>3, <1>6, <1>11, <2>1, FirstRecord
<1> DEFINE homes == [home EXCEPT ![r] = h]
           places == [place EXCEPT ![r] = h]
<1>16. /\ homes \in [Runs -> Contexts] /\ places \in [Runs -> Contexts]
       /\ homes[r] = h /\ places[r] = h
       /\ \A q \in Runs \ {r} : homes[q] = home[q] /\ places[q] = place[q]
  BY <1>3
<1> HIDE DEF homes, places
<1>17. Ends(homes[r], places[r]) = {w}
  BY <1>3, <1>16 DEF Ends
<1>18. \A x \in Trees \ {w} :
         /\ head'[x] = head[x] /\ origin'[x] = origin[x]
         /\ IsActive(x)' = IsActive(x) /\ Link(x)' = Link(x) /\ Revision(x)' = Revision(x)
  BY <1>1 DEF KeptBut
<1>19. \A q \in Runs \ {r} : HasBegun(q)' <=> HasBegun(q)
  BY <1>13 DEF HasBegun
<1>20. Revision(w) \in Nat /\ n \in Nat /\ Revision(w)' = n /\ Revision(w) < n
  BY <1>1, <1>5, RevisionIsNat
<1>21. Traced(homes, places)'
  <2>1. ASSUME NEW q \in Runs, HasBegun(q), q # r, NEW x \in Ends(home[q], place[q])
        PROVE  Exists(x)' /\ BoundBy(q, Revision(x))'
    <3>1. x \in Trees /\ Exists(x) /\ BoundBy(q, Revision(x))
      BY <1>8, <2>1, EndsAreTrees DEF Ordered, Traced
    <3>2. Exists(x)'
      BY <1>1, <3>1 DEF Exists
    <3>3. Revision(x) \in Nat /\ Revision(x)' \in Nat /\ Revision(x) <= Revision(x)'
      BY <1>18, <1>20, <3>1, RevisionIsNat
    <3>4. ASSUME NEW b \in Beginnings(q)' PROVE receipts'[b].revision <= Revision(x)'
      <4>1. b \in Beginnings(q) /\ receipts'[b].revision = receipts[b].revision
        BY <1>13, <2>1, <3>4
      <4>2. receipts[b].revision <= Revision(x) /\ receipts[b].revision \in Nat
        BY <1>14, <3>1, <4>1 DEF BoundBy
      <4> QED BY <3>3, <4>1, <4>2
    <3> QED BY <3>2, <3>4 DEF BoundBy
  <2>2. Exists(w)' /\ BoundBy(r, Revision(w))'
    <3>1. \A b \in Beginnings(r)' : receipts'[b].revision <= Revision(w)'
      BY <1>10, <1>12, <1>20
    <3> QED BY <1>1, <3>1 DEF Exists, BoundBy
  <2>3. ASSUME NEW q \in Runs, HasBegun(q)'
        PROVE  /\ Recorded(q, homes[q], places[q])'
               /\ \A x \in Ends(homes[q], places[q]) : (Exists(x) /\ BoundBy(q, Revision(x)))'
    <3>1. CASE q = r
      <4>1. Recorded(q, homes[q], places[q])' = Recorded(r, h, h)'
        BY <1>16, <3>1
      <4> QED BY <1>15, <1>17, <2>2, <3>1, <4>1
    <3>2. CASE q # r
      <4>1. HasBegun(q) /\ homes[q] = home[q] /\ places[q] = place[q]
        BY <1>16, <1>19, <2>3, <3>2
      <4>2. Recorded(q, home[q], place[q])
        BY <1>8, <4>1 DEF Ordered, Traced
      <4>3. Recorded(q, home[q], place[q])'
        BY <1>1, <1>6, <3>2, <4>2, RecordedOn
      <4> QED BY <2>1, <3>2, <4>1, <4>3
    <3> QED BY <3>1, <3>2
  <2> QED BY <2>3 DEF Traced
<1>22. Standing(homes, places)'
  <2>1. ASSUME NEW x \in Trees, NEW q \in Runs, IsActive(x)', origin'[x].run = q
        PROVE  Stands(x, homes[q], places[q])'
    <3>1. CASE x = w
      BY <1>1, <1>3, <1>16, <2>1, <3>1 DEF Stands
    <3>2. CASE x # w
      <4>1. IsActive(x) /\ origin[x].run = q
        BY <1>18, <2>1, <3>2
      <4>2. q # r
        BY <1>11, <4>1 DEF Began
      <4>3. Stands(x, home[q], place[q])
        BY <1>8, <4>1 DEF Ordered, Standing
      <4> QED BY <1>16, <1>18, <3>2, <4>2, <4>3 DEF Stands
    <3> QED BY <3>1, <3>2
  <2> QED BY <2>1 DEF Standing
<1>23. Latest(homes, places)'
  <2>1. ASSUME NEW x \in Trees, NEW q \in Runs, NEW o \in Runs,
               IsActive(x)', origin'[x].run = q, o # q, HasBegun(o)'
        PROVE  /\ homes[q].tree \in Ends(homes[o], places[o]) => Precedes(o, q)'
               /\ x \in Ends(homes[o], places[o]) => x = homes[q].tree
    <3>1. CASE x = w
      <4>1. q = r /\ homes[q].tree = w
        BY <1>1, <1>3, <1>16, <2>1, <3>1
      <4>2. HasBegun(o) /\ homes[o] = home[o] /\ places[o] = place[o]
        BY <1>16, <1>19, <2>1, <4>1
      <4>3. ASSUME w \in Ends(home[o], place[o]) PROVE Precedes(o, r)'
        <5>1. BoundBy(o, Revision(w))
          BY <1>8, <4>2, <4>3 DEF Ordered, Traced
        <5>2. ASSUME NEW b \in Beginnings(o)', NEW c \in Beginnings(r)'
              PROVE  receipts'[b].revision < receipts'[c].revision
          <6>1. b \in Beginnings(o) /\ receipts'[b].revision = receipts[b].revision
            BY <1>13, <2>1, <4>1, <5>2
          <6>2. receipts[b].revision <= Revision(w) /\ receipts[b].revision \in Nat
            BY <1>14, <5>1, <6>1 DEF BoundBy
          <6>3. receipts'[c].revision = n
            BY <1>10, <1>12, <5>2
          <6> QED BY <1>20, <6>1, <6>2, <6>3
        <5> QED BY <5>2 DEF Precedes
      <4> QED BY <3>1, <4>1, <4>2, <4>3
    <3>2. CASE x # w
      <4>1. IsActive(x) /\ origin[x].run = q
        BY <1>18, <2>1, <3>2
      <4>2. q # r /\ HasBegun(q)
        BY <1>11, <4>1 DEF Began
      <4>3. Stands(x, home[q], place[q])
        BY <1>8, <4>1 DEF Ordered, Standing
      <4>4. CASE o = r
        <5>1. home[q].tree # w
          BY <1>1, <3>2, <4>3 DEF Stands, IsParked, Link
        <5> QED BY <1>16, <1>17, <3>2, <4>2, <4>4, <5>1
      <4>5. CASE o # r
        <5>1. HasBegun(o)
          BY <1>19, <2>1, <4>5
        <5>2. /\ home[q].tree \in Ends(home[o], place[o]) => Precedes(o, q)
              /\ x \in Ends(home[o], place[o]) => x = home[q].tree
          BY <1>8, <2>1, <4>1, <5>1 DEF Ordered, Latest
        <5>3. Precedes(o, q) => Precedes(o, q)'
          BY <1>13, <4>2, <4>5 DEF Precedes
        <5> QED BY <1>16, <4>2, <4>5, <5>2, <5>3
      <4> QED BY <4>4, <4>5
    <3> QED BY <3>1, <3>2
  <2> QED BY <2>1 DEF Latest
<1>24. Ordered(homes, places)'
  BY <1>1, <1>21, <1>22, <1>23 DEF Ordered, Waiting
<1> QED BY <1>16, <1>24

LEMMA InitialIdentified ==
  ASSUME Init, Trees # {}
  PROVE  Identified
<1>u. PICK u \in Trees : TRUE
  OBVIOUS
<1>1. PICK c : c \in Contexts
  <2>1. [tree |-> u, ref |-> Elsewhere] \in Contexts
    BY DEF Contexts, Refs
  <2> QED BY <2>1
<1>2. PICK home : home = [run \in Runs |-> c]
  OBVIOUS
<1>3. home \in [Runs -> Contexts]
  BY <1>1, <1>2
<1>4. \A run \in Runs : HasBegun(run) = FALSE
  BY DEF Init, HasBegun, Beginnings, Of
<1>5. \A x \in Trees : IsActive(x) = FALSE
  BY FreshIsTyped DEF Init, StateOf, IsActive
<1>6. Ordered(home, home)
  BY <1>4, <1>5 DEF Init, Ordered, Traced, Standing, Latest, Waiting
<1> QED BY <1>3, <1>6 DEF Identified

LEMMA IdentifiedIsKept ==
  ASSUME TypeOK, Custody, Began, Named, Identified, OneAtATime, [Next]_vars
  PROVE  Identified'
<1>1. CASE UNCHANGED vars
  <2> SUFFICES ASSUME Undisturbed'
               PROVE  \E home, place \in [Runs -> Contexts] : Ordered(home, place)'
    BY DEF Identified
  <2>1. Undisturbed
    BY <1>1 DEF vars, Undisturbed, BeganOnce, Beginnings, Of
  <2>2. PICK home, place \in [Runs -> Contexts] : Ordered(home, place)
    BY <2>1 DEF Identified
  <2>3. Traced(home, place)'
    <3>1. \A q : /\ HasBegun(q)' = HasBegun(q)
                 /\ \A h, p : Recorded(q, h, p) => Recorded(q, h, p)'
      BY <1>1 DEF vars, HasBegun, Recorded, IsAt, Beginnings, Of, Advances, Later, Places
    <3>2. \A q, x : /\ Exists(x)' = Exists(x)
                    /\ BoundBy(q, Revision(x)) => BoundBy(q, Revision(x))'
      BY <1>1 DEF vars, BoundBy, Beginnings, Of, Revision, StateOf, Exists
    <3> QED BY <2>2, <3>1, <3>2 DEF Ordered, Traced
  <2>4. Standing(home, place)'
    BY <1>1, <2>2 DEF vars, Ordered, Standing, Stands, IsActive, StateOf, Link
  <2>5. Latest(home, place)' /\ Waiting(home, place)'
    BY <1>1, <2>2 DEF vars, Ordered, Latest, Waiting, Precedes, HasBegun, Beginnings, Of,
       IsActive, StateOf
  <2>6. Ordered(home, place)'
    BY <2>3, <2>4, <2>5 DEF Ordered
  <2> QED BY <2>2, <2>6
<1>2. CASE Next
  <2>1. ASSUME NEW r \in Runs, NEW w \in Trees, Authorize(r, w) \/ Reproject(r, w) \/ Bind(r, w)
        PROVE  Identified'
    BY <2>1, AuthorizeIdentifies, BindIdentifies
  <2>2. ASSUME NEW r \in Runs, NEW w \in Trees, NEW k \in {"output", "configure"}, Step(r, w, k)
        PROVE  Identified'
    BY <2>2, StepIdentifies
  <2>3. ASSUME NEW w \in Trees,
               Finish(w) \/ Switch(w) \/ \E f \in Flows : Escalate(f, w)
        PROVE  Identified'
    BY <2>3, UncommittedIdentifies
  <2>4. ASSUME NEW f \in Flows, NEW w \in Trees, NEW v \in Trees, NEW b \in Branches,
               Cut(f, w, v, b) \/ \E done \in 0 .. 3 : CutStops(f, w, v, b, done)
        PROVE  Identified'
    BY <2>4, CutIdentifies, CutStopsIdentifies
  <2>5. ASSUME NEW f \in Flows, NEW w \in Trees,
               \/ Return(f, w)
               \/ \E done \in 0 .. 3 : ReturnStops(f, w, done)
               \/ pending # Nothing /\ ReconcileCut(f, w)
        PROVE  Identified'
    BY <2>5, ReturnIdentifies, ReturnStopsIdentifies, ReconcileIdentifies
  <2> QED BY <1>2, <2>1, <2>2, <2>3, <2>4, <2>5 DEF Next
<1> QED BY <1>1, <1>2

\* Of the runs that have bound a delivery, the receipts identify in every worktree the
\* one whose delivery is there, as long as no run begins again or moves or reconciles
\* what is not its own.
THEOREM IdentityFollowsTheRun ==
  OneAtATime => (Spec => []RunsKeepTheirIdentity)
<1> SUFFICES ASSUME OneAtATime PROVE Spec => []RunsKeepTheirIdentity
  OBVIOUS
<1> DEFINE Known == Named /\ (Trees # {} => Identified)
<1>1. Init => Known
  BY InitialNamed, InitialIdentified
<1>2. (TypeOK /\ Custody /\ Lineages /\ Began) /\ Known /\ [Next]_vars => Known'
  BY NamedIsKept, IdentifiedIsKept
<1>3. (TypeOK /\ Custody /\ Lineages /\ Began) /\ Known => RunsKeepTheirIdentity
  <2>1. CASE Trees = {}
    BY <2>1 DEF RunsKeepTheirIdentity
  <2>2. CASE Trees # {}
    BY <2>2, OrderedIdentify
  <2> QED BY <2>1, <2>2
<1> HIDE DEF Known
<1> QED BY <1>1, <1>2, <1>3, LineagesHold, PTL DEF Spec
=============================================================================
