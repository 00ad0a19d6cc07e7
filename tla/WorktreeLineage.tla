--------------------------- MODULE WorktreeLineage ---------------------------
(***************************************************************************)
(* A delivery moves between the worktrees of one clone: workspace.cut      *)
(* carries its state into a new linked worktree and parks the checkout it  *)
(* leaves, workspace.cleanup and workspace.reap carry it back, and a cut   *)
(* that was interrupted is reconciled (effects/driver.go,                  *)
(* effects/recovery.go).  Every worktree has a state of its own; journals, *)
(* receipts and the grants of the runs belong to the clone.  Which run a   *)
(* state belongs to, where that run may act and what it has produced is    *)
(* found again from the committed receipts (effects/receipts.go).          *)
(*                                                                         *)
(* A transaction is one step here or stops once (DeliveryTransaction has   *)
(* its steps); a step that does not change what the receipts are asked for *)
(* is left out, and so is a receipt nobody looks up.                       *)
(***************************************************************************)
EXTENDS Integers, Sequences, FiniteSets, FiniteSetsExt

CONSTANTS
  Trees,       \* the paths of worktrees
  FirstTrees,  \* those that are there from the start
  Ref(_),      \* the branch such a worktree has checked out
  Branches,    \* the names a cut may give its branch
  Elsewhere,   \* any other ref a user may check out
  Runs,        \* flows that identify themselves as run-...
  Delivery(_), \* the delivery, and with it the objective, that a run binds
  Operator,    \* whoever applies a transition without a run
  Nothing,
  OneAtATime,  \* no run begins in a parked checkout or while it is active elsewhere
  MaxReceipts, MaxRevision, MaxDisturbances

\* The refs a worktree may have checked out, and where a transition is applied.
Refs == Branches \cup {Ref(w) : w \in FirstTrees} \cup {Elsewhere}
Contexts == [tree : Trees, ref : Refs]

ASSUME NamesAssumption ==
  /\ FirstTrees \subseteq Trees
  /\ Nothing \notin Trees \cup Refs \cup Runs
  /\ Operator \notin Runs
  /\ Elsewhere \notin Branches

ASSUME BoundsAssumption ==
  /\ OneAtATime \in BOOLEAN
  /\ MaxReceipts \in Nat
  /\ MaxRevision \in Nat \ {0}
  /\ MaxDisturbances \in Nat

VARIABLES
  head,        \* the ref each worktree has checked out, Nothing without one
  state,       \* the durable state of each worktree, Nothing without one
  receipts,    \* the committed receipts in the order of their sequence
  grant,       \* the context and bundle each run is authorized for
  pending,     \* the interrupted transaction of the clone
  origin,      \* per worktree, how what it holds came about
  live,        \* the runs with a delivery that is neither ended nor given up
  mixed,       \* the runs whose transfers were done by others, or from elsewhere
  loose,       \* the contexts a delivery has left otherwise than by its own run
  disturbances

vars ==
  <<head, state, receipts, grant, pending, origin, live, mixed, loose, disturbances>>

NoLink == [branch |-> Nothing, tree |-> Nothing, ref |-> Nothing]

Fresh == [revision |-> 1, delivery |-> Nothing, active |-> FALSE,
          link |-> NoLink, escalated |-> FALSE]

StateOf(w) == IF state[w] = Nothing THEN Fresh ELSE state[w]
IsActive(w) == StateOf(w).active
Exists(w) == head[w] # Nothing
Context(w) == [tree |-> w, ref |-> head[w]]

\* origin[w]: the run that bound the delivery, the ref it was last bound or moved
\* to, and the receipts that led to what the worktree holds.
NoOrigin == [run |-> Nothing, ref |-> Nothing, past |-> {}]

Flows == Runs \cup {Operator}

Links == [branch : Branches, tree : Trees, ref : Refs] \cup {NoLink}
States ==
  [revision : 1 .. MaxRevision, delivery : {Delivery(r) : r \in Runs} \cup {Nothing},
   active : BOOLEAN, link : Links, escalated : BOOLEAN]
Origins ==
  [run : Runs \cup {Nothing}, ref : Refs \cup {Nothing}, past : SUBSET (1 .. MaxReceipts)]
Grants == [context : Contexts, bundle : 0 .. MaxReceipts]
Receipts ==
  [flow : Runs, kind : {"bind", "output", "configure", "advance"}, from : Contexts,
   to : Contexts \cup {Nothing}, revision : 1 .. MaxRevision]
Cuts ==
  [transition : {"workspace.cut"}, flow : Flows, tree : Trees, to : Trees,
   branch : Branches, run : Runs \cup {Nothing}, prior : States, link : Links]
Removals ==
  [transition : {"workspace.cleanup"}, tree : Trees, run : Runs \cup {Nothing}]

\* Nothing is none of the records it stands for the absence of.
ASSUME NothingAssumption ==
  Nothing \notin Contexts \cup States \cup Grants \cup Cuts \cup Removals

-----------------------------------------------------------------------------
(* The committed receipts (receipts.go).                                   *)

Of(flow) == {i \in DOMAIN receipts : receipts[i].flow = flow}
Advances(flow) == {i \in Of(flow) : receipts[i].to # Nothing}

\* Mutant: a lineage is always followed from its first advance.
LaterFromTheStart(flow, initial) == Advances(flow)

\* The advances after the last one into the context that a lineage starts from.
Later(flow, initial) ==
  LET into == {i \in Advances(flow) : receipts[i].to = initial}
  IN  {i \in Advances(flow) : \A j \in into : i > j}

Reached(flow, initial, before) ==
  {initial} \cup {receipts[j].to : j \in {k \in Later(flow, initial) : k < before}}

\* Otherwise the lookup ends in "delegation receipt lineage is invalid".
LineageIsValid(flow, initial) ==
  \A i \in Later(flow, initial) : receipts[i].from \in Reached(flow, initial, i)

AuthorizedByRecords(flow, initial, current) ==
  /\ LineageIsValid(flow, initial)
  /\ current \in Reached(flow, initial, Len(receipts) + 1)

\* Mutant: what a flow has committed stays behind in its worktree.
AppliesWhereItWasMade(i, w) == receipts[i].from.tree = w

\* sameStateLineage, or the receipts of the flow lead from there to here.
AppliesTo(i, w) ==
  \/ receipts[i].from.tree = w
  \/ AuthorizedByRecords(receipts[i].flow, receipts[i].from, Context(w))

Fails(candidates, w) ==
  \E i \in candidates : /\ receipts[i].from.tree # w
                        /\ ~LineageIsValid(receipts[i].flow, receipts[i].from)

Bindings(w) ==
  {i \in DOMAIN receipts : /\ receipts[i].kind = "bind"
                           /\ Delivery(receipts[i].flow) = StateOf(w).delivery
                           /\ receipts[i].revision <= StateOf(w).revision}

\* Mutant: the oldest binding of the objective that applies.
FirstFlows(w) ==
  LET found == {i \in Bindings(w) : AppliesTo(i, w)}
  IN  IF Fails(Bindings(w), w) THEN {}
      ELSE {receipts[i].flow : i \in {j \in found :
             \A k \in found : receipts[k].revision >= receipts[j].revision}}

\* findLatestCommittedFlowForObjective.  Journals are read in the order of their
\* names, so of two with one revision either may be the one that is found.
LatestFlows(w) ==
  LET found == {i \in Bindings(w) : AppliesTo(i, w)}
  IN  IF Fails(Bindings(w), w) THEN {}
      ELSE {receipts[i].flow : i \in {j \in found :
             \A k \in found : receipts[k].revision <= receipts[j].revision}}

Outputs(flow, w) ==
  {i \in Of(flow) : /\ receipts[i].kind = "output"
                    /\ receipts[i].revision <= StateOf(w).revision}

\* findApplicableCommittedWorkOutput and findLatestCommittedTransitionOutput.
LatestOutput(flow, w) ==
  LET found == {i \in Outputs(flow, w) : AppliesTo(i, w)}
  IN  IF Fails(Outputs(flow, w), w) \/ found = {} THEN 0 ELSE Max(found)

\* The configuration in force in a worktree, by the receipt that established it.
Bundle(w) ==
  Max({i \in origin[w].past : receipts[i].kind = "configure"} \cup {0})

\* configurationReprojectionAdmits
ReprojectionAdmits(flow, w) ==
  /\ Bundle(w) \in Of(flow)
  /\ receipts[Bundle(w)].revision <= StateOf(w).revision
  /\ AppliesTo(Bundle(w), w)

-----------------------------------------------------------------------------
(* What a run and what an operator may do in a worktree.                   *)

InItsLineage(run, w) ==
  grant[run] # Nothing /\ AuthorizedByRecords(run, grant[run].context, Context(w))

\* prepareFlowAuthorization
Authorized(run, w) == InItsLineage(run, w) /\ grant[run].bundle = Bundle(w)

\* bindActiveFlowContext: a flow continues the run of the active objective and
\* starts its own where there is none.
Selects(run, w) == IsActive(w) => LatestFlows(w) = {run}

MayAct(flow, w) ==
  /\ Exists(w)
  /\ flow \in Runs => Selects(flow, w) /\ Authorized(flow, w)

\* A pending journal of the clone leaves nothing but its recovery, and an
\* escalated state waits for a human.
IsOpen(w) == pending = Nothing /\ Exists(w) /\ ~StateOf(w).escalated

Bounded(w) == StateOf(w).revision < MaxRevision

Logged(flow, kind, w, to) ==
  IF flow = Operator THEN receipts
  ELSE Append(receipts, [flow |-> flow, kind |-> kind, from |-> Context(w),
                         to |-> to, revision |-> StateOf(w).revision + 1])
Here(past, flow) == IF flow = Operator THEN past ELSE past \cup {Len(receipts) + 1}

CanLog(flow) == flow = Operator \/ Len(receipts) < MaxReceipts

Mixes(flow, run) == mixed' = IF flow = run THEN mixed ELSE mixed \cup {flow, run}

Disturbs(flow) ==
  IF flow = Operator
  THEN disturbances < MaxDisturbances /\ disturbances' = disturbances + 1
  ELSE UNCHANGED disturbances

\* A linked worktree will carry its state back here.
IsParked(w) == \E v \in Trees : StateOf(v).link.tree = w

-----------------------------------------------------------------------------
Init ==
  /\ head = [w \in Trees |-> IF w \in FirstTrees THEN Ref(w) ELSE Nothing]
  /\ state = [w \in Trees |-> Nothing]
  /\ receipts = <<>>
  /\ grant = [r \in Runs |-> Nothing]
  /\ pending = Nothing
  /\ origin = [w \in Trees |-> NoOrigin]
  /\ live = {}
  /\ mixed = {} /\ loose = {}
  /\ disturbances = 0

\* flow authorize, for a run that has no record yet
Authorize(run, w) ==
  /\ Exists(w)
  /\ grant[run] = Nothing
  /\ grant' = [grant EXCEPT ![run] = [context |-> Context(w), bundle |-> Bundle(w)]]
  /\ UNCHANGED <<head, state, receipts, pending, origin, live, mixed, loose, disturbances>>

\* The same after the run itself has changed the configuration: the request is
\* made anew for the context it is made in.
Reproject(run, w) ==
  /\ Exists(w)
  /\ Selects(run, w)
  /\ InItsLineage(run, w)
  /\ grant[run].bundle # Bundle(w)
  /\ ReprojectionAdmits(run, w)
  /\ grant' = [grant EXCEPT ![run] = [context |-> Context(w), bundle |-> Bundle(w)]]
  /\ UNCHANGED <<head, state, receipts, pending, origin, live, mixed, loose, disturbances>>

\* objective.bind: the state forgets the workspace of an earlier delivery.
Bind(run, w) ==
  /\ IsOpen(w)
  /\ ~IsActive(w)
  /\ MayAct(run, w)
  /\ OneAtATime => ~IsParked(w) /\ \A v \in Trees : IsActive(v) => origin[v].run # run
  /\ Bounded(w) /\ CanLog(run)
  /\ receipts' = Logged(run, "bind", w, Nothing)
  /\ state' = [state EXCEPT ![w] =
       [Fresh EXCEPT !.revision = StateOf(w).revision + 1,
                     !.delivery = Delivery(run), !.active = TRUE]]
  /\ origin' = [origin EXCEPT ![w] =
       [run |-> run, ref |-> head[w], past |-> Here(@.past, run)]]
  /\ live' = live \cup {run}
  /\ UNCHANGED <<head, grant, pending, mixed, loose, disturbances>>

\* A transition with a result that others consume, or one that changes the
\* configuration.
Step(run, w, kind) ==
  /\ IsOpen(w)
  /\ IsActive(w)
  /\ MayAct(run, w)
  /\ Bounded(w) /\ CanLog(run)
  /\ receipts' = Logged(run, kind, w, Nothing)
  /\ state' = [state EXCEPT ![w].revision = @ + 1]
  /\ origin' = [origin EXCEPT ![w].past = Here(@, run)]
  /\ UNCHANGED <<head, grant, pending, live, mixed, loose, disturbances>>

\* The objective is reached or abandoned.
Finish(w) ==
  /\ IsOpen(w)
  /\ IsActive(w)
  /\ Bounded(w)
  /\ state' = [state EXCEPT ![w].revision = @ + 1, ![w].active = FALSE]
  /\ live' = live \ {origin[w].run}
  /\ UNCHANGED <<head, receipts, grant, pending, origin, mixed, loose, disturbances>>

-----------------------------------------------------------------------------
(* workspace.cut                                                           *)

\* Mutant: the checkout that a delivery leaves keeps its state.
KeptSource(s, revision) == [s EXCEPT !.revision = revision]

ParkedSource(s, revision) == [Fresh EXCEPT !.revision = revision]

Transferred(s, revision, link) == [s EXCEPT !.revision = revision, !.link = link]

BranchExists(b) ==
  \E w \in Trees : head[w] = b \/ StateOf(w).link.branch = b

CanCut(flow, w, v, b) ==
  /\ IsOpen(w)
  /\ IsActive(w)
  /\ StateOf(w).link = NoLink
  /\ MayAct(flow, w)
  /\ ~Exists(v)
  /\ ~BranchExists(b)
  /\ Bounded(w)

Cutting(flow, w, v, b) ==
  [transition |-> "workspace.cut", flow |-> flow, tree |-> w, to |-> v, branch |-> b,
   run |-> origin[w].run, prior |-> state[w],
   link |-> [branch |-> b, tree |-> w, ref |-> head[w]]]

\* origin of both worktrees once the delivery is in v
Moved(w, v, flow, ref) ==
  [origin EXCEPT
     ![v] = [origin[w] EXCEPT !.ref = ref, !.past = Here(@, flow)],
     ![w].past = Here(@, flow)]

Cut(flow, w, v, b) ==
  /\ CanCut(flow, w, v, b)
  /\ CanLog(flow)
  /\ Disturbs(flow)
  /\ head' = [head EXCEPT ![v] = b]
  /\ LET r == state[w].revision + 1
     IN  state' = [state EXCEPT
           ![w] = ParkedSource(state[w], r),
           ![v] = Transferred(state[w], r, Cutting(flow, w, v, b).link)]
  /\ receipts' = Logged(flow, "advance", w, [tree |-> v, ref |-> b])
  /\ origin' = Moved(w, v, flow, b)
  /\ Mixes(flow, origin[w].run)
  /\ UNCHANGED <<grant, pending, live, loose>>

\* The command that creates the worktree comes first, the state of the
\* destination is installed last; the process stops in between, or before the
\* receipt is committed.
CutStops(flow, w, v, b, done) ==
  /\ CanCut(flow, w, v, b)
  /\ disturbances < MaxDisturbances /\ disturbances' = disturbances + 1
  /\ pending' = Cutting(flow, w, v, b)
  /\ head' = IF done = 0 THEN head ELSE [head EXCEPT ![v] = b]
  /\ LET r == state[w].revision + 1
     IN  state' = [state EXCEPT
           ![w] = IF done < 2 THEN @ ELSE ParkedSource(@, r),
           ![v] = IF done < 3 THEN @ ELSE Transferred(state[w], r, pending'.link)]
  /\ origin' = [origin EXCEPT ![v] = IF done < 3 THEN @ ELSE [origin[w] EXCEPT !.ref = b]]
  /\ mixed' = IF head[w] = origin[w].ref THEN mixed ELSE mixed \cup {origin[w].run}
  /\ UNCHANGED <<receipts, grant, live, loose>>

\* workspace.reconcile, by any flow and from any worktree of the clone: the cut
\* is completed where its worktree was created and undone where it was not.
\* Every state the journal names takes the revision after the one of the
\* worktree that reconciles.
ReconcileCut(flow, u) ==
  LET w == pending.tree
      v == pending.to
      r == StateOf(u).revision + 1
  IN
  /\ pending # Nothing
  /\ pending.transition = "workspace.cut"
  /\ MayAct(flow, u)
  /\ ~StateOf(u).escalated
  /\ Bounded(u) /\ CanLog(flow)
  /\ Disturbs(flow)
  /\ \/ /\ Exists(v)
        /\ head[v] = pending.branch
        /\ state' = [state EXCEPT
             ![w] = ParkedSource(pending.prior, r),
             ![v] = Transferred(pending.prior, r, pending.link)]
        /\ receipts' = Logged(flow, "advance", u, [tree |-> v, ref |-> pending.branch])
        /\ origin' = Moved(w, v, flow, pending.branch)
     \/ /\ ~Exists(v)
        /\ u = w
        /\ state' = [state EXCEPT ![w] = [pending.prior EXCEPT !.revision = r], ![v] = Nothing]
        /\ receipts' = Logged(flow, "advance", u, Context(u))
        /\ origin' = [origin EXCEPT ![w].past = Here(@, flow)]
  /\ IF u = w THEN Mixes(flow, pending.run) ELSE mixed' = mixed \cup {flow, pending.run}
  /\ pending' = Nothing
  /\ UNCHANGED <<head, grant, live, loose>>

-----------------------------------------------------------------------------
(* workspace.cleanup and workspace.reap                                    *)

CanReturn(flow, w) ==
  /\ IsOpen(w)
  /\ StateOf(w).link # NoLink
  /\ MayAct(flow, w)
  /\ flow \in Runs => IsActive(w)
  /\ head[w] = state[w].link.branch
  /\ head[state[w].link.tree] = state[w].link.ref
  /\ Bounded(w)

Returned(s) == [s EXCEPT !.revision = @ + 1, !.link = NoLink]

Return(flow, w) ==
  /\ CanReturn(flow, w)
  /\ CanLog(flow)
  /\ Disturbs(flow)
  /\ LET s == state[w].link.tree
     IN  /\ head' = [head EXCEPT ![w] = Nothing]
         /\ state' = [state EXCEPT ![w] = Nothing, ![s] = Returned(state[w])]
         /\ receipts' = Logged(flow, "advance", w, Context(s))
         /\ origin' = [origin EXCEPT
              ![s] = [origin[w] EXCEPT !.ref = head[s], !.past = Here(@, flow)],
              ![w] = NoOrigin]
  /\ Mixes(flow, origin[w].run)
  /\ loose' = IF flow = origin[w].run THEN loose ELSE loose \cup {Context(w)}
  /\ UNCHANGED <<grant, pending, live>>

\* The worktree goes first, then its state; the state of the source checkout is
\* installed last.
ReturnStops(flow, w, done) ==
  /\ CanReturn(flow, w)
  /\ disturbances < MaxDisturbances /\ disturbances' = disturbances + 1
  /\ pending' = [transition |-> "workspace.cleanup", tree |-> w,
                run |-> origin[w].run]
  /\ head' = IF done = 0 THEN head ELSE [head EXCEPT ![w] = Nothing]
  /\ LET s == state[w].link.tree
     IN  /\ state' = [state EXCEPT
              ![w] = IF done < 2 THEN @ ELSE Nothing,
              ![s] = IF done < 3 THEN @ ELSE Returned(state[w])]
         /\ origin' = [origin EXCEPT
              ![s] = IF done < 3 THEN @ ELSE [origin[w] EXCEPT !.ref = head[s]],
              ![w] = IF done < 2 THEN @ ELSE NoOrigin]
  /\ loose' = IF done = 0 THEN loose ELSE loose \cup {Context(w)}
  /\ mixed' = mixed \cup {origin[w].run}
  /\ UNCHANGED <<receipts, grant, live>>

\* recovery.escalate, from any worktree: the only recovery of a removal
Escalate(flow, u) ==
  /\ pending # Nothing
  /\ MayAct(flow, u)
  /\ Bounded(u)
  /\ state' = [state EXCEPT ![u] =
       [StateOf(u) EXCEPT !.revision = @ + 1, !.escalated = TRUE]]
  /\ pending' = Nothing
  /\ live' = live \ {pending.run}
  /\ UNCHANGED <<head, receipts, grant, origin, mixed, loose, disturbances>>

\* A user checks out another branch in a worktree, or goes back to the first.
Switch(w) ==
  /\ Exists(w)
  /\ w \in FirstTrees \/ StateOf(w).link # NoLink
  /\ disturbances < MaxDisturbances /\ disturbances' = disturbances + 1
  /\ head' = [head EXCEPT ![w] =
       IF @ # Elsewhere THEN Elsewhere
       ELSE IF w \in FirstTrees THEN Ref(w) ELSE StateOf(w).link.branch]
  /\ UNCHANGED <<state, receipts, grant, pending, origin, live, mixed, loose>>

Next ==
  \/ \E r \in Runs, w \in Trees : Authorize(r, w) \/ Reproject(r, w) \/ Bind(r, w)
  \/ \E r \in Runs, w \in Trees, k \in {"output", "configure"} : Step(r, w, k)
  \/ \E w \in Trees : Finish(w) \/ Switch(w)
  \/ \E f \in Flows, w, v \in Trees, b \in Branches :
       Cut(f, w, v, b) \/ \E done \in 0 .. 3 : CutStops(f, w, v, b, done)
  \/ \E f \in Flows, w \in Trees :
       \/ Return(f, w)
       \/ \E done \in 0 .. 3 : ReturnStops(f, w, done)
       \/ pending # Nothing /\ ReconcileCut(f, w)
       \/ Escalate(f, w)

Spec == Init /\ [][Next]_vars

-----------------------------------------------------------------------------
(* What the receipts of a clone have to be good for.                       *)

TypeOK ==
  /\ head \in [Trees -> Refs \cup {Nothing}]
  /\ state \in [Trees -> States \cup {Nothing}]
  /\ receipts \in Seq(Receipts) /\ Len(receipts) <= MaxReceipts
  /\ grant \in [Runs -> Grants \cup {Nothing}]
  /\ pending \in Cuts \cup Removals \cup {Nothing}
  /\ origin \in [Trees -> Origins]
  /\ \A w \in Trees : origin[w].past \subseteq DOMAIN receipts
  /\ live \subseteq Runs
  /\ mixed \subseteq Flows \cup {Nothing}
  /\ loose \subseteq Contexts
  /\ disturbances \in 0 .. MaxDisturbances

Beginnings(run) == {i \in Of(run) : receipts[i].kind = "bind"}
BeganOnce(run) == \A i, j \in Beginnings(run) : i = j

\* The state in w is that of a run whose deliveries nobody else has moved, and
\* that has moved no other's and has begun once, in a worktree that has the ref the
\* run left it with and a context that no delivery was taken out of behind the back
\* of its run.
IsOwn(w) ==
  /\ pending = Nothing
  /\ IsActive(w)
  /\ origin[w].run \in live
  /\ origin[w].run \notin mixed
  /\ BeganOnce(origin[w].run)
  /\ head[w] = origin[w].ref
  /\ Context(w) \notin loose

\* Wherever a run has taken its delivery, and whatever other runs have bound,
\* moved and committed in the clone meanwhile, the committed receipts identify
\* the delivery there as this run's and no other's, as long as no run begins
\* again and none moves or reconciles what is not its own: a cut reconciled from
\* elsewhere takes the revision of a worktree it is not about, and the latest
\* binding is found by revision.
RunsKeepTheirIdentity ==
  (\A run \in Runs : BeganOnce(run) /\ run \notin mixed) =>
    \A w \in Trees : IsOwn(w) => LatestFlows(w) = {origin[w].run}

\* A run that has moved only by its own transitions has the authority it was
\* given wherever its delivery is, and may renew it there after it has changed
\* the configuration: cutting, returning, reconciling and renewing, in any
\* order, never lead it out of its lineage.
RunsStayAuthorized ==
  \A w \in Trees : IsOwn(w) =>
    LET run == origin[w].run
    IN  /\ InItsLineage(run, w)
        /\ Bundle(w) \in Of(run) \ {grant[run].bundle} => ReprojectionAdmits(run, w)

\* What a run consumes is its own latest result among those the state it stands
\* on came from: moving the delivery, and renewing the authority on the way, never
\* leaves a result behind and never brings back an older one.
ResultsAreAncestral ==
  \A w \in Trees : IsOwn(w) =>
    LET run == origin[w].run
    IN  LatestOutput(run, w) =
          Max({i \in origin[w].past \cap Of(run) : receipts[i].kind = "output"} \cup {0})

\* However its transfers are interrupted and recovered, by whom and from which
\* worktree, a delivery is in exactly one worktree until it ends or is escalated:
\* none is lost on the way, and none is active in two worktrees.
DeliveriesAreKept ==
  LET Holders(run) == {w \in Trees : IsActive(w) /\ origin[w].run = run}
  IN  pending = Nothing => \A run \in live : Cardinality(Holders(run)) = 1
===============================================================================
