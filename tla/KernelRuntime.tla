---------------------------- MODULE KernelRuntime ----------------------------
(***************************************************************************)
(* The domain-neutral supervisory runtime (boatstack/kernel/runtime.go):   *)
(* several processes resolve and apply prescriptions against one durable   *)
(* control instance.                                                       *)
(*                                                                         *)
(* Resolve reads the store and the domain with no lock held.  Apply runs   *)
(* under the instance lock and is split at its port calls: acquire, load,  *)
(* observe and check freshness, resolve again, begin the attempt durably,  *)
(* run the operator, observe and verify, commit.  Between two of these     *)
(* steps time passes, the domain may be changed from outside, any other    *)
(* process may take a step, and the process itself may stop.               *)
(***************************************************************************)
EXTENDS KernelProgram, Sequences

CONSTANTS
  Clients,          \* processes holding a Runtime
  Outdated,         \* clients whose program is not the instance's program
  Persistent,       \* clients whose host keeps supervising (liveness only)
  NoClient,         \* the free lock
  Requests,         \* the ResolveRequests the clients make
  Receipts,         \* authority receipts that exist
  Grants,           \* [Receipts -> SUBSET Capabilities]
  IssuedAt,         \* [Receipts -> Nat]
  ExpiresAt,        \* [Receipts -> Nat]
  Worlds,           \* domain states, as Observe fingerprints them
  InitialWorld,
  Admits,           \* [Transitions -> SUBSET Worlds]: Domain.Admissible
  EffectOf,         \* [Transitions -> [Worlds -> Worlds]]: Operator.Execute
  Verified,         \* [Transitions -> SUBSET (Worlds \X Worlds)]: Verify
  MaxRevision,      \* bound: ordinary attempts stop at this revision
  MaxNow,           \* bound on the clock
  MaxFaults,        \* bound on crashes and port failures
  MaxDrifts         \* bound on outside changes of the domain

ASSUME ClientsAreTyped ==
  /\ NoClient \notin Clients
  /\ Outdated \subseteq Clients
  /\ Persistent \subseteq Clients \ Outdated

ASSUME RequestsAreTyped ==
  Requests \subseteq [requested : Transitions \cup {NoTransition},
                      objective : Objectives \cup {NoObjective},
                      authority : SUBSET Receipts]

ASSUME AuthorityIsTyped ==
  /\ Grants \in [Receipts -> SUBSET Capabilities]
  /\ IssuedAt \in [Receipts -> Nat]
  /\ ExpiresAt \in [Receipts -> Nat]

ASSUME DomainIsTyped ==
  /\ InitialWorld \in Worlds
  /\ Admits \in [Transitions -> SUBSET Worlds]
  /\ EffectOf \in [Transitions -> [Worlds -> Worlds]]
  /\ Verified \in [Transitions -> SUBSET (Worlds \X Worlds)]

ASSUME BoundsAreNatural ==
  /\ MaxRevision \in Nat /\ MaxNow \in Nat
  /\ MaxFaults \in Nat /\ MaxDrifts \in Nat

VARIABLES
  control,    \* the durable ControlState
  receipts,   \* the receipts CommitTransition stored with it, in order
  attempts,   \* history: the prescription of every BeginEffect, in order
  world,      \* the domain
  now,        \* the clock
  lock,       \* holder of the instance lock, or NoClient
  pc,         \* where each client is
  request,    \* its current request
  held,       \* the prescription it was last given, kept across crashes
  loaded,     \* the control state it last loaded
  seen,       \* the domain it last observed
  result,     \* the domain it verified
  faults, drifts

durable == <<control, receipts, attempts>>
local   == <<request, held, loaded, seen, result>>
bounds  == <<faults, drifts>>
vars    == <<durable, world, now, lock, pc, local, bounds>>

Revisions == Nat \ {0}

Prescriptions ==
  [transition : Transitions \cup {NoTransition}, revision : Nat,
   world : Worlds, binding : Objectives \cup {NoObjective},
   requested : Objectives \cup {NoObjective}, authority : SUBSET Receipts]

NoPrescription ==
  [transition |-> NoTransition, revision |-> 0, world |-> InitialWorld,
   binding |-> NoObjective, requested |-> NoObjective, authority |-> {}]

NoRequest ==
  [requested |-> NoTransition, objective |-> NoObjective, authority |-> {}]

InitialControl ==
  [mode |-> InitialMode, revision |-> 1, binding |-> NoObjective,
   recovery |-> NoPrescription]

Recovering(s) == s.recovery.transition # NoTransition

-----------------------------------------------------------------------------
(***************************************************************************)
(* Authority.                                                              *)
(***************************************************************************)
\* One invalid receipt fails the whole projection.
AuthorityIsValid(authority, time) ==
  \A a \in authority : IssuedAt[a] <= time /\ time < ExpiresAt[a]

Available(authority) == UNION {Grants[a] : a \in authority}

(***************************************************************************)
(* The decision.                                                           *)
(***************************************************************************)
\* Mutant: the domain judges a recovery as it judges an ordinary transition.
DomainAdmitsAsUsual(t, s, w) == w \in Admits[t]

\* The domain's contract: a declared recovery stays admissible while the
\* recovery it answers is active, whatever the domain looks like by then.
DomainAdmits(t, s, w) == Recovering(s) \/ w \in Admits[t]

Admissible(t, s, w, r) ==
  /\ r.requested \in {NoTransition, t}
  /\ s.mode \in SourceModes[t]
  /\ RecoveryAllows(t, s.recovery.transition)
  /\ ObjectiveAllows(t, s.binding, r.objective)
  /\ DomainAdmits(t, s, w)

CandidatesFor(s, w, r) ==
  {Candidate(t, 0, Priority[t], TRUE, Required[t], {}) :
     t \in {u \in Transitions : Admissible(u, s, w, r)}}

\* Mutant: the instance's program is not compared with the runtime's.
DecideForAnyProgram(c, s, w, r, time) ==
  IF s.mode \in MarkedModes /\ ~Recovering(s) /\ r.requested = NoTransition
    THEN Decision("MARKED", NoTransition, {})
    ELSE IF ~AuthorityIsValid(r.authority, time)
      THEN Decision("REFUSED", NoTransition, {})
      ELSE Relate([requested  |-> r.requested, marked |-> FALSE,
                   noCandidate |-> "", candidates |-> CandidatesFor(s, w, r),
                   available  |-> Available(r.authority)])

\* Marked is recognised before authority is even projected.
Decide(c, s, w, r, time) ==
  IF c \in Outdated
    THEN Decision("UNRESOLVED", NoTransition, {})
    ELSE DecideForAnyProgram(c, s, w, r, time)

\* A prescription is named by its content.
Prescribe(t, s, w, r) ==
  [transition |-> t, revision |-> s.revision, world |-> w,
   binding |-> s.binding, authority |-> r.authority,
   requested |-> IF Mutation[t] = "bind" THEN r.objective ELSE NoObjective]

IsCurrent(p, s, w, r) ==
  /\ p.revision = s.revision
  /\ p.world = w
  /\ p.binding = s.binding
  /\ p.authority = r.authority

-----------------------------------------------------------------------------
(***************************************************************************)
(* The two durable states an Apply writes.                                 *)
(***************************************************************************)
\* Mutant: every attempt records its own prescription.
AttemptForgettingTheFirst(s, p) ==
  [s EXCEPT !.revision = @ + 1, !.recovery = p]

\* Mutant: the attempt keeps the revision it found.
AttemptAtTheSameRevision(s, p) ==
  [s EXCEPT !.recovery = IF Recovering(s) THEN @ ELSE p]

\* The attempt records its own prescription, or keeps the older obligation.
Attempt(s, p) ==
  [mode     |-> s.mode,
   revision |-> s.revision + 1,
   binding  |-> s.binding,
   recovery |-> IF Recovering(s) THEN s.recovery ELSE p]

\* Mutant: only a binding transition leaves a binding behind.
TargetBindingOnlyBound(p, binding) ==
  IF Mutation[p.transition] = "bind" THEN p.requested ELSE NoObjective

TargetBinding(p, binding) ==
  CASE Mutation[p.transition] = "bind"  -> p.requested
    [] Mutation[p.transition] = "clear" -> NoObjective
    [] OTHER -> binding

Target(attempt, p) ==
  [mode     |-> TargetMode[p.transition],
   revision |-> attempt.revision + 1,
   binding  |-> TargetBinding(p, attempt.binding),
   recovery |-> NoPrescription]

ReceiptFor(s, p, after) ==
  [prescription |-> p, prior |-> s.revision, attempt |-> s.revision + 1,
   result |-> s.revision + 2, mode |-> TargetMode[p.transition],
   before |-> p.world, after |-> after]

-----------------------------------------------------------------------------
Init ==
  /\ control = InitialControl
  /\ receipts = <<>>
  /\ attempts = <<>>
  /\ world = InitialWorld
  /\ now = 0
  /\ lock = NoClient
  /\ pc = [c \in Clients |-> "idle"]
  /\ request = [c \in Clients |-> NoRequest]
  /\ held = [c \in Clients |-> NoPrescription]
  /\ loaded = [c \in Clients |-> InitialControl]
  /\ seen = [c \in Clients |-> InitialWorld]
  /\ result = [c \in Clients |-> InitialWorld]
  /\ faults = 0
  /\ drifts = 0

Goto(c, place) == pc' = [pc EXCEPT ![c] = place]

\* Every return runs the deferred Unlock and drops what the call had read.
Return(c) ==
  /\ Goto(c, "idle")
  /\ lock' = IF lock = c THEN NoClient ELSE lock
  /\ request' = [request EXCEPT ![c] = NoRequest]
  /\ loaded' = [loaded EXCEPT ![c] = InitialControl]
  /\ seen' = [seen EXCEPT ![c] = InitialWorld]
  /\ result' = [result EXCEPT ![c] = InitialWorld]

(***************************************************************************)
(* Resolve.                                                                *)
(***************************************************************************)
ResolveLoad(c, r) ==
  /\ pc[c] = "idle"
  /\ request' = [request EXCEPT ![c] = r]
  /\ loaded' = [loaded EXCEPT ![c] = control]
  /\ Goto(c, "resolving")
  /\ UNCHANGED <<durable, world, now, lock, held, seen, result, bounds>>

ResolveObserve(c) ==
  /\ pc[c] = "resolving"
  /\ LET d == Decide(c, loaded[c], world, request[c], now) IN
       held' = IF d.kind = "PRESCRIBED"
                 THEN [held EXCEPT ![c] =
                         Prescribe(d.transition, loaded[c], world, request[c])]
                 ELSE held
  /\ Return(c)
  /\ UNCHANGED <<durable, world, now, bounds>>

\* A prescription is plain data: whoever is given it may present it.  A
\* persistent host presents only what it resolved itself.
HandOver(c, d) ==
  /\ pc[c] = "idle"
  /\ c \notin Persistent
  /\ held[d] # held[c]
  /\ held' = [held EXCEPT ![c] = held[d]]
  /\ UNCHANGED <<durable, world, now, lock, pc, request, loaded, seen, result,
                 bounds>>

(***************************************************************************)
(* Apply.                                                                  *)
(***************************************************************************)
\* The host calls Apply with the prescription it holds, and waits.
Submit(c, r) ==
  /\ pc[c] = "idle"
  /\ held[c].transition # NoTransition
  /\ request' = [request EXCEPT ![c] = r]
  /\ Goto(c, "waiting")
  /\ UNCHANGED <<durable, world, now, lock, held, loaded, seen, result, bounds>>

\* Mutant: the lock is granted to whoever asks.
AcquireAlways(c) ==
  /\ pc[c] = "waiting"
  /\ lock' = c
  /\ Goto(c, "locked")
  /\ UNCHANGED <<durable, world, now, local, bounds>>

Acquire(c) ==
  /\ pc[c] = "waiting"
  /\ lock = NoClient
  /\ lock' = c
  /\ Goto(c, "locked")
  /\ UNCHANGED <<durable, world, now, local, bounds>>

Load(c) ==
  /\ pc[c] = "locked"
  /\ loaded' = [loaded EXCEPT ![c] = control]
  /\ Goto(c, "loaded")
  /\ UNCHANGED <<durable, world, now, lock, request, held, seen, result, bounds>>

\* Observe, project the authority, and compare the complete binding.
ValidateCurrent(c) ==
  /\ pc[c] = "loaded"
  /\ IF /\ AuthorityIsValid(request[c].authority, now)
        /\ IsCurrent(held[c], loaded[c], world, request[c])
       THEN /\ seen' = [seen EXCEPT ![c] = world]
            /\ Goto(c, "current")
            /\ UNCHANGED <<lock, request, loaded, result>>
       ELSE Return(c)
  /\ UNCHANGED <<durable, world, now, held, bounds>>

\* Ordinary attempts stop at MaxRevision; a recovery has room for as many
\* attempts as faults and drifts can spoil.
WithinBound(s) ==
  s.revision < IF Recovering(s) THEN MaxRevision + MaxFaults + MaxDrifts + 1
                                ELSE MaxRevision

\* The same relation again, on the state and observation just read, and the
\* prescription it gives must be the one the caller presented.
ResolveLocked(c) ==
  /\ pc[c] = "current"
  /\ LET d == Decide(c, loaded[c], seen[c], request[c], now) IN
       IF /\ d.kind = "PRESCRIBED"
          /\ WithinBound(loaded[c])
          /\ Prescribe(d.transition, loaded[c], seen[c], request[c]) = held[c]
         THEN Goto(c, "prescribed") /\ UNCHANGED <<lock, request, loaded, seen, result>>
         ELSE Return(c)
  /\ UNCHANGED <<durable, world, now, held, bounds>>

\* The store compares the revision and swaps.
BeginEffect(c) ==
  /\ pc[c] = "prescribed"
  /\ control.revision = loaded[c].revision
  /\ control' = Attempt(loaded[c], held[c])
  /\ attempts' = Append(attempts, held[c])
  /\ Goto(c, "executing")
  /\ UNCHANGED <<receipts, world, now, lock, local, bounds>>

Execute(c) ==
  /\ pc[c] = "executing"
  /\ world' = EffectOf[held[c].transition][world]
  /\ Goto(c, "effected")
  /\ UNCHANGED <<durable, now, lock, local, bounds>>

\* The operator reports facts for an effect it did not produce.
ExecuteNothing(c) ==
  /\ pc[c] = "executing"
  /\ faults < MaxFaults
  /\ faults' = faults + 1
  /\ Goto(c, "effected")
  /\ UNCHANGED <<durable, world, now, lock, local, drifts>>

\* The operator fails, or its facts are refused: the effect may have happened.
ExecuteFails(c) ==
  /\ pc[c] = "executing"
  /\ faults < MaxFaults
  /\ faults' = faults + 1
  /\ world' \in {world, EffectOf[held[c].transition][world]}
  /\ Return(c)
  /\ UNCHANGED <<durable, now, held, drifts>>

VerifyTarget(c) ==
  /\ pc[c] = "effected"
  /\ IF <<seen[c], world>> \in Verified[held[c].transition]
       THEN /\ result' = [result EXCEPT ![c] = world]
            /\ Goto(c, "verified")
            /\ UNCHANGED <<lock, request, loaded, seen>>
       ELSE Return(c)
  /\ UNCHANGED <<durable, world, now, held, bounds>>

\* State and receipt become visible together, if the attempt is still there.
Commit(c) ==
  /\ pc[c] = "verified"
  /\ control.revision = loaded[c].revision + 1
  /\ control' = Target(Attempt(loaded[c], held[c]), held[c])
  /\ receipts' = Append(receipts, ReceiptFor(loaded[c], held[c], result[c]))
  /\ Return(c)
  /\ UNCHANGED <<attempts, world, now, held, bounds>>

-----------------------------------------------------------------------------
(***************************************************************************)
(* The environment.                                                        *)
(***************************************************************************)
\* The process stops, or a port (lock, store, domain) returns an error: both
\* end the call at once and free the lock.  A store that persists and then
\* fails to report it is a persisted step followed by this one.
Stop(c) ==
  /\ pc[c] # "idle"
  /\ faults < MaxFaults
  /\ faults' = faults + 1
  /\ Return(c)
  /\ UNCHANGED <<durable, world, now, held, drifts>>

Drift ==
  /\ drifts < MaxDrifts
  /\ drifts' = drifts + 1
  /\ world' \in Worlds \ {world}
  /\ UNCHANGED <<durable, now, lock, pc, local, faults>>

Tick ==
  /\ now < MaxNow
  /\ now' = now + 1
  /\ UNCHANGED <<durable, world, lock, pc, local, bounds>>

Next ==
  \/ \E c \in Clients :
       \/ \E r \in Requests : ResolveLoad(c, r) \/ Submit(c, r)
       \/ \E d \in Clients : HandOver(c, d)
       \/ ResolveObserve(c)
       \/ Acquire(c)
       \/ Load(c)
       \/ ValidateCurrent(c)
       \/ ResolveLocked(c)
       \/ BeginEffect(c)
       \/ Execute(c)
       \/ ExecuteNothing(c)
       \/ ExecuteFails(c)
       \/ VerifyTarget(c)
       \/ Commit(c)
       \/ Stop(c)
  \/ Drift
  \/ Tick

Spec == Init /\ [][Next]_vars

\* A call that was started goes on to its return: nothing in Apply waits
\* except for the lock.
Progress(c) ==
  \/ ResolveObserve(c) \/ Load(c) \/ ValidateCurrent(c) \/ ResolveLocked(c)
  \/ BeginEffect(c) \/ Execute(c) \/ VerifyTarget(c) \/ Commit(c)

\* The host of a persistent client resolves again and again and applies what
\* it is given; other clients come and go as they like.  The lock is granted to a caller that keeps asking.
Fairness ==
  /\ \A c \in Clients : WF_vars(Progress(c))
  /\ \A c \in Persistent, r \in Requests :
       SF_vars(ResolveLoad(c, r)) /\ SF_vars(Submit(c, r))
  /\ \A c \in Persistent : SF_vars(Acquire(c))

FairSpec == Spec /\ Fairness

-----------------------------------------------------------------------------
(***************************************************************************)
(* Properties.                                                             *)
(***************************************************************************)
ControlStates ==
  [mode : Modes, revision : Revisions,
   binding : Objectives \cup {NoObjective}, recovery : Prescriptions]

Places == {"idle", "resolving", "waiting", "locked", "loaded", "current", "prescribed",
           "executing", "effected", "verified"}

ReceiptRecords ==
  [prescription : Prescriptions, prior : Revisions, attempt : Revisions,
   result : Revisions, mode : Modes, before : Worlds, after : Worlds]

TypeOK ==
  /\ control \in ControlStates
  /\ receipts \in Seq(ReceiptRecords)
  /\ attempts \in Seq(Prescriptions)
  /\ world \in Worlds
  /\ now \in Nat
  /\ lock \in Clients \cup {NoClient}
  /\ pc \in [Clients -> Places]
  /\ request \in [Clients -> Requests \cup {NoRequest}]
  /\ held \in [Clients -> Prescriptions]
  /\ loaded \in [Clients -> ControlStates]
  /\ seen \in [Clients -> Worlds]
  /\ result \in [Clients -> Worlds]
  /\ faults \in Nat /\ drifts \in Nat

\* The runtime implements the abstract instance: mode and binding are the
\* durable ones, and the outstanding transition is the one the durable
\* recovery names.
Supervised == INSTANCE SupervisedInstance WITH
  mode        <- control.mode,
  binding     <- control.binding,
  outstanding <- control.recovery.transition

\* Every behaviour of clients, lock, store and failures is, for the instance,
\* a sequence of begins, settlements and declared recoveries and nothing else
\* (kernel.md "Enforced properties" 6, 7, 9 and 11, for the code of Apply).
ImplementsSupervised == Supervised!Spec

\* While an operator may be changing the domain the durable state says so: it
\* is the attempt written from this client's own snapshot, exactly one
\* revision on, with a recovery obligation a restarted process will find.  No
\* second operator runs at the same time (runtime.go L71-79, L359-420).
Effecting(c) == pc[c] \in {"executing", "effected", "verified"}

EffectIsUnderDurableAttempt ==
  \A c \in Clients :
    Effecting(c) =>
      /\ control = Attempt(loaded[c], held[c])
      /\ Recovering(control)
      /\ \A d \in Clients : Effecting(d) => d = c

\* An interrupted instance is never stranded.  Whatever mode it stopped in,
\* whatever the domain looks like now and whatever objective the caller
\* supplies, the program has a transition the runtime accepts as a candidate,
\* so only authority stands between the instance and its recovery.  This is
\* what program.go L152-178 compiles for and what it takes the attempt, which
\* keeps the mode and the first obligation, to preserve.
NoStrandedRecovery ==
  Recovering(control) =>
    \A w \in Worlds, o \in Objectives \cup {NoObjective} :
      \E t \in Transitions :
        Admissible(t, control, w,
                   [requested |-> NoTransition, objective |-> o, authority |-> {}])

\* A prescription is spent by its first attempt.  However often it is
\* presented again, by its owner after a crash or by two clients at once, it
\* begins an effect at most once (conformance.go L455 checks one pair).
PrescriptionsAreSpent ==
  \A i, j \in DOMAIN attempts :
    i < j => attempts[i].revision < attempts[j].revision

\* The receipts account for the durable state: they form one chain of
\* disjoint revision intervals, each for an attempt that was begun, and when
\* no recovery is owed the state is the one the last receipt names.
ReceiptsAccountForState ==
  /\ \A i \in DOMAIN receipts :
       /\ receipts[i].prior = receipts[i].prescription.revision
       /\ \E j \in DOMAIN attempts : attempts[j] = receipts[i].prescription
       /\ \A j \in DOMAIN receipts :
            i < j => receipts[i].result <= receipts[j].prior
  /\ control.revision = 1 + Len(attempts) + Len(receipts)
  /\ ~Recovering(control) =>
       IF receipts = <<>> THEN control.revision = 1
         ELSE /\ control.revision = receipts[Len(receipts)].result
              /\ control.mode = receipts[Len(receipts)].mode

\* A runtime compiled from another program than the instance's never gets as
\* far as a durable attempt, even with a prescription that a current runtime
\* issued: the prescription carries the instance's program, so only the
\* second resolve can refuse it (runtime.go L216, L380-386).
OutdatedRuntimesStandDown == \A c \in Outdated : ~Effecting(c)

\* Nothing runs beyond its authority: every attempt ever begun was covered by
\* the capabilities of the receipts its prescription names.
AttemptsAreAuthorized ==
  \A i \in DOMAIN attempts :
    Required[attempts[i].transition] \subseteq Available(attempts[i].authority)

\* A recovery obligation is discharged, never replaced: while one is owed it
\* keeps the prescription that was interrupted first, through any number of
\* failed recoveries, and it disappears only with a receipt, either of that
\* very prescription or of a transition that recovers it.
ObligationIsDischarged ==
  [][Recovering(control) /\ control'.recovery # control.recovery =>
       /\ ~Recovering(control')
       /\ Len(receipts') = Len(receipts) + 1
       /\ LET p == receipts'[Len(receipts')].prescription IN
            \/ p = control.recovery
            \/ control.recovery.transition \in Recovers[p.transition]]_vars
=============================================================================
