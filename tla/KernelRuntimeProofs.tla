------------------------- MODULE KernelRuntimeProofs -------------------------
(***************************************************************************)
(* Proofs about the kernel runtime, for every prepared program, domain,    *)
(* set of clients and requests, and without the bounds of the runs.        *)
(***************************************************************************)
EXTENDS KernelRuntime, TLAPS

Requested == Requests \cup {NoRequest}

\* A prescription names the one preferred candidate, and its authority is
\* complete: what Apply relies on when it runs the transition it was given.
LEMMA PrescribedIsPreferred ==
  ASSUME NEW i, NoCandidateKind(i) # "PRESCRIBED", Relate(i).kind = "PRESCRIBED"
  PROVE  \E top \in Considered(i) :
           /\ Preferred(i) = {top}
           /\ Relate(i) = Decision("PRESCRIBED", top.id, {})
           /\ MissingAuthority(top, i.available) = {}
<1> DEFINE top == CHOOSE c \in Considered(i) : Preferred(i) = {c}
<1>1. \E c \in Considered(i) : Preferred(i) = {c}
  BY DEF Relate, Decision
<1>2. top \in Considered(i) /\ Preferred(i) = {top}
  BY <1>1
<1>3. /\ Relate(i) = Decision("PRESCRIBED", top.id, {})
      /\ MissingAuthority(top, i.available) = {}
  BY <1>1 DEF Relate, Decision
<1> QED BY <1>2, <1>3

LEMMA RequestsHaveFields ==
  ASSUME NEW r \in Requested
  PROVE  /\ r.requested \in Transitions \cup {NoTransition}
         /\ r.objective \in Objectives \cup {NoObjective}
         /\ r.authority \in SUBSET Receipts
BY RequestsAreTyped DEF Requested, NoRequest

LEMMA InitialValuesAreTyped ==
  /\ NoPrescription \in Prescriptions
  /\ InitialControl \in ControlStates
BY TransitionsAreTyped, DomainIsTyped
   DEF NoPrescription, Prescriptions, InitialControl, ControlStates, Revisions

\* What Resolve and Apply learn from a prescribing decision.
LEMMA PrescribedIsAdmissible ==
  ASSUME NEW c, NEW s, NEW w, NEW r, NEW time,
         Decide(c, s, w, r, time).kind = "PRESCRIBED"
  PROVE  /\ Decide(c, s, w, r, time).transition \in Transitions
         /\ Admissible(Decide(c, s, w, r, time).transition, s, w, r)
         /\ Required[Decide(c, s, w, r, time).transition]
              \subseteq Available(r.authority)
         /\ c \notin Outdated
<1> DEFINE i == [requested  |-> r.requested, marked |-> FALSE,
                 noCandidate |-> "", candidates |-> CandidatesFor(s, w, r),
                 available  |-> Available(r.authority)]
<1>1. i.candidates = CandidatesFor(s, w, r) /\ i.available = Available(r.authority)
  OBVIOUS
<1>2. NoCandidateKind(i) # "PRESCRIBED"
  BY DEF NoCandidateKind
<1>3. c \notin Outdated /\ Decide(c, s, w, r, time) = DecideForAnyProgram(c, s, w, r, time)
  BY DEF Decide, Decision
<1>4. DecideForAnyProgram(c, s, w, r, time) = Relate(i)
  <2>1. DecideForAnyProgram(c, s, w, r, time).kind = "PRESCRIBED"
    BY <1>3
  <2> QED BY <2>1 DEF DecideForAnyProgram, Decision
<1> HIDE DEF i
<1>5. PICK top \in Considered(i) :
         /\ Relate(i) = Decision("PRESCRIBED", top.id, {})
         /\ MissingAuthority(top, i.available) = {}
  BY <1>2, <1>3, <1>4, PrescribedIsPreferred
<1>6. top \in CandidatesFor(s, w, r)
  BY <1>1 DEF Considered
<1>7. PICK t \in Transitions :
         /\ Admissible(t, s, w, r)
         /\ top = Candidate(t, 0, Priority[t], TRUE, Required[t], {})
  BY <1>6 DEF CandidatesFor
<1>8. top.id = t /\ top.all = Required[t]
  BY <1>7 DEF Candidate
<1>9. Decide(c, s, w, r, time).transition = t
  BY <1>3, <1>4, <1>5, <1>8 DEF Decision
<1>10. Required[t] \subseteq Available(r.authority)
  BY <1>1, <1>5, <1>8 DEF MissingAuthority
<1> QED BY <1>3, <1>7, <1>9, <1>10

-----------------------------------------------------------------------------
(***************************************************************************)
(* Types.                                                                  *)
(***************************************************************************)
LEMMA PrescriptionIsTyped ==
  ASSUME NEW t \in Transitions, NEW s \in ControlStates, NEW w \in Worlds,
         NEW r \in Requested
  PROVE  Prescribe(t, s, w, r) \in Prescriptions
<1>1. r.objective \in Objectives \cup {NoObjective} /\ r.authority \in SUBSET Receipts
  BY RequestsHaveFields
<1> QED BY <1>1 DEF Prescribe, Prescriptions, ControlStates, Revisions

LEMMA AttemptIsTyped ==
  ASSUME NEW s \in ControlStates, NEW p \in Prescriptions
  PROVE  Attempt(s, p) \in ControlStates
<1>1. (IF Recovering(s) THEN s.recovery ELSE p) \in Prescriptions
  BY DEF ControlStates
<1> QED BY <1>1 DEF Attempt, ControlStates, Revisions

LEMMA TargetIsTyped ==
  ASSUME NEW a \in ControlStates, NEW p \in Prescriptions,
         p.transition \in Transitions
  PROVE  Target(a, p) \in ControlStates
<1>1. TargetBinding(p, a.binding) \in Objectives \cup {NoObjective}
  BY DEF TargetBinding, Prescriptions, ControlStates
<1>2. TargetMode[p.transition] \in Modes /\ a.revision + 1 \in Revisions
  BY TransitionsAreTyped DEF ControlStates, Revisions
<1> QED BY <1>1, <1>2, InitialValuesAreTyped DEF Target, ControlStates

LEMMA ReceiptIsTyped ==
  ASSUME NEW s \in ControlStates, NEW p \in Prescriptions, NEW w \in Worlds,
         p.transition \in Transitions
  PROVE  ReceiptFor(s, p, w) \in ReceiptRecords
<1>1. /\ TargetMode[p.transition] \in Modes /\ p.world \in Worlds
      /\ s.revision \in Revisions /\ s.revision + 1 \in Revisions
      /\ s.revision + 2 \in Revisions
  BY TransitionsAreTyped DEF ControlStates, Revisions, Prescriptions
<1> QED BY <1>1 DEF ReceiptFor, ReceiptRecords

\* The types of what a return leaves behind.
LEMMA ReturnIsTyped ==
  ASSUME TypeOK, NEW c \in Clients, Return(c)
  PROVE  /\ lock' \in Clients \cup {NoClient}
         /\ pc' \in [Clients -> Places]
         /\ request' \in [Clients -> Requested]
         /\ loaded' \in [Clients -> ControlStates]
         /\ seen' \in [Clients -> Worlds]
         /\ result' \in [Clients -> Worlds]
BY InitialValuesAreTyped, DomainIsTyped
   DEF TypeOK, Return, Goto, Places, Requested

\* What a submitted prescription prescribes is a transition of the program.
Submitted(c) == pc[c] \notin {"idle", "resolving"}

HeldIsReal == \A c \in Clients : Submitted(c) => held[c].transition \in Transitions

TypeInv == TypeOK /\ HeldIsReal

LEMMA TypeInvHolds == Spec => []TypeInv
<1>1. Init => TypeInv
  BY InitialValuesAreTyped, DomainIsTyped
     DEF Init, TypeInv, TypeOK, HeldIsReal, Submitted, Places
<1>2. TypeInv /\ [Next]_vars => TypeInv'
  <2> SUFFICES ASSUME TypeInv, [Next]_vars PROVE TypeInv'
    OBVIOUS
  <2> USE DEF TypeInv, HeldIsReal, Submitted, durable, local, bounds
  <2>1. ASSUME NEW c \in Clients, NEW r \in Requests, ResolveLoad(c, r)
        PROVE  TypeInv'
    BY <2>1 DEF ResolveLoad, Goto, TypeOK, Places
  <2>2. ASSUME NEW c \in Clients, NEW r \in Requests, Submit(c, r)
        PROVE  TypeInv'
    <3>1. held[c].transition \in Transitions
      BY <2>2 DEF Submit, TypeOK, Prescriptions
    <3> QED BY <2>2, <3>1 DEF Submit, Goto, TypeOK, Places
  <2>3. ASSUME NEW c \in Clients, NEW d \in Clients, HandOver(c, d)
        PROVE  TypeInv'
    BY <2>3 DEF HandOver, TypeOK
  <2>4. ASSUME NEW c \in Clients, ResolveObserve(c)
        PROVE  TypeInv'
    <3> DEFINE d == Decide(c, loaded[c], world, request[c], now)
               p == Prescribe(d.transition, loaded[c], world, request[c])
    <3>1. d.kind = "PRESCRIBED" => p \in Prescriptions
      BY PrescribedIsAdmissible, PrescriptionIsTyped DEF TypeOK, Requested
    <3>2. held' \in [Clients -> Prescriptions]
      BY <2>4, <3>1 DEF ResolveObserve, TypeOK
    <3>3. \A e \in Clients \ {c} : held'[e] = held[e] /\ pc'[e] = pc[e]
      BY <2>4 DEF ResolveObserve, Return, Goto, TypeOK
    <3>4. pc'[c] = "idle"
      BY <2>4 DEF ResolveObserve, Return, Goto, TypeOK
    <3> QED BY <2>4, <3>2, <3>3, <3>4, ReturnIsTyped
            DEF ResolveObserve, TypeOK, Requested
  <2>5. ASSUME NEW c \in Clients, Acquire(c)
        PROVE  TypeInv'
    BY <2>5 DEF Acquire, Goto, TypeOK, Places
  <2>6. ASSUME NEW c \in Clients, Load(c)
        PROVE  TypeInv'
    BY <2>6 DEF Load, Goto, TypeOK, Places
  <2>7. ASSUME NEW c \in Clients, Return(c), held' = held, durable' = durable,
               world' \in Worlds, now' = now, faults' \in Nat, drifts' \in Nat
        PROVE  TypeInv'
    <3>1. HeldIsReal'
      BY <2>7 DEF Return, Goto, TypeOK
    <3>2. TypeOK'
      BY <2>7, ReturnIsTyped DEF TypeOK, Requested
    <3> QED BY <3>1, <3>2
  <2>8. ASSUME NEW c \in Clients, ValidateCurrent(c)
        PROVE  TypeInv'
    <3>1. CASE Return(c)
      BY <2>7, <2>8, <3>1 DEF ValidateCurrent, TypeOK
    <3>2. CASE ~Return(c)
      BY <2>8, <3>2 DEF ValidateCurrent, Goto, TypeOK, Places
    <3> QED BY <3>1, <3>2
  <2>9. ASSUME NEW c \in Clients, ResolveLocked(c)
        PROVE  TypeInv'
    <3>1. CASE Return(c)
      BY <2>7, <2>9, <3>1 DEF ResolveLocked, TypeOK
    <3>2. CASE ~Return(c)
      BY <2>9, <3>2 DEF ResolveLocked, Goto, TypeOK, Places
    <3> QED BY <3>1, <3>2
  <2>10. ASSUME NEW c \in Clients, BeginEffect(c)
         PROVE  TypeInv'
    BY <2>10, AttemptIsTyped DEF BeginEffect, Goto, TypeOK, Places
  <2>11. ASSUME NEW c \in Clients, Execute(c)
         PROVE  TypeInv'
    BY <2>11, DomainIsTyped DEF Execute, Goto, TypeOK, Places
  <2>12. ASSUME NEW c \in Clients, ExecuteNothing(c)
         PROVE  TypeInv'
    BY <2>12 DEF ExecuteNothing, Goto, TypeOK, Places
  <2>13. ASSUME NEW c \in Clients, ExecuteFails(c)
         PROVE  TypeInv'
    <3>1. world' \in Worlds
      BY <2>13, DomainIsTyped DEF ExecuteFails, TypeOK
    <3> QED BY <2>7, <2>13, <3>1 DEF ExecuteFails, TypeOK
  <2>14. ASSUME NEW c \in Clients, VerifyTarget(c)
         PROVE  TypeInv'
    <3>1. CASE Return(c)
      BY <2>7, <2>14, <3>1 DEF VerifyTarget, TypeOK
    <3>2. CASE ~Return(c)
      BY <2>14, <3>2 DEF VerifyTarget, Goto, TypeOK, Places
    <3> QED BY <3>1, <3>2
  <2>15. ASSUME NEW c \in Clients, Commit(c)
         PROVE  TypeInv'
    <3>1. /\ held[c] \in Prescriptions /\ held[c].transition \in Transitions
          /\ loaded[c] \in ControlStates /\ result[c] \in Worlds
      BY <2>15 DEF Commit, TypeOK
    <3>2. control' \in ControlStates
      BY <2>15, <3>1, AttemptIsTyped, TargetIsTyped DEF Commit
    <3>3. receipts' \in Seq(ReceiptRecords)
      BY <2>15, <3>1, ReceiptIsTyped DEF Commit, TypeOK
    <3>4. HeldIsReal'
      BY <2>15 DEF Commit, Return, Goto, TypeOK
    <3> QED BY <2>15, <3>2, <3>3, <3>4, ReturnIsTyped DEF Commit, TypeOK, Requested
  <2>16. ASSUME NEW c \in Clients, Stop(c)
         PROVE  TypeInv'
    BY <2>7, <2>16 DEF Stop, TypeOK
  <2>17. CASE Drift
    BY <2>17 DEF Drift, TypeOK
  <2>18. CASE Tick
    BY <2>18 DEF Tick, TypeOK
  <2>19. CASE UNCHANGED vars
    BY <2>19 DEF vars, TypeOK
  <2> QED BY <2>1, <2>2, <2>3, <2>4, <2>5, <2>6, <2>8, <2>9, <2>10, <2>11, <2>12,
             <2>13, <2>14, <2>15, <2>16, <2>17, <2>18, <2>19 DEF Next
<1> QED BY <1>1, <1>2, PTL DEF Spec

\* Every reachable state is well typed, for any program, domain and clients.
THEOREM TypeCorrect == Spec => []TypeOK
BY TypeInvHolds, PTL DEF TypeInv

-----------------------------------------------------------------------------
(***************************************************************************)
(* The inductive invariant.  The lock makes the snapshot of its holder the *)
(* durable state until that holder begins its attempt; what the second     *)
(* resolve established of the snapshot therefore holds of the durable      *)
(* state, and the attempt keeps it for as long as it is outstanding.       *)
(***************************************************************************)
HoldsLock(c) == pc[c] \notin {"idle", "resolving", "waiting"}

\* What the resolve under the lock established, and nothing undoes.
Chosen(c) ==
  LET p == held[c]
      s == loaded[c]
      t == p.transition
  IN  /\ c \notin Outdated
      /\ p.revision = s.revision
      /\ s.mode \in SourceModes[t]
      /\ RecoveryAllows(t, s.recovery.transition)
      /\ Required[t] \subseteq Available(p.authority)
      /\ Mutation[t] = "bind" => p.requested \in Objectives \ {s.binding}
      /\ Scope[t] = "bound-exact" /\ Mutation[t] = "preserve"
           => s.binding # NoObjective

ClientInv(c) ==
  /\ HoldsLock(c) => lock = c
  /\ pc[c] \in {"loaded", "current", "prescribed"} => loaded[c] = control
  /\ pc[c] = "prescribed" \/ Effecting(c) => Chosen(c)
  /\ Effecting(c) => control = Attempt(loaded[c], held[c])

\* The obligation is an ordinary transition of the program, and the instance
\* is still in a mode in which that transition may run.
ObligationInv ==
  Recovering(control) =>
    /\ control.recovery.transition \in Transitions
    /\ ~IsRecovery(control.recovery.transition)
    /\ control.mode \in SourceModes[control.recovery.transition]

AttemptsArePast ==
  \A i \in DOMAIN attempts : attempts[i].revision < control.revision

HistoryInv == PrescriptionsAreSpent /\ AttemptsAreAuthorized /\ AttemptsArePast

IInv == TypeInv /\ (\A c \in Clients : ClientInv(c)) /\ ObligationInv /\ HistoryInv

\* A step of c leaves what is true of another client alone.
LEMMA OthersKeepTheirs ==
  ASSUME NEW d \in Clients, ClientInv(d),
         pc'[d] = pc[d], loaded'[d] = loaded[d], held'[d] = held[d],
         HoldsLock(d) => lock' = lock /\ control' = control
  PROVE  ClientInv(d)'
BY DEF ClientInv, HoldsLock, Chosen, Effecting

\* A prescription that is current was chosen from the state it is compared with.
LEMMA PrescribedIsChosen ==
  ASSUME TypeInv, NEW c \in Clients, NEW w, NEW time,
         Decide(c, loaded[c], w, request[c], time).kind = "PRESCRIBED",
         Prescribe(Decide(c, loaded[c], w, request[c], time).transition,
                   loaded[c], w, request[c]) = held[c]
  PROVE  Chosen(c)
<1> DEFINE t == Decide(c, loaded[c], w, request[c], time).transition
           r == request[c]
           s == loaded[c]
<1>1. /\ t \in Transitions /\ c \notin Outdated
      /\ Admissible(t, s, w, r)
      /\ Required[t] \subseteq Available(r.authority)
  BY PrescribedIsAdmissible
<1>2. /\ held[c].transition = t /\ held[c].revision = s.revision
      /\ held[c].authority = r.authority
      /\ Mutation[t] = "bind" => held[c].requested = r.objective
  BY DEF Prescribe
<1>3. r.objective \in Objectives \cup {NoObjective}
  BY RequestsHaveFields DEF TypeInv, TypeOK, Requested
<1>4. /\ s.mode \in SourceModes[t]
      /\ RecoveryAllows(t, s.recovery.transition)
      /\ ObjectiveAllows(t, s.binding, r.objective)
  BY <1>1 DEF Admissible
<1>5. /\ Mutation[t] = "bind" => r.objective \in Objectives \ {s.binding}
      /\ Scope[t] = "bound-exact" /\ Mutation[t] = "preserve"
           => s.binding # NoObjective
  BY <1>3, <1>4 DEF ObjectiveAllows
<1> HIDE DEF t
<1> QED BY <1>1, <1>2, <1>4, <1>5 DEF Chosen

\* Beginning an attempt: the obligation is the chosen transition or the older
\* one, and the attempt joins the history with the revision it replaces.
LEMMA BeginKeepsIInv ==
  ASSUME IInv, NEW c \in Clients, BeginEffect(c)
  PROVE  ClientInv(c)' /\ ObligationInv' /\ HistoryInv'
<1> DEFINE p == held[c]
           s == loaded[c]
<1>1. /\ s = control /\ Chosen(c) /\ lock = c
      /\ s \in ControlStates /\ p \in Prescriptions /\ p.transition \in Transitions
  BY DEF IInv, ClientInv, TypeInv, TypeOK, HeldIsReal, Submitted, BeginEffect, HoldsLock
<1>2. /\ control' = Attempt(s, p) /\ attempts' = Append(attempts, p)
      /\ held' = held /\ loaded' = loaded /\ lock' = lock
      /\ pc' = [pc EXCEPT ![c] = "executing"]
  BY DEF BeginEffect, Goto, local
<1>3. ClientInv(c)'
  BY <1>1, <1>2 DEF ClientInv, Chosen, Effecting, HoldsLock, IInv, TypeInv, TypeOK
<1>4. ObligationInv'
  <2>1. CASE Recovering(s)
    <3>1. control'.recovery = control.recovery /\ control'.mode = control.mode
      BY <1>1, <1>2, <2>1 DEF Attempt
    <3> QED BY <1>1, <2>1, <3>1 DEF IInv, ObligationInv, Recovering
  <2>2. CASE ~Recovering(s)
    <3>1. control'.recovery = p /\ control'.mode = s.mode
      BY <1>2, <2>2 DEF Attempt
    <3>2. ~IsRecovery(p.transition) /\ s.mode \in SourceModes[p.transition]
      BY <1>1, <2>2 DEF Chosen, RecoveryAllows, Recovering
    <3> QED BY <1>1, <3>1, <3>2 DEF ObligationInv
  <2> QED BY <2>1, <2>2
<1>5. HistoryInv'
  <2>1. attempts \in Seq(Prescriptions)
    BY DEF IInv, TypeInv, TypeOK
  <2>2. /\ DOMAIN attempts' = 1 .. (Len(attempts) + 1)
        /\ DOMAIN attempts = 1 .. Len(attempts)
        /\ \A i \in DOMAIN attempts : attempts'[i] = attempts[i]
        /\ attempts'[Len(attempts) + 1] = p
        /\ \A i \in DOMAIN attempts : attempts[i] \in Prescriptions
        /\ Len(attempts) \in Nat
    BY <1>1, <1>2, <2>1
  <2>3. /\ p.revision = control.revision /\ control.revision \in Nat
        /\ control'.revision = control.revision + 1
        /\ Required[p.transition] \subseteq Available(p.authority)
    BY <1>1, <1>2 DEF Chosen, Attempt, ControlStates, Revisions
  <2>4. \A i \in DOMAIN attempts : attempts[i].revision < control.revision
                                    /\ attempts[i].revision \in Nat
    BY <2>2 DEF IInv, HistoryInv, AttemptsArePast, Prescriptions
  <2>5. PrescriptionsAreSpent'
    BY <2>2, <2>3, <2>4 DEF IInv, HistoryInv, PrescriptionsAreSpent
  <2>6. AttemptsAreAuthorized'
    BY <2>2, <2>3 DEF IInv, HistoryInv, AttemptsAreAuthorized
  <2>7. AttemptsArePast'
    BY <2>2, <2>3, <2>4 DEF AttemptsArePast
  <2> QED BY <2>5, <2>6, <2>7 DEF HistoryInv
<1> QED BY <1>3, <1>4, <1>5

\* A commit leaves no obligation, and a revision later than every attempt's.
LEMMA CommitKeepsIInv ==
  ASSUME IInv, NEW c \in Clients, Commit(c)
  PROVE  ClientInv(c)' /\ ObligationInv' /\ HistoryInv'
<1>1. /\ control = Attempt(loaded[c], held[c]) /\ control \in ControlStates
      /\ control' = Target(control, held[c])
      /\ attempts' = attempts /\ pc'[c] = "idle"
  BY DEF IInv, ClientInv, TypeInv, TypeOK, Commit, Effecting, Return, Goto
<1>2. ClientInv(c)'
  BY <1>1 DEF ClientInv, HoldsLock, Effecting
<1>3. ObligationInv'
  BY <1>1 DEF Target, ObligationInv, Recovering, NoPrescription
<1>4. /\ control'.revision = control.revision + 1 /\ control.revision \in Nat
      /\ \A i \in DOMAIN attempts : attempts[i].revision < control.revision
                                     /\ attempts[i].revision \in Nat
  <2>1. control'.revision = control.revision + 1 /\ control.revision \in Nat
    BY <1>1 DEF Target, ControlStates, Revisions
  <2>2. \A i \in DOMAIN attempts : attempts[i] \in Prescriptions
    BY DEF IInv, TypeInv, TypeOK
  <2> QED BY <2>1, <2>2 DEF IInv, HistoryInv, AttemptsArePast, Prescriptions
<1>5. HistoryInv'
  BY <1>1, <1>4 DEF IInv, HistoryInv, PrescriptionsAreSpent, AttemptsAreAuthorized,
                    AttemptsArePast
<1> QED BY <1>2, <1>3, <1>5

LEMMA IInvHolds == Spec => []IInv
<1>1. Init => IInv
  <2> SUFFICES ASSUME Init PROVE IInv
    OBVIOUS
  <2>1. TypeInv
    BY InitialValuesAreTyped, DomainIsTyped
       DEF Init, TypeInv, TypeOK, HeldIsReal, Submitted, Places
  <2>2. \A c \in Clients : ClientInv(c)
    BY DEF Init, ClientInv, HoldsLock, Effecting
  <2>3. ObligationInv
    BY DEF Init, InitialControl, NoPrescription, ObligationInv, Recovering
  <2>4. HistoryInv
    BY DEF Init, HistoryInv, PrescriptionsAreSpent, AttemptsAreAuthorized,
           AttemptsArePast
  <2> QED BY <2>1, <2>2, <2>3, <2>4 DEF IInv
<1>2. IInv /\ TypeInv' /\ [Next]_vars => IInv'
  <2> SUFFICES ASSUME IInv, TypeInv', [Next]_vars PROVE IInv'
    OBVIOUS
  <2> USE DEF durable, local, bounds
  <2>1. ASSUME control' = control, attempts' = attempts
        PROVE  ObligationInv' /\ HistoryInv'
    BY <2>1 DEF IInv, ObligationInv, Recovering, HistoryInv, PrescriptionsAreSpent,
                AttemptsAreAuthorized, AttemptsArePast
  <2>2. ASSUME NEW c \in Clients, ClientInv(c)', ObligationInv' /\ HistoryInv',
               \A d \in Clients \ {c} :
                 /\ pc'[d] = pc[d] /\ loaded'[d] = loaded[d] /\ held'[d] = held[d]
                 /\ HoldsLock(d) => lock' = lock /\ control' = control
        PROVE  IInv'
    BY <2>2, OthersKeepTheirs DEF IInv
  <2>3. ASSUME NEW c \in Clients, Return(c), control' = control, attempts' = attempts,
               \A d \in Clients \ {c} : held'[d] = held[d]
        PROVE  IInv'
    <3>1. pc'[c] = "idle" /\ \A d \in Clients \ {c} : pc'[d] = pc[d] /\ loaded'[d] = loaded[d]
      BY <2>3 DEF Return, Goto, IInv, TypeInv, TypeOK
    <3>2. ClientInv(c)'
      BY <3>1 DEF ClientInv, HoldsLock, Effecting
    <3>3. \A d \in Clients \ {c} : HoldsLock(d) => lock' = lock
      BY <2>3 DEF Return, IInv, ClientInv
    <3> QED BY <2>1, <2>2, <2>3, <3>1, <3>2, <3>3
  <2>4. ASSUME NEW c \in Clients, NEW r \in Requests, ResolveLoad(c, r) \/ Submit(c, r)
        PROVE  IInv'
    <3>1. ClientInv(c)'
      BY <2>4 DEF ResolveLoad, Submit, Goto, ClientInv, HoldsLock, Effecting, IInv, TypeInv, TypeOK
    <3> QED BY <2>1, <2>2, <2>4, <3>1 DEF ResolveLoad, Submit, Goto, IInv, TypeInv, TypeOK
  <2>5. ASSUME NEW c \in Clients, NEW d \in Clients, HandOver(c, d)
        PROVE  IInv'
    <3>1. ClientInv(c)'
      BY <2>5 DEF HandOver, ClientInv, HoldsLock, Effecting, IInv, TypeInv, TypeOK
    <3> QED BY <2>1, <2>2, <2>5, <3>1 DEF HandOver, IInv, TypeInv, TypeOK
  <2>6. ASSUME NEW c \in Clients, ResolveObserve(c)
        PROVE  IInv'
    <3>1. \A d \in Clients \ {c} : held'[d] = held[d]
      BY <2>6 DEF ResolveObserve, IInv, TypeInv, TypeOK
    <3> QED BY <2>3, <2>6, <3>1 DEF ResolveObserve
  <2>7. ASSUME NEW c \in Clients, Acquire(c)
        PROVE  IInv'
    <3>1. ClientInv(c)'
      BY <2>7 DEF Acquire, Goto, ClientInv, HoldsLock, Effecting, IInv, TypeInv, TypeOK
    <3>2. \A d \in Clients : ~HoldsLock(d)
      BY <2>7, ClientsAreTyped DEF Acquire, IInv, ClientInv
    <3> QED BY <2>1, <2>2, <2>7, <3>1, <3>2 DEF Acquire, Goto, IInv, TypeInv, TypeOK
  <2>8. ASSUME NEW c \in Clients, Load(c)
        PROVE  IInv'
    <3>1. ClientInv(c)'
      BY <2>8 DEF Load, Goto, ClientInv, HoldsLock, Effecting, IInv, TypeInv, TypeOK
    <3> QED BY <2>1, <2>2, <2>8, <3>1 DEF Load, Goto, IInv, TypeInv, TypeOK
  <2>9. ASSUME NEW c \in Clients, ValidateCurrent(c)
        PROVE  IInv'
    <3>1. CASE Return(c)
      BY <2>3, <2>9, <3>1 DEF ValidateCurrent
    <3>2. CASE ~Return(c)
      <4>1. ClientInv(c)'
        BY <2>9, <3>2 DEF ValidateCurrent, Goto, ClientInv, HoldsLock, Effecting, IInv, TypeInv, TypeOK
      <4> QED BY <2>1, <2>2, <2>9, <3>2, <4>1 DEF ValidateCurrent, Goto, IInv, TypeInv, TypeOK
    <3> QED BY <3>1, <3>2
  <2>10. ASSUME NEW c \in Clients, ResolveLocked(c)
         PROVE  IInv'
    <3>1. CASE Return(c)
      BY <2>3, <2>10, <3>1 DEF ResolveLocked
    <3>2. CASE ~Return(c)
      <4>1. Chosen(c)
        BY <2>10, <3>2, PrescribedIsChosen DEF ResolveLocked, IInv
      <4>2. ClientInv(c)'
        BY <2>10, <3>2, <4>1
           DEF ResolveLocked, Goto, ClientInv, HoldsLock, Effecting, Chosen, IInv, TypeInv, TypeOK
      <4> QED BY <2>1, <2>2, <2>10, <3>2, <4>2 DEF ResolveLocked, Goto, IInv, TypeInv, TypeOK
    <3> QED BY <3>1, <3>2
  <2>11. ASSUME NEW c \in Clients, BeginEffect(c)
         PROVE  IInv'
    <3>1. \A d \in Clients \ {c} : ~HoldsLock(d)
      BY <2>11 DEF BeginEffect, IInv, ClientInv, HoldsLock
    <3> QED BY <2>2, <2>11, <3>1, BeginKeepsIInv DEF BeginEffect, Goto, IInv, TypeInv, TypeOK
  <2>12. ASSUME NEW c \in Clients, Execute(c) \/ ExecuteNothing(c)
         PROVE  IInv'
    <3>1. ClientInv(c)'
      BY <2>12 DEF Execute, ExecuteNothing, Goto, ClientInv, HoldsLock, Effecting, Chosen,
                   IInv, TypeInv, TypeOK
    <3> QED BY <2>1, <2>2, <2>12, <3>1 DEF Execute, ExecuteNothing, Goto, IInv, TypeInv, TypeOK
  <2>13. ASSUME NEW c \in Clients, ExecuteFails(c)
         PROVE  IInv'
    BY <2>3, <2>13 DEF ExecuteFails
  <2>14. ASSUME NEW c \in Clients, VerifyTarget(c)
         PROVE  IInv'
    <3>1. CASE Return(c)
      BY <2>3, <2>14, <3>1 DEF VerifyTarget
    <3>2. CASE ~Return(c)
      <4>1. ClientInv(c)'
        BY <2>14, <3>2 DEF VerifyTarget, Goto, ClientInv, HoldsLock, Effecting, Chosen,
                           IInv, TypeInv, TypeOK
      <4> QED BY <2>1, <2>2, <2>14, <3>2, <4>1 DEF VerifyTarget, Goto, IInv, TypeInv, TypeOK
    <3> QED BY <3>1, <3>2
  <2>15. ASSUME NEW c \in Clients, Commit(c)
         PROVE  IInv'
    <3>1. \A d \in Clients \ {c} : ~HoldsLock(d)
      BY <2>15 DEF Commit, IInv, ClientInv, HoldsLock
    <3> QED BY <2>2, <2>15, <3>1, CommitKeepsIInv DEF Commit, Return, Goto, IInv, TypeInv, TypeOK
  <2>16. ASSUME NEW c \in Clients, Stop(c)
         PROVE  IInv'
    BY <2>3, <2>16 DEF Stop
  <2>17. ASSUME Drift \/ Tick \/ UNCHANGED vars
         PROVE  IInv'
    <3>1. /\ control' = control /\ attempts' = attempts /\ pc' = pc
          /\ loaded' = loaded /\ held' = held /\ lock' = lock
      BY <2>17 DEF Drift, Tick, vars
    <3> QED BY <2>1, <3>1 DEF IInv, ClientInv, HoldsLock, Effecting, Chosen
  <2> QED BY <2>4, <2>5, <2>6, <2>7, <2>8, <2>9, <2>10, <2>11, <2>12, <2>13, <2>14,
             <2>15, <2>16, <2>17 DEF Next
<1> QED BY <1>1, <1>2, TypeInvHolds, PTL DEF Spec

-----------------------------------------------------------------------------
(***************************************************************************)
(* What follows.                                                           *)
(***************************************************************************)
\* No two operators run at once, and while one does the durable state is its
\* attempt and owes a recovery.
THEOREM ExclusiveEffect == Spec => []EffectIsUnderDurableAttempt
<1>1. IInv => EffectIsUnderDurableAttempt
  <2> SUFFICES ASSUME IInv, NEW c \in Clients, Effecting(c)
               PROVE  /\ control = Attempt(loaded[c], held[c])
                      /\ Recovering(control)
                      /\ \A d \in Clients : Effecting(d) => d = c
    BY DEF EffectIsUnderDurableAttempt
  <2>1. control = Attempt(loaded[c], held[c])
    BY DEF IInv, ClientInv
  <2>2. held[c].transition # NoTransition
    BY TransitionsAreTyped DEF IInv, TypeInv, HeldIsReal, Submitted, Effecting
  <2>3. \A d \in Clients : Effecting(d) => lock = d
    BY DEF IInv, ClientInv, HoldsLock, Effecting
  <2> QED BY <2>1, <2>2, <2>3 DEF Attempt, Recovering
<1> QED BY <1>1, IInvHolds, PTL

\* No presentation of a prescription begins a second effect.
THEOREM SpentOnce == Spec => []PrescriptionsAreSpent
BY IInvHolds, PTL DEF IInv, HistoryInv

\* No attempt was ever begun without the capabilities it requires.
THEOREM Authorized == Spec => []AttemptsAreAuthorized
BY IInvHolds, PTL DEF IInv, HistoryInv

\* A runtime of another program never reaches an operator.
THEOREM StandDown == Spec => []OutdatedRuntimesStandDown
<1>1. IInv => OutdatedRuntimesStandDown
  BY ClientsAreTyped DEF IInv, ClientInv, Chosen, OutdatedRuntimesStandDown
<1> QED BY <1>1, IInvHolds, PTL

\* An interrupted instance has a recovery that only authority can withhold.
THEOREM NeverStranded == Spec => []NoStrandedRecovery
<1>1. IInv => NoStrandedRecovery
  <2> SUFFICES ASSUME IInv, Recovering(control),
                      NEW w \in Worlds, NEW o \in Objectives \cup {NoObjective}
               PROVE  \E t \in Transitions :
                        Admissible(t, control, w,
                          [requested |-> NoTransition, objective |-> o, authority |-> {}])
    BY DEF NoStrandedRecovery
  <2> DEFINE owed == control.recovery.transition
  <2>1. /\ owed \in Transitions /\ ~IsRecovery(owed)
        /\ control.mode \in SourceModes[owed] /\ owed # NoTransition
    BY TransitionsAreTyped DEF IInv, ObligationInv
  <2>2. PICK t \in Transitions : owed \in Recovers[t]
    BY <2>1, ProgramIsPrepared DEF Prepared, EveryTransitionIsRecovered
  <2>3. /\ IsRecovery(t) /\ Scope[t] # "bound-exact" /\ Mutation[t] = "preserve"
        /\ SourceModes[owed] \subseteq SourceModes[t]
    BY <2>2, ProgramIsPrepared DEF Prepared, RecoveriesAreUnconditional, IsRecovery
  <2>4. ObjectiveAllows(t, control.binding, o)
    BY <2>3 DEF ObjectiveAllows
  <2>5. RecoveryAllows(t, owed)
    BY <2>1, <2>2 DEF RecoveryAllows
  <2>6. DomainAdmits(t, control, w)
    BY DEF DomainAdmits
  <2> QED BY <2>1, <2>3, <2>4, <2>5, <2>6 DEF Admissible
<1> QED BY <1>1, IInvHolds, PTL

\* The runtime refines the supervised instance: a begin under no obligation is
\* its Begin, a commit its Settle or Recover, everything else a stutter.
THEOREM Refinement == Spec => ImplementsSupervised
<1>1. Init => Supervised!Init
  BY DEF Init, Supervised!Init, InitialControl, NoPrescription
<1>2. IInv /\ [Next]_vars => [Supervised!Next]_(Supervised!svars)
  <2> SUFFICES ASSUME IInv, [Next]_vars
               PROVE  [Supervised!Next]_(Supervised!svars)
    OBVIOUS
  <2> USE DEF durable, local, bounds
  <2>1. ASSUME control' = control
        PROVE  UNCHANGED Supervised!svars
    BY <2>1 DEF Supervised!svars
  <2>2. ASSUME NEW c \in Clients, BeginEffect(c)
        PROVE  Supervised!Next \/ UNCHANGED Supervised!svars
    <3> DEFINE p == held[c]
    <3>1. /\ loaded[c] = control /\ control' = Attempt(control, p)
          /\ Chosen(c) /\ p.transition \in Transitions
      BY <2>2 DEF IInv, ClientInv, BeginEffect, TypeInv, HeldIsReal, Submitted
    <3>2. CASE Recovering(control)
      BY <3>1, <3>2 DEF Attempt, Supervised!svars
    <3>3. CASE ~Recovering(control)
      <4>1. /\ control'.mode = control.mode /\ control'.binding = control.binding
            /\ control'.recovery.transition = p.transition
        BY <3>1, <3>3 DEF Attempt
      <4>2. Supervised!Begin(p.transition)
        BY <3>1, <3>3, <4>1
           DEF Supervised!Begin, Supervised!IsRecovery, IsRecovery, Chosen,
               RecoveryAllows, Recovering
      <4> QED BY <3>1, <4>2 DEF Supervised!Next
    <3> QED BY <3>2, <3>3
  <2>3. ASSUME NEW c \in Clients, Commit(c)
        PROVE  Supervised!Next
    <3> DEFINE p == held[c]
               s == loaded[c]
    <3>1. /\ control = Attempt(s, p) /\ control' = Target(control, p)
          /\ Chosen(c) /\ p.transition \in Transitions
          /\ s \in ControlStates
      BY <2>3 DEF IInv, ClientInv, Commit, Effecting, TypeInv, TypeOK, HeldIsReal, Submitted
    <3>2. /\ control'.mode = TargetMode[p.transition]
          /\ control'.binding = TargetBinding(p, s.binding)
          /\ control'.recovery.transition = NoTransition
          /\ control.mode = s.mode /\ control.binding = s.binding
      BY <3>1 DEF Target, Attempt, NoPrescription
    <3>3. CASE ~Recovering(s)
      <4>1. control.recovery.transition = p.transition
        BY <3>1, <3>3 DEF Attempt
      <4>2. Supervised!Settle
        BY <3>1, <3>2, <4>1 DEF Supervised!Settle, TargetBinding, Chosen
      <4> QED BY <4>2 DEF Supervised!Next
    <3>4. CASE Recovering(s)
      <4>1. /\ control.recovery.transition = s.recovery.transition
            /\ s.recovery.transition \in Recovers[p.transition]
            /\ s.mode \in SourceModes[p.transition]
        BY <3>1, <3>4 DEF Attempt, Chosen, RecoveryAllows, Recovering
      <4>2. TargetBinding(p, s.binding) = s.binding
        BY <3>1, <4>1, ProgramIsPrepared
           DEF TargetBinding, Prepared, RecoveriesAreUnconditional, IsRecovery
      <4>3. Supervised!Recover(p.transition)
        BY <3>2, <4>1, <4>2 DEF Supervised!Recover
      <4> QED BY <3>1, <4>3 DEF Supervised!Next
    <3> QED BY <3>3, <3>4
  <2>4. ASSUME NEW c \in Clients, NEW r \in Requests, ResolveLoad(c, r) \/ Submit(c, r)
        PROVE  control' = control
    BY <2>4 DEF ResolveLoad, Submit
  <2>5. ASSUME NEW c \in Clients, NEW d \in Clients, HandOver(c, d)
        PROVE  control' = control
    BY <2>5 DEF HandOver
  <2>6. ASSUME NEW c \in Clients,
               \/ ResolveObserve(c) \/ Acquire(c) \/ Load(c) \/ ValidateCurrent(c)
               \/ ResolveLocked(c) \/ Execute(c) \/ ExecuteNothing(c)
               \/ ExecuteFails(c) \/ VerifyTarget(c) \/ Stop(c)
        PROVE  control' = control
    BY <2>6 DEF ResolveObserve, Acquire, Load, ValidateCurrent, ResolveLocked, Execute,
                ExecuteNothing, ExecuteFails, VerifyTarget, Stop
  <2>7. ASSUME Drift \/ Tick \/ UNCHANGED vars
        PROVE  control' = control
    BY <2>7 DEF Drift, Tick, vars
  <2> QED BY <2>1, <2>2, <2>3, <2>4, <2>5, <2>6, <2>7 DEF Next
<1> QED BY <1>1, <1>2, IInvHolds, PTL DEF Spec, ImplementsSupervised, Supervised!Spec

\* An obligation that is owed disappears only with the receipt that answers it.
THEOREM Discharged == Spec => ObligationIsDischarged
<1> DEFINE Changed == Recovering(control) /\ control'.recovery # control.recovery
           p == receipts'[Len(receipts')].prescription
           Answered == /\ ~Recovering(control')
                       /\ Len(receipts') = Len(receipts) + 1
                       /\ p = control.recovery
                            \/ control.recovery.transition \in Recovers[p.transition]
<1>1. IInv /\ [Next]_vars => [Changed => Answered]_vars
  <2> SUFFICES ASSUME IInv, Next, Changed PROVE Answered
    OBVIOUS
  <2> USE DEF durable, local, bounds
  <2>1. ASSUME NEW c \in Clients, BeginEffect(c)
        PROVE  FALSE
    <3>1. loaded[c] = control /\ control' = Attempt(control, held[c])
      BY <2>1 DEF IInv, ClientInv, BeginEffect
    <3> QED BY <3>1 DEF Attempt
  <2>2. ASSUME NEW c \in Clients, Commit(c)
        PROVE  Answered
    <3>1. /\ control = Attempt(loaded[c], held[c]) /\ Chosen(c)
          /\ control' = Target(control, held[c])
          /\ receipts' = Append(receipts, ReceiptFor(loaded[c], held[c], result[c]))
          /\ receipts \in Seq(ReceiptRecords)
      BY <2>2 DEF IInv, ClientInv, Commit, Effecting, TypeInv, TypeOK
    <3>2. ~Recovering(control')
      BY <3>1 DEF Target, Recovering, NoPrescription
    <3>3. /\ Len(receipts') = Len(receipts) + 1
          /\ receipts'[Len(receipts')] = ReceiptFor(loaded[c], held[c], result[c])
      BY <3>1
    <3>4. p = held[c]
      BY <3>3 DEF ReceiptFor
    <3>5. CASE Recovering(loaded[c])
      BY <3>1, <3>2, <3>3, <3>4, <3>5 DEF Attempt, Chosen, RecoveryAllows, Recovering
    <3>6. CASE ~Recovering(loaded[c])
      BY <3>1, <3>2, <3>3, <3>4, <3>6 DEF Attempt
    <3> QED BY <3>5, <3>6
  <2>3. ASSUME NEW c \in Clients, NEW r \in Requests, ResolveLoad(c, r) \/ Submit(c, r)
        PROVE  FALSE
    BY <2>3 DEF ResolveLoad, Submit
  <2>4. ASSUME NEW c \in Clients, NEW d \in Clients, HandOver(c, d)
        PROVE  FALSE
    BY <2>4 DEF HandOver
  <2>5. ASSUME NEW c \in Clients,
               \/ ResolveObserve(c) \/ Acquire(c) \/ Load(c) \/ ValidateCurrent(c)
               \/ ResolveLocked(c) \/ Execute(c) \/ ExecuteNothing(c)
               \/ ExecuteFails(c) \/ VerifyTarget(c) \/ Stop(c)
        PROVE  FALSE
    BY <2>5 DEF ResolveObserve, Acquire, Load, ValidateCurrent, ResolveLocked, Execute,
                ExecuteNothing, ExecuteFails, VerifyTarget, Stop
  <2>6. ASSUME Drift \/ Tick
        PROVE  FALSE
    BY <2>6 DEF Drift, Tick
  <2> QED BY <2>1, <2>2, <2>3, <2>4, <2>5, <2>6 DEF Next
<1> HIDE DEF Changed, Answered
<1>2. Spec => [][Changed => Answered]_vars
  BY <1>1, IInvHolds, PTL DEF Spec
<1> QED BY <1>2, PTL DEF Changed, Answered, ObligationIsDischarged
-----------------------------------------------------------------------------
(***************************************************************************)
(* The receipts.  Each was for an attempt that is in the history, and all  *)
(* of them end before the attempt that is outstanding.                     *)
(***************************************************************************)
Chained ==
  \A i \in DOMAIN receipts :
    /\ receipts[i].prior = receipts[i].prescription.revision
    /\ \E j \in DOMAIN attempts : attempts[j] = receipts[i].prescription
    /\ \A j \in DOMAIN receipts : i < j => receipts[i].result <= receipts[j].prior

PastReceipts ==
  \A i \in DOMAIN receipts :
    /\ receipts[i].result <= control.revision
    /\ Recovering(control) => receipts[i].result < control.revision

LastReceipt ==
  ~Recovering(control) =>
    IF receipts = <<>> THEN control.revision = 1
      ELSE /\ control.revision = receipts[Len(receipts)].result
           /\ control.mode = receipts[Len(receipts)].mode

Attempted == \A c \in Clients : Effecting(c) => \E j \in DOMAIN attempts : attempts[j] = held[c]

Accounted ==
  /\ Chained /\ PastReceipts /\ LastReceipt /\ Attempted
  /\ control.revision = 1 + Len(attempts) + Len(receipts)

LEMMA ResultsAreNatural ==
  ASSUME receipts \in Seq(ReceiptRecords), NEW i \in DOMAIN receipts
  PROVE  receipts[i].result \in Nat
<1>1. receipts[i] \in ReceiptRecords
  OBVIOUS
<1> QED BY <1>1 DEF ReceiptRecords, Revisions

LEMMA AccountedAtBegin ==
  ASSUME IInv, Accounted, NEW c \in Clients, BeginEffect(c)
  PROVE  Accounted'
<1> DEFINE p == held[c]
           n == Len(attempts)
<1>1. /\ control \in ControlStates /\ control' = Attempt(control, p)
      /\ p.transition \in Transitions
      /\ attempts \in Seq(Prescriptions) /\ attempts' = Append(attempts, p)
      /\ p \in Prescriptions /\ receipts' = receipts /\ held' = held
      /\ pc' = [pc EXCEPT ![c] = "executing"] /\ pc \in [Clients -> Places]
      /\ receipts \in Seq(ReceiptRecords)
  BY DEF IInv, ClientInv, TypeInv, TypeOK, HeldIsReal, Submitted, BeginEffect, Goto, local
<1>2. /\ control'.revision = control.revision + 1 /\ control.revision \in Nat
      /\ Recovering(control')
  <2>1. control.recovery.transition # NoTransition \/ p.transition # NoTransition
    BY <1>1, TransitionsAreTyped
  <2> QED BY <1>1, <2>1, TransitionsAreTyped DEF Attempt, ControlStates, Revisions, Recovering
<1>3. /\ n \in Nat /\ Len(attempts') = n + 1
      /\ DOMAIN attempts' = 1 .. (n + 1) /\ DOMAIN attempts = 1 .. n
      /\ \A j \in DOMAIN attempts : attempts'[j] = attempts[j]
      /\ attempts'[n + 1] = p
  BY <1>1
<1>4. Chained'
  BY <1>1, <1>3 DEF Accounted, Chained
<1>5. \A i \in DOMAIN receipts : receipts[i].result \in Nat
  BY <1>1, ResultsAreNatural
<1>6. PastReceipts'
  BY <1>1, <1>2, <1>5 DEF Accounted, PastReceipts
<1>7. Attempted'
  <2> SUFFICES ASSUME NEW d \in Clients, Effecting(d)'
               PROVE  \E j \in DOMAIN attempts' : attempts'[j] = held'[d]
    BY DEF Attempted
  <2>1. CASE d = c
    BY <1>1, <1>3, <2>1
  <2>2. CASE d # c
    BY <1>1, <1>3, <2>2 DEF Accounted, Attempted, Effecting
  <2> QED BY <2>1, <2>2
<1>8. LastReceipt'
  BY <1>2 DEF LastReceipt
<1>9. Len(receipts) \in Nat
  BY <1>1
<1> QED BY <1>1, <1>2, <1>3, <1>4, <1>6, <1>7, <1>8, <1>9 DEF Accounted

LEMMA AccountedAtCommit ==
  ASSUME IInv, Accounted, NEW c \in Clients, Commit(c)
  PROVE  Accounted'
<1> DEFINE f == ReceiptFor(loaded[c], held[c], result[c])
           n == Len(receipts)
<1>1. /\ Effecting(c) /\ Chosen(c) /\ control \in ControlStates
      /\ loaded[c] \in ControlStates /\ held[c] \in Prescriptions
      /\ held[c].transition \in Transitions
      /\ control = Attempt(loaded[c], held[c])
      /\ control' = Target(control, held[c])
      /\ receipts \in Seq(ReceiptRecords) /\ receipts' = Append(receipts, f)
      /\ attempts \in Seq(Prescriptions) /\ attempts' = attempts /\ held' = held
      /\ pc' = [pc EXCEPT ![c] = "idle"] /\ pc \in [Clients -> Places]
  BY DEF IInv, ClientInv, TypeInv, TypeOK, HeldIsReal, Submitted, Commit, Effecting,
         Return, Goto
<1>2. /\ loaded[c].revision \in Nat /\ held[c].revision = loaded[c].revision
      /\ control.revision = loaded[c].revision + 1
      /\ control'.revision = loaded[c].revision + 2
      /\ control'.mode = TargetMode[held[c].transition]
      /\ ~Recovering(control')
  BY <1>1 DEF ControlStates, Revisions, Chosen, Attempt, Target, Recovering, NoPrescription
<1>3. Recovering(control)
  <2>1. loaded[c].recovery.transition # NoTransition \/ held[c].transition # NoTransition
    BY <1>1, TransitionsAreTyped
  <2> QED BY <1>1, <2>1, TransitionsAreTyped DEF Attempt, Recovering
<1>4. /\ f.prescription = held[c] /\ f.prior = loaded[c].revision
      /\ f.result = loaded[c].revision + 2 /\ f.mode = TargetMode[held[c].transition]
  BY DEF ReceiptFor
<1> HIDE DEF f
<1>5. /\ n \in Nat /\ Len(receipts') = n + 1
      /\ DOMAIN receipts' = 1 .. (n + 1) /\ DOMAIN receipts = 1 .. n
      /\ \A i \in DOMAIN receipts : receipts'[i] = receipts[i]
      /\ receipts'[n + 1] = f
  BY <1>1
<1>6. \A i \in DOMAIN receipts : /\ receipts[i].result \in Nat
                                 /\ receipts[i].result <= loaded[c].revision
  <2>1. \A i \in DOMAIN receipts : receipts[i].result \in Nat
    BY <1>1, ResultsAreNatural
  <2> QED BY <1>2, <1>3, <2>1 DEF Accounted, PastReceipts
<1>7. \E j \in DOMAIN attempts : attempts[j] = held[c]
  BY <1>1 DEF Accounted, Attempted
<1>8. Chained'
  <2> SUFFICES ASSUME NEW i \in DOMAIN receipts'
               PROVE  /\ receipts'[i].prior = receipts'[i].prescription.revision
                      /\ \E j \in DOMAIN attempts' : attempts'[j] = receipts'[i].prescription
                      /\ \A j \in DOMAIN receipts' :
                           i < j => receipts'[i].result <= receipts'[j].prior
    BY DEF Chained
  <2>1. CASE i = n + 1
    BY <1>1, <1>2, <1>4, <1>5, <1>7, <2>1
  <2>2. CASE i # n + 1
    <3>1. i \in DOMAIN receipts /\ receipts'[i] = receipts[i]
      BY <1>5, <2>2
    <3> QED BY <1>1, <1>4, <1>5, <1>6, <3>1 DEF Accounted, Chained
  <2> QED BY <2>1, <2>2
<1>9. PastReceipts'
  BY <1>2, <1>4, <1>5, <1>6 DEF PastReceipts
<1>10. LastReceipt'
  <2>1. receipts' # <<>>
    BY <1>1
  <2> QED BY <1>2, <1>4, <1>5, <2>1 DEF LastReceipt
<1>11. Attempted'
  BY <1>1 DEF Accounted, Attempted, Effecting
<1>12. Len(attempts) \in Nat
  BY <1>1
<1>13. control'.revision = 1 + Len(attempts') + Len(receipts')
  <2>1. control.revision = 1 + Len(attempts) + n
    BY DEF Accounted
  <2>2. /\ n \in Nat /\ Len(receipts') = n + 1 /\ Len(attempts') = Len(attempts)
        /\ control'.revision = control.revision + 1
    BY <1>1, <1>2, <1>5
  <2> HIDE DEF n
  <2> QED BY <1>12, <2>1, <2>2
<1> QED BY <1>8, <1>9, <1>10, <1>11, <1>13 DEF Accounted

LEMMA AccountedHolds == Spec => []Accounted
<1>1. Init => Accounted
  <2> SUFFICES ASSUME Init PROVE Accounted
    OBVIOUS
  <2>1. DOMAIN <<>> = {} /\ Len(<<>>) = 0
    OBVIOUS
  <2> QED BY <2>1 DEF Init, InitialControl, Accounted, Chained, PastReceipts, LastReceipt,
                      Attempted, Effecting
<1>2. IInv /\ Accounted /\ [Next]_vars => Accounted'
  <2> SUFFICES ASSUME IInv, Accounted, [Next]_vars PROVE Accounted'
    OBVIOUS
  <2> USE DEF durable, local, bounds
  <2>1. ASSUME UNCHANGED durable,
               \A d \in Clients : Effecting(d)' => Effecting(d) /\ held'[d] = held[d]
        PROVE  Accounted'
    BY <2>1 DEF Accounted, Chained, PastReceipts, LastReceipt, Attempted, Recovering
  <2>2. ASSUME NEW c \in Clients, NEW r \in Requests, ResolveLoad(c, r) \/ Submit(c, r)
        PROVE  Accounted'
    BY <2>1, <2>2 DEF ResolveLoad, Submit, Goto, Effecting, IInv, TypeInv, TypeOK
  <2>3. ASSUME NEW c \in Clients, NEW d \in Clients, HandOver(c, d)
        PROVE  Accounted'
    BY <2>1, <2>3 DEF HandOver, Effecting, IInv, TypeInv, TypeOK
  <2>4. ASSUME NEW c \in Clients, Return(c), UNCHANGED durable,
               \A d \in Clients \ {c} : held'[d] = held[d]
        PROVE  Accounted'
    BY <2>1, <2>4 DEF Return, Goto, Effecting, IInv, TypeInv, TypeOK
  <2>5. ASSUME NEW c \in Clients, ResolveObserve(c)
        PROVE  Accounted'
    BY <2>4, <2>5 DEF ResolveObserve, IInv, TypeInv, TypeOK
  <2>6. ASSUME NEW c \in Clients, Acquire(c) \/ Load(c)
        PROVE  Accounted'
    BY <2>1, <2>6 DEF Acquire, Load, Goto, Effecting, IInv, TypeInv, TypeOK
  <2>7. ASSUME NEW c \in Clients, ValidateCurrent(c)
        PROVE  Accounted'
    BY <2>1, <2>4, <2>7 DEF ValidateCurrent, Goto, Effecting, IInv, TypeInv, TypeOK
  <2>8. ASSUME NEW c \in Clients, ResolveLocked(c)
        PROVE  Accounted'
    BY <2>1, <2>4, <2>8 DEF ResolveLocked, Goto, Effecting, IInv, TypeInv, TypeOK
  <2>9. ASSUME NEW c \in Clients, Execute(c) \/ ExecuteNothing(c)
        PROVE  Accounted'
    BY <2>1, <2>9 DEF Execute, ExecuteNothing, Goto, Effecting, IInv, TypeInv, TypeOK
  <2>10. ASSUME NEW c \in Clients, ExecuteFails(c) \/ Stop(c)
         PROVE  Accounted'
    BY <2>4, <2>10 DEF ExecuteFails, Stop
  <2>11. ASSUME NEW c \in Clients, VerifyTarget(c)
         PROVE  Accounted'
    BY <2>1, <2>4, <2>11 DEF VerifyTarget, Goto, Effecting, IInv, TypeInv, TypeOK
  <2>12. ASSUME Drift \/ Tick \/ UNCHANGED vars
         PROVE  Accounted'
    BY <2>1, <2>12 DEF Drift, Tick, vars, Effecting
  <2> QED BY <2>2, <2>3, <2>5, <2>6, <2>7, <2>8, <2>9, <2>10, <2>11, <2>12,
             AccountedAtBegin, AccountedAtCommit DEF Next
<1> QED BY <1>1, <1>2, IInvHolds, PTL DEF Spec

\* The receipts account for the durable state: one chain of disjoint
\* intervals, each of an attempt that was begun, that ends at the state
\* whenever no recovery is owed (runtime.go L386-440).
THEOREM AccountsForState == Spec => []ReceiptsAccountForState
<1>1. Accounted => ReceiptsAccountForState
  BY DEF Accounted, Chained, LastReceipt, ReceiptsAccountForState
<1> QED BY <1>1, AccountedHolds, PTL
=============================================================================
