-------------------------------- MODULE MCLaws --------------------------------
(***************************************************************************)
(* The four calculi of the program, one at a time (`part`): the selection  *)
(* of a transition, the effects a program declares, the manifests it is    *)
(* composed of and the declarative flows it runs.  What the other three    *)
(* are about stays as it is.                                               *)
(*                                                                         *)
(* relation     Five candidates over two capabilities: two that tie at the *)
(*              best rank and priority, one that only rank separates, one  *)
(*              that only priority separates, and one that can be targeted *)
(*              but never selected.                                        *)
(* effects      The recovery and the transaction, which share the          *)
(*              transaction identity, and the terminal, which no field     *)
(*              backs.                                                     *)
(* composition  Two extensions, the name of one inside the namespace of    *)
(*              the other, on a program with one step that leads to both   *)
(*              of its objectives.                                         *)
(* declarative  Two transitions of a flow that record what a host answers, *)
(*              and a third with every small guard, target and effect.     *)
(***************************************************************************)
EXTENDS RelationLaws, DeclaredEffects, ProgramComposition, DeclarativeFlow, TLC

CONSTANTS Parts, MaxAssignments, MaxEntries

VARIABLE part

MCPool ==
  { Candidate("deliver", 0, 1, TRUE,  {"write"}, {}),
    Candidate("repair",  0, 1, TRUE,  {},        {"write", "human"}),
    Candidate("observe", 0, 2, TRUE,  {},        {}),
    Candidate("retire",  1, 1, TRUE,  {"human"}, {}),
    Candidate("escalate", 0, 1, FALSE, {"human"}, {"write"}) }

-----------------------------------------------------------------------------
MCNeeds == [recovery |-> {"transaction_id", "recovery_cause"},
            transaction |-> {"transaction_id", "transaction_transition"},
            terminal |-> {}]
MCOwner == ("terminal" :> "product") @@
  [x \in {"recovery", "transaction", "transaction_id", "recovery_cause",
          "transaction_transition"} |-> "control"]

\* The entries of a declaration.
MCDeclarationSize ==
  Cardinality({c \in Facets : declared.asks[c] # BOOLEAN})
    + 2 * Cardinality({c \in Facets : declared.wants[c] # BOOLEAN})
    + 2 * Cardinality({c \in Facets : declared.pre[c] # BOOLEAN})
    + Cardinality(Assigned(declared))
    + (IF declared.phase # "unchanged" THEN 1 ELSE 0)
    + (IF declared.from # Phases THEN 1 ELSE 0)
    + (IF declared.to # Phases THEN 1 ELSE 0)
    + (IF declared.origin # "core" THEN 1 ELSE 0)
    + (IF Cardinality(declared.owned) # 4 THEN 2 ELSE 0)
MCSmallDeclaration == part = "effects" =>
  /\ MCDeclarationSize <= MaxAssignments
  /\ declared.companions => declared.facets["recovery"] = "bind"

A == <<"a">>
B == <<"a", "b">>
MCExtensions == {A, B}
MCEscalation == <<"recovery.escalate">>

Fact == B \o <<"note">>
Resource(e) == e \o <<"file">>

MCStep(id, class, selection) ==
  [id |-> id, class |-> class, selection |-> selection, scope |-> "bound-exact",
   targets |-> {}, from |-> {"ACTIVE"}, when |-> <<"plan">> :> {"none", "locked"},
   then |-> Fact :> {"verified"}, assigns |-> {}, writes |-> {Resource(B)},
   recovery |-> MCEscalation, needs |-> {"command.execute"}, product |-> FALSE,
   binds |-> FALSE, reconciles |-> FALSE, priority |-> 1, authority |-> {"repository"}]

MCCore ==
  [id |-> <<"core">>, caps |-> {"repository.write", "command.execute"},
   transitions |->
     {[MCStep(MCEscalation, "recovery", "SYSTEM_RECOVERY") EXCEPT
         !.scope = "optional-preserve", !.from = {"RECOVERY"},
         !.then = <<"plan">> :> {"none"}, !.assigns = {<<"plan">>},
         !.writes = {<<"state">>}, !.authority = {"human"}]}]

MCRuntime ==
  [id |-> <<"std">>, caps |-> {"repository.write", "command.execute"},
   supported |-> {"open", "verified"}, protocol |-> FALSE, facts |-> {},
   contracts |-> [o \in {"open", "verified"} |->
                    {[facet |-> <<"plan">>, values |-> {"locked"}]}],
   resources |-> {<<"plan">>}, recoveries |-> {},
   transitions |->
     {[MCStep(<<"plan", "lock">>, "local", "PROGRAM_PROGRESS") EXCEPT
         !.when = <<"plan">> :> {"none"}, !.then = <<"plan">> :> {"locked"},
         !.assigns = {<<"plan">>}, !.writes = {<<"plan">>}]}]

\* Evidence for one objective, evidence whatever the objective, two
\* recoveries, and a step that is on its own or relies on a recovery.
MCEvidence ==
  [MCStep(B \o <<"verify">>, "local", "OBJECTIVE_REQUIRED") EXCEPT !.targets = {"open"}]
MCFix ==
  [MCStep(A \o <<"fix">>, "recovery", "EXTENSION_RECOVERY") EXCEPT
     !.scope = "optional-preserve", !.from = {"RECOVERY"}, !.writes = {Resource(A)},
     !.then = <<"plan">> :> {"none"}, !.assigns = {<<"plan">>}]
MCRun ==
  [MCStep(B \o <<"run">>, "local", "EXPLICIT_ONLY") EXCEPT
     !.then = <<"plan">> :> {"none"}, !.assigns = {<<"plan">>}]
MCOffers ==
  {MCEvidence, [MCEvidence EXCEPT !.scope = "optional-preserve"], MCFix,
   [MCFix EXCEPT !.id = A \o <<"undo">>, !.from = {"ACTIVE"}, !.writes = {Resource(B)}],
   MCRun, [MCRun EXCEPT !.recovery = A \o <<"fix">>]}

MCClaims == [facts |-> {Fact}, resources |-> {Resource(A), Resource(B)}]
MCObligations ==
  {[target |-> o, facet |-> Fact, values |-> {"verified", "not-required"}]
     : o \in {"open", "verified"}}

MCSnapshots ==
  {[phase |-> IF permitted = {} THEN "ACTIVE" ELSE "RECOVERY", permitted |-> permitted,
    authority |-> {"repository"},
    facets |-> (<<"plan">> :> plan) @@ (Fact :> note) @@ (<<"program">> :> "current")] :
     permitted \in {{}, {MCEscalation}, {MCEscalation, A \o <<"fix">>}},
     plan \in {"none", "locked"}, note \in {"missing", "verified"}}

\* The entries of the manifests.
MCManifestSize(m) ==
  Cardinality(m.deps) + Cardinality(m.facts) + Cardinality(m.resources)
    + Cardinality(m.transitions) + Cardinality(m.obligations)
    + (IF m.caps = {} THEN 0 ELSE 1)

\* Extensions are enabled, get their capabilities and then the rest: one
\* transition, one resource and one obligation at most.
MCSmallManifests == part = "composition" =>
  /\ MCManifestSize(manifests[A]) + MCManifestSize(manifests[B]) <= MaxEntries
  /\ \A e \in Extensions : LET m == manifests[e] IN
       /\ e \in enabled \/ m = Empty
       /\ m.transitions # {} => m.caps # {}
       /\ e \notin m.deps
       /\ Cardinality(m.transitions) <= 1 /\ Cardinality(m.resources) <= 1
       /\ Cardinality(m.obligations) <= 1
       /\ m.recoveries # {} => \A t \in m.transitions : t.class = "recovery"

-----------------------------------------------------------------------------
MCStepOf(priority, guard, target, sets) ==
  [priority |-> priority, guard |-> guard, target |-> target, pre |-> [f \in {} |-> {}],
   takes |-> [n \in {} |-> ""], sets |-> sets]
MCLiteral(value) == [kind |-> "literal", value |-> value]
MCAnswer == [kind |-> "parameter", name |-> "given"]
MCHost == "given" :> [kind |-> "host"]

\* The owner and the grade are answered, one after the other.
MCKnown(facet) == FactIs(facet, {"known"}, {})
MCDone(step) == FactIs("step", {}, {step})
MCAnswered(priority, guard, facet) ==
  [MCStepOf(priority, guard, AnyOf({MCDone("a"), MCDone("b")}),
            (facet :> MCAnswer) @@ ("step" :> MCLiteral(IF facet = "owner" THEN "a" ELSE "b")))
     EXCEPT !.takes = MCHost]
MCDrafted ==
  {[MCAnswered(2, True(TRUE), "owner") EXCEPT !.target = MCDone("a")],
   [MCAnswered(1, MCKnown("owner"), "grade") EXCEPT !.target = MCDone("b")]}

MCGoal == AllOf({FactIs("owner", {}, {"b"}), FactIs("grade", {}, {"b"})})

\* Guards, availabilities and targets.
MCAtoms ==
  {FactIs(f, s, v) : f \in {"owner", "grade"}, s \in {{}, {"known"}, {"absent"}},
                     v \in {{}, {"a"}, {"a", "b"}}}
MCPairs(atoms) == {{p, q} : p \in atoms, q \in atoms}
MCGuards ==
  MCAtoms \cup {True(TRUE)} \cup {NotThat(p) : p \in MCAtoms}
    \cup {AllOf(c) : c \in MCPairs(MCAtoms)} \cup {AnyOf(c) : c \in MCPairs(MCAtoms)}
MCTargets ==
  MCAtoms \cup {AnyOf({p, MCDone("a")}) : p \in MCAtoms} \cup {AllOf({p, MCKnown("step")}) : p \in MCAtoms}
MCEffects ==
  {[pre |-> [f \in {} |-> {}], takes |-> MCHost, sets |-> "owner" :> MCAnswer],
   [pre |-> "owner" :> {"a"}, takes |-> MCHost, sets |-> "step" :> MCLiteral("a")],
   [pre |-> "grade" :> {"a", "b"}, takes |-> [n \in {} |-> ""],
    sets |-> ("grade" :> MCLiteral("b")) @@ ("step" :> MCLiteral("a"))],
   [pre |-> [f \in {} |-> {}], sets |-> "owner" :> MCAnswer,
    takes |-> "given" :> [kind |-> "state", facet |-> "grade",
                          when |-> AnyOf({FactIs("grade", {}, {"a"}), MCKnown("grade")})]]}
MCOffered ==
  {[priority |-> 1, guard |-> g, target |-> t, pre |-> e.pre, takes |-> e.takes,
    sets |-> e.sets] : g \in MCGuards, t \in MCTargets, e \in MCEffects}

-----------------------------------------------------------------------------
\* Nothing is declared where declarations are not the part.
LawsInit ==
  /\ part \in Parts /\ RelationInit /\ CompositionInit
  /\ IF part = "effects" THEN EffectsInit ELSE declared = [owned |-> {}]
  /\ IF part = "declarative" THEN FlowInit ELSE document = {} /\ facts = <<>>

LawsNext ==
  /\ UNCHANGED part
  /\ \/ part = "relation" /\ RelationNext
        /\ UNCHANGED <<declared, compositionVars, flowVars>>
     \/ part = "effects" /\ EffectsNext
        /\ UNCHANGED <<input, compositionVars, flowVars>>
     \/ part = "composition" /\ CompositionNext
        /\ UNCHANGED <<input, declared, flowVars>>
     \/ part = "declarative" /\ RunStep
        /\ UNCHANGED <<input, declared, compositionVars>>

\* What changes in a part.
LawsView ==
  <<part, CASE part = "relation" -> input [] part = "effects" -> declared
            [] part = "composition" -> <<manifests, enabled>>
            [] part = "declarative" -> flowVars>>

LawsSpec == LawsInit /\ [][LawsNext]_<<part, input, declared, compositionVars, flowVars>>
=============================================================================
