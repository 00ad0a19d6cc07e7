---------------------------- MODULE MCProjections ----------------------------
(***************************************************************************)
(* Who writes generated files, one at a time (`part`).                     *)
(*                                                                         *)
(* edits        Two compilers of the source A, whose versions render a     *)
(*              skill apart and of which one retires another skill, under  *)
(*              a user who edits its files and the source.                 *)
(* maintenance  One compiler at a time of the sources B and C, which own   *)
(*              the shared file only, and the maintenance command, whose   *)
(*              host has a file of its own; nobody edits.                  *)
(*                                                                         *)
(* Paths of no host are of one that stays selected.                        *)
(***************************************************************************)
EXTENDS MaintenanceProjection, TLC

CONSTANTS
  A, B, C, cursor,
  skill, old, update, shared, artA, artB, artC,   \* paths
  skill1, skill2, old1, update1, attributes       \* bytes

VARIABLE part

MCOrder == <<old, skill, artA, artB, artC, shared, update>>
MCHostOf == [p \in Paths |-> IF p \in {shared, update} THEN cursor ELSE None]
MCMaintained == (shared :> attributes) @@ (update :> update1)
MCRendered ==
  A :> << (skill :> skill1) @@ (old :> old1) @@ (shared :> attributes),
          (skill :> skill2) @@ (shared :> attributes) >>
  @@ [s \in {B, C} |-> <<shared :> attributes, shared :> attributes>>]
MCArtifactAt == (A :> <<artA, artA>>) @@ (B :> <<artB, artB>>) @@ (C :> <<artC, artC>>)
MCContents == {skill1, skill2, old1, update1, attributes}

ASSUME EachSourceHasItsProgram == FlowsAreApart

Others == {artB, artC, update}   \* paths that are not of the source A

ProjectionsInit ==
  /\ MaintainedInit
  /\ part \in {"edits", "maintenance"}
  /\ \A p \in IF part = "edits" THEN {artB, artC} ELSE {old, skill, artA} : file[p] = Absent
  /\ \A s \in Sources : (part = "edits" /\ s = A) \/ source[s] = 1
  /\ \A p \in {artB, artC} : file[p] = Absent \/ file[p].inputs.version = 1

EditsNext ==
  /\ Next /\ UNCHANGED <<effect, loose>>
  /\ \A c \in Compilers : job'[c].source \in {A, None}
  /\ \A p \in Others : file'[p] = file[p]
  /\ \A s \in {B, C} : source'[s] = source[s]
  /\ changes' <= 1 /\ faults' <= 1 /\ edits' + changes' + faults' <= 3

MaintenanceNext ==
  /\ UNCHANGED <<source, edits>>
  /\ MaintainedNext
  /\ \A c \in Compilers : job'[c].source # A
  /\ \A c, d \in Compilers : pc'[c] # "idle" /\ pc'[d] # "idle" => c = d

ProjectionsNext ==
  /\ UNCHANGED part
  /\ \/ part = "edits" /\ EditsNext
     \/ part = "maintenance" /\ MaintenanceNext

ProjectionsSpec == ProjectionsInit /\ [][ProjectionsNext]_<<part, allVars>>

\* The compilers run the same program.
Alike == Permutations(Compilers)
=============================================================================
