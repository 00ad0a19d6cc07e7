----------------------------- MODULE MCLifecycle -----------------------------
(***************************************************************************)
(* Small instances of DeliveryLifecycle.                                   *)
(***************************************************************************)
EXTENDS DeliveryLifecycle, TLC

CONSTANTS d1, d2, t1, t2

MCSymmetry == Permutations(Texts) \cup Permutations(Deliveries)

MCRules(visual) == [visual |-> visual, approval |-> "human", independent |-> FALSE]
MCOptional == MCRules("optional")
MCPolicies == {MCRules("optional"), MCRules("required")}

MCAuthorities == {{"human", "repository-policy", "external-provider"}}

\* What continuing does not select is asked for by name.
MCAsked == {id \in DOMAIN Catalog : ~ImplicitlySelectable(Catalog[id])} \cup {"objective.bind"}

MCDisturbances ==
  {"plan", "evidence", "tree", "commit", "configuration", "runtime", "publication"}
=============================================================================
