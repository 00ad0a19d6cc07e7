------------------------------ MODULE MCLineage ------------------------------
(***************************************************************************)
(* WorktreeLineage in a clone with a main checkout, a second worktree that *)
(* is there from the start and one path for a linked worktree.  The two    *)
(* runs are of different programs and bind the same delivery.              *)
(***************************************************************************)
EXTENDS WorktreeLineage, TLC

CONSTANTS main, second, f, g

RefOf(w) == <<"ref", w>>
SameDelivery(r) == "delivery"

\* Nothing tells the two runs apart, nor the two worktrees.
Renamings == {p @@ q : p \in Permutations({main, second}), q \in Permutations({f, g})}
=============================================================================
