----------------------------- MODULE MCInventory -----------------------------
(***************************************************************************)
(* Two files with two contents, which take each other's place.             *)
(***************************************************************************)
EXTENDS Inventory, TLC

CONSTANTS p, q, c, d

(* The tables that the two schema files of the repository create. *)
MCSchemas == {{"fs_items"}, {"fs_changes"}}

MCSymmetry == Permutations({p, q}) \cup Permutations({c, d})
==============================================================================
