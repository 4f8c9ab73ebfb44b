----------------------------- MODULE MCResource -----------------------------
(* Resource with the symmetry of its model values, for TLC.                *)
EXTENDS Resource, TLC

Symmetry == Permutations(Resources) \cup Permutations(Blocks)
=============================================================================
