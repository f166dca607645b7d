----------------------------- MODULE MCAcoArena -----------------------------
(***************************************************************************)
(* Two arenas over a few blocks.  The header, the sizes and the limits are *)
(* those of the code scaled down, in the same order; one size needs more   *)
(* than maximum_block_size.                                                *)
(***************************************************************************)
EXTENDS AcoArena, TLC

Symmetry == Permutations(Blocks) \cup Permutations(Arenas)
=============================================================================
