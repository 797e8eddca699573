-------------------------- MODULE MCModelResidency --------------------------
(* ModelResidency with two models that push each other out of VRAM. *)
EXTENDS ModelResidency

CONSTANTS qwen, gemma

MCModels == {qwen, gemma}
\* gemma may leave the inventory at a restart.
MCInventories == {{qwen, gemma}, {qwen}}
=============================================================================
