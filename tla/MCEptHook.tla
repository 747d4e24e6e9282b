----------------------------- MODULE MCEptHook -----------------------------
(* Small instances of EptHook.                                             *)
EXTENDS EptHook_proofs, TLC

Symmetry == Permutations(Core)
==========================================================================
