----------------------------- MODULE MCPrCache -----------------------------
(***************************************************************************)
(* Two executables that are interchangeable.                               *)
(***************************************************************************)
EXTENDS PrCache, TLC

Symmetry == Permutations(Exe)
=============================================================================
