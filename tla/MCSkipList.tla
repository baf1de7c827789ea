----------------------------- MODULE MCSkipList -----------------------------
(***************************************************************************)
(* Interchangeable blocks of one, two or three units; requests from below  *)
(* the smallest capacity to above the largest.                             *)
(***************************************************************************)
EXTENDS SkipList, TLC

Symmetry == Permutations(Blocks)
=============================================================================
