---------------------------- MODULE MCFmFcache ----------------------------
(***************************************************************************)
(* The lfiles and the users of the file cache are interchangeable.         *)
(***************************************************************************)
EXTENDS FmFcache, TLC

Symmetry == Permutations(Lfile) \cup Permutations(User)
=============================================================================
