---------------------------- MODULE MCRepoCache ----------------------------
(***************************************************************************)
(* RepoCache on its own: any requests, two files.                          *)
(***************************************************************************)
EXTENDS RepoCache, TLC

Symmetry == Permutations(Files)
=============================================================================
