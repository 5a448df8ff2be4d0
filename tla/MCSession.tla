----------------------------- MODULE MCSession -----------------------------
(***************************************************************************)
(* Session on small instances: two pids, up to two starts on them, two     *)
(* theme files.  Pids, commands and files are interchangeable.             *)
(***************************************************************************)
EXTENDS Session, TLC

Symmetry == Permutations(Pids) \cup Permutations(Commands) \cup Permutations(Configs)
=============================================================================
