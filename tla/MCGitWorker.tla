---------------------------- MODULE MCGitWorker ----------------------------
(* TLC instance of GitWorker: the directories are interchangeable. *)
EXTENDS GitWorker, TLC

CONSTANTS d1, d2
=============================================================================
