------------------------------ MODULE MCDaemon ------------------------------
(***************************************************************************)
(* Daemon with a repository of one file.                                   *)
(***************************************************************************)
EXTENDS Daemon
=============================================================================
