-------------------------------- MODULE Log --------------------------------
(***************************************************************************)
(* The diagnostics log (log.rs), one file that all engines of a user       *)
(* append to.  A writer that finds it past its limit moves it to its one   *)
(* kept generation and opens a new one, without locking anybody out.       *)
(*                                                                         *)
(* A file is its number of lines; a descriptor stays with its file when    *)
(* the name moves.                                                         *)
(***************************************************************************)
EXTENDS Integers

CONSTANTS Writers,
          MaxLog      \* MAX_LOG_BYTES, in lines

Absent == -1          \* the length of a file that does not exist

VARIABLES
    log,    \* log.cur and log.old: lines of p11k-engine.log and of its .log.1
    fd      \* fd[w]: the file writer w has open: "none", "cur", "old", "gone", or
            \* "rotate", "reopen" when it has closed it to replace it

TypeOK ==
    /\ log \in [{"cur", "old"} -> Int]
    /\ fd \in [Writers -> {"none", "cur", "old", "gone", "rotate", "reopen"}]

Init ==
    /\ log = [cur |-> Absent, old |-> Absent]
    /\ fd = [w \in Writers |-> "none"]

\* OpenOptions::create: the file exists from now on.
Created == [log EXCEPT !.cur = IF @ = Absent THEN 0 ELSE @]

\* A mutant: the size is looked at only when the engine starts.
OpenUnchecked(w) ==
    /\ fd[w] = "none"
    /\ log' = Created
    /\ fd' = [fd EXCEPT ![w] = "cur"]

\* append: open the file, look at its size.
Open(w) ==
    /\ fd[w] = "none"
    /\ log' = Created
    /\ fd' = [fd EXCEPT ![w] = IF Created.cur > MaxLog THEN "rotate" ELSE "cur"]

\* rename: whoever has the file open keeps it under its new name; a file that
\* another writer has moved and not yet opened anew cannot be moved again.
Rotate(w) ==
    /\ fd[w] = "rotate"
    /\ \/ log.cur = Absent /\ fd' = [fd EXCEPT ![w] = "reopen"] /\ UNCHANGED log
       \/ /\ log.cur # Absent
          /\ log' = [cur |-> Absent, old |-> log.cur]
          /\ fd' = [v \in Writers |->
                       CASE v = w         -> "reopen"
                         [] fd[v] = "cur" -> "old"
                         [] fd[v] = "old" -> "gone"
                         [] OTHER         -> fd[v]]

Reopen(w) ==
    /\ fd[w] = "reopen"
    /\ log' = Created
    /\ fd' = [fd EXCEPT ![w] = "cur"]

\* writeln, and the file is closed.
Write(w) ==
    /\ fd[w] \in {"cur", "old", "gone"}
    /\ log' = IF fd[w] = "gone" THEN log ELSE [log EXCEPT ![fd[w]] = @ + 1]
    /\ fd' = [fd EXCEPT ![w] = "none"]

Step(w) == Rotate(w) \/ Reopen(w) \/ Write(w)

\* A writer in the middle of append.
Busy(w) == fd[w] # "none"
=============================================================================
