------------------------------ MODULE Session ------------------------------
(***************************************************************************)
(* Several engines of one user, their run directories, and `p11k reload`   *)
(* (state.rs, the reload part of cli.rs and engine.rs, log.rs).            *)
(*                                                                         *)
(* Engines share nothing but the file system and the process table: each   *)
(* owns run-<pid>, removes on its start the ones whose process is gone,    *)
(* and takes reload requests from commands that know it by an environment  *)
(* (pid, token, directory) that may outlive it.  Every step here is one    *)
(* system call or a few that nobody else can tell apart.                   *)
(***************************************************************************)
EXTENDS Naturals, FiniteSets

CONSTANTS Pids,        \* process ids that engines and foreign processes take
          Configs,     \* theme files
          None,        \* Option::None, a file that does not exist
          Empty,       \* a file that was truncated and not written yet
          Mixed,       \* the bytes of two paths written over each other
          Commands,    \* the runs of `p11k reload`
          DefaultConfig, \* the theme file in the config directory, or None
          MaxStarts,   \* bound: engines started
          MaxLog,      \* see Log
          Strangers,   \* reload may run, or go on running, while the pid in its environment belongs to a
                       \* process that has not written the directory: a foreign one,
                       \* or an engine that has just begun
          OneAtATime   \* no reload command starts while another runs

VARIABLES
    pc,      \* pc[p]: what the process p is doing, "none" if there is none
    eng,     \* eng[p]: the variables of the engine p, see Engine
    run,     \* run[p]: the directory run-<p>, None or [session, current, request, ack]
    cmd,     \* cmd[k]: the reload command k
    starts,  \* engines started so far: the token of the next one
    shells,  \* what engines exported to their shells: [pid, token, startup]
    asked,   \* asked[p]: the file the last successful reload of p asked for
    log, fd  \* see Log

vars == <<pc, eng, run, cmd, starts, shells, asked, log, fd>>

L == INSTANCE Log WITH Writers <- Pids

File   == Configs \cup {None, Empty, Mixed}
Tokens == 0..MaxStarts
\* todo: run directories still to look at; doomed: those found without a process.
\* hunted: history, some sweep had found its pid without a process when it started.
Engine == [token : Tokens, config_path : File, used : File, flag : BOOLEAN,
           todo : SUBSET Pids, doomed : SUBSET Pids, request : File, hunted : BOOLEAN]
Dir    == [session : Tokens, current : File, request : File, ack : Tokens \cup {None}]
\* linked: the request file the command has open is still the one in the directory.
Command == [pc : {"idle", "verify", "target", "open", "write", "kill", "done"},
            pid : Pids \cup {None}, token : Tokens, startup : File, target : File, linked : BOOLEAN]

\* The process table is finite; None is no directory.
ASSUME SessionAssumption ==
    /\ {MaxStarts, MaxLog} \subseteq Nat
    /\ {Strangers, OneAtATime} \subseteq BOOLEAN
    /\ DefaultConfig \in Configs \cup {None}
    /\ {None, Empty, Mixed} \cap Configs = {}
    /\ IsFiniteSet(Pids)
    /\ None \notin Dir

NoEngine == [token |-> 0, config_path |-> None, used |-> None, flag |-> FALSE,
             todo |-> {}, doomed |-> {}, request |-> None, hunted |-> FALSE]
NewDir   == [session |-> 0, current |-> None, request |-> None, ack |-> None]

\* What an engine of long ago has left behind when it crashed, as in the tests of state.rs.
Leftover == [session |-> 0, current |-> None, request |-> Empty, ack |-> 0]

Idle     == [pc |-> "idle", pid |-> None, token |-> 0, startup |-> None,
             target |-> None, linked |-> FALSE]

\* Where an engine is: before its handlers are installed, and after.
Starting == {"sweep", "create", "replace", "fill", "record", "startlog",
             "spawn", "handlers"}
Serving  == {"loop", "read", "unlink", "load", "retruncate", "rerecord", "log"}
Engines  == {p \in Pids : pc[p] \in Starting \cup Serving}

Init ==
    /\ pc = [p \in Pids |-> "none"]
    /\ eng = [p \in Pids |-> NoEngine]
    /\ run \in [Pids -> {None, Leftover}]
    /\ cmd = [k \in Commands |-> Idle]
    /\ starts = 0
    /\ shells = {}
    /\ asked = [p \in Pids |-> None]
    /\ L!Init

-----------------------------------------------------------------------------
(* Processes and their ends *)

\* The kernel gives a pid to anybody as soon as nobody has it, also one that a sweep
\* has just found free.  Only a command that knows the pid keeps it from others, and
\* only without strangers.
Hunted(p) == \E q \in Pids : p \in eng[q].doomed
Reusable(p) ==
    /\ pc[p] = "none"
    /\ Strangers \/ \A k \in Commands : cmd[k].pc \in {"idle", "done"} \/ cmd[k].pid # p

\* Another program gets the pid, and ends.
Foreign(p) ==
    /\ \/ Reusable(p) /\ pc' = [pc EXCEPT ![p] = "foreign"]
       \/ pc[p] = "foreign" /\ pc' = [pc EXCEPT ![p] = "none"]
    /\ UNCHANGED <<eng, run, cmd, starts, shells, asked, log, fd>>

\* What is left of an engine that is gone: nothing but its directory.
Gone(p) ==
    /\ pc' = [pc EXCEPT ![p] = "none"]
    /\ eng' = [eng EXCEPT ![p] = NoEngine]
    /\ fd' = [fd EXCEPT ![p] = "none"]

\* Its request file is removed: one that somebody has open is no longer the one named.
Unlinked(p) == cmd' = [k \in Commands |-> [cmd[k] EXCEPT !.linked = @ /\ cmd[k].pid # p]]

\* Its directory is removed, with the file.
Removed(p) == run' = [run EXCEPT ![p] = None] /\ Unlinked(p)

\* The loop ends, or a `?` leaves it: Drop removes the directory.
Exit(p) ==
    /\ p \in Engines
    /\ pc[p] \notin {"sweep", "create", "replace", "fill"}
    /\ Gone(p)
    /\ Removed(p)
    /\ UNCHANGED <<starts, shells, asked, log>>

\* SIGKILL, a panic = "abort", power: the directory stays as it is.
Crash(p) ==
    /\ p \in Engines
    /\ Gone(p)
    /\ UNCHANGED <<run, cmd, starts, shells, asked, log>>

-----------------------------------------------------------------------------
(* The start of an engine *)

Goto(p, to) == pc' = [pc EXCEPT ![p] = to]

\* run: the theme is chosen; remove_stale_runs lists the directories.
Start(p, c) ==
    /\ Reusable(p)
    /\ starts < MaxStarts
    /\ starts' = starts + 1
    /\ Goto(p, "sweep")
    /\ eng' = [eng EXCEPT ![p] = [NoEngine EXCEPT
                  !.token = starts', !.config_path = c, !.used = c,
                  !.todo = {q \in Pids \ {p} : run[q] # None}, !.hunted = Hunted(p)]]
    /\ asked' = [asked EXCEPT ![p] = c]
    /\ UNCHANGED <<run, cmd, shells, log, fd>>

\* kill(pid, 0): any process keeps the directory.
Dead(q) == pc[q] = "none"

SweepLook(p) ==
    /\ pc[p] = "sweep"
    /\ eng[p].doomed = {}
    /\ \E q \in eng[p].todo :
          eng' = [eng EXCEPT ![p].todo = @ \ {q},
                             ![p].doomed = IF Dead(q) THEN {q} ELSE {}]
    /\ UNCHANGED <<pc, run, cmd, starts, shells, asked, log, fd>>

\* remove_dir_all, as one step: whoever has the pid by now.
SweepRemove(p) ==
    /\ \E q \in eng[p].doomed : Removed(q)
    /\ eng' = [eng EXCEPT ![p].doomed = {}]
    /\ UNCHANGED <<pc, starts, shells, asked, log, fd>>

\* A mutant: an old directory of the same pid is used as it is.
CreateReuses(p) ==
    /\ pc[p] = "sweep" /\ eng[p].todo = {} /\ eng[p].doomed = {}
    /\ Goto(p, "fill")
    /\ run' = [run EXCEPT ![p] = IF @ = None THEN NewDir ELSE @]
    /\ UNCHANGED <<eng, cmd, starts, shells, asked, log, fd>>

\* create_dir: a directory that is in the way is replaced.
Create(p) ==
    /\ \/ pc[p] = "sweep" /\ eng[p].todo = {} /\ eng[p].doomed = {}
       \/ pc[p] = "create"
    /\ IF run[p] = None
          THEN Goto(p, "fill") /\ run' = [run EXCEPT ![p] = NewDir]
          ELSE Goto(p, "replace") /\ UNCHANGED run
    /\ UNCHANGED <<eng, cmd, starts, shells, asked, log, fd>>

\* remove_dir_all fails if a sweep has been quicker; then the engine ends.
Replace(p) ==
    /\ pc[p] = "replace"
    /\ IF run[p] = None
          THEN Gone(p) /\ UNCHANGED <<run, cmd>>
          ELSE Removed(p) /\ Goto(p, "create") /\ UNCHANGED <<eng, fd>>
    /\ UNCHANGED <<starts, shells, asked, log>>

\* A step of the start that needs the directory; without it the engine ends.
InDir(p, at, to, dir) ==
    /\ pc[p] = at
    /\ IF run[p] = None
          THEN Gone(p) /\ UNCHANGED run
          ELSE /\ run' = [run EXCEPT ![p] = dir]
               /\ Goto(p, to)
               /\ UNCHANGED <<eng, fd>>
    /\ UNCHANGED <<cmd, starts, shells, asked, log>>

\* create_in: the token, the FIFO, the rc file.
Fill(p) == InDir(p, "fill", "record", [run[p] EXCEPT !.session = eng[p].token])

\* write_current_config: truncate, then write; no file without a theme file.
CurrentTruncated(p) ==
    [run[p] EXCEPT !.current = IF eng[p].config_path = None THEN None ELSE Empty]
\* A mutant of CurrentWritten: only the start records the file.
CurrentAtStart(p) ==
    [run[p] EXCEPT !.current = IF pc[p] = "record" THEN eng[p].config_path ELSE @]

CurrentWritten(p) == [run[p] EXCEPT !.current = eng[p].config_path]

\* The first time nobody reads the file yet.
Record(p) == InDir(p, "record", "startlog", CurrentWritten(p))

\* info: a line of the log, with all that append does.
LogLine(p, at, to) ==
    /\ pc[p] = at
    /\ \/ ~L!Busy(p) /\ L!Open(p) /\ UNCHANGED pc
       \/ L!Step(p) /\ IF L!Busy(p)' THEN UNCHANGED pc ELSE Goto(p, to)
    /\ UNCHANGED <<eng, run, cmd, starts, shells, asked>>

\* The shell gets the environment that `p11k reload` will use.
Spawn(p) ==
    /\ pc[p] = "spawn"
    /\ shells' = shells \cup {[pid |-> p, token |-> eng[p].token,
                               startup |-> eng[p].config_path]}
    /\ Goto(p, "handlers")
    /\ UNCHANGED <<eng, run, cmd, starts, asked, log, fd>>

Handlers(p) ==
    /\ pc[p] = "handlers"
    /\ Goto(p, "loop")
    /\ UNCHANGED <<eng, run, cmd, starts, shells, asked, log, fd>>

-----------------------------------------------------------------------------
(* The loop of an engine, as far as reload and the ack go *)

\* A prompt: write_ack in the own directory; the shell removes it when it reads it.
\* Without the directory `?` ends the engine, see Exit.
WriteAck(p) ==
    /\ pc[p] = "loop"
    /\ run[p] # None
    /\ run' = [run EXCEPT ![p].ack = IF @ = None THEN eng[p].token ELSE None]
    /\ UNCHANGED <<pc, eng, cmd, starts, shells, asked, log, fd>>

\* RELOAD_FLAG.swap
SeeFlag(p) ==
    /\ pc[p] = "loop"
    /\ eng[p].flag
    /\ eng' = [eng EXCEPT ![p].flag = FALSE]
    /\ Goto(p, "read")
    /\ UNCHANGED <<run, cmd, starts, shells, asked, log, fd>>

Request(p) == IF run[p] = None THEN None ELSE run[p].request

\* take_reload_request, fs::read: no file is a plain reload.
ReadRequest(p) ==
    /\ pc[p] = "read"
    /\ eng' = [eng EXCEPT ![p].request = Request(p)]
    /\ Goto(p, IF Request(p) = None THEN "load" ELSE "unlink")
    /\ UNCHANGED <<run, cmd, starts, shells, asked, log, fd>>

\* A mutant: the request is read and left there.
RemoveRequestNever(p) ==
    /\ pc[p] = "unlink"
    /\ Goto(p, "load")
    /\ UNCHANGED <<eng, run, cmd, starts, shells, asked, log, fd>>

\* take_reload_request, fs::remove_file: an error gives up the reload.
RemoveRequest(p) ==
    /\ pc[p] = "unlink"
    /\ IF Request(p) = None
          THEN Goto(p, "log") /\ UNCHANGED <<run, cmd>>
          ELSE /\ run' = [run EXCEPT ![p].request = None]
               /\ Unlinked(p)
               /\ Goto(p, "load")
    /\ UNCHANGED <<eng, starts, shells, asked, log, fd>>

\* The path is taken over before the file is read; a file that does not parse
\* leaves the theme in use, but not the path.
Load(p) ==
    /\ pc[p] = "load"
    /\ LET file == IF eng[p].request \in {None, Empty} THEN eng[p].config_path
                                                       ELSE eng[p].request IN
       \/ /\ file \in Configs
          /\ eng' = [eng EXCEPT ![p].config_path = file, ![p].used = file]
          /\ Goto(p, "retruncate")
       \/ /\ eng' = [eng EXCEPT ![p].config_path = file]
          /\ Goto(p, "log")
    /\ UNCHANGED <<run, cmd, starts, shells, asked, log, fd>>

\* write_current_config; `?` without the directory.
Retruncate(p) == InDir(p, "retruncate", "rerecord", CurrentTruncated(p))
Rerecord(p)   == InDir(p, "rerecord", "log", CurrentWritten(p))

-----------------------------------------------------------------------------
(* p11k reload *)

Step(k, to) == cmd' = [cmd EXCEPT ![k].pc = to]
Fail(k) == cmd' = [cmd EXCEPT ![k] = [Idle EXCEPT !.pc = "done"]]

\* The command starts in a process with the environment of an engine's shell.  The
\* shell is hung up with its engine; a tmux server started in it is not.
Begin(k, sh) ==
    /\ cmd[k].pc = "idle"
    /\ OneAtATime => \A j \in Commands : cmd[j].pc \in {"idle", "done"}
    /\ \/ Strangers
       \/ pc[sh.pid] \notin Starting \cup {"foreign"}
       \/ eng[sh.pid].token = sh.token
    /\ cmd' = [cmd EXCEPT ![k] = [Idle EXCEPT !.pc = "verify", !.pid = sh.pid,
                                    !.token = sh.token, !.startup = sh.startup]]
    /\ UNCHANGED <<pc, eng, run, starts, shells, asked, log, fd>>

Rest == <<pc, eng, starts, shells, asked, log, fd>>

\* A mutant: any directory will do.
VerifyNothing(k) ==
    /\ cmd[k].pc = "verify"
    /\ Step(k, "target")
    /\ UNCHANGED <<run, Rest>>

\* verify_session: the token in the directory is the one of the environment.
Verify(k) ==
    /\ cmd[k].pc = "verify"
    /\ LET dir   == run[cmd[k].pid]
           match == dir # None /\ dir.session = cmd[k].token
       IN  IF match THEN Step(k, "target") ELSE Fail(k)
    /\ UNCHANGED <<run, Rest>>

\* reload_target without --config, in the order it looks.
PlainTarget(k) ==
    LET dir == run[cmd[k].pid]
        current == IF dir = None THEN None ELSE dir.current
    IN  CASE current \notin {None, Empty} -> current
          [] cmd[k].startup # None        -> cmd[k].startup
          [] OTHER                        -> DefaultConfig

\* The file to load, parsed here first: the user hears of an error.
Target(k, config) ==
    /\ cmd[k].pc = "target"
    /\ LET target == IF config # None THEN config ELSE PlainTarget(k) IN
       \/ /\ target \in Configs
          /\ cmd' = [cmd EXCEPT ![k].pc = "open", ![k].target = target]
          /\ asked' = IF config = None THEN asked
                                       ELSE [asked EXCEPT ![cmd[k].pid] = config]
       \/ Fail(k) /\ UNCHANGED asked     \* no file, or it does not parse
    /\ UNCHANGED <<run, pc, eng, starts, shells, log, fd>>

\* write_private, open: an old request is truncated.
OpenRequest(k) ==
    /\ cmd[k].pc = "open"
    /\ LET p == cmd[k].pid IN
       \/ /\ run[p] # None
          /\ run' = [run EXCEPT ![p].request = Empty]
          /\ cmd' = [cmd EXCEPT ![k].pc = "write", ![k].linked = TRUE]
       \/ run[p] = None /\ Fail(k) /\ UNCHANGED run
    /\ UNCHANGED Rest

\* write_private, write: two commands write from the start of one file, and the
\* longer path shows behind the shorter one.
WriteRequest(k) ==
    /\ cmd[k].pc = "write"
    /\ LET p == cmd[k].pid IN
       IF cmd[k].linked
          THEN \E bytes \in {cmd[k].target} \cup
                    IF run[p].request = Empty THEN {} ELSE {Mixed} :
                  run' = [run EXCEPT ![p].request =
                             IF @ = cmd[k].target THEN @ ELSE bytes]
          ELSE UNCHANGED run
    /\ Step(k, "kill")
    /\ UNCHANGED Rest

\* kill(pid, SIGUSR1): to whoever has the pid.  Before its handler is there an
\* engine dies of it, as does a foreign process.
Kill(k) ==
    /\ cmd[k].pc = "kill"
    /\ Fail(k)
    /\ LET p == cmd[k].pid IN
       \/ /\ pc[p] \in Serving
          /\ eng' = [eng EXCEPT ![p].flag = TRUE]
          /\ UNCHANGED <<pc, run, fd>>
       \/ /\ pc[p] \in Starting \cup {"foreign"}
          /\ Gone(p)
          /\ UNCHANGED run
       \/ /\ pc[p] = "none"
          /\ run' = [run EXCEPT ![p] = IF @ = None THEN @ ELSE [@ EXCEPT !.request = None]]
          /\ UNCHANGED <<pc, eng, fd>>
    /\ UNCHANGED <<starts, shells, asked, log>>

-----------------------------------------------------------------------------
EngineStep(p) ==
    \/ SweepLook(p) \/ SweepRemove(p) \/ Create(p) \/ Replace(p) \/ Fill(p)
    \/ Record(p) \/ LogLine(p, "startlog", "spawn") \/ Spawn(p) \/ Handlers(p)
    \/ SeeFlag(p) \/ ReadRequest(p) \/ RemoveRequest(p) \/ Load(p)
    \/ Retruncate(p) \/ Rerecord(p) \/ LogLine(p, "log", "loop")

CommandStep(k) ==
    \/ Verify(k) \/ (\E c \in Configs \cup {None} : Target(k, c))
    \/ OpenRequest(k) \/ WriteRequest(k) \/ Kill(k)

Next ==
    \/ \E p \in Pids : \/ \E c \in Configs \cup {None} : Start(p, c)
                       \/ EngineStep(p) \/ WriteAck(p) \/ Exit(p) \/ Crash(p) \/ Foreign(p)
    \/ \E k \in Commands : CommandStep(k) \/ \E sh \in shells : Begin(k, sh)

Spec == Init /\ [][Next]_vars

-----------------------------------------------------------------------------
TypeOK ==
    /\ pc \in [Pids -> Starting \cup Serving \cup {"none", "foreign"}]
    /\ eng \in [Pids -> Engine]
    /\ run \in [Pids -> Dir \cup {None}]
    /\ cmd \in [Commands -> Command]
    /\ starts \in Tokens
    /\ shells \subseteq [pid : Pids, token : Tokens, startup : File]
    /\ asked \in [Pids -> File]
    /\ L!TypeOK

\* Engines that have made their directory.
InDirectory == Serving \cup {"fill", "record", "startlog", "spawn", "handlers"}

\* An engine that has made its directory has it, its own token in it as soon as the
\* directory is filled, and no ack of an earlier engine.  One that started under the
\* eyes of a sweep may have lost it, as a whole.
OwnDirectory ==
    \A p \in Pids : pc[p] \in InDirectory =>
       IF run[p] = None
          THEN eng[p].hunted
          ELSE /\ pc[p] # "fill" => run[p].session = eng[p].token
               /\ run[p].ack \in {None, eng[p].token}

\* What a sweep has found without a process is only that of a later engine.
DoomedAreDead ==
    \A p, q \in Pids : q \in eng[p].doomed =>
       Dead(q) \/ pc[q] = "foreign" \/ eng[q].hunted

\* The theme in use is that of config_path until a reload fails, and the file records
\* it except between a reload and its record.
Unrecorded == {"sweep", "create", "replace", "fill", "record", "retruncate", "rerecord"}
RecordedIsInUse ==
    \A p \in Engines : IF pc[p] \in Unrecorded
                          THEN eng[p].config_path = eng[p].used
                          ELSE run[p] # None => run[p].current = eng[p].used

\* A command between its first look at the environment and its end.
Active(k) == cmd[k].pc \notin {"idle", "done"}

\* An active command has a pid, and the file it has open is in a directory.
CommandsAreBound ==
    \A k \in Commands :
       /\ Active(k) => cmd[k].pid \in Pids
       /\ cmd[k].linked => Active(k) /\ run[cmd[k].pid] # None

\* A request in the directory of an engine has somebody to answer for it: the command
\* that is about to send the signal, the flag, or the engine that is taking it.
RequestsAreAnnounced ==
    \A p \in Pids : pc[p] \in InDirectory /\ Request(p) # None =>
       \/ eng[p].flag
       \/ pc[p] \in {"read", "unlink"}
       \/ \E k \in Commands : cmd[k].pid = p /\ cmd[k].pc \in {"write", "kill"}

\* Engines and what they exported have a token; nothing is left of one that is gone.
TokensAreGiven ==
    /\ \A p \in Pids : IF p \in Engines THEN eng[p].token # 0 ELSE eng[p] = NoEngine
    /\ \A sh \in shells : sh.token # 0

\* Without strangers a command that has verified the token has it from the engine that
\* runs now, or from one that is gone.
CommandsKnowTheirEngine ==
    ~Strangers => \A k \in {c \in Commands : Active(c)} :
       LET p == cmd[k].pid IN
       \/ pc[p] = "none"
       \/ p \in Engines /\ eng[p].token = cmd[k].token
       \/ pc[p] \in Serving /\ cmd[k].pc = "verify"

\* The lines of the log and the writers that may add one to it without looking again.
LogHasRoom ==
    log.cur + Cardinality({p \in Pids : fd[p] \in {"cur", "reopen"}})
        <= MaxLog + Cardinality(Pids)

\* Whatever crashed before and whoever sweeps meanwhile, an engine that serves a shell
\* has its directory, with its own token and no ack of an earlier engine (state.rs,
\* create_run_dir and remove_stale_runs), unless a sweep had found its pid free just
\* before it started: then it may lose the directory, but never finds another in its
\* place.  And all that this and the invariants below rest on, as one inductive invariant.
SessionInv ==
    /\ TypeOK /\ OwnDirectory /\ DoomedAreDead /\ RecordedIsInUse /\ CommandsAreBound
    /\ RequestsAreAnnounced /\ TokensAreGiven /\ CommandsKnowTheirEngine /\ LogHasRoom

\* An engine at rest, with nobody about to ask it for a reload.
AtRest(p) ==
    /\ pc[p] = "loop"
    /\ ~eng[p].flag
    /\ \A k \in Commands : cmd[k].pid = p => cmd[k].pc \in {"idle", "done"}

\* What a plain reload will read again is the file whose theme is on the screen,
\* also after a request for a file that does not parse (engine.rs, the reload at
\* the top of the loop; cli.rs, reload_target).  An engine that a sweep has robbed of
\* its directory has no such file.
CurrentIsInUse ==
    \A p \in Pids : pc[p] = "loop" /\ ~eng[p].hunted => run[p].current = eng[p].used

\* No request is left behind for a later reload that did not make it, however
\* commands and the engine overtake each other (state.rs, take_reload_request).
RequestsAreConsumed == \A p \in Pids : AtRest(p) => Request(p) = None

\* SIGUSR1 goes to the engine whose environment the command has, never to another
\* process that got its pid (cli.rs, the comment of reload_engine).
SignalsItsEngine ==
    [][\A k \in Commands :
          cmd[k].pc = "kill" /\ cmd'[k].pc = "done" =>
             LET p == cmd[k].pid IN
             pc[p] = "none" \/ (p \in Engines /\ eng[p].token = cmd[k].token)]_vars

\* The log stays bounded with several engines that rotate it without a lock: no
\* more than one line of each above its limit (log.rs, append).
LogIsBounded == log.cur <= MaxLog + Cardinality(Pids)

\* When every command has succeeded and the engine is at rest, it stands on the
\* file that was asked for last (state.rs, the comment of reload_request: "the
\* engine consumes it and switches to that file").  It does not: see README.
LastRequestWins == \A p \in Pids : AtRest(p) => eng[p].config_path = asked[p]
=============================================================================
