---------------------------- MODULE SessionProofs ----------------------------
(***************************************************************************)
(* Theorems about Session, for any number of pids, engines, reload         *)
(* commands and theme files.                                               *)
(***************************************************************************)
EXTENDS Session, FiniteSetTheorems, TLAPS

----------------------------------------------------------------------------
(* Values. *)

\* What processes, directories and commands are made of.
LEMMA Values ==
    /\ None \in File /\ Empty \in File /\ Mixed \in File /\ Configs \subseteq File
    /\ Configs \cup {None} \subseteq File
    /\ 0 \in Tokens /\ Tokens \subseteq Nat
    /\ NoEngine \in Engine /\ NewDir \in Dir /\ Leftover \in Dir /\ Idle \in Command
    /\ None \notin Dir
  BY SessionAssumption DEF File, Tokens, NoEngine, Engine, NewDir, Leftover, Dir, Idle, Command

\* Where an engine is.
LEMMA Stages ==
    /\ InDirectory \subseteq Starting \cup Serving
    /\ \A s \in InDirectory \cup Starting \cup Serving : s # "none" /\ s # "foreign"
    /\ \A s \in Serving : s \notin Starting
  BY DEF InDirectory, Starting, Serving

----------------------------------------------------------------------------
(* Types. *)

\* The log keeps its type.
LEMMA LogTypes ==
    ASSUME L!TypeOK, NEW p \in Pids, L!Open(p) \/ L!Step(p)
    PROVE  L!TypeOK'
  BY DEF L!TypeOK, L!Open, L!Step, L!Created, L!Absent, L!Rotate, L!Reopen, L!Write

\* What is left of an engine that is gone has its type.
LEMMA GoneTypes ==
    ASSUME TypeOK, NEW p \in Pids, Gone(p), log' = log
    PROVE  /\ pc' \in [Pids -> Starting \cup Serving \cup {"none", "foreign"}]
           /\ eng' \in [Pids -> Engine]
           /\ L!TypeOK'
  BY Values DEF Gone, TypeOK, L!TypeOK

\* A step to another stage.
LEMMA GotoTypes ==
    ASSUME TypeOK, NEW p \in Pids, NEW to \in Starting \cup Serving, Goto(p, to)
    PROVE  pc' \in [Pids -> Starting \cup Serving \cup {"none", "foreign"}]
  BY DEF TypeOK, Goto

\* A request file goes, and a directory: no command has a file of it open.
LEMMA UnlinkedTypes ==
    ASSUME TypeOK, NEW p \in Pids, Unlinked(p)
    PROVE  /\ cmd' \in [Commands -> Command]
           /\ \A k \in Commands :
                 /\ cmd'[k].pc = cmd[k].pc /\ cmd'[k].pid = cmd[k].pid
                 /\ cmd'[k].token = cmd[k].token
                 /\ cmd'[k].linked => cmd[k].linked /\ cmd[k].pid # p
  <1>1. ASSUME NEW k \in Commands
        PROVE  LET c == [cmd[k] EXCEPT !.linked = @ /\ cmd[k].pid # p] IN
               /\ c \in Command /\ c.pc = cmd[k].pc /\ c.pid = cmd[k].pid
               /\ c.token = cmd[k].token
               /\ c.linked => cmd[k].linked /\ cmd[k].pid # p
    <2>1. cmd[k] \in Command
      BY DEF TypeOK
    <2> QED
      BY <2>1 DEF Command
  <1> QED
    BY <1>1 DEF Unlinked

\* What a command writes into its record.
LEMMA CommandEdits ==
    \A c \in Command :
       /\ \A t \in File : [c EXCEPT !.pc = "open", !.target = t] \in Command
       /\ [c EXCEPT !.pc = "write", !.linked = TRUE] \in Command
  BY DEF Command

LEMMA RemovedTypes ==
    ASSUME TypeOK, NEW p \in Pids, Removed(p)
    PROVE  run' \in [Pids -> Dir \cup {None}] /\ cmd' \in [Commands -> Command]
  BY UnlinkedTypes DEF Removed, TypeOK

\* The ends of processes, and the start of an engine.
LEMMA ProcessesKeepTypes ==
    ASSUME TypeOK, NEW p \in Pids, NEW c \in Configs \cup {None},
           Start(p, c) \/ Exit(p) \/ Crash(p) \/ Foreign(p)
    PROVE  TypeOK'
  <1>1. CASE Start(p, c)
    <2>1. starts' \in Tokens /\ c \in File
      BY <1>1, Values, SessionAssumption DEF Start, TypeOK, Tokens
    <2>2. eng' \in [Pids -> Engine]
      <3>1. Hunted(p) \in BOOLEAN
        BY DEF Hunted
      <3> QED
        BY <1>1, <2>1, <3>1, Values DEF Start, TypeOK, Engine, NoEngine
    <2>3. asked' \in [Pids -> File]
      BY <1>1, <2>1 DEF Start, TypeOK
    <2>4. pc' \in [Pids -> Starting \cup Serving \cup {"none", "foreign"}]
      BY <1>1, GotoTypes DEF Start, Starting
    <2> QED
      BY <1>1, <2>1, <2>2, <2>3, <2>4 DEF Start, TypeOK, L!TypeOK
  <1>2. CASE Exit(p)
    BY <1>2, GoneTypes, RemovedTypes DEF Exit, TypeOK
  <1>3. CASE Crash(p)
    BY <1>3, GoneTypes DEF Crash, TypeOK
  <1>4. CASE Foreign(p)
    BY <1>4 DEF Foreign, TypeOK, L!TypeOK
  <1> QED
    BY <1>1, <1>2, <1>3, <1>4

\* A step of the start or of a reload that needs the directory.
LEMMA InDirTypes ==
    ASSUME TypeOK, NEW p \in Pids, NEW at, NEW to \in Starting \cup Serving,
           NEW dir, run[p] # None => dir \in Dir, InDir(p, at, to, dir)
    PROVE  TypeOK'
  <1>1. CASE run[p] = None
    BY <1>1, GoneTypes DEF InDir, TypeOK
  <1>2. CASE run[p] # None
    BY <1>2, GotoTypes DEF InDir, TypeOK, L!TypeOK
  <1> QED
    BY <1>1, <1>2

\* The directory with the token, and with the file in use.
LEMMA DirTypes ==
    ASSUME TypeOK, NEW p \in Pids, run[p] # None
    PROVE  /\ [run[p] EXCEPT !.session = eng[p].token] \in Dir
           /\ CurrentTruncated(p) \in Dir /\ CurrentWritten(p) \in Dir
  <1>1. run[p] \in Dir /\ eng[p].token \in Tokens /\ eng[p].config_path \in File
    BY DEF TypeOK, Engine
  <1> QED
    BY <1>1, Values DEF CurrentTruncated, CurrentWritten, Dir

\* A line of the log.
LEMMA LogLineTypes ==
    ASSUME TypeOK, NEW p \in Pids, NEW at, NEW to \in Starting \cup Serving,
           LogLine(p, at, to)
    PROVE  TypeOK'
  <1>1. L!TypeOK'
    BY LogTypes DEF LogLine, TypeOK
  <1>2. pc' = pc \/ Goto(p, to)
    BY DEF LogLine
  <1> QED
    BY <1>1, <1>2, GotoTypes DEF LogLine, TypeOK

\* The steps of an engine.
LEMMA EnginesKeepTypes ==
    ASSUME TypeOK, NEW p \in Pids, EngineStep(p) \/ WriteAck(p)
    PROVE  TypeOK'
  <1> USE Values
  <1>0. /\ {"create", "replace", "fill", "record", "startlog", "spawn", "handlers", "loop",
            "read", "unlink", "load", "retruncate", "rerecord", "log"}
              \subseteq Starting \cup Serving
        /\ eng[p] \in Engine /\ run[p] \in Dir \cup {None}
    BY DEF Starting, Serving, TypeOK
  <1>1. CASE SweepLook(p)
    <2>1. PICK q \in eng[p].todo :
             eng' = [eng EXCEPT ![p].todo = @ \ {q}, ![p].doomed = IF Dead(q) THEN {q} ELSE {}]
      BY <1>1 DEF SweepLook
    <2>2. q \in Pids /\ (IF Dead(q) THEN {q} ELSE {}) \in SUBSET Pids
      BY <1>0 DEF Engine
    <2>3. eng' \in [Pids -> Engine]
      <3>1. \A e \in Engine :
               [e EXCEPT !.todo = @ \ {q}, !.doomed = IF Dead(q) THEN {q} ELSE {}] \in Engine
        <4> DEFINE D == IF Dead(q) THEN {q} ELSE {}
        <4>1. D \in SUBSET Pids
          BY <2>2
        <4> HIDE DEF D
        <4>2. \A e \in Engine : [e EXCEPT !.todo = @ \ {q}, !.doomed = D] \in Engine
          BY <4>1 DEF Engine
        <4> QED
          BY <4>2 DEF D
      <3>2. eng \in [Pids -> Engine]
            /\ eng' = [eng EXCEPT ![p] =
                  [eng[p] EXCEPT !.todo = @ \ {q}, !.doomed = IF Dead(q) THEN {q} ELSE {}]]
        BY <2>1 DEF TypeOK
      <3> QED
        BY <3>1, <3>2
    <2> QED
      BY <1>1, <2>3 DEF SweepLook, TypeOK, L!TypeOK
  <1>2. CASE SweepRemove(p)
    <2>1. PICK q \in eng[p].doomed : Removed(q)
      BY <1>2 DEF SweepRemove
    <2>2. q \in Pids
      BY <1>0 DEF Engine
    <2>3. eng' \in [Pids -> Engine]
      BY <1>2 DEF SweepRemove, TypeOK, Engine
    <2> QED
      BY <1>2, <2>1, <2>2, <2>3, RemovedTypes DEF SweepRemove, TypeOK, L!TypeOK
  <1>3. CASE Create(p)
    BY <1>0, <1>3, GotoTypes DEF Create, TypeOK, L!TypeOK
  <1>4. CASE Replace(p)
    BY <1>0, <1>4, GotoTypes, GoneTypes, RemovedTypes DEF Replace, TypeOK, L!TypeOK
  <1>5. CASE Fill(p) \/ Record(p) \/ Retruncate(p) \/ Rerecord(p)
    BY <1>0, <1>5, InDirTypes, DirTypes DEF Fill, Record, Retruncate, Rerecord
  <1>6. CASE LogLine(p, "startlog", "spawn") \/ LogLine(p, "log", "loop")
    BY <1>0, <1>6, LogLineTypes
  <1>7. CASE Spawn(p)
    BY <1>0, <1>7, GotoTypes DEF Spawn, TypeOK, L!TypeOK, Engine
  <1>8. CASE Handlers(p)
    BY <1>0, <1>8, GotoTypes DEF Handlers, TypeOK, L!TypeOK
  <1>9. CASE SeeFlag(p)
    <2>1. eng' \in [Pids -> Engine]
      BY <1>9 DEF SeeFlag, TypeOK, Engine
    <2> QED
      BY <1>0, <1>9, <2>1, GotoTypes DEF SeeFlag, TypeOK, L!TypeOK
  <1>10. CASE ReadRequest(p)
    <2>1. Request(p) \in File
      BY <1>0 DEF Request, Dir
    <2>2. eng' \in [Pids -> Engine]
      BY <1>10, <2>1 DEF ReadRequest, TypeOK, Engine
    <2> QED
      BY <1>0, <1>10, <2>2, GotoTypes DEF ReadRequest, TypeOK, L!TypeOK
  <1>11. CASE RemoveRequest(p)
    <2>1. CASE Request(p) = None
      BY <1>0, <1>11, <2>1, GotoTypes DEF RemoveRequest, TypeOK, L!TypeOK
    <2>2. CASE Request(p) # None
      <3>1. run[p] \in Dir
        BY <1>0, <2>2 DEF Request
      <3>2. run' \in [Pids -> Dir \cup {None}]
        BY <1>11, <2>2, <3>1 DEF RemoveRequest, TypeOK, Dir
      <3>3. cmd' \in [Commands -> Command]
        BY <1>11, <2>2, UnlinkedTypes DEF RemoveRequest
      <3> QED
        BY <1>0, <1>11, <2>2, <3>2, <3>3, GotoTypes DEF RemoveRequest, TypeOK, L!TypeOK
    <2> QED
      BY <2>1, <2>2
  <1>12. CASE Load(p)
    <2> DEFINE file == IF eng[p].request \in {None, Empty} THEN eng[p].config_path
                                                            ELSE eng[p].request
    <2>1. file \in File
      BY <1>0 DEF Engine
    <2>2. CASE /\ eng' = [eng EXCEPT ![p].config_path = file, ![p].used = file]
               /\ Goto(p, "retruncate")
      BY <1>0, <1>12, <2>1, <2>2, GotoTypes DEF Load, TypeOK, L!TypeOK, Engine
    <2>3. CASE eng' = [eng EXCEPT ![p].config_path = file] /\ Goto(p, "log")
      BY <1>0, <1>12, <2>1, <2>3, GotoTypes DEF Load, TypeOK, L!TypeOK, Engine
    <2> QED
      BY <1>12, <2>2, <2>3 DEF Load
  <1>13. CASE WriteAck(p)
    <2>1. run[p] \in Dir /\ eng[p].token \in Tokens
      BY <1>0, <1>13 DEF WriteAck, Engine
    <2> QED
      BY <1>13, <2>1 DEF WriteAck, TypeOK, L!TypeOK, Dir
  <1> QED
    BY <1>1, <1>2, <1>3, <1>4, <1>5, <1>6, <1>7, <1>8, <1>9, <1>10, <1>11, <1>12, <1>13
    DEF EngineStep

\* The steps of a command; it writes into a directory that is there.
LEMMA CommandsKeepTypes ==
    ASSUME TypeOK, CommandsAreBound, NEW k \in Commands,
           CommandStep(k) \/ \E sh \in shells : Begin(k, sh)
    PROVE  TypeOK'
  <1> USE Values
  <1>0. cmd[k] \in Command /\ (Active(k) => cmd[k].pid \in Pids)
    BY DEF TypeOK, CommandsAreBound
  <1>1. ASSUME Fail(k)
        PROVE  cmd' \in [Commands -> Command]
    BY <1>1 DEF Fail, TypeOK, Command, Idle
  <1>2. ASSUME NEW to \in {"target", "kill"}, Step(k, to)
        PROVE  cmd' \in [Commands -> Command]
    BY <1>2 DEF Step, TypeOK, Command
  <1>3. ASSUME NEW sh \in shells, Begin(k, sh)
        PROVE  TypeOK'
    BY <1>3 DEF Begin, TypeOK, L!TypeOK, Command, Idle
  <1>4. CASE Verify(k)
    BY <1>1, <1>2, <1>4 DEF Verify, Rest, TypeOK, L!TypeOK
  <1>5. ASSUME NEW c \in Configs \cup {None}, Target(k, c)
        PROVE  TypeOK'
    <2>1. cmd' \in [Commands -> Command]
      <3> DEFINE target == IF c # None THEN c ELSE PlainTarget(k)
      <3>1. CASE target \in Configs /\ cmd' = [cmd EXCEPT ![k].pc = "open", ![k].target = target]
        <4> HIDE DEF target
        <4>1. target \in File
          BY <3>1
        <4> QED
          BY <3>1, <4>1, CommandEdits DEF TypeOK
      <3> QED
        BY <1>1, <1>5, <3>1 DEF Target
    <2>2. asked' \in [Pids -> File]
      BY <1>5 DEF Target, TypeOK
    <2> QED
      BY <1>5, <2>1, <2>2 DEF Target, TypeOK, L!TypeOK
  <1>6. CASE OpenRequest(k)
    <2> DEFINE p == cmd[k].pid
    <2>1. p \in Pids /\ run[p] \in Dir \cup {None}
      BY <1>0, <1>6 DEF OpenRequest, Active, TypeOK
    <2>2. CASE /\ run[p] # None
               /\ run' = [run EXCEPT ![p].request = Empty]
               /\ cmd' = [cmd EXCEPT ![k].pc = "write", ![k].linked = TRUE]
      <3>1. run' \in [Pids -> Dir \cup {None}]
        BY <2>1, <2>2 DEF TypeOK, Dir
      <3>2. cmd' \in [Commands -> Command]
        BY <2>2, CommandEdits DEF TypeOK
      <3> QED
        BY <1>6, <3>1, <3>2 DEF OpenRequest, Rest, TypeOK, L!TypeOK
    <2>3. CASE Fail(k) /\ UNCHANGED run
      BY <1>1, <1>6, <2>3 DEF OpenRequest, Rest, TypeOK, L!TypeOK
    <2> QED
      BY <1>6, <2>2, <2>3 DEF OpenRequest
  <1>7. CASE WriteRequest(k)
    <2> DEFINE p == cmd[k].pid
    <2>1. p \in Pids /\ run[p] \in Dir \cup {None} /\ cmd[k].target \in File
      BY <1>0, <1>7 DEF WriteRequest, Active, TypeOK, Command
    <2>2. run' \in [Pids -> Dir \cup {None}]
      <3>1. CASE ~cmd[k].linked
        BY <1>7, <3>1 DEF WriteRequest, TypeOK
      <3>2. CASE cmd[k].linked
        <4>1. run[p] \in Dir
          BY <2>1, <3>2 DEF CommandsAreBound
        <4>2. PICK bytes \in {cmd[k].target, Mixed} :
                 run' = [run EXCEPT ![p].request = IF @ = cmd[k].target THEN @ ELSE bytes]
          BY <1>7, <3>2 DEF WriteRequest
        <4> QED
          BY <2>1, <4>1, <4>2 DEF TypeOK, Dir
      <3> QED
        BY <3>1, <3>2
    <2> QED
      BY <1>2, <1>7, <2>2 DEF WriteRequest, Rest, TypeOK, L!TypeOK
  <1>8. CASE Kill(k)
    <2> DEFINE p == cmd[k].pid
    <2>1. p \in Pids /\ run[p] \in Dir \cup {None} /\ eng[p] \in Engine
      BY <1>0, <1>8 DEF Kill, Active, TypeOK
    <2>2. CASE pc[p] \in Serving
      <3>1. eng' = [eng EXCEPT ![p].flag = TRUE] /\ UNCHANGED <<pc, run, fd>>
        BY <1>8, <2>1, <2>2, Stages DEF Kill, Gone
      <3>2. eng' \in [Pids -> Engine]
        BY <2>1, <3>1 DEF TypeOK, Engine
      <3> QED
        BY <1>1, <1>8, <3>1, <3>2 DEF Kill, TypeOK, L!TypeOK
    <2>3. CASE Gone(p) /\ UNCHANGED run
      BY <1>1, <1>8, <2>1, <2>3, GoneTypes DEF Kill, TypeOK
    <2>4. CASE pc[p] = "none"
      BY <1>1, <1>8, <2>1, <2>4, Stages DEF Kill, TypeOK, L!TypeOK, Dir
    <2> QED
      BY <1>8, <2>2, <2>3, <2>4 DEF Kill
  <1> QED
    BY <1>3, <1>4, <1>5, <1>6, <1>7, <1>8 DEF CommandStep

\* Every step keeps the types.
LEMMA TypesNext == TypeOK /\ CommandsAreBound /\ [Next]_vars => TypeOK'
  <1> SUFFICES ASSUME TypeOK, CommandsAreBound, [Next]_vars
               PROVE  TypeOK'
    OBVIOUS
  <1>1. CASE UNCHANGED vars
    BY <1>1 DEF vars, TypeOK, L!TypeOK
  <1>2. CASE Next
    BY <1>2, ProcessesKeepTypes, EnginesKeepTypes, CommandsKeepTypes DEF Next
  <1> QED
    BY <1>1, <1>2

----------------------------------------------------------------------------
(* Steps. *)

\* What an engine starts with.
LEMMA NewEngine ==
    ASSUME TypeOK, NEW p \in Pids, NEW c \in Configs \cup {None}, Start(p, c)
    PROVE  /\ pc[p] = "none" /\ pc' = [pc EXCEPT ![p] = "sweep"]
           /\ eng' = [eng EXCEPT ![p] = eng'[p]]
           /\ eng'[p].token = starts + 1 /\ eng'[p].config_path = c /\ eng'[p].used = c
           /\ eng'[p].doomed = {} /\ ~eng'[p].flag /\ eng'[p].hunted = Hunted(p)
           /\ UNCHANGED <<run, cmd, shells, log, fd>>
  <1>1. eng' = [eng EXCEPT ![p] = [NoEngine EXCEPT
                  !.token = starts', !.config_path = c, !.used = c,
                  !.todo = {q \in Pids \ {p} : run[q] # None}, !.hunted = Hunted(p)]]
    BY DEF Start
  <1>2. eng'[p] = [NoEngine EXCEPT
                  !.token = starts', !.config_path = c, !.used = c,
                  !.todo = {q \in Pids \ {p} : run[q] # None}, !.hunted = Hunted(p)]
    BY <1>1 DEF TypeOK
  <1>3. starts' = starts + 1
    BY DEF Start
  <1> QED
    BY <1>1, <1>2, <1>3 DEF Start, Goto, Reusable, NoEngine, TypeOK

\* The directory is made, or an old one goes first; without it the engine ends.
LEMMA CreateSteps ==
    ASSUME TypeOK, NEW p \in Pids, Create(p) \/ Replace(p)
    PROVE  /\ pc[p] \in {"sweep", "create", "replace"}
           /\ UNCHANGED <<shells, log>>
           /\ \/ Gone(p) /\ UNCHANGED <<run, cmd>>
              \/ /\ ~Gone(p)
                 /\ pc' = [pc EXCEPT ![p] = pc'[p]] /\ pc'[p] \in {"fill", "replace", "create"}
                 /\ run' = [run EXCEPT ![p] = run'[p]]
                 /\ pc'[p] = "fill" => run'[p] = NewDir
                 /\ (cmd' = cmd \/ Unlinked(p)) /\ UNCHANGED <<eng, fd>>
  <1>1. Gone(p) => pc'[p] = "none"
    BY DEF Gone, TypeOK
  <1>2. CASE Create(p)
    BY <1>1, <1>2 DEF Create, Goto, TypeOK
  <1>3. CASE Replace(p)
    BY <1>1, <1>3 DEF Replace, Removed, Goto, TypeOK
  <1> QED
    BY <1>2, <1>3

\* Steps of an engine that change its stage and of its variables at most these: none of
\* those that a sweep uses.
Serve(p) ==
    \/ WriteAck(p) \/ LogLine(p, "startlog", "spawn") \/ Spawn(p) \/ Handlers(p)
    \/ SeeFlag(p) \/ ReadRequest(p) \/ RemoveRequest(p) \/ Load(p) \/ LogLine(p, "log", "loop")

InDirStep(p) == Fill(p) \/ Record(p) \/ Retruncate(p) \/ Rerecord(p)

\* A step in the directory is one, or the end of the engine.
LEMMA InDirSteps ==
    ASSUME TypeOK, NEW p \in Pids, InDirStep(p)
    PROVE  /\ pc[p] \in {"fill", "record", "retruncate", "rerecord"}
           /\ \/ Gone(p) /\ UNCHANGED <<run, cmd, shells, log>>
              \/ /\ pc' = [pc EXCEPT ![p] = pc'[p]] /\ pc'[p] # "none" /\ ~Gone(p)
                 /\ run' = [run EXCEPT ![p] = run'[p]]
                 /\ UNCHANGED <<eng, cmd, shells, log, fd>>
  <1>1. PICK at, to, dir :
             /\ at \in {"fill", "record", "retruncate", "rerecord"}
             /\ to \in {"record", "startlog", "rerecord", "log"}
             /\ InDir(p, at, to, dir)
    BY DEF InDirStep, Fill, Record, Retruncate, Rerecord
  <1>2. Gone(p) => pc'[p] = "none"
    BY DEF Gone, TypeOK
  <1> QED
    BY <1>1, <1>2 DEF InDir, Goto, TypeOK

\* What the steps write into the directory.
LEMMA FilledSteps ==
    ASSUME TypeOK, NEW p \in Pids, InDirStep(p), ~Gone(p)
    PROVE  /\ run[p] # None /\ run'[p] # None /\ run'[p].ack = run[p].ack
           /\ run'[p].request = run[p].request
           /\ \/ /\ pc[p] = "fill" /\ pc'[p] = "record"
                 /\ run'[p].session = eng[p].token
              \/ /\ pc[p] = "retruncate" /\ pc'[p] = "rerecord"
                 /\ run'[p].session = run[p].session
              \/ /\ <<pc[p], pc'[p]>> \in {<<"record", "startlog">>, <<"rerecord", "log">>}
                 /\ run'[p].session = run[p].session
                 /\ run'[p].current = eng[p].config_path
  <1>1. \A at, to, dir : InDir(p, at, to, dir) =>
           pc[p] = at /\ pc'[p] = to /\ run[p] # None /\ run'[p] = dir
    BY DEF InDir, Goto, TypeOK
  <1>2. run[p] # None
    BY <1>1 DEF InDirStep, Fill, Record, Retruncate, Rerecord
  <1>3. run[p] \in Dir /\ eng[p] \in Engine
    BY <1>2 DEF TypeOK
  <1>4. /\ [run[p] EXCEPT !.session = eng[p].token] \in Dir
        /\ CurrentTruncated(p) \in Dir /\ CurrentWritten(p) \in Dir
    BY <1>2, DirTypes
  <1>5. CASE Fill(p)
    BY <1>1, <1>3, <1>4, <1>5, Values DEF Fill, Dir
  <1>6. CASE Record(p)
    BY <1>1, <1>3, <1>4, <1>6, Values DEF Record, CurrentWritten, Dir
  <1>7. CASE Retruncate(p)
    BY <1>1, <1>3, <1>4, <1>7, Values DEF Retruncate, CurrentTruncated, Dir
  <1>8. CASE Rerecord(p)
    BY <1>1, <1>3, <1>4, <1>8, Values DEF Rerecord, CurrentWritten, Dir
  <1> QED
    BY <1>5, <1>6, <1>7, <1>8 DEF InDirStep

\* A reload takes the theme with its path, or the path alone.
LEMMA LoadSteps ==
    ASSUME TypeOK, NEW p \in Pids, Load(p)
    PROVE  /\ pc[p] = "load" /\ pc' = [pc EXCEPT ![p] = pc'[p]]
           /\ eng' = [eng EXCEPT ![p] = eng'[p]]
           /\ \/ pc'[p] = "retruncate" /\ eng'[p].config_path = eng'[p].used
              \/ pc'[p] = "log" /\ eng'[p].used = eng[p].used
           /\ eng'[p].doomed = eng[p].doomed /\ eng'[p].flag = eng[p].flag
           /\ eng'[p].token = eng[p].token /\ eng'[p].hunted = eng[p].hunted
           /\ UNCHANGED <<run, cmd, shells, log, fd>>
  <1> DEFINE file == IF eng[p].request \in {None, Empty} THEN eng[p].config_path
                                                          ELSE eng[p].request
  <1>1. \/ /\ eng' = [eng EXCEPT ![p].config_path = file, ![p].used = file]
           /\ Goto(p, "retruncate")
        \/ eng' = [eng EXCEPT ![p].config_path = file] /\ Goto(p, "log")
    BY DEF Load
  <1> HIDE DEF file
  <1>2. pc[p] = "load" /\ UNCHANGED <<run, cmd, shells, log, fd>>
    BY DEF Load
  <1>3. eng[p] \in Engine
    BY DEF TypeOK
  <1>4. CASE /\ eng' = [eng EXCEPT ![p].config_path = file, ![p].used = file]
             /\ Goto(p, "retruncate")
    BY <1>2, <1>3, <1>4 DEF Goto, TypeOK, Engine
  <1>5. CASE eng' = [eng EXCEPT ![p].config_path = file] /\ Goto(p, "log")
    BY <1>2, <1>3, <1>5 DEF Goto, TypeOK, Engine
  <1> QED
    BY <1>1, <1>4, <1>5

\* The stages of these, and what they leave alone.
Served == ({"startlog", "spawn", "handlers"} \cup Serving) \ {"retruncate", "rerecord"}
LEMMA ServeSteps ==
    ASSUME TypeOK, NEW p \in Pids, Serve(p)
    PROVE  /\ pc[p] \in Served /\ pc'[p] \in Served \cup {"retruncate"}
           /\ pc' = [pc EXCEPT ![p] = pc'[p]]
           /\ eng' = [eng EXCEPT ![p] = eng'[p]]
           /\ eng'[p].doomed = eng[p].doomed /\ eng'[p].token = eng[p].token
           /\ eng'[p].hunted = eng[p].hunted
           /\ \/ pc[p] = "load"
              \/ /\ eng'[p].config_path = eng[p].config_path /\ eng'[p].used = eng[p].used
                 /\ pc'[p] # "retruncate"
           /\ run' = [run EXCEPT ![p] = run'[p]]
           /\ run[p] = None => run'[p] = None
           /\ run[p] # None =>
                 /\ run'[p] # None
                 /\ run'[p].session = run[p].session /\ run'[p].current = run[p].current
                 /\ run'[p].ack \in {run[p].ack, None, eng[p].token}
           /\ cmd' = cmd \/ Unlinked(p)
  <1>0. eng[p] \in Engine /\ run[p] \in Dir \cup {None}
    BY DEF TypeOK
  <1> USE DEF Served, Serving
  <1>1. CASE WriteAck(p)
    <2>1. run[p] \in Dir /\ eng[p].token \in Tokens
      BY <1>0, <1>1 DEF WriteAck, Engine
    <2>2. run'[p] = [run[p] EXCEPT !.ack = IF @ = None THEN eng[p].token ELSE None]
      BY <1>1 DEF WriteAck, TypeOK
    <2>3. run'[p] \in Dir
      BY <2>1, <2>2 DEF Dir
    <2> QED
      BY <1>1, <2>1, <2>2, <2>3, Values DEF WriteAck, TypeOK, Dir
  <1>2. CASE Spawn(p) \/ Handlers(p)
    BY <1>2 DEF Spawn, Handlers, Goto, TypeOK
  <1>3. CASE LogLine(p, "startlog", "spawn") \/ LogLine(p, "log", "loop")
    BY <1>3 DEF LogLine, Goto, TypeOK
  <1>4. CASE SeeFlag(p)
    BY <1>0, <1>4 DEF SeeFlag, Goto, TypeOK, Engine
  <1>5. CASE ReadRequest(p)
    BY <1>0, <1>5 DEF ReadRequest, Goto, TypeOK, Engine
  <1>6. CASE RemoveRequest(p)
    <2>1. CASE Request(p) = None
      BY <1>6, <2>1 DEF RemoveRequest, Goto, TypeOK
    <2>2. CASE Request(p) # None
      <3>1. run[p] \in Dir
        BY <1>0, <2>2 DEF Request
      <3>2. run'[p] = [run[p] EXCEPT !.request = None]
        BY <1>6, <2>2 DEF RemoveRequest, TypeOK
      <3>3. run'[p] \in Dir
        BY <3>1, <3>2, Values DEF Dir
      <3> QED
        BY <1>6, <2>2, <3>1, <3>2, <3>3, Values DEF RemoveRequest, Goto, TypeOK, Dir
    <2> QED
      BY <2>1, <2>2
  <1>7. CASE Load(p)
    BY <1>7, LoadSteps DEF TypeOK
  <1> QED
    BY <1>1, <1>2, <1>3, <1>4, <1>5, <1>6, <1>7 DEF Serve

\* Only Load leaves its stage.
LEMMA ServedLoads ==
    ASSUME NEW p \in Pids, Serve(p), pc[p] = "load"
    PROVE  Load(p)
  BY DEF Serve, WriteAck, LogLine, Spawn, Handlers, SeeFlag, ReadRequest, RemoveRequest

\* Commands write requests, and signal.
ByCommand(k) == CommandStep(k) \/ \E sh \in shells : Begin(k, sh)
LEMMA CommandSteps ==
    ASSUME TypeOK, CommandsAreBound, NEW k \in Commands, ByCommand(k)
    PROVE  /\ UNCHANGED <<shells, log>>
           /\ \/ \E p \in Pids : Gone(p) /\ UNCHANGED run
              \/ /\ UNCHANGED <<pc, fd>>
                 /\ \A p \in Pids :
                       /\ eng'[p] \in {eng[p], [eng[p] EXCEPT !.flag = TRUE]}
                       /\ run[p] = None => run'[p] = None
                       /\ run[p] # None =>
                             /\ run'[p] # None
                             /\ run'[p].session = run[p].session
                             /\ run'[p].current = run[p].current
                             /\ run'[p].ack = run[p].ack
  <1> DEFINE p == cmd[k].pid
  <1>0. (Active(k) => p \in Pids) /\ \A q \in Pids : run[q] \in Dir \cup {None}
    BY DEF TypeOK, CommandsAreBound
  <1>1. CASE Verify(k) \/ (\E c \in Configs \cup {None} : Target(k, c))
             \/ \E sh \in shells : Begin(k, sh)
    BY <1>1 DEF Verify, Target, Begin, Rest
  <1>2. CASE OpenRequest(k)
    <2>1. p \in Pids /\ UNCHANGED <<pc, eng, fd, shells, log>>
      BY <1>0, <1>2 DEF OpenRequest, Active, Rest
    <2>2. CASE run' = run
      BY <2>1, <2>2
    <2>3. CASE run[p] # None /\ run' = [run EXCEPT ![p].request = Empty]
      <3>1. run'[p] = [run[p] EXCEPT !.request = Empty] /\ \A q \in Pids \ {p} : run'[q] = run[q]
        BY <2>1, <2>3 DEF TypeOK
      <3>2. run'[p] \in Dir
        BY <1>0, <2>1, <2>3, <3>1, Values DEF Dir
      <3> QED
        BY <1>0, <2>1, <2>3, <3>1, <3>2, Values DEF Dir
    <2> QED
      BY <1>2, <2>2, <2>3 DEF OpenRequest
  <1>3. CASE WriteRequest(k)
    <2>1. /\ p \in Pids /\ UNCHANGED <<pc, eng, fd, shells, log>> /\ cmd[k].target \in File
      BY <1>0, <1>3 DEF WriteRequest, Active, Rest, TypeOK, Command
    <2>2. CASE run' = run
      BY <2>1, <2>2
    <2>3. CASE cmd[k].linked
      <3>1. run[p] \in Dir
        BY <1>0, <2>1, <2>3 DEF CommandsAreBound
      <3>2. PICK bytes \in {cmd[k].target, Mixed} :
               run' = [run EXCEPT ![p].request = IF @ = cmd[k].target THEN @ ELSE bytes]
        BY <1>3, <2>3 DEF WriteRequest
      <3>3. PICK b \in File : /\ run'[p] = [run[p] EXCEPT !.request = b]
                             /\ \A q \in Pids \ {p} : run'[q] = run[q]
        <4>1. (IF run[p].request = cmd[k].target THEN run[p].request ELSE bytes) \in File
          BY <2>1, <3>1, <3>2, Values DEF Dir
        <4> QED
          BY <2>1, <3>2, <4>1 DEF TypeOK
      <3>4. run'[p] \in Dir
        BY <3>1, <3>3 DEF Dir
      <3> QED
        BY <1>0, <2>1, <3>1, <3>3, <3>4, Values DEF Dir
    <2> QED
      BY <1>3, <2>2, <2>3 DEF WriteRequest
  <1>4. CASE Kill(k)
    <2>1. p \in Pids /\ UNCHANGED <<shells, log>>
      BY <1>0, <1>4 DEF Kill, Active
    <2>2. CASE eng' = [eng EXCEPT ![p].flag = TRUE] /\ UNCHANGED <<pc, run, fd>>
      BY <2>1, <2>2 DEF TypeOK
    <2>3. CASE /\ run' = [run EXCEPT ![p] = IF @ = None THEN @ ELSE [@ EXCEPT !.request = None]]
               /\ UNCHANGED <<pc, eng, fd>>
      <3>1. /\ run'[p] = IF run[p] = None THEN None ELSE [run[p] EXCEPT !.request = None]
            /\ \A q \in Pids \ {p} : run'[q] = run[q]
        BY <2>1, <2>3 DEF TypeOK
      <3>2. run[p] # None => run'[p] \in Dir
        BY <1>0, <2>1, <3>1, Values DEF Dir
      <3> QED
        BY <1>0, <2>1, <2>3, <3>1, <3>2, Values DEF Dir
    <2> QED
      BY <1>4, <2>1, <2>2, <2>3 DEF Kill
  <1> QED
    BY <1>1, <1>2, <1>3, <1>4 DEF ByCommand, CommandStep

----------------------------------------------------------------------------
(* Sweeps. *)

\* The end of a process dooms nobody.
LEMMA GoneDoomed ==
    ASSUME TypeOK, DoomedAreDead, NEW p \in Pids, Gone(p)
    PROVE  DoomedAreDead'
  BY DEF Gone, DoomedAreDead, Dead, TypeOK, NoEngine

\* Nor does a process that goes on.
LEMMA AliveDoomed ==
    ASSUME TypeOK, DoomedAreDead, NEW p \in Pids, pc[p] \notin {"none", "foreign"}, NEW s,
           pc' = [pc EXCEPT ![p] = s],
           \A q \in Pids : eng'[q].doomed = eng[q].doomed /\ eng'[q].hunted = eng[q].hunted
    PROVE  DoomedAreDead'
  BY DEF DoomedAreDead, Dead, TypeOK

\* A pid that is about to lose its directory is given out again to a process without
\* one, or to an engine that is marked.
LEMMA DoomedNext ==
    ASSUME TypeOK, CommandsAreBound, DoomedAreDead, TokensAreGiven, [Next]_vars
    PROVE  DoomedAreDead'
  <1>1. ASSUME NEW p \in Pids, NEW c \in Configs \cup {None}, Start(p, c)
        PROVE  DoomedAreDead'
    <2>1. /\ eng \in [Pids -> Engine] /\ eng' = [eng EXCEPT ![p] = eng'[p]]
          /\ eng'[p].doomed = {} /\ eng'[p].hunted = Hunted(p)
          /\ pc' = [pc EXCEPT ![p] = "sweep"]
      BY <1>1, NewEngine DEF TypeOK
    <2>2. \A q \in Pids : eng'[q].doomed \subseteq eng[q].doomed
      BY <2>1
    <2>3. \A q \in Pids : p \in eng[q].doomed => eng'[p].hunted
      BY <2>1 DEF Hunted
    <2>4. \A q \in Pids \ {p} : eng'[q] = eng[q] /\ pc'[q] = pc[q]
      BY <2>1 DEF TypeOK
    <2> QED
      BY <2>2, <2>3, <2>4 DEF DoomedAreDead, Dead
  <1>2. ASSUME NEW p \in Pids, Foreign(p)
        PROVE  DoomedAreDead'
    BY <1>2 DEF Foreign, Reusable, DoomedAreDead, Dead, TypeOK
  <1>3. ASSUME NEW p \in Pids, Exit(p) \/ Crash(p)
        PROVE  DoomedAreDead'
    BY <1>3, GoneDoomed DEF Exit, Crash
  <1>4. ASSUME NEW p \in Pids, SweepLook(p) \/ SweepRemove(p)
        PROVE  DoomedAreDead'
    <2>1. \A q, r \in Pids : r \in eng'[q].doomed => r \in eng[q].doomed \/ Dead(r)
      <3>1. CASE SweepLook(p)
        <4>1. PICK q \in eng[p].todo :
                 eng' = [eng EXCEPT ![p].todo = @ \ {q}, ![p].doomed = IF Dead(q) THEN {q} ELSE {}]
          BY <3>1 DEF SweepLook
        <4>2. /\ eng'[p].doomed = IF Dead(q) THEN {q} ELSE {}
              /\ \A r \in Pids \ {p} : eng'[r] = eng[r]
          BY <4>1 DEF TypeOK, Engine
        <4> QED
          BY <4>2
      <3>2. CASE SweepRemove(p)
        BY <3>2 DEF SweepRemove, TypeOK, Engine
      <3> QED
        BY <1>4, <3>1, <3>2
    <2>2. \A q \in Pids : eng'[q].hunted = eng[q].hunted
      <3>1. CASE SweepLook(p)
        <4>1. PICK q \in eng[p].todo :
                 eng' = [eng EXCEPT ![p].todo = @ \ {q}, ![p].doomed = IF Dead(q) THEN {q} ELSE {}]
          BY <3>1 DEF SweepLook
        <4> QED
          BY <4>1 DEF TypeOK, Engine
      <3>2. CASE SweepRemove(p)
        BY <3>2 DEF SweepRemove, TypeOK, Engine
      <3> QED
        BY <1>4, <3>1, <3>2
    <2>3. pc' = pc
      BY <1>4 DEF SweepLook, SweepRemove
    <2> QED
      BY <2>1, <2>2, <2>3 DEF DoomedAreDead, Dead
  <1>5. ASSUME NEW p \in Pids, Create(p) \/ Replace(p) \/ Serve(p)
        PROVE  DoomedAreDead'
    <2>1. CASE Replace(p) /\ Gone(p)
      BY <2>1, GoneDoomed
    <2>2. CASE Create(p) \/ (Replace(p) /\ ~Gone(p))
      BY <2>2, AliveDoomed DEF Create, Replace, Goto
    <2>3. CASE Serve(p)
      <3>1. pc[p] \notin {"none", "foreign"}
        BY <2>3, ServeSteps DEF Served, Serving
      <3>2. \A q \in Pids : eng'[q].doomed = eng[q].doomed /\ eng'[q].hunted = eng[q].hunted
        BY <2>3, ServeSteps DEF TypeOK
      <3> QED
        BY <2>3, <3>1, <3>2, ServeSteps, AliveDoomed
    <2> QED
      BY <1>5, <2>1, <2>2, <2>3
  <1>6. ASSUME NEW p \in Pids, InDirStep(p)
        PROVE  DoomedAreDead'
    BY <1>6, InDirSteps, GoneDoomed, AliveDoomed
  <1>7. ASSUME NEW k \in Commands, Kill(k)
        PROVE  DoomedAreDead'
    <2> DEFINE p == cmd[k].pid
    <2>1. p \in Pids
      BY <1>7 DEF Kill, CommandsAreBound, Active
    <2>2. CASE eng' = [eng EXCEPT ![p].flag = TRUE] /\ UNCHANGED pc
      BY <2>1, <2>2 DEF DoomedAreDead, Dead, TypeOK
    <2> QED
      BY <1>7, <2>1, <2>2, GoneDoomed DEF Kill, DoomedAreDead, Dead
  <1>8. ASSUME UNCHANGED <<pc, eng>>
        PROVE  DoomedAreDead'
    BY <1>8 DEF DoomedAreDead, Dead
  <1> QED
    BY <1>1, <1>2, <1>3, <1>4, <1>5, <1>6, <1>7, <1>8
    DEF Next, EngineStep, Serve, InDirStep, CommandStep, Verify, Target, OpenRequest,
        WriteRequest, Begin, Rest, vars

----------------------------------------------------------------------------
(* Directories. *)

\* The end of an engine, with or without its directory.
LEMMA GoneOwns ==
    ASSUME TypeOK, OwnDirectory, NEW p \in Pids, Gone(p), UNCHANGED run \/ Removed(p)
    PROVE  OwnDirectory'
  BY Stages DEF OwnDirectory, Gone, Removed, TypeOK

\* No step of anybody takes the directory of an engine, or its token, away.
LEMMA OwnNext ==
    ASSUME TypeOK, CommandsAreBound, DoomedAreDead, OwnDirectory, [Next]_vars
    PROVE  OwnDirectory'
  <1> USE DEF OwnDirectory
  <1>1. ASSUME NEW p \in Pids, NEW c \in Configs \cup {None}, Start(p, c)
        PROVE  OwnDirectory'
    BY <1>1, NewEngine DEF TypeOK, InDirectory, Serving
  <1>2. ASSUME NEW p \in Pids, Foreign(p)
        PROVE  OwnDirectory'
    BY <1>2, Stages DEF Foreign, TypeOK
  <1>3. ASSUME NEW p \in Pids, Exit(p) \/ Crash(p)
        PROVE  OwnDirectory'
    BY <1>3, GoneOwns DEF Exit, Crash
  <1>4. ASSUME NEW p \in Pids, SweepLook(p)
        PROVE  OwnDirectory'
    BY <1>4 DEF SweepLook, TypeOK, Engine
  <1>5. ASSUME NEW p \in Pids, SweepRemove(p)
        PROVE  OwnDirectory'
    <2>1. PICK q \in eng[p].doomed : Removed(q)
      BY <1>5 DEF SweepRemove
    <2>2. q \in Pids /\ (pc[q] \in {"none", "foreign"} \/ eng[q].hunted)
      BY DEF TypeOK, Engine, DoomedAreDead, Dead
    <2>3. \A r \in Pids : /\ eng'[r].token = eng[r].token /\ eng'[r].hunted = eng[r].hunted
                           /\ pc'[r] = pc[r]
      BY <1>5 DEF SweepRemove, TypeOK, Engine
    <2>4. run'[q] = None /\ \A r \in Pids \ {q} : run'[r] = run[r]
      BY <2>1, <2>2 DEF Removed, TypeOK
    <2> QED
      BY <2>2, <2>3, <2>4, Stages
  <1>6. ASSUME NEW p \in Pids, Create(p)
        PROVE  OwnDirectory'
    BY <1>6, Values DEF Create, Goto, TypeOK, NewDir, InDirectory, Serving
  <1>7. ASSUME NEW p \in Pids, Replace(p)
        PROVE  OwnDirectory'
    <2>1. CASE Gone(p) /\ run' = run
      BY <2>1, GoneOwns
    <2>2. CASE Removed(p) /\ Goto(p, "create") /\ eng' = eng
      BY <2>2 DEF Removed, Goto, TypeOK, InDirectory, Serving
    <2> QED
      BY <1>7, <2>1, <2>2 DEF Replace
  <1>8. ASSUME NEW p \in Pids, InDirStep(p)
        PROVE  OwnDirectory'
    <2>1. CASE Gone(p) /\ run' = run
      BY <2>1, GoneOwns
    <2>2. CASE ~Gone(p)
      BY <1>8, <2>2, FilledSteps, InDirSteps DEF TypeOK, InDirectory, Serving
    <2> QED
      BY <1>8, <2>1, <2>2, InDirSteps
  <1>9. ASSUME NEW p \in Pids, Serve(p)
        PROVE  OwnDirectory'
    <2>1. \A q \in Pids \ {p} : pc'[q] = pc[q] /\ run'[q] = run[q] /\ eng'[q] = eng[q]
      BY <1>9, ServeSteps DEF TypeOK
    <2>2. pc[p] \in InDirectory \ {"fill"} /\ pc'[p] \in InDirectory
      BY <1>9, ServeSteps DEF Served, InDirectory, Serving
    <2> QED
      BY <1>9, <2>1, <2>2, ServeSteps
  <1>10. ASSUME NEW k \in Commands, ByCommand(k)
         PROVE  OwnDirectory'
    <2>1. CASE \E p \in Pids : Gone(p) /\ UNCHANGED run
      BY <2>1, GoneOwns
    <2>2. CASE ~\E p \in Pids : Gone(p) /\ UNCHANGED run
      <3>1. \A p \in Pids : eng'[p].token = eng[p].token /\ eng'[p].hunted = eng[p].hunted
        BY <1>10, <2>2, CommandSteps DEF TypeOK, Engine
      <3> QED
        BY <1>10, <2>2, <3>1, CommandSteps
    <2> QED
      BY <2>1, <2>2
  <1>11. CASE UNCHANGED vars
    BY <1>11 DEF vars
  <1> QED
    BY <1>1, <1>2, <1>3, <1>4, <1>5, <1>6, <1>7, <1>8, <1>9, <1>10, <1>11
    DEF Next, EngineStep, Serve, InDirStep, ByCommand

\* The theme in use is the one recorded, or about to be.
LEMMA GoneRecorded ==
    ASSUME TypeOK, RecordedIsInUse, NEW p \in Pids, Gone(p), UNCHANGED run \/ Removed(p)
    PROVE  RecordedIsInUse'
  BY Stages DEF RecordedIsInUse, Engines, Gone, Removed, TypeOK

LEMMA RecordedNext ==
    ASSUME TypeOK, CommandsAreBound, DoomedAreDead, OwnDirectory, RecordedIsInUse, [Next]_vars
    PROVE  RecordedIsInUse'
  <1> USE DEF RecordedIsInUse, Engines
  <1>1. ASSUME NEW p \in Pids, NEW c \in Configs \cup {None}, Start(p, c)
        PROVE  RecordedIsInUse'
    BY <1>1, NewEngine DEF TypeOK, Unrecorded
  <1>2. ASSUME NEW p \in Pids, Foreign(p)
        PROVE  RecordedIsInUse'
    BY <1>2, Stages DEF Foreign, TypeOK
  <1>3. ASSUME NEW p \in Pids, Exit(p) \/ Crash(p)
        PROVE  RecordedIsInUse'
    BY <1>3, GoneRecorded DEF Exit, Crash
  <1>4. ASSUME NEW p \in Pids, SweepLook(p)
        PROVE  RecordedIsInUse'
    BY <1>4 DEF SweepLook, TypeOK, Engine
  <1>5. ASSUME NEW p \in Pids, SweepRemove(p)
        PROVE  RecordedIsInUse'
    <2>1. PICK q \in eng[p].doomed : Removed(q)
      BY <1>5 DEF SweepRemove
    <2>2. q \in Pids
      BY DEF TypeOK, Engine
    <2>3. \A r \in Pids : /\ eng'[r].config_path = eng[r].config_path
                           /\ eng'[r].used = eng[r].used /\ pc'[r] = pc[r]
      BY <1>5 DEF SweepRemove, TypeOK, Engine
    <2>4. run'[q] = None /\ \A r \in Pids \ {q} : run'[r] = run[r]
      BY <2>1, <2>2 DEF Removed, TypeOK
    <2> QED
      BY <2>2, <2>3, <2>4
  <1>6. ASSUME NEW p \in Pids, Create(p) \/ Replace(p)
        PROVE  RecordedIsInUse'
    <2>1. CASE Gone(p) /\ run' = run
      BY <2>1, GoneRecorded
    <2>2. CASE ~Gone(p)
      <3>1. pc[p] \in Unrecorded \cap Starting /\ pc' = [pc EXCEPT ![p] = pc'[p]]
            /\ pc'[p] \in Unrecorded /\ eng' = eng /\ run' = [run EXCEPT ![p] = run'[p]]
        BY <1>6, <2>2, CreateSteps DEF Unrecorded, Starting
      <3> QED
        BY <3>1 DEF TypeOK
    <2> QED
      BY <1>6, <2>1, <2>2, CreateSteps
  <1>7. ASSUME NEW p \in Pids, InDirStep(p)
        PROVE  RecordedIsInUse'
    <2>1. CASE Gone(p) /\ run' = run
      BY <2>1, GoneRecorded
    <2>2. CASE ~Gone(p)
      BY <1>7, <2>2, FilledSteps, InDirSteps DEF TypeOK, Unrecorded, Starting, Serving
    <2> QED
      BY <1>7, <2>1, <2>2, InDirSteps
  <1>8. ASSUME NEW p \in Pids, Serve(p)
        PROVE  RecordedIsInUse'
    <2>1. CASE pc[p] = "load"
      BY <1>8, <2>1, ServeSteps, ServedLoads, LoadSteps DEF TypeOK, Unrecorded, Starting, Serving
    <2>2. CASE pc[p] # "load"
      <3>1. \A q \in Pids \ {p} : pc'[q] = pc[q] /\ run'[q] = run[q] /\ eng'[q] = eng[q]
        BY <1>8, ServeSteps DEF TypeOK
      <3>2. pc[p] \in (Starting \cup Serving) \ Unrecorded /\ pc'[p] \notin Unrecorded
        BY <1>8, <2>2, ServeSteps DEF Served, Unrecorded, Starting, Serving
      <3> QED
        BY <1>8, <2>2, <3>1, <3>2, ServeSteps
    <2> QED
      BY <2>1, <2>2
  <1>9. ASSUME NEW k \in Commands, ByCommand(k)
        PROVE  RecordedIsInUse'
    <2>1. CASE \E p \in Pids : Gone(p) /\ UNCHANGED run
      BY <2>1, GoneRecorded
    <2>2. CASE ~\E p \in Pids : Gone(p) /\ UNCHANGED run
      <3>1. \A p \in Pids : eng'[p].config_path = eng[p].config_path /\ eng'[p].used = eng[p].used
        BY <1>9, <2>2, CommandSteps DEF TypeOK, Engine
      <3> QED
        BY <1>9, <2>2, <3>1, CommandSteps
    <2> QED
      BY <2>1, <2>2
  <1>10. CASE UNCHANGED vars
    BY <1>10 DEF vars
  <1> QED
    BY <1>1, <1>2, <1>3, <1>4, <1>5, <1>6, <1>7, <1>8, <1>9, <1>10
    DEF Next, EngineStep, Serve, InDirStep, ByCommand

----------------------------------------------------------------------------
(* Commands. *)

\* A command ends, goes on with the pid and token it has, or begins with those of a shell.
LEMMA CommandMoves ==
    ASSUME TypeOK, NEW k \in Commands, ByCommand(k)
    PROVE  /\ cmd' = [cmd EXCEPT ![k] = cmd'[k]]
           /\ \/ Active(k) /\ cmd'[k].pc = "done" /\ ~cmd'[k].linked
              \/ /\ <<cmd[k].pc, cmd'[k].pc>> \in {<<"verify", "target">>, <<"target", "open">>,
                                                   <<"open", "write">>, <<"write", "kill">>}
                 /\ cmd'[k].pid = cmd[k].pid /\ cmd'[k].token = cmd[k].token
                 /\ cmd'[k].linked => cmd[k].linked \/ run[cmd[k].pid] # None
              \/ /\ cmd[k].pc = "idle" /\ cmd'[k].pc = "verify" /\ ~cmd'[k].linked
                 /\ \E sh \in shells :
                       /\ Begin(k, sh)
                       /\ cmd'[k].pid = sh.pid /\ cmd'[k].token = sh.token
  <1>0. cmd \in [Commands -> Command] /\ cmd[k] \in Command
    BY DEF TypeOK
  <1>1. ASSUME Fail(k), Active(k)
        PROVE  /\ cmd' = [cmd EXCEPT ![k] = cmd'[k]]
               /\ Active(k) /\ cmd'[k].pc = "done" /\ ~cmd'[k].linked
    BY <1>0, <1>1 DEF Fail, Idle
  <1>2. CASE Verify(k)
    BY <1>0, <1>1, <1>2 DEF Verify, Step, Active, Command
  <1>3. ASSUME NEW c \in Configs \cup {None}, Target(k, c)
        PROVE  /\ cmd' = [cmd EXCEPT ![k] = cmd'[k]]
               /\ \/ Active(k) /\ cmd'[k].pc = "done" /\ ~cmd'[k].linked
                  \/ /\ cmd[k].pc = "target" /\ cmd'[k].pc = "open"
                     /\ cmd'[k].pid = cmd[k].pid /\ cmd'[k].token = cmd[k].token
                     /\ cmd'[k].linked = cmd[k].linked
    <2> DEFINE target == IF c # None THEN c ELSE PlainTarget(k)
    <2>1. CASE cmd' = [cmd EXCEPT ![k].pc = "open", ![k].target = target]
      <3> HIDE DEF target
      <3> QED
        BY <1>0, <1>3, <2>1 DEF Target, Command
    <2> QED
      BY <1>1, <1>3, <2>1 DEF Target, Active
  <1>4. CASE OpenRequest(k)
    <2>1. CASE Fail(k)
      BY <1>1, <1>4, <2>1 DEF OpenRequest, Active
    <2>2. CASE /\ run[cmd[k].pid] # None
               /\ run' = [run EXCEPT ![cmd[k].pid].request = Empty]
               /\ cmd' = [cmd EXCEPT ![k].pc = "write", ![k].linked = TRUE]
      BY <1>0, <1>4, <2>2 DEF OpenRequest, Command
    <2> QED
      BY <1>4, <2>1, <2>2 DEF OpenRequest
  <1>5. CASE WriteRequest(k)
    BY <1>0, <1>5 DEF WriteRequest, Step, Command
  <1>6. CASE Kill(k)
    BY <1>1, <1>6 DEF Kill, Active
  <1>7. ASSUME NEW sh \in shells, Begin(k, sh)
        PROVE  /\ cmd' = [cmd EXCEPT ![k] = cmd'[k]]
               /\ cmd[k].pc = "idle" /\ cmd'[k].pc = "verify" /\ ~cmd'[k].linked
               /\ cmd'[k].pid = sh.pid /\ cmd'[k].token = sh.token
    BY <1>0, <1>7 DEF Begin, Idle
  <1> QED
    BY <1>2, <1>3, <1>4, <1>5, <1>6, <1>7 DEF ByCommand, CommandStep

\* Directories stay or lose their owner's commands, so that an open file is always in one.
LEMMA BoundNext == TypeOK /\ CommandsAreBound /\ [Next]_vars => CommandsAreBound'
  <1> SUFFICES ASSUME TypeOK, CommandsAreBound, [Next]_vars
               PROVE  CommandsAreBound'
    OBVIOUS
  <1> USE DEF CommandsAreBound, Active
  <1>1. ASSUME NEW p \in Pids, Removed(p)
        PROVE  CommandsAreBound'
    <2>1. \A q \in Pids : q # p => run'[q] = run[q]
      BY <1>1 DEF Removed, TypeOK
    <2>2. \A k \in Commands :
             /\ cmd'[k].pc = cmd[k].pc /\ cmd'[k].pid = cmd[k].pid
             /\ cmd'[k].linked => cmd[k].linked /\ cmd[k].pid # p
      BY <1>1, UnlinkedTypes DEF Removed
    <2> QED
      BY <2>1, <2>2
  <1>2. ASSUME NEW p \in Pids, cmd' = cmd \/ Unlinked(p),
               \A q \in Pids : run[q] # None => run'[q] # None
        PROVE  CommandsAreBound'
    BY <1>2 DEF Unlinked, TypeOK, Command
  <1>3. ASSUME NEW p \in Pids, \/ \E c \in Configs \cup {None} : Start(p, c)
                               \/ Foreign(p) \/ Crash(p) \/ SweepLook(p)
        PROVE  CommandsAreBound'
    BY <1>3 DEF Start, Foreign, Crash, SweepLook
  <1>4. ASSUME NEW p \in Pids, Exit(p) \/ Replace(p) \/ SweepRemove(p)
        PROVE  CommandsAreBound'
    <2>1. eng[p].doomed \subseteq Pids
      BY DEF TypeOK, Engine
    <2> QED
      BY <1>1, <1>4, <2>1 DEF Exit, Replace, SweepRemove
  <1>5. ASSUME NEW p \in Pids, Create(p) \/ InDirStep(p)
        PROVE  CommandsAreBound'
    <2>1. \A q \in Pids : run[q] # None => run'[q] # None
      BY <1>5, InDirSteps, FilledSteps DEF Create, TypeOK
    <2> QED
      BY <1>2, <1>5, <2>1, InDirSteps DEF Create
  <1>6. ASSUME NEW p \in Pids, Serve(p)
        PROVE  CommandsAreBound'
    <2>1. \A q \in Pids : run[q] # None => run'[q] # None
      BY <1>6, ServeSteps DEF TypeOK
    <2> QED
      BY <1>2, <1>6, <2>1, ServeSteps
  <1>7. ASSUME NEW k \in Commands, ByCommand(k)
        PROVE  CommandsAreBound'
    <2>1. \A q \in Pids : run[q] # None => run'[q] # None
      BY <1>7, CommandSteps
    <2>2. \A j \in Commands \ {k} : cmd'[j] = cmd[j]
      BY <1>7, CommandMoves DEF TypeOK
    <2>3. (Active(k)' => cmd'[k].pid \in Pids) /\ (cmd'[k].linked => Active(k)' /\ run'[cmd'[k].pid] # None)
      BY <1>7, <2>1, CommandMoves DEF TypeOK
    <2> QED
      BY <2>1, <2>2, <2>3
  <1>8. CASE UNCHANGED vars
    BY <1>8 DEF vars
  <1> QED
    BY <1>3, <1>4, <1>5, <1>6, <1>7, <1>8 DEF Next, EngineStep, Serve, InDirStep, ByCommand

----------------------------------------------------------------------------
(* Tokens. *)

\* Nothing is left of an engine that is gone.
LEMMA GoneTokens ==
    ASSUME TypeOK, TokensAreGiven, NEW p \in Pids, Gone(p), UNCHANGED shells
    PROVE  TokensAreGiven'
  BY Stages DEF TokensAreGiven, Engines, Gone, TypeOK

\* Every engine has the token it started with, and exports it.
LEMMA TokensNext ==
    ASSUME TypeOK, CommandsAreBound, TokensAreGiven, [Next]_vars
    PROVE  TokensAreGiven'
  <1> USE DEF TokensAreGiven, Engines
  <1>1. ASSUME NEW p \in Pids, NEW c \in Configs \cup {None}, Start(p, c)
        PROVE  TokensAreGiven'
    <2>1. starts + 1 # 0
      BY Values DEF TypeOK
    <2> QED
      BY <1>1, <2>1, NewEngine DEF TypeOK, Starting
  <1>2. ASSUME NEW p \in Pids, Foreign(p)
        PROVE  TokensAreGiven'
    BY <1>2, Stages DEF Foreign, Reusable, TypeOK
  <1>3. ASSUME NEW p \in Pids, Exit(p) \/ Crash(p)
        PROVE  TokensAreGiven'
    BY <1>3, GoneTokens DEF Exit, Crash
  <1>4. ASSUME NEW p \in Pids, NEW s \in Starting \cup Serving, p \in Engines,
               pc' = [pc EXCEPT ![p] = s], eng' = [eng EXCEPT ![p] = eng'[p]],
               eng'[p].token = eng[p].token,
               \A sh \in shells' : sh \in shells \/ sh.token = eng[p].token
        PROVE  TokensAreGiven'
    BY <1>4 DEF TypeOK
  <1>5. ASSUME NEW p \in Pids, SweepLook(p) \/ SweepRemove(p)
        PROVE  TokensAreGiven'
    <2>1. /\ pc' = [pc EXCEPT ![p] = pc[p]] /\ eng' = [eng EXCEPT ![p] = eng'[p]]
          /\ eng'[p].token = eng[p].token /\ shells' = shells
      <3>1. CASE SweepLook(p)
        <4>1. PICK q \in eng[p].todo :
                 eng' = [eng EXCEPT ![p].todo = @ \ {q}, ![p].doomed = IF Dead(q) THEN {q} ELSE {}]
          BY <3>1 DEF SweepLook
        <4>2. eng'[p].token = eng[p].token /\ \A r \in Pids \ {p} : eng'[r] = eng[r]
          BY <4>1 DEF TypeOK, Engine
        <4>3. eng' \in [Pids -> Engine]
          BY <3>1, EnginesKeepTypes DEF EngineStep, TypeOK
        <4> QED
          BY <3>1, <4>2, <4>3 DEF SweepLook, TypeOK
      <3>2. CASE SweepRemove(p)
        BY <3>2 DEF SweepRemove, TypeOK, Engine
      <3> QED
        BY <1>5, <3>1, <3>2
    <2>2. eng[p].doomed # {} \/ pc[p] = "sweep"
      BY <1>5 DEF SweepLook, SweepRemove
    <2>3. p \in Engines
      BY <2>2 DEF NoEngine, Starting
    <2> QED
      BY <1>4, <2>1, <2>3
  <1>6. ASSUME NEW p \in Pids, Create(p) \/ Replace(p)
        PROVE  TokensAreGiven'
    <2>1. CASE Gone(p)
      BY <1>6, <2>1, GoneTokens, CreateSteps
    <2>2. CASE ~Gone(p)
      BY <1>4, <1>6, <2>2, CreateSteps DEF TypeOK, Starting
    <2> QED
      BY <2>1, <2>2
  <1>7. ASSUME NEW p \in Pids, InDirStep(p)
        PROVE  TokensAreGiven'
    <2>1. CASE Gone(p)
      BY <1>7, <2>1, InDirSteps, GoneTokens
    <2>2. CASE ~Gone(p)
      BY <1>4, <1>7, <2>2, InDirSteps, FilledSteps DEF TypeOK, Starting, Serving
    <2> QED
      BY <2>1, <2>2
  <1>8. ASSUME NEW p \in Pids, Serve(p)
        PROVE  TokensAreGiven'
    <2>1. \A sh \in shells' : sh \in shells \/ sh.token = eng[p].token
      BY <1>8 DEF Serve, WriteAck, LogLine, Spawn, Handlers, SeeFlag, ReadRequest,
                  RemoveRequest, Load
    <2>2. p \in Engines /\ pc'[p] \in Starting \cup Serving
      BY <1>8, ServeSteps DEF Served, Starting, Serving
    <2> QED
      BY <1>4, <1>8, <2>1, <2>2, ServeSteps
  <1>9. ASSUME NEW k \in Commands, ByCommand(k)
        PROVE  TokensAreGiven'
    <2>1. CASE \E p \in Pids : Gone(p)
      BY <1>9, <2>1, GoneTokens, CommandSteps
    <2>2. CASE ~\E p \in Pids : Gone(p)
      <3>1. UNCHANGED <<pc, shells>>
        BY <1>9, <2>2, CommandSteps
      <3>2. CASE eng' = eng
        BY <3>1, <3>2
      <3>3. CASE \E p \in Pids : pc[p] \in Serving /\ eng' = [eng EXCEPT ![p].flag = TRUE]
        BY <3>1, <3>3 DEF TypeOK, Engine
      <3> QED
        BY <1>9, <2>2, <3>2, <3>3
        DEF ByCommand, CommandStep, Verify, Target, OpenRequest, WriteRequest, Kill, Begin,
            Rest, CommandsAreBound, Active
    <2> QED
      BY <2>1, <2>2
  <1>10. CASE UNCHANGED vars
    BY <1>10 DEF vars
  <1> QED
    BY <1>1, <1>2, <1>3, <1>5, <1>6, <1>7, <1>8, <1>9, <1>10
    DEF Next, EngineStep, Serve, InDirStep, ByCommand

----------------------------------------------------------------------------
(* Commands and their engines. *)

\* Who has gone needs no command to know it.
LEMMA GoneKnown ==
    ASSUME TypeOK, CommandsKnowTheirEngine, NEW p \in Pids, Gone(p),
           \A k \in Commands :
              Active(k)' => Active(k) /\ cmd'[k].pc = cmd[k].pc /\ cmd'[k].pid = cmd[k].pid
                                      /\ cmd'[k].token = cmd[k].token
    PROVE  CommandsKnowTheirEngine'
  BY DEF CommandsKnowTheirEngine, Engines, Gone, TypeOK

\* A pid is not given out again before the commands that know it have ended, and what
\* verify_session has compared stays the same.
LEMMA KnowNext ==
    ASSUME TypeOK, CommandsAreBound, OwnDirectory, TokensAreGiven, CommandsKnowTheirEngine,
           [Next]_vars
    PROVE  CommandsKnowTheirEngine'
  <1> USE DEF CommandsKnowTheirEngine, Engines
  <1>1. ASSUME NEW p \in Pids, NEW c \in Configs \cup {None}, Start(p, c)
        PROVE  CommandsKnowTheirEngine'
    <2>1. ~Strangers => \A k \in Commands : Active(k) => cmd[k].pid # p
      BY <1>1 DEF Start, Reusable, Active
    <2>2. \A q \in Pids \ {p} : pc'[q] = pc[q] /\ eng'[q] = eng[q]
      BY <1>1, NewEngine DEF TypeOK
    <2>3. cmd' = cmd /\ (~Strangers => \A k \in Commands : Active(k) => cmd[k].pid \in Pids \ {p})
      BY <1>1, <2>1, NewEngine DEF CommandsAreBound
    <2> QED
      BY <2>2, <2>3 DEF Active
  <1>2. ASSUME NEW p \in Pids, Foreign(p)
        PROVE  CommandsKnowTheirEngine'
    <2>1. pc'[p] = "none" \/ (~Strangers => \A k \in Commands : Active(k) => cmd[k].pid # p)
      BY <1>2 DEF Foreign, Reusable, Active, TypeOK
    <2>2. eng' = eng /\ cmd' = cmd /\ \A q \in Pids \ {p} : pc'[q] = pc[q]
      BY <1>2 DEF Foreign, TypeOK
    <2>3. \A k \in Commands : Active(k) => cmd[k].pid \in Pids
      BY DEF CommandsAreBound
    <2> QED
      BY <2>1, <2>2, <2>3 DEF Active
  <1>3. ASSUME NEW p \in Pids, Exit(p) \/ Crash(p)
        PROVE  CommandsKnowTheirEngine'
    BY <1>3, GoneKnown DEF Exit, Crash, Removed, Unlinked, Active, TypeOK, Command
  <1>4. ASSUME NEW p \in Pids, NEW s \in Starting \cup Serving, pc' = [pc EXCEPT ![p] = s],
               pc[p] \in Starting \cup Serving, pc[p] \in Serving => s \in Serving,
               \A q \in Pids : eng'[q].token = eng[q].token,
               cmd' = cmd \/ \E q \in Pids : Unlinked(q)
        PROVE  CommandsKnowTheirEngine'
    <2>1. \A k \in Commands :
             cmd'[k].pc = cmd[k].pc /\ cmd'[k].pid = cmd[k].pid /\ cmd'[k].token = cmd[k].token
      BY <1>4, UnlinkedTypes
    <2>2. \A q \in Pids : /\ pc[q] = "none" => pc'[q] = "none"
                          /\ pc[q] \in Starting \cup Serving => pc'[q] \in Starting \cup Serving
                          /\ pc[q] \in Serving => pc'[q] \in Serving
      BY <1>4, Stages DEF TypeOK
    <2>3. \A k \in Commands : Active(k) => cmd[k].pid \in Pids
      BY DEF CommandsAreBound
    <2> QED
      BY <1>4, <2>1, <2>2, <2>3 DEF Active
  <1>5. ASSUME NEW p \in Pids, SweepLook(p) \/ SweepRemove(p)
        PROVE  CommandsKnowTheirEngine'
    <2>1. /\ pc' = [pc EXCEPT ![p] = pc[p]] /\ \A q \in Pids : eng'[q].token = eng[q].token
          /\ cmd' = cmd \/ \E q \in Pids : Unlinked(q)
      <3>1. CASE SweepLook(p)
        BY <3>1 DEF SweepLook, TypeOK, Engine
      <3>2. CASE SweepRemove(p)
        BY <3>2 DEF SweepRemove, Removed, TypeOK, Engine
      <3> QED
        BY <1>5, <3>1, <3>2
    <2>2. eng[p].doomed # {} \/ pc[p] = "sweep"
      BY <1>5 DEF SweepLook, SweepRemove
    <2>3. pc[p] \in Starting \cup Serving
      BY <2>2 DEF TokensAreGiven, NoEngine, Starting
    <2> QED
      BY <1>4, <2>1, <2>3
  <1>6. ASSUME NEW p \in Pids, Create(p) \/ Replace(p)
        PROVE  CommandsKnowTheirEngine'
    <2>1. CASE Gone(p)
      BY <1>6, <2>1, CreateSteps, GoneKnown DEF Active
    <2>2. CASE ~Gone(p)
      <3>1. pc'[p] \in Starting /\ pc[p] \in Starting /\ pc[p] \notin Serving
        BY <1>6, <2>2, CreateSteps DEF Starting, Serving
      <3> QED
        BY <1>4, <1>6, <2>2, <3>1, CreateSteps
    <2> QED
      BY <2>1, <2>2
  <1>7. ASSUME NEW p \in Pids, InDirStep(p)
        PROVE  CommandsKnowTheirEngine'
    <2>1. CASE Gone(p)
      BY <1>7, <2>1, InDirSteps, GoneKnown DEF Active
    <2>2. CASE ~Gone(p)
      <3>1. /\ pc[p] \in Starting \cup Serving /\ pc'[p] \in Starting \cup Serving
            /\ pc[p] \in Serving => pc'[p] \in Serving
        BY <1>7, <2>2, FilledSteps DEF Starting, Serving
      <3>2. pc' = [pc EXCEPT ![p] = pc'[p]] /\ UNCHANGED <<eng, cmd>>
        BY <1>7, <2>2, InDirSteps
      <3> QED
        BY <1>4, <3>1, <3>2
    <2> QED
      BY <2>1, <2>2
  <1>8. ASSUME NEW p \in Pids, Serve(p)
        PROVE  CommandsKnowTheirEngine'
    <2>1. pc[p] \in Serving => pc'[p] \in Serving
      BY <1>8 DEF Serve, WriteAck, LogLine, Spawn, Handlers, SeeFlag, ReadRequest,
                  RemoveRequest, Load, Goto, TypeOK, Serving
    <2>2. \A q \in Pids : eng'[q].token = eng[q].token
      BY <1>8, ServeSteps DEF TypeOK
    <2>3. pc[p] \in Starting \cup Serving /\ pc'[p] \in Starting \cup Serving
      BY <1>8, ServeSteps DEF Served, Starting, Serving
    <2> QED
      BY <1>4, <1>8, <2>1, <2>2, <2>3, ServeSteps
  <1>9. ASSUME NEW k \in Commands, ByCommand(k)
        PROVE  CommandsKnowTheirEngine'
    <2>1. /\ \A j \in Commands \ {k} : cmd'[j] = cmd[j]
      BY <1>9, CommandMoves DEF TypeOK
    <2>2. \A p \in Pids : pc'[p] = "none" \/ (pc'[p] = pc[p] /\ eng'[p].token = eng[p].token)
      <3>1. CASE \E p \in Pids : Gone(p)
        BY <3>1 DEF Gone, TypeOK
      <3>2. CASE ~\E p \in Pids : Gone(p)
        BY <1>9, <3>2, CommandSteps DEF TypeOK, Engine
      <3> QED
        BY <3>1, <3>2
    <2>3. ASSUME ~Strangers, Active(k)'
          PROVE  LET p == cmd'[k].pid IN
                 \/ pc'[p] = "none"
                 \/ p \in Engines' /\ eng'[p].token = cmd'[k].token
                 \/ pc'[p] \in Serving /\ cmd'[k].pc = "verify"
      <3> DEFINE p == cmd'[k].pid
      <3>0. p \in Pids
        BY <1>9, <2>3, CommandMoves DEF Active, TypeOK, CommandsAreBound
      <3>1. CASE cmd[k].pc = "verify"
        <4>1. /\ p = cmd[k].pid /\ cmd'[k].token = cmd[k].token
          BY <1>9, <2>3, <3>1, CommandMoves DEF Active
        <4>2. Verify(k)
          BY <1>9, <3>1 DEF ByCommand, CommandStep, Target, OpenRequest, WriteRequest, Kill, Begin
        <4>3. run[p] # None /\ run[p].session = cmd[k].token
          BY <2>3, <4>1, <4>2 DEF Verify, Fail, Idle, Active, TypeOK
        <4>4. pc[p] \in Serving => eng[p].token = cmd[k].token
          BY <3>0, <4>3 DEF OwnDirectory, InDirectory, Serving
        <4> QED
          BY <2>2, <2>3, <3>0, <3>1, <4>1, <4>4 DEF Active
      <3>2. CASE cmd[k].pc = "idle"
        <4>1. PICK sh \in shells : /\ Begin(k, sh) /\ cmd'[k].pc = "verify"
                                  /\ cmd'[k].pid = sh.pid /\ cmd'[k].token = sh.token
          BY <1>9, <2>3, <3>2, CommandMoves DEF Active
        <4>2. CASE eng[p].token = sh.token
          BY <2>2, <3>0, <4>1, <4>2 DEF TokensAreGiven, NoEngine
        <4>3. CASE pc[p] \notin Starting \cup {"foreign"}
          BY <2>2, <3>0, <4>1, <4>3 DEF TypeOK
        <4> QED
          BY <2>3, <4>1, <4>2, <4>3 DEF Begin
      <3>3. CASE cmd[k].pc \notin {"verify", "idle"}
        <4>1. p = cmd[k].pid /\ cmd'[k].token = cmd[k].token /\ Active(k)
          BY <1>9, <2>3, <3>3, CommandMoves DEF Active
        <4> QED
          BY <2>2, <2>3, <3>0, <3>3, <4>1
      <3> QED
        BY <3>1, <3>2, <3>3
    <2>4. \A j \in Commands : Active(j) => cmd[j].pid \in Pids
      BY DEF CommandsAreBound
    <2> QED
      BY <2>1, <2>2, <2>3, <2>4 DEF Active
  <1>10. CASE UNCHANGED vars
    BY <1>10 DEF vars, Active
  <1> QED
    BY <1>1, <1>2, <1>3, <1>5, <1>6, <1>7, <1>8, <1>9, <1>10
    DEF Next, EngineStep, Serve, InDirStep, ByCommand

----------------------------------------------------------------------------
(* Requests. *)

\* What an engine does about a request: it keeps it and what announces it, or takes it.
LEMMA ServedRequests ==
    ASSUME TypeOK, NEW p \in Pids, Serve(p), run[p] # None, run'[p].request # None
    PROVE  /\ run'[p].request = run[p].request
           /\ eng[p].flag => eng'[p].flag \/ pc'[p] = "read"
           /\ pc[p] \in {"read", "unlink"} => pc'[p] \in {"read", "unlink"}
  <1>0. run[p] \in Dir /\ eng[p] \in Engine
    BY DEF TypeOK
  <1>1. CASE WriteAck(p)
    <2>1. run'[p] = [run[p] EXCEPT !.ack = IF @ = None THEN eng[p].token ELSE None]
      BY <1>1 DEF WriteAck, TypeOK
    <2> QED
      BY <1>0, <1>1, <2>1 DEF WriteAck, Dir
  <1>2. CASE Spawn(p) \/ Handlers(p) \/ LogLine(p, "startlog", "spawn") \/ LogLine(p, "log", "loop")
    BY <1>2 DEF Spawn, Handlers, LogLine
  <1>3. CASE SeeFlag(p)
    BY <1>3 DEF SeeFlag, Goto, TypeOK
  <1>4. CASE ReadRequest(p)
    BY <1>0, <1>4 DEF ReadRequest, Request, Goto, TypeOK, Engine
  <1>5. CASE RemoveRequest(p)
    <2>1. Request(p) # None => run'[p] = [run[p] EXCEPT !.request = None]
      BY <1>5 DEF RemoveRequest, TypeOK
    <2>2. Request(p) # None
      BY <1>5 DEF RemoveRequest, Request
    <2> QED
      BY <1>0, <2>1, <2>2 DEF Dir
  <1>6. CASE Load(p)
    BY <1>6, LoadSteps
  <1> QED
    BY <1>1, <1>2, <1>3, <1>4, <1>5, <1>6 DEF Serve

\* What a command does about a request: only before its own signal may there be a new one.
LEMMA CommandRequests ==
    ASSUME TypeOK, CommandsAreBound, NEW k \in Commands, ByCommand(k),
           NEW p \in Pids, pc'[p] \in InDirectory, run[p] # None, run'[p].request # None
    PROVE  \/ eng'[p].flag
           \/ cmd'[k].pid = p /\ cmd'[k].pc \in {"write", "kill"}
           \/ /\ run'[p].request = run[p].request /\ eng'[p] = eng[p]
              /\ cmd[k].pid = p => cmd[k].pc \notin {"write", "kill"}
  <1>0. run[p] \in Dir /\ eng[p] \in Engine /\ cmd[k] \in Command
    BY DEF TypeOK
  <1>1. CASE Verify(k) \/ (\E c \in Configs \cup {None} : Target(k, c))
             \/ \E sh \in shells : Begin(k, sh)
    BY <1>1 DEF Verify, Target, Begin, Rest
  <1>2. CASE OpenRequest(k)
    BY <1>0, <1>2 DEF OpenRequest, Rest, TypeOK, Command
  <1>3. CASE WriteRequest(k)
    BY <1>0, <1>3 DEF WriteRequest, Step, Rest, TypeOK, Command
  <1>4. CASE Kill(k)
    <2>1. CASE cmd[k].pid = p
      <3>1. pc[p] \in Serving /\ eng' = [eng EXCEPT ![p].flag = TRUE]
        BY <1>4, <2>1, Stages DEF Kill, Gone, TypeOK
      <3> QED
        BY <1>0, <3>1 DEF TypeOK, Engine
    <2>2. CASE cmd[k].pid # p
      <3>1. run'[p] = run[p] /\ eng'[p] = eng[p]
        BY <1>4, <2>2 DEF Kill, Gone, TypeOK
      <3> QED
        BY <2>2, <3>1
    <2> QED
      BY <2>1, <2>2
  <1> QED
    BY <1>1, <1>2, <1>3, <1>4 DEF ByCommand, CommandStep

\* A request is announced from before it is there until the engine takes it.
LEMMA RequestsNext ==
    ASSUME TypeOK, CommandsAreBound, DoomedAreDead, OwnDirectory, RequestsAreAnnounced,
           [Next]_vars
    PROVE  RequestsAreAnnounced'
  <1> USE DEF RequestsAreAnnounced, Request
  <1>1. ASSUME NEW p \in Pids,
               \A q \in Pids \ {p} : /\ pc'[q] \in InDirectory =>
                                           pc'[q] = pc[q] /\ run'[q] = run[q]
                                     /\ eng'[q].flag = eng[q].flag,
               cmd' = cmd \/ \E q \in Pids : Unlinked(q),
               pc'[p] \in InDirectory /\ run'[p] # None /\ run'[p].request # None =>
                  /\ run[p] # None /\ pc[p] \in InDirectory /\ run[p].request = run'[p].request
                  /\ eng[p].flag => eng'[p].flag \/ pc'[p] = "read"
                  /\ pc[p] \in {"read", "unlink"} => pc'[p] \in {"read", "unlink"}
        PROVE  RequestsAreAnnounced'
    <2>1. \A k \in Commands : cmd'[k].pid = cmd[k].pid /\ cmd'[k].pc = cmd[k].pc
      BY <1>1 DEF Unlinked, TypeOK, Command
    <2> QED
      BY <1>1, <2>1
  <1>2. ASSUME NEW p \in Pids, Gone(p), UNCHANGED run \/ Removed(p), cmd' = cmd \/ Unlinked(p)
        PROVE  RequestsAreAnnounced'
    <2>1. /\ pc'[p] = "none"
          /\ \A q \in Pids \ {p} : pc'[q] = pc[q] /\ run'[q] = run[q] /\ eng'[q] = eng[q]
      BY <1>2 DEF Gone, Removed, TypeOK
    <2> QED
      BY <1>1, <1>2, <2>1, Stages
  <1>3. ASSUME NEW p \in Pids, NEW c \in Configs \cup {None}, Start(p, c)
        PROVE  RequestsAreAnnounced'
    <2>1. /\ pc'[p] \notin InDirectory
          /\ \A q \in Pids \ {p} : pc'[q] = pc[q] /\ run'[q] = run[q] /\ eng'[q] = eng[q]
          /\ cmd' = cmd
      BY <1>3, NewEngine DEF TypeOK, InDirectory, Serving
    <2> QED
      BY <1>1, <2>1
  <1>4. ASSUME NEW p \in Pids, Foreign(p)
        PROVE  RequestsAreAnnounced'
    BY <1>1, <1>4, Stages DEF Foreign, TypeOK
  <1>5. ASSUME NEW p \in Pids, Exit(p) \/ Crash(p)
        PROVE  RequestsAreAnnounced'
    BY <1>2, <1>5 DEF Exit, Crash, Removed
  <1>6. ASSUME NEW p \in Pids, SweepLook(p)
        PROVE  RequestsAreAnnounced'
    <2>1. \A q \in Pids : eng'[q].flag = eng[q].flag
      BY <1>6 DEF SweepLook, TypeOK, Engine
    <2> QED
      BY <1>6, <2>1 DEF SweepLook
  <1>7. ASSUME NEW p \in Pids, SweepRemove(p)
        PROVE  RequestsAreAnnounced'
    <2>1. PICK q \in eng[p].doomed : Removed(q)
      BY <1>7 DEF SweepRemove
    <2>2. q \in Pids /\ run'[q] = None /\ pc' = pc
      BY <1>7, <2>1 DEF TypeOK, Engine, SweepRemove, Removed
    <2>3. \A r \in Pids : eng'[r].flag = eng[r].flag
      BY <1>7 DEF SweepRemove, TypeOK, Engine
    <2>4. \A r \in Pids \ {q} : run'[r] = run[r]
      BY <2>1 DEF Removed, TypeOK
    <2>5. Unlinked(q)
      BY <2>1 DEF Removed
    <2> QED
      BY <1>1, <2>2, <2>3, <2>4, <2>5
  <1>8. ASSUME NEW p \in Pids, Create(p) \/ Replace(p)
        PROVE  RequestsAreAnnounced'
    <2>1. CASE Gone(p) /\ UNCHANGED <<run, cmd>>
      BY <1>2, <2>1
    <2>2. CASE ~Gone(p)
      <3>1. /\ \A q \in Pids \ {p} : pc'[q] = pc[q] /\ run'[q] = run[q]
            /\ eng' = eng /\ (cmd' = cmd \/ Unlinked(p))
        BY <1>8, <2>2, CreateSteps DEF TypeOK
      <3>2. pc'[p] \in InDirectory => run'[p] = NewDir
        BY <1>8, <2>2, CreateSteps DEF InDirectory, Serving
      <3> QED
        BY <1>1, <3>1, <3>2 DEF NewDir
    <2> QED
      BY <1>8, <2>1, <2>2, CreateSteps
  <1>9. ASSUME NEW p \in Pids, InDirStep(p)
        PROVE  RequestsAreAnnounced'
    <2>1. CASE Gone(p)
      BY <1>2, <1>9, <2>1, InDirSteps
    <2>2. CASE ~Gone(p)
      <3>1. \A q \in Pids \ {p} : pc'[q] = pc[q] /\ run'[q] = run[q]
        BY <1>9, <2>2, InDirSteps DEF TypeOK
      <3>2. eng' = eng /\ cmd' = cmd /\ pc[p] \in InDirectory \ {"read", "unlink"}
        BY <1>9, <2>2, InDirSteps DEF InDirectory, Serving
      <3>3. run[p] # None /\ run'[p].request = run[p].request
        BY <1>9, <2>2, FilledSteps
      <3> QED
        BY <1>1, <3>1, <3>2, <3>3
    <2> QED
      BY <2>1, <2>2
  <1>10. ASSUME NEW p \in Pids, Serve(p)
         PROVE  RequestsAreAnnounced'
    <2>1. \A q \in Pids \ {p} : pc'[q] = pc[q] /\ run'[q] = run[q] /\ eng'[q] = eng[q]
      BY <1>10, ServeSteps DEF TypeOK
    <2>2. /\ pc[p] \in InDirectory /\ (run'[p] # None => run[p] # None)
          /\ cmd' = cmd \/ Unlinked(p)
      BY <1>10, ServeSteps DEF Served, InDirectory
    <2> QED
      BY <1>1, <1>10, <2>1, <2>2, ServedRequests
  <1>11. ASSUME NEW k \in Commands, ByCommand(k)
         PROVE  RequestsAreAnnounced'
    <2>1. \A j \in Commands \ {k} : cmd'[j] = cmd[j]
      BY <1>11, CommandMoves DEF TypeOK
    <2>2. \A p \in Pids : pc'[p] \in InDirectory =>
             pc'[p] = pc[p] /\ (run'[p] # None => run[p] # None)
      <3>1. CASE \E p \in Pids : Gone(p) /\ UNCHANGED run
        BY <3>1, Stages DEF Gone, TypeOK
      <3>2. CASE ~\E p \in Pids : Gone(p) /\ UNCHANGED run
        BY <1>11, <3>2, CommandSteps
      <3> QED
        BY <3>1, <3>2
    <2>3. ASSUME NEW p \in Pids, pc'[p] \in InDirectory, run'[p] # None, run'[p].request # None
          PROVE  \/ eng'[p].flag
                 \/ pc'[p] \in {"read", "unlink"}
                 \/ \E j \in Commands : cmd'[j].pid = p /\ cmd'[j].pc \in {"write", "kill"}
      <3>1. CASE /\ run'[p].request = run[p].request /\ eng'[p] = eng[p]
                 /\ cmd[k].pid = p => cmd[k].pc \notin {"write", "kill"}
        BY <2>1, <2>2, <2>3, <3>1
      <3> QED
        BY <1>11, <2>2, <2>3, <3>1, CommandRequests
    <2> QED
      BY <2>3
  <1>12. CASE UNCHANGED vars
    BY <1>12 DEF vars
  <1> QED
    BY <1>3, <1>4, <1>5, <1>6, <1>7, <1>8, <1>9, <1>10, <1>11, <1>12
    DEF Next, EngineStep, Serve, InDirStep, ByCommand

----------------------------------------------------------------------------
(* The log. *)

\* The writers that may add a line without looking at the size again.
Committed == {p \in Pids : fd[p] \in {"cur", "reopen"}}

LEMMA CommittedIsFinite ==
    ASSUME NEW W \in SUBSET Pids
    PROVE  IsFiniteSet(W) /\ Cardinality(W) \in Nat /\ Cardinality(W) <= Cardinality(Pids)
  BY SessionAssumption, FS_Subset, FS_CardinalityType

\* There is room as long as the file is within its limit, or grows only by the lines of
\* writers that are then done.
LEMMA RoomRemains ==
    ASSUME L!TypeOK, L!TypeOK', LogHasRoom,
           \/ log'.cur <= MaxLog
           \/ log'.cur <= log.cur /\ Committed' \subseteq Committed
           \/ \E w \in Committed : log'.cur = log.cur + 1 /\ Committed' = Committed \ {w}
    PROVE  LogHasRoom'
  <1>1. /\ MaxLog \in Nat /\ log.cur \in Int /\ log'.cur \in Int
        /\ Committed \subseteq Pids /\ Committed' \subseteq Pids
    BY SessionAssumption DEF L!TypeOK, Committed
  <1>2. /\ Cardinality(Committed) \in Nat /\ Cardinality(Committed') \in Nat
        /\ Cardinality(Committed') <= Cardinality(Pids) /\ Cardinality(Pids) \in Nat
        /\ IsFiniteSet(Committed)
    BY <1>1, CommittedIsFinite
  <1>3. log.cur + Cardinality(Committed) <= MaxLog + Cardinality(Pids)
    BY DEF LogHasRoom, Committed
  <1>4. log'.cur + Cardinality(Committed') <= MaxLog + Cardinality(Pids)
    <2>1. CASE log'.cur <= MaxLog
      BY <1>1, <1>2, <2>1
    <2>2. CASE log'.cur <= log.cur /\ Committed' \subseteq Committed
      <3>1. Cardinality(Committed') <= Cardinality(Committed)
        BY <1>2, <2>2, FS_Subset
      <3> QED
        BY <1>1, <1>2, <1>3, <2>2, <3>1
    <2>3. CASE \E w \in Committed : log'.cur = log.cur + 1 /\ Committed' = Committed \ {w}
      <3>1. Cardinality(Committed') = Cardinality(Committed) - 1
        BY <1>2, <2>3, FS_RemoveElement
      <3> QED
        BY <1>1, <1>2, <1>3, <2>3, <3>1
    <2> QED
      BY <2>1, <2>2, <2>3
  <1> QED
    BY <1>4 DEF LogHasRoom, Committed

\* The steps of a line of the log.
LEMMA LineHasRoom ==
    ASSUME L!TypeOK, LogHasRoom, NEW p \in Pids, L!Open(p) \/ L!Step(p)
    PROVE  LogHasRoom'
  <1> USE SessionAssumption
  <1>0. /\ L!TypeOK' /\ L!Absent = -1
        /\ MaxLog \in Nat /\ log.cur \in Int /\ log \in [{"cur", "old"} -> Int]
        /\ fd \in [Pids -> {"none", "cur", "old", "gone", "rotate", "reopen"}]
    BY LogTypes DEF L!TypeOK, L!Absent
  <1>1. CASE L!Open(p)
    BY <1>0, <1>1, RoomRemains DEF L!Open, L!Created, L!TypeOK, Committed
  <1>2. CASE L!Rotate(p)
    BY <1>0, <1>2, RoomRemains DEF L!Rotate
  <1>3. CASE L!Reopen(p)
    <2>1. Committed' = Committed
      BY <1>0, <1>3 DEF L!Reopen, Committed
    <2> QED
      BY <1>0, <1>3, <2>1, RoomRemains DEF L!Reopen, L!Created
  <1>4. CASE L!Write(p)
    <2>1. CASE fd[p] = "cur"
      <3>1. Committed' = Committed \ {p} /\ p \in Committed
        BY <1>0, <1>4, <2>1 DEF L!Write, Committed
      <3> QED
        BY <1>0, <1>4, <2>1, <3>1, RoomRemains DEF L!Write
    <2>2. CASE fd[p] # "cur"
      <3>1. Committed' \subseteq Committed /\ log'.cur = log.cur
        BY <1>0, <1>4, <2>2 DEF L!Write, Committed
      <3> QED
        BY <1>0, <3>1, RoomRemains
    <2> QED
      BY <2>1, <2>2
  <1> QED
    BY <1>1, <1>2, <1>3, <1>4 DEF L!Step

\* All other steps leave the log alone or end a writer.
LEMMA RoomNext == TypeOK /\ CommandsAreBound /\ LogHasRoom /\ [Next]_vars => LogHasRoom'
  <1> SUFFICES ASSUME TypeOK, CommandsAreBound, LogHasRoom, [Next]_vars
               PROVE  LogHasRoom'
    OBVIOUS
  <1>0. L!TypeOK /\ L!TypeOK'
    BY TypesNext DEF TypeOK
  <1>1. CASE \E p \in Pids : L!Open(p) \/ L!Step(p)
    BY <1>0, <1>1, LineHasRoom
  <1>2. CASE \E p \in Pids : Gone(p) /\ log' = log
    <2>1. log' = log /\ Committed' \subseteq Committed
      BY <1>0, <1>2 DEF Gone, Committed, L!TypeOK
    <2> QED
      BY <1>0, <2>1, RoomRemains DEF L!TypeOK
  <1>3. CASE UNCHANGED <<log, fd>>
    BY <1>3 DEF LogHasRoom
  <1>4. ASSUME NEW p \in Pids, InDirStep(p)
        PROVE  (Gone(p) /\ log' = log) \/ UNCHANGED <<log, fd>>
    BY <1>4, InDirSteps
  <1>5. ASSUME NEW k \in Commands, ByCommand(k)
        PROVE  (\E p \in Pids : Gone(p) /\ log' = log) \/ UNCHANGED <<log, fd>>
    BY <1>5, CommandSteps
  <1>6. ASSUME NEW p \in Pids, EngineStep(p)
        PROVE  \/ InDirStep(p) \/ L!Open(p) \/ L!Step(p) \/ UNCHANGED <<log, fd>>
               \/ Gone(p) /\ log' = log
    BY <1>6
    DEF EngineStep, InDirStep, SweepLook, SweepRemove, Create, Replace, LogLine, Spawn, Handlers,
        SeeFlag, ReadRequest, RemoveRequest, Load
  <1>7. ASSUME NEW p \in Pids, Exit(p) \/ Crash(p)
        PROVE  Gone(p) /\ log' = log
    BY <1>7 DEF Exit, Crash
  <1>8. ASSUME NEW p \in Pids, WriteAck(p) \/ Foreign(p) \/ \E c \in Configs \cup {None} : Start(p, c)
        PROVE  UNCHANGED <<log, fd>>
    BY <1>8 DEF Start, WriteAck, Foreign
  <1> QED
    BY <1>1, <1>2, <1>3, <1>4, <1>5, <1>6, <1>7, <1>8 DEF Next, ByCommand, vars

----------------------------------------------------------------------------
(* Theorems. *)

\* The invariant holds initially.
LEMMA SessionInit == Init => SessionInv
  <1> SUFFICES ASSUME Init
               PROVE  SessionInv
    OBVIOUS
  <1> USE DEF Init
  <1>1. TypeOK
    BY Values DEF TypeOK, L!Init, L!TypeOK, L!Absent
  <1>2. OwnDirectory /\ DoomedAreDead /\ RecordedIsInUse /\ RequestsAreAnnounced /\ TokensAreGiven
    BY Stages DEF OwnDirectory, DoomedAreDead, NoEngine, RecordedIsInUse, RequestsAreAnnounced,
                  TokensAreGiven, Engines
  <1>3. CommandsAreBound /\ CommandsKnowTheirEngine
    BY DEF CommandsAreBound, CommandsKnowTheirEngine, Active, Idle
  <1>4. LogHasRoom
    <2>1. Committed = {} /\ log.cur = -1 /\ MaxLog \in Nat
      BY SessionAssumption DEF Committed, L!Init, L!Absent
    <2>2. Cardinality(Committed) = 0 /\ Cardinality(Pids) \in Nat
      BY <2>1, FS_EmptySet, CommittedIsFinite
    <2> QED
      BY <2>1, <2>2 DEF LogHasRoom, Committed
  <1> QED
    BY <1>1, <1>2, <1>3, <1>4 DEF SessionInv

\* Whatever engines start, crash, sweep, reload and log meanwhile, and whoever gets their
\* pids: an engine that serves a shell has its own directory with its own token (state.rs,
\* create_run_dir, remove_stale_runs), every request in it is announced, and the rest of
\* the inductive invariant.  The engine whose pid a sweep had found free just before it
\* started is the exception: it may have lost the directory to that sweep.
THEOREM SessionInvariant == Spec => []SessionInv
  <1>1. SessionInv /\ [Next]_vars => SessionInv'
    BY TypesNext, OwnNext, DoomedNext, RecordedNext, BoundNext, RequestsNext, TokensNext,
       KnowNext, RoomNext
    DEF SessionInv
  <1> QED
    BY <1>1, SessionInit, PTL DEF Spec

\* What a plain reload reads again is always the file whose theme is on the screen
\* (engine.rs, the reload at the top of the loop; cli.rs, reload_target), of every engine
\* that no sweep has been after.
THEOREM PlainReloadIsOfTheThemeInUse == Spec => []CurrentIsInUse
  <1>1. SessionInv => CurrentIsInUse
    BY DEF SessionInv, OwnDirectory, InDirectory, RecordedIsInUse, CurrentIsInUse, Unrecorded,
           Engines, Serving
  <1> QED
    BY <1>1, SessionInvariant, PTL

\* However many commands and the engine overtake each other, no request is left behind
\* for a later reload that did not make it (state.rs, take_reload_request).
THEOREM NoRequestIsLeftBehind == Spec => []RequestsAreConsumed
  <1>1. SessionInv => RequestsAreConsumed
    BY DEF SessionInv, RequestsAreAnnounced, RequestsAreConsumed, AtRest, InDirectory, Serving
  <1> QED
    BY <1>1, SessionInvariant, PTL

\* Any number of engines that rotate the log without a lock exceed its limit by no more
\* than one line each (log.rs, append).
THEOREM LogStaysBounded == Spec => []LogIsBounded
  <1>1. SessionInv => LogIsBounded
    <2> SUFFICES ASSUME SessionInv
                 PROVE  LogIsBounded
      OBVIOUS
    <2>1. /\ log.cur \in Int /\ MaxLog \in Nat /\ Cardinality(Pids) \in Nat
          /\ Cardinality(Committed) \in Nat
      BY SessionAssumption, CommittedIsFinite DEF SessionInv, TypeOK, L!TypeOK, Committed
    <2> QED
      BY <2>1 DEF SessionInv, LogHasRoom, LogIsBounded, Committed
  <1> QED
    BY <1>1, SessionInvariant, PTL

\* As long as no reload begins while its pid belongs to somebody who has not written the
\* directory yet, the signal goes to the engine that the command knows (cli.rs,
\* reload_engine).  With Strangers = TRUE in MCSession.cfg TLC shows the assumption is needed.
THEOREM SignalReachesItsEngine ==
    ASSUME ~Strangers
    PROVE  Spec => SignalsItsEngine
  <1>1. SessionInv /\ [Next]_vars =>
           [\A k \in Commands :
               cmd[k].pc = "kill" /\ cmd'[k].pc = "done" =>
                  LET p == cmd[k].pid IN
                  pc[p] = "none" \/ (p \in Engines /\ eng[p].token = cmd[k].token)]_vars
    BY DEF SessionInv, CommandsKnowTheirEngine, Active
  <1> QED
    BY <1>1, SessionInvariant, PTL DEF Spec, SignalsItsEngine
=============================================================================
