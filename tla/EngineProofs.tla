---------------------------- MODULE EngineProofs ----------------------------
(***************************************************************************)
(* Theorems about Engine: it contains GitWorker, whose theorems carry      *)
(* over, and its handshake with an uninterrupted shell is sound, for any   *)
(* sets of directories, themes and sizes and any number of keys, reloads   *)
(* and resizes.                                                            *)
(***************************************************************************)
EXTENDS Engine, TLAPS

GP == INSTANCE GitWorkerProofs

----------------------------------------------------------------------------
(* The git part.  Engine has GitWorker as GW, the theorems speak of GP: the *)
(* two are instances of one module over the same variables.                *)

\* Both instances have one invariant.
LEMMA SameInv ==
    /\ GP!GitInv <=> GW!GitInv
    /\ GP!GitInv' <=> GW!GitInv'
  BY DEF GP!GitInv, GW!GitInv, GP!TypeOK, GW!TypeOK, GP!Numbered, GW!Numbered,
         GP!Current, GW!Current, GP!Single, GW!Single, GP!Asked, GW!Asked,
         GP!VcsOfItsDirectory, GW!VcsOfItsDirectory, GP!QueuedAt, GW!QueuedAt,
         GP!WorkedOnBy, GW!WorkedOnBy, GP!AnsweredAt, GW!AnsweredAt,
         GP!Workers, GW!Workers, GP!GitRequest, GW!GitRequest,
         GP!GitResult, GW!GitResult, GP!Status, GW!Status

\* And the same steps.
LEMMA SameNext ==
    /\ GP!Init <=> GW!Init
    /\ [GP!Next]_(GP!gitVars) <=> [GW!Next]_(GW!gitVars)
  <1>1. GP!Init <=> GW!Init
    BY DEF GP!Init, GW!Init, GP!Workers, GW!Workers
  <1>2. [GP!Next]_(GP!gitVars) <=> [GW!Next]_(GW!gitVars)
    BY DEF GP!Next, GW!Next, GP!gitVars, GW!gitVars, GP!SendRequest, GW!SendRequest,
           GP!Change, GW!Change, GP!Take, GW!Take, GP!Finish, GW!Finish,
           GP!Respawn, GW!Respawn, GP!ReceiveResult, GW!ReceiveResult,
           GP!Accept, GW!Accept, GP!Compute, GW!Compute, GP!Workers, GW!Workers
  <1> QED
    BY <1>1, <1>2

\* GitWorker's invariant is inductive wherever GitWorker is used (git.rs).
LEMMA GitInductive ==
    /\ GW!Init => GW!GitInv
    /\ GW!GitInv /\ [GW!Next]_(GW!gitVars) => GW!GitInv'
  <1>1. GP!Init => GP!GitInv
    BY GP!GitInit, EngineAssumption DEF GP!GitRequest, GW!GitRequest, GP!Status, GW!Status
  <1>2. GP!GitInv /\ [GP!Next]_(GP!gitVars) => GP!GitInv'
    BY GP!GitNext, EngineAssumption DEF GP!GitRequest, GW!GitRequest, GP!Status, GW!Status
  <1> QED
    BY <1>1, <1>2, SameInv, SameNext

\* A message of the loop's announcements is one of its type.
LEMMA FirstOfBatch ==
    ASSUME NEW S, NEW s \in Seq(S), s # <<>>
    PROVE  Head(s) \in S
  OBVIOUS

\* What the event loop, the threads and the shell do to the git part is a step of
\* GitWorker or nothing.
LEMMA GitSteps == TypeOK /\ [Next]_vars => [GW!Next]_(GW!gitVars)
  <1> SUFFICES ASSUME TypeOK, [Next]_vars
               PROVE  [GW!Next]_(GW!gitVars)
    OBVIOUS
  <1> USE DEF gitVars, GW!gitVars
  <1>1. CASE Reload
    BY <1>1 DEF Reload, LoadTheme, GW!Next
  <1>2. CASE Messages
    <2> DEFINE m == Head(batch)
    <2>1. m \in Announcements
      BY <1>2, FirstOfBatch DEF TypeOK, Messages
    <2>2. CASE HandleHeader(m)
      <3>1. m.cwd \in Cwds
        BY <2>1, <2>2 DEF HandleHeader, Announcements
      <3> QED
        BY <2>2, <3>1 DEF HandleHeader, GW!Next
    <2>3. CASE HandleResize(m) \/ HandleVimMode(m)
      BY <2>3 DEF HandleResize, HandleVimMode
    <2> QED
      BY <1>2, <2>2, <2>3 DEF Messages
  <1>3. CASE Results
    BY <1>3 DEF Results, GW!Next
  <1>4. CASE Resize \/ Probe \/ Drain \/ Poll \/ Deferred
    BY <1>4 DEF Resize, Probe, Drain, Poll, Deferred
  <1>5. CASE ReadStdin \/ (\E n \in 1..Len(pty) : ReadPty(n))
    BY <1>5 DEF ReadStdin, ReadPty
  <1>6. CASE \E w \in GW!Workers : WorkerTake(w) \/ WorkerFinish(w)
    BY <1>6 DEF WorkerTake, WorkerFinish, GW!Next
  <1>7. CASE Wake \/ ReloadCommand \/ (\E c \in Sizes : ResizeWindow(c)) \/ Clock
    BY <1>7 DEF Wake, ReloadCommand, ResizeWindow, Clock
  <1>8. CASE Output \/ (\E d \in Cwds : Done(d)) \/ Hooks
    BY <1>8 DEF Output, Done, Hooks, ReadAck, PrintPrompt, LineInit, ReadKey, Interrupt,
                Winch, Reprint, Shell
  <1>9. CASE \E k \in Keys : PressKey(k)
    BY <1>9 DEF PressKey
  <1>10. CASE UNCHANGED vars
    BY <1>10 DEF vars
  <1> QED
    BY <1>1, <1>2, <1>3, <1>4, <1>5, <1>6, <1>7, <1>8, <1>9, <1>10 DEF Next, Loop

----------------------------------------------------------------------------
(* Types. *)

\* Sequences keep their type through the operations of the channels.
LEMMA ChannelOps ==
    ASSUME NEW S, NEW s \in Seq(S)
    PROVE  /\ s # <<>> => Tail(s) \in Seq(S)
           /\ \A e \in S : Append(s, e) \in Seq(S)
           /\ <<>> \in Seq(S)
  OBVIOUS

\* The state the loop starts in (engine.rs, run).
LEMMA TypeInit == Init => TypeOK
  <1> SUFFICES ASSUME Init
               PROVE  TypeOK
    OBVIOUS
  <1>1. GW!TypeOK
    BY GitInductive DEF Init, GW!GitInv
  <1>2. size \in Sizes /\ last_size \in Sizes
    BY EngineAssumption DEF Init
  <1>3. /\ batch \in Seq(Announcements) /\ announce \in Seq(Announcements)
        /\ stdin \in Seq(Keys)
    BY DEF Init
  <1>4. /\ epc = "top" /\ ready = {} /\ prompt = "Running" /\ theme \in Themes
        /\ mode = "main" /\ keymap = "main" /\ deferred = "none" /\ waking = 0
        /\ shell \in Shells /\ shpc = "exec" /\ shcwd \in Cwds /\ histcmd = 0
        /\ intr = FALSE
    BY DEF Init
  <1>5. trap \in [cols : Sizes, missed : BOOLEAN]
    BY <1>2 DEF Init
  <1> QED
    BY <1>1, <1>2, <1>3, <1>4, <1>5 DEF TypeOK, Modes

\* Steps of the loop.
LEMMA LoopKeepsTypes ==
    ASSUME TypeOK, Loop, GW!TypeOK'
    PROVE  TypeOK'
  <1> USE DEF TypeOK
  <1>1. CASE Reload
    BY <1>1 DEF Reload, LoadTheme, chanVars, shellVars, userVars
  <1>2. CASE Messages
    <2> DEFINE m == Head(batch)
    <2>1. /\ m \in Announcements
          /\ Tail(batch) \in Seq(Announcements)
      BY <1>2, FirstOfBatch, ChannelOps DEF Messages
    <2>2. m.kind = "v" => m.mode \in Modes
      BY <2>1 DEF Announcements
    <2>3. ASSUME Message(m), mode' \in Modes, prompt' \in {"Running", "Prompt", "Typing"},
                 deferred' \in {"none", "set", "due"}
          PROVE  TypeOK'
      BY <2>1, <2>3 DEF Message, SyncSize, wakeVars, userVars
    <2>4. CASE HandleHeader(m)
      BY <2>3, <2>4 DEF HandleHeader
    <2>5. CASE HandleResize(m)
      BY <2>3, <2>5 DEF HandleResize
    <2>6. CASE HandleVimMode(m)
      BY <2>2, <2>3, <2>6 DEF HandleVimMode
    <2> QED
      BY <1>2, <2>4, <2>5, <2>6 DEF Messages
  <1>3. CASE Resize \/ Probe \/ Deferred
    BY <1>3 DEF Resize, SyncSize, Probe, Deferred, viewVars, gitVars, wakeVars, chanVars,
                shellVars, userVars
  <1>4. CASE Drain
    BY <1>4, ChannelOps DEF Drain, viewVars, gitVars, wakeVars, shellVars, userVars
  <1>5. CASE Poll
    BY <1>5 DEF Poll, Turn, viewVars, gitVars, chanVars, shellVars, userVars
  <1>6. CASE ReadStdin
    BY <1>6, ChannelOps DEF ReadStdin, Handled, Turn, PromptAfter, gitVars, wakeVars, userVars
  <1>7. ASSUME NEW n \in 1..Len(pty), ReadPty(n)
        PROVE  TypeOK'
    <2>1. /\ Handled("pty")
          /\ prompt' \in {prompt, "Prompt"}
          /\ UNCHANGED <<batch, theme, mode, last_size, deferred, gitVars, wakeVars, stdin,
                         announce, shellVars, userVars>>
      BY <1>7 DEF ReadPty
    <2> QED
      BY <2>1 DEF Handled, Turn, gitVars, wakeVars, shellVars, userVars
  <1>8. CASE Results
    BY <1>8 DEF Results, loopVars, viewVars, wakeVars, chanVars, shellVars, userVars
  <1> QED
    BY <1>1, <1>2, <1>3, <1>4, <1>5, <1>6, <1>7, <1>8 DEF Loop

\* Steps of the threads, the clock, the shell and the user.
LEMMA OthersKeepTypes ==
    ASSUME TypeOK, [Next]_vars, ~Loop, GW!TypeOK'
    PROVE  TypeOK'
  <1> USE DEF TypeOK
  <1>1. CASE \E w \in GW!Workers : WorkerTake(w) \/ WorkerFinish(w)
    <2>1. waking' \in Nat
      BY <1>1 DEF WorkerTake, WorkerFinish, WakesOfWorker, wakeVars
    <2>2. UNCHANGED <<loopVars, viewVars, chanVars, shellVars, userVars>>
      BY <1>1 DEF WorkerTake, WorkerFinish
    <2> QED
      BY <2>1, <2>2 DEF loopVars, viewVars, chanVars, shellVars, userVars
  <1>2. CASE Wake \/ ReloadCommand \/ (\E c \in Sizes : ResizeWindow(c)) \/ Clock
    <2>1. CASE Clock
      BY <2>1 DEF Clock, loopVars, viewVars, wakeVars, chanVars, shellVars, userVars
    <2>3. CASE Wake
      <3>1. waking' \in Nat
        BY <2>3 DEF Wake
      <3>2. UNCHANGED <<loopVars, viewVars, chanVars, shellVars, userVars>>
        BY <2>3 DEF Wake
      <3> QED
        BY <3>1, <3>2 DEF loopVars, viewVars, chanVars, shellVars, userVars
    <2>2. CASE ReloadCommand \/ (\E c \in Sizes : ResizeWindow(c))
      <3>1. waking' \in Nat /\ epc' \in {epc, "top"}
        BY <2>2 DEF ReloadCommand, ResizeWindow, Handler, WakesOfHandler
      <3>2. size' \in Sizes
        BY <2>2 DEF ReloadCommand, ResizeWindow
      <3>3. UNCHANGED <<ready, batch, viewVars, chanVars, shellVars>>
        BY <2>2 DEF ReloadCommand, ResizeWindow
      <3> QED
        BY <3>1, <3>2, <3>3 DEF viewVars, chanVars, shellVars
    <2> QED
      BY <1>2, <2>1, <2>2, <2>3
  <1>3. /\ \A d \in Cwds, n \in Nat : [kind |-> "h", cwd |-> d, id |-> n] \in Announcements
        /\ \A m \in Modes : [kind |-> "v", mode |-> m] \in Announcements
        /\ [kind |-> "r"] \in Announcements
    BY DEF Announcements
  <1>4. \A m \in Announcements : Append(announce, m) \in Seq(Announcements)
    BY ChannelOps
  <1>5. ASSUME NEW d \in Cwds, Precmd(d)
        PROVE  announce' \in Seq(Announcements) /\ histcmd' \in Nat /\ shpc' = "await"
    <2>1. histcmd + 1 \in Nat
      OBVIOUS
    <2>2. [kind |-> "h", cwd |-> d, id |-> histcmd + 1] \in Announcements
      BY <1>3, <2>1
    <2> QED
      BY <1>4, <1>5, <2>1, <2>2 DEF Precmd
  <1>6. ASSUME NEW m \in Modes, Keymap(m)
        PROVE  announce' \in Seq(Announcements) /\ keymap' \in Modes
    BY <1>3, <1>4, <1>6 DEF Keymap
  <1>15. Printed => trap' \in [cols : Sizes, missed : BOOLEAN]
    BY DEF Printed
  <1>7. CASE Output \/ ReadAck \/ PrintPrompt \/ Reprint
    <2>1. CASE Output \/ ReadAck
      BY <2>1 DEF Output, ReadAck, Shell, loopVars, viewVars, wakeVars, userVars
    <2>2. CASE PrintPrompt \/ Reprint
      BY <1>15, <2>2 DEF PrintPrompt, Reprint, Shell, loopVars, viewVars, wakeVars, userVars
    <2> QED
      BY <1>7, <2>1, <2>2
  <1>8. CASE \E d \in Cwds : Done(d)
    BY <1>5, <1>8 DEF Done, Shell, loopVars, viewVars, wakeVars, userVars
  <1>9. CASE LineInit
    BY <1>6, <1>9 DEF LineInit, Insert, Modes, Shell, loopVars, viewVars, wakeVars, userVars
  <1>10. CASE ReadKey
    BY <1>6, <1>10, <1>15 DEF ReadKey, Modes, Shell, loopVars, viewVars, wakeVars, userVars
  <1>11. CASE Interrupt
    BY <1>5, <1>11 DEF Interrupt, Shell, loopVars, viewVars, wakeVars, userVars
  <1>12. CASE Winch
    BY <1>3, <1>4, <1>12 DEF Winch, Shell, loopVars, viewVars, wakeVars, userVars
  <1>13. CASE \E k \in Keys : PressKey(k)
    BY <1>13, ChannelOps DEF PressKey, loopVars, viewVars, wakeVars, shellVars
  <1>14. CASE UNCHANGED vars
    BY <1>14 DEF vars, loopVars, viewVars, wakeVars, chanVars, shellVars, userVars
  <1> QED
    BY <1>1, <1>2, <1>7, <1>8, <1>9, <1>10, <1>11, <1>12, <1>13, <1>14 DEF Next, Hooks

\* Types and the git part need each other: what is sent to a worker was announced.
LEMMA TypesNext == TypeOK /\ GW!GitInv /\ [Next]_vars => TypeOK' /\ GW!GitInv'
  <1> SUFFICES ASSUME TypeOK, GW!GitInv, [Next]_vars
               PROVE  TypeOK' /\ GW!GitInv'
    OBVIOUS
  <1>1. GW!GitInv'
    BY GitSteps, GitInductive
  <1>2. GW!TypeOK'
    BY <1>1 DEF GW!GitInv
  <1> QED
    BY <1>1, <1>2, LoopKeepsTypes, OthersKeepTypes

\* Every variable of the loop, the shell and the channels keeps its type, and the git
\* part its invariant, whatever is typed, reloaded and resized at any moment.
THEOREM EngineTypes == Spec => [](TypeOK /\ GW!GitInv)
  <1>1. Init => TypeOK /\ GW!GitInv
    BY TypeInit, GitInductive DEF Init
  <1> QED
    BY <1>1, TypesNext, PTL DEF Spec

----------------------------------------------------------------------------
(* The handshake. *)

\* What the handshake is about.
handshakeVars == <<announce, batch, ack, shpc, histcmd, shape, intr>>

\* Appending to a channel moves nothing in it; what comes behind is the new element.
LEMMA Appended ==
    ASSUME NEW S, NEW s \in Seq(S), NEW e \in S, NEW i \in DOMAIN Append(s, e)
    PROVE  \/ i \in DOMAIN s /\ Append(s, e)[i] = s[i]
           \/ i = Len(s) + 1 /\ Append(s, e)[i] = e
  OBVIOUS

\* Taking the first element shifts the others.
LEMMA Shifted ==
    ASSUME NEW S, NEW s \in Seq(S), s # <<>>
    PROVE  /\ Head(s) = s[1] /\ 1 \in DOMAIN s
           /\ \A i \in DOMAIN Tail(s) : /\ i \in Nat \ {0} /\ i + 1 \in DOMAIN s
                                         /\ Tail(s)[i] = s[i + 1]
  OBVIOUS

\* Announcing anything but a prompt adds no announced prompt.
LEMMA OtherAnnouncement ==
    ASSUME TypeOK, NEW m \in Announcements, m.kind # "h", announce' = Append(announce, m)
    PROVE  \A i \in DOMAIN announce' : AnnouncedAt(announce', i) =>
              AnnouncedAt(announce, i) /\ announce'[i] = announce[i]
  BY Appended DEF TypeOK, AnnouncedAt

\* The first prompt has not been announced yet.
LEMMA HandshakeInit == Init => Handshake
  BY DEF Init, Handshake, OneAnnounced, OneAckPerPrompt, AnnouncedAt

\* Steps that see nothing of the handshake.
LEMMA UnseenKeeps ==
    ASSUME Handshake, UNCHANGED handshakeVars
    PROVE  Handshake'
  BY DEF Handshake, OneAnnounced, OneAckPerPrompt, AnnouncedAt, handshakeVars

\* The loop reads the FIFO.
LEMMA DrainKeeps ==
    ASSUME Handshake, Drain
    PROVE  Handshake'
  <1>1. batch' = announce /\ announce' = <<>> /\ UNCHANGED <<ack, shpc, histcmd, shape, intr>>
    BY DEF Drain, shellVars
  <1> QED
    BY <1>1 DEF Handshake, OneAnnounced, OneAckPerPrompt, AnnouncedAt

\* The loop handles an announcement; when that is a prompt there is no other.
LEMMA MessagesKeep ==
    ASSUME TypeOK, Handshake, Messages
    PROVE  Handshake'
  <1> DEFINE m == Head(batch)
  <1> USE DEF Handshake
  <1>0. batch # <<>> /\ batch' = Tail(batch) /\ UNCHANGED <<announce, shpc, histcmd, shape, intr>>
    BY DEF Messages, HandleHeader, HandleResize, HandleVimMode, Message
  <1>1. /\ m = batch[1] /\ 1 \in DOMAIN batch
        /\ \A i \in DOMAIN batch' : /\ i \in Nat \ {0} /\ i + 1 \in DOMAIN batch
                                     /\ batch'[i] = batch[i + 1]
    BY <1>0, Shifted DEF TypeOK
  <1>2. \A i \in DOMAIN batch' : AnnouncedAt(batch', i) => AnnouncedAt(batch, i + 1)
    BY <1>1 DEF AnnouncedAt
  <1>3. CASE HandleHeader(m)
    <2>1. AnnouncedAt(batch, 1)
      BY <1>1, <1>3 DEF AnnouncedAt, HandleHeader
    <2>2. /\ \A i \in DOMAIN announce : ~AnnouncedAt(announce, i)
          /\ \A i \in DOMAIN batch' : ~AnnouncedAt(batch', i)
      BY <1>1, <1>2, <2>1 DEF OneAnnounced
    <2>3. shpc = "await" /\ m.id = histcmd
      BY <1>1, <2>1 DEF OneAnnounced
    <2>4. ack'.id = histcmd
      BY <1>3, <2>3 DEF HandleHeader, Ack
    <2> QED
      BY <1>0, <2>2, <2>3, <2>4 DEF OneAnnounced, OneAckPerPrompt
  <1>4. CASE HandleResize(m) \/ HandleVimMode(m)
    <2>1. ack' = ack
      BY <1>4 DEF HandleResize, HandleVimMode
    <2> QED
      BY <1>0, <1>1, <1>2, <2>1 DEF OneAnnounced, OneAckPerPrompt, AnnouncedAt
  <1> QED
    BY <1>3, <1>4 DEF Messages

\* A prompt is announced when no other is, and no ack exists.
LEMMA PrecmdKeeps ==
    ASSUME TypeOK, Handshake, shpc = "exec", NEW d \in Cwds, Done(d)
    PROVE  Handshake'
  <1> DEFINE m == [kind |-> "h", cwd |-> d, id |-> histcmd + 1]
  <1> USE DEF Handshake
  <1>1. /\ announce' = Append(announce, m) /\ histcmd' = histcmd + 1 /\ shpc' = "await"
        /\ UNCHANGED <<batch, ack, shape, intr>>
    BY DEF Done, Precmd, Shell, loopVars
  <1>2. /\ ack = None
        /\ \A i \in DOMAIN announce : ~AnnouncedAt(announce, i)
        /\ \A i \in DOMAIN batch : ~AnnouncedAt(batch, i)
    BY DEF OneAnnounced, OneAckPerPrompt
  <1>3. m \in Announcements
    BY DEF Announcements, TypeOK
  <1>4. \A i \in DOMAIN announce' : AnnouncedAt(announce', i) =>
            i = Len(announce) + 1 /\ announce'[i] = m
    BY <1>1, <1>2, <1>3, Appended DEF AnnouncedAt, TypeOK
  <1> QED
    BY <1>1, <1>2, <1>4 DEF OneAnnounced, OneAckPerPrompt, AnnouncedAt

\* The hook reads the ack: that is the answer to its own prompt.
LEMMA ReadAckKeeps ==
    ASSUME Handshake, ReadAck
    PROVE  Handshake'
  <1>1. /\ shpc = "await" /\ ack # None /\ shpc' = "print" /\ shape' = ack /\ ack' = None
        /\ UNCHANGED <<announce, batch, histcmd, intr>>
    BY DEF ReadAck, Shell, loopVars
  <1>2. /\ \A i \in DOMAIN announce : ~AnnouncedAt(announce, i)
        /\ \A i \in DOMAIN batch : ~AnnouncedAt(batch, i)
    BY <1>1 DEF Handshake, OneAnnounced
  <1> QED
    BY <1>1, <1>2 DEF Handshake, OneAnnounced, OneAckPerPrompt, AnnouncedAt

\* The shell prints, edits, reports its keymap or its size: it does not wait, or goes on
\* waiting, and no prompt is announced.
LEMMA EditingKeeps ==
    ASSUME TypeOK, Handshake, PrintPrompt \/ LineInit \/ ReadKey \/ Winch \/ Reprint
    PROVE  Handshake'
  <1>1. UNCHANGED <<batch, ack, histcmd, shape, intr>>
    BY DEF PrintPrompt, LineInit, ReadKey, Winch, Reprint, Shell, loopVars
  <1>2. \/ shpc' = shpc
        \/ /\ shpc \in {"print", "init", "edit", "reprint"}
           /\ shpc' \in {"exec", "init", "edit", "reprint"}
    BY DEF PrintPrompt, LineInit, ReadKey, Winch, Reprint
  <1>3. \/ announce' = announce
        \/ \E mo \in Modes : announce' = Append(announce, [kind |-> "v", mode |-> mo])
        \/ announce' = Append(announce, [kind |-> "r"])
    BY DEF PrintPrompt, LineInit, ReadKey, Winch, Reprint, Keymap, Insert, Modes
  <1>4. \A i \in DOMAIN announce' : AnnouncedAt(announce', i) =>
            AnnouncedAt(announce, i) /\ announce'[i] = announce[i]
    <2>1. \A mo \in Modes : [kind |-> "v", mode |-> mo] \in Announcements
      BY DEF Announcements
    <2>2. [kind |-> "r"] \in Announcements
      BY DEF Announcements
    <2> QED
      BY <1>3, <2>1, <2>2, OtherAnnouncement
  <1> QED
    BY <1>1, <1>2, <1>4 DEF Handshake, OneAnnounced, OneAckPerPrompt, AnnouncedAt

\* Keys without ^C do not interrupt the shell.
LEMMA ReadStdinKeeps ==
    ASSUME "interrupt" \notin Keys, TypeOK, Handshake, ReadStdin
    PROVE  Handshake'
  <1>1. ~Contains(stdin, "interrupt")
    BY DEF TypeOK, Contains
  <1>2. UNCHANGED handshakeVars
    BY <1>1 DEF ReadStdin, handshakeVars
  <1> QED
    BY <1>2, UnseenKeeps

\* No step breaks the handshake with a shell that nobody interrupts.
LEMMA HandshakeNext ==
    ASSUME "interrupt" \notin Keys, TypeOK, Handshake, [Next]_vars
    PROVE  Handshake'
  <1>1. CASE Reload \/ Resize \/ Probe \/ Poll \/ Results \/ Deferred
    BY <1>1, UnseenKeeps DEF Reload, Resize, Probe, Poll, Results, Deferred, handshakeVars,
                             loopVars, chanVars, shellVars
  <1>2. CASE \E n \in 1..Len(pty) : ReadPty(n)
    BY <1>2, UnseenKeeps DEF ReadPty, handshakeVars, shellVars
  <1>3. CASE \E w \in GW!Workers : WorkerTake(w) \/ WorkerFinish(w)
    BY <1>3, UnseenKeeps DEF WorkerTake, WorkerFinish, handshakeVars, loopVars, chanVars,
                             shellVars
  <1>4. CASE Wake \/ ReloadCommand \/ (\E c \in Sizes : ResizeWindow(c)) \/ Clock
    BY <1>4, UnseenKeeps DEF Wake, ReloadCommand, ResizeWindow, Clock, handshakeVars,
                             loopVars, chanVars, shellVars
  <1>5. CASE Output \/ (\E k \in Keys : PressKey(k)) \/ UNCHANGED vars
    BY <1>5, UnseenKeeps DEF Output, PressKey, Shell, vars, handshakeVars, loopVars,
                             chanVars, shellVars
  <1>6. CASE \E d \in Cwds : Done(d)
    BY <1>6, PrecmdKeeps DEF Done
  <1>7. CASE Hooks
    BY <1>7, ReadAckKeeps, EditingKeeps DEF Hooks, Interrupt, Handshake
  <1> QED
    BY <1>1, <1>2, <1>3, <1>4, <1>5, <1>6, <1>7, DrainKeeps, MessagesKeep, ReadStdinKeeps
    DEF Next, Loop

\* A shell that is not interrupted has one ack for each of its prompts, although the FIFO,
\* the ack file and the pty have no common order and the loop may be anywhere when a
\* prompt is announced (engine.rs, the `h` handler; templates.rs, precmd).
THEOREM EngineInvariant ==
    ASSUME "interrupt" \notin Keys
    PROVE  Spec => []EngineInv
  <1>1. Init => TypeOK /\ GW!GitInv /\ Handshake
    BY TypeInit, GitInductive, HandshakeInit DEF Init
  <1>2. TypeOK /\ GW!GitInv /\ Handshake /\ [Next]_vars
            => TypeOK' /\ GW!GitInv' /\ Handshake'
    BY TypesNext, HandshakeNext
  <1> QED
    BY <1>1, <1>2, PTL DEF Spec, EngineInv

\* And what its hook reads is the answer to the prompt it is about to print.  The run
\* engine_interrupt shows that ^C is what this theorem has to exclude.
THEOREM AckIsAnswer ==
    ASSUME "interrupt" \notin Keys
    PROVE  Spec => AckIsOfThisPrompt
  <1>1. EngineInv /\ [Next]_vars => [shape' # shape => shape'.id = histcmd]_vars
    <2> SUFFICES ASSUME EngineInv, Next, shape' # shape
                 PROVE  shape'.id = histcmd
      OBVIOUS
    <2>1. ReadAck
      BY DEF Next, Loop, Hooks, Reload, Resize, Probe, Drain, Messages, HandleHeader,
             HandleResize, HandleVimMode, Message, Poll, ReadStdin, ReadPty, Results,
             Deferred, WorkerTake, WorkerFinish, Wake, ReloadCommand, ResizeWindow, Clock,
             Output, Done, PrintPrompt, LineInit, ReadKey, Interrupt, Winch, Reprint,
             PressKey, shellVars
    <2> QED
      BY <2>1 DEF ReadAck, EngineInv, Handshake, OneAckPerPrompt
  <1> QED
    BY <1>1, EngineInvariant, PTL DEF Spec, AckIsOfThisPrompt

\* The engine's loop, threads and reloads do nothing to the git part that GitWorker does
\* not allow; so no status is ever filed under another directory.
THEOREM EngineContainsGitWorker ==
    Spec => GW!Init /\ [][GW!Next]_(GW!gitVars) /\ []GW!VcsOfItsDirectory
  <1>1. Init => GW!Init
    BY DEF Init
  <1>2. GW!GitInv => GW!VcsOfItsDirectory
    BY DEF GW!GitInv
  <1> QED
    BY <1>1, <1>2, GitSteps, EngineTypes, PTL DEF Spec

\* The whole engine answers questions as StatusQuery has it: loop, FIFO, threads, channels and
\* generations are one question that a prompt asks and one answer to it.
Query == INSTANCE StatusQuery WITH pending <- GW!Outstanding

\* Both instances of GitWorker have one abstract state.
LEMMA SameQuery ==
    /\ GP!Abstract!Init <=> Query!Init
    /\ [GP!Abstract!Next]_(GP!Abstract!vars) <=> [Query!Next]_(Query!vars)
  <1>1. (GP!Outstanding = GW!Outstanding) /\ (GP!Outstanding' = GW!Outstanding')
    BY DEF GP!Outstanding, GW!Outstanding, GP!Workers, GW!Workers, GP!QueuedAt, GW!QueuedAt,
           GP!WorkedOnBy, GW!WorkedOnBy, GP!AnsweredAt, GW!AnsweredAt
  <1> QED
    BY <1>1 DEF GP!Abstract!Init, Query!Init, GP!Abstract!Next, Query!Next, GP!Abstract!vars,
                Query!vars, GP!Abstract!Ask, Query!Ask, GP!Abstract!Answer, Query!Answer,
                GP!Abstract!Change, Query!Change

\* In the whole engine a prompt's question replaces the one before it and is answered once, with
\* a status of its directory no older than the question (git.rs with engine.rs, run).
THEOREM EngineImplementsStatusQuery ==
    Spec => Query!Init /\ [][Query!Next]_(Query!vars)
  <1>1. GW!Init => Query!Init
    BY GP!StepsAreAbstract, EngineAssumption, SameNext, SameQuery
    DEF GP!GitRequest, GW!GitRequest, GP!Status, GW!Status
  <1>2. GW!GitInv /\ [GW!Next]_(GW!gitVars) => [Query!Next]_(Query!vars)
    BY GP!StepsAreAbstract, EngineAssumption, SameInv, SameNext, SameQuery
    DEF GP!GitRequest, GW!GitRequest, GP!Status, GW!Status
  <1>3. TypeOK /\ GW!GitInv /\ [Next]_vars => [Query!Next]_(Query!vars)
    BY <1>2, GitSteps
  <1>4. Init => Query!Init
    BY <1>1 DEF Init
  <1> QED  BY <1>3, <1>4, EngineTypes, PTL DEF Spec
=============================================================================
