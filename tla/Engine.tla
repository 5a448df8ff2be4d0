------------------------------- MODULE Engine -------------------------------
(***************************************************************************)
(* The engine's event loop (engine.rs, run) with the two programs it sits  *)
(* between: the shell behind the pty, driven by the hooks the engine wrote *)
(* into its startup file (templates.rs), and the terminal.                 *)
(*                                                                         *)
(* For each prompt the shell announces `h` on a FIFO and waits for the ack *)
(* file; the ack tells it how many blank rows to print before the prompt-  *)
(* ready signal.  When the signal comes out of the pty the engine paints   *)
(* the header over the blank rows, by stepping up from the cursor.  Git    *)
(* results, vi mode changes, resizes and reloads repaint it in place, and  *)
(* that is right only while the cursor is still on the input line: the     *)
(* engine keeps an opinion about that (prompt), read off the bytes that    *)
(* pass through it in both directions.                                     *)
(*                                                                         *)
(* The shell, the terminal and the user are the environment; the shell's   *)
(* hooks are the engine's own code.  The instant header of the first       *)
(* prompt is not modelled: the first prompt prints its rows like any other.*)
(***************************************************************************)
EXTENDS Naturals, SequencesExt

CONSTANTS Cwds, None, MaxGen, MaxVer, MaxWorkers,    \* as in GitWorker
          Shells,       \* the shells tried, of "zsh" and "bash"
          Themes,       \* the themes a reload may find: [name, rows]
          Sizes,        \* widths of the terminal window
          Vi,           \* whether zsh is in vi mode
          Keys,         \* what the user may type
          Typeahead,    \* whether the user types before the prompt is there
          MaxPresses,   \* bound: keys pressed
          MaxReloads,   \* bound: `p11k reload`s
          MaxResizes,   \* bound: changes of the window size
          MaxPty        \* bound: pieces of command output waiting in the pty

VARIABLES
    \* the loop
    epc,           \* where the loop is
    ready,         \* what poll reported and the turn has not yet handled
    batch,         \* announcements read and not yet handled
    prompt,        \* PromptState
    theme,         \* config and geometry
    mode,          \* CURRENT_VI_MODE
    last_header,   \* the lines of the last paint, None if they must be painted
    last_size,     \* the width the pty was given last
    deferred,      \* resize_prompt_at: none, set, or due (its time has come)
    git_gen, cwd, last_vcs, cur, queue, job, results, repo, asked,  \* see GitWorker
    \* signals and the wake pipe
    reload_flag, resize_flag,
    pipe,          \* a byte is in the pipe
    waking,        \* calls of wake() that have not written their byte
    \* channels
    stdin, ptyin,  \* keys: typed, and passed on to the shell's side of the pty
    pty,           \* output of the shell
    announce,      \* the FIFO
    ack,           \* the ack file, or None
    \* the shell
    shell, shpc, shcwd,
    histcmd,       \* prompts announced
    shape,         \* the ack it read last
    keymap,
    winch, intr,   \* signals pending
    trap,          \* cols: the width the WINCH trap recorded last; missed, a history variable:
                   \* it ran and found that width again, behind a header of another one
    \* the terminal and the user
    term,          \* see Forward and Paint
    size,
    presses, reloads, resizes

GW == INSTANCE GitWorker

\* Keymaps, and what a header can show.
Modes == {"main", "viins", "vicmd"}
Headers ==
    [theme : Themes, cwd : Cwds \cup {None}, vcs : GW!Status \cup {None}, mode : Modes, cols : Sizes]

ASSUME EngineAssumption ==
    /\ Shells \subseteq {"zsh", "bash"}
    /\ Keys \subseteq {"enter", "char", "long", "reply", "esc", "redraw", "interrupt"}
    /\ \A t \in Themes : t.rows \in Nat \ {0}
    /\ Sizes # {} /\ None \notin Sizes
    /\ None \notin Headers
    \* GitAssumption of GitWorker:
    /\ MaxGen \in Nat /\ MaxVer \in Nat /\ MaxWorkers \in Nat \ {0}
    /\ None \notin Cwds
    /\ None \notin GW!GitRequest
    /\ None \notin [cwd : Cwds, status : GW!Status]

gitVars == <<git_gen, cwd, last_vcs, cur, queue, job, results, repo, asked>>
loopVars == <<epc, ready, batch>>
wakeVars == <<reload_flag, resize_flag, pipe, waking>>
paintVars == <<last_header, term>>
shellVars == <<shell, shpc, shcwd, histcmd, shape, keymap, winch, trap, intr>>
userVars == <<size, presses, reloads, resizes>>
viewVars == <<prompt, theme, mode, last_size, deferred>>
chanVars == <<stdin, ptyin, pty, announce, ack>>
vars == <<loopVars, viewVars, gitVars, wakeVars, chanVars, shellVars, paintVars, userVars>>

----------------------------------------------------------------------------
(* What is painted, and where it lands. *)

\* The data of a header: render_header_lines is a function of these.
Header(t, v, m, c) == [theme |-> t, cwd |-> cwd, vcs |-> v, mode |-> m, cols |-> c]

AtPrompt == prompt \in {"Prompt", "Typing"}

\* The status in use, as the repaints take it, and as the paint after a signal does.
Vcs == IF last_vcs = None THEN None ELSE last_vcs.status
VcsOfCwd == IF last_vcs # None /\ last_vcs.cwd = cwd THEN last_vcs.status ELSE None

\* The terminal: rows of the header block right above the input line (0 when the
\* cursor is not on an input line), lines of typed text above the cursor in that line,
\* what the block shows, the glyph before the text, and whether a paint ever missed.
Token(kind) == [kind |-> kind]
Lead(rows, glyph) == [kind |-> "lead", rows |-> rows, glyph |-> glyph]

\* The terminal receives pieces of the shell's output: the last output or prompt among
\* them says where the cursor is, the last prompt which glyph is before it.
Forward(t, pieces) ==
    LET last == SelectLastInSeq(pieces, LAMBDA p : p.kind \in {"out", "lead"})
        lead == SelectLastInSeq(pieces, LAMBDA p : p.kind = "lead")
        wraps == \E i \in last + 1..Len(pieces) : pieces[i].kind = "wrap"
    IN  [t EXCEPT !.rows = IF last = 0 THEN @ ELSE IF last = lead THEN pieces[last].rows ELSE 0,
                  !.wrapped = IF wraps THEN 1 ELSE IF last = 0 THEN @ ELSE 0,
                  !.header = IF last = 0 THEN @ ELSE None,
                  !.glyph = IF lead = 0 THEN @ ELSE pieces[lead].glyph]

\* Step up over the rows of the theme, write header h, return.
Paint(t, h) ==
    IF t.wrapped = 0 /\ t.rows = h.theme.rows
       THEN [t EXCEPT !.header = h]
       ELSE [t EXCEPT !.spoiled = TRUE]

\* redraw_header_cfg: nothing to do if the lines are those of the last paint.
Redraw(h) ==
    /\ last_header' = h
    /\ term' = IF last_header = h THEN term ELSE Paint(term, h)

\* The same with last_header cleared first.
RedrawAfresh(h) ==
    /\ last_header' = h
    /\ term' = Paint(term, h)

----------------------------------------------------------------------------
(* Mutants, for the runs that show which line each property rests on.      *)

\* The paint after a prompt signal trusts the cache.
AfterSignalsCached(t, h) == IF last_header = h THEN t ELSE Paint(t, h)

\* Enter does not end the prompt.
PromptAfterNoEnter(keys) ==
    IF AtPrompt /\ keys # <<"reply">> THEN "Typing" ELSE prompt

\* The hook does not remove the ack.
ReadAckForgetsIt ==
    /\ shpc = "await"
    /\ ack # None
    /\ shpc' = "print"
    /\ shape' = ack
    /\ UNCHANGED <<loopVars, viewVars, gitVars, wakeVars, chanVars, shell, shcwd, histcmd,
                   keymap, winch, trap, intr, paintVars, userVars>>

\* A worker sends its result without a wake byte.
WakesOfWorkerNone == waking

\* The signal handler sets its flag without a wake byte.
WakesOfHandlerNone == waking

\* A reload takes the theme and leaves the screen for the next prompt.
LoadThemeSilently(t) ==
    /\ theme' = t
    /\ GW!Respawn
    /\ UNCHANGED paintVars

\* The size is noted, the pty keeps the old one.
SyncSizeSilently == last_size' = size /\ winch' = winch

\* The announcements are handled only if there is also something to read in the pty.
ReadableWithoutFifo ==
    {s \in {"stdin", "pty", "wake"} :
        \/ s = "stdin" /\ stdin # <<>>
        \/ s = "pty" /\ pty # <<>>
        \/ s = "wake" /\ pipe}

----------------------------------------------------------------------------
(* The event loop. *)

\* `p11k reload`: a theme that does not parse changes nothing; another one is taken,
\* and painted at once unless the number of its rows is new.
LoadTheme(t) ==
    /\ theme' = t
    /\ GW!Respawn
    /\ IF AtPrompt /\ t.rows = theme.rows
          THEN RedrawAfresh(Header(t, Vcs, mode, last_size))
          ELSE UNCHANGED paintVars

Reload ==
    /\ epc = "top"
    /\ reload_flag
    /\ reload_flag' = FALSE
    /\ epc' = "resize"
    /\ \/ \E t \in Themes : LoadTheme(t)
       \/ UNCHANGED <<theme, gitVars, paintVars>>
    /\ UNCHANGED <<ready, batch, prompt, mode, last_size, deferred, resize_flag, pipe, waking,
                   chanVars, shellVars, userVars>>

\* The pty gets the size of the terminal; the shell gets SIGWINCH if that is new.
SyncSize ==
    /\ last_size' = size
    /\ winch' = (winch \/ size # last_size)

Resize ==
    /\ epc = "resize" \/ (epc = "top" /\ ~reload_flag)
    /\ resize_flag
    /\ resize_flag' = FALSE
    /\ SyncSize
    /\ epc' = "probe"
    /\ UNCHANGED <<ready, batch, prompt, theme, mode, deferred, gitVars, reload_flag, pipe,
                   waking, chanVars, shell, shpc, shcwd, histcmd, shape, keymap, trap, intr,
                   paintVars, userVars>>

\* While the pty holds output the announcements wait.  (Flags found unset are passed
\* over in the same step: one that is set later is seen in the next turn.)
Probe ==
    /\ \/ epc = "probe"
       \/ epc = "resize" /\ ~resize_flag
       \/ epc = "top" /\ ~reload_flag /\ ~resize_flag
    /\ epc' = IF pty = <<>> THEN "drain" ELSE "poll"
    /\ UNCHANGED <<ready, batch, viewVars, gitVars, wakeVars, chanVars, shellVars, paintVars,
                   userVars>>

Drain ==
    /\ epc = "drain"
    /\ batch' = announce
    /\ announce' = <<>>
    /\ epc' = IF announce = <<>> THEN "poll" ELSE "messages"
    /\ UNCHANGED <<ready, viewVars, gitVars, wakeVars, stdin, ptyin, pty, ack, shellVars,
                   paintVars, userVars>>

\* The loop over the announcements read: m is the next one.
Message(m) ==
    /\ epc = "messages"
    /\ m = Head(batch)
    /\ batch' = Tail(batch)
    /\ epc' = IF Tail(batch) = <<>> THEN "poll" ELSE "messages"
    /\ SyncSize
    /\ UNCHANGED <<ready, theme, wakeVars, stdin, ptyin, pty, announce, shell, shpc, shcwd,
                   histcmd, shape, keymap, trap, intr, userVars>>

\* A mutant: `r` repaints whether or not there is a prompt.
HandleResizeAlways(m) ==
    /\ m.kind = "r"
    /\ Message(m)
    /\ RedrawAfresh(Header(theme, Vcs, mode, size))
    /\ deferred' = "set"
    /\ UNCHANGED <<prompt, mode, gitVars, ack>>

\* What the shell is told about the prompt announced by m; the glyph of the prefix is
\* that of the mode known now.
Ack(m) == [id |-> m.id, rows |-> theme.rows, glyph |-> mode]

HandleHeader(m) ==
    /\ m.kind = "h"
    /\ Message(m)
    /\ prompt' = "Running"
    /\ ack' = Ack(m)
    /\ GW!SendRequest(m.cwd)
    /\ UNCHANGED <<mode, deferred, paintVars>>

HandleResize(m) ==
    /\ m.kind = "r"
    /\ Message(m)
    /\ IF AtPrompt /\ shell = "zsh"
          THEN /\ RedrawAfresh(Header(theme, Vcs, mode, size))
               /\ deferred' = "set"
          ELSE UNCHANGED <<paintVars, deferred>>
    /\ UNCHANGED <<prompt, mode, gitVars, ack>>

HandleVimMode(m) ==
    /\ m.kind = "v"
    /\ Message(m)
    /\ mode' = m.mode
    /\ IF AtPrompt THEN Redraw(Header(theme, Vcs, m.mode, size)) ELSE UNCHANGED paintVars
    /\ UNCHANGED <<prompt, deferred, gitVars, ack>>

Messages ==
    /\ batch # <<>>
    /\ LET m == Head(batch) IN HandleHeader(m) \/ HandleResize(m) \/ HandleVimMode(m)

\* What poll would report.
Readable ==
    {s \in {"stdin", "pty", "announce", "wake"} :
        \/ s = "stdin" /\ stdin # <<>>
        \/ s = "pty" /\ pty # <<>>
        \/ s = "announce" /\ announce # <<>>
        \/ s = "wake" /\ pipe}

\* The next part of the turn, given what is still to be handled.
Turn(r) ==
    CASE "stdin" \in r -> "stdin"
      [] "stdin" \notin r /\ "pty" \in r -> "pty"
      [] OTHER -> "results"

Handled(source) ==
    /\ epc = source
    /\ ready' = ready \ {source}
    /\ epc' = Turn(ready')

\* poll without a timeout: the loop stands here until something is readable.  One read
\* of 64 bytes empties the pipe.  (A byte more that comes between poll and the read is
\* read with the first.)
Poll ==
    /\ epc = "poll"
    /\ Readable # {}
    /\ ready' = Readable \cap {"stdin", "pty"}
    /\ epc' = Turn(ready')
    /\ pipe' = FALSE
    /\ UNCHANGED <<batch, viewVars, gitVars, reload_flag, resize_flag, waking, chanVars,
                   shellVars, paintVars, userVars>>

\* What the loop makes of the keys of one read.  A terminal's reply is recognised
\* when it is the whole read.
PromptAfter(keys) ==
    IF Contains(keys, "enter") THEN "Running"
    ELSE IF AtPrompt /\ keys # <<"reply">> THEN "Typing"
    ELSE prompt

\* Keys go to the pty; ^C is taken out there, drops what was not read, and
\* becomes SIGINT.
ReadStdin ==
    /\ Handled("stdin")
    /\ stdin' = <<>>
    /\ prompt' = PromptAfter(stdin)
    /\ IF Contains(stdin, "interrupt")
          THEN /\ intr' = TRUE
               /\ ptyin' = SubSeq(stdin, SelectLastInSeq(stdin, LAMBDA k : k = "interrupt") + 1,
                                  Len(stdin))
          ELSE /\ ptyin' = ptyin \o stdin
               /\ UNCHANGED intr
    /\ UNCHANGED <<batch, theme, mode, last_size, deferred, gitVars, wakeVars, pty, announce,
                   ack, shell, shpc, shcwd, histcmd, shape, keymap, winch, trap, paintVars,
                   userVars>>

\* The header painted for the signals of one read, over the cache.
AfterSignals(t, h) == Paint(t, h)

\* One read, of any length: what precedes the first signal is forwarded, the header is
\* painted (once per signal, at the same place), what follows is forwarded, of which
\* SignalScanner has removed the other signals.
ReadPty(n) ==
    LET chunk == SubSeq(pty, 1, n)
        first == SelectInSeq(chunk, LAMBDA p : p.kind = "sig")
        shown == Forward(term, SubSeq(chunk, 1, IF first = 0 THEN n ELSE first))
        h == Header(theme, VcsOfCwd, mode, last_size)
    IN  /\ Handled("pty")
        /\ pty' = SubSeq(pty, n + 1, Len(pty))
        /\ IF first = 0
              THEN /\ term' = shown
                   /\ UNCHANGED <<prompt, last_header>>
              ELSE /\ term' = Forward(AfterSignals(shown, h), SubSeq(chunk, first, n))
                   /\ last_header' = h
                   /\ prompt' = "Prompt"
        /\ UNCHANGED <<batch, theme, mode, last_size, deferred, gitVars, wakeVars, stdin,
                       ptyin, announce, ack, shellVars, userVars>>

\* try_recv until the channel is empty: one result a step.
Results ==
    /\ epc = "results"
    /\ GW!ReceiveResult
    /\ IF GW!Accept(Head(results)) /\ AtPrompt /\ cwd # None
          THEN Redraw(Header(theme, Head(results).status, mode, last_size))
          ELSE UNCHANGED paintVars
    /\ UNCHANGED <<loopVars, viewVars, wakeVars, chanVars, shellVars, userVars>>

\* The end of the turn: the prefix is written over the one the shell drew, if the time
\* of the deferred repaint has come.
Deferred ==
    /\ epc = "results"
    /\ results = <<>>
    /\ epc' = "top"
    /\ IF deferred = "due"
          THEN /\ deferred' = "none"
               /\ term' = IF term.rows > 0 /\ term.wrapped = 0
                             THEN [term EXCEPT !.glyph = mode]
                             ELSE [term EXCEPT !.spoiled = TRUE]
          ELSE UNCHANGED <<deferred, term>>
    /\ UNCHANGED <<ready, batch, prompt, theme, mode, last_size, last_header, gitVars,
                   wakeVars, chanVars, shellVars, userVars>>

Loop ==
    \/ Reload \/ Resize \/ Probe \/ Drain \/ Messages
    \/ Poll \/ ReadStdin \/ (\E n \in 1..Len(pty) : ReadPty(n)) \/ Results \/ Deferred

----------------------------------------------------------------------------
(* Signals, worker threads, time. *)

\* A worker sends its result, and after that calls wake().
WakesOfWorker == waking + 1

WorkerTake(w) ==
    /\ GW!Take(w)
    /\ UNCHANGED <<loopVars, viewVars, wakeVars, chanVars, shellVars, paintVars, userVars>>

WorkerFinish(w) ==
    /\ GW!Finish(w)
    /\ waking' = WakesOfWorker
    /\ UNCHANGED <<loopVars, viewVars, reload_flag, resize_flag, pipe, chanVars, shellVars,
                   paintVars, userVars>>

\* The byte of a wake() reaches the pipe.
Wake ==
    /\ waking > 0
    /\ waking' = waking - 1
    /\ pipe' = TRUE
    /\ UNCHANGED <<loopVars, viewVars, gitVars, reload_flag, resize_flag, chanVars, shellVars,
                   paintVars, userVars>>

WakesOfHandler == waking + 1

\* A handler runs, on a worker's thread or between two steps of the loop: the flag is
\* set, the byte follows.  Or it interrupts poll, which starts the loop over.
Handler ==
    \/ /\ waking' = WakesOfHandler
       /\ UNCHANGED <<epc, pipe>>
    \/ /\ epc = "poll"
       /\ epc' = "top"
       /\ pipe' = TRUE
       /\ UNCHANGED waking

\* `p11k reload` in another terminal: the request is written, SIGUSR1 sent.
ReloadCommand ==
    /\ reloads < MaxReloads
    /\ reloads' = reloads + 1
    /\ reload_flag' = TRUE
    /\ Handler
    /\ UNCHANGED <<ready, batch, viewVars, gitVars, resize_flag, chanVars, shellVars,
                   paintVars, size, presses, resizes>>

\* The window changes its width: SIGWINCH.
ResizeWindow(c) ==
    /\ resizes < MaxResizes
    /\ resizes' = resizes + 1
    /\ c # size
    /\ size' = c
    /\ resize_flag' = TRUE
    /\ Handler
    /\ UNCHANGED <<ready, batch, viewVars, gitVars, reload_flag, chanVars, shellVars,
                   paintVars, presses, reloads>>

\* 60 ms pass.
Clock ==
    /\ deferred = "set"
    /\ deferred' = "due"
    /\ UNCHANGED <<loopVars, prompt, theme, mode, last_size, gitVars, wakeVars, chanVars,
                   shellVars, paintVars, userVars>>

----------------------------------------------------------------------------
(* The shell: the hooks are those of ZSHRC_TEMPLATE and BASHRC_TEMPLATE. *)

\* Steps of the shell leave the engine, the terminal and the user alone.
Shell ==
    UNCHANGED <<loopVars, viewVars, gitVars, wakeVars, stdin, shell, paintVars, userVars>>

Insert == IF Vi THEN "viins" ELSE "main"

\* The prompt string, with the rows and the prefix of the ack read last.
PromptString == <<Lead(shape.rows, shape.glyph), Token("sig")>>
Printed == trap' = [trap EXCEPT !.missed = FALSE]

\* The startup files or a command are running.
Output ==
    /\ shpc = "exec"
    /\ Len(pty) < MaxPty
    /\ pty' = Append(pty, Token("out"))
    /\ Shell
    /\ UNCHANGED <<ptyin, announce, ack, shpc, shcwd, histcmd, shape, keymap, winch, trap, intr>>

\* precmd, PROMPT_COMMAND: announce the prompt and wait for the ack.
Precmd(d) ==
    /\ histcmd' = histcmd + 1
    /\ announce' = Append(announce, [kind |-> "h", cwd |-> d, id |-> histcmd + 1])
    /\ shpc' = "await"

\* The command ends, perhaps in another directory.
Done(d) ==
    /\ shpc = "exec"
    /\ shcwd' = d
    /\ Precmd(d)
    /\ Shell
    /\ UNCHANGED <<ptyin, pty, ack, shape, keymap, winch, trap, intr>>

\* The ack is there: the hook reads it, removes it and returns.
ReadAck ==
    /\ shpc = "await"
    /\ ack # None
    /\ shpc' = "print"
    /\ shape' = ack
    /\ ack' = None
    /\ Shell
    /\ UNCHANGED <<ptyin, pty, announce, shcwd, histcmd, keymap, winch, trap, intr>>

PrintPrompt ==
    /\ shpc = "print"
    /\ shpc' = IF shell = "zsh" THEN "init" ELSE "edit"
    /\ pty' = pty \o PromptString
    /\ Shell
    /\ Printed
    /\ UNCHANGED <<ptyin, announce, ack, shcwd, histcmd, shape, keymap, winch, intr>>

\* zle-line-init and zle-keymap-select: report the keymap.
Keymap(m) ==
    /\ keymap' = m
    /\ announce' = Append(announce, [kind |-> "v", mode |-> m])

LineInit ==
    /\ shpc = "init"
    /\ shpc' = "edit"
    /\ Keymap(Insert)
    /\ Shell
    /\ UNCHANGED <<ptyin, pty, ack, shcwd, histcmd, shape, winch, trap, intr>>

\* The line editor takes the next key.  "long" is text that does not fit on the line;
\* in zsh "esc" changes the keymap; ^L prints the prompt again.
ReadKey ==
    /\ shpc = "edit"
    /\ ptyin # <<>>
    /\ ptyin' = Tail(ptyin)
    /\ LET key == Head(ptyin) IN
        \/ /\ key = "enter"
           /\ shpc' = "exec"
           /\ pty' = Append(pty, Token("out"))
           /\ UNCHANGED <<announce, keymap, trap>>
        \/ /\ key = "long"
           /\ pty' = Append(pty, Token("wrap"))
           /\ UNCHANGED <<announce, shpc, keymap, trap>>
        \/ /\ key = "redraw"
           /\ pty' = pty \o PromptString
           /\ Printed
           /\ UNCHANGED <<announce, shpc, keymap>>
        \/ /\ key = "esc" /\ Vi /\ shell = "zsh" /\ keymap = Insert
           /\ Keymap("vicmd")
           /\ UNCHANGED <<pty, shpc, trap>>
        \/ /\ \/ key \in {"char", "reply"}
              \/ key = "esc" /\ ~(Vi /\ shell = "zsh" /\ keymap = Insert)
           /\ UNCHANGED <<pty, announce, shpc, keymap, trap>>
    /\ Shell
    /\ UNCHANGED <<ack, shcwd, histcmd, shape, winch, intr>>

\* SIGINT: a command dies, a line is given up; a hook that waits is left, and then zsh
\* prints the prompt it has, bash runs its hook again.
Interrupt ==
    /\ intr
    /\ intr' = FALSE
    /\ IF shpc \in {"exec", "init", "edit", "reprint"}
          THEN Precmd(shcwd) /\ pty' = Append(pty, Token("out"))
          ELSE /\ IF shell = "zsh" THEN shpc' = "print" /\ UNCHANGED <<announce, histcmd>>
                                   ELSE Precmd(shcwd)
               /\ UNCHANGED pty
    /\ Shell
    /\ UNCHANGED <<ptyin, ack, shcwd, shape, keymap, winch, trap>>

\* SIGWINCH: the trap compares the width (COLUMNS is that of the pty) with the one it
\* recorded; a new one it announces, and a line editor prints its prompt anew.
Winch ==
    /\ winch
    /\ winch' = FALSE
    /\ IF last_size # trap.cols
          THEN /\ announce' = Append(announce, [kind |-> "r"])
               /\ trap' = [trap EXCEPT !.cols = last_size]
               /\ shpc' = IF shpc = "edit" THEN "reprint" ELSE shpc
          ELSE /\ trap' = [trap EXCEPT !.missed =
                             @ \/ (last_header # None /\ last_header.cols # last_size)]
               /\ UNCHANGED <<announce, shpc>>
    /\ Shell
    /\ UNCHANGED <<ptyin, pty, ack, shcwd, histcmd, shape, keymap, intr>>

Reprint ==
    /\ shpc = "reprint"
    /\ shpc' = "edit"
    /\ pty' = pty \o PromptString
    /\ Printed
    /\ Shell
    /\ UNCHANGED <<ptyin, announce, ack, shcwd, histcmd, shape, keymap, winch, intr>>

\* What the shell does by itself; a command takes the time it takes.
Hooks ==
    \/ ReadAck \/ PrintPrompt \/ LineInit \/ ReadKey
    \/ Interrupt \/ Winch \/ Reprint

----------------------------------------------------------------------------
(* The user. *)

\* With Typeahead a key may come at any time.  Without it the user waits for the
\* header and types nothing between Enter and the next prompt.
PressKey(k) ==
    /\ presses < MaxPresses
    /\ Typeahead \/ (/\ shpc = "edit" /\ pty = <<>> /\ term.header # None
                     /\ ~Contains(stdin \o ptyin, "enter"))
    /\ presses' = presses + 1
    /\ stdin' = Append(stdin, k)
    /\ UNCHANGED <<loopVars, viewVars, gitVars, wakeVars, ptyin, pty, announce, ack,
                   shellVars, paintVars, size, reloads, resizes>>

----------------------------------------------------------------------------

\* The shell is starting; nothing has been painted where the first prompt will be.
Init ==
    /\ epc = "top" /\ ready = {} /\ batch = <<>>
    /\ prompt = "Running"
    /\ theme \in Themes
    /\ mode = "main"
    /\ last_header = None
    /\ size = (CHOOSE c \in Sizes : TRUE) /\ last_size = size
    /\ deferred = "none"
    /\ GW!Init
    /\ reload_flag = FALSE /\ resize_flag = FALSE /\ pipe = FALSE /\ waking = 0
    /\ stdin = <<>> /\ ptyin = <<>> /\ pty = <<>> /\ announce = <<>> /\ ack = None
    /\ shell \in Shells
    /\ shpc = "exec" /\ shcwd \in Cwds /\ histcmd = 0
    /\ shape = [id |-> 0, rows |-> 0, glyph |-> "main"]
    /\ keymap = "main"
    /\ winch = FALSE /\ intr = FALSE
    /\ trap = [cols |-> size, missed |-> FALSE]
    /\ term = [rows |-> 0, wrapped |-> 0, header |-> None, glyph |-> "main", spoiled |-> FALSE]
    /\ presses = 0 /\ reloads = 0 /\ resizes = 0

Next ==
    \/ Loop
    \/ \E w \in GW!Workers : WorkerTake(w) \/ WorkerFinish(w)
    \/ Wake \/ ReloadCommand \/ (\E c \in Sizes : ResizeWindow(c)) \/ Clock
    \/ Output \/ (\E d \in Cwds : Done(d)) \/ Hooks
    \/ \E k \in Keys : PressKey(k)

\* The loop, the threads, the shell's hooks and the clock go on.  Nothing obliges the
\* user to type, the window to change, or a command to end.
Fairness ==
    /\ WF_vars(Loop) /\ WF_vars(Hooks) /\ WF_vars(Wake) /\ WF_vars(Clock)
    /\ \A w \in GW!Workers : WF_vars(WorkerTake(w)) /\ WF_vars(WorkerFinish(w))

Spec == Init /\ [][Next]_vars /\ Fairness

----------------------------------------------------------------------------
(* Properties. *)

Announcements ==
    [kind : {"h"}, cwd : Cwds, id : Nat] \cup [kind : {"r"}] \cup [kind : {"v"}, mode : Modes]

TypeOK ==
    /\ epc \in {"top", "resize", "probe", "drain", "messages", "poll", "stdin", "pty", "results"}
    /\ ready \subseteq {"stdin", "pty"}
    /\ batch \in Seq(Announcements) /\ announce \in Seq(Announcements)
    /\ prompt \in {"Running", "Prompt", "Typing"}
    /\ theme \in Themes
    /\ mode \in Modes /\ keymap \in Modes
    /\ deferred \in {"none", "set", "due"}
    /\ size \in Sizes /\ last_size \in Sizes
    /\ GW!TypeOK
    /\ waking \in Nat
    /\ stdin \in Seq(Keys)
    /\ shell \in Shells
    /\ shpc \in {"exec", "await", "print", "init", "edit", "reprint"}
    /\ shcwd \in Cwds
    /\ histcmd \in Nat
    /\ intr \in BOOLEAN
    /\ trap \in [cols : Sizes, missed : BOOLEAN]

\* The handshake: the ack file exists only while the shell waits for it, it answers the
\* prompt announced last, and so does what the shell prints.
OneAckPerPrompt ==
    /\ ack # None => shpc = "await" /\ ack.id = histcmd
    /\ shpc \in {"print", "init", "edit", "reprint"} => shape.id = histcmd

\* A prompt is announced at place i of channel s.
AnnouncedAt(s, i) == i \in DOMAIN s /\ s[i].kind = "h"

\* What the handshake rests on: an announced prompt is the newest one, it is announced
\* once, the shell waits for its answer, and there is none yet.
OneAnnounced ==
    /\ \A s \in {announce, batch} : \A i \in DOMAIN s : AnnouncedAt(s, i) =>
          shpc = "await" /\ ack = None /\ s[i].id = histcmd
    /\ \A s \in {announce, batch} : \A i, j \in DOMAIN s :
          AnnouncedAt(s, i) /\ AnnouncedAt(s, j) => i = j
    /\ \A i \in DOMAIN announce, j \in DOMAIN batch :
          ~(AnnouncedAt(announce, i) /\ AnnouncedAt(batch, j))

\* All of it is for a shell that is not interrupted.
Handshake == ~intr /\ OneAnnounced /\ OneAckPerPrompt

\* The weaker half of it, for a shell that may be interrupted: an ack that is read is the
\* answer to the prompt the shell is about to print.
AckIsOfThisPrompt == [][shape' # shape => shape'.id = histcmd]_vars

EngineInv == TypeOK /\ GW!GitInv /\ Handshake

\* A header goes over the rows the shell left blank for it, never over command output,
\* other rows, or the user's text.
PaintsOnItsRows == ~term.spoiled

\* When that is so: nobody interrupts the shell or fills a line, the headers of all themes
\* are of one height, and a user of Enter waits for the header, does not redraw and leaves
\* the window as it is.
Calm ==
    /\ "interrupt" \notin Keys /\ "long" \notin Keys
    /\ \A t, u \in Themes : t.rows = u.rows
    /\ "enter" \in Keys => ~Typeahead /\ "redraw" \notin Keys /\ MaxResizes = 0

\* What the shell prints, and the prompts among it.
Pieces == [kind : {"out", "sig"}] \cup [kind : {"lead"}, rows : {theme.rows}, glyph : Modes]
SignalAt(i) == i \in DOMAIN pty /\ pty[i].kind = "sig"

\* Every prompt leaves the rows of the theme blank: those the loop told the hook.
RowsAreLeft ==
    /\ pty \in Seq(Pieces)
    /\ ack # None => ack.rows = theme.rows /\ ack.glyph \in Modes
    /\ shape.glyph \in Modes
    /\ shpc \in {"print", "init", "edit", "reprint"} => shape.rows = theme.rows
    /\ DOMAIN term = {"rows", "wrapped", "header", "glyph", "spoiled"} /\ term.wrapped = 0

\* When the signal is read its rows are right above the cursor.
RowsPrecedeSignals ==
    \A i \in DOMAIN pty : SignalAt(i) =>
        IF i = 1 THEN term.rows = theme.rows ELSE pty[i - 1].kind = "lead"

\* While the loop takes the cursor to be on an input line it is there, and no output is
\* coming before the loop has seen Enter.
InputLine == AtPrompt \/ deferred # "none"
OutputIsBehindEnter ==
    /\ InputLine => term.rows = theme.rows
    /\ \A j \in DOMAIN pty : InputLine \/ (\E i \in 1..j : SignalAt(i)) => pty[j].kind # "out"
    /\ shpc = "exec" => ~InputLine /\ \A i \in DOMAIN pty : ~SignalAt(i)

\* Enter is the last key there is, and is pressed when the prompt is painted.
EnterIsAwaited ==
    /\ ptyin \in Seq(Keys)
    /\ \A i \in DOMAIN stdin : stdin[i] = "enter" => shpc = "edit" /\ pty = <<>> /\ i = Len(stdin)
    /\ \A i \in DOMAIN ptyin : ptyin[i] = "enter" =>
          shpc = "edit" /\ pty = <<>> /\ prompt = "Running" /\ stdin = <<>> /\ i = Len(ptyin)

\* Where the window may not change nothing is resized.
WindowIsKept ==
    MaxResizes = 0 =>
    /\ resizes = 0 /\ size = last_size /\ ~winch /\ shpc # "reprint" /\ deferred = "none"
    /\ \A s \in {announce, batch} : \A i \in DOMAIN s : s[i].kind # "r"

Painting ==
    /\ PaintsOnItsRows
    /\ RowsAreLeft /\ RowsPrecedeSignals /\ OutputIsBehindEnter /\ EnterIsAwaited /\ WindowIsKept

\* Nothing is on its way between the loop, its threads and the shell, which is waiting
\* for a key.
Settled ==
    /\ epc = "poll" /\ Readable = {} /\ waking = 0
    /\ shpc = "edit" /\ ptyin = <<>> /\ ~winch /\ ~intr
    /\ ~GW!Outstanding /\ results = <<>>

\* The prompt is printed once: no redraw, and no window that changes.
PrintsOnce == MaxResizes = 0 /\ "redraw" \notin Keys

\* From the prompt the shell prints to its next Enter the loop is at the prompt, or a signal
\* is on its way that takes it there.
Signalled == \E i \in DOMAIN pty : SignalAt(i)
LoopIsAtPrompt ==
    /\ shpc \notin {"init", "edit", "reprint"} => ~AtPrompt /\ ~Signalled
    /\ shpc \in {"init", "edit", "reprint"} =>
          AtPrompt \/ Signalled \/ Contains(ptyin, "enter")
    /\ shell = "bash" => shpc # "init"

\* A prompt printed once has one signal, the last piece in the pty; when that has been read
\* there is a header.
PromptIsPainted ==
    PrintsOnce =>
    /\ AtPrompt => pty = <<>>
    /\ shpc \in {"init", "edit"} => IF pty = <<>>
          THEN term.header # None
          ELSE SignalAt(Len(pty)) /\ \A i \in DOMAIN pty : SignalAt(i) => i = Len(pty)

\* Column count c is the one of the pty, or a repaint for the new one is on its way: the shell
\* has not seen the signal, or is printing its prompt for it, or the loop will read of it.  Or
\* the trap found the width it knew: the window went there and back while a paint came between.
ResizeIsTold == \E s \in {announce, batch} : \E i \in DOMAIN s : s[i].kind = "r"
WidthIsKept(c) ==
    \/ c = last_size \/ winch \/ shpc = "reprint" \/ Signalled \/ (shell = "zsh" /\ ResizeIsTold)
    \/ trap.missed

\* The cache is what stands there, unless a prompt printed again has cleared it, and that was
\* painted with what the loop knows now, but for the width when it changes.
HeaderIsKept ==
    AtPrompt => \E v \in {Vcs, VcsOfCwd}, c \in Sizes :
        /\ last_header = Header(theme, v, mode, c)
        /\ WidthIsKept(c)
        /\ term.header \in {last_header, None}

\* A size the pty does not have yet has been signalled, and the signal wakes the loop.
ResizeIsSeen ==
    /\ size # last_size => resize_flag
    /\ resize_flag => pipe \/ waking > 0 \/ epc \notin {"probe", "drain", "messages", "poll"}

\* The newest report of the keymap that has not been handled has it, or the loop does.
Newest(s, i) == s[i].kind = "v" /\ \A j \in DOMAIN s : j > i => s[j].kind # "v"
Silent(s) == \A i \in DOMAIN s : s[i].kind # "v"
KeymapIsReported ==
    /\ \A i \in DOMAIN announce : Newest(announce, i) => announce[i].mode = keymap
    /\ Silent(announce) => \A i \in DOMAIN batch : Newest(batch, i) => batch[i].mode = keymap
    /\ Silent(announce) /\ Silent(batch) => mode = keymap
    /\ epc # "messages" => batch = <<>>

\* A prompt that has been announced, answered or printed is of the shell's directory.
CwdIsAnnounced ==
    /\ \A s \in {announce, batch} : \A i \in DOMAIN s : AnnouncedAt(s, i) => s[i].cwd = shcwd
    /\ ack # None \/ shpc \in {"print", "init", "edit", "reprint"} => cwd = shcwd

\* Repositories do not change here.
ReposAreStill == repo = [d \in Cwds |-> 0] /\ asked = 0

PaintedInv ==
    /\ LoopIsAtPrompt /\ PromptIsPainted /\ HeaderIsKept /\ ResizeIsSeen
    /\ KeymapIsReported /\ CwdIsAnnounced
    /\ ReposAreStill /\ GW!AnswerIsInUse

\* All that is known of a calm session.
CalmInv == EngineInv /\ Painting /\ PaintedInv

\* When all is quiet the prompt has a header, and with it all that this rests on.  (A prompt
\* printed again may lose it: two signals in one read.)
PromptHasHeader == Settled => term.header # None
HeaderIsPainted == PaintedInv /\ (PrintsOnce => PromptHasHeader)

\* And it is the one for the directory of the shell, the status of that directory, the
\* keymap, the width and the theme of this moment: no cached paint and no paint with
\* older data is left standing.  The width alone may be an older one, when the trap of the
\* shell has missed that it changed twice (templates.rs).
HeaderIsCurrent ==
    Settled /\ term.header # None =>
        \E c \in Sizes :
           /\ term.header = [theme |-> theme, cwd |-> shcwd, mode |-> keymap, cols |-> c,
                             vcs |-> [of |-> shcwd, ver |-> repo[shcwd]]]
           /\ c = size \/ trap.missed

\* The status a header shows is one of the directory it shows.
VcsOfItsHeader ==
    term.header # None /\ term.header.vcs # None => term.header.vcs.of = term.header.cwd

\* The glyph before the input line is the one of the keymap.
GlyphFollowsKeymap == Settled => term.glyph = keymap

\* A shell that waits for its ack gets it.
ShellIsReleased == shpc = "await" ~> shpc # "await"

\* A reload request is seen, although the loop may stand in poll when it comes.
ReloadIsSeen == reload_flag ~> ~reload_flag

\* The pty gets the size of the window.
SizeIsPassedOn == size # last_size ~> size = last_size

\* A repaint the loop has put off is done once its time has come.
DeferredIsDone == deferred = "due" ~> deferred = "none"

\* Together with the loop, its poll and the wake pipe, the git part keeps its promises
\* unconditionally, the fair reception of results included.
AsGitWorker == GW!Spec
=============================================================================
