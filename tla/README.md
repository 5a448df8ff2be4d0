# powerlevel11k in TLA+

powerlevel11k is a prompt engine. It runs a shell behind a pseudo terminal, passes bytes on in
both directions, and paints a themed header over rows that the shell leaves blank for it. Git
status comes from a library that runs on worker threads, or from a separate daemon. This
directory models the parts that are hard to test, checks the models with TLC and proves the
central theorems with TLAPS. Paths below are relative to `src/crates/`.

## 1. Inventory

| component | source | state | operations | what makes it right |
|---|---|---|---|---|
| event loop | `p11k-engine/src/engine.rs` (`run`), `wake.rs` | prompt state, theme, last header, last size, put-off repaint, pipe | reload, resize, announcements `h` `r` `v`, stdin, pty, results | no wakeup is lost, no shell waits for ever, no paint misses its rows |
| header painting | `theme.rs`, `window.rs`, `geometry.rs` | lines painted last | paint after a signal, repaint in place, repaint of the prefix | what is left on the screen is what the state says, unless the shell misses a resize there and back |
| async git worker | `git.rs` | request channel, result channel, generation | send, respawn, take, finish, receive | one answer per question, of the right directory, not too old |
| shell hooks | `templates.rs` (zsh, bash, fish, pwsh) | shape of the prompt, recorded size | announce and wait for the ack, print, report the keymap, report a resize | one ack per prompt |
| protocol | `protocol.rs` | partial line, partial signal | drain and parse announcements, cut signals out of the output | the same result however reads cut the bytes |
| run directories | `state.rs`, `cli.rs`, `paths.rs` | run directory, token, reload request, current config | create, take request, write config, clean up; `p11k reload` | a request is not lost, foreign processes and live directories are left alone |
| git status library | `p11k-gitstatus/src/` (`repo.rs`, `index.rs`, `scan.rs`, `untracked_cache.rs`) | repositories, their index, counts kept from the last call | open, evict, diff against HEAD, scan of the worktree in shards | counts are those of the repository, also when taken from a cache |
| daemon | `p11k-gitstatus/src/daemon.rs`, `protocol.rs`, `p11k-d/src/main.rs` | input buffer, repositories | parse, answer, evict, notice the death of the parent | one answer per request, in order |
| directory shortening | `dir_shorten.rs` | none | seven strategies | bounded, unambiguous results |
| rendering | `render.rs` | keymap | segments to rows; patterns of directories | a row ends where it should, whatever is on it |
| theme language | `config.rs`, `presets.rs` | none | write a theme, read one, merge segments | what is written is read back, under any locale |
| setup wizard | `wizard.rs` | the draft of a theme, the file | some twenty questions, restart, quit, write | the file is what was shown and confirmed |
| log | `log.rs` | the log file | append, rotate | bounded, although engines share it without a lock |
| rest | `main.rs`, `i18n.rs` | none | dispatch, messages | none |

How they interact: the shell's hooks append lines to a FIFO (*announce*) and wait for a file
(*ack*); the loop polls stdin, the pty, the FIFO and a pipe that signal handlers and worker
threads write to; workers are reached by one channel each and answer on one they share;
`p11k reload` writes a file into the run directory and sends SIGUSR1.

What is hard here: a prompt is a protocol over four channels with no common order (FIFO, ack file, pty,
keys); the engine infers from bytes where the cursor is; results come late; `p11k reload` and a resize fall
anywhere; a shell may be interrupted in the middle of its hook; run directories are shared by processes that
die; the repository changes while its status is computed, and what is kept from one request to the next
rests on stamps. The list with line numbers is under `hazards` in `PROJECT.json`.

## 2. Modules

| module | models | how |
|---|---|---|
| `StatusQuery` | what the git part promises: one question at a time, answered once | state machine |
| `GitWorker` | `git.rs` and the loop's side of it | state machine, implements `StatusQuery` |
| `Engine` | the loop, composed with `GitWorker` by INSTANCE, with the hooks of zsh and bash, the terminal and the user | state machine |
| `Session`, `Log` | run directories, tokens, `p11k reload`, several engines, crashes; the shared log | state machine, `Log` by INSTANCE |
| `RepoCache` | a cached repository and what it keeps, while the user works | state machine |
| `Daemon` | the request loop of the daemon, EXTENDS `RepoCache` | state machine |
| `Wizard` | the setup dialogue, EXTENDS `Presets` and `Config` | state machine |
| `Scan` | index to tree to shards to candidates to counts | function |
| `Streams` | `push_announce`, `SignalScanner`, `is_terminal_reply` over reads cut anywhere | function |
| `DirShorten` | the strategies that shorten a path | function |
| `Rows` | the assembly of a row of the header | function |
| `Options`, `Glob` | the daemon's command line; fnmatch, globs, groups of patterns | function |
| `Config`, `Presets` | themes to documents and back; the built-in themes | function |
| `Algorithms` | one call of each of these functions, with any input of some sets | state machine |
| `GitWorkerProofs`, `EngineProofs`, `PaintingProofs` | theorems about the worker, the handshake, the rows and the header | proofs |
| `SessionProofs`, `RepoCacheProofs`, `DaemonProofs`, `WizardProofs` | theorems about those modules | proofs |
| `AlgorithmsProofs` | theorems about `Rows`, `Streams`, `Options`, `DirShorten` and `Glob`, for every input | proofs |

The `MC` modules give their module its constants; `MCAlgorithms` has small sets of inputs for the
calls, and what a group of patterns means. Abstract specifications: `StatusQuery` for the worker; for the
functions a definition that says what the result is and not how it comes about (`TrueCounts`,
`Strip`, `Denotes`, `Words`, ...). What is left to TLC is told at the end of section 4.

### GitWorker

`SendRequest` is the part of the `h` handler that takes the next number and sends the request;
`Take` is `recv` followed by `try_recv` until the channel is empty; `Finish` is `git_status` and
`send`; `Respawn` replaces the worker, whose thread lives on until its channel is empty and
closed; `ReceiveResult` is one turn of the loop over `try_recv`. A status is the directory it
was computed for and the number of changes its repository had seen by then. `asked` is a
history variable: that number at the time of the newest request. `AnswerIsInUse` says that nothing
is lost on the way: a question that is neither in a queue, nor with a worker, nor among the results
has its answer in `last_vcs`.

### Engine

The loop is a program counter `epc` with one action per part of a turn. These are kept apart
wherever something else can change what they read: the test of the flags, the probe of the pty,
the reading of the FIFO, each announcement, `poll`, stdin, the pty, each result. Flags that are
found unset are passed over in the step that follows, and the pipe is read in the step that polls
it; both are the same to everybody else, for the pipe has no counter and the flags are looked at
again in the next turn. `ready` is what poll reported: what arrives later waits for the next turn.

A signal handler sets its flag; its byte follows in a step of its own (`Wake`), as it may run on
the thread of a worker; or it interrupts `poll`, which restarts the loop. A worker's result and
its byte are two steps too.

The shell is a program counter `shpc`: it runs a command (`exec`), waits for the ack, prints its prompt,
reports the keymap (`init`, zsh only), edits. The prompt string in the pty is two tokens, the blank rows
with the prefix and the signal, so that a read may cut between them. SIGINT leaves the waiting hook: zsh
prints the prompt it has, bash runs its hook again. How shells treat signals is external to the repository.
On a change of the window (`Winch`) the trap compares the width of the pty with the one it recorded last
(`trap.cols`): a new one it reports, and the prompt is printed again; the same one it passes over, also if
the window went there and back with a paint in between. `trap.missed`, a history variable, is true from then
on until the prompt is printed again.

The terminal is reduced to what a paint can hit or miss: the number of header rows right above
the input line (0 when the cursor is elsewhere), whether the typed line has wrapped, what the
rows show, the glyph in front of the input, and whether any paint ever landed elsewhere.

A header is a record of what `render_header_lines` depends on: theme, directory, status, keymap,
width. Two prompts in the same directory therefore have equal headers, which is the case the
cache of the last lines (`last_header`) must survive. Exit status, times and job counts would only
make headers differ more often.

`Calm` is the user for whom the paints are right: no interrupt, no line that wraps, themes of one height;
and one who presses Enter does so when the prompt is painted, does not redraw the line and leaves the window
alone. Who never presses Enter may redraw and resize at any moment. `Painting` is `PaintsOnItsRows` with
what it rests on: the rows the shell leaves are those of the theme (`RowsAreLeft`), they stand right before
the signal in the pty (`RowsPrecedeSignals`), no output of a command reaches the terminal while the loop
believes itself on an input line (`OutputIsBehindEnter`, from `EnterIsAwaited`), and a window that may not
change does not (`WindowIsKept`). `PaintedInv` is what is known of the header itself: the loop is at the
prompt or a signal is on its way that takes it there (`LoopIsAtPrompt`); where nothing makes the shell print
a prompt twice (`PrintsOnce`), there is one signal per prompt and a header behind it (`PromptIsPainted`);
the cache is what stands there, of the width of the pty unless the repaint is under way (`HeaderIsKept`,
`WidthIsKept`, `ResizeIsSeen`) or the trap has missed it; the newest report of the keymap and the last
announced directory are those of the shell (`KeymapIsReported`, `CwdIsAnnounced`); and `ReposAreStill`,
`AnswerIsInUse`. `HeaderIsPainted` is `PaintedInv` with `PromptHasHeader` where prompts are printed once;
`CalmInv` is all of it, with the handshake. TLC checks both before they are proved.

### Session and Log

A process is `pc[p]`: an engine goes through sweep, create, fill, record, spawn and handlers to its loop,
one or a few system calls per action; it exits or crashes at any of them, and its pid may then be taken by
another engine or a foreign process. `run[p]` is the directory `run-<p>`. A reload command knows an engine
by what that one exported (`shells`), verifies the token, truncates and writes the request, and sends
SIGUSR1. At the start there may be directories of engines of long ago (`Leftover`). A pid that a sweep has
found free may be taken before the sweep removes its directory, for nothing in the code holds it: the new
engine then loses the directory it has just made, which is a finding. `hunted` is a history variable that
marks such an engine; what `SessionInv` and `CurrentIsInUse` say of a directory, they say of the others, and
of this one that it has lost the directory as a whole or not at all. `remove_dir_all` is one step.
`write_private` is two steps, open with truncation and write, so that two writers may mix their bytes
(`Mixed`). `asked` is a history variable. `SessionInv` is inductive; its parts are told with the proofs.
`Log` is one file and one descriptor per engine: the length is looked at on the open file, and the rename
comes later.

### RepoCache and Daemon

A version number stands for a content and its stat. A request is a sequence of reads (HEAD, index, stat of
the index, staged diff, files, directory, listing) with the user between any two; its local variables are
`req`, what survives is `repo`. `since` tells when the user last did something, so that `QuietAnswerIsTrue`
can ask for the truth only where there is one. The staged diff is two steps, because its keys are stored
before its counts (`Staged`, `CountStaged`); a panic between the two leaves the old counts under the new
keys, and the next request takes them as valid. This is a finding; `torn`, a history variable, marks counts
of that kind, and `CacheIsTrue` and `QuietAnswerIsTrue` make an exception of them, and of nothing else. Two
steps are left out of the passing runs by a constant each, because the code is wrong there: `RacyIndex` lets
the index change between its reading and its stat, `Errors` lets libgit2 fail in the staged diff.

`Daemon` adds the FIFO, whose units a read may cut anywhere, the buffer, the responses and the shell.
`Caught` is `catch_unwind`: a panic ends the request wherever it stands and leaves the repository as
it is then. `shell = "dead"` with the FIFO still open is the case that `liveness_ok` is for.

### Wizard

`question` walks the list of `flow`, and `Asked` says which questions a draft skips. An answer is a
whole step: the edit of the draft, and the next question. Keys come byte by byte: `reader` is where
`key()` stands in an escape sequence, and `EscMayEnd` is its time limit of 20 ms. `answers` and
`shown` are history variables. A write may fail with the file truncated. `WizardInv` is the inductive
part of `WrittenIsConfirmed`; the other part, that the file parses back to what was shown, is about
the functions of `Config`.

### Functions

`Scan` has its two orders of names, alone and with a slash behind, because the source has: listings are
sorted by the one, the index by the other. `Streams` takes a stream as the sequence of reads it arrives in.
In `Rows` a cell is one column with its two colours, so that widths and neighbours are both there. `Config`
has documents (nodes, values, properties) for KDL; the syntax below is a library's. A state or an attached
text without its name is refused with the whole file (`IsUnnamed`, `Refused`). In `DirShorten` what
`truncate_to_unique` saves is counted as the code does, as if the delimiter were shown (`FoldsUniquely`). In
`Glob` each matcher is a function from patterns to the set of texts they match, so that it recurs over the
pattern alone; what a pattern means (`Denotes`) is said element by element. `RECURSIVE` occurs in
`MCAlgorithms` only, for the trees that groups are compared with.

## 3. Runs

| run | instance | shows |
|---|---|---|
| `git_worker` | 2 directories, 3 prompts, 1 change per repository, 2 reloads | the inductive invariant, the two safety properties, and that `GitWorker` implements `StatusQuery`, liveness included |
| `engine_calm` | zsh and bash, 2 directories, 2 keys, 1 reload among two themes of equal height | the handshake; no paint misses (`Painting`, the inductive invariant); when all is quiet the header is there and current |
| `engine_window` | zsh and bash, 2 resizes, perhaps there and back, and 1 reload at any moment, no key | the pty gets the size; no paint misses; a header of another width stays only where the trap has missed both resizes (`CalmInv`, the inductive invariant) |
| `engine_any` | one key (interrupt, redraw or text) and one reload at any moment | `AsGitWorker`: the loop, poll and the pipe deliver what `GitWorker`'s fairness assumes; the shell is released; the reload is seen |
| `session` | 2 pids, 2 starts, 2 reload commands, 2 theme files, directories of earlier engines, a log of 1 line | run directories and tokens, consumption of requests, the recorded file, the bound of the log, the target of the signal |
| `repo_cache` | 2 files, 3 changes, any requests | what is cached is true; an undisturbed answer is true |
| `daemon` | 1 file, 1 change, 3 requests | order and number of answers, that each comes, that the daemon ends with its shell |
| `algorithms` | see below | the functions agree with their reference definitions |
| `wizard` | 4 styles, every question, every key | the file, the answers, escape sequences, end of file |
| `engine_long_line` | violation | a git result painted over a wrapped input line |
| `engine_interrupt` | violation | ^C in the wait for the ack: the next prompt takes the wrong one |
| `scan_order` | violation | a tracked directory taken for an untracked one, and its untracked file counted twice |

Bounds. Two directories are enough because the code compares directories only for equality; three prompts
because a message is of the newest generation, of one before it, or older, and the code does not tell the
last two apart; two reloads so that three workers overlap. In `Engine` `MaxPresses`, `MaxReloads` and
`MaxResizes` bound the user, `MaxPty` the pieces of output a command puts into the pty unread, and `MaxGen`
is at least one more than the prompts that many keys can cause, so it never binds. Two keys give: a keymap
change and Enter, or two Enters (three prompts). Two resizes give there and back, before the trap or behind
it. `Typeahead = FALSE` restricts the user, not the program: no key between Enter and the next header. The
violation runs show what happens to the same properties without such limits.

In `session` two pids are an engine and its successor on either one, or two engines side by side; two
commands may overtake each other, `MaxStarts` bounds the engines; two are enough for an engine that gets the
pid which the sweep of another has just found free, because `Leftover` directories need no start. `Strangers
= FALSE` keeps a command from running when its pid belongs to somebody else: that the token does not prevent
this is a finding. In `repo_cache` three changes are enough for one before, one within and one after a
request, and requests are not bounded. In `daemon` the repository is smaller and the protocol larger: three
requests allow one behind a panic. In `algorithms`: two directories, one of which is a prefix of the other,
and two files (`Scan`); streams of five tokens (`Streams`); paths of up to three levels of names that are
prefixes of each other (`DirShorten`); three arguments; patterns of four and texts of two or three
characters, groups two deep (`Glob`); themes that differ from the default in two fields (`Config`); rows of
two segments and two in terminals of 0 to 20 columns, and every neighbourhood of three segments (`Rows`).
`MinShardWeight` and `MaxLine` are made small so that shards and overlong lines occur. In `wizard` only the
digits are thinned out, where several answers edit the same field.

`ScanIsExact` assumes `SameOrder`, and `scan_order` shows what happens without. `IsReadable` leaves out
`truncate_absolute`, which repeats a level (finding). It promises that no level is folded once enough is
saved, not that no more are folded than the line needs: with a delimiter, which is taken off what a fold
saves and not shown, more may be (finding). `IsAtItsEdge` is exact for a row that shows its right side; one
without may be wider than the terminal, when its left side at its narrowest and its frame are.

Deadlock is not checked: with its bounds used up the user stops, and the loop then rightly stands
in `poll`; commands, the wizard and a called function end.

Fairness. `WF(Loop)`: the loop's thread runs whenever it is not blocked in `poll`; `Poll` is enabled only
when something is readable. `WF(Hooks)`: the shell runs its hooks and reads its keys; nothing obliges a
command to end (`Output` and `Done` are not fair). `WF(Wake)`: a handler or thread that has begun `wake()`
finishes it. `WF(Clock)`: time passes. Worker threads that have work run. `WF(Loop)` of `Daemon`: its one
thread runs, and `poll` times out after a second; nothing obliges a request to panic, the user to do
anything, or the probe to end. `WF(Eof)` and `WF(Write \/ WriteFails)` of `Wizard`: a read at the end of
file returns, and so does a write. The user, the window and other terminals are not fair.

## 4. Proofs

Every theorem holds for any values of the constants that the named assumptions of the modules allow:
any number of directories, prompts, keys, reloads, pids, files, requests. What else it assumes stands
in its ASSUME and is told here. In each module one lemma per action, or per group of actions that
touch the same state, shows that a step keeps a part of the invariant; the theorem puts them together.

### Git worker (`GitWorkerProofs`, from `GitAssumption`)

* `GitInvariant`: `GitInv` is inductive. `VcsOfItsDirectory` alone is not, since a result names no
  directory. What is needed is `Current` (every message of the newest generation is of the
  current directory, its answer is no older than the question, and a queue has it last, so that
  `Take` keeps it), `Numbered` (no message has a number not given out, so the next one is fresh),
  and, for the refinement, `Single` (there is one such message at most).
* `VcsIsOfItsDirectory` and `AcceptsNothingOld` follow from it.
* `ImplementsStatusQuery`: with `pending` read as "a message of the newest generation exists",
  `SendRequest` is `Ask`, receiving the newest result is `Answer`, a change of a repository is
  `Change`, and everything else leaves the abstract state alone.
* `NoQuestionIsLost`: `AnswerIsInUse`. It is proved through the abstract specification: only `Answer`
  ends a question, and it files the answer.

### Event loop (`EngineProofs`, from `EngineAssumption`)

* `EngineContainsGitWorker`: every step of the engine is a step of `GitWorker` or changes nothing
  of it, so `GitInv`, `VcsOfItsDirectory` and `AnswerIsInUse` hold there too. The theorems of
  `GitWorkerProofs` are taken over as `GP`, a second instance of the same module over the same
  variables (`SameInv`, `SameNext`).
* `EngineTypes`: the type invariant. It needs `GitInv`, because a status is filed under a directory
  only if one was announced, and `GitInv` needs it, because what is sent to a worker comes from the
  FIFO.
* `EngineInvariant`: the handshake. `OneAckPerPrompt` is not inductive: the loop would be free to
  answer an announcement that is old, or to answer one twice. `OneAnnounced` excludes that: an
  announced prompt, in the FIFO or already read, is the newest, is there once, its shell waits, and
  no ack exists. This is false of a shell that is interrupted, hence the assumption
  `"interrupt" \notin Keys`.
* `AckIsAnswer`: under the same assumption the ack that a hook reads is the answer to its own
  prompt. The run `engine_interrupt` is the counterexample without it.
* `EngineImplementsStatusQuery`: the steps of the whole engine are steps of `StatusQuery` or leave it
  alone. The refinement of `GitWorkerProofs` is carried through the composition.

### What is painted (`PaintingProofs`)

* `PaintsStayOnTheirRows`: `Painting`, for a user who is `Calm`. `PaintsOnItsRows` says nothing of what
  is still in the pty, and the next read may bring anything; so the invariant says what is in it. The
  rows a prompt leaves travel from the ack to the shell, to the pty, to the terminal, and must be those of
  the theme all the way (`RowsAreLeft`; themes of one height, because a reload does not wait for a
  prompt on its way). A read of the pty is cut anywhere and folded over its pieces, so the signal must have
  its rows right before it, whether they are in this read or came with one before
  (`RowsPrecedeSignals`). Git results, reloads and keymaps paint while the loop is on an input line; that
  line is gone as soon as a command prints, and the loop knows of it only by the Enter it has passed on
  (`OutputIsBehindEnter`). That Enter comes last and when the prompt is painted is `EnterIsAwaited`, an
  induction over `stdin` and `ptyin`, and `WindowIsKept` rules out a repaint between the two.
  No part of `Calm` can go: with an interrupt, a long line (run `engine_long_line`), themes of different
  heights, or Enter together with keys typed ahead, a redraw or a resize, TLC finds a paint that misses
  (`MCEngineCalm.cfg` with `PaintsOnItsRows` and the constant changed).
* `CalmInvariant`: `CalmInv`. `PromptGetsItsHeader` (`HeaderIsPainted`) and `HeaderStaysCurrent`
  (`HeaderIsCurrent`) follow, for the same user: any number of Enters, each at a painted prompt, or any
  number of resizes and redraws, and in both reloads and git results at any moment. The argument: between
  the prompt of the shell and its next Enter the loop is at the prompt or a signal is on its way
  (`LoopIsAtPrompt`); every repaint compares with a cache that is what stands there (`HeaderIsKept`), made
  with what the loop knows; and when all is quiet what the loop knows is what is so: the keymap (the newest
  report in FIFO or batch has it), the directory, the status (`AnswerIsInUse`), and the width. The width
  travels three ways: to the loop by its own flag (`ResizeIsSeen`), to the header by the report of the shell
  in the FIFO, or by the prompt that the shell prints again; `WidthIsKept` says that a header of an old
  width stands only while one of these is under way, or after the trap has missed a change there and back
  (finding). That a prompt has a header at all is promised where prompts are printed once: two signals in
  one read cost the second its header (finding). In `Engine` repositories do not change (`ReposAreStill`): a
  status that ages is the subject of `GitWorker`.

### Run directories (`SessionProofs`, from `SessionAssumption`)

`SessionInvariant`: `SessionInv`, by nine lemmas, one for each part.

* `OwnDirectory` needs `DoomedAreDead`, for a sweep removes what it looked at earlier: what it has found without
  a process is still so, or belongs to an engine that is `hunted`, the one exception (finding); and
  `TokensAreGiven`, so that nothing is left of an engine when its pid is given again.
* `PlainReloadIsOfTheThemeInUse` (`CurrentIsInUse`) is `RecordedIsInUse` where a plain reload may read;
  that part speaks of every stage of the engine instead.
* `NoRequestIsLeftBehind` (`RequestsAreConsumed`) follows from `RequestsAreAnnounced`: behind a request
  stands the command that will signal, the flag, or the engine that is taking it. `CommandsAreBound` keeps
  a command's open file in the directory it believes.
* `LogStaysBounded`: `LogHasRoom` counts with the log the writers that have looked at its length and not
  written. It needs finitely many pids, nothing else.
* `SignalReachesItsEngine` assumes `~Strangers` and rests on `CommandsKnowTheirEngine`; with
  `Strangers = TRUE` TLC finds the counterexample (finding).

### Cached repositories and the daemon (`RepoCacheProofs`, `DaemonProofs`)

* `CacheStaysTrue` and `QuietAnswersAreTrue` assume `~RacyIndex` and `~Errors`, the two places where the
  code is wrong (findings), and `RepoAssumption` (finitely many files). `CacheIsTrue` between requests is
  not inductive: a request stores in parts and may panic between them. `CacheKnows` says it of any moment,
  `RequestKnows` of what the request is about to store, and `StampsAreOld` that the next change gets a stamp
  nothing is cached under. All of it is said of staged counts that are not `torn` (a panic in
  `compute_staged`, finding). For the answer, `QuietRequestKnows` says at each step of a request what it has
  read as long as nothing changed since it began.
* `DaemonContainsRepoCache`: reads, panics and evictions are steps of `RepoCache` or leave it alone, so
  both theorems hold in the daemon.
* `AnswersAreInOrder`: `AnsweredInOrder`. `StreamIsWhole` says that buffer and FIFO together are the rest
  of the stream, from the first message not taken; this is what a read cut anywhere keeps.
  `TakenAreSettled` says that what was taken is answered or lost, but the one being worked on.

### Wizard (`WizardProofs`)

* `WizardInvariant`: `WizardInv`. `DraftIsShown` (nothing edits the draft behind the last look) holds
  because the questions have an order and none that edits stands behind `confirm`; `LastAreAnswered` that
  the walk over skipped questions cannot jump over the last two; `FileIsOfTheDraft` that the write comes
  behind both.
* `WrittenIsShown` and `ReplacesOnAYes` (`Overwrites`) follow; `ArrowsAnswerNothing`
  (`ArrowsAreNoAnswers`) assumes `~SlowTerminal` and rests on `ArrowIsRead`.

### Algorithms (`AlgorithmsProofs`)

The theorems are of `AlgSpec`, which calls each function with one of its inputs; `CallInv` says that the
answer is what the function returns. The assumptions say what an input is: rows are `IsRow`
(`RowsAssumption`), reads are sequences of tokens (`ReadsAssumption`), a line may have at least one
token (`StreamsAssumption`), arguments are of the forms in `Arguments` (`CommandLinesAssumption`), what is
read as a number is an integer (`OptionsAssumption`; which texts are numbers, log levels or matching
versions is open), patterns and texts are over the characters (`PatternsAssumption`), which have an
order (`GlobAssumption`), and paths are lists of names that are not empty (`Levelled`), shortened with a
length of one at least, a delimiter of a character that no name holds (`DirShortenAssumption`) and, beside
each level, finitely many names with its own among them (`IsOpts`, `PathsAssumption`).

* `RowsReachTheirEdge` (`RowsEndAtTheEdge`): the fill of a row, computed before the right column may lose
  its segments, ends it where it should. `NoSeamShows` (`ArrowsAreSeamless`): the renderer carries the
  background of the block before from segment to segment; the invariant of that walk is that it is the
  colour of the last column.
* `LinesAreReadWhole` (`AnnouncementsAreOfTheStream`), `OutputIsReadWhole` (`OutputIsForwarded`): what is
  kept between two reads is a function of the stream up to there and not of the cuts: the last line, or the
  longest end of it that may be the start of a signal. For the scanner this says that a signal
  cannot begin inside of what was given up as the start of another.
* `CommandLineIsExact` (`OptionsAreAsSet`): behind each prefix of the arguments, as long as no error was met,
  an option waits for its value exactly when the last argument begins a setting of two, and each field holds
  the value of its last setting so far, or its default (`Holds`). Conversely, the places where nothing waits
  are the only way to group the arguments into settings, so the parser refuses only what is no list of good
  settings.
* `PathsStayReadable` (`PathIsReadable`): each strategy maps the parts it shows to the levels they stand for,
  in order (`IsAt`); a part that is added at the end stands for a level behind those before. For
  `truncate_to_unique` the walk also counts: what it has saved so far is by how much the path, with
  the levels folded so far and the others whole, has become narrower (`SavedIs`), the delimiter counted with
  each folded level (`CountedIs`), so a level is folded only while that is not enough.
* `FnMatchIsExact`, `GlobIsExact` (`FnMatchMatches`, `GlobMatches`): a pattern is its first element and the
  rest, for the matcher (`Taken`: what one element takes from the front of a text) as for its meaning
  (`DenotedMore`: a cut of the text is a cut behind the first piece and one of the rest). The two
  read a class differently, one until the bracket that closes, the other by finding that bracket
  first; `ClassIsSeen` says that they agree, which fails for `]-` (finding) and is why
  `Unmarred` leaves it out.

These are inductions over sequences. The library's induction theorems take an operator, which no prover here
can instantiate; the module has its own, stated with a set in its place: `Induct` for naturals, `ByLength` for
sequences by their length, `Recursion` and `RecursionByLength` for the functions that recur. Each is used with
the set of those values for which the claim holds.

### Only model-checked

Liveness is out of the prover's reach: that answers come (`AnswersTheQuestion` and `AsGitWorker` as a
whole), `ShellIsReleased`, `ReloadIsSeen`, `SizeIsPassedOn`, `RequestsAreAnswered`, `EndsWithShell`,
`EndsAtEof`. Of the algorithms: `ScanCountsAreTrue`, which goes through sorting, a tree and merges of
sorted lists; `GroupsAreAlternatives`, whose trees are written with a `RECURSIVE`
operator; and `ThemeRoundTrips`, an account of every field of a theme. On the last rest the
second half of `WrittenIsConfirmed` (the document parses back) and `AnswersAreKept` (what the edits of a
draft do to its rows).

## 5. What disagrees with the documentation

Each is listed under `findings` in `PROJECT.json` with the line it contradicts. Three have a run that
prints the steps. The others end with the property and the configuration to add it to, or the
constant to change, or are differences between a comment and the code next to it:

* `VcsOfItsHeader`, `GlyphFollowsKeymap` (add to `MCEngineCalm.cfg`), `DeferredIsDone`,
  `PromptHasHeader` (`MCEngineWindow.cfg`): status of the old directory under the new one, the glyph of the
  keymap before, a repaint that waits for the next event, two prompts in one read.
* `LastRequestWins` (`MCSession.cfg`), `SignalsItsEngine` with `Strangers = TRUE`: a lost reload, a signal
  to whoever has the pid now.
* Exceptions the properties make, each for one behaviour, and which TLC runs into when they are taken out:
  `trap.missed` in `HeaderIsCurrent` (a window that goes there and back unseen), `hunted` in `OwnDirectory`
  and `CurrentIsInUse` (a sweep removes the directory of the engine that got the pid meanwhile), `torn` in
  `CacheIsTrue` and `QuietAnswerIsTrue` (old staged counts under new keys after a panic).
* `QuietAnswerIsTrue` with `RacyIndex = TRUE` or `Errors = TRUE` (`MCRepoCache.cfg`): a stale or zero count that
  stays.
* `ArrowsAreNoAnswers` with `SlowTerminal = TRUE` (`MCWizard.cfg`): an arrow that ends the wizard.
* `RepliesAreNotTyping` in `Streams`: two replies of the terminal in one read.
* eviction, exit codes, classes of fnmatch, repeated segments of a theme, the level `truncate_absolute`
  repeats, the delimiter that `truncate_to_unique` counts and does not show, the width of hyperlinks and of
  a gap of two characters.

## 6. What is not modelled

In `Engine`: the instant header (the first prompt prints its rows like any other), rows added by
a reflow (`resize_extra_rows`), the blank lines between prompts, the transient fold, the pwsh
nudge and its prefix rewriting, the end of the session, keys of a line continued on a second
prompt (PS2), output of background jobs. The hooks of fish and pwsh.

In the git library: the fields that are read and passed on (branch, remote, tag, stash, action), submodules,
sparse checkouts, file modes, `core.ignorecase`, and ignore rules, which are libgit2's; threads of one scan,
which write disjoint parts of the tree.

In `Glob`: the escapes of fnmatch.

In the rest: the text of the single segments (clocks, versions of tools, battery and so on: some 2000
lines of `render.rs` that read files and environment and format what they find), previews of the
wizard, KDL syntax, messages, dispatch of subcommands. None has a state to be wrong about; a
segment enters `Rows` by its width and background.
