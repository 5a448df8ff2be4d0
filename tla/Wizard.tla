------------------------------- MODULE Wizard -------------------------------
(***************************************************************************)
(* The setup wizard (wizard.rs): questions in an order that depends on the *)
(* answers, each of which edits the draft of a theme; restart and quit at  *)
(* every question; the last look, and the theme file.  Keys arrive byte by *)
(* byte, those that are escape sequences too.                              *)
(***************************************************************************)
EXTENDS Presets

CONSTANTS
    Digits,         \* the digits typed at each question
    SlowTerminal    \* more than 20 ms may pass inside an escape sequence

VARIABLES
    question,   \* the question on the screen, or how it ended
    draft,      \* cfg, and the kind of the style
    answers,    \* those given since the last start (history)
    shown,      \* the theme of the last look since then (history)
    file,       \* the theme file
    reader,     \* where key() stands: "key", "esc" behind an Esc, "sequence"
    typed,      \* the key pressed last, and its bytes that have not arrived
    eof         \* the terminal is gone

vars == <<question, draft, answers, shown, file, reader, typed, eof>>

Questions == <<"diamond", "lock", "fat", "style", "color", "charset", "rprompt", "time",
               "separators", "heads", "tails", "height", "gap", "frame", "spacing", "icons",
               "flow", "transient", "confirm", "overwrite">>

\* ask_yn, else ask_choice_preview.
YesNo == {"diamond", "lock", "fat", "transient", "confirm", "overwrite"}

Ends == {"written", "failed", "aborted"}

\* The bytes of an arrow behind its Esc.
Arrow == <<"[", "A">>

NoDraft == [kind |-> "lean", cfg |-> NoConfig]

WizardTypeOK ==
    /\ question \in ToSet(Questions) \cup {"write"} \cup Ends
    /\ DOMAIN draft = {"kind", "cfg"}
    /\ draft.kind \in ToSet(Kinds) /\ DOMAIN draft.cfg = DOMAIN NoConfig
    /\ DOMAIN answers \subseteq ToSet(Questions)
    /\ shown = <<>> \/ DOMAIN shown[1] = DOMAIN NoConfig
    /\ file[1] \in {"none", "old", "partial", "theme"}
    /\ reader \in {"key", "esc", "sequence"}
    /\ typed \in [key : {"plain", "escape", "arrow"}, rest : {<<>>, Arrow, Tail(Arrow)}]
    /\ eof \in BOOLEAN

Init ==
    /\ question = "diamond" /\ draft = NoDraft /\ answers = Empty /\ shown = <<>>
    /\ file \in {<<"none">>, <<"old">>}
    /\ reader = "key" /\ typed = [key |-> "plain", rest |-> <<>>] /\ eof = FALSE

-----------------------------------------------------------------------------
(* The questions *)

Answered(q, i) == q \in DOMAIN answers /\ answers[q] = i
IsPowerline(kind) == kind \in {"classic", "rainbow"}
HeaderOn(cfg) == cfg.layout.left # <<>> \/ cfg.layout.right # <<>>

\* Which questions flow() asks, from the draft and the answer just given.
Asked(q, d, given) ==
    CASE q = "lock" -> given["diamond"] = 1
      [] q = "fat" -> given["diamond"] = 2
      [] q = "charset" -> d.cfg.mode # "ascii"
      [] q = "rprompt" -> d.kind = "pure"
      [] q \in {"separators", "heads", "tails"} -> IsPowerline(d.kind)
      [] q \in {"gap", "frame"} -> HeaderOn(d.cfg) /\ IsPowerline(d.kind)
      [] q = "overwrite" -> file[1] # "none"
      [] OTHER -> TRUE

Place(q) == CHOOSE i \in DOMAIN Questions : Questions[i] = q

\* A mutant of NextQuestion: the last one is not looked at.
NextQuestionShort(q, d, given) ==
    LET later == {i \in Place(q) + 1..Len(Questions) - 1 : Asked(Questions[i], d, given)}
    IN  IF later = {} THEN "write" ELSE Questions[CHOOSE i \in later : \A j \in later : i <= j]

\* The question behind q, or "write".
NextQuestion(q, d, given) ==
    LET later == {i \in Place(q) + 1..Len(Questions) : Asked(Questions[i], d, given)}
    IN  IF later = {} THEN "write" ELSE Questions[CHOOSE i \in later : \A j \in later : i <= j]

\* How many answers a question has.
Count(q, kind) ==
    CASE q \in {"style", "separators", "frame"} -> 4
      [] q = "color" -> IF IsPowerline(kind) THEN 4 ELSE 2
      [] q \in {"heads", "tails"} -> 5
      [] q \in {"time", "gap"} -> 3
      [] OTHER -> 2

-----------------------------------------------------------------------------
(* What the answers edit *)

Without(rows, name) ==
    [i \in DOMAIN rows |-> SelectSeq(rows[i], LAMBDA e : e # <<"seg", name>>)]

RemoveSegment(cfg, name) ==
    [cfg EXCEPT !.layout.left = Without(@, name), !.layout.right = Without(@, name)]

Holds(rows, name) == \E i \in DOMAIN rows : <<"seg", name>> \in ToSet(rows[i])

\* The first row with the segment at its end.
PutLast(rows, name) ==
    IF rows = <<>> THEN <<<<<<"seg", name>>>>>> ELSE [rows EXCEPT ![1] = Append(@, <<"seg", name>>)]

AddToRight(cfg, name) ==
    IF Holds(cfg.layout.right, name) THEN cfg
    ELSE [cfg EXCEPT !.layout.right = PutLast(@, name)]

\* ask_use_rprompt
SetRprompt(cfg, i) ==
    LET c == RemoveSegment(cfg, "command_execution_time") IN
    IF i = 1 THEN [c EXCEPT !.layout.left = PutLast(@, "command_execution_time")]
    ELSE [c EXCEPT !.layout.right = PutLast(@, "command_execution_time")]

\* time_bg: the background of the style, for a segment added to it.
TimeBg(kind, cfg) ==
    CASE kind = "rainbow" -> Xterm(7)
      [] kind = "classic" -> cfg.segments["dir"].style.bg
      [] OTHER -> Default

\* ask_time
SetTime(kind, cfg, i) ==
    LET c   == AddToRight(cfg, "time")
        seg == IF "time" \in DOMAIN c.segments THEN c.segments["time"]
               ELSE [NoSegment EXCEPT !.style = Style(Xterm(66), TimeBg(kind, cfg), FALSE)]
    IN  IF i = 1 THEN RemoveSegment(cfg, "time")
        ELSE [c EXCEPT !.segments =
                 ("time" :> [seg EXCEPT !.props = ("time-format" :> Str(IF i = 2 THEN "12h" ELSE "24h")) @@ @])
                 @@ @]

\* ask_separators, ask_heads, ask_tails: the glyphs by the number of the answer, none
\* for vertical segments and flat ends.
Glyph(names, i) == [n \in names |-> IF i = 0 THEN "" ELSE ToString(i)]
SetGlyphs(cfg, names, i) == [cfg EXCEPT !.separators.text = Glyph(names, i) @@ @]
SetSeparators(cfg, i) ==
    LET c == SetGlyphs(cfg, {"sub", "right-sub"}, i) IN
    SetGlyphs(c, {"segment", "right-segment"}, IF i = 2 THEN 0 ELSE i)
SetHeads(cfg, i) == SetGlyphs(cfg, {"end", "right-start"}, i - 1)
SetTails(cfg, i) == SetGlyphs(cfg, {"left-tail", "right-tail"}, i - 1)

\* ask_num_lines: one line is no header at all.
SetHeight(cfg, i) ==
    IF i = 2 THEN cfg
    ELSE [cfg EXCEPT !.layout.left = <<>>, !.layout.right = <<>>, !.frame = NoFrame,
                     !.separators = NoSeparators]

\* ask_gap_char
SetGap(cfg, i) ==
    [cfg EXCEPT !.separators.text["gap"] = <<" ", ".", "-">>[i],
                !.separators.color["gap-foreground"] = IF i = 1 THEN Empty ELSE <<Xterm(240)>>]

\* ask_frame
SetFrame(cfg, i) ==
    LET cleared == (IF i \in {1, 3} THEN {"first-prefix", "newline-prefix", "last-prefix"} ELSE {})
                   \cup (IF i \in {1, 2} THEN {"first-suffix", "newline-suffix", "last-suffix"} ELSE {})
    IN  [cfg EXCEPT !.frame.pieces = [p \in Pieces |-> IF p \in cleared THEN NoPiece ELSE @[p]]]

\* ask_extra_icons
SetIcons(cfg, i) ==
    LET few == [n \in {"folder", "git", "branch", "time", "execution-time"} |->
                   [t \in IconTables |-> IF t = "all" THEN <<"">> ELSE Empty]]
    IN  IF i = 2 THEN cfg
        ELSE [RemoveSegment(cfg, "os_icon") EXCEPT !.vcs_remote_icons = <<>>, !.icon = few @@ @]

\* ask_prefixes: words for those segments there are.
SetFlow(cfg, i) ==
    LET words == "vcs" :> "on " @@ "command_execution_time" :> "took " @@ "time" :> "at "
        prefix(n) == IF i = 1 THEN Empty ELSE <<words[n]>>
    IN  [cfg EXCEPT !.segments = [n \in DOMAIN @ |->
            IF n \in DOMAIN words THEN [@[n] EXCEPT !.prefix = prefix(n)] ELSE @[n]]]

\* build_with_color: the kind of style with the color chosen.
WithColor(kind, i) ==
    CASE kind = "lean"    -> Lean(i = 2)
      [] kind = "classic" -> Classic(i)
      [] kind = "rainbow" -> Rainbow(i)
      [] OTHER            -> Pure(i = 2)

\* A mutant of SetColor: the theme is built anew, with the mode of its own.
SetColorFresh(d, i) == [d EXCEPT !.cfg = WithColor(d.kind, i)]

\* The mode was chosen before.
SetColor(d, i) == [d EXCEPT !.cfg = [WithColor(d.kind, i) EXCEPT !.mode = d.cfg.mode]]

\* ask_font: diamond, then lock or quotes.
SetMode(d, q, i) ==
    [d EXCEPT !.cfg.mode = CASE q = "lock" /\ i = 1 -> "nerdfont-complete"
                             [] q = "fat" /\ i = 2  -> "ascii"
                             [] OTHER               -> "compatible"]

\* The edit of the i-th answer; yes is 1, no is 2.
Edit(q, d, i) ==
    CASE q \in {"lock", "fat"} -> SetMode(d, q, i)
      [] q = "style" -> [d EXCEPT !.kind = Kinds[i]]
      [] q = "color" -> SetColor(d, i)
      [] q = "charset" -> [d EXCEPT !.cfg.mode = IF i = 2 THEN "ascii" ELSE @]
      [] q = "rprompt" -> [d EXCEPT !.cfg = SetRprompt(@, i)]
      [] q = "time" -> [d EXCEPT !.cfg = SetTime(d.kind, @, i)]
      [] q = "separators" -> [d EXCEPT !.cfg = SetSeparators(@, i)]
      [] q = "heads" -> [d EXCEPT !.cfg = SetHeads(@, i)]
      [] q = "tails" -> [d EXCEPT !.cfg = SetTails(@, i)]
      [] q = "height" -> [d EXCEPT !.cfg = SetHeight(@, i)]
      [] q = "gap" -> [d EXCEPT !.cfg = SetGap(@, i)]
      [] q = "frame" -> [d EXCEPT !.cfg = SetFrame(@, i)]
      [] q = "spacing" -> [d EXCEPT !.cfg.layout.newline = i - 1]
      [] q = "icons" -> [d EXCEPT !.cfg = SetIcons(@, i)]
      [] q = "flow" -> [d EXCEPT !.cfg = SetFlow(@, i)]
      [] q = "transient" -> [d EXCEPT !.cfg.layout.transient = IF i = 1 THEN "always" ELSE "off"]
      [] OTHER -> d

-----------------------------------------------------------------------------
(* A key that key() returns *)

Open == question \in ToSet(Questions)

Quit == question' = "aborted" /\ UNCHANGED <<draft, answers, shown>>

Restart == question' = "diamond" /\ draft' = NoDraft /\ answers' = Empty /\ shown' = <<>>

\* No to the last two is Quit.  The preview is shown before "confirm".
Answer(i) ==
    LET d     == Edit(question, draft, i)
        given == [q \in DOMAIN answers \cup {question} |-> IF q = question THEN i ELSE answers[q]]
        next  == NextQuestion(question, d, given)
    IN  IF question \in {"confirm", "overwrite"} /\ i = 2 THEN Quit
        ELSE /\ question' = next /\ draft' = d /\ answers' = given
             /\ shown' = IF next = "confirm" THEN <<d.cfg>> ELSE shown

\* The digit of an answer, 0 for a key that is none.
AnswerOf(key) ==
    IF question \in YesNo THEN (CASE key = "y" -> 1 [] key = "n" -> 2 [] OTHER -> 0)
    ELSE IF \E i \in 1..Count(question, draft.kind) : ToString(i) = key
         THEN CHOOSE i \in 1..Count(question, draft.kind) : ToString(i) = key ELSE 0

Handle(key) ==
    IF key = "q" THEN Quit
    ELSE IF key = "r" THEN Restart
    ELSE IF AnswerOf(key) > 0 THEN Answer(AnswerOf(key))
    ELSE UNCHANGED <<question, draft, answers, shown>>

-----------------------------------------------------------------------------
(* Reading a key *)

Keys == {"q", "r"} \cup (IF question \in YesNo THEN {"y", "n"} ELSE IF Open THEN {ToString(i) : i \in Digits[question]} ELSE {})

\* A key of one byte is read and handled.
Key(k) ==
    /\ Open /\ reader = "key" /\ typed.rest = <<>> /\ ~eof
    /\ typed' = [key |-> "plain", rest |-> <<>>]
    /\ Handle(k)
    /\ UNCHANGED <<file, reader, eof>>

\* Esc, alone or the first byte of an arrow.
Esc(k) ==
    /\ Open /\ reader = "key" /\ typed.rest = <<>> /\ ~eof
    /\ typed' = [key |-> k, rest |-> IF k = "arrow" THEN Arrow ELSE <<>>]
    /\ reader' = "esc"
    /\ UNCHANGED <<question, draft, answers, shown, file, eof>>

\* A byte more of the arrow.  Behind an Esc `[` starts a sequence that a letter ends;
\* behind a timeout both are keys.
NextByte ==
    LET byte == typed.rest[1] IN
    /\ Open /\ typed.rest # <<>> /\ ~eof
    /\ typed' = [typed EXCEPT !.rest = Tail(@)]
    /\ CASE reader = "esc" -> reader' = "sequence" /\ UNCHANGED <<question, draft, answers, shown>>
         [] reader = "sequence" ->
               reader' = (IF byte = "A" THEN "key" ELSE reader) /\ UNCHANGED <<question, draft, answers, shown>>
         [] OTHER -> UNCHANGED reader /\ Handle(byte)
    /\ UNCHANGED <<file, eof>>

\* A mutant of EscMayEnd: the 20 ms are not waited for.
EscMayEndAtOnce == TRUE

\* 20 ms pass behind an Esc without a byte.
EscMayEnd == typed.rest = <<>> \/ SlowTerminal

EscAlone ==
    /\ Open /\ reader = "esc" /\ ~eof /\ EscMayEnd
    /\ reader' = "key"
    /\ Quit
    /\ UNCHANGED <<file, typed, eof>>

\* The terminal goes: every read returns `q`, which also ends a sequence.
HangUp == Open /\ ~eof /\ eof' = TRUE /\ UNCHANGED <<question, draft, answers, shown, file, reader, typed>>

\* A mutant of ReadAtEof: no byte is no key.
ReadAtEofNothing == UNCHANGED <<question, draft, answers, shown, reader>>

ReadAtEof ==
    IF reader = "sequence" THEN reader' = "key" /\ UNCHANGED <<question, draft, answers, shown>>
    ELSE reader' = "key" /\ Quit

Eof == Open /\ eof /\ ReadAtEof /\ UNCHANGED <<file, typed, eof>>

-----------------------------------------------------------------------------
(* The file *)

\* A mutant of Theme: the style is built once more for the file.
ThemeRebuilt == ToDocument([Build(draft.kind) EXCEPT !.mode = draft.cfg.mode])

Theme == ToDocument(draft.cfg)

\* create_dir_all and fs::write; what of them fails is told, and nothing is undone.
Write ==
    /\ question = "write"
    /\ question' = "written" /\ file' = <<"theme", Theme>>
    /\ UNCHANGED <<draft, answers, shown, reader, typed, eof>>
WriteFails ==
    /\ question = "write"
    /\ question' = "failed" /\ file' \in {file, <<"partial">>}
    /\ UNCHANGED <<draft, answers, shown, reader, typed, eof>>

Next ==
    \/ \E k \in Keys : Key(k)
    \/ \E k \in {"escape", "arrow"} : Esc(k)
    \/ NextByte \/ EscAlone \/ HangUp \/ Eof
    \/ Write \/ WriteFails

\* The wizard goes on reading; a user who stays types what he likes, or nothing.
Spec == Init /\ [][Next]_vars /\ WF_vars(Eof) /\ WF_vars(Write \/ WriteFails)

-----------------------------------------------------------------------------
(* Properties *)

\* Behind the last look nothing edits the draft any more, and the theme is confirmed before
\* the question about another one, and that before the file is touched.
DraftIsShown == question \in {"confirm", "overwrite", "write"} => shown = <<draft.cfg>>
LastAreAnswered ==
    /\ question \in {"overwrite", "write"} => Answered("confirm", 1)
    /\ question = "write" /\ file[1] = "old" => Answered("overwrite", 1)

\* A wizard that says that nothing was written has written nothing (goodbye, write_config),
\* and what is written was confirmed and is what was shown.
FileIsOfTheDraft ==
    /\ question \notin {"written", "failed"} => file[1] \in {"none", "old"}
    /\ file[1] \in {"theme", "partial"} => Answered("confirm", 1)
    /\ file[1] = "theme" => shown = <<draft.cfg>> /\ file[2] = Theme

\* The bytes of an arrow that are still to come are those that key() waits for.
ArrowIsRead ==
    ~eof /\ ~SlowTerminal =>
    /\ reader = "key" => typed.rest = <<>>
    /\ reader = "esc" => typed.rest = IF typed.key = "arrow" THEN Arrow ELSE <<>>
    /\ reader = "sequence" => typed.key = "arrow" /\ typed.rest = Tail(Arrow)
    /\ typed.key = "arrow" => Open

WizardInv == WizardTypeOK /\ DraftIsShown /\ LastAreAnswered /\ FileIsOfTheDraft /\ ArrowIsRead

\* The file changes only for a theme that was looked at and confirmed, over another one
\* only if that was agreed to, and under any locale it reads as what was shown.
WrittenIsConfirmed ==
    /\ WizardInv
    /\ file[1] = "theme" => \A utf8 \in BOOLEAN : <<ParseDoc(file[2], utf8)>> = shown
Overwrites == [][file[1] = "old" /\ file' # file => Answered("overwrite", 1)]_vars

Laid(cfg) == UNION {ToSet(row) : row \in ToSet(cfg.layout.left \o cfg.layout.right)}
Times(cfg, name) ==
    FoldLeft(LAMBDA n, row : n + Len(SelectSeq(row, LAMBDA e : e = <<"seg", name>>)), 0,
             cfg.layout.left \o cfg.layout.right)
NamesIn(cfg) == {e[2] : e \in Laid(cfg)}

\* Whatever the order of the questions makes later edits undo, the theme looked at has what
\* was answered since the last start: every segment once and with a style of its own; clock,
\* spacing, badge, prefixes, separators, heads, tails, gap, frame, glyphs and the transient
\* prompt as chosen; backgrounds as the style has them.  Only one line instead of two drops
\* what is about the header (flow, "Answers edit `Config` fields directly").
AnswersAreKept ==
    question = "confirm" =>
    LET c == shown[1] IN
    /\ \A n \in NamesIn(c) : Times(c, n) = 1 /\ n \in DOMAIN c.segments
    /\ HeaderOn(c) <=> Answered("height", 2)
    /\ "time" \in NamesIn(c) <=> HeaderOn(c) /\ ~Answered("time", 1)
    /\ "time" \in NamesIn(c) =>
          c.segments["time"].props["time-format"] = Str(IF Answered("time", 2) THEN "12h" ELSE "24h")
    /\ c.layout.newline = answers["spacing"] - 1
    /\ "os_icon" \in NamesIn(c) <=> HeaderOn(c) /\ IsPowerline(draft.kind) /\ Answered("icons", 2)
    /\ \A n \in NamesIn(c) : LET bg == c.segments[n].style.bg IN
          CASE draft.kind = "classic" -> bg = Xterm(BgColors[answers["color"]])
            [] draft.kind = "rainbow" -> bg # Default
            [] OTHER -> bg = Default
    /\ \A n \in {"vcs", "command_execution_time", "time"} \cap DOMAIN c.segments :
          c.segments[n].prefix # Empty <=> Answered("flow", 2)
    /\ IsPowerline(draft.kind) /\ HeaderOn(c) =>
          /\ c.separators.text["end"] = "" <=> Answered("heads", 1)
          /\ c.separators.text["left-tail"] = "" <=> Answered("tails", 1)
          /\ c.separators.text["sub"] = ToString(answers["separators"])
          /\ c.separators.text["segment"] = "" <=> Answered("separators", 2)
          /\ c.separators.text["gap"] = <<" ", ".", "-">>[answers["gap"]]
          /\ c.frame.pieces["last-prefix"] = NoPiece <=> answers["frame"] \in {1, 3}
    /\ ~HeaderOn(c) => c.frame = NoFrame /\ c.separators = NoSeparators
    /\ c.mode = "ascii" <=> Answered("charset", 2) \/ Answered("fat", 2)
    /\ c.layout.transient = "always" <=> Answered("transient", 1)

\* An arrow or another escape sequence is no answer ("a direction key is not an answer and
\* must not quit the wizard", key()).
ArrowsAreNoAnswers ==
    [][typed.key = "arrow" /\ typed' = [typed EXCEPT !.rest = typed'.rest] /\ eof = FALSE =>
          UNCHANGED <<question, draft, answers>>]_vars

\* When the terminal is gone the wizard ends ("otherwise the caller would .. redraw
\* forever", key()).
EndsAtEof == eof ~> question \in Ends
=============================================================================
