------------------------------ MODULE Presets ------------------------------
(***************************************************************************)
(* The built-in themes (presets.rs), each from the shade or palette chosen *)
(* for it.  Palettes that only differ in numbers are one name here.        *)
(***************************************************************************)
EXTENDS Config

Kinds == <<"lean", "classic", "rainbow", "pure">>

BgColors    == <<240, 238, 236, 234>>
SepShades   == <<248, 246, 244, 242>>
FrameColors == <<244, 242, 240, 238>>

\* A background, or none of its own.
Bare == <<>>
Bg(bg) == IF bg = Bare THEN Default ELSE Xterm(bg[1])

State(style) == [style |-> style, char |-> Empty]

\* Segments of a foreground and a background.
Colored(fg, bg) == [NoSegment EXCEPT !.style = Style(fg, Bg(bg), FALSE)]

DirSeg(fg, short, anchor, bold, bg) ==
    [Colored(fg, bg) EXCEPT
        !.props = "shorten-strategy" :> Str("truncate_to_unique") @@ "shorten-dir-length" :> IntV(1),
        !.states = "SHORTENED" :> State(Fg(short)) @@ "ANCHOR" :> State(Style(anchor, Default, bold))]

\* The five colors of vcs are those of a palette.
VcsSeg(palette, bg) ==
    [Colored(Default, bg) EXCEPT
        !.props = "foregrounds" :> palette @@ "shorten-length" :> IntV(12)
                  @@ "shorten-min-length" :> IntV(32) @@ "shorten-strategy" :> Str("truncate_middle")]

StatusSeg(ok, err, bg) ==
    [Colored(Default, bg) EXCEPT
        !.props = "ok-foreground" :> IntV(ok) @@ "error-foreground" :> IntV(err) @@ "verbose" :> Bool(TRUE)]

ExecSeg(fg, bg) ==
    [Colored(fg, bg) EXCEPT !.props = "threshold-seconds" :> IntV(3) @@ "precision" :> IntV(0)]

JobsSeg(fg, bg) == [Colored(fg, bg) EXCEPT !.props = "verbose" :> Bool(FALSE)]

PromptCharSeg(ok, err) == [Colored(ok, Bare) EXCEPT !.states = "ERROR" :> State(Fg(err))]

Segs(names) == [i \in DOMAIN names |-> <<"seg", names[i]>>]
RightRow == Segs(<<"status", "command_execution_time", "background_jobs">>)

PowerlineFrame(color) ==
    [NoFrame EXCEPT !.style = Fg(Xterm(color)),
        !.pieces = [p \in Pieces |-> [@[p] EXCEPT !.text = IF p = "last-suffix" THEN @ ELSE p]]]

PowerlineSeparators(sub) ==
    [NoSeparators EXCEPT
        !.text = [t \in {"segment", "right-start", "right-segment"} |-> "arrow"]
                 @@ [t \in {"sub", "right-sub"} |-> "thin"] @@ "gap" :> " " @@ @,
        !.color = [t \in {"sub-foreground", "right-sub-foreground"} |-> sub] @@ @]

\* lean; the 8 colors or 256 of them.
Lean(eight) ==
    LET c(many, few) == IF eight THEN few ELSE many IN
    [NoConfig EXCEPT
        !.layout.left = <<Segs(<<"dir", "vcs">>)>>, !.layout.right = <<RightRow>>,
        !.segments =
            "dir" :> DirSeg(Xterm(c(31, 4)), Xterm(c(103, 4)), Xterm(c(39, 4)), ~eight, Bare)
            @@ "vcs" :> VcsSeg(Str(c("lean", "lean8")), Bare)
            @@ "status" :> StatusSeg(c(70, 2), c(160, 1), Bare)
            @@ "command_execution_time" :> ExecSeg(Xterm(c(101, 3)), Bare)
            @@ "background_jobs" :> JobsSeg(Xterm(c(70, 1)), Bare)
            @@ "prompt_char" :> PromptCharSeg(Xterm(c(76, 2)), Xterm(c(196, 1)))]

\* What classic and rainbow share.
Powerline(shade, sub) ==
    [NoConfig EXCEPT
        !.layout.left = <<Segs(<<"os_icon", "dir", "vcs">>)>>, !.layout.right = <<RightRow>>,
        !.separators = PowerlineSeparators(sub), !.frame = PowerlineFrame(FrameColors[shade])]

\* classic: the one background is written in every segment.
Classic(shade) ==
    LET bg == <<BgColors[shade]>> IN
    [Powerline(shade, <<Xterm(SepShades[shade])>>) EXCEPT !.segments =
        "os_icon" :> Colored(Xterm(255), bg)
        @@ "dir" :> DirSeg(Xterm(31), Xterm(103), Xterm(39), TRUE, bg)
        @@ "vcs" :> VcsSeg(Str("lean"), bg) @@ "status" :> StatusSeg(70, 160, bg)
        @@ "command_execution_time" :> ExecSeg(Xterm(248), bg)
        @@ "background_jobs" :> JobsSeg(Xterm(37), bg)
        @@ "prompt_char" :> PromptCharSeg(Xterm(76), Xterm(196))]

\* rainbow: a background for each segment.
Rainbow(shade) ==
    [Powerline(shade, Empty) EXCEPT !.segments =
        "os_icon" :> Colored(Xterm(232), <<7>>)
        @@ "dir" :> DirSeg(Xterm(254), Xterm(250), Xterm(255), TRUE, <<4>>)
        @@ "vcs" :> VcsSeg(Str("rainbow"), <<2>>) @@ "status" :> StatusSeg(2, 3, <<0>>)
        @@ "command_execution_time" :> ExecSeg(Xterm(0), <<3>>)
        @@ "background_jobs" :> JobsSeg(Xterm(6), <<0>>)
        @@ "prompt_char" :> PromptCharSeg(Xterm(76), Xterm(196))]

\* pure, in one of its palettes; no right column.
Pure(snazzy) ==
    LET grey == Xterm(242)
        c(name, n) == IF snazzy THEN Rgb(name) ELSE Xterm(n)
    IN  [NoConfig EXCEPT
            !.layout.left = <<Segs(<<"context", "dir", "vcs", "command_execution_time">>)>>,
            !.segments =
                "context" :> Colored(grey, Bare)
                @@ "dir" :> DirSeg(c("blue", 4), grey, c("blue", 4), FALSE, Bare)
                @@ "vcs" :> Colored(grey, Bare)
                @@ "command_execution_time" :> ExecSeg(c("yellow", 3), Bare)
                @@ "prompt_char" :> PromptCharSeg(c("magenta", 5), c("red", 1))]

\* build
Build(kind) ==
    CASE kind = "lean"    -> Lean(FALSE)
      [] kind = "classic" -> Classic(2)
      [] kind = "rainbow" -> Rainbow(2)
      [] OTHER            -> Pure(TRUE)
=============================================================================
