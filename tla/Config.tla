------------------------------- MODULE Config -------------------------------
(***************************************************************************)
(* The theme file (config.rs): a configuration written as a KDL document   *)
(* and a document read as a configuration.  What equals the default of the *)
(* reader is left out by the writer, so the two have to agree on every     *)
(* default.  Text is opaque; of KDL itself only nodes, values and          *)
(* properties are here, a property at most once in a node.                 *)
(***************************************************************************)
EXTENDS Integers, Sequences, FiniteSets, SequencesExt, TLC

CONSTANTS Hex           \* the texts that are #rrggbb

\* Values of KDL.
Str(s)  == <<"str", s>>
IntV(n) == <<"int", n>>
Bool(b) == <<"bool", b>>
Null    == <<"null">>

Empty == <<>>           \* the function of no names, and no optional value

\* Colors.
Default  == <<"default">>
Xterm(n) == <<"xterm", n>>
Rgb(hex) == <<"rgb", hex>>
NamedColor(s) == <<"named", s>>

Style(fg, bg, bold) == [fg |-> fg, bg |-> bg, bold |-> bold]
NoStyle == Style(Default, Default, FALSE)
Fg(color) == Style(color, Default, FALSE)

AttachSlots == {"text-left", "text-middle", "text-right"}
SepNames == {"segment", "sub", "end", "right-start", "right-segment", "right-sub", "left-tail",
             "right-tail", "gap"}
SepColors == {"gap-foreground", "sub-foreground", "right-sub-foreground"}
Pieces == {"first-prefix", "first-suffix", "newline-prefix", "newline-suffix", "last-prefix",
           "last-suffix"}
IconTables == {"all", "nf", "compat", "ascii"}

\* Segment::default
NoSegment == [style |-> NoStyle, states |-> Empty, content |-> Empty, prefix |-> Empty,
              suffix |-> Empty, attach |-> [s \in AttachSlots |-> Empty], shown |-> TRUE,
              props |-> Empty]

NoLayout == [left |-> <<>>, right |-> <<>>, newline |-> 0, transient |-> "off", ruler |-> FALSE,
             indent |-> 1]
NoSeparators == [text |-> [n \in SepNames |-> ""], color |-> [n \in SepColors |-> Empty]]
NoPiece == [text |-> "", style |-> Empty]
NoFrame == [style |-> NoStyle, pieces |-> [n \in Pieces |-> NoPiece]]
DefaultIcons == <<<<"github", "octocat">>, <<"gitlab", "fox">>>>

\* Config::default
NoConfig == [mode |-> "nerdfont-complete", layout |-> NoLayout, segments |-> Empty,
             defaults |-> NoStyle, separators |-> NoSeparators, frame |-> NoFrame,
             vcs_remote_icons |-> DefaultIcons, icon |-> Empty, dir_classes |-> <<>>,
             shell |-> Empty, padding |-> "none"]

-----------------------------------------------------------------------------
(* Writing *)

Node(name, args, props, children) ==
    [name |-> name, args |-> args, props |-> props, children |-> children]
Leaf(name, value) == Node(name, <<value>>, Empty, <<>>)
Block(name, children) == Node(name, <<>>, Empty, children)
When(condition, node) == IF condition THEN <<node>> ELSE <<>>

\* One node for each of the names, in some order.
Each(names, node(_)) == FoldSet(LAMBDA n, nodes : Append(nodes, node(n)), <<>>, names)

ColorValue(c) ==
    CASE c = Default -> Null
      [] c[1] = "xterm" -> IntV(c[2])
      [] OTHER -> Str(c[2])

\* style_entries
StyleProps(s) ==
    [k \in {f \in {"fg", "bg"} : s[f] # Default} |-> ColorValue(s[k])]
    @@ (IF s.bold THEN "bold" :> Bool(TRUE) ELSE Empty)

\* The optional texts of a record among its fields.
TextProps(r, fields) == [k \in {f \in fields : r[f] # Empty} |-> Str(r[k][1])]

\* line_node; an element is <<"seg" or "joined" or "text", name>>, the name of its node
\* has its suffix apart.
LineNode(row) ==
    Block("line", [i \in DOMAIN row |->
        CASE row[i][1] = "seg"    -> Block(<<row[i][2], "">>, <<>>)
          [] row[i][1] = "joined" -> Block(<<row[i][2], "_joined">>, <<>>)
          [] OTHER                -> Leaf(<<"text", "">>, Str(row[i][2]))])

LayoutNode(l) ==
    Block("layout",
        <<Block("left", [i \in DOMAIN l.left |-> LineNode(l.left[i])]),
          Block("right", [i \in DOMAIN l.right |-> LineNode(l.right[i])])>>
        \o When(l.newline = 1, Leaf("prompt-add-newline", Bool(TRUE)))
        \o When(l.newline > 1, Leaf("prompt-add-newline", IntV(l.newline)))
        \o When(l.transient = "always", Leaf("transient-prompt", Bool(TRUE)))
        \o When(l.transient = "same-dir", Leaf("transient-prompt", Str("same-dir")))
        \o When(l.ruler, Leaf("show-ruler", Bool(TRUE)))
        \o When(l.indent # 1, Leaf("right-indent", IntV(l.indent))))

SeparatorsNode(s) ==
    Node("separators", <<>>,
         [c \in {n \in SepColors : s.color[n] # Empty} |-> ColorValue(s.color[c][1])],
         Each({n \in SepNames : s.text[n] # ""}, LAMBDA n : Leaf(n, Str(s.text[n]))))

FrameNode(f) ==
    Node("frame", <<>>, StyleProps(f.style),
         Each({n \in Pieces : f.pieces[n] # NoPiece},
              LAMBDA n : LET p == f.pieces[n] IN
                 Node(n, <<Str(p.text)>>,
                      IF p.style = Empty THEN Empty ELSE StyleProps(p.style[1]), <<>>)))

SegmentNode(name, s) ==
    Node(name, <<>>,
         StyleProps(s.style) @@ TextProps(s, {"content", "prefix", "suffix"})
            @@ (IF s.shown THEN Empty ELSE "disabled" :> Bool(TRUE)) @@ s.props,
         Each(DOMAIN s.states, LAMBDA n :
                 Node("state", <<Str(n)>>,
                      StyleProps(s.states[n].style) @@ TextProps(s.states[n], {"char"}), <<>>))
         \o Each({a \in AttachSlots : s.attach[a] # Empty}, LAMBDA a :
                 LET t == s.attach[a][1] IN
                 Node(a, <<Str(t.text)>>,
                      IF t.fg = Empty THEN Empty ELSE "fg" :> ColorValue(t.fg[1]), <<>>)))

IconNode(icon) ==
    Block("icon", Each(DOMAIN icon, LAMBDA name :
        Block(name, Each({t \in IconTables : icon[name][t] # Empty},
                         LAMBDA t : Leaf(t, Str(icon[name][t][1]))))))

ClassNode(c) ==
    Node("class", <<Str(c.pattern)>>,
         [k \in {f \in {"state", "icon"} : c[f] # ""} |-> Str(c[k])], <<>>)

\* A mutant of ModeNode: the mode is left out where it is the default.
ModeNodeOmitted(mode) == When(mode # NoConfig.mode, Leaf("mode", Str(mode)))

\* The mode is always written: what a reader takes for it depends on the locale.
ModeNode(mode) == <<Leaf("mode", Str(mode))>>

\* to_document
ToDocument(c) ==
    ModeNode(c.mode) \o <<LayoutNode(c.layout)>>
    \o When(c.defaults # NoStyle, Node("defaults", <<>>, StyleProps(c.defaults), <<>>))
    \o When(c.separators # NoSeparators, SeparatorsNode(c.separators))
    \o When(c.frame # NoFrame, FrameNode(c.frame))
    \o When(c.segments # Empty,
            Block("segments", Each(DOMAIN c.segments, LAMBDA n : SegmentNode(n, c.segments[n]))))
    \o When(c.vcs_remote_icons # DefaultIcons,
            Block("vcs-remote-icons", [i \in DOMAIN c.vcs_remote_icons |->
                Leaf(c.vcs_remote_icons[i][1], Str(c.vcs_remote_icons[i][2]))]))
    \o When(c.icon # Empty, IconNode(c.icon))
    \o When(c.dir_classes # <<>>,
            Block("dir-classes", [i \in DOMAIN c.dir_classes |-> ClassNode(c.dir_classes[i])]))
    \o When(c.shell # Empty, Leaf("shell", Str(c.shell[1])))
    \o When(c.padding = "moderate", Leaf("icon-padding", Str("moderate")))

-----------------------------------------------------------------------------
(* Reading *)

\* Color::from_value
ToColor(v) ==
    CASE v[1] = "int" -> Xterm(v[2])
      [] v[1] = "str" -> IF v[2] \in Hex THEN Rgb(v[2]) ELSE IF v[2] = "default" THEN Default ELSE NamedColor(v[2])
      [] OTHER -> Default

Prop(node, name, default) == IF name \in DOMAIN node.props THEN node.props[name] ELSE default
IsYes(v) == v = Bool(TRUE)

\* Style::parse
ToStyle(node) ==
    Style(ToColor(Prop(node, "fg", Null)), ToColor(Prop(node, "bg", Null)),
          IsYes(Prop(node, "bold", Null)))

\* The value without a name, and it as a text if it is one (str_val).
FirstValue(node) == IF node.args = <<>> THEN Null ELSE node.args[1]
Text(v) == CASE v[1] = "str" -> <<v[2]>> [] v[1] = "null" -> Empty [] OTHER -> <<ToString(v[2])>>
FirstText(node) == Text(FirstValue(node))
\* first_state_name: a string, or none.
FirstStateName(node) == IF FirstValue(node)[1] = "str" THEN FirstText(node) ELSE Empty
PropText(node, name) == Text(Prop(node, name, Null))
OrElse(opt, default) == IF opt = Empty THEN default ELSE opt[1]

\* The children of a name that have a text; the last one counts.
LastWith(node, name) == SelectSeq(node.children, LAMBDA c : c.name = name /\ FirstText(c) # Empty)

\* parse_line; `#false` behind a name takes it out.
ToElement(node) ==
    IF FirstValue(node)[1] = "str" THEN <<<<"text", FirstValue(node)[2]>>>>
    ELSE IF node.args # <<>> /\ node.args[1] # Bool(TRUE) THEN <<>>
    ELSE <<<<IF node.name[2] = "_joined" THEN "joined" ELSE "seg", node.name[1]>>>>
ToLine(node) == FoldLeft(LAMBDA row, c : row \o ToElement(c), <<>>, node.children)
ToLines(node) == [i \in DOMAIN node.children |-> ToLine(node.children[i])]

Clamp(n, lo, hi) == IF n < lo THEN lo ELSE IF n > hi THEN hi ELSE n

\* One child of parse_layout.
LayoutChild(l, node) ==
    LET v == FirstValue(node) IN
    CASE node.name = "left" -> [l EXCEPT !.left = ToLines(node)]
      [] node.name = "right" -> [l EXCEPT !.right = ToLines(node)]
      [] node.name = "prompt-add-newline" ->
            [l EXCEPT !.newline = IF v[1] = "int" THEN Clamp(v[2], 0, 9) ELSE IF IsYes(v) THEN 1 ELSE 0]
      [] node.name = "transient-prompt" ->
            [l EXCEPT !.transient = IF v \in {Str("always"), Bool(TRUE)} THEN "always"
                                    ELSE IF v = Str("same-dir") THEN "same-dir" ELSE "off"]
      [] node.name = "show-ruler" -> [l EXCEPT !.ruler = IsYes(v)]
      [] node.name = "right-indent" -> [l EXCEPT !.indent = IF v[1] = "int" THEN Clamp(v[2], 0, 9) ELSE @]
      [] OTHER -> l

ToSeparators(node) ==
    [text  |-> [n \in SepNames |-> LET s == LastWith(node, n) IN
                                   IF s = <<>> THEN "" ELSE FirstText(Last(s))[1]],
     color |-> [n \in SepColors |-> IF n \in DOMAIN node.props THEN <<ToColor(node.props[n])>> ELSE Empty]]

ToFrame(node) ==
    LET piece(c) == [text |-> FirstText(c)[1], style |-> IF ToStyle(c) = NoStyle THEN Empty ELSE <<ToStyle(c)>>]
    IN  [style |-> ToStyle(node),
         pieces |-> [n \in Pieces |-> LET s == LastWith(node, n) IN
                                      IF s = <<>> THEN NoPiece ELSE piece(Last(s))]]

\* The error of parse_segment: a state or an attached text without its string.
IsUnnamed(node) ==
    \E i \in DOMAIN node.children :
       LET c == node.children[i] IN c.name \in AttachSlots \cup {"state"} /\ FirstStateName(c) = Empty

\* parse_segment
ToSegment(node) ==
    LET named == {"fg", "bg", "bold", "content", "prefix", "suffix", "disabled"}
        child(s, c) ==
           IF c.name = "state"
              THEN [s EXCEPT !.states = FirstStateName(c)[1] :> [style |-> ToStyle(c), char |-> PropText(c, "char")] @@ @]
           ELSE IF c.name \in AttachSlots
              THEN [s EXCEPT !.attach[c.name] = <<[text |-> FirstStateName(c)[1],
                       fg |-> IF "fg" \in DOMAIN c.props THEN <<ToColor(c.props["fg"])>> ELSE Empty]>>]
           ELSE s
    IN  FoldLeft(child,
                 [NoSegment EXCEPT !.style = ToStyle(node), !.content = PropText(node, "content"),
                     !.prefix = PropText(node, "prefix"), !.suffix = PropText(node, "suffix"),
                     !.shown = ~IsYes(Prop(node, "disabled", Null)),
                     !.props = [p \in DOMAIN node.props \ named |-> node.props[p]]],
                 node.children)

\* merge_style, and the part of merge_segment that is like it.
MergeStyle(over, base) ==
    Style(IF over.fg = Default THEN base.fg ELSE over.fg,
          IF over.bg = Default THEN base.bg ELSE over.bg, over.bold \/ base.bold)
Later(b, a) == IF b # Empty THEN b ELSE a

\* merge_segment
MergeSegment(a, b) ==
    [style |-> MergeStyle(b.style, a.style), states |-> b.states @@ a.states,
     content |-> Later(b.content, a.content), prefix |-> Later(b.prefix, a.prefix),
     suffix |-> Later(b.suffix, a.suffix),
     attach |-> [s \in AttachSlots |-> Later(b.attach[s], a.attach[s])],
     shown |-> a.shown /\ b.shown, props |-> b.props @@ a.props]

WithSegment(segments, node) ==
    LET s == ToSegment(node) IN
    (node.name :> (IF node.name \in DOMAIN segments THEN MergeSegment(segments[node.name], s) ELSE s))
    @@ segments

\* parse_icon_table
ToIcons(node) ==
    FoldLeft(LAMBDA icons, c :
                (c.name :> [t \in IconTables |-> LET s == LastWith(c, t) IN
                                IF s = <<>> THEN Empty ELSE FirstText(Last(s))]) @@ icons,
             Empty, node.children)

\* parse_dir_classes, parse_remote_icons
ToClasses(node) ==
    LET good == SelectSeq(node.children, LAMBDA c : c.name = "class" /\ FirstValue(c)[1] = "str")
    IN  [i \in DOMAIN good |-> [pattern |-> FirstText(good[i])[1],
            state |-> OrElse(PropText(good[i], "state"), ""), icon |-> OrElse(PropText(good[i], "icon"), "")]]
ToRemoteIcons(node) ==
    LET good == SelectSeq(node.children, LAMBDA c : FirstValue(c)[1] = "str")
    IN  [i \in DOMAIN good |-> <<good[i].name, FirstText(good[i])[1]>>]

Modes == {"nerdfont-complete", "nerdfont-fontconfig", "compatible", "ascii"}

\* One node of parse_doc.
ReadNode(c, node) ==
    LET v == FirstText(node) IN
    CASE node.name = "layout" -> [c EXCEPT !.layout = FoldLeft(LayoutChild, NoLayout, node.children)]
      [] node.name = "segments" -> [c EXCEPT !.segments = FoldLeft(WithSegment, @, node.children)]
      [] node.name = "defaults" -> [c EXCEPT !.defaults = ToStyle(node)]
      [] node.name = "separators" -> [c EXCEPT !.separators = ToSeparators(node)]
      [] node.name = "frame" -> [c EXCEPT !.frame = ToFrame(node)]
      [] node.name = "vcs-remote-icons" -> [c EXCEPT !.vcs_remote_icons = ToRemoteIcons(node)]
      [] node.name = "mode" ->
            [c EXCEPT !.mode = IF v = Empty THEN @ ELSE IF v[1] \in Modes THEN v[1] ELSE NoConfig.mode]
      [] node.name = "icon" -> [c EXCEPT !.icon = ToIcons(node)]
      [] node.name = "dir-classes" -> [c EXCEPT !.dir_classes = ToClasses(node)]
      [] node.name = "shell" -> [c EXCEPT !.shell = v]
      [] node.name = "icon-padding" ->
            [c EXCEPT !.padding = IF v = Empty THEN @ ELSE IF v[1] = "moderate" THEN v[1] ELSE "none"]
      [] OTHER -> c

\* parse_doc, in a locale of UTF-8 or another one; an error gives up the file.
Refused == <<"error">>
ParseDoc(doc, utf8) ==
    IF \E i \in DOMAIN doc : /\ doc[i].name = "segments"
                             /\ \E j \in DOMAIN doc[i].children : IsUnnamed(doc[i].children[j])
       THEN Refused
       ELSE FoldLeft(ReadNode, [NoConfig EXCEPT !.mode = IF utf8 THEN @ ELSE "ascii"], doc)

-----------------------------------------------------------------------------
\* Under any locale the file says what was written ("`parse(to_kdl(cfg))` must yield an
\* equivalent config", config.rs), in whatever order its nodes stand.
IsSameTheme(c, read) == \A r \in read : r = c
=============================================================================
