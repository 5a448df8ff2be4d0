----------------------------- MODULE Algorithms -----------------------------
(***************************************************************************)
(* The pure algorithms, called once each with every input of some sets.    *)
(***************************************************************************)
EXTENDS Scan, Streams, DirShorten, Options, Glob, Config, Rows

CONSTANTS           \* The inputs of the calls:
    Worlds,         \* index, disk and options of a scan
    AnnounceReads, OutputReads, \* streams, as the reads they arrive in
    LevelsOfPaths,  \* sequences of names, and
    ShortenOpts(_), \* the options for one
    CommandLines,   \* sequences of arguments
    FnPatterns, FnTexts, GlobPatterns, GlobTexts,
    Groups,         \* <<zsh pattern, the words it stands for>>
    Values,         \* of the fields of a theme
    RowsToLayOut    \* see IsRow

ASSUME ReadsAssumption == /\ AnnounceReads \subseteq Seq(Seq(AnnounceTokens))
                          /\ OutputReads \subseteq Seq(Seq(OutputTokens))
ASSUME PathsAssumption ==
    \A parts \in LevelsOfPaths : parts \in Levelled /\ \A o \in ShortenOpts(parts) : IsOpts(o, parts)
ASSUME CommandLinesAssumption == CommandLines \subseteq Seq(Arguments)
ASSUME PatternsAssumption == FnPatterns \cup FnTexts \cup GlobPatterns \cup GlobTexts \subseteq Chars
ASSUME RowsAssumption == \A t \in RowsToLayOut : IsRow(t)

VARIABLES call, answer      \* the input of a call, and what it returned

vars == <<call, answer>>

None == <<>>

\* Themes that differ from the default in two fields at most.
Themes == UNION {{[NoConfig EXCEPT ![f] = x, ![g] = y] : x \in Values[f], y \in Values[g]} :
                    f \in DOMAIN Values, g \in {"mode", "layout", "segments"}}

AlgInit ==
    /\ answer = None
    /\ \/ \E w \in Worlds : call = <<"scan", w>>
       \/ \E r \in AnnounceReads : call = <<"announce", r>>
       \/ \E r \in OutputReads : call = <<"output", r>>
       \/ \E parts \in LevelsOfPaths : \E o \in ShortenOpts(parts) : call = <<"shorten", parts, o>>
       \/ \E args \in CommandLines : call = <<"options", args>>
       \/ \E p \in FnPatterns : call = <<"fnmatch", p>>
       \/ \E p \in GlobPatterns : call = <<"glob", p>>
       \/ \E g \in Groups : call = <<"groups", g[1], g[2]>>
       \/ \E c \in Themes : call = <<"theme", c>>
       \/ \E t \in RowsToLayOut : call = <<"row", t>>

Called(kind) == answer = None /\ call[1] = kind /\ UNCHANGED call

CallScan     == Called("scan") /\ answer' = <<Counts(call[2])>>
CallAnnounce == Called("announce") /\ answer' = <<Announcements(call[2])>>
CallOutput   == Called("output") /\ answer' = <<Scanned(call[2])>>
CallShorten  == Called("shorten") /\ answer' = <<Shorten(call[2], call[3])>>
CallOptions  == Called("options") /\ answer' = <<ParseArgs(call[2])>>
CallFnMatch  == Called("fnmatch") /\ answer' = <<{t \in FnTexts : t \in FnMatch[call[2]]}>>
CallGlob     == Called("glob") /\ answer' = <<{t \in GlobTexts : t \in GlobMatch[call[2]]}>>
CallGroups   == Called("groups") /\ answer' = <<Alternatives(call[2])>>
CallTheme    == LET doc == ToDocument(call[2]) IN
                /\ Called("theme")
                /\ answer' = <<{ParseDoc(d, u) : d \in {doc, Reverse(doc)}, u \in BOOLEAN}>>
CallRow      == Called("row") /\ answer' = <<Row(call[2])>>

AlgNext == \/ CallScan \/ CallAnnounce \/ CallOutput \/ CallShorten
           \/ CallOptions \/ CallFnMatch \/ CallGlob \/ CallGroups \/ CallTheme \/ CallRow

AlgSpec == AlgInit /\ [][AlgNext]_vars

Answered(kind) == answer # None /\ call[1] = kind

\* See ScanIsExact, IsOfTheStream, IsForwarded, IsAsSet, IsFnMatch, IsGlobMatch,
\* AreAlternatives, IsSameTheme, IsReadable, IsAtItsEdge and IsSeamless.
ScanCountsAreTrue == Answered("scan") => ScanIsExact(call[2], answer[1])
CountsAreTrue == Answered("scan") => IsTrue(call[2], answer[1])
AnnouncementsAreOfTheStream == Answered("announce") => IsOfTheStream(call[2], answer[1])
OutputIsForwarded == Answered("output") => IsForwarded(call[2], answer[1])
OptionsAreAsSet == Answered("options") => IsAsSet(call[2], answer[1])
FnMatchMatches == Answered("fnmatch") => IsFnMatch(call[2], answer[1], FnTexts)
GlobMatches == Answered("glob") => IsGlobMatch(call[2], answer[1], GlobTexts)
GroupsAreAlternatives == Answered("groups") => AreAlternatives(call[3], answer[1])
ThemeRoundTrips == Answered("theme") => IsSameTheme(call[2], answer[1])
PathIsReadable == Answered("shorten") => IsReadable(call[2], call[3], answer[1])
RowsEndAtTheEdge == Answered("row") => IsAtItsEdge(call[2], answer[1])
ArrowsAreSeamless == Answered("row") => IsSeamless(answer[1])
=============================================================================
