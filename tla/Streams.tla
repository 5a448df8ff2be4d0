------------------------------- MODULE Streams -------------------------------
(***************************************************************************)
(* The engine's readers of byte streams (protocol.rs) as functions of the  *)
(* reads they get: announce lines from the FIFO, prompt signals in the     *)
(* output of the shell, replies of the terminal among the keys.  A stream  *)
(* is a sequence of tokens, a read any piece of it.                        *)
(***************************************************************************)
EXTENDS Naturals, Sequences, FiniteSets, SequencesExt

CONSTANTS
    MaxLine     \* MAX_ANNOUNCE_LINE, small here

ASSUME StreamsAssumption == MaxLine \in Nat \ {0}

\* The two kinds of stream, and what they are made of.  PROMPT_SIGNAL begins with a
\* byte that it does not hold again; x is any other output.
Signal == <<"esc", "1337", "bel">>
OutputTokens == {"esc", "1337", "bel", "x"}
\* h: the start of a line that is a message, x: anything else in a line.
AnnounceTokens == {"h", "x", "nl"}

Drop(s, n) == SubSeq(s, n + 1, Len(s))
Take(s, n) == SubSeq(s, 1, n)

-----------------------------------------------------------------------------
(* Announcements *)

\* The length up to and with the last newline, 0 without one.
EndOfLines(bytes) == SelectLastInSeq(bytes, LAMBDA b : b = "nl")

\* The line that the newline at i ends; it is a message by its first field.
LineAt(text, i) == SubSeq(text, EndOfLines(Take(text, i - 1)) + 1, i - 1)
IsMessage(line) == line # <<>> /\ line[1] = "h"

\* parse_announce_lines: the messages among the lines that are complete.
Parse(text) ==
    LET parsed[i \in 0..Len(text)] ==
           IF i = 0 THEN <<>>
           ELSE IF text[i] = "nl" /\ IsMessage(LineAt(text, i)) THEN Append(parsed[i - 1], LineAt(text, i))
           ELSE parsed[i - 1]
    IN  parsed[Len(text)]

NoAnnouncements == [pending |-> <<>>, msgs |-> <<>>]

\* A mutant of PushAnnounce: the partial line is parsed as well.
PushAnnounceAll(acc, chunk) ==
    LET bytes == acc.pending \o chunk
        end   == EndOfLines(bytes)
    IN  [pending |-> Drop(bytes, end), msgs |-> acc.msgs \o Parse(Append(bytes, "nl"))]

\* push_announce
PushAnnounce(acc, chunk) ==
    LET bytes == acc.pending \o chunk
        end   == EndOfLines(bytes)
    IN  IF end = 0
           THEN [acc EXCEPT !.pending = IF Len(bytes) > MaxLine THEN <<>> ELSE bytes]
           ELSE [pending |-> Drop(bytes, end), msgs |-> acc.msgs \o Parse(Take(bytes, end))]

\* drain_announce, of one read after another.
Announcements(reads) ==
    LET got[i \in 0..Len(reads)] == IF i = 0 THEN NoAnnouncements ELSE PushAnnounce(got[i - 1], reads[i])
    IN  got[Len(reads)]

\* No line is longer than what is kept of one.
LinesAreShort(s) ==
    \A i, j \in DOMAIN s : j - i >= MaxLine => \E k \in i..j : s[k] = "nl"

\* However the reads cut the lines, the messages are those of the stream, and what
\* is left is its last line (push_announce, "Only complete lines are parsed").
IsOfTheStream(reads, got) ==
    LET s == FlattenSeq(reads) IN
    LinesAreShort(s) => got = [msgs |-> Parse(s), pending |-> Drop(s, EndOfLines(s))]

-----------------------------------------------------------------------------
(* Prompt signals *)

StartsAt(s, i) == i + Len(Signal) - 1 <= Len(s) /\ SubSeq(s, i, i + Len(Signal) - 1) = Signal

\* The first signal of a stream, 0 for none.
FirstSignal(s) == LET at == {i \in DOMAIN s : StartsAt(s, i)}
                  IN  IF at = {} THEN 0 ELSE CHOOSE i \in at : \A j \in at : i <= j

\* signal_prefix_tail
PrefixTail(s) ==
    LET held == {n \in 1..Len(Signal) - 1 : n <= Len(s) /\ Drop(s, Len(s) - n) = Take(Signal, n)}
    IN  IF held = {} THEN 0 ELSE CHOOSE n \in held : \A m \in held : m <= n

\* A mutant of Held: only a whole signal is looked for.
HeldNothing(s) == 0

\* How much of the tail waits for the next read.
Held(s) == PrefixTail(s)

\* What push returns, and what it keeps.
NoScan == [before |-> <<>>, signals |-> 0, after |-> <<>>, pending |-> <<>>]

\* The text before the first signal, that behind it without the others.
Cut[s \in Seq(OutputTokens)] ==
    LET at == FirstSignal(s) IN
    IF at = 0
       THEN [NoScan EXCEPT !.before = Take(s, Len(s) - Held(s)), !.pending = Drop(s, Len(s) - Held(s))]
       ELSE LET rest == Cut[Drop(s, at + Len(Signal) - 1)] IN
            [before |-> Take(s, at - 1), signals |-> rest.signals + 1,
             after |-> rest.before \o rest.after, pending |-> rest.pending]

\* SignalScanner::push of one read after another; out and signals are what the
\* terminal and the loop get of all of them.
Push(acc, chunk) ==
    LET scan == Cut[acc.pending \o chunk] IN
    [pending |-> scan.pending, signals |-> acc.signals + scan.signals,
     out |-> acc.out \o scan.before \o scan.after]

NoOutput == [pending |-> <<>>, signals |-> 0, out |-> <<>>]

Scanned(reads) ==
    LET got[i \in 0..Len(reads)] == IF i = 0 THEN NoOutput ELSE Push(got[i - 1], reads[i])
    IN  got[Len(reads)]

\* The stream without its signals, and their number.
Strip[s \in Seq(OutputTokens)] ==
    IF s = <<>> THEN <<>>
    ELSE IF StartsAt(s, 1) THEN Strip[Drop(s, Len(Signal))]
    ELSE <<s[1]>> \o Strip[Tail(s)]

SignalsIn(s) == Cardinality({i \in DOMAIN s : StartsAt(s, i)})

\* However the reads cut the output, the terminal gets it without the signals and
\* byte for byte, none is missed or invented, and what is held back is the start of
\* a signal (SignalScanner, "only real prefixes are held back").
IsForwarded(reads, scan) ==
    LET s == FlattenSeq(reads) IN
    /\ scan.out \o scan.pending = Strip[s]
    /\ scan.signals = SignalsIn(s)
    /\ \E n \in 0..Len(Signal) - 1 : scan.pending = Take(Signal, n)

-----------------------------------------------------------------------------
(* Replies of the terminal *)

\* A reply is `[` with digits and a letter; a key is anything else.
KeyTokens == {"csi", "digit", "R", "key"}

\* is_terminal_reply of one read.
IsReply(read) ==
    /\ Len(read) >= 2
    /\ read[1] = "csi" /\ read[Len(read)] = "R"
    /\ \A i \in 2..Len(read) - 1 : read[i] = "digit"

\* Some read is taken for typing.
TypingSeen(reads) == \E i \in DOMAIN reads : ~IsReply(reads[i])

\* Replies alone are not typing, whatever reads they come in.  They are, when two
\* come in one read, or one in two: see README.
RepliesAreNotTyping(reads) ==
    (\E n \in Nat : FlattenSeq(reads) = FlattenSeq([i \in 1..n |-> <<"csi", "digit", "R">>]))
       => ~TypingSeen(reads)
=============================================================================
