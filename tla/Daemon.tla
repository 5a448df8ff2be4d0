------------------------------- MODULE Daemon -------------------------------
(***************************************************************************)
(* The gitstatus daemon (daemon.rs, protocol.rs, p11k-d): one loop that    *)
(* reads requests from a FIFO, answers them one by one from the cached     *)
(* repository of RepoCache, and ends with its shell.  A message is its     *)
(* body and its separator; reads cut the stream anywhere.                  *)
(***************************************************************************)
EXTENDS RepoCache, Sequences

CONSTANT MaxRequests    \* bound: what the shell asks

ASSUME DaemonAssumption == MaxRequests \in Nat

VARIABLES
    sent,       \* the requests so far, a sequence of kinds; the id is the position
    stdin,      \* the FIFO
    buf,        \* what the loop has read and not used
    out,        \* the responses
    taken,      \* number of messages the loop has taken out of buf
    lost,       \* ids of the messages that ended in a panic
    shell,      \* "alive", "closed" (end of file), "dead" (the FIFO is still held open)
    dpc         \* "loop", "request", "exited"

daemonVars == <<sent, stdin, buf, out, taken, lost, shell, dpc>>
vars == <<repoVars, daemonVars>>

\* repo: in the repository, with or without the index; other: an empty directory
\* (the handshake) or one without a repository; bad: malformed.
Kinds == {"repo", "other", "bad"}

Units(i) == <<[id |-> i, sep |-> FALSE], [id |-> i, sep |-> TRUE]>>
Response(i, is_repo) == [id |-> i, is_repo |-> is_repo]

Init ==
    /\ RepoInit
    /\ sent = <<>> /\ stdin = <<>> /\ buf = <<>> /\ out = <<>>
    /\ taken = 0
    /\ lost = {}
    /\ shell = "alive"
    /\ dpc = "loop"

-----------------------------------------------------------------------------
(* The shell *)

\* One write is one message: it is shorter than the pipe takes at once.
Send ==
    /\ shell = "alive"
    /\ Len(sent) < MaxRequests
    /\ \E kind \in Kinds : sent' = Append(sent, kind)
    /\ stdin' = stdin \o Units(Len(sent'))
    /\ UNCHANGED <<repoVars, buf, out, taken, lost, shell, dpc>>

\* The shell ends, and another process may have the FIFO open.
ShellEnds ==
    /\ shell = "alive"
    /\ shell' \in {"closed", "dead"}
    /\ UNCHANGED <<repoVars, sent, stdin, buf, out, taken, lost, dpc>>

-----------------------------------------------------------------------------
(* The loop *)

Complete(bytes) == \E i \in DOMAIN bytes : bytes[i].sep

\* A read of up to 256 bytes.
Read ==
    /\ dpc = "loop" /\ ~Complete(buf)
    /\ \E n \in 1..Len(stdin) :
          /\ buf' = buf \o SubSeq(stdin, 1, n)
          /\ stdin' = SubSeq(stdin, n + 1, Len(stdin))
    /\ UNCHANGED <<repoVars, sent, out, taken, lost, shell, dpc>>

EndOfFile ==
    /\ dpc = "loop" /\ ~Complete(buf)
    /\ stdin = <<>> /\ shell = "closed"
    /\ dpc' = "exited"
    /\ UNCHANGED <<repoVars, sent, stdin, buf, out, taken, lost, shell>>

\* A mutant: only the end of the file ends the daemon.
LivenessOkAlways == TRUE

\* liveness_ok: the lock of the shell, or its pid.
LivenessOk == shell = "alive"

\* poll, one second without input: the parent is looked for, then a repository
\* that was not used for its time is closed.
Timeout ==
    /\ dpc = "loop" /\ ~Complete(buf)
    /\ stdin = <<>> /\ shell # "closed"
    /\ \/ ~LivenessOk /\ dpc' = "exited" /\ UNCHANGED repoVars
       \/ LivenessOk /\ Evict /\ UNCHANGED dpc
    /\ UNCHANGED <<sent, stdin, buf, out, taken, lost, shell>>

First(bytes) == CHOOSE i \in DOMAIN bytes : bytes[i].sep /\ \A j \in 1..i - 1 : ~bytes[j].sep

\* A mutant of Rest: what came with the first message is thrown away.
RestDropped(bytes) == <<>>

Rest(bytes) == SubSeq(bytes, First(bytes) + 1, Len(bytes))

\* write_response; a pipe that nobody reads ends the daemon.
Respond(i, is_repo) ==
    IF shell = "closed"
       THEN dpc' = "exited" /\ UNCHANGED out
       ELSE out' = Append(out, Response(i, is_repo)) /\ dpc' = "loop"

\* A mutant of Caught: the panic ends the loop, as the exit codes of p11k-d say.
CaughtNot(i) == lost' = lost \cup {i} /\ dpc' = "exited"

\* process_message caught a panic; there is no response.
Caught(i) == lost' = lost \cup {i} /\ dpc' = "loop"

\* process_message up to get_or_open.
Process ==
    /\ dpc = "loop" /\ Complete(buf)
    /\ buf' = Rest(buf)
    /\ taken' = taken + 1
    /\ LET i == buf[First(buf)].id
           kind == sent[i] IN
       CASE kind = "bad"   -> Caught(i) /\ UNCHANGED <<repoVars, out>>
         [] kind = "other" -> Respond(i, FALSE) /\ UNCHANGED <<repoVars, lost>>
         [] OTHER          -> /\ \E skip \in BOOLEAN : Open(skip)
                              /\ dpc' = "request"
                              /\ UNCHANGED <<out, lost>>
    /\ UNCHANGED <<sent, stdin, shell>>

\* The id of the request in progress.
Current == taken

Answer ==
    /\ dpc = "request"
    /\ Close
    /\ Respond(Current, TRUE)
    /\ UNCHANGED <<sent, stdin, buf, taken, lost, shell>>

RequestPanics ==
    /\ dpc = "request"
    /\ Panic
    /\ Caught(Current)
    /\ UNCHANGED <<sent, stdin, buf, out, taken, shell>>

Loop == Read \/ EndOfFile \/ Timeout \/ Process \/ Answer \/ (Build /\ UNCHANGED daemonVars)

Next == \/ Send \/ ShellEnds \/ Loop \/ RequestPanics
        \/ (User \/ ProbeEnds) /\ UNCHANGED daemonVars

Spec == Init /\ [][Next]_vars /\ WF_vars(Loop)

-----------------------------------------------------------------------------
DaemonTypeOK ==
    /\ RepoTypeOK
    /\ sent \in Seq(Kinds) /\ Len(sent) <= MaxRequests
    /\ {stdin, buf} \subseteq Seq([id : Nat, sep : BOOLEAN])
    /\ out \in Seq([id : 1..Len(sent), is_repo : BOOLEAN])
    /\ taken \in 0..Len(sent) /\ lost \subseteq 1..Len(sent)
    /\ shell \in {"alive", "closed", "dead"}
    /\ dpc \in {"loop", "request", "exited"}

\* What the loop has read and what it has not is the rest of the stream.
Ahead(j) == IF j <= Len(buf) THEN buf[j] ELSE stdin[j - Len(buf)]
StreamIsWhole ==
    /\ Len(buf) + Len(stdin) = 2 * (Len(sent) - taken)
    /\ \A n \in 1..Len(sent) - taken :
          /\ Ahead(2 * n - 1) = [id |-> taken + n, sep |-> FALSE]
          /\ Ahead(2 * n)     = [id |-> taken + n, sep |-> TRUE]

Answered == {out[n].id : n \in DOMAIN out}

\* Every message that the loop has taken is answered or lost, but the one it works on.
TakenAreSettled ==
    /\ dpc = "loop" => Answered \cup lost = 1..taken
    /\ dpc = "request" => /\ Answered \cup lost = 1..taken - 1
                          /\ taken > 0 /\ sent[taken] = "repo"
    /\ Answered \subseteq 1..taken

\* However reads cut the stream and whatever panics in between: responses come in
\* the order of the requests, none twice, each of its kind, and when the loop has
\* used its input only malformed and panicked requests are without one (daemon.rs,
\* run: "Requests run one at a time, in order").
AnsweredInOrder ==
    /\ DaemonTypeOK /\ StreamIsWhole /\ TakenAreSettled
    /\ \A n \in DOMAIN out :
          /\ out[n].is_repo <=> sent[out[n].id] = "repo"
          /\ \A m \in 1..n - 1 : out[m].id < out[n].id
    /\ dpc = "loop" /\ stdin = <<>> /\ ~Complete(buf) =>
          Answered \cup lost = 1..Len(sent)

\* A request is answered unless the shell ends or the request panics, also behind
\* one that panicked (daemon.rs, run: "one bad message must not end the daemon").
RequestsAreAnswered ==
    \A i \in 1..MaxRequests :
       i <= Len(sent) ~> i \in Answered \cup lost \/ shell # "alive"

\* The daemon ends with its shell, also when another process holds the FIFO open
\* (daemon.rs, liveness_ok).
EndsWithShell == shell # "alive" ~> dpc = "exited"
=============================================================================
