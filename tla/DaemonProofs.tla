---------------------------- MODULE DaemonProofs ----------------------------
(***************************************************************************)
(* Theorems about Daemon, for any number of requests, cut by reads of any  *)
(* length, and any repository that changes under it.                       *)
(***************************************************************************)
EXTENDS Daemon, RepoCacheProofs

----------------------------------------------------------------------------
(* The repository in the daemon. *)

\* A step of the daemon is a step of the cached repository or leaves it alone.
LEMMA RepoStepsOfDaemon == [Next]_vars => [RepoNext]_repoVars
  BY DEF Next, vars, repoVars, Send, ShellEnds, Loop, Read, EndOfFile, Timeout, Process,
         Respond, Caught, Answer, RequestPanics, RepoNext

\* The daemon uses the repository as RepoCache says: all that holds there for any requests
\* holds for those that come through the FIFO (daemon.rs, process_message; repo.rs).
THEOREM DaemonContainsRepoCache == Spec => RepoSpec
  <1>1. Init => RepoInit
    BY DEF Init
  <1> QED
    BY <1>1, RepoStepsOfDaemon, PTL DEF Spec, RepoSpec

----------------------------------------------------------------------------
(* The stream. *)

Unit == [id : Nat, sep : BOOLEAN]

\* Sequences of units, cut and joined.
LEMMA CutStreams ==
    ASSUME NEW s \in Seq(Unit), NEW m \in 1..Len(s) + 1, NEW n \in 0..Len(s), m <= n + 1
    PROVE  /\ SubSeq(s, m, n) \in Seq(Unit) /\ Len(SubSeq(s, m, n)) = n + 1 - m
           /\ \A j \in 1..n + 1 - m : SubSeq(s, m, n)[j] = s[m + j - 1]
  OBVIOUS

LEMMA JoinedStreams ==
    ASSUME NEW s \in Seq(Unit), NEW t \in Seq(Unit)
    PROVE  /\ s \o t \in Seq(Unit) /\ Len(s \o t) = Len(s) + Len(t)
           /\ \A j \in 1..Len(s) : (s \o t)[j] = s[j]
           /\ \A j \in 1..Len(t) : (s \o t)[Len(s) + j] = t[j]
  OBVIOUS

\* The first message of the buffer is the first that is not taken, body and separator.
LEMMA FirstIsNext ==
    ASSUME DaemonTypeOK, StreamIsWhole, Complete(buf)
    PROVE  /\ Len(buf) >= 2 /\ taken + 1 \in 1..Len(sent)
           /\ First(buf) = 2 /\ buf[2].id = taken + 1
  <1>0. /\ buf \in Seq(Unit) /\ stdin \in Seq(Unit) /\ taken \in Nat /\ Len(sent) \in Nat
        /\ Len(buf) \in Nat /\ Len(stdin) \in Nat /\ taken <= Len(sent)
    BY DEF DaemonTypeOK, Unit
  <1>1. PICK i \in 1..Len(buf) : buf[i].sep
    BY <1>0 DEF Complete
  <1>2. 1 \in 1..Len(sent) - taken /\ Len(buf) >= 1
    BY <1>0, <1>1 DEF StreamIsWhole
  <1>3. /\ Ahead(1) = [id |-> taken + 1, sep |-> FALSE]
        /\ Ahead(2) = [id |-> taken + 1, sep |-> TRUE]
    <2>1. \A n \in 1..Len(sent) - taken :
             /\ Ahead(2 * n - 1) = [id |-> taken + n, sep |-> FALSE]
             /\ Ahead(2 * n)     = [id |-> taken + n, sep |-> TRUE]
      BY DEF StreamIsWhole
    <2> HIDE DEF Ahead
    <2>2. /\ Ahead(2 * 1 - 1) = [id |-> taken + 1, sep |-> FALSE]
          /\ Ahead(2 * 1)     = [id |-> taken + 1, sep |-> TRUE]
      BY <1>2, <2>1
    <2>3. 2 * 1 - 1 = 1 /\ 2 * 1 = 2
      OBVIOUS
    <2> QED
      BY <2>2, <2>3
  <1>4. ~buf[1].sep
    BY <1>0, <1>2, <1>3 DEF Ahead
  <1>5. i >= 2 /\ Len(buf) >= 2
    BY <1>0, <1>1, <1>4
  <1>6. buf[2] = [id |-> taken + 1, sep |-> TRUE]
    BY <1>0, <1>3, <1>5 DEF Ahead
  <1>7. First(buf) = 2
    <2>1. \A j \in DOMAIN buf : (buf[j].sep /\ \A l \in 1..j - 1 : ~buf[l].sep) <=> j = 2
      BY <1>0, <1>4, <1>5, <1>6
    <2> QED
      BY <1>0, <1>5, <2>1 DEF First
  <1> QED
    BY <1>0, <1>2, <1>5, <1>6, <1>7

\* The shell adds a message, the loop reads some units, or takes one message.
LEMMA StreamNext ==
    ASSUME DaemonTypeOK, StreamIsWhole, [Next]_vars
    PROVE  StreamIsWhole' /\ stdin' \in Seq(Unit) /\ buf' \in Seq(Unit)
  <1>0. /\ buf \in Seq(Unit) /\ stdin \in Seq(Unit) /\ taken \in Nat /\ Len(sent) \in Nat
        /\ Len(buf) \in Nat /\ Len(stdin) \in Nat /\ taken <= Len(sent)
        /\ sent \in Seq(Kinds) /\ Unit = [id : Nat, sep : BOOLEAN]
    BY DEF DaemonTypeOK, Unit
  <1>1. /\ Len(buf) + Len(stdin) = 2 * (Len(sent) - taken)
        /\ \A n \in 1..Len(sent) - taken :
              /\ Ahead(2 * n - 1) = [id |-> taken + n, sep |-> FALSE]
              /\ Ahead(2 * n)     = [id |-> taken + n, sep |-> TRUE]
    BY DEF StreamIsWhole
  <1>2. CASE Send
    <2> DEFINE new == Units(Len(sent) + 1)
    <2>1. /\ Len(sent') = Len(sent) + 1 /\ stdin' = stdin \o new
          /\ UNCHANGED <<buf, taken>>
      BY <1>0, <1>2 DEF Send
    <2>2. /\ new \in Seq(Unit) /\ Len(new) = 2
          /\ new[1] = [id |-> Len(sent) + 1, sep |-> FALSE]
          /\ new[2] = [id |-> Len(sent) + 1, sep |-> TRUE]
      BY <1>0 DEF Units
    <2> HIDE DEF new
    <2>3. /\ stdin' \in Seq(Unit) /\ Len(stdin') = Len(stdin) + 2
          /\ \A j \in 1..Len(stdin) : stdin'[j] = stdin[j]
          /\ stdin'[Len(stdin) + 1] = new[1] /\ stdin'[Len(stdin) + 2] = new[2]
      <3>1. /\ stdin \o new \in Seq(Unit) /\ Len(stdin \o new) = Len(stdin) + Len(new)
            /\ \A j \in 1..Len(stdin) : (stdin \o new)[j] = stdin[j]
            /\ \A j \in 1..Len(new) : (stdin \o new)[Len(stdin) + j] = new[j]
        BY <1>0, <2>2, JoinedStreams
      <3>2. 1 \in 1..Len(new) /\ 2 \in 1..Len(new)
        BY <2>2
      <3> QED
        BY <2>1, <2>2, <3>1, <3>2
    <2>4. \A j \in 1..Len(buf) + Len(stdin) : Ahead(j)' = Ahead(j)
      <3> SUFFICES ASSUME NEW j \in 1..Len(buf) + Len(stdin)
                   PROVE  Ahead(j)' = Ahead(j)
        OBVIOUS
      <3>1. CASE j <= Len(buf)
        BY <2>1, <3>1 DEF Ahead
      <3>2. CASE ~(j <= Len(buf))
        <4>1. j - Len(buf) \in 1..Len(stdin)
          BY <1>0, <3>2
        <4>2. stdin'[j - Len(buf)] = stdin[j - Len(buf)]
          BY <2>3, <4>1
        <4> QED
          BY <2>1, <3>2, <4>2 DEF Ahead
      <3> QED
        BY <3>1, <3>2
    <2>5. /\ \A j : j = Len(buf) + Len(stdin) + 1 => Ahead(j)' = new[1]
          /\ \A j : j = Len(buf) + Len(stdin) + 2 => Ahead(j)' = new[2]
      <3>1. /\ (Len(buf) + Len(stdin) + 1) - Len(buf) = Len(stdin) + 1
            /\ (Len(buf) + Len(stdin) + 2) - Len(buf) = Len(stdin) + 2
            /\ ~(Len(buf) + Len(stdin) + 1 <= Len(buf)) /\ ~(Len(buf) + Len(stdin) + 2 <= Len(buf))
        BY <1>0
      <3> QED
        BY <2>1, <2>3, <3>1 DEF Ahead
    <2>6. ASSUME NEW n \in 1..Len(sent') - taken'
          PROVE  /\ Ahead(2 * n - 1)' = [id |-> taken' + n, sep |-> FALSE]
                 /\ Ahead(2 * n)'     = [id |-> taken' + n, sep |-> TRUE]
      <3>1. CASE n \in 1..Len(sent) - taken
        BY <1>0, <1>1, <2>1, <2>4, <3>1
      <3>2. CASE n = Len(sent) + 1 - taken
        <4>1. /\ 2 * n - 1 = Len(buf) + Len(stdin) + 1 /\ 2 * n = Len(buf) + Len(stdin) + 2
              /\ taken' + n = Len(sent) + 1
          BY <1>0, <1>1, <2>1, <3>2
        <4> HIDE DEF Ahead
        <4> QED
          BY <2>2, <2>5, <4>1
      <3> QED
        BY <1>0, <2>1, <2>6, <3>1, <3>2
    <2>7. Len(buf') + Len(stdin') = 2 * (Len(sent') - taken')
      BY <1>0, <1>1, <2>1, <2>3
    <2> QED
      BY <1>0, <2>1, <2>3, <2>6, <2>7 DEF StreamIsWhole
  <1>3. CASE Read
    <2>1. PICK n \in 1..Len(stdin) : /\ buf' = buf \o SubSeq(stdin, 1, n)
                                     /\ stdin' = SubSeq(stdin, n + 1, Len(stdin))
      BY <1>3 DEF Read
    <2>2. sent' = sent /\ taken' = taken
      BY <1>3 DEF Read
    <2>3. /\ SubSeq(stdin, 1, n) \in Seq(Unit) /\ Len(SubSeq(stdin, 1, n)) = n
          /\ \A j \in 1..n : SubSeq(stdin, 1, n)[j] = stdin[j]
          /\ stdin' \in Seq(Unit) /\ Len(stdin') = Len(stdin) - n
          /\ \A j \in 1..Len(stdin) - n : stdin'[j] = stdin[n + j]
      <3>1. /\ 1 \in 1..Len(stdin) + 1 /\ n \in 0..Len(stdin) /\ 1 <= n + 1 /\ n + 1 - 1 = n
            /\ n + 1 \in 1..Len(stdin) + 1 /\ Len(stdin) \in 0..Len(stdin)
            /\ n + 1 <= Len(stdin) + 1 /\ Len(stdin) + 1 - (n + 1) = Len(stdin) - n
            /\ \A j \in 1..n : 1 + j - 1 = j
            /\ \A j \in 1..Len(stdin) - n : (n + 1) + j - 1 = n + j
        BY <1>0, <2>1
      <3>2. /\ SubSeq(stdin, 1, n) \in Seq(Unit) /\ Len(SubSeq(stdin, 1, n)) = n
            /\ \A j \in 1..n : SubSeq(stdin, 1, n)[j] = stdin[1 + j - 1]
        <4>0. stdin \in Seq(Unit) /\ 1 \in 1..Len(stdin) + 1 /\ n \in 0..Len(stdin) /\ 1 <= n + 1
          BY <1>0, <3>1
        <4>1. /\ SubSeq(stdin, 1, n) \in Seq(Unit) /\ Len(SubSeq(stdin, 1, n)) = n + 1 - 1
              /\ \A j \in 1..n + 1 - 1 : SubSeq(stdin, 1, n)[j] = stdin[1 + j - 1]
          BY <4>0, CutStreams
        <4> QED
          BY <3>1, <4>1
      <3>3. /\ stdin' \in Seq(Unit) /\ Len(stdin') = Len(stdin) - n
            /\ \A j \in 1..Len(stdin) - n : stdin'[j] = stdin[(n + 1) + j - 1]
        <4>1. /\ SubSeq(stdin, n + 1, Len(stdin)) \in Seq(Unit)
              /\ Len(SubSeq(stdin, n + 1, Len(stdin))) = Len(stdin) + 1 - (n + 1)
              /\ \A j \in 1..Len(stdin) + 1 - (n + 1) :
                    SubSeq(stdin, n + 1, Len(stdin))[j] = stdin[(n + 1) + j - 1]
          BY <1>0, <3>1, CutStreams
        <4> QED
          BY <2>1, <3>1, <4>1
      <3> QED
        BY <3>1, <3>2, <3>3
    <2>4. /\ buf' \in Seq(Unit) /\ Len(buf') = Len(buf) + n
          /\ \A j \in 1..Len(buf) : buf'[j] = buf[j]
          /\ \A j \in 1..n : buf'[Len(buf) + j] = stdin[j]
      <3> DEFINE t == SubSeq(stdin, 1, n)
      <3>1. t \in Seq(Unit) /\ Len(t) = n /\ (\A j \in 1..n : t[j] = stdin[j]) /\ buf' = buf \o t
        BY <2>1, <2>3
      <3> HIDE DEF t
      <3>2. /\ buf \o t \in Seq(Unit) /\ Len(buf \o t) = Len(buf) + Len(t)
            /\ \A j \in 1..Len(buf) : (buf \o t)[j] = buf[j]
            /\ \A j \in 1..Len(t) : (buf \o t)[Len(buf) + j] = t[j]
        BY <1>0, <3>1, JoinedStreams
      <3> QED
        BY <3>1, <3>2
    <2>5. \A j \in 1..Len(buf) + Len(stdin) : Ahead(j)' = Ahead(j)
      <3> SUFFICES ASSUME NEW j \in 1..Len(buf) + Len(stdin)
                   PROVE  Ahead(j)' = Ahead(j)
        OBVIOUS
      <3>1. CASE j <= Len(buf)
        BY <1>0, <2>1, <2>4, <3>1 DEF Ahead
      <3>2. CASE j > Len(buf) /\ j <= Len(buf) + n
        <4>1. j - Len(buf) \in 1..n /\ j = Len(buf) + (j - Len(buf))
          BY <1>0, <2>1, <3>2
        <4>2. buf'[j] = stdin[j - Len(buf)] /\ j <= Len(buf')
          BY <1>0, <2>1, <2>4, <3>2, <4>1
        <4> QED
          BY <3>2, <4>2 DEF Ahead
      <3>3. CASE j > Len(buf) + n
        <4>1. j - (Len(buf) + n) \in 1..Len(stdin) - n /\ n + (j - (Len(buf) + n)) = j - Len(buf)
          BY <1>0, <2>1, <3>3
        <4> QED
          BY <1>0, <2>1, <2>3, <2>4, <3>3, <4>1 DEF Ahead
      <3> QED
        BY <1>0, <2>1, <3>1, <3>2, <3>3
    <2> HIDE DEF Ahead
    <2>6. \A m \in 1..Len(sent) - taken :
             2 * m - 1 \in 1..Len(buf) + Len(stdin) /\ 2 * m \in 1..Len(buf) + Len(stdin)
      BY <1>0, <1>1
    <2>7. Len(buf') + Len(stdin') = 2 * (Len(sent') - taken')
      <3>1. /\ Len(buf') = Len(buf) + n /\ Len(stdin') = Len(stdin) - n
            /\ n \in Nat /\ sent' = sent /\ taken' = taken
        BY <1>0, <2>1, <2>2, <2>3, <2>4
      <3>2. Len(buf) + Len(stdin) = 2 * (Len(sent) - taken)
        BY <1>1
      <3>3. (Len(buf) + n) + (Len(stdin) - n) = Len(buf) + Len(stdin)
        BY <1>0, <3>1
      <3> QED
        BY <3>1, <3>2, <3>3
    <2>8. ASSUME NEW m \in 1..Len(sent') - taken'
          PROVE  /\ Ahead(2 * m - 1)' = [id |-> taken' + m, sep |-> FALSE]
                 /\ Ahead(2 * m)'     = [id |-> taken' + m, sep |-> TRUE]
      BY <1>1, <2>2, <2>5, <2>6, <2>8
    <2> QED
      BY <2>3, <2>4, <2>7, <2>8 DEF StreamIsWhole
  <1>4. CASE Process
    <2>1. /\ Len(buf) >= 2 /\ taken + 1 \in 1..Len(sent) /\ First(buf) = 2
      BY <1>4, FirstIsNext DEF Process
    <2>2. /\ buf' = SubSeq(buf, 3, Len(buf)) /\ stdin' = stdin /\ sent' = sent
          /\ taken' = taken + 1
      BY <1>4, <2>1 DEF Process, Rest
    <2>3. /\ buf' \in Seq(Unit) /\ Len(buf') = Len(buf) - 2
          /\ \A j \in 1..Len(buf) - 2 : buf'[j] = buf[j + 2]
      <3>1. /\ 3 \in 1..Len(buf) + 1 /\ Len(buf) \in 0..Len(buf) /\ 3 <= Len(buf) + 1
            /\ Len(buf) + 1 - 3 = Len(buf) - 2
            /\ \A j \in 1..Len(buf) - 2 : 3 + j - 1 = j + 2
        BY <1>0, <2>1
      <3>2. /\ SubSeq(buf, 3, Len(buf)) \in Seq(Unit)
            /\ Len(SubSeq(buf, 3, Len(buf))) = Len(buf) + 1 - 3
            /\ \A j \in 1..Len(buf) + 1 - 3 : SubSeq(buf, 3, Len(buf))[j] = buf[3 + j - 1]
        BY <1>0, <3>1, CutStreams
      <3> QED
        BY <2>2, <3>1, <3>2
    <2>4. \A j \in 1..Len(buf) + Len(stdin) - 2 : Ahead(j)' = Ahead(j + 2)
      <3> SUFFICES ASSUME NEW j \in 1..Len(buf) + Len(stdin) - 2
                   PROVE  Ahead(j)' = Ahead(j + 2)
        OBVIOUS
      <3>1. CASE j <= Len(buf')
        <4>1. j \in 1..Len(buf) - 2 /\ j + 2 <= Len(buf)
          BY <1>0, <2>1, <2>3, <3>1
        <4> QED
          BY <2>3, <3>1, <4>1 DEF Ahead
      <3>2. CASE ~(j <= Len(buf'))
        <4>1. ~(j + 2 <= Len(buf)) /\ j - Len(buf') = (j + 2) - Len(buf)
          BY <1>0, <2>1, <2>3, <3>2
        <4> QED
          BY <2>2, <3>2, <4>1 DEF Ahead
      <3> QED
        BY <3>1, <3>2
    <2>5. ASSUME NEW n \in 1..Len(sent') - taken'
          PROVE  /\ Ahead(2 * n - 1)' = [id |-> taken' + n, sep |-> FALSE]
                 /\ Ahead(2 * n)'     = [id |-> taken' + n, sep |-> TRUE]
      <3>1. /\ n + 1 \in 1..Len(sent) - taken
            /\ 2 * n - 1 \in 1..Len(buf) + Len(stdin) - 2 /\ 2 * n \in 1..Len(buf) + Len(stdin) - 2
            /\ (2 * n - 1) + 2 = 2 * (n + 1) - 1 /\ 2 * n + 2 = 2 * (n + 1)
            /\ taken + (n + 1) = taken' + n
        BY <1>0, <1>1, <2>1, <2>2, <2>5
      <3> QED
        BY <1>1, <2>4, <3>1
    <2>6. Len(buf') + Len(stdin') = 2 * (Len(sent') - taken')
      <3>1. /\ Len(buf') = Len(buf) - 2 /\ Len(stdin') = Len(stdin)
            /\ sent' = sent /\ taken' = taken + 1
        BY <2>2, <2>3
      <3>2. Len(buf) + Len(stdin) = 2 * (Len(sent) - taken)
        BY <1>1
      <3> QED
        BY <1>0, <3>1, <3>2
    <2> QED
      BY <1>0, <2>2, <2>3, <2>5, <2>6 DEF StreamIsWhole
  <1>5. CASE UNCHANGED <<sent, stdin, buf, taken>>
    BY <1>0, <1>5 DEF StreamIsWhole, Ahead
  <1> QED
    BY <1>2, <1>3, <1>4, <1>5
    DEF Next, vars, Loop, ShellEnds, EndOfFile, Timeout, Answer, RequestPanics, daemonVars

----------------------------------------------------------------------------
(* The answers. *)

\* Each response is of its request, and they are in order.
InOrder ==
    \A n \in DOMAIN out :
       /\ out[n].is_repo <=> sent[out[n].id] = "repo"
       /\ \A m \in 1..n - 1 : out[m].id < out[n].id

DaemonInv == DaemonTypeOK /\ StreamIsWhole /\ TakenAreSettled /\ InOrder

\* A response to a message behind all that are answered.
LEMMA RespondKeeps ==
    ASSUME DaemonInv, NEW i \in 1..Len(sent), NEW is_repo \in BOOLEAN,
           is_repo <=> sent[i] = "repo", \A j \in Answered : j < i,
           sent' = sent, Respond(i, is_repo)
    PROVE  /\ out' \in Seq([id : 1..Len(sent), is_repo : BOOLEAN]) /\ InOrder'
           /\ \/ dpc' = "exited" /\ Answered' = Answered
              \/ dpc' = "loop" /\ Answered' = Answered \cup {i}
  <1> USE DEF DaemonInv
  <1>0. out \in Seq([id : 1..Len(sent), is_repo : BOOLEAN]) /\ Len(out) \in Nat
    BY DEF DaemonTypeOK
  <1>1. CASE shell = "closed"
    BY <1>0, <1>1 DEF Respond, InOrder, Answered
  <1>2. CASE shell # "closed"
    <2>1. /\ out' = Append(out, [id |-> i, is_repo |-> is_repo]) /\ dpc' = "loop"
      BY <1>2 DEF Respond, Response
    <2>2. /\ out' \in Seq([id : 1..Len(sent), is_repo : BOOLEAN])
          /\ Len(out') = Len(out) + 1
          /\ \A n \in 1..Len(out) : out'[n] = out[n]
          /\ out'[Len(out) + 1] = [id |-> i, is_repo |-> is_repo]
      BY <1>0, <2>1
    <2>3. DOMAIN out = 1..Len(out) /\ DOMAIN out' = 1..Len(out) + 1
      BY <1>0, <2>2
    <2>4. \A n \in 1..Len(out) : out[n].id < i
      BY <2>3 DEF Answered
    <2>5. InOrder'
      <3> SUFFICES ASSUME NEW n \in 1..Len(out) + 1
                   PROVE  /\ out'[n].is_repo <=> sent[out'[n].id] = "repo"
                          /\ \A m \in 1..n - 1 : out'[m].id < out'[n].id
        BY <2>3 DEF InOrder
      <3>1. CASE n \in 1..Len(out)
        <4>1. \A m \in 1..n - 1 : m \in 1..Len(out)
          BY <1>0, <3>1
        <4> QED
          BY <2>2, <2>3, <3>1, <4>1 DEF InOrder
      <3>2. CASE n = Len(out) + 1
        <4>1. \A m \in 1..n - 1 : m \in 1..Len(out)
          BY <1>0, <3>2
        <4> QED
          BY <2>2, <2>4, <3>2, <4>1
      <3> QED
        BY <1>0, <3>1, <3>2
    <2>6. Answered' = Answered \cup {i}
      <3>1. 1..Len(out) + 1 = (1..Len(out)) \cup {Len(out) + 1}
        BY <1>0
      <3> QED
        BY <2>2, <2>3, <3>1 DEF Answered
    <2> QED
      BY <2>1, <2>2, <2>5, <2>6
  <1> QED
    BY <1>1, <1>2

\* A new message comes behind those that are answered.
LEMMA SendKeeps ==
    ASSUME DaemonInv, Send
    PROVE  /\ sent' \in Seq(Kinds) /\ Len(sent') <= MaxRequests /\ 0..Len(sent) \subseteq 0..Len(sent')
           /\ out' \in Seq([id : 1..Len(sent'), is_repo : BOOLEAN])
           /\ TakenAreSettled' /\ InOrder'
  <1> USE DEF DaemonInv
  <1>0. /\ sent \in Seq(Kinds) /\ Len(sent) \in Nat /\ MaxRequests \in Nat /\ taken \in 0..Len(sent)
        /\ out \in Seq([id : 1..Len(sent), is_repo : BOOLEAN])
    BY DaemonAssumption DEF DaemonTypeOK
  <1>1. /\ sent' \in Seq(Kinds) /\ Len(sent') = Len(sent) + 1 /\ Len(sent) < MaxRequests
        /\ \A i \in 1..Len(sent) : sent'[i] = sent[i]
        /\ UNCHANGED <<out, taken, lost, dpc>>
    BY <1>0 DEF Send
  <1>2. Len(sent') <= MaxRequests /\ 0..Len(sent) \subseteq 0..Len(sent') /\ 1..Len(sent) \subseteq 1..Len(sent')
    BY <1>0, <1>1
  <1>3. out' \in Seq([id : 1..Len(sent'), is_repo : BOOLEAN])
    <2> DEFINE S == [id : 1..Len(sent), is_repo : BOOLEAN]
               T == [id : 1..Len(sent'), is_repo : BOOLEAN]
    <2>1. S \subseteq T
      BY <1>2
    <2>2. out \in Seq(S)
      BY <1>0
    <2> HIDE DEF S, T
    <2>3. out \in Seq(T)
      BY <2>1, <2>2
    <2> QED
      BY <1>1, <2>3 DEF T
  <1>4. \A n \in DOMAIN out : out[n].id \in 1..Len(sent)
    <2> DEFINE S == [id : 1..Len(sent), is_repo : BOOLEAN]
    <2>1. out \in Seq(S)
      BY <1>0
    <2> HIDE DEF S
    <2>2. \A n \in DOMAIN out : out[n] \in S
      BY <2>1
    <2> QED
      BY <2>2 DEF S
  <1>5. Answered' = Answered /\ TakenAreSettled'
    BY <1>0, <1>1 DEF TakenAreSettled, Answered
  <1>6. InOrder'
    <2>1. \A n \in DOMAIN out : sent'[out[n].id] = sent[out[n].id]
      BY <1>1, <1>4
    <2> QED
      BY <1>1, <2>1 DEF InOrder
  <1> QED
    BY <1>1, <1>2, <1>3, <1>5, <1>6

\* Every step of the daemon.
LEMMA DaemonInvNext == DaemonInv /\ [Next]_vars => DaemonInv'
  <1> SUFFICES ASSUME DaemonInv, [Next]_vars
               PROVE  DaemonInv'
    OBVIOUS
  <1> USE DEF DaemonInv
  <1>0. /\ RepoTypeOK' /\ StreamIsWhole' /\ {stdin', buf'} \subseteq Seq([id : Nat, sep : BOOLEAN])
    BY StreamNext, RepoStepsOfDaemon, RepoTypesNext DEF DaemonTypeOK, Unit
  <1>1. /\ sent \in Seq(Kinds) /\ Len(sent) \in Nat /\ taken \in 0..Len(sent)
        /\ lost \subseteq 1..Len(sent) /\ Answered \subseteq 1..taken
        /\ shell \in {"alive", "closed", "dead"} /\ dpc \in {"loop", "request", "exited"}
    BY DEF DaemonTypeOK, TakenAreSettled
  <1>2. CASE Send
    <2>1. lost' \subseteq 1..Len(sent') /\ taken' \in 0..Len(sent') /\ UNCHANGED <<shell, dpc>>
      <3>1. UNCHANGED <<lost, taken, shell, dpc>> /\ \A j \in 1..Len(sent) : j \in 0..Len(sent') /\ j # 0
        BY <1>1, <1>2, SendKeeps DEF Send
      <3> QED
        BY <1>1, <1>2, <3>1, SendKeeps
    <2> QED
      BY <1>0, <1>1, <1>2, <2>1, SendKeeps DEF DaemonTypeOK
  <1>3. CASE UNCHANGED <<sent, out, taken, lost, dpc>> /\ shell' \in {"alive", "closed", "dead"}
    BY <1>0, <1>3 DEF DaemonTypeOK, TakenAreSettled, InOrder, Answered
  <1>4. CASE UNCHANGED <<sent, out, taken, lost, shell>> /\ dpc' = "exited"
    BY <1>0, <1>4 DEF DaemonTypeOK, TakenAreSettled, InOrder, Answered
  <1>5. CASE Process
    <2> DEFINE i == taken + 1
    <2>1. /\ i \in 1..Len(sent) /\ buf[First(buf)].id = i /\ dpc = "loop"
          /\ taken' = i /\ UNCHANGED <<sent, shell>>
      BY <1>5, FirstIsNext DEF Process
    <2>2. /\ Answered \cup lost = 1..taken /\ sent[i] \in Kinds
          /\ 1..i = (1..taken) \cup {i} /\ i - 1 = taken /\ i > 0 /\ i \in 0..Len(sent)
          /\ \A j \in Answered : j < i
      BY <1>1, <2>1 DEF TakenAreSettled
    <2>3. CASE sent[i] = "bad"
      <3>1. lost' = lost \cup {i} /\ dpc' = "loop" /\ out' = out
        BY <1>5, <2>1, <2>3 DEF Process, Caught
      <3>2. TakenAreSettled'
        BY <2>1, <2>2, <3>1 DEF TakenAreSettled, Answered
      <3> QED
        BY <1>0, <1>1, <2>1, <2>2, <3>1, <3>2 DEF DaemonTypeOK, InOrder
    <2>4. CASE sent[i] = "other"
      <3>1. Respond(i, FALSE) /\ lost' = lost
        BY <1>5, <2>1, <2>4 DEF Process
      <3>2. /\ out' \in Seq([id : 1..Len(sent), is_repo : BOOLEAN]) /\ InOrder'
            /\ \/ dpc' = "exited" /\ Answered' = Answered
               \/ dpc' = "loop" /\ Answered' = Answered \cup {i}
        BY <2>1, <2>2, <2>4, <3>1, RespondKeeps
      <3>3. TakenAreSettled'
        BY <1>1, <2>1, <2>2, <3>1, <3>2 DEF TakenAreSettled
      <3> QED
        BY <1>0, <1>1, <2>1, <2>2, <3>1, <3>2, <3>3 DEF DaemonTypeOK
    <2>5. CASE sent[i] = "repo"
      <3>1. dpc' = "request" /\ UNCHANGED <<out, lost>>
        BY <1>5, <2>1, <2>5 DEF Process
      <3>2. TakenAreSettled'
        BY <1>1, <2>1, <2>2, <2>5, <3>1 DEF TakenAreSettled, Answered
      <3> QED
        BY <1>0, <1>1, <2>1, <2>2, <3>1, <3>2 DEF DaemonTypeOK, InOrder
    <2> QED
      BY <2>2, <2>3, <2>4, <2>5 DEF Kinds
  <1>6. CASE Answer \/ RequestPanics
    <2>1. /\ dpc = "request" /\ UNCHANGED <<sent, taken, shell>>
      BY <1>6 DEF Answer, RequestPanics
    <2>2. /\ Answered \cup lost = 1..taken - 1 /\ sent[taken] = "repo" /\ taken \in 1..Len(sent)
          /\ 1..taken = (1..taken - 1) \cup {taken} /\ \A j \in Answered : j < taken
      BY <1>1, <2>1 DEF TakenAreSettled
    <2>3. CASE Answer
      <3>1. Respond(taken, TRUE) /\ lost' = lost
        BY <2>3 DEF Answer, Current
      <3>2. /\ out' \in Seq([id : 1..Len(sent), is_repo : BOOLEAN]) /\ InOrder'
            /\ \/ dpc' = "exited" /\ Answered' = Answered
               \/ dpc' = "loop" /\ Answered' = Answered \cup {taken}
        BY <2>1, <2>2, <3>1, RespondKeeps
      <3>3. TakenAreSettled'
        BY <1>1, <2>1, <2>2, <3>1, <3>2 DEF TakenAreSettled
      <3> QED
        BY <1>0, <1>1, <2>1, <2>2, <3>1, <3>2, <3>3 DEF DaemonTypeOK
    <2>4. CASE RequestPanics
      <3>1. lost' = lost \cup {taken} /\ dpc' = "loop" /\ out' = out
        BY <2>4 DEF RequestPanics, Caught, Current
      <3>2. TakenAreSettled'
        BY <1>1, <2>1, <2>2, <3>1 DEF TakenAreSettled, Answered
      <3> QED
        BY <1>0, <1>1, <2>1, <2>2, <3>1, <3>2 DEF DaemonTypeOK, InOrder
    <2> QED
      BY <1>6, <2>3, <2>4
  <1> QED
    BY <1>1, <1>2, <1>3, <1>4, <1>5, <1>6
    DEF Next, vars, Loop, ShellEnds, Read, EndOfFile, Timeout, daemonVars

\* However reads cut the stream and whatever panics, for any number of requests: the
\* responses come in the order of the requests, none twice, each of its kind, and when the
\* input is used up only malformed and panicked requests are without one (daemon.rs, run).
THEOREM AnswersAreInOrder == Spec => []AnsweredInOrder
  <1>1. Init => DaemonInv
    <2> SUFFICES ASSUME Init
                 PROVE  DaemonInv
      OBVIOUS
    <2>1. RepoTypeOK
      BY RepoInits DEF Init, RepoInv
    <2> QED
      BY <2>1, DaemonAssumption
      DEF Init, DaemonInv, DaemonTypeOK, StreamIsWhole, TakenAreSettled, InOrder, Answered
  <1>2. DaemonInv => AnsweredInOrder
    <2> SUFFICES ASSUME DaemonInv, dpc = "loop", stdin = <<>>, ~Complete(buf)
                 PROVE  Answered \cup lost = 1..Len(sent)
      BY DEF DaemonInv, InOrder, AnsweredInOrder
    <2>1. /\ buf \in Seq(Unit) /\ Len(buf) \in Nat /\ taken \in Nat /\ Len(sent) \in Nat
          /\ taken <= Len(sent) /\ Len(stdin) = 0
      BY DEF DaemonInv, DaemonTypeOK, Unit
    <2>2. Len(buf) = 2 * (Len(sent) - taken)
      BY <2>1 DEF DaemonInv, StreamIsWhole
    <2>3. taken = Len(sent)
      <3> SUFFICES ASSUME taken < Len(sent)
                   PROVE  FALSE
        BY <2>1
      <3>1. 1 \in 1..Len(sent) - taken /\ Len(buf) >= 2 /\ 2 \in DOMAIN buf
        BY <2>1, <2>2
      <3>2. Ahead(2 * 1) = [id |-> taken + 1, sep |-> TRUE]
        BY <3>1 DEF DaemonInv, StreamIsWhole
      <3>3. buf[2].sep
        BY <2>1, <3>1, <3>2 DEF Ahead
      <3> QED
        BY <3>1, <3>3 DEF Complete
    <2> QED
      BY <2>3 DEF DaemonInv, TakenAreSettled
  <1> QED
    BY <1>1, <1>2, DaemonInvNext, PTL DEF Spec
=============================================================================
