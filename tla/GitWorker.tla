----------------------------- MODULE GitWorker -----------------------------
(***************************************************************************)
(* The asynchronous git status of the engine (git.rs, and the parts of the *)
(* event loop in engine.rs that talk to it).                               *)
(*                                                                         *)
(* The loop sends one numbered request per prompt to the current worker    *)
(* thread; a worker keeps only the newest request of its queue, computes   *)
(* the status and sends it back on a result channel all workers share.     *)
(* `p11k reload` replaces the worker: the old thread finishes what is in   *)
(* its queue and ends when the closed channel is empty.  The loop accepts  *)
(* a result only if it carries the newest number, and files it under the   *)
(* directory of the current prompt, for the result itself names none.      *)
(*                                                                         *)
(* A status is reduced to what the properties tell apart: the directory it *)
(* was computed for and how often that repository had changed by then ("no *)
(* repository" and "disabled workdir" are statuses like any other).        *)
(***************************************************************************)
EXTENDS Naturals, Sequences

CONSTANTS Cwds,        \* the directories a shell can stand in
          None,        \* Option::None
          MaxGen,      \* bound: prompts
          MaxVer,      \* bound: changes of one repository
          MaxWorkers   \* bound: workers started (1 + reloads)

Workers == 1..MaxWorkers
Status == [of : Cwds, ver : Nat]
GitRequest == [generation : Nat, cwd : Cwds]
GitResult == [generation : Nat, status : Status]

ASSUME GitAssumption ==
    /\ MaxGen \in Nat /\ MaxVer \in Nat /\ MaxWorkers \in Nat \ {0}
    /\ None \notin Cwds
    /\ None \notin GitRequest
    /\ None \notin [cwd : Cwds, status : Status]

VARIABLES
    git_gen,    \* number of the newest request
    cwd,        \* current_info.cwd: the directory of the newest prompt, or None
    last_vcs,   \* the status in use, with the directory it is filed under
    cur,        \* the worker req_tx leads to; smaller numbers were replaced
    queue,      \* queue[w]: requests sent to worker w and not yet taken
    job,        \* job[w]: the request worker w is computing, or None
    results,    \* the result channel
    repo,       \* environment: repo[d] counts the changes of d's repository
    asked       \* history: repo[cwd] when the newest request was sent

gitVars == <<git_gen, cwd, last_vcs, cur, queue, job, results, repo, asked>>

TypeOK ==
    /\ git_gen \in Nat
    /\ cwd \in Cwds \cup {None}
    /\ last_vcs \in [cwd : Cwds, status : Status] \cup {None}
    /\ cur \in Workers
    /\ queue \in [Workers -> Seq(GitRequest)]
    /\ job \in [Workers -> GitRequest \cup {None}]
    /\ results \in Seq(GitResult)
    /\ repo \in [Cwds -> Nat]
    /\ asked \in Nat

Init ==
    /\ git_gen = 0
    /\ cwd = None
    /\ last_vcs = None
    /\ cur = 1
    /\ queue = [w \in Workers |-> <<>>]
    /\ job = [w \in Workers |-> None]
    /\ results = <<>>
    /\ repo = [d \in Cwds |-> 0]
    /\ asked = 0

----------------------------------------------------------------------------
(* Mutants, for the runs that show which line each property rests on.      *)

\* The request is built from current_info before the new prompt is stored there.
SendRequestStaleInfo(d) ==
    /\ git_gen < MaxGen
    /\ git_gen' = git_gen + 1
    /\ cwd' = d
    /\ queue' = [queue EXCEPT ![cur] = Append(@, [generation |-> git_gen + 1, cwd |-> cwd])]
    /\ asked' = repo[d]
    /\ UNCHANGED <<last_vcs, cur, job, results, repo>>

\* The old worker is stopped at once: what it had not taken is lost.
RespawnDropsQueue ==
    /\ cur < MaxWorkers
    /\ cur' = cur + 1
    /\ queue' = [queue EXCEPT ![cur] = <<>>]
    /\ UNCHANGED <<git_gen, cwd, last_vcs, job, results, repo, asked>>

\* The stale-result test is dropped.
AcceptAny(r) == TRUE

\* The worker hands out the status it has in its cache from the start.
ComputeFromCache(d) == [of |-> d, ver |-> 0]

----------------------------------------------------------------------------
(* The event loop's side. *)

\* A prompt in directory d: the loop takes the next number and asks.
SendRequest(d) ==
    /\ git_gen < MaxGen
    /\ git_gen' = git_gen + 1
    /\ cwd' = d
    /\ queue' = [queue EXCEPT ![cur] = Append(@, [generation |-> git_gen + 1, cwd |-> d])]
    /\ asked' = repo[d]
    /\ UNCHANGED <<last_vcs, cur, job, results, repo>>

\* `p11k reload` starts a new worker; the sender of the old one is dropped, its
\* queue is not.
Respawn ==
    /\ cur < MaxWorkers
    /\ cur' = cur + 1
    /\ UNCHANGED <<git_gen, cwd, last_vcs, queue, job, results, repo, asked>>

\* Whether the loop uses a result.
Accept(r) == r.generation = git_gen

\* One turn of the loop that empties the result channel.
ReceiveResult ==
    /\ results # <<>>
    /\ results' = Tail(results)
    /\ last_vcs' = IF Accept(Head(results))
                      THEN [cwd |-> cwd, status |-> Head(results).status]
                      ELSE last_vcs
    /\ UNCHANGED <<git_gen, cwd, cur, queue, job, repo, asked>>

----------------------------------------------------------------------------
(* The workers' side. *)

\* What git_status sees in directory d at this moment.
Compute(d) == [of |-> d, ver |-> repo[d]]

\* recv, then try_recv until the queue is empty: only the newest request is kept.
Take(w) ==
    /\ job[w] = None
    /\ queue[w] # <<>>
    /\ job' = [job EXCEPT ![w] = queue[w][Len(queue[w])]]
    /\ queue' = [queue EXCEPT ![w] = <<>>]
    /\ UNCHANGED <<git_gen, cwd, last_vcs, cur, results, repo, asked>>

\* The status is computed and sent.
Finish(w) ==
    /\ job[w] # None
    /\ results' = Append(results, [generation |-> job[w].generation,
                                   status |-> Compute(job[w].cwd)])
    /\ job' = [job EXCEPT ![w] = None]
    /\ UNCHANGED <<git_gen, cwd, last_vcs, cur, queue, repo, asked>>

\* Environment: the repository of d changes.
Change(d) ==
    /\ repo[d] < MaxVer
    /\ repo' = [repo EXCEPT ![d] = @ + 1]
    /\ UNCHANGED <<git_gen, cwd, last_vcs, cur, queue, job, results, asked>>

Next ==
    \/ \E d \in Cwds : SendRequest(d) \/ Change(d)
    \/ \E w \in Workers : Take(w) \/ Finish(w)
    \/ Respawn
    \/ ReceiveResult

\* A worker thread that has work runs, and the loop empties the result channel
\* (each result comes with a wake byte, see module Engine).
Fairness ==
    /\ \A w \in Workers : WF_gitVars(Take(w)) /\ WF_gitVars(Finish(w))
    /\ WF_gitVars(ReceiveResult)

Spec == Init /\ [][Next]_gitVars /\ Fairness

----------------------------------------------------------------------------
(* Properties. *)

\* No prompt ever files a status under a directory it was not computed for,
\* although a result names no directory and workers of several reloads answer in
\* any order.
VcsOfItsDirectory ==
    last_vcs # None => last_vcs.status.of = last_vcs.cwd

\* A status the loop starts to use was computed after the prompt that uses it
\* asked: an answer delayed from an earlier prompt never comes in.
NeverOlderThanPrompt ==
    [][last_vcs' # last_vcs =>
          /\ last_vcs'.cwd = cwd
          /\ last_vcs'.status.ver >= asked]_gitVars

----------------------------------------------------------------------------
(* The inductive invariant behind the properties. *)

\* Where a message of the newest generation can be: in a queue, with a worker, or
\* among the results.
QueuedAt(w, i) == i \in DOMAIN queue[w] /\ queue[w][i].generation = git_gen
WorkedOnBy(w) == job[w] # None /\ job[w].generation = git_gen
AnsweredAt(i) == i \in DOMAIN results /\ results[i].generation = git_gen

\* No message carries a number that was not given out.
Numbered ==
    /\ \A w \in Workers : \A i \in DOMAIN queue[w] : queue[w][i].generation \in 1..git_gen
    /\ \A w \in Workers : job[w] # None => job[w].generation \in 1..git_gen
    /\ \A i \in DOMAIN results : results[i].generation \in 1..git_gen

\* A message of the newest generation speaks of the current directory; in a queue
\* it is the last one, so Take never throws it away.
Current ==
    /\ \A w \in Workers : \A i \in DOMAIN queue[w] :
          QueuedAt(w, i) => queue[w][i].cwd = cwd /\ i = Len(queue[w])
    /\ \A w \in Workers : WorkedOnBy(w) => job[w].cwd = cwd
    /\ \A i \in DOMAIN results : AnsweredAt(i) =>
          results[i].status.of = cwd /\ results[i].status.ver \in asked..repo[cwd]

\* The newest question is at one place at most.
Single ==
    /\ \A v, w \in Workers : \A i \in DOMAIN queue[v], j \in DOMAIN queue[w] :
          QueuedAt(v, i) /\ QueuedAt(w, j) => v = w
    /\ \A v, w \in Workers : WorkedOnBy(v) /\ WorkedOnBy(w) => v = w
    /\ \A i, j \in DOMAIN results : AnsweredAt(i) /\ AnsweredAt(j) => i = j
    /\ \A v, w \in Workers : \A i \in DOMAIN queue[v] : ~(QueuedAt(v, i) /\ WorkedOnBy(w))
    /\ \A w \in Workers : \A i \in DOMAIN queue[w], j \in DOMAIN results :
          ~(QueuedAt(w, i) /\ AnsweredAt(j))
    /\ \A w \in Workers : \A j \in DOMAIN results : ~(WorkedOnBy(w) /\ AnsweredAt(j))

\* A prompt has been announced exactly when a number has been given out, and its
\* repository has not gone back in time since.
Asked ==
    /\ cwd = None <=> git_gen = 0
    /\ cwd # None => asked <= repo[cwd]

GitInv ==
    /\ TypeOK
    /\ Numbered
    /\ Asked
    /\ Current
    /\ Single
    /\ VcsOfItsDirectory

----------------------------------------------------------------------------
(* The abstract specification. *)

\* A message of the newest generation is still on its way.
Outstanding ==
    \/ \E w \in Workers : (\E i \in DOMAIN queue[w] : QueuedAt(w, i)) \/ WorkedOnBy(w)
    \/ \E i \in DOMAIN results : AnsweredAt(i)

\* What that comes to for the prompt: a question that is no longer on its way has its
\* answer in use, so no reload, thread or queue loses one.
AnswerIsInUse ==
    cwd # None /\ ~Outstanding =>
        last_vcs # None /\ last_vcs.cwd = cwd /\ last_vcs.status.ver \in asked..repo[cwd]

\* Workers, channels, generations and reloads together behave like a single
\* question that is answered once, never lost and never answered late.
Abstract == INSTANCE StatusQuery WITH pending <- Outstanding
AnswersTheQuestion == Abstract!Spec
=============================================================================
