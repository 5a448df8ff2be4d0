-------------------------- MODULE GitWorkerProofs --------------------------
(***************************************************************************)
(* Theorems about GitWorker, for any directories, any number of prompts,   *)
(* repository changes and reloads.                                         *)
(***************************************************************************)
EXTENDS GitWorker, TLAPS

\* What a worker takes is an element of its queue.
LEMMA LastOfQueue ==
    ASSUME NEW S, NEW s \in Seq(S), s # <<>>
    PROVE  /\ Len(s) \in DOMAIN s
           /\ s[Len(s)] \in S
  OBVIOUS

\* Appending leaves the old elements where they are and adds one behind them.
LEMMA AppendedQueue ==
    ASSUME NEW S, NEW s \in Seq(S), NEW e \in S
    PROVE  /\ Append(s, e) \in Seq(S)
           /\ Len(Append(s, e)) = Len(s) + 1
           /\ DOMAIN Append(s, e) = DOMAIN s \cup {Len(s) + 1}
           /\ \A i \in DOMAIN s : Append(s, e)[i] = s[i]
           /\ Append(s, e)[Len(s) + 1] = e
           /\ Len(s) + 1 \notin DOMAIN s
  OBVIOUS

\* Receiving shifts the remaining results down by one.
LEMMA ReceivedQueue ==
    ASSUME NEW S, NEW s \in Seq(S), s # <<>>
    PROVE  /\ Head(s) = s[1] /\ Head(s) \in S /\ 1 \in DOMAIN s
           /\ Tail(s) \in Seq(S)
           /\ \A i \in DOMAIN Tail(s) : i + 1 \in DOMAIN s /\ Tail(s)[i] = s[i + 1]
           /\ \A i \in DOMAIN s : i # 1 => i - 1 \in DOMAIN Tail(s)
  OBVIOUS

\* Before the first prompt no message is on its way (engine.rs, run).
LEMMA GitInit == Init => GitInv
  BY GitAssumption
  DEF Init, GitInv, TypeOK, Workers, Numbered, Asked, Current, Single,
      VcsOfItsDirectory, QueuedAt, WorkedOnBy, AnsweredAt

\* A new request makes every message in flight one of an older generation.
LEMMA SendRequestKeepsInv ==
    ASSUME GitInv, NEW d \in Cwds, SendRequest(d)
    PROVE  GitInv'
  <1> DEFINE r == [generation |-> git_gen + 1, cwd |-> d]
  <1> USE GitAssumption DEF GitInv, TypeOK
  <1>1. r \in GitRequest
    BY DEF GitRequest
  <1>2. queue[cur] \in Seq(GitRequest)
    OBVIOUS
  <1>3. /\ queue'[cur] = Append(queue[cur], r)
        /\ \A w \in Workers : w # cur => queue'[w] = queue[w]
    BY DEF SendRequest
  <1>4. queue' \in [Workers -> Seq(GitRequest)]
    BY <1>1 DEF SendRequest
  <1>5. \A i \in DOMAIN queue'[cur] :
            \/ i \in DOMAIN queue[cur] /\ queue'[cur][i] = queue[cur][i]
            \/ i = Len(queue'[cur]) /\ queue'[cur][i] = r
    BY <1>1, <1>2, <1>3, AppendedQueue
  <1>6. TypeOK'
    BY <1>4 DEF SendRequest
  <1>7. Numbered'
    <2>1. \A w \in Workers : \A i \in DOMAIN queue'[w] :
              queue'[w][i].generation \in 1..(git_gen + 1)
      <3>1. r.generation \in 1..(git_gen + 1)
        OBVIOUS
      <3>2. \A w \in Workers : \A i \in DOMAIN queue[w] :
                queue[w][i].generation \in 1..(git_gen + 1)
        BY DEF Numbered
      <3>3. ASSUME NEW i \in DOMAIN queue'[cur]
            PROVE  queue'[cur][i].generation \in 1..(git_gen + 1)
        BY <1>5, <3>1, <3>2, <3>3
      <3>4. ASSUME NEW w \in Workers, w # cur, NEW i \in DOMAIN queue'[w]
            PROVE  queue'[w][i].generation \in 1..(git_gen + 1)
        BY <1>3, <3>2, <3>4
      <3> QED
        BY <3>3, <3>4
    <2> QED
      BY <2>1 DEF Numbered, SendRequest
  <1>8. Asked'
    BY DEF SendRequest, Asked
  <1>9. /\ \A w \in Workers : \A i \in DOMAIN queue'[w] :
              QueuedAt(w, i)' => w = cur /\ i = Len(queue'[w]) /\ queue'[w][i] = r
        /\ \A w \in Workers : ~WorkedOnBy(w)'
        /\ \A i \in DOMAIN results' : ~AnsweredAt(i)'
    BY <1>3, <1>5 DEF SendRequest, Numbered, QueuedAt, WorkedOnBy, AnsweredAt
  <1>10. Current'
    BY <1>9 DEF Current, SendRequest
  <1>11. Single'
    BY <1>9 DEF Single
  <1>12. VcsOfItsDirectory'
    BY DEF VcsOfItsDirectory, SendRequest
  <1> QED
    BY <1>6, <1>7, <1>8, <1>10, <1>11, <1>12

\* The newest request is the last of its queue, so the worker that empties the
\* queue keeps exactly that one.
LEMMA TakeKeepsInv ==
    ASSUME GitInv, NEW w \in Workers, Take(w)
    PROVE  GitInv'
  <1> DEFINE m == queue[w][Len(queue[w])]
  <1> USE DEF GitInv
  <1>1. /\ Len(queue[w]) \in DOMAIN queue[w]
        /\ m \in GitRequest
        /\ m.generation \in 1..git_gen
    BY LastOfQueue DEF TypeOK, Take, Numbered
  <1>2. /\ queue'[w] = <<>> /\ DOMAIN queue'[w] = {}
        /\ \A v \in Workers : v # w => queue'[v] = queue[v]
        /\ job[w] = None /\ job'[w] = m
        /\ \A v \in Workers : v # w => job'[v] = job[v]
        /\ UNCHANGED <<git_gen, cwd, last_vcs, cur, results, repo, asked>>
    BY DEF Take, TypeOK
  <1>3. TypeOK'
    BY <1>1 DEF Take, TypeOK
  <1>4. Numbered'
    BY <1>1, <1>2 DEF Numbered
  <1>5. Asked'
    BY <1>2 DEF Asked
  <1>6. WorkedOnBy(w)' => QueuedAt(w, Len(queue[w]))
    BY <1>1, <1>2 DEF WorkedOnBy, QueuedAt
  <1>7. /\ \A v \in Workers : \A i \in DOMAIN queue'[v] :
              v # w /\ i \in DOMAIN queue[v] /\ (QueuedAt(v, i)' <=> QueuedAt(v, i))
        /\ \A v \in Workers : v # w => (WorkedOnBy(v)' <=> WorkedOnBy(v))
        /\ \A i \in DOMAIN results' : i \in DOMAIN results /\ (AnsweredAt(i)' <=> AnsweredAt(i))
    BY <1>2 DEF QueuedAt, WorkedOnBy, AnsweredAt
  <1>8. Current'
    BY <1>1, <1>2, <1>6, <1>7 DEF Current
  <1>9. Single'
    BY <1>1, <1>6, <1>7 DEF Single
  <1>10. VcsOfItsDirectory'
    BY <1>2 DEF VcsOfItsDirectory
  <1> QED
    BY <1>3, <1>4, <1>5, <1>8, <1>9, <1>10

\* The answer carries the number of its request and the status of its directory.
LEMMA FinishKeepsInv ==
    ASSUME GitInv, NEW w \in Workers, Finish(w)
    PROVE  GitInv'
  <1> DEFINE r == [generation |-> job[w].generation, status |-> Compute(job[w].cwd)]
  <1> USE DEF GitInv
  <1>1. /\ job[w] \in GitRequest
        /\ job[w].generation \in 1..git_gen
        /\ results \in Seq(GitResult)
    BY DEF TypeOK, Finish, Numbered
  <1>2. r \in GitResult
    BY <1>1 DEF GitRequest, GitResult, Status, Compute, TypeOK
  <1>3. /\ results' = Append(results, r)
        /\ job'[w] = None
        /\ \A v \in Workers : v # w => job'[v] = job[v]
        /\ UNCHANGED <<git_gen, cwd, last_vcs, cur, queue, repo, asked>>
    BY DEF Finish, TypeOK
  <1>4. TypeOK'
    BY <1>2 DEF Finish, TypeOK
  <1>5. \A i \in DOMAIN results' :
            \/ i \in DOMAIN results /\ results'[i] = results[i]
            \/ i = Len(results) + 1 /\ i \notin DOMAIN results /\ results'[i] = r
    BY <1>1, <1>2, <1>3, AppendedQueue
  <1>6. Numbered'
    <2>1. \A i \in DOMAIN results' : results'[i].generation \in 1..git_gen
      BY <1>1, <1>5 DEF Numbered
    <2> QED
      BY <1>3, <2>1 DEF Numbered
  <1>7. Asked'
    BY <1>3 DEF Asked
  <1>8. \A i \in DOMAIN results' : AnsweredAt(i)' =>
            \/ i \in DOMAIN results /\ results'[i] = results[i] /\ AnsweredAt(i)
            \/ /\ i = Len(results) + 1 /\ results'[i] = r /\ WorkedOnBy(w)
    BY <1>3, <1>5 DEF AnsweredAt, WorkedOnBy, Finish
  <1>9. /\ \A v \in Workers : \A i \in DOMAIN queue'[v] :
              i \in DOMAIN queue[v] /\ (QueuedAt(v, i)' <=> QueuedAt(v, i))
        /\ \A v \in Workers : WorkedOnBy(v)' => v # w /\ WorkedOnBy(v)
    BY <1>3 DEF QueuedAt, WorkedOnBy
  <1>10. WorkedOnBy(w) => r.status.of = cwd /\ r.status.ver \in asked..repo[cwd]
    BY <1>1 DEF Current, Compute, Asked, TypeOK, GitRequest
  <1>11. Current'
    BY <1>3, <1>8, <1>9, <1>10 DEF Current
  <1>12. Single'
    BY <1>8, <1>9 DEF Single
  <1>13. VcsOfItsDirectory'
    BY <1>3 DEF VcsOfItsDirectory
  <1> QED
    BY <1>4, <1>6, <1>7, <1>11, <1>12, <1>13

\* A result that is used is one of the current directory.
LEMMA ReceiveResultKeepsInv ==
    ASSUME GitInv, ReceiveResult
    PROVE  GitInv'
  <1> DEFINE r == Head(results)
  <1> USE DEF GitInv
  <1>1. /\ r = results[1] /\ r \in GitResult /\ 1 \in DOMAIN results
        /\ Tail(results) \in Seq(GitResult)
        /\ \A i \in DOMAIN results' : i + 1 \in DOMAIN results /\ results'[i] = results[i + 1]
    BY ReceivedQueue DEF TypeOK, ReceiveResult
  <1>2. UNCHANGED <<git_gen, cwd, cur, queue, job, repo, asked>>
    BY DEF ReceiveResult
  <1>3. Accept(r) => cwd \in Cwds /\ r.status.of = cwd
    BY <1>1 DEF Accept, AnsweredAt, Current, Numbered, Asked, TypeOK
  <1>4. TypeOK'
    BY <1>1, <1>3 DEF ReceiveResult, TypeOK, GitResult
  <1>5. Numbered'
    BY <1>1, <1>2 DEF Numbered
  <1>6. Asked'
    BY <1>2 DEF Asked
  <1>7. /\ \A w \in Workers : \A i \in DOMAIN queue'[w] :
              i \in DOMAIN queue[w] /\ (QueuedAt(w, i)' <=> QueuedAt(w, i))
        /\ \A w \in Workers : WorkedOnBy(w)' <=> WorkedOnBy(w)
        /\ \A i \in DOMAIN results' : AnsweredAt(i)' => AnsweredAt(i + 1)
    BY <1>1, <1>2 DEF QueuedAt, WorkedOnBy, AnsweredAt
  <1>8. Current'
    BY <1>1, <1>2, <1>7 DEF Current
  <1>9. Single'
    <2>1. \A i, j \in DOMAIN results' : i \in Nat /\ j \in Nat
      BY <1>1 DEF ReceiveResult
    <2> QED
      BY <1>1, <1>7, <2>1 DEF Single
  <1>10. VcsOfItsDirectory'
    BY <1>3 DEF VcsOfItsDirectory, ReceiveResult
  <1> QED
    BY <1>4, <1>5, <1>6, <1>8, <1>9, <1>10

\* Reloads and changes of a repository move no message.
LEMMA OthersKeepInv ==
    ASSUME GitInv, Respawn \/ (\E d \in Cwds : Change(d)) \/ UNCHANGED gitVars
    PROVE  GitInv'
  <1> USE DEF GitInv
  <1>1. CASE Respawn
    <2>1. UNCHANGED <<git_gen, cwd, last_vcs, queue, job, results, repo, asked>>
      BY <1>1 DEF Respawn
    <2>2. cur' \in Workers
      BY <1>1, GitAssumption DEF Respawn, TypeOK, Workers
    <2>3. TypeOK'
      BY <2>1, <2>2 DEF TypeOK
    <2>4. Numbered' /\ Asked' /\ VcsOfItsDirectory'
      BY <2>1 DEF Numbered, Asked, VcsOfItsDirectory
    <2>5. Current' /\ Single'
      BY <2>1 DEF Current, Single, QueuedAt, WorkedOnBy, AnsweredAt
    <2> QED
      BY <2>3, <2>4, <2>5
  <1>2. ASSUME NEW d \in Cwds, Change(d)
        PROVE  GitInv'
    <2>1. /\ repo' \in [Cwds -> Nat]
          /\ \A e \in Cwds : repo[e] <= repo'[e]
          /\ UNCHANGED <<git_gen, cwd, last_vcs, cur, queue, job, results, asked>>
      BY <1>2 DEF Change, TypeOK
    <2>2. TypeOK' /\ Numbered' /\ Single' /\ VcsOfItsDirectory'
      BY <2>1 DEF TypeOK, Numbered, Single, VcsOfItsDirectory,
                  QueuedAt, WorkedOnBy, AnsweredAt
    <2>3. cwd # None => asked <= repo'[cwd]
      BY <2>1 DEF Asked, TypeOK
    <2>4. Asked'
      BY <2>1, <2>3 DEF Asked
    <2>5. ASSUME NEW i \in DOMAIN results, AnsweredAt(i)
          PROVE  results[i].status.ver \in asked..repo'[cwd]
      BY <2>1, <2>5 DEF Current, TypeOK, Asked, Numbered, AnsweredAt
    <2>6. Current'
      BY <2>1, <2>5 DEF Current, QueuedAt, WorkedOnBy, AnsweredAt
    <2> QED
      BY <2>2, <2>4, <2>6
  <1>3. CASE UNCHANGED gitVars
    BY <1>3 DEF gitVars, TypeOK, Numbered, Asked, Current, Single,
                VcsOfItsDirectory, QueuedAt, WorkedOnBy, AnsweredAt
  <1> QED
    BY <1>1, <1>2, <1>3

\* No step of the loop, the workers or the repositories breaks the invariant.
LEMMA GitNext == GitInv /\ [Next]_gitVars => GitInv'
  BY SendRequestKeepsInv, TakeKeepsInv, FinishKeepsInv, ReceiveResultKeepsInv, OthersKeepInv
  DEF Next

\* The inductive invariant: every channel holds what its type says, numbers are
\* those given out, and the newest question is in one place at most, with the
\* directory it asks about.
THEOREM GitInvariant == Spec => []GitInv
  BY GitInit, GitNext, PTL DEF Spec

\* No prompt ever files a status under a directory it was not computed for.
THEOREM VcsIsOfItsDirectory == Spec => []VcsOfItsDirectory
  BY GitInvariant, PTL DEF GitInv

\* A status the loop starts to use was computed after the current prompt asked.
THEOREM AcceptsNothingOld == Spec => NeverOlderThanPrompt
  <1>1. GitInv /\ [Next]_gitVars =>
            [last_vcs' # last_vcs =>
                /\ last_vcs'.cwd = cwd
                /\ last_vcs'.status.ver >= asked]_gitVars
    <2> SUFFICES ASSUME GitInv, Next, last_vcs' # last_vcs
                 PROVE  last_vcs'.cwd = cwd /\ last_vcs'.status.ver >= asked
      OBVIOUS
    <2>1. ReceiveResult /\ Accept(Head(results))
      BY DEF Next, SendRequest, Change, Take, Finish, Respawn, ReceiveResult
    <2>2. Head(results) = results[1] /\ 1 \in DOMAIN results /\ AnsweredAt(1)
      BY <2>1, ReceivedQueue DEF GitInv, TypeOK, ReceiveResult, Accept, AnsweredAt
    <2>3. results[1].status.ver \in asked..repo[cwd]
      BY <2>2 DEF GitInv, Current
    <2>4. last_vcs' = [cwd |-> cwd, status |-> results[1].status]
      BY <2>1, <2>2 DEF ReceiveResult
    <2> QED
      BY <2>3, <2>4 DEF GitInv, TypeOK
  <1> QED
    BY <1>1, GitInvariant, PTL DEF Spec, NeverOlderThanPrompt

----------------------------------------------------------------------------
(* The worker threads implement the abstract question and answer.          *)

\* The refinement maps pending to a truth value.
LEMMA OutstandingIsBoolean == Outstanding \in BOOLEAN
  BY DEF Outstanding

\* Handling `h` is asking the question.
LEMMA SendRequestAsks ==
    ASSUME GitInv, NEW d \in Cwds, SendRequest(d)
    PROVE  Abstract!Ask(d)
  <1> DEFINE r == [generation |-> git_gen + 1, cwd |-> d]
  <1> USE DEF GitInv, TypeOK
  <1>1. queue[cur] \in Seq(GitRequest)
    OBVIOUS
  <1>2. r \in GitRequest
    BY DEF GitRequest
  <1>3. queue'[cur] = Append(queue[cur], r) /\ git_gen' = git_gen + 1 /\ cur' = cur
    BY DEF SendRequest
  <1>4. /\ Len(queue[cur]) + 1 \in DOMAIN queue'[cur]
        /\ queue'[cur][Len(queue[cur]) + 1] = r
    BY <1>1, <1>2, <1>3, AppendedQueue
  <1>5. \E i \in DOMAIN queue'[cur] : QueuedAt(cur, i)'
    <2>1. \A i \in DOMAIN queue'[cur] : i = Len(queue[cur]) + 1 => QueuedAt(cur, i)'
      BY <1>3, <1>4 DEF QueuedAt
    <2> QED
      BY <1>4, <2>1
  <1>6. Outstanding'
    BY <1>5 DEF Outstanding, SendRequest
  <1> QED
    BY <1>6, OutstandingIsBoolean DEF Abstract!Ask, SendRequest

\* Taking a request and finishing it carry the question on: it is neither lost
\* nor created.
LEMMA WorkersCarryTheQuestion ==
    ASSUME GitInv, NEW w \in Workers, Take(w) \/ Finish(w)
    PROVE  UNCHANGED Abstract!vars
  <1> USE DEF GitInv
  <1>1. CASE Take(w)
    <2> DEFINE n == Len(queue[w])
    <2>1. /\ n \in DOMAIN queue[w] /\ queue[w][n] \in GitRequest
          /\ queue'[w] = <<>>
          /\ \A v \in Workers : v # w => queue'[v] = queue[v]
          /\ job[w] = None /\ job'[w] = queue[w][n]
          /\ \A v \in Workers : v # w => job'[v] = job[v]
          /\ UNCHANGED <<git_gen, cwd, last_vcs, cur, results, repo, asked>>
      BY <1>1, LastOfQueue DEF Take, TypeOK
    <2>2. queue[w][n] # None
      BY <2>1, GitAssumption
    <2>3. WorkedOnBy(w)' <=> QueuedAt(w, n)
      BY <2>1, <2>2 DEF WorkedOnBy, QueuedAt
    <2>4. ~WorkedOnBy(w) /\ (\A i \in DOMAIN queue'[w] : ~QueuedAt(w, i)')
      BY <2>1 DEF WorkedOnBy
    <2>5. \A i \in DOMAIN queue[w] : QueuedAt(w, i) => i = n
      BY DEF Current
    <2>6. \A v \in Workers : v # w =>
              /\ WorkedOnBy(v)' <=> WorkedOnBy(v)
              /\ \A i \in DOMAIN queue[v] : QueuedAt(v, i)' <=> QueuedAt(v, i)
              /\ DOMAIN queue'[v] = DOMAIN queue[v]
      BY <2>1 DEF WorkedOnBy, QueuedAt
    <2>7. \A i \in DOMAIN results : AnsweredAt(i)' <=> AnsweredAt(i)
      BY <2>1 DEF AnsweredAt
    <2>8. Outstanding' <=> Outstanding
      BY <2>1, <2>3, <2>4, <2>5, <2>6, <2>7 DEF Outstanding
    <2> QED
      BY <2>1, <2>8, OutstandingIsBoolean DEF Abstract!vars
  <1>2. CASE Finish(w)
    <2> DEFINE r == [generation |-> job[w].generation, status |-> Compute(job[w].cwd)]
               n == Len(results) + 1
    <2>1. job[w] \in GitRequest /\ results \in Seq(GitResult) /\ r \in GitResult
      BY <1>2 DEF Finish, TypeOK, GitRequest, GitResult, Status, Compute
    <2>2. /\ results' = Append(results, r)
          /\ job'[w] = None
          /\ \A v \in Workers : v # w => job'[v] = job[v]
          /\ UNCHANGED <<git_gen, cwd, last_vcs, cur, queue, repo, asked>>
      BY <1>2 DEF Finish, TypeOK
    <2>3. /\ DOMAIN results' = DOMAIN results \cup {n}
          /\ results'[n] = r
          /\ \A i \in DOMAIN results : results'[i] = results[i]
      BY <2>1, <2>2, AppendedQueue
    <2>4. \A i \in DOMAIN results' : i = n => (AnsweredAt(i)' <=> WorkedOnBy(w))
      <3>1. n \in DOMAIN results' /\ results'[n].generation = job[w].generation
        BY <2>3
      <3>2. job[w] # None /\ git_gen' = git_gen
        BY <1>2, <2>2 DEF Finish
      <3> QED
        BY <3>1, <3>2 DEF AnsweredAt, WorkedOnBy
    <2>5. \A i \in DOMAIN results : AnsweredAt(i)' <=> AnsweredAt(i)
      BY <2>2, <2>3 DEF AnsweredAt
    <2>6. /\ ~WorkedOnBy(w)'
          /\ \A v \in Workers : v # w => (WorkedOnBy(v)' <=> WorkedOnBy(v))
          /\ \A v \in Workers : \A i \in DOMAIN queue[v] : QueuedAt(v, i)' <=> QueuedAt(v, i)
      BY <2>2 DEF WorkedOnBy, QueuedAt
    <2>7. (\E i \in DOMAIN results' : AnsweredAt(i)')
              <=> WorkedOnBy(w) \/ (\E i \in DOMAIN results : AnsweredAt(i))
      BY <2>3, <2>4, <2>5
    <2>8. Outstanding' <=> Outstanding
      BY <2>2, <2>6, <2>7 DEF Outstanding
    <2> QED
      BY <2>2, <2>8, OutstandingIsBoolean DEF Abstract!vars
  <1> QED
    BY <1>1, <1>2

\* A result of the newest generation is the answer, any other changes nothing.
LEMMA ReceiveResultAnswers ==
    ASSUME GitInv, ReceiveResult
    PROVE  Abstract!Answer \/ UNCHANGED Abstract!vars
  <1> DEFINE r == Head(results)
  <1> USE DEF GitInv
  <1>1. /\ r = results[1] /\ r \in GitResult /\ 1 \in DOMAIN results
        /\ \A i \in DOMAIN results' : i + 1 \in DOMAIN results /\ results'[i] = results[i + 1]
        /\ \A i \in DOMAIN results : i # 1 => i - 1 \in DOMAIN results'
        /\ \A i \in DOMAIN results : i \in Nat
        /\ \A i \in DOMAIN results' : i \in Nat \ {0}
    BY ReceivedQueue DEF TypeOK, ReceiveResult
  <1>2. UNCHANGED <<git_gen, cwd, cur, queue, job, repo, asked>>
    BY DEF ReceiveResult
  <1>3. Accept(r) <=> AnsweredAt(1)
    BY <1>1 DEF Accept, AnsweredAt
  <1>4. /\ \A v \in Workers : WorkedOnBy(v)' <=> WorkedOnBy(v)
        /\ \A v \in Workers : \A i \in DOMAIN queue[v] : QueuedAt(v, i)' <=> QueuedAt(v, i)
        /\ \A i \in DOMAIN results' : AnsweredAt(i)' <=> AnsweredAt(i + 1)
    BY <1>1, <1>2 DEF WorkedOnBy, QueuedAt, AnsweredAt
  <1>5. CASE Accept(r)
    <2>1. ~Outstanding'
      <3>1. \A i \in DOMAIN results' : ~AnsweredAt(i)'
        BY <1>1, <1>3, <1>4, <1>5 DEF Single
      <3>2. /\ \A v \in Workers : ~WorkedOnBy(v)'
            /\ \A v \in Workers : \A i \in DOMAIN queue[v] : ~QueuedAt(v, i)'
        BY <1>1, <1>3, <1>4, <1>5 DEF Single
      <3> QED
        BY <1>2, <3>1, <3>2 DEF Outstanding
    <2>2. Outstanding
      BY <1>1, <1>3, <1>5 DEF Outstanding
    <2>3. /\ results[1].status.of = cwd
          /\ results[1].status.ver \in asked..repo[cwd]
      BY <1>1, <1>3, <1>5 DEF Current
    <2>4. results[1].status = [of |-> results[1].status.of, ver |-> results[1].status.ver]
      <3>1. results[1] \in GitResult
        BY <1>1
      <3>2. results[1].status \in Status
        BY <3>1 DEF GitResult
      <3> QED
        BY <3>2 DEF Status
    <2>5. last_vcs' = [cwd |-> cwd, status |-> results[1].status]
      BY <1>1, <1>5 DEF ReceiveResult
    <2>6. last_vcs' = [cwd |-> cwd, status |-> [of |-> cwd, ver |-> results[1].status.ver]]
      BY <2>3, <2>4, <2>5
    <2> QED
      BY <1>2, <2>1, <2>2, <2>3, <2>6, OutstandingIsBoolean DEF Abstract!Answer
  <1>6. CASE ~Accept(r)
    <2>1. last_vcs' = last_vcs
      BY <1>6 DEF ReceiveResult
    <2>2. (\E i \in DOMAIN results' : AnsweredAt(i)') <=> (\E i \in DOMAIN results : AnsweredAt(i))
      <3>1. ASSUME NEW i \in DOMAIN results, AnsweredAt(i)
            PROVE  \E j \in DOMAIN results' : AnsweredAt(j)'
        <4>1. i # 1 /\ i - 1 \in DOMAIN results' /\ (i - 1) + 1 = i
          BY <1>1, <1>3, <1>6, <3>1
        <4> QED
          BY <1>4, <3>1, <4>1
      <3> QED
        BY <1>1, <1>4, <3>1
    <2>3. Outstanding' <=> Outstanding
      BY <1>2, <1>4, <2>2 DEF Outstanding
    <2> QED
      BY <1>2, <2>1, <2>3, OutstandingIsBoolean DEF Abstract!vars
  <1> QED
    BY <1>5, <1>6

\* Reloads are invisible; a change of the repository is one of the abstract
\* specification too.
LEMMA OthersAreInvisible ==
    ASSUME GitInv, Respawn \/ (\E d \in Cwds : Change(d)) \/ UNCHANGED gitVars
    PROVE  (\E d \in Cwds : Abstract!Change(d)) \/ UNCHANGED Abstract!vars
  <1>1. UNCHANGED <<git_gen, queue, job, results>>
    BY DEF Respawn, Change, gitVars
  <1>2. Outstanding' <=> Outstanding
    BY <1>1 DEF Outstanding, QueuedAt, WorkedOnBy, AnsweredAt
  <1> QED
    BY <1>1, <1>2, OutstandingIsBoolean
    DEF Respawn, Change, gitVars, Abstract!Change, Abstract!vars

\* Nothing is asked at the start, and every step is one of the abstract specification or
\* leaves its state alone.
LEMMA StepsAreAbstract ==
    /\ Init => Abstract!Init
    /\ GitInv /\ [Next]_gitVars => [Abstract!Next]_(Abstract!vars)
  <1>1. Init => Abstract!Init
    <2> SUFFICES ASSUME Init PROVE Abstract!Init
      OBVIOUS
    <2>1. ~Outstanding
      BY DEF Init, Outstanding, QueuedAt, WorkedOnBy, AnsweredAt
    <2> QED
      BY <2>1, OutstandingIsBoolean DEF Init, Abstract!Init
  <1>2. GitInv /\ [Next]_gitVars => [Abstract!Next]_(Abstract!vars)
    BY SendRequestAsks, WorkersCarryTheQuestion, ReceiveResultAnswers, OthersAreInvisible
    DEF Next, Abstract!Next
  <1> QED  BY <1>1, <1>2

\* Worker threads, queues, generations and reloads implement the single question
\* that is answered at most once, with a fresh status of its own directory, and
\* never lost (the safety part; that the answer comes is checked by TLC).
THEOREM ImplementsStatusQuery ==
    Spec => Abstract!Init /\ [][Abstract!Next]_(Abstract!vars)
  BY StepsAreAbstract, GitInvariant, PTL DEF Spec

\* The answer to a question is kept until there is another question; a repository that
\* changes meanwhile only gets newer.
LEMMA AnswerIsKept ==
    ASSUME GitInv, AnswerIsInUse, [Next]_gitVars
    PROVE  AnswerIsInUse'
  <1>1. [Abstract!Next]_(Abstract!vars)
    BY StepsAreAbstract
  <1>2. cwd \in Cwds \cup {None} /\ repo \in [Cwds -> Nat] /\ asked \in Nat
    BY DEF GitInv, TypeOK
  <1>3. CASE \E d \in Cwds : Abstract!Ask(d)
    BY <1>3, OutstandingIsBoolean DEF Abstract!Ask, AnswerIsInUse
  <1>4. CASE Abstract!Answer
    <2> SUFFICES ASSUME cwd' # None
                 PROVE  /\ last_vcs' # None /\ last_vcs'.cwd = cwd'
                        /\ last_vcs'.status.ver \in asked'..repo'[cwd']
      BY DEF AnswerIsInUse
    <2>1. PICK v \in asked..repo[cwd] : last_vcs' = [cwd |-> cwd, status |-> [of |-> cwd, ver |-> v]]
      BY <1>4 DEF Abstract!Answer
    <2>2. cwd \in Cwds /\ UNCHANGED <<cwd, repo, asked>>
      BY <1>2, <1>4 DEF Abstract!Answer
    <2>3. last_vcs' \in [cwd : Cwds, status : Status]
      BY <1>2, <2>1, <2>2 DEF Status
    <2> QED  BY <2>1, <2>2, <2>3, GitAssumption
  <1>5. CASE \E d \in Cwds : Abstract!Change(d)
    <2>1. PICK d \in Cwds : Abstract!Change(d)
      BY <1>5
    <2>2. /\ UNCHANGED <<cwd, last_vcs, asked>> /\ (Outstanding' <=> Outstanding)
          /\ repo' = [repo EXCEPT ![d] = @ + 1]
      BY <2>1 DEF Abstract!Change
    <2>3. \A c \in Cwds : repo[c] \in Nat /\ repo'[c] \in Nat /\ repo[c] <= repo'[c]
      BY <1>2, <2>2
    <2> QED  BY <1>2, <2>2, <2>3 DEF AnswerIsInUse
  <1>6. CASE UNCHANGED Abstract!vars
    BY <1>6 DEF Abstract!vars, AnswerIsInUse
  <1> QED  BY <1>1, <1>3, <1>4, <1>5, <1>6 DEF Abstract!Next

\* No question is lost between queues, threads and reloads: one that is no longer on its
\* way has its answer in use.
THEOREM NoQuestionIsLost == Spec => []AnswerIsInUse
  <1>1. Init => AnswerIsInUse
    BY DEF Init, AnswerIsInUse
  <1> QED  BY <1>1, GitInvariant, AnswerIsKept, PTL DEF Spec
=============================================================================
