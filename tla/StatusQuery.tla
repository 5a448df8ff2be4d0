---------------------------- MODULE StatusQuery ----------------------------
(***************************************************************************)
(* What the asynchronous git status promises the prompt, with no threads,  *)
(* no channels and no generations: the prompt asks about the directory it  *)
(* stands in, and while the question stands it is answered once, with a    *)
(* status of that directory that is no older than the question.            *)
(***************************************************************************)
EXTENDS Naturals

CONSTANTS Cwds,     \* the directories a shell can stand in
          None,     \* Option::None
          MaxVer    \* bound: how often one repository may change

VARIABLES cwd,       \* the directory asked about last, None before the first prompt
          pending,   \* the last question has no answer yet
          last_vcs,  \* the answer in use: [cwd, status] or None
          repo,      \* repo[d]: how often the repository of d has changed
          asked      \* repo[cwd] at the moment of the last question

vars == <<cwd, pending, last_vcs, repo, asked>>

Init ==
    /\ cwd = None
    /\ pending = FALSE
    /\ last_vcs = None
    /\ repo = [d \in Cwds |-> 0]
    /\ asked = 0

\* A new prompt: the new question replaces one still pending.
Ask(d) ==
    /\ cwd' = d
    /\ pending' = TRUE
    /\ asked' = repo[d]
    /\ UNCHANGED <<last_vcs, repo>>

\* The answer: a status of the directory asked about, as it was at some
\* moment between the question and now.
Answer ==
    /\ pending
    /\ \E v \in asked..repo[cwd] :
          last_vcs' = [cwd |-> cwd, status |-> [of |-> cwd, ver |-> v]]
    /\ pending' = FALSE
    /\ UNCHANGED <<cwd, repo, asked>>

\* Somebody commits, stages or edits in the repository of d.
Change(d) ==
    /\ repo[d] < MaxVer
    /\ repo' = [repo EXCEPT ![d] = @ + 1]
    /\ UNCHANGED <<cwd, pending, last_vcs, asked>>

Next ==
    \/ \E d \in Cwds : Ask(d) \/ Change(d)
    \/ Answer

Spec == Init /\ [][Next]_vars /\ WF_vars(Answer)
=============================================================================
