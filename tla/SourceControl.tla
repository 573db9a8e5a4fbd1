---------------------------- MODULE SourceControl ----------------------------
(***************************************************************************)
(* The Git panel and the commands it calls.  Every operation is a call     *)
(* whose success starts a silent fetch of status and log; a fetch also     *)
(* follows each change of project.  Nothing cancels a call.                *)
(*                                                                         *)
(* Git itself is external: a file has a content in HEAD, in the index and  *)
(* in the work tree, 0 where it is absent.  The remote is not modelled,    *)
(* except that a pull may bring a commit.                                  *)
(***************************************************************************)
EXTENDS Naturals, FiniteSets

CONSTANTS
    Cwd,            \* working directories of projects
    Git,            \* those that are repositories
    File,           \* files, numbers in the order git lists them
    Content,        \* contents of a file, without 0
    None,           \* null, the empty message
    MaxCalls,       \* bound on the calls under way
    MaxCommits,     \* bound on the commits of a repository
    Patient         \* TRUE: the user waits for the calls to end

SourceControlAssumption ==
    /\ Git \subseteq Cwd
    /\ File \subseteq Nat /\ Content \subseteq Nat \ {0}
    /\ None \notin Cwd /\ None \notin Nat
    /\ None \notin {"done", "failed", "status read", "log read"}    \* stages of a call
    /\ MaxCalls \in Nat \ {0}

VARIABLES
    repo,           \* head, index and work tree, and the number of commits
    cwd,            \* the active project's directory
    status,         \* gitStatus
    commits,        \* how many commits the list shows
    message,        \* commitMessage
    loading, acting,  \* isLoading, isActionLoading
    calls,          \* the calls under way
    claim,          \* the commit the last toast reports, and what it did
    touched         \* changed behind the panel's back since it was read

scmVars == <<repo, cwd, status, commits, message, loading, acting, calls, claim, touched>>

Slot == 1..MaxCalls
NoCall == [kind |-> "none", cwd |-> None, file |-> 0, of |-> None, stage |-> None, ans |-> None]
Call(k, f, o) == [NoCall EXCEPT !.kind = k, !.cwd = cwd, !.file = f, !.of = o, !.stage = "asked"]
Free == {i \in Slot : calls[i] = NoCall}
Quiet == Free = Slot
Waits == Patient => Quiet

Init ==
    /\ repo \in {[g \in Git |-> [head |-> h, index |-> h, work |-> h, count |-> n]] :
                   h \in {[f \in File |-> CHOOSE c \in Content : TRUE], [f \in File |-> 0]},
                   n \in {0, 1}}
    /\ \A g \in Git : (repo[g].count = 0) = (\A f \in File : repo[g].head[f] = 0)
    /\ cwd \in Cwd
    /\ status = None /\ commits = 0
    /\ message = None
    /\ loading = TRUE /\ acting = FALSE
    /\ calls = [i \in Slot |-> IF i = 1 THEN Call("fetch", 0, "view") ELSE NoCall]
    /\ claim = None
    /\ touched = FALSE

(***************************************************************************)
(* git status.  run_git_cmd trims the output, which takes the leading      *)
(* space of the first line: its worktree letter becomes its index letter.  *)
(***************************************************************************)
Untracked(r, f) == r.head[f] = 0 /\ r.index[f] = 0 /\ r.work[f] # 0
X(r, f) == IF r.index[f] = r.head[f] THEN " " ELSE IF r.head[f] = 0 THEN "added"
           ELSE IF r.index[f] = 0 THEN "deleted" ELSE "modified"
Y(r, f) == IF r.work[f] = r.index[f] THEN " " ELSE IF r.index[f] = 0 THEN "untracked"
           ELSE IF r.work[f] = 0 THEN "deleted" ELSE "modified"

InIndex(r) == {[path |-> f, is |-> X(r, f)] : f \in {g \in File : X(r, g) # " "}}
InTree(r)  == {[path |-> f, is |-> Y(r, f)] : f \in {g \in File : Y(r, g) # " "}}
Shifted(r) ==   \* the file whose line git lists first, if it starts with a space
    LET tracked == {f \in File : ~Untracked(r, f) /\ (X(r, f) # " " \/ Y(r, f) # " ")}
    IN  {f \in tracked : X(r, f) = " " /\ \A g \in tracked : f <= g}

Status(r) ==
    [staged   |-> InIndex(r) \cup {e \in InTree(r) : e.path \in Shifted(r)},
     unstaged |-> {e \in InTree(r) : e.path \notin Shifted(r)}]

(***************************************************************************)
(* The operations, as git performs them; OK and the repository afterwards. *)
(***************************************************************************)
Works(c, r) ==
    CASE c.kind = "stage"   -> r.index[c.file] # 0 \/ r.work[c.file] # 0
      [] c.kind \in {"unstage", "unstageAll"} -> r.count > 0
      [] c.kind = "discard" -> c.of = "untracked" \/ r.index[c.file] # 0
      [] OTHER -> TRUE    \* a commit of nothing prints to stdout, which counts as success

After(c, r) ==
    CASE c.kind = "stage"      -> [r EXCEPT !.index[c.file] = r.work[c.file]]
      [] c.kind = "stageAll"   -> [r EXCEPT !.index = r.work]
      [] c.kind = "unstage"    -> [r EXCEPT !.index[c.file] = r.head[c.file]]
      [] c.kind = "unstageAll" -> [r EXCEPT !.index = r.head]
      [] c.kind = "discard"    -> [r EXCEPT !.work[c.file] = IF c.of = "untracked" THEN 0 ELSE r.index[c.file]]
      [] c.kind = "commit" /\ r.index # r.head -> [r EXCEPT !.head = r.index, !.count = @ + 1]
      [] OTHER -> r

(***************************************************************************)
(* The panel                                                               *)
(***************************************************************************)
\* handleAction: the call runs at once, the panel shows that it acts.
Act(c) ==
    /\ Free # {}
    /\ calls' = [calls EXCEPT ![CHOOSE i \in Free : TRUE] = c]
    /\ acting' = TRUE

Ready == ~loading /\ status # None /\ Waits

RowAction ==
    /\ Ready
    /\ \/ \E e \in status.unstaged : Act(Call("stage", e.path, None)) \/ Act(Call("discard", e.path, e.is))
       \/ \E e \in status.staged : Act(Call("unstage", e.path, None))
       \/ status.unstaged # {} /\ Act(Call("stageAll", 0, None))
       \/ status.staged # {} /\ Act(Call("unstageAll", 0, None))
    /\ UNCHANGED <<repo, cwd, status, commits, message, loading, claim, touched>>

PushOrPull ==
    /\ Ready /\ ~acting
    /\ \E k \in {"push", "pull"} : Act(Call(k, 0, None))
    /\ UNCHANGED <<repo, cwd, status, commits, message, loading, claim, touched>>

Compose(m) ==
    /\ Ready
    /\ message' = m
    /\ UNCHANGED <<repo, cwd, status, commits, loading, acting, calls, claim, touched>>

\* handleCommit: Ctrl+Enter works while an operation runs, the button does not.
Commit ==
    /\ Ready
    /\ message # None
    /\ cwd \in Git => repo[cwd].count < MaxCommits
    /\ Act(Call("commit", 0, message))
    /\ message' = None
    /\ UNCHANGED <<repo, cwd, status, commits, loading, claim, touched>>

Fetch(c) ==
    /\ Free # {}
    /\ loading' = TRUE
    /\ calls' = [calls EXCEPT ![CHOOSE i \in Free : TRUE] = [Call("fetch", 0, "view") EXCEPT !.cwd = c]]

\* The refresh button, or the reload button where there is no status.
Refresh ==
    /\ Waits /\ ~loading
    /\ status # None => ~acting
    /\ Fetch(cwd)
    /\ UNCHANGED <<repo, cwd, status, commits, message, acting, claim, touched>>

\* Another project: the effect on [cwd] fetches.
Switch(c) ==
    /\ Waits /\ c # cwd
    /\ cwd' = c
    /\ Fetch(c)
    /\ touched' = FALSE
    /\ UNCHANGED <<repo, status, commits, message, acting, claim>>

\* A file is changed elsewhere: an editor, a terminal, the agent.
Edit(f, t) ==
    /\ cwd \in Git
    /\ t # repo[cwd].work[f]
    /\ repo' = [repo EXCEPT ![cwd].work[f] = t]
    /\ touched' = TRUE
    /\ UNCHANGED <<cwd, status, commits, message, loading, acting, calls, claim>>

(***************************************************************************)
(* The calls                                                               *)
(***************************************************************************)
Brought(r, f, t) == [r EXCEPT !.head[f] = t, !.index[f] = t, !.work[f] = t, !.count = @ + 1]
Pulled(r) ==    \* a pull that brings a commit to a file nobody changed
    {Brought(r, f, t) : f \in {g \in File : r.head[g] = r.index[g] /\ r.index[g] = r.work[g]}, t \in Content}

\* How an operation can end; a commit may fail on a hook, push and pull
\* on the network.
Outcomes(c, r) ==
    LET fails == {[ok |-> FALSE, repo |-> r]}
        good  == {[ok |-> TRUE, repo |-> After(c, r)]}
    IN  CASE c.kind = "commit" -> good \cup fails
          [] c.kind = "push"   -> good \cup fails
          [] c.kind = "pull"   -> good \cup fails \cup
               {[ok |-> TRUE, repo |-> q] : q \in IF r.count < MaxCommits THEN Pulled(r) ELSE {}}
          [] OTHER -> IF Works(c, r) THEN good ELSE fails

Perform(i) ==
    LET c == calls[i] IN
    /\ c.kind \notin {"none", "fetch"} /\ c.stage = "asked"
    /\ IF c.cwd \notin Git
       THEN UNCHANGED repo /\ calls' = [calls EXCEPT ![i].stage = "failed", ![i].ans = 0]
       ELSE \E o \in Outcomes(c, repo[c.cwd]) :
         /\ repo' = [repo EXCEPT ![c.cwd] = o.repo]
         /\ calls' = [calls EXCEPT ![i].stage = IF o.ok THEN "done" ELSE "failed",
                                   ![i].ans = o.repo.count - repo[c.cwd].count]
    /\ UNCHANGED <<cwd, status, commits, message, loading, acting, claim, touched>>

\* The toast, and on success the silent fetch of the directory acted on.
Settle(i) ==
    LET c == calls[i] IN
    /\ c.stage \in {"done", "failed"}
    /\ IF c.stage = "done"
       THEN /\ calls' = [calls EXCEPT ![i] = [Call("fetch", 0, "action") EXCEPT !.cwd = c.cwd]]
            /\ UNCHANGED acting
       ELSE calls' = [calls EXCEPT ![i] = NoCall] /\ acting' = FALSE
    /\ claim' = IF c.kind # "commit" THEN None
                ELSE [message |-> c.of, ok |-> c.stage = "done", made |-> c.ans]
    /\ UNCHANGED <<repo, cwd, status, commits, message, loading, touched>>

\* The backend reads the status, later the log.
Read(i) ==
    LET c == calls[i] IN
    /\ c.kind = "fetch" /\ c.stage \in {"asked", "log"}
    /\ calls' = [calls EXCEPT ![i].stage = IF c.stage = "asked" THEN "status read" ELSE "log read",
                              ![i].ans = IF c.cwd \notin Git THEN None
                                         ELSE IF c.stage = "asked" THEN Status(repo[c.cwd])
                                         ELSE IF repo[c.cwd].count = 0 THEN None ELSE repo[c.cwd].count]
    /\ touched' = (touched /\ ~(c.stage = "asked" /\ c.cwd = cwd))
    /\ UNCHANGED <<repo, cwd, status, commits, message, loading, acting, claim>>

\* git log fails outside of a repository and where there is no commit yet.
Fetched(i) ==
    LET c  == calls[i]
        ok == c.ans # None
    IN
    /\ c.stage \in {"status read", "log read"}
    /\ IF c.stage = "status read" /\ ok
       THEN /\ status' = c.ans
            /\ calls' = [calls EXCEPT ![i].stage = "log", ![i].ans = None]
            /\ UNCHANGED <<commits, loading, acting>>
       ELSE /\ status' = IF ok THEN status ELSE None
            /\ commits' = IF ok THEN c.ans ELSE 0
            /\ calls' = [calls EXCEPT ![i] = NoCall]
            /\ loading' = (loading /\ c.of # "view")
            /\ acting' = (acting /\ c.of # "action")
    /\ UNCHANGED <<repo, cwd, message, claim, touched>>

User ==
    \/ RowAction \/ PushOrPull \/ Commit \/ Refresh
    \/ \E m \in {None, "text"} : Compose(m)
    \/ \E c \in Cwd : Switch(c)
    \/ \E f \in File, t \in Content \cup {0} : Edit(f, t)

Next == User \/ \E i \in Slot : Perform(i) \/ Settle(i) \/ Read(i) \/ Fetched(i)

(***************************************************************************)
(* Properties                                                              *)
(***************************************************************************)
Shown == IF cwd \in Git /\ repo[cwd].count > 0 THEN Status(repo[cwd]) ELSE None

\* Once every call has ended, the panel shows the active project as git
\* reports it, unless somebody else changed it: every operation is followed
\* by a fetch that reads after it, and the last fetch to answer is of the
\* project shown.  It holds of a user who waits.
SettledIsFresh == Quiet /\ ~touched => status = Shown

(***************************************************************************)
(* Why it holds of a user who waits: one call at most is under way, of the *)
(* project shown, and it has still to read the status, or holds it, or has *)
(* shown it, unless it is an operation that has changed nothing yet.       *)
(***************************************************************************)
IsRepo(r) ==
    /\ r = [head |-> r.head, index |-> r.index, work |-> r.work, count |-> r.count]
    /\ r.count \in Nat
ReposOK == repo = [g \in Git |-> repo[g]] /\ \A g \in Git : IsRepo(repo[g])
IsCall(c) == c = [kind |-> c.kind, cwd |-> c.cwd, file |-> c.file, of |-> c.of, stage |-> c.stage, ans |-> c.ans]
OneCall ==
    /\ calls = [i \in Slot |-> calls[i]]
    /\ \A i \in Slot : IsCall(calls[i])
    /\ \A i, j \in Slot : calls[i] # NoCall /\ calls[j] # NoCall => i = j

Reported == IF cwd \in Git THEN Status(repo[cwd]) ELSE None
IsFresh(c) ==
    IF c.kind = "fetch"
    THEN /\ c.stage \in {"asked", "status read", "log", "log read"}
         /\ c.stage = "status read" /\ (~touched \/ cwd \notin Git) => c.ans = Reported
         /\ c.stage \in {"log", "log read"} => cwd \in Git /\ (~touched => status = Reported)
         /\ c.stage = "log read" => c.ans = IF repo[cwd].count = 0 THEN None ELSE repo[cwd].count
    ELSE /\ c.stage \in {"asked", "failed", "done"}
         /\ c.stage # "done" /\ ~touched => status = Shown
CallsFresh == \A i \in Slot : calls[i] # NoCall => calls[i].kind # "none" /\ calls[i].cwd = cwd /\ IsFresh(calls[i])
ScmInv == ReposOK /\ OneCall /\ cwd \in Cwd /\ CallsFresh /\ SettledIsFresh

\* What the lists call staged is in the index, and what they call unstaged
\* is not: GitPanel.tsx:325 and :383 head the two lists.
ListsAreRight ==
    Quiet /\ ~touched /\ status # None =>
        status.staged = InIndex(repo[cwd]) /\ status.unstaged = InTree(repo[cwd])

\* "Commit thanh cong!" is shown only of a commit that was made.
ClaimedIsMade == claim # None => (claim.ok => claim.made = 1)

\* A repository is shown as one, with or without a commit.
GitIsShown == Quiet /\ cwd \in Git => status # None
==============================================================================
