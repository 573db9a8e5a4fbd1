------------------------------- MODULE FileTree -------------------------------
(***************************************************************************)
(* The project explorer: one listing per directory, read when the project  *)
(* changes, when the watcher reports a change, after every operation of    *)
(* its own and when a folder is opened for the first time.  The listings   *)
(* are merged by path.                                                     *)
(*                                                                         *)
(* A project has files and one folder, which has files.  Icons, the git    *)
(* colours and the number of errors of a row are not modelled.             *)
(***************************************************************************)
EXTENDS Naturals, FiniteSets

CONSTANTS
    Cwd,            \* working directories
    Name,           \* names of files
    Folder,         \* the name of the folder of a project
    None,           \* null: not loaded
    MaxCalls,       \* bound on the calls under way
    Patient         \* TRUE: the user and the watcher wait for the calls to end

FileTreeAssumption ==
    /\ Folder \notin Name /\ None \notin Cwd \cup Name \cup {Folder} /\ None \notin BOOLEAN
    /\ MaxCalls \in Nat \ {0}

VARIABLES
    disk,           \* per project, the names in it and the names in its folder
    cwd,            \* activeCwd
    files,          \* what is shown: the project listed, its rows, the folder's rows
    open,           \* whether the folder's row is open, and loading
    loading,
    calls,          \* the calls under way
    last,           \* the operation that ended last
    unheard         \* the disk changed and no event, or no fetch, has followed

treeVars == <<disk, cwd, files, open, loading, calls, last, unheard>>

Slot == 1..MaxCalls
NoCall == [kind |-> "none", cwd |-> None, in |-> None, name |-> None, ans |-> None]
Call(k, c, d, n) == [kind |-> k, cwd |-> c, in |-> d, name |-> n, ans |-> None]
Free == {i \in Slot : calls[i] = NoCall}
First(S) == CHOOSE i \in S : \A j \in S : i <= j
Quiet == Free = Slot
Waits == Patient => Quiet

Empty == [of |-> None, root |-> {}, kids |-> None]
Nothing == [kind |-> "none", ok |-> TRUE, due |-> TRUE]
Closed == [row |-> FALSE, load |-> FALSE]

Init ==
    /\ disk \in [Cwd -> [root : {{}, {Folder}}, inside : {{}}]]
    /\ cwd \in Cwd
    /\ files = Empty /\ open = Closed
    /\ loading = TRUE
    /\ calls = [i \in Slot |-> IF i = 1 THEN Call("fetch", cwd, "view", None) ELSE NoCall]
    /\ last = Nothing
    /\ unheard = FALSE

\* mergeTrees: a listing has no children of its own, so a folder keeps the
\* ones it has.
Merged(c, root) ==
    [of |-> c, root |-> root,
     kids |-> IF files.of = c /\ Folder \in files.root \cap root THEN files.kids ELSE None]

\* fetchFiles, started by the view ("view") or without the spinner ("silent").
Fetch(c, how) ==
    /\ Free # {}
    /\ calls' = [calls EXCEPT ![First(Free)] = Call("fetch", c, how, None)]
    /\ loading' = (loading \/ (how = "view" /\ files.root = {}))

Switch(c) ==
    /\ Waits /\ c # cwd
    /\ cwd' = c
    /\ Fetch(c, "view")
    /\ unheard' = FALSE
    /\ UNCHANGED <<disk, files, open, last>>

Reload ==
    /\ Waits
    /\ Fetch(cwd, "view")
    /\ UNCHANGED <<disk, cwd, files, open, last, unheard>>

(***************************************************************************)
(* The disk.  Somebody else adds or removes a file; the watcher reports    *)
(* what still exists, and nothing within 300 ms of its last report.        *)
(***************************************************************************)
With(d, in, n) == IF in = Folder THEN [d EXCEPT !.inside = @ \cup {n}] ELSE [d EXCEPT !.root = @ \cup {n}]
Without(d, in, n) ==
    IF in = Folder THEN [d EXCEPT !.inside = @ \ {n}]
    ELSE [root |-> d.root \ {n}, inside |-> IF n = Folder THEN {} ELSE d.inside]

Has(d, in, n) == IF in = Folder THEN n \in d.inside ELSE n \in d.root
Places(d) == {None} \cup (d.root \cap {Folder})

Outside ==
    /\ Waits
    /\ \E in \in Places(disk[cwd]), n \in Name :
         disk' = [disk EXCEPT ![cwd] = IF Has(@, in, n) THEN Without(@, in, n) ELSE With(@, in, n)]
    /\ unheard' = TRUE
    /\ UNCHANGED <<cwd, files, open, loading, calls, last>>

FileSystemChanged ==
    /\ Waits
    /\ unheard
    /\ Fetch(cwd, "silent")
    /\ UNCHANGED <<disk, cwd, files, open, last, unheard>>

(***************************************************************************)
(* Rows                                                                    *)
(***************************************************************************)
RowClick ==
    /\ Waits /\ ~loading
    /\ Folder \in files.root
    /\ IF ~open.row /\ files.kids \in {None, {}}
       THEN /\ Free # {} /\ ~open.load
            /\ calls' = [calls EXCEPT ![First(Free)] = Call("lazy", files.of, Folder, None)]
            /\ open' = [open EXCEPT !.load = TRUE]
       ELSE open' = [open EXCEPT !.row = ~@] /\ UNCHANGED calls
    /\ UNCHANGED <<disk, cwd, files, loading, last, unheard>>

\* The rows that are on the screen, as <<in, name>>.
Rows == {<<None, n>> : n \in files.root}
          \cup (IF open.row /\ files.kids # None THEN {<<Folder, n>> : n \in files.kids} ELSE {})

\* submitCreation: under the row of the menu, or in the project.
Create(in, n) ==
    /\ Waits /\ Free # {}
    /\ in = Folder => Folder \in files.root
    /\ calls' = [calls EXCEPT ![First(Free)] = Call("create", cwd, in, n)]
    /\ UNCHANGED <<disk, cwd, files, open, loading, last, unheard>>

Delete(r) ==
    /\ Waits /\ Free # {}
    /\ calls' = [calls EXCEPT ![First(Free)] = Call("delete", files.of, r[1], r[2])]
    /\ UNCHANGED <<disk, cwd, files, open, loading, last, unheard>>

\* triggerRename and handleRenameSubmit; handleCutFile or handleCopyFile
\* and handlePasteFile.  They pass old_path, new_path, source_path and
\* dest_path, and the commands, which have no rename_all, take oldPath,
\* newPath, sourcePath and destPath: tauri refuses the call.
Refused(k, r, in, n) ==
    /\ last' = [kind |-> k, ok |-> FALSE,
                due |-> Has(disk[files.of], r[1], r[2]) /\ ~Has(disk[files.of], in, n)]
    /\ UNCHANGED <<disk, cwd, files, open, loading, calls, unheard>>

Rename(r, n) == Waits /\ Refused("rename", r, r[1], n)
Paste(r, in) == Waits /\ (in = Folder => Folder \in files.root) /\ Refused("paste", r, in, r[2])

(***************************************************************************)
(* The calls                                                               *)
(***************************************************************************)
Perform(i) ==
    LET c == calls[i]
        d == disk[c.cwd]
        ok == IF c.kind = "create" THEN ~Has(d, c.in, c.name) ELSE Has(d, c.in, c.name)
        e == IF c.kind = "create" /\ c.in = Folder THEN With(With(d, None, Folder), c.in, c.name)
             ELSE IF c.kind = "create" THEN With(d, c.in, c.name) ELSE Without(d, c.in, c.name)
    IN
    /\ c.kind \in {"create", "delete"} /\ c.ans = None
    /\ disk' = [disk EXCEPT ![c.cwd] = IF ok THEN e ELSE d]
    /\ calls' = [calls EXCEPT ![i].ans = ok]
    /\ UNCHANGED <<cwd, files, open, loading, last, unheard>>

PerformedUnread(i) ==
    /\ calls[i].kind \in {"create", "delete"} /\ calls[i].ans # None
    /\ calls' = [calls EXCEPT ![i] = NoCall]
    /\ last' = Nothing
    /\ UNCHANGED <<disk, cwd, files, open, loading, unheard>>

\* An operation that succeeded fetches the project of the panel that began it.
Performed(i) ==
    /\ calls[i].kind \in {"create", "delete"} /\ calls[i].ans # None
    /\ calls' = [calls EXCEPT ![i] = IF calls[i].ans THEN Call("fetch", @.cwd, "silent", None) ELSE NoCall]
    /\ last' = Nothing
    /\ UNCHANGED <<disk, cwd, files, open, loading, unheard>>

Read(i) ==
    LET c == calls[i] IN
    /\ c.kind \in {"fetch", "lazy"} /\ c.ans = None
    /\ calls' = [calls EXCEPT ![i].ans =
                   IF c.kind = "fetch" THEN [ok |-> TRUE, rows |-> disk[c.cwd].root]
                   ELSE [ok |-> Folder \in disk[c.cwd].root, rows |-> disk[c.cwd].inside]]
    /\ unheard' = (unheard /\ ~(c.kind = "fetch" /\ c.cwd = cwd))
    /\ UNCHANGED <<disk, cwd, files, open, loading, last>>

\* handleNodeChildrenLoaded finds the folder by its path, if it is listed.
Answered(i) ==
    LET c == calls[i] IN
    /\ c.kind \in {"fetch", "lazy"} /\ c.ans # None
    /\ calls' = [calls EXCEPT ![i] = NoCall]
    /\ IF c.kind = "fetch"
       THEN /\ files' = Merged(c.cwd, c.ans.rows)
            /\ open' = IF Folder \in c.ans.rows THEN open ELSE Closed
            /\ loading' = (loading /\ c.in # "view")
       ELSE /\ files' = IF c.ans.ok /\ files.of = c.cwd /\ Folder \in files.root
                        THEN [files EXCEPT !.kids = c.ans.rows] ELSE files
            /\ open' = [row |-> Folder \in files.root, load |-> FALSE]
            /\ UNCHANGED loading
    /\ UNCHANGED <<disk, cwd, last, unheard>>

User ==
    \/ Reload \/ RowClick
    \/ \E c \in Cwd : Switch(c)
    \/ \E in \in {None, Folder}, n \in Name : Create(in, n)
    \/ \E r \in Rows : Delete(r)
    \/ \E r \in Rows, n \in Name : Rename(r, n)
    \/ \E r \in Rows, in \in {None, Folder} : Paste(r, in)

Next ==
    \/ User \/ Outside \/ FileSystemChanged
    \/ \E i \in Slot : Perform(i) \/ Performed(i) \/ Read(i) \/ Answered(i)

(***************************************************************************)
(* Properties                                                              *)
(***************************************************************************)
Settled == Quiet /\ ~unheard

\* Once every call has ended, the top level of the explorer is the active
\* project's as it is on disk: each operation is followed by a fetch that
\* reads after it.  It holds while each waits for the one before.
TopIsFresh == Settled => files.of = cwd /\ files.root = disk[cwd].root /\ ~loading

(***************************************************************************)
(* Why it holds while each waits for the one before: one call at most is   *)
(* under way, of the project shown, and it is a fetch that has still to    *)
(* read or holds what is on disk, or has changed nothing yet.              *)
(***************************************************************************)
IsCall(c) == c = [kind |-> c.kind, cwd |-> c.cwd, in |-> c.in, name |-> c.name, ans |-> c.ans]
OneCall ==
    /\ calls = [i \in Slot |-> calls[i]]
    /\ \A i \in Slot : IsCall(calls[i])
    /\ \A i, j \in Slot : calls[i] # NoCall /\ calls[j] # NoCall => i = j
TopShown == files.of = cwd /\ ~loading /\ (~unheard => files.root = disk[cwd].root)
IsFresh(c) ==
    \/ c.kind = "fetch" /\ (loading => c.in = "view")
         /\ (c.ans # None /\ ~unheard => c.ans.rows = disk[cwd].root)
    \/ c.kind = "lazy" /\ TopShown
    \/ c.kind \in {"create", "delete"} /\ files.of = cwd /\ ~loading
         /\ c.ans \in {None} \cup BOOLEAN /\ (c.ans # TRUE => TopShown)
CallsFresh == \A i \in Slot : calls[i] # NoCall => calls[i].cwd = cwd /\ IsFresh(calls[i])
TreeInv ==
    /\ disk = [c \in Cwd |-> disk[c]] /\ cwd \in Cwd
    /\ files = [of |-> files.of, root |-> files.root, kids |-> files.kids]
    /\ OneCall /\ CallsFresh /\ (Quiet => TopShown)

\* The folder, where it is open, shows what is in it.
FolderIsFresh ==
    Settled /\ open.row /\ Folder \in files.root /\ files.kids # None => files.kids = disk[cwd].inside

\* A rename or a paste of something that is there, to a name that is free,
\* does what it says.
OperationsWork == last.due => last.ok
==============================================================================
