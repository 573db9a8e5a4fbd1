---------------------------- MODULE FileBuffers ----------------------------
(***************************************************************************)
(* The text of open files: useProjects keeps a buffer and an original per  *)
(* path and loads them, App.tsx passes the shown one to the pane's         *)
(* CodeEditor, and the editor keeps a text and an original of its own and  *)
(* writes files.  The same CodeEditor instance shows one tab after         *)
(* another; reads and writes answer when they answer.                      *)
(*                                                                         *)
(* The engine is Monaco, whose model of a path outlives a change of tab.   *)
(* The frame that batches setContent is not modelled.                      *)
(***************************************************************************)
EXTENDS Naturals, FiniteSets

CONSTANTS
    File,           \* paths
    Version,        \* what can be typed into a file, told apart by a version
    Blank,          \* the empty text
    None,           \* null and undefined
    MaxCalls,       \* bound on the reads, and on the writes, under way
    Patient,        \* TRUE: the user waits for reads and writes to end
    Faults          \* the calls that may fail: reads, and writes by handler

BuffersAssumption ==
    /\ IsFiniteSet(File) /\ Version # {}
    /\ None \notin File \cup {Blank, "all", "close"} /\ Blank \notin File
    /\ Faults \subseteq {"read", "save", "all", "close"}

VARIABLES
    disk,           \* the files
    buffer,         \* filesContent
    original,       \* filesOriginalContent
    hookFile,       \* openFilePath of useProjects
    loading,        \* isFileLoading
    failed,         \* fileError
    shown,          \* the path the pane passes to its editor
    editor,         \* the state of the CodeEditor
    reads,          \* read_file_content under way
    writes,         \* write_file_content under way
    batch,          \* the handler that waits for all of its writes
    claimed         \* "Saved all open files" was just shown

\* A text names the file it was typed into, so that it is known again.
TextOf(f) == {<<f, v>> : v \in Version} \cup {Blank}

bufVars == <<disk, buffer, original, hookFile, loading, failed, shown,
             editor, reads, writes, batch, claimed>>

FreshEditor == [path |-> None, text |-> Blank, base |-> Blank, status |-> "idle",
                model |-> [f \in File |-> Blank]]
NoBatch == [kind |-> None, left |-> 0]

Init ==
    /\ disk = [f \in File |-> <<f, CHOOSE v \in Version : TRUE>>]
    /\ buffer = [f \in File |-> None]
    /\ original = buffer
    /\ hookFile = None /\ shown = None
    /\ loading = FALSE /\ failed = FALSE
    /\ editor = FreshEditor
    /\ reads = {} /\ writes = {}
    /\ batch = NoBatch
    /\ claimed = FALSE

Waits == Patient => reads = {} /\ writes = {} /\ batch = NoBatch

Dirty(f) == buffer[f] # None /\ buffer[f] # (IF original[f] = None THEN Blank ELSE original[f])

\* The effect of CodeEditor on [initialContent, filePath].  setValue
\* changes the model and reports the same text back to the buffer.
Follow(e, f, t) ==
    [e EXCEPT !.status = "idle",
              !.path = IF f = @ THEN @ ELSE IF t = None THEN None ELSE f,
              !.text = IF f = e.path THEN @ ELSE IF t = None THEN Blank ELSE t,
              !.base = IF f = e.path THEN @ ELSE IF t = None THEN Blank ELSE t,
              !.model = IF f = e.path \/ t = None THEN @ ELSE [@ EXCEPT ![f] = t]]

\* Without a path the pane renders no CodeEditor: it unmounts and Monaco
\* disposes the model it showed.
Unmounted(e) ==
    [FreshEditor EXCEPT !.model = IF shown = None THEN e.model ELSE [e.model EXCEPT ![shown] = Blank]]

\* What the editor shows after the buffers become b with path f selected.
Rendered(e, f, b) == IF f = None THEN Unmounted(e) ELSE Follow(e, f, b[f])

LoadAgain(f) ==
    /\ hookFile' = f
    /\ failed' = IF f = hookFile THEN failed ELSE FALSE
    /\ IF f = hookFile THEN UNCHANGED <<loading, reads>>
       ELSE IF f = None THEN loading' = FALSE /\ UNCHANGED reads
       ELSE /\ Cardinality(reads) < MaxCalls
            /\ loading' = TRUE
            /\ reads' = reads \cup {[file |-> f, text |-> None]}

\* The load effect of useProjects, on a change of openFilePath.
Load(f) ==
    /\ hookFile' = f
    /\ failed' = IF f = hookFile THEN failed ELSE FALSE
    /\ IF f = hookFile THEN UNCHANGED <<loading, reads>>
       ELSE IF f = None \/ buffer[f] # None THEN loading' = FALSE /\ UNCHANGED reads
       ELSE /\ Cardinality(reads) < MaxCalls
            /\ loading' = TRUE
            /\ reads' = reads \cup {[file |-> f, text |-> None]}

\* A tab is opened or selected, or closed and another (or none) shown.
Show(f) ==
    /\ Waits
    /\ Load(f)
    /\ shown' = f
    /\ editor' = IF f = shown THEN editor ELSE Rendered(editor, f, buffer)
    /\ claimed' = FALSE
    /\ UNCHANGED <<disk, buffer, original, writes, batch>>

\* The backend reads the file; the answer is still under way.
ReadFile(r) ==
    /\ r.text = None
    /\ reads' = (reads \ {r}) \cup {[r EXCEPT !.text = disk[r.file]]}
    /\ UNCHANGED <<disk, buffer, original, hookFile, loading, failed, shown, editor, writes, batch, claimed>>

Loaded(r) ==
    /\ r.text # None
    /\ reads' = reads \ {r}
    /\ buffer' = [buffer EXCEPT ![r.file] = r.text]
    /\ original' = [original EXCEPT ![r.file] = r.text]
    /\ loading' = FALSE
    /\ editor' = IF r.file = shown /\ buffer[shown] # r.text
                 THEN Follow(editor, shown, r.text) ELSE editor
    /\ UNCHANGED <<disk, hookFile, failed, shown, writes, batch, claimed>>

LoadFails(r) ==
    /\ "read" \in Faults
    /\ reads' = reads \ {r}
    /\ failed' = TRUE
    /\ loading' = FALSE
    /\ UNCHANGED <<disk, buffer, original, hookFile, shown, editor, writes, batch, claimed>>

\* handleEditorChange and the onChange of App.  While an error is shown
\* for this file the editor is not rendered; a loading overlay hides it
\* and does not take its keyboard focus.
Typable == shown # None /\ ~(failed /\ hookFile = shown)

Typed(t) ==
    /\ buffer' = [buffer EXCEPT ![shown] = t]
    /\ LET e == [editor EXCEPT !.text = t, !.model[shown] = t]
       IN  editor' = IF buffer[shown] = t THEN e ELSE Follow(e, shown, t)

Type(t) ==
    /\ Typable /\ Waits
    /\ t \in TextOf(shown) \ {editor.model[shown]}
    /\ Typed(t)
    /\ claimed' = FALSE
    /\ UNCHANGED <<disk, original, hookFile, loading, failed, shown, reads, writes, batch>>

\* The header of the editor: the mark of unsaved changes, and Save only
\* with it (Ctrl+S saves without it too).
Marked == editor.text # editor.base

\* "trigger-revert-active-file", once confirmed.
Revert ==
    /\ Typable /\ Waits
    /\ Marked
    /\ Typed(editor.base)
    /\ claimed' = FALSE
    /\ UNCHANGED <<disk, original, hookFile, loading, failed, shown, reads, writes, batch>>

Write(f, t, by) == [file |-> f, text |-> t, by |-> by, done |-> FALSE, ok |-> TRUE]

\* handleSave: Ctrl+S, the button, the menu or the auto-save timer.  The
\* text is the model's, dirty or not.
Save ==
    /\ Typable /\ Waits
    /\ editor.status # "saving"
    /\ Cardinality(writes) < MaxCalls
    /\ writes' = writes \cup {Write(shown, editor.model[shown], "save")}
    /\ editor' = [editor EXCEPT !.status = "saving"]
    /\ claimed' = FALSE
    /\ UNCHANGED <<disk, buffer, original, hookFile, loading, failed, shown, reads, batch>>

\* "save-all" of App and handleSaveAndCloseAllTabs of useProjects: one
\* write for each buffer that differs from its original.
SaveEach(kind) ==
    /\ Waits
    /\ batch = NoBatch
    /\ LET new == {Write(f, buffer[f], kind) : f \in {g \in File : Dirty(g)}}
       IN  /\ writes' = writes \cup new
           /\ batch' = [kind |-> kind, left |-> Cardinality(new)]
    /\ claimed' = FALSE
    /\ UNCHANGED <<disk, buffer, original, hookFile, loading, failed, shown, editor, reads>>

\* The backend writes the file, or cannot.
WriteFile(w, ok) ==
    /\ ~w.done
    /\ ok \/ w.by \in Faults
    /\ disk' = IF ok THEN [disk EXCEPT ![w.file] = w.text] ELSE disk
    /\ writes' = (writes \ {w}) \cup {[w EXCEPT !.done = TRUE, !.ok = ok]}
    /\ UNCHANGED <<buffer, original, hookFile, loading, failed, shown, editor, reads, batch, claimed>>

\* The rest of handleSave, with the file it was called for and whatever
\* file the editor shows by now.
Saved(w) ==
    /\ w.done /\ w.by = "save"
    /\ writes' = writes \ {w}
    /\ editor' = IF w.ok THEN [editor EXCEPT !.base = w.text, !.status = "success"]
                 ELSE [editor EXCEPT !.status = "error"]
    /\ original' = IF w.ok THEN [original EXCEPT ![w.file] = w.text] ELSE original
    /\ UNCHANGED <<disk, buffer, hookFile, loading, failed, shown, reads, batch, claimed>>

\* Two seconds after a success the status is idle again, even when the
\* next save is under way.
StatusPasses ==
    /\ editor.status \in {"success", "saving"}
    /\ Patient => editor.status = "success"
    /\ editor' = [editor EXCEPT !.status = "idle"]
    /\ UNCHANGED <<disk, buffer, original, hookFile, loading, failed, shown, reads, writes, batch, claimed>>

BatchWrittenAnyway(w) ==
    /\ w.done /\ w.by # "save"
    /\ writes' = writes \ {w}
    /\ batch' = [batch EXCEPT !.left = @ - 1]
    /\ original' = IF w.by = "all" THEN [original EXCEPT ![w.file] = w.text] ELSE original
    /\ UNCHANGED <<disk, buffer, hookFile, loading, failed, shown, editor, reads, claimed>>

\* One write of a batch has answered; a failure is only logged.
BatchWritten(w) ==
    /\ w.done /\ w.by # "save"
    /\ writes' = writes \ {w}
    /\ batch' = [batch EXCEPT !.left = @ - 1]
    /\ original' = IF w.ok /\ w.by = "all" THEN [original EXCEPT ![w.file] = w.text] ELSE original
    /\ UNCHANGED <<disk, buffer, hookFile, loading, failed, shown, editor, reads, claimed>>

\* All writes of "save-all" have answered: "files-saved-all" makes every
\* mounted editor clean, and the toast says so.
SavedAll ==
    /\ batch.kind = "all" /\ batch.left = 0
    /\ batch' = NoBatch
    /\ claimed' = TRUE
    /\ editor' = IF shown = None THEN editor ELSE [editor EXCEPT !.base = editor.text, !.status = "success"]
    /\ UNCHANGED <<disk, buffer, original, hookFile, loading, failed, shown, reads, writes>>

\* All writes of "Save and Delete All" have answered: the buffers go, and
\* the pane keeps its tab.
SavedAndClosed ==
    /\ batch.kind = "close" /\ batch.left = 0
    /\ batch' = NoBatch
    /\ buffer' = [f \in File |-> None]
    /\ original' = [f \in File |-> None]
    /\ hookFile' = None /\ loading' = FALSE /\ failed' = FALSE
    /\ editor' = IF shown = None \/ buffer[shown] = None THEN editor ELSE Follow(editor, shown, None)
    /\ UNCHANGED <<disk, shown, reads, writes, claimed>>

\* "Delete All" drops every tab and every buffer.
CloseAll ==
    /\ Waits
    /\ buffer' = [f \in File |-> None]
    /\ original' = [f \in File |-> None]
    /\ hookFile' = None /\ loading' = FALSE /\ failed' = FALSE
    /\ shown' = None
    /\ editor' = Unmounted(editor)
    /\ claimed' = FALSE
    /\ UNCHANGED <<disk, reads, writes, batch>>

UserStep ==
    \/ \E f \in File \cup {None} : Show(f)
    \/ \E t \in UNION {TextOf(f) : f \in File} : Type(t)
    \/ Revert \/ Save \/ CloseAll
    \/ \E kind \in {"all", "close"} : SaveEach(kind)

Answer ==
    \/ \E r \in reads : ReadFile(r) \/ Loaded(r) \/ LoadFails(r)
    \/ \E w \in writes : Saved(w) \/ BatchWritten(w) \/ \E ok \in BOOLEAN : WriteFile(w, ok)
    \/ SavedAll \/ SavedAndClosed \/ StatusPasses

Next == UserStep \/ Answer

Spec == Init /\ [][Next]_bufVars

----------------------------------------------------------------------------
(* The inductive invariant for a user who waits; FileBuffersProofs proves  *)
(* the properties from it.                                                 *)

\* No file, buffer or editor ever receives the text of another file.
OwnText ==
    \A f \in File :
       /\ disk[f] \in TextOf(f)
       /\ buffer[f] \in TextOf(f) \cup {None}
       /\ editor.model[f] \in TextOf(f)

Texts == {Blank} \cup UNION {TextOf(f) : f \in File}
Editor == [path : File \cup {None}, text : Texts, base : Texts, model : [File -> Texts],
           status : {"idle", "saving", "success", "error"}]
Read == [file : File, text : Texts \cup {None}]
Writing == [file : File, text : Texts, by : {"save", "all", "close"}, done : BOOLEAN, ok : BOOLEAN]

BuffersTypeOK ==
    /\ disk \in [File -> Texts]
    /\ {buffer, original} \subseteq [File -> Texts \cup {None}]
    /\ shown \in File \cup {None} /\ editor \in Editor
    /\ reads \subseteq Read /\ writes \subseteq Writing
    /\ batch \in [kind : {None, "all", "close"}, left : Nat]

\* The pane's editor has texts of the file it is passed.
EditorShows ==
    /\ editor.path \in {None, shown}
    /\ shown # None => {editor.text, editor.base} \subseteq TextOf(shown)

\* One file is read at a time, while nothing is written and before it has a buffer.
ReadsAlone ==
    /\ reads # {} => writes = {} /\ batch = NoBatch
    /\ \A r, s \in reads : r = s
    /\ \A r \in reads : buffer[r.file] = None /\ r.text \in {None, disk[r.file]}

\* A file is written once at a time, by the handler under way.
WritesOnce ==
    /\ IsFiniteSet(writes) /\ (batch # NoBatch => batch.left = Cardinality(writes))
    /\ batch.kind = None => batch = NoBatch
    /\ \A v, w \in writes : v.file = w.file => v = w
    /\ \A w \in writes :
         /\ w.text \in TextOf(w.file)
         /\ w.done /\ w.ok => disk[w.file] = w.text
         /\ w.by = "save" => batch = NoBatch /\ w.file = shown
         /\ w.by # "save" => batch.kind = w.by
         /\ w.by = "close" => w.text = buffer[w.file] /\ (w.ok \/ "close" \in Faults)

\* The original of a file is what it holds, but for the answer of a write that is still to come.
OriginalIsKnown ==
    batch.kind # "close" =>
      \A f \in File : original[f] \in {None, disk[f]} \/ \E w \in writes : w.file = f /\ w.done /\ w.ok

\* "Save and Delete All" writes whatever is not saved.
ClosingSaves ==
    batch.kind = "close" /\ "close" \notin Faults =>
      \A f \in File : Dirty(f) => buffer[f] = disk[f] \/ \E w \in writes : w.file = f

BuffersInv ==
    BuffersTypeOK /\ OwnText /\ EditorShows /\ ReadsAlone /\ WritesOnce /\ OriginalIsKnown /\ ClosingSaves

----------------------------------------------------------------------------
Quiet == reads = {} /\ writes = {} /\ batch = NoBatch

\* With nothing under way the original of a file is what the file holds:
\* a buffer equal to its original is saved.
OriginalIsOnDisk ==
    Quiet => \A f \in File : original[f] \in {None, disk[f]}

\* An editor without the mark "Chua luu thay doi" (unsaved changes,
\* CodeEditor.tsx:1728) shows what the file holds.
CleanIsOnDisk ==
    Quiet /\ shown # None /\ editor.path = shown /\ ~Marked
    => editor.model[shown] = disk[shown]

\* "If already loaded in memory, do not re-fetch from disk (preserves
\* unsaved session edits!)" (useProjects.ts:153): no answer of the backend
\* replaces or drops an unsaved text that is nowhere but in the buffer.
UnsavedSurvives ==
    [][\A f \in File :
         Answer /\ Dirty(f) /\ buffer[f] # disk[f] => buffer'[f] = buffer[f]]_bufVars

\* "Saved all open files" (App.tsx:942).
SavedAllIsSaved ==
    claimed => \A f \in File : buffer[f] # None => buffer[f] = disk[f]
=============================================================================
