------------------------- MODULE FileBuffersProofs -------------------------
(***************************************************************************)
(* What holds of the texts of open files for any files and texts, and any  *)
(* calls that fail, when the user waits for reads and writes to end.       *)
(***************************************************************************)
EXTENDS FileBuffers, FiniteSetTheorems, TLAPS

----------------------------------------------------------------------------
(* Sets of writes.                                                         *)

\* Writes of different files are as few as the files.
LEMMA FewWrites ==
  ASSUME IsFiniteSet(File), NEW W, \A w \in W : w.file \in File,
         \A v, w \in W : v.file = w.file => v = w
  PROVE  IsFiniteSet(W)
<1> DEFINE at == [w \in W |-> w.file]
<1>1. at \in Injection(W, File)
  BY DEF Injection, IsInjective
<1> HIDE DEF at
<1> QED
  BY <1>1, FS_Injection

\* One element fewer.
LEMMA OneFewer ==
  ASSUME NEW S, IsFiniteSet(S), NEW x \in S
  PROVE  /\ IsFiniteSet(S \ {x}) /\ Cardinality(S \ {x}) = Cardinality(S) - 1
         /\ Cardinality(S \ {x}) \in Nat
BY FS_RemoveElement, FS_CardinalityType

\* One element replaced by another.
LEMMA OneReplaced ==
  ASSUME NEW S, IsFiniteSet(S), NEW x \in S, NEW y, y \notin S \ {x}
  PROVE  /\ IsFiniteSet((S \ {x}) \cup {y}) /\ Cardinality((S \ {x}) \cup {y}) = Cardinality(S)
<1>1. IsFiniteSet(S \ {x}) /\ Cardinality(S \ {x}) = Cardinality(S) - 1 /\ Cardinality(S) \in Nat
  BY FS_RemoveElement, FS_CardinalityType
<1>2. IsFiniteSet((S \ {x}) \cup {y}) /\ Cardinality((S \ {x}) \cup {y}) = Cardinality(S \ {x}) + 1
  BY <1>1, FS_AddElement
<1> QED
  BY <1>1, <1>2

----------------------------------------------------------------------------
(* Texts and editors.                                                      *)

\* A text of a file is a text, and so is the empty one.
LEMMA TextsOfFiles ==
  /\ \A f \in File : TextOf(f) \subseteq Texts /\ Blank \in TextOf(f)
  /\ Blank \in Texts
BY DEF Texts, TextOf

\* A typed editor with texts of the file it is passed, and none of another.
Proper(e, f) ==
    /\ e \in Editor
    /\ e.path \in {None, f}
    /\ f # None => {e.text, e.base} \subseteq TextOf(f)
    /\ \A g \in File : e.model[g] \in TextOf(g)

\* That is what the invariant says of the editor.
LEMMA EditorIsProper ==
  ASSUME BuffersInv
  PROVE  Proper(editor, shown)
BY DEF BuffersInv, BuffersTypeOK, EditorShows, OwnText, Proper

\* The fields of an editor, and the editors that differ from it in some.
LEMMA EditorFields ==
  ASSUME NEW e \in Editor
  PROVE  /\ e.path \in File \cup {None} /\ e.text \in Texts /\ e.base \in Texts
         /\ e.model \in [File -> Texts] /\ e.status \in {"idle", "saving", "success", "error"}
BY DEF Editor

\* The editor follows the path and the text it is passed.
LEMMA FollowIsProper ==
  ASSUME BuffersAssumption, NEW f \in File, NEW t \in TextOf(f) \cup {None}, NEW e \in Editor,
         e.path = f => {e.text, e.base} \subseteq TextOf(f),
         \A g \in File : e.model[g] \in TextOf(g)
  PROVE  Proper(Follow(e, f, t), f)
<1> DEFINE path == IF f = e.path THEN e.path ELSE IF t = None THEN None ELSE f
           text == IF f = e.path THEN e.text ELSE IF t = None THEN Blank ELSE t
           base == IF f = e.path THEN e.base ELSE IF t = None THEN Blank ELSE t
           model == IF f = e.path \/ t = None THEN e.model ELSE [e.model EXCEPT ![f] = t]
           x == Follow(e, f, t)
<1>1. path \in {None, f} /\ path \in File \cup {None}
  BY EditorFields
<1>2. text \in TextOf(f) /\ text \in Texts
  BY TextsOfFiles, EditorFields
<1>3. base \in TextOf(f) /\ base \in Texts
  BY TextsOfFiles, EditorFields
<1>4. model \in [File -> Texts] /\ \A g \in File : model[g] \in TextOf(g)
  BY TextsOfFiles, EditorFields
<1>5. x = [e EXCEPT !.status = "idle", !.path = path, !.text = text, !.base = base, !.model = model]
  BY DEF Follow
<1> HIDE DEF path, text, base, model, x
<1>6. x \in Editor /\ x.path = path /\ x.text = text /\ x.base = base /\ x.model = model
  BY <1>1, <1>2, <1>3, <1>4, <1>5 DEF Editor
<1>7. Proper(x, f)
  BY <1>1, <1>2, <1>3, <1>4, <1>6 DEF Proper
<1> QED
  BY <1>7 DEF x

\* An editor that unmounts forgets the text it showed.
LEMMA UnmountedIsProper ==
  ASSUME BuffersAssumption, BuffersInv
  PROVE  Proper(Unmounted(editor), None)
<1> DEFINE model == IF shown = None THEN editor.model ELSE [editor.model EXCEPT ![shown] = Blank]
           x == Unmounted(editor)
<1>1. editor \in Editor /\ shown \in File \cup {None} /\ \A g \in File : editor.model[g] \in TextOf(g)
  BY DEF BuffersInv, BuffersTypeOK, OwnText
<1>2. model \in [File -> Texts] /\ \A g \in File : model[g] \in TextOf(g)
  BY <1>1, TextsOfFiles, EditorFields
<1>3. x = [path |-> None, text |-> Blank, base |-> Blank, status |-> "idle", model |-> model]
  BY DEF Unmounted, FreshEditor
<1> HIDE DEF model, x
<1>4. Proper(x, None)
  BY <1>2, <1>3, TextsOfFiles DEF Proper, Editor
<1> QED
  BY <1>4 DEF x

\* What the editor shows next is proper whichever path and buffers it is passed.
LEMMA RenderedIsProper ==
  ASSUME BuffersAssumption, BuffersInv, NEW f \in File \cup {None}, NEW b,
         f # None => b[f] \in TextOf(f) \cup {None}
  PROVE  Proper(Rendered(editor, f, b), f)
<1>1. CASE f = None
  BY <1>1, UnmountedIsProper DEF Rendered
<1>2. CASE f # None
  <2>1. f \in File /\ editor \in Editor /\ \A g \in File : editor.model[g] \in TextOf(g)
    BY <1>2 DEF BuffersInv, BuffersTypeOK, OwnText
  <2>2. editor.path = f => {editor.text, editor.base} \subseteq TextOf(f)
    BY <1>2 DEF BuffersInv, EditorShows
  <2>3. Proper(Follow(editor, f, b[f]), f)
    BY <1>2, <2>1, <2>2, FollowIsProper
  <2> QED
    BY <1>2, <2>3 DEF Rendered
<1> QED
  BY <1>1, <1>2

----------------------------------------------------------------------------
(* The parts of the invariant, and the steps.                              *)

\* The files, the buffers and the originals.
Held ==
    /\ disk \in [File -> Texts] /\ \A f \in File : disk[f] \in TextOf(f)
    /\ buffer \in [File -> Texts \cup {None}] /\ \A f \in File : buffer[f] \in TextOf(f) \cup {None}
    /\ original \in [File -> Texts \cup {None}]

\* What the pane shows.
Pane == shown \in File \cup {None} /\ Proper(editor, shown)

\* The calls under way.
Calls ==
    /\ reads \subseteq Read /\ writes \subseteq Writing
    /\ batch \in [kind : {None, "all", "close"}, left : Nat]

\* The invariant is its parts.
LEMMA Parts ==
  BuffersInv <=> Held /\ Pane /\ Calls /\ ReadsAlone /\ WritesOnce /\ OriginalIsKnown /\ ClosingSaves
BY DEF BuffersInv, BuffersTypeOK, OwnText, EditorShows, Held, Pane, Proper, Calls

\* So it is after a step.
LEMMA PartsAfter ==
  BuffersInv' <=> (Held /\ Pane /\ Calls /\ ReadsAlone /\ WritesOnce /\ OriginalIsKnown /\ ClosingSaves)'
BY DEF BuffersInv, BuffersTypeOK, OwnText, EditorShows, Held, Pane, Proper, Calls

\* No batch is none of the batches.
LEMMA NoBatchIsNone ==
  ASSUME BuffersAssumption
  PROVE  /\ NoBatch \in [kind : {None, "all", "close"}, left : Nat]
         /\ NoBatch.kind = None /\ None # "all" /\ None # "close" /\ None \notin File
BY DEF NoBatch, BuffersAssumption

\* A user who waits acts with nothing under way.
LEMMA NothingUnderWay ==
  ASSUME BuffersAssumption, Patient, BuffersInv, Waits
  PROVE  reads = {} /\ writes = {} /\ batch = NoBatch /\ batch.kind = None
BY NoBatchIsNone DEF Waits

\* With nothing under way the invariant says nothing of the calls.
LEMMA QuietParts ==
  ASSUME BuffersAssumption, writes = {}, batch = NoBatch, reads = {}
  PROVE  Calls /\ ReadsAlone /\ WritesOnce /\ ClosingSaves
<1>1. IsFiniteSet(writes) /\ Cardinality(writes) = 0
  BY FS_EmptySet
<1> QED
  BY <1>1, NoBatchIsNone DEF Calls, ReadsAlone, WritesOnce, ClosingSaves

\* At first the buffers are empty and the editor shows nothing.
LEMMA InitHolds ==
  ASSUME BuffersAssumption, Init
  PROVE  BuffersInv
<1>1. \A f \in File : disk[f] \in TextOf(f)
  <2> TAKE f \in File
  <2>1. PICK v \in Version : disk[f] = <<f, v>>
    BY DEF Init, BuffersAssumption
  <2> QED
    BY <2>1 DEF TextOf
<1>2. Held
  BY <1>1, TextsOfFiles DEF Held, Init
<1>3. Pane
  <2>1. FreshEditor \in Editor /\ FreshEditor.path = None /\ \A g \in File : FreshEditor.model[g] = Blank
    BY TextsOfFiles DEF FreshEditor, Editor
  <2> QED
    BY <2>1, TextsOfFiles DEF Init, Pane, Proper
<1>4. Calls /\ ReadsAlone /\ WritesOnce /\ ClosingSaves
  BY QuietParts DEF Init
<1>5. OriginalIsKnown
  BY DEF Init, OriginalIsKnown
<1> QED
  BY <1>2, <1>3, <1>4, <1>5, Parts

\* A tab that is shown is read when it has no buffer.
LEMMA ShowHolds ==
  ASSUME BuffersAssumption, Patient, BuffersInv, NEW f \in File \cup {None}, Show(f)
  PROVE  BuffersInv'
<1>1. Held /\ Pane /\ Calls /\ OriginalIsKnown
  BY Parts
<1>2. reads = {} /\ writes = {} /\ batch = NoBatch /\ batch.kind = None
  BY NothingUnderWay DEF Show
<1>3. UNCHANGED <<disk, buffer, original, writes, batch>> /\ shown' = f
  BY DEF Show
<1>4. Held' /\ OriginalIsKnown'
  BY <1>1, <1>3 DEF Held, OriginalIsKnown
<1>5. Pane'
  <2>1. f # None => buffer[f] \in TextOf(f) \cup {None}
    BY <1>1 DEF Held
  <2>2. Proper(Rendered(editor, f, buffer), f)
    BY <2>1, RenderedIsProper
  <2>3. Proper(editor', f)
    BY <1>1, <2>2 DEF Show, Pane
  <2> QED
    BY <1>3, <2>3 DEF Pane
<1>6. reads' = {} \/ (f \in File /\ buffer[f] = None /\ reads' = {[file |-> f, text |-> None]})
  BY <1>2 DEF Show, Load
<1>7. Calls' /\ ReadsAlone'
  BY <1>1, <1>2, <1>3, <1>6 DEF Calls, ReadsAlone, Read
<1>8. WritesOnce' /\ ClosingSaves'
  <2>1. WritesOnce
    BY Parts
  <2> QED
    BY <1>2, <1>3, <2>1, NoBatchIsNone DEF WritesOnce, ClosingSaves
<1> QED
  BY <1>3, <1>4, <1>5, <1>7, <1>8, PartsAfter

\* The answer to a read is the file as it is.
LEMMA ReadFileHolds ==
  ASSUME BuffersAssumption, BuffersInv, NEW r \in reads, ReadFile(r)
  PROVE  BuffersInv'
<1>1. Held /\ Pane /\ Calls /\ ReadsAlone /\ WritesOnce /\ OriginalIsKnown /\ ClosingSaves
  BY Parts
<1>2. UNCHANGED <<disk, buffer, original, shown, editor, writes, batch>>
  BY DEF ReadFile
<1>3. Held' /\ Pane' /\ WritesOnce' /\ OriginalIsKnown' /\ ClosingSaves'
  BY <1>1, <1>2 DEF Held, Pane, Proper, WritesOnce, OriginalIsKnown, ClosingSaves, Dirty
<1>4. r \in Read /\ disk[r.file] \in Texts
  BY <1>1 DEF Calls, Held, Read
<1> DEFINE s == [r EXCEPT !.text = disk[r.file]]
<1>5. s \in Read /\ s.file = r.file /\ s.text = disk[r.file]
  BY <1>4 DEF Read
<1>6. reads' = {s}
  BY <1>1 DEF ReadFile, ReadsAlone
<1> HIDE DEF s
<1>7. Calls' /\ ReadsAlone'
  BY <1>1, <1>2, <1>5, <1>6 DEF Calls, ReadsAlone
<1> QED
  BY <1>3, <1>7, PartsAfter

\* The text that arrives is that of the file, and the editor shows it when it shows the file.
LEMMA LoadedHolds ==
  ASSUME BuffersAssumption, BuffersInv, NEW r \in reads, Loaded(r)
  PROVE  BuffersInv'
<1>1. Held /\ Pane /\ Calls /\ ReadsAlone /\ WritesOnce /\ OriginalIsKnown /\ ClosingSaves
  BY Parts
<1>2. /\ UNCHANGED <<disk, shown, writes, batch>> /\ reads' = reads \ {r}
      /\ buffer' = [buffer EXCEPT ![r.file] = r.text]
      /\ original' = [original EXCEPT ![r.file] = r.text]
  BY DEF Loaded
<1>3. r.file \in File /\ r.text = disk[r.file] /\ r.text \in TextOf(r.file) /\ r.text \in Texts
  BY <1>1 DEF Loaded, Calls, Read, ReadsAlone, Held
<1>4. writes = {} /\ batch = NoBatch /\ reads' = {}
  BY <1>1, <1>2 DEF ReadsAlone
<1>5. Held'
  BY <1>1, <1>2, <1>3 DEF Held
<1>6. Pane'
  <2>1. r.file = shown => Proper(Follow(editor, shown, r.text), shown)
    <3>1. editor \in Editor /\ \A g \in File : editor.model[g] \in TextOf(g)
      BY <1>1 DEF Pane, Proper
    <3>2. editor.path = r.file /\ r.file = shown => {editor.text, editor.base} \subseteq TextOf(r.file)
      BY <1>1, <1>3, NoBatchIsNone DEF Pane, Proper
    <3> QED
      BY <1>3, <3>1, <3>2, FollowIsProper
  <2>2. Proper(editor', shown)
    BY <1>1, <2>1 DEF Loaded, Pane
  <2> QED
    BY <1>1, <1>2, <2>2 DEF Pane
<1>7. Calls' /\ ReadsAlone' /\ WritesOnce' /\ ClosingSaves'
  BY <1>2, <1>4, QuietParts, NoBatchIsNone, <1>1
     DEF Calls, ReadsAlone, WritesOnce, ClosingSaves
<1>8. OriginalIsKnown'
  BY <1>1, <1>2, <1>3, <1>4, NoBatchIsNone DEF OriginalIsKnown, Held
<1> QED
  BY <1>5, <1>6, <1>7, <1>8, PartsAfter

\* A read that fails leaves the texts alone.
LEMMA LoadFailsHolds ==
  ASSUME BuffersAssumption, BuffersInv, NEW r \in reads, LoadFails(r)
  PROVE  BuffersInv'
<1>1. Held /\ Pane /\ Calls /\ ReadsAlone /\ WritesOnce /\ OriginalIsKnown /\ ClosingSaves
  BY Parts
<1>2. UNCHANGED <<disk, buffer, original, shown, editor, writes, batch>> /\ reads' = reads \ {r}
  BY DEF LoadFails
<1>3. Held' /\ Pane' /\ WritesOnce' /\ OriginalIsKnown' /\ ClosingSaves'
  BY <1>1, <1>2 DEF Held, Pane, Proper, WritesOnce, OriginalIsKnown, ClosingSaves, Dirty
<1>4. Calls' /\ ReadsAlone'
  BY <1>1, <1>2 DEF Calls, ReadsAlone
<1> QED
  BY <1>3, <1>4, PartsAfter

\* With nothing under way, before and after, only the texts matter.
LEMMA StaysQuiet ==
  ASSUME BuffersAssumption, BuffersInv, reads = {}, writes = {}, batch = NoBatch,
         UNCHANGED <<disk, reads, writes, batch>>,
         original' = original \/ original' = [f \in File |-> None]
  PROVE  /\ Calls' /\ ReadsAlone' /\ WritesOnce' /\ OriginalIsKnown' /\ ClosingSaves'
         /\ original' \in [File -> Texts \cup {None}]
<1>1. Held /\ Calls /\ ReadsAlone /\ WritesOnce /\ OriginalIsKnown
  BY Parts
<1>2. Calls' /\ ReadsAlone' /\ WritesOnce' /\ ClosingSaves'
  BY <1>1, NoBatchIsNone DEF Calls, ReadsAlone, WritesOnce, ClosingSaves
<1>3. OriginalIsKnown'
  BY <1>1, NoBatchIsNone DEF OriginalIsKnown
<1>4. original' \in [File -> Texts \cup {None}]
  BY <1>1 DEF Held
<1> QED
  BY <1>2, <1>3, <1>4

\* A text typed into the editor is one of the file shown.
LEMMA TypedHolds ==
  ASSUME BuffersAssumption, Patient, BuffersInv, Waits, shown # None, NEW t \in TextOf(shown),
         Typed(t), UNCHANGED <<disk, original, shown, reads, writes, batch>>
  PROVE  BuffersInv'
<1>1. Held /\ Pane
  BY Parts
<1>2. reads = {} /\ writes = {} /\ batch = NoBatch
  BY NothingUnderWay
<1>3. Calls' /\ ReadsAlone' /\ WritesOnce' /\ OriginalIsKnown' /\ ClosingSaves'
  BY <1>2, StaysQuiet
<1>4. shown \in File /\ t \in Texts
  BY <1>1, TextsOfFiles DEF Pane
<1>5. Held'
  BY <1>1, <1>4 DEF Held, Typed
<1> DEFINE e == [editor EXCEPT !.text = t, !.model[shown] = t]
<1>6. /\ e \in Editor /\ e.path = editor.path /\ e.text = t /\ e.base = editor.base
      /\ e.model = [editor.model EXCEPT ![shown] = t]
  BY <1>1, <1>4 DEF Pane, Proper, Editor
<1>7. editor' = e \/ editor' = Follow(e, shown, t)
  BY DEF Typed
<1> HIDE DEF e
<1>8. Proper(e, shown)
  BY <1>1, <1>4, <1>6, EditorFields DEF Pane, Proper
<1>9. Proper(Follow(e, shown, t), shown)
  <2>1. /\ e.path = shown => {e.text, e.base} \subseteq TextOf(shown)
        /\ \A g \in File : e.model[g] \in TextOf(g)
    BY <1>8 DEF Proper
  <2> QED
    BY <1>4, <1>6, <2>1, FollowIsProper
<1>10. Pane'
  <2>1. Proper(editor', shown)
    BY <1>7, <1>8, <1>9
  <2> QED
    BY <1>1, <2>1 DEF Pane
<1> QED
  BY <1>3, <1>5, <1>10, PartsAfter

LEMMA TypeHolds ==
  ASSUME BuffersAssumption, Patient, BuffersInv, NEW t, Type(t)
  PROVE  BuffersInv'
BY TypedHolds DEF Type, Typable

LEMMA RevertHolds ==
  ASSUME BuffersAssumption, Patient, BuffersInv, Revert
  PROVE  BuffersInv'
<1>1. shown # None /\ editor.base \in TextOf(shown)
  BY Parts DEF Revert, Typable, Pane, Proper
<1> QED
  BY <1>1, TypedHolds DEF Revert

\* An editor keeps its path and texts while its status changes.
LEMMA StatusIsProper ==
  ASSUME Pane, NEW x \in {"idle", "saving", "success", "error"}
  PROVE  Proper([editor EXCEPT !.status = x], shown)
BY DEF Pane, Proper, Editor

\* The texts of an editor may become the base of what it shows.
LEMMA BaseIsProper ==
  ASSUME Pane, shown # None, NEW t \in TextOf(shown), NEW x \in {"idle", "saving", "success", "error"}
  PROVE  Proper([editor EXCEPT !.base = t, !.status = x], shown)
<1>1. t \in Texts /\ editor \in Editor
  BY TextsOfFiles DEF Pane, Proper
<1> DEFINE e == [editor EXCEPT !.base = t, !.status = x]
<1>2. e \in Editor /\ e.path = editor.path /\ e.text = editor.text /\ e.base = t /\ e.model = editor.model
  BY <1>1 DEF Editor
<1> HIDE DEF e
<1>3. Proper(e, shown)
  BY <1>2 DEF Pane, Proper
<1> QED
  BY <1>3 DEF e

\* A save begins with no other call under way.
LEMMA SaveHolds ==
  ASSUME BuffersAssumption, Patient, BuffersInv, Save
  PROVE  BuffersInv'
<1>1. Held /\ Pane /\ Calls /\ ReadsAlone /\ OriginalIsKnown
  BY Parts
<1>2. reads = {} /\ writes = {} /\ batch = NoBatch
  BY NothingUnderWay DEF Save
<1>3. UNCHANGED <<disk, buffer, original, shown, reads, batch>> /\ shown \in File
  BY <1>1 DEF Save, Typable, Pane
<1>4. Pane'
  <2>1. Proper(editor', shown)
    BY <1>1, StatusIsProper DEF Save
  <2> QED
    BY <1>1, <1>3, <2>1 DEF Pane
<1> DEFINE w == Write(shown, editor.model[shown], "save")
<1>5. /\ w \in Writing /\ w.file = shown /\ w.by = "save" /\ ~w.done
      /\ w.text \in TextOf(shown) /\ w.text \in Texts
  <2>1. editor.model[shown] \in TextOf(shown) /\ editor.model[shown] \in Texts
    BY <1>1, <1>3, TextsOfFiles DEF Pane, Proper
  <2> QED
    BY <1>3, <2>1 DEF Write, Writing
<1>6. writes' = {w}
  BY <1>2 DEF Save
<1> HIDE DEF w
<1>7. Held' /\ Calls' /\ ReadsAlone'
  BY <1>1, <1>2, <1>3, <1>5, <1>6 DEF Held, Calls, ReadsAlone
<1>8. WritesOnce'
  <2>1. IsFiniteSet(writes')
    BY <1>6, FS_Singleton
  <2> QED
    BY <1>2, <1>3, <1>5, <1>6, <2>1 DEF WritesOnce
<1>9. OriginalIsKnown' /\ ClosingSaves'
  BY <1>1, <1>2, <1>3, NoBatchIsNone DEF OriginalIsKnown, ClosingSaves
<1> QED
  BY <1>3, <1>4, <1>7, <1>8, <1>9, PartsAfter

\* A batch writes each unsaved buffer, and counts the writes.
LEMMA SaveEachHolds ==
  ASSUME BuffersAssumption, Patient, BuffersInv, NEW kind \in {"all", "close"}, SaveEach(kind)
  PROVE  BuffersInv'
<1>1. Held /\ Pane /\ Calls /\ ReadsAlone /\ OriginalIsKnown
  BY Parts
<1>2. reads = {} /\ writes = {} /\ batch = NoBatch /\ batch.kind = None
  BY NothingUnderWay DEF SaveEach
<1>3. UNCHANGED <<disk, buffer, original, shown, editor, reads>>
  BY DEF SaveEach
<1> DEFINE new == {Write(f, buffer[f], kind) : f \in {g \in File : Dirty(g)}}
<1>4. writes' = new /\ batch' = [kind |-> kind, left |-> Cardinality(new)]
  BY <1>2 DEF SaveEach
<1>5. \A w \in new : /\ w \in Writing /\ w.by = kind /\ ~w.done /\ w.ok
                     /\ w.text = buffer[w.file] /\ w.text \in TextOf(w.file)
                     /\ w = Write(w.file, buffer[w.file], kind)
  <2> TAKE w \in new
  <2>1. PICK f \in File : Dirty(f) /\ w = Write(f, buffer[f], kind)
    OBVIOUS
  <2>2. buffer[f] \in TextOf(f) /\ buffer[f] \in Texts
    BY <1>1, <2>1, TextsOfFiles DEF Held, Dirty
  <2> QED
    BY <2>1, <2>2 DEF Write, Writing
<1>6. \A v, w \in new : v.file = w.file => v = w
  <2> HIDE DEF new
  <2> TAKE v, w \in new
  <2>1. v = Write(v.file, buffer[v.file], kind) /\ w = Write(w.file, buffer[w.file], kind)
    BY <1>5
  <2> QED
    BY <2>1
<1>7. \A f \in File : Dirty(f) => \E w \in new : w.file = f
  <2> TAKE f \in File
  <2> HAVE Dirty(f)
  <2>1. Write(f, buffer[f], kind) \in new
    OBVIOUS
  <2>2. Write(f, buffer[f], kind).file = f
    BY DEF Write
  <2> HIDE DEF new
  <2> QED
    BY <2>1, <2>2
<1> HIDE DEF new
<1>8. IsFiniteSet(new) /\ Cardinality(new) \in Nat
  BY <1>5, <1>6, FewWrites, FS_CardinalityType DEF BuffersAssumption, Writing
<1>9. Held' /\ Pane' /\ Calls' /\ ReadsAlone'
  BY <1>1, <1>2, <1>3, <1>4, <1>5, <1>8 DEF Held, Pane, Proper, Calls, ReadsAlone
<1>10. WritesOnce'
  BY <1>3, <1>4, <1>5, <1>6, <1>8, NoBatchIsNone DEF WritesOnce
<1>11. OriginalIsKnown' /\ ClosingSaves'
  BY <1>1, <1>2, <1>3, <1>4, <1>7, NoBatchIsNone DEF OriginalIsKnown, ClosingSaves, Dirty
<1> QED
  BY <1>9, <1>10, <1>11, PartsAfter

\* A write that has answered may go: its file holds its text, or nothing was written.
LEMMA WriteLeaves ==
  ASSUME BuffersAssumption, BuffersInv, NEW w \in writes, w.done,
         UNCHANGED <<disk, buffer, shown, reads>>, writes' = writes \ {w},
         original' = IF w.ok /\ w.by # "close" THEN [original EXCEPT ![w.file] = w.text] ELSE original,
         batch' = IF w.by = "save" THEN batch ELSE [batch EXCEPT !.left = @ - 1]
  PROVE  Held' /\ Calls' /\ ReadsAlone' /\ WritesOnce' /\ OriginalIsKnown' /\ ClosingSaves'
<1>1. Held /\ Calls /\ ReadsAlone /\ WritesOnce /\ OriginalIsKnown /\ ClosingSaves
  BY Parts
<1>2. /\ w.file \in File /\ w.text \in Texts /\ w.by \in {"save", "all", "close"}
      /\ w.text \in TextOf(w.file) /\ (w.ok => disk[w.file] = w.text)
      /\ \A v \in writes : v.file = w.file => v = w
  BY <1>1 DEF Calls, Writing, WritesOnce
<1>3. /\ IsFiniteSet(writes') /\ Cardinality(writes') \in Nat
      /\ Cardinality(writes') = Cardinality(writes) - 1
  BY <1>1, OneFewer DEF WritesOnce
<1>4. /\ batch' \in [kind : {None, "all", "close"}, left : Nat] /\ batch'.kind = batch.kind
      /\ (batch' = batch /\ batch = NoBatch) \/ (w.by = batch.kind /\ batch'.left = Cardinality(writes'))
  <2>1. CASE w.by = "save"
    BY <1>1, <2>1 DEF WritesOnce, Calls
  <2>2. CASE w.by # "save"
    <3>1. batch.kind = w.by /\ batch # NoBatch
      BY <1>1, <1>2, <2>2, NoBatchIsNone DEF WritesOnce
    <3>2. batch.left = Cardinality(writes) /\ batch \in [kind : {None, "all", "close"}, left : Nat]
      BY <1>1, <3>1 DEF WritesOnce, Calls
    <3>3. batch' = [batch EXCEPT !.left = Cardinality(writes')]
      BY <1>3, <2>2, <3>2
    <3> QED
      BY <1>3, <3>1, <3>2, <3>3
  <2> QED
    BY <2>1, <2>2
<1>5. Held' /\ Calls'
  BY <1>1, <1>2, <1>4 DEF Held, Calls
<1>6. ReadsAlone'
  BY <1>1 DEF ReadsAlone
<1>7. WritesOnce'
  <2>1. batch'.kind = None => batch' = NoBatch
    BY <1>1, <1>4, <1>2, NoBatchIsNone DEF WritesOnce
  <2>2. \A v \in writes' : v.by = "save" => batch' = NoBatch
    BY <1>1, <1>2, <1>4, NoBatchIsNone DEF WritesOnce
  <2>3. batch' # NoBatch => batch'.left = Cardinality(writes')
    BY <1>4
  <2> QED
    BY <1>1, <1>3, <1>4, <2>1, <2>2, <2>3 DEF WritesOnce
<1>8. OriginalIsKnown'
  <2> SUFFICES ASSUME batch.kind # "close", NEW f \in File
               PROVE  original'[f] \in {None, disk[f]} \/ \E v \in writes' : v.file = f /\ v.done /\ v.ok
    BY <1>4 DEF OriginalIsKnown
  <2>1. w.by # "close"
    BY <1>1, <1>4, NoBatchIsNone DEF WritesOnce
  <2>2. original[f] \in {None, disk[f]} \/ \E v \in writes : v.file = f /\ v.done /\ v.ok
    BY <1>1 DEF OriginalIsKnown
  <2>3. CASE f = w.file
    BY <1>1, <1>2, <2>1, <2>2, <2>3 DEF Held
  <2>4. CASE f # w.file
    BY <1>1, <1>2, <2>2, <2>4 DEF Held
  <2> QED
    BY <2>3, <2>4
<1>9. ClosingSaves'
  <2> SUFFICES ASSUME batch.kind = "close", "close" \notin Faults, NEW f \in File, Dirty(f)'
               PROVE  buffer[f] = disk[f] \/ \E v \in writes' : v.file = f
    BY <1>4 DEF ClosingSaves
  <2>1. w.by = "close"
    BY <1>4, NoBatchIsNone
  <2>2. Dirty(f) /\ w.ok /\ w.text = buffer[w.file]
    BY <1>1, <2>1 DEF Dirty, WritesOnce
  <2>3. buffer[f] = disk[f] \/ \E v \in writes : v.file = f
    BY <1>1, <2>2 DEF ClosingSaves
  <2> QED
    BY <1>2, <2>2, <2>3
<1> QED
  BY <1>5, <1>6, <1>7, <1>8, <1>9

\* The rest of handleSave: the file shown is the one that was written.
LEMMA SavedHolds ==
  ASSUME BuffersAssumption, BuffersInv, NEW w \in writes, Saved(w)
  PROVE  BuffersInv'
<1>1. Pane /\ WritesOnce /\ Calls
  BY Parts
<1>2. Held' /\ Calls' /\ ReadsAlone' /\ WritesOnce' /\ OriginalIsKnown' /\ ClosingSaves'
  BY WriteLeaves DEF Saved
<1>3. w.file = shown /\ w.file \in File /\ w.text \in TextOf(w.file)
  BY <1>1 DEF Saved, WritesOnce, Calls, Writing
<1>4. Proper(editor', shown)
  BY <1>1, <1>3, StatusIsProper, BaseIsProper, NoBatchIsNone DEF Saved
<1>5. Pane'
  BY <1>1, <1>4 DEF Pane, Saved
<1> QED
  BY <1>2, <1>5, PartsAfter

LEMMA BatchWrittenHolds ==
  ASSUME BuffersAssumption, BuffersInv, NEW w \in writes, BatchWritten(w)
  PROVE  BuffersInv'
<1>1. Pane /\ Calls
  BY Parts
<1>2. original' = IF w.ok /\ w.by # "close" THEN [original EXCEPT ![w.file] = w.text] ELSE original
  BY <1>1 DEF BatchWritten, Calls, Writing
<1>3. Held' /\ Calls' /\ ReadsAlone' /\ WritesOnce' /\ OriginalIsKnown' /\ ClosingSaves'
  BY <1>2, WriteLeaves DEF BatchWritten
<1>4. Pane'
  BY <1>1 DEF Pane, Proper, BatchWritten
<1> QED
  BY <1>3, <1>4, PartsAfter

\* The backend writes one file; the writes of the others are not disturbed.
LEMMA WriteFileHolds ==
  ASSUME BuffersAssumption, BuffersInv, NEW w \in writes, NEW ok \in BOOLEAN, WriteFile(w, ok)
  PROVE  BuffersInv'
<1>1. Held /\ Pane /\ Calls /\ ReadsAlone /\ WritesOnce /\ OriginalIsKnown /\ ClosingSaves
  BY Parts
<1> DEFINE x == [w EXCEPT !.done = TRUE, !.ok = ok]
<1>2. /\ UNCHANGED <<buffer, original, shown, editor, reads, batch>> /\ ~w.done
      /\ disk' = IF ok THEN [disk EXCEPT ![w.file] = w.text] ELSE disk
      /\ writes' = (writes \ {w}) \cup {x} /\ (ok \/ w.by \in Faults)
  BY DEF WriteFile
<1>3. /\ w \in Writing /\ w.file \in File /\ w.text \in TextOf(w.file) /\ w.text \in Texts
      /\ \A v \in writes : v.file = w.file => v = w
  BY <1>1 DEF Calls, Writing, WritesOnce
<1>4. x \in Writing /\ x.file = w.file /\ x.text = w.text /\ x.by = w.by /\ x.done /\ x.ok = ok
  BY <1>3 DEF Writing
<1> HIDE DEF x
<1>5. x \notin writes \ {w}
  BY <1>3, <1>4
<1>6. IsFiniteSet(writes') /\ Cardinality(writes') = Cardinality(writes)
  BY <1>1, <1>2, <1>5, OneReplaced DEF WritesOnce
<1>7. Held' /\ Pane' /\ Calls'
  BY <1>1, <1>2, <1>3, <1>4 DEF Held, Pane, Proper, Calls
<1>8. ReadsAlone'
  BY <1>1, <1>2 DEF ReadsAlone
<1>9. WritesOnce'
  <2>1. \A u, v \in writes' : u.file = v.file => u = v
    BY <1>1, <1>2, <1>3, <1>4 DEF WritesOnce
  <2>2. \A v \in writes \ {w} : disk'[v.file] = disk[v.file]
    BY <1>1, <1>2, <1>3 DEF Held, Calls, Writing
  <2>3. x.ok => disk'[x.file] = x.text
    BY <1>1, <1>2, <1>3, <1>4 DEF Held
  <2>4. /\ x.by = "save" => batch = NoBatch /\ x.file = shown
        /\ x.by # "save" => batch.kind = x.by
        /\ x.by = "close" => x.text = buffer[x.file] /\ (x.ok \/ "close" \in Faults)
    BY <1>1, <1>2, <1>4 DEF WritesOnce
  <2> QED
    BY <1>1, <1>2, <1>3, <1>4, <1>6, <2>1, <2>2, <2>3, <2>4 DEF WritesOnce
<1>10. OriginalIsKnown'
  <2> SUFFICES ASSUME batch.kind # "close", NEW f \in File
               PROVE  original[f] \in {None, disk'[f]} \/ \E v \in writes' : v.file = f /\ v.done /\ v.ok
    BY <1>2 DEF OriginalIsKnown
  <2>1. original[f] \in {None, disk[f]} \/ \E v \in writes : v.file = f /\ v.done /\ v.ok
    BY <1>1 DEF OriginalIsKnown
  <2>2. disk'[f] = disk[f] \/ (ok /\ f = w.file)
    BY <1>1, <1>2 DEF Held
  <2> QED
    BY <1>2, <1>4, <2>1, <2>2
<1>11. ClosingSaves'
  <2> SUFFICES ASSUME batch.kind = "close", "close" \notin Faults, NEW f \in File, Dirty(f)
               PROVE  buffer[f] = disk'[f] \/ \E v \in writes' : v.file = f
    BY <1>2 DEF ClosingSaves, Dirty
  <2>1. buffer[f] = disk[f] \/ \E v \in writes : v.file = f
    BY <1>1 DEF ClosingSaves
  <2>2. disk'[f] = disk[f] \/ f = w.file
    BY <1>1, <1>2 DEF Held
  <2> QED
    BY <1>2, <1>4, <2>1, <2>2
<1> QED
  BY <1>7, <1>8, <1>9, <1>10, <1>11, PartsAfter

\* The status of a save passes.
LEMMA StatusPassesHolds ==
  ASSUME BuffersAssumption, BuffersInv, StatusPasses
  PROVE  BuffersInv'
<1>1. Held /\ Pane /\ Calls /\ ReadsAlone /\ WritesOnce /\ OriginalIsKnown /\ ClosingSaves
  BY Parts
<1>2. UNCHANGED <<disk, buffer, original, shown, reads, writes, batch>>
  BY DEF StatusPasses
<1>3. Held' /\ Calls' /\ ReadsAlone' /\ WritesOnce' /\ OriginalIsKnown' /\ ClosingSaves'
  BY <1>1, <1>2 DEF Held, Calls, ReadsAlone, WritesOnce, OriginalIsKnown, ClosingSaves, Dirty
<1>4. Proper(editor', shown)
  BY <1>1, StatusIsProper DEF StatusPasses
<1>5. Pane'
  BY <1>1, <1>2, <1>4 DEF Pane
<1> QED
  BY <1>3, <1>5, PartsAfter

\* A batch that has nothing left has no write under way.
LEMMA BatchEnds ==
  ASSUME BuffersAssumption, BuffersInv, batch.kind # None, batch.left = 0
  PROVE  writes = {} /\ reads = {}
<1>1. WritesOnce /\ ReadsAlone /\ batch # NoBatch
  BY Parts, NoBatchIsNone
<1>2. IsFiniteSet(writes) /\ Cardinality(writes) = 0
  BY <1>1 DEF WritesOnce
<1> QED
  BY <1>1, <1>2, FS_EmptySet DEF ReadsAlone

\* The end of a "save-all" makes the editor clean.
LEMMA SavedAllHolds ==
  ASSUME BuffersAssumption, BuffersInv, SavedAll
  PROVE  BuffersInv'
<1>1. Held /\ Pane /\ OriginalIsKnown /\ writes = {} /\ reads = {}
  BY Parts, BatchEnds, NoBatchIsNone DEF SavedAll
<1>2. UNCHANGED <<disk, buffer, original, shown, reads, writes>> /\ batch' = NoBatch
  BY DEF SavedAll
<1>3. Held' /\ OriginalIsKnown'
  BY <1>1, <1>2, NoBatchIsNone DEF Held, OriginalIsKnown, SavedAll
<1>4. Calls' /\ ReadsAlone' /\ WritesOnce' /\ ClosingSaves'
  <2>1. WritesOnce
    BY Parts
  <2> QED
    BY <1>1, <1>2, <2>1, NoBatchIsNone DEF Calls, ReadsAlone, WritesOnce, ClosingSaves
<1>5. Pane'
  <2>1. shown # None => editor.text \in TextOf(shown)
    BY <1>1 DEF Pane, Proper
  <2>2. Proper(editor', shown)
    BY <1>1, <2>1, BaseIsProper DEF SavedAll, Pane
  <2> QED
    BY <1>1, <1>2, <2>2 DEF Pane
<1> QED
  BY <1>3, <1>4, <1>5, PartsAfter

\* The end of "Save and Delete All" drops the buffers, and the editor shows an empty text.
LEMMA SavedAndClosedHolds ==
  ASSUME BuffersAssumption, BuffersInv, SavedAndClosed
  PROVE  BuffersInv'
<1>1. Held /\ Pane /\ WritesOnce /\ writes = {} /\ reads = {}
  BY Parts, BatchEnds, NoBatchIsNone DEF SavedAndClosed
<1>2. /\ UNCHANGED <<disk, shown, reads, writes>> /\ batch' = NoBatch
      /\ buffer' = [f \in File |-> None] /\ original' = [f \in File |-> None]
  BY DEF SavedAndClosed
<1>3. Held' /\ OriginalIsKnown'
  BY <1>1, <1>2 DEF Held, OriginalIsKnown
<1>4. Calls' /\ ReadsAlone' /\ WritesOnce' /\ ClosingSaves'
  BY <1>1, <1>2, NoBatchIsNone DEF Calls, ReadsAlone, WritesOnce, ClosingSaves
<1>5. Pane'
  <2>1. shown # None => Proper(Rendered(editor, shown, [f \in File |-> None]), shown)
    BY <1>1, RenderedIsProper DEF Pane
  <2>2. Proper(editor', shown)
    BY <1>1, <2>1 DEF SavedAndClosed, Rendered, Pane
  <2> QED
    BY <1>1, <1>2, <2>2 DEF Pane
<1> QED
  BY <1>3, <1>4, <1>5, PartsAfter

\* "Delete All" drops the buffers and the tab.
LEMMA CloseAllHolds ==
  ASSUME BuffersAssumption, Patient, BuffersInv, CloseAll
  PROVE  BuffersInv'
<1>1. Held /\ reads = {} /\ writes = {} /\ batch = NoBatch
  BY Parts, NothingUnderWay DEF CloseAll
<1>2. /\ UNCHANGED <<disk, reads, writes, batch>> /\ shown' = None /\ editor' = Unmounted(editor)
      /\ buffer' = [f \in File |-> None] /\ original' = [f \in File |-> None]
  BY DEF CloseAll
<1>3. Held'
  BY <1>1, <1>2 DEF Held
<1>4. Calls' /\ ReadsAlone' /\ WritesOnce' /\ OriginalIsKnown' /\ ClosingSaves'
  BY <1>1, <1>2, StaysQuiet
<1>5. Pane'
  BY <1>2, UnmountedIsProper DEF Pane
<1> QED
  BY <1>3, <1>4, <1>5, PartsAfter

\* Every step keeps the invariant.
LEMMA StepHolds ==
  ASSUME BuffersAssumption, Patient, BuffersInv, [Next]_bufVars
  PROVE  BuffersInv'
<1>1. CASE UNCHANGED bufVars
  <2>1. Held /\ Pane /\ Calls /\ ReadsAlone /\ WritesOnce /\ OriginalIsKnown /\ ClosingSaves
    BY Parts
  <2>2. Held' /\ Pane' /\ Calls'
    BY <1>1, <2>1 DEF bufVars, Held, Pane, Proper, Calls
  <2>3. ReadsAlone' /\ WritesOnce' /\ OriginalIsKnown' /\ ClosingSaves'
    BY <1>1, <2>1 DEF bufVars, ReadsAlone, WritesOnce, OriginalIsKnown, ClosingSaves, Dirty
  <2> QED
    BY <2>2, <2>3, PartsAfter
<1>2. CASE UserStep
  BY <1>2, ShowHolds, TypeHolds, RevertHolds, SaveHolds, CloseAllHolds, SaveEachHolds DEF UserStep
<1>3. CASE Answer
  <2>1. ASSUME NEW r \in reads, ReadFile(r) \/ Loaded(r) \/ LoadFails(r)
        PROVE  BuffersInv'
    BY <2>1, ReadFileHolds, LoadedHolds, LoadFailsHolds
  <2>2. ASSUME NEW w \in writes, Saved(w) \/ BatchWritten(w) \/ \E ok \in BOOLEAN : WriteFile(w, ok)
        PROVE  BuffersInv'
    BY <2>2, SavedHolds, BatchWrittenHolds, WriteFileHolds
  <2>3. CASE SavedAll \/ SavedAndClosed \/ StatusPasses
    BY <2>3, SavedAllHolds, SavedAndClosedHolds, StatusPassesHolds
  <2> QED
    BY <1>3, <2>1, <2>2, <2>3 DEF Answer
<1> QED
  BY <1>1, <1>2, <1>3 DEF Next

----------------------------------------------------------------------------
(* The theorems.                                                           *)

\* The invariant holds whichever calls fail, when the user waits for reads and writes.
THEOREM BuffersInvariance ==
  ASSUME BuffersAssumption, Patient
  PROVE  Spec => []BuffersInv
<1>1. Init => BuffersInv
  BY InitHolds
<1>2. BuffersInv /\ [Next]_bufVars => BuffersInv'
  BY StepHolds
<1> QED
  BY <1>1, <1>2, PTL DEF Spec

\* With nothing under way the original of a file is what the file holds, whichever writes
\* failed before: a buffer equal to its original is saved (handleSave, "save-all", the load effect).
THEOREM OriginalsAreOnDisk ==
  ASSUME BuffersAssumption, Patient
  PROVE  Spec => []OriginalIsOnDisk
<1>1. BuffersInv => OriginalIsOnDisk
  <2> SUFFICES ASSUME BuffersInv, Quiet
               PROVE  \A f \in File : original[f] \in {None, disk[f]}
    BY DEF OriginalIsOnDisk
  <2>1. OriginalIsKnown /\ writes = {} /\ batch.kind # "close"
    BY Parts, NoBatchIsNone DEF Quiet
  <2> QED
    BY <2>1 DEF OriginalIsKnown
<1> QED
  BY <1>1, BuffersInvariance, PTL

\* No file, buffer or editor ever receives the text of another file, although one editor
\* shows one tab after another (the effect of CodeEditor on [initialContent, filePath]).
THEOREM TextsStayApart ==
  ASSUME BuffersAssumption, Patient
  PROVE  Spec => []OwnText
<1>1. BuffersInv => OwnText
  BY DEF BuffersInv
<1> QED
  BY <1>1, BuffersInvariance, PTL

\* No answer of the backend replaces or drops an unsaved text that is nowhere but in its
\* buffer, unless a write of "Save and Delete All" fails (handleSaveAndCloseAllTabs).
THEOREM UnsavedIsKept ==
  ASSUME BuffersAssumption, Patient, "close" \notin Faults
  PROVE  Spec => UnsavedSurvives
<1>1. ASSUME BuffersInv, NEW f \in File, Answer, Dirty(f), buffer[f] # disk[f]
      PROVE  buffer'[f] = buffer[f]
  <2>1. ASSUME NEW r \in reads, ReadFile(r) \/ Loaded(r) \/ LoadFails(r)
        PROVE  buffer'[f] = buffer[f]
    <3>1. buffer \in [File -> Texts \cup {None}] /\ buffer[r.file] = None /\ buffer[f] # None
      BY <1>1, Parts DEF Held, ReadsAlone, Dirty
    <3> QED
      BY <2>1, <3>1 DEF ReadFile, Loaded, LoadFails
  <2>2. ASSUME NEW w \in writes, Saved(w) \/ BatchWritten(w) \/ \E ok \in BOOLEAN : WriteFile(w, ok)
        PROVE  buffer'[f] = buffer[f]
    BY <2>2 DEF Saved, BatchWritten, WriteFile
  <2>3. ~SavedAndClosed
    <3>1. SUFFICES ASSUME SavedAndClosed
                   PROVE  FALSE
      OBVIOUS
    <3>2. writes = {} /\ batch.kind = "close"
      BY <1>1, <3>1, BatchEnds, NoBatchIsNone DEF SavedAndClosed
    <3> QED
      BY <1>1, <3>2, Parts DEF ClosingSaves
  <2>4. CASE SavedAll \/ StatusPasses
    BY <2>4 DEF SavedAll, StatusPasses
  <2> QED
    BY <1>1, <2>1, <2>2, <2>3, <2>4 DEF Answer
<1>2. BuffersInv =>
        \A f \in File : Answer /\ Dirty(f) /\ buffer[f] # disk[f] => buffer'[f] = buffer[f]
  BY <1>1
<1> QED
  BY <1>2, BuffersInvariance, PTL DEF UnsavedSurvives
=============================================================================
