---------------------------- MODULE EditorPanes ----------------------------
(***************************************************************************)
(* The split editor of App.tsx: up to MaxPanes panes of tabs, the pane     *)
(* that is active, and the copy of the active pane that useProjects keeps  *)
(* and writes to the saved session.                                        *)
(*                                                                         *)
(* React handlers close over the state of the render that made them.  An   *)
(* open that goes through a file dialog, a registration and a timer, and a *)
(* tab drag, run with the pane index and tab index of the time they began; *)
(* "opening" and "drag" hold what they captured.                           *)
(***************************************************************************)
EXTENDS Naturals, Sequences, SequencesExt

CONSTANTS
    Path,           \* files that can be opened
    NoPath,         \* null
    MaxPanes,       \* 3 in the code
    Undisturbed     \* TRUE: the user leaves panes and tabs alone while an
                    \* open is under way and while a tab is dragged

PanesAssumption ==
    /\ NoPath \notin Path
    /\ MaxPanes \in Nat \ {0}
    /\ Undisturbed \in BOOLEAN

VARIABLES
    panes,          \* panes[i].files the tabs, panes[i].shown the selected one
    active,         \* activePaneIndex, from 1
    hook,           \* openFiles and openFilePath of useProjects, as saved
    opening,        \* delayed opens: path and captured pane index
    drag,           \* the drag under way, or none
    torn            \* an updater threw: React unmounts the tree

panesVars == <<panes, active, hook, opening, drag, torn>>

Pane == [files : Seq(Path), shown : Path \cup {NoPath}]
EmptyPane == [files |-> <<>>, shown |-> NoPath]
NoDrag == [pane |-> 0, tab |-> 0, path |-> NoPath]

Init ==
    /\ panes = <<EmptyPane>>
    /\ active = 1
    /\ hook = EmptyPane
    /\ opening = {}
    /\ drag = NoDrag
    /\ torn = FALSE

Calm == Undisturbed => opening = {} /\ drag = NoDrag

Last1(s) == IF s = <<>> THEN NoPath ELSE s[Len(s)]
\* A file has one tab in a pane at most, so that a filter takes one out.
Without(s, p) == IF p \in ToSet(s) THEN RemoveAt(s, CHOOSE i \in DOMAIN s : s[i] = p) ELSE s
OneOf(i, lo, hi) == IF i < lo THEN lo ELSE IF i > hi THEN hi ELSE i

\* The effect that copies the active pane into useProjects; the effect
\* there that saves the session runs in the same flush.
Synced(ps, i) ==
    /\ panes' = ps
    /\ active' = i
    /\ hook' = IF i \in DOMAIN ps THEN ps[i] ELSE hook

OpenedAgain(pane, p) ==
    [files |-> Append(pane.files, p), shown |-> p]

\* handleFileOpenCustom and handleFileOpenSide, inside their updaters.
Opened(pane, p) ==
    [files |-> IF p \in ToSet(pane.files) THEN pane.files ELSE Append(pane.files, p),
     shown |-> p]

Closed(pane, p) ==
    LET rest == Without(pane.files, p)
    IN  [files |-> rest, shown |-> IF pane.shown = p THEN Last1(rest) ELSE pane.shown]

\* What the header of a pane offers: its tabs, to select, drag and close,
\* and with them the menu that closes all; an empty pane has no header.
Header(i) == [tabs |-> panes[i].files, menu |-> panes[i].files # <<>>]

\* handleFileOpenCustom with the pane index i of the render it closed over.
OpenIn(i, p) ==
    IF i \in DOMAIN panes
    THEN Synced([panes EXCEPT ![i] = Opened(@, p)], active) /\ UNCHANGED torn
    ELSE torn' = TRUE /\ UNCHANGED <<panes, active, hook>>

Open(p) == Calm /\ OpenIn(active, p) /\ UNCHANGED <<opening, drag>>

\* "open-file": the dialog, the registration of the folder and a timer of
\* 150 ms pass between the choice of handler and the open.
OpenLater(p) ==
    /\ Calm
    /\ opening' = opening \cup {[path |-> p, pane |-> active]}
    /\ UNCHANGED <<panes, active, hook, drag, torn>>

\* "open-saved-as-file": the listener was made by the first render, so it
\* always names the first pane.
SavedAs(p) ==
    /\ Calm
    /\ opening' = opening \cup {[path |-> p, pane |-> 1]}
    /\ UNCHANGED <<panes, active, hook, drag, torn>>

OpenNow(o) ==
    /\ Undisturbed => drag = NoDrag
    /\ opening' = opening \ {o}
    /\ OpenIn(o.pane, o.path)
    /\ UNCHANGED drag

OpenSide(p) ==
    /\ Calm
    /\ IF Len(panes) >= MaxPanes
       THEN Synced([panes EXCEPT ![active] = Opened(@, p)], active)
       ELSE Synced(Append(panes, [files |-> <<p>>, shown |-> p]), Len(panes) + 1)
    /\ UNCHANGED <<opening, drag, torn>>

CloseTab(i, p) ==
    /\ Calm
    /\ p \in ToSet(Header(i).tabs)
    /\ Synced([panes EXCEPT ![i] = Closed(@, p)], active)
    /\ UNCHANGED <<opening, drag, torn>>

\* Ctrl+W, which the pointer does not have to be free for.
CloseEditor ==
    /\ Calm
    /\ hook.shown # NoPath
    /\ Synced([panes EXCEPT ![active] = Closed(@, hook.shown)], active)
    /\ UNCHANGED <<opening, drag, torn>>

CloseAll ==
    /\ Calm
    /\ \E i \in DOMAIN panes : Header(i).menu
    /\ Synced(<<EmptyPane>>, 1)
    /\ UNCHANGED <<opening, drag, torn>>

\* "Save and Delete All" is useProjects' handler: it empties the hook's
\* copy, and the panes of App keep their tabs.
SaveAndCloseAll ==
    /\ Calm
    /\ \E i \in DOMAIN panes : Header(i).menu
    /\ hook' = EmptyPane
    /\ UNCHANGED <<panes, active, opening, drag, torn>>

Select(i, p) ==
    /\ Calm
    /\ p \in ToSet(Header(i).tabs)
    /\ Synced([panes EXCEPT ![i].shown = p], i)
    /\ UNCHANGED <<opening, drag, torn>>

ClickPane(i) ==
    /\ Calm
    /\ i # active
    /\ Synced(panes, i)
    /\ UNCHANGED <<opening, drag, torn>>

Split ==
    /\ Calm
    /\ Len(panes) < MaxPanes
    /\ LET p == panes[active].shown
           new == [files |-> IF p = NoPath THEN <<>> ELSE <<p>>, shown |-> p]
       IN  Synced(Append(panes, new), Len(panes) + 1)
    /\ UNCHANGED <<opening, drag, torn>>

ClosePane(i) ==
    /\ Calm
    /\ Len(panes) > 1
    /\ Synced(RemoveAt(panes, i), 1)
    /\ UNCHANGED <<opening, drag, torn>>

\* Pointer down on a tab, then more than four pixels of movement.
DragTab(i, k) ==
    /\ Calm
    /\ drag = NoDrag
    /\ drag' = [pane |-> i, tab |-> k, path |-> Header(i).tabs[k]]
    /\ UNCHANGED <<panes, active, hook, opening, torn>>

MovedAfterInsert(pane, from, to, p) ==
    LET more == InsertAt(pane.files, OneOf(to, 1, Len(pane.files) + 1), p)
    IN  [files |-> IF from \in DOMAIN more THEN RemoveAt(more, from) ELSE more, shown |-> p]

\* performTabMove within one pane: the captured position is removed,
\* whatever is there now, and the dragged path inserted.
MovedWithin(pane, from, to, p) ==
    LET rest == IF from \in DOMAIN pane.files THEN RemoveAt(pane.files, from) ELSE pane.files
        at == OneOf(IF from < to THEN to - 1 ELSE to, 1, Len(rest) + 1)
    IN  [files |-> InsertAt(rest, at, p), shown |-> p]

Received(pane, to, p) ==
    LET rest == Without(pane.files, p)
    IN  [files |-> InsertAt(rest, OneOf(to, 1, Len(rest) + 1), p), shown |-> p]

Moved(from, tab, to, at, p) ==
    IF from \notin DOMAIN panes \/ to \notin DOMAIN panes THEN panes
    ELSE IF from = to THEN [panes EXCEPT ![to] = MovedWithin(@, tab, at, p)]
    ELSE [panes EXCEPT ![from] = Closed(@, p), ![to] = Received(@, at, p)]

\* The tab is dropped on tab "at" of pane "to", or past its last tab.
Drop(to, at) ==
    /\ drag # NoDrag
    /\ Undisturbed => opening = {}
    /\ Synced(Moved(drag.pane, drag.tab, to, at, drag.path), to)
    /\ drag' = NoDrag
    /\ UNCHANGED <<opening, torn>>

\* The window is closed or reloaded; the next start reads the session.
Restart ==
    /\ LET first == IF hook.files = <<>> THEN EmptyPane
                    ELSE [hook EXCEPT !.shown = IF @ = NoPath THEN hook.files[1] ELSE @]
       IN  Synced(<<first>>, 1)
    /\ opening' = {}
    /\ drag' = NoDrag
    /\ torn' = FALSE

Next ==
    \/ /\ ~torn
       /\ \/ \E p \in Path : Open(p) \/ OpenLater(p) \/ SavedAs(p) \/ OpenSide(p)
          \/ \E o \in opening : OpenNow(o)
          \/ \E i \in DOMAIN panes :
                \/ \E p \in Path : CloseTab(i, p) \/ Select(i, p)
                \/ ClickPane(i) \/ ClosePane(i)
                \/ \E k \in DOMAIN panes[i].files : DragTab(i, k)
                \/ \E k \in 1 .. Len(panes[i].files) + 1 : Drop(i, k)
          \/ CloseEditor \/ CloseAll \/ SaveAndCloseAll \/ Split
    \/ Restart

Spec == Init /\ [][Next]_panesVars

----------------------------------------------------------------------------
\* Every pane's selected tab is one of its tabs, no tab is there twice
\* (React keys its tabs by path), and the active index names a pane.
PanesOK ==
    /\ panes \in Seq(Pane) /\ Len(panes) \in 1 .. MaxPanes
    /\ active \in DOMAIN panes
    /\ \A i \in DOMAIN panes :
          /\ IsInjective(panes[i].files)
          /\ panes[i].shown \in ToSet(panes[i].files) \cup {NoPath}

(***************************************************************************)
(* Why it holds of a user who leaves the panes alone meanwhile: the hook's *)
(* copy, which a restart makes a pane of, is as good as a pane; an open    *)
(* under way names a pane that there is, and a drag a tab where it is.     *)
(***************************************************************************)
PaneOK(pane) ==
    /\ pane \in Pane
    /\ IsInjective(pane.files)
    /\ pane.shown \in ToSet(pane.files) \cup {NoPath}
PanesInv ==
    /\ panes \in Seq(Pane) /\ Len(panes) \in 1 .. MaxPanes
    /\ active \in DOMAIN panes
    /\ \A i \in DOMAIN panes : PaneOK(panes[i])
    /\ PaneOK(hook)
    /\ \A o \in opening : o.pane \in DOMAIN panes /\ o.path \in Path
    /\ drag = NoDrag \/ (/\ drag.pane \in DOMAIN panes
                        /\ drag.tab \in DOMAIN panes[drag.pane].files
                        /\ drag.path = panes[drag.pane].files[drag.tab])
    /\ ~torn

\* No delayed handler writes to a pane that is gone: App.tsx spreads
\* copy[activePaneIndex] without looking whether it exists.
NeverTorn == ~torn

AllTabs(ps) == UNION {ToSet(ps[i].files) : i \in DOMAIN ps}

\* Dropping a tab moves it: no other tab is lost and none appears twice.
DropKeepsTabs ==
    [][(\E to \in DOMAIN panes : \E at \in 1 .. Len(panes[to].files) + 1 : Drop(to, at))
       => AllTabs(panes') = AllTabs(panes)]_panesVars

\* "Sync back to projectHook when active pane or its selected file
\* changes" (App.tsx:517): the hook has the tabs the active pane shows.
HookFollows == ~torn => hook = panes[active]
=============================================================================
