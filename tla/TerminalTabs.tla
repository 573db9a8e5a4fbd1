---------------------------- MODULE TerminalTabs ----------------------------
(***************************************************************************)
(* The shells of the projects: the tabs that useTerminal.ts keeps, the     *)
(* sessions terminal.rs keeps behind them, and the xterm instances         *)
(* TerminalPanel.tsx mounts for the tabs it shows.                         *)
(*                                                                         *)
(* An output is a number, the position at which it was buffered.  Names of *)
(* tabs, sizes and colours are left out; a rename counts because it mounts *)
(* every instance anew.                                                    *)
(***************************************************************************)
EXTENDS Naturals, Sequences, FiniteSets, SequencesExt

CONSTANTS
    Project,        \* projects
    None,           \* no project, no tab
    MaxTab,         \* MaxTab[p]: bound on the tabs of p that get an id of their own
    MaxOutput,      \* bound on the outputs of a tab
    MaxCalls,       \* bound on the handlers under way
    Patient,        \* TRUE: the user acts when no handler is under way
    Early           \* TRUE: a shell may write while an instance of it is not
                    \* listening yet

TerminalAssumption == None \notin Project /\ MaxTab \in [Project -> Nat] /\ {MaxOutput, MaxCalls} \subseteq Nat

VARIABLES
    registered,     \* the projects that are there
    active,         \* activeProjectId
    view,           \* "terminal", or "other": another viewMode, or no panel
    tabs,           \* projectTerminals: per project its tabs
    current,        \* activeTerminalIds
    used,           \* per project the number of ids made from the time
    status,         \* terminalStatuses, "none" without an entry
    sessions,       \* terminal_sessions of the ProcessManager
    buffer,         \* terminalBufferRef: the number of outputs of a tab
    screens,        \* instancesRef: what an instance shows, or None
    handlers        \* asynchronous functions under way

terminalVars == <<registered, active, view, tabs, current, used, status,
                  sessions, buffer, screens, handlers>>
tabVars == <<tabs, current, used>>

Tab == UNION {{p} \X (0..MaxTab[p]) : p \in Project}
DefaultTab(p) == <<p, 0>>
Of(t) == t[1]
Idle == handlers = {}
Free == Patient => Idle

Handler(kind, p, t, todo) == [kind |-> kind, of |-> p, tab |-> t, todo |-> todo, ok |-> FALSE]
Spawning(t) == Handler("spawn", Of(t), t, <<>>)
Becomes(h, H) == handlers' = (handlers \ {h}) \cup H
Calls(h) == h \notin handlers /\ Cardinality(handlers) < MaxCalls /\ handlers' = handlers \cup {h}

Init ==
    /\ registered = Project
    /\ active = None
    /\ view = "other"
    /\ tabs = [p \in Project |-> <<>>]
    /\ current = [p \in Project |-> None]
    /\ used = [p \in Project |-> 0]
    /\ status = [t \in Tab |-> "none"]
    /\ sessions = {}
    /\ buffer = [t \in Tab |-> 0]
    /\ screens = [t \in Tab |-> None]
    /\ handlers = {}

----------------------------------------------------------------------------
(* The panel.                                                              *)

TabsOf(p, ts) == IF p = None THEN <<>> ELSE ts[p]

Mounted(t) == [listening |-> FALSE, cleared |-> 0, shown |-> 1..buffer[t]]

\* Only the view of the terminals renders a container per tab.
Containers(p, v, ts) == IF v = "terminal" THEN Range(TabsOf(p, ts)) ELSE {}

\* The effect on the tabs and the view: it disposes all instances, and
\* mounts one for each container, which replays the buffer.
Remount(p, v, ts) ==
    screens' = [t \in Tab |-> IF t \in Containers(p, v, ts) THEN Mounted(t) ELSE None]
RemountIfShown(p) ==
    IF p = active THEN Remount(active, view, tabs') ELSE UNCHANGED screens

SetView(v) ==
    /\ v # view
    /\ view' = v
    /\ Remount(active, v, tabs)
    /\ UNCHANGED <<registered, active, tabVars, status, sessions, buffer, handlers>>

Deaf(t) == screens[t] # None /\ ~screens[t].listening

\* listen() has answered: from here on the instance gets the outputs.
Listen(t) ==
    /\ Deaf(t)
    /\ screens' = [screens EXCEPT ![t].listening = TRUE]
    /\ UNCHANGED <<registered, active, view, tabVars, status, sessions, buffer, handlers>>

\* A shell writes: the listener of the hook buffers, that of an instance shows.
Output(t) ==
    /\ t \in sessions /\ buffer[t] < MaxOutput
    /\ Deaf(t) => Early
    /\ buffer' = [buffer EXCEPT ![t] = @ + 1]
    /\ screens' = IF screens[t] # None /\ screens[t].listening
                  THEN [screens EXCEPT ![t].shown = @ \cup {buffer'[t]}] ELSE screens
    /\ UNCHANGED <<registered, active, view, tabVars, status, sessions, handlers>>

Current == IF active = None THEN None ELSE current[active]
ActiveStatus ==
    IF Current = None THEN "disconnected"
    ELSE IF status[Current] = "none" THEN "connecting" ELSE status[Current]

\* What the header, the overlay and the sidebar of the view offer.
HeaderOffers == IF view = "terminal" THEN {"respawn", "clear"} ELSE {}
OverlayOffers == IF view = "terminal" /\ ActiveStatus = "error" THEN {"retry"} ELSE {}
SidebarOffers == IF view = "terminal" THEN {"add", "delete", "delete all", "select", "rename"} ELSE {}

\* clearScreen: the instance, and an escape sequence to the shell.
Clear ==
    /\ "clear" \in HeaderOffers /\ Current # None /\ screens[Current] # None
    /\ screens' = [screens EXCEPT ![Current].cleared = buffer[Current], ![Current].shown = {}]
    /\ UNCHANGED <<registered, active, view, tabVars, status, sessions, buffer, handlers>>

----------------------------------------------------------------------------
(* The hook.                                                               *)

\* The effect on the active project: a project without tabs gets one.
Select(p) ==
    /\ Free
    /\ p \in registered \ {active}
    /\ active' = p
    /\ IF tabs[p] # <<>> THEN UNCHANGED <<tabVars, status, handlers>>
       ELSE /\ tabs' = [tabs EXCEPT ![p] = <<DefaultTab(p)>>]
            /\ current' = [current EXCEPT ![p] = DefaultTab(p)]
            /\ status' = [status EXCEPT ![DefaultTab(p)] = "connecting"]
            /\ Calls(Spawning(DefaultTab(p)))
            /\ UNCHANGED used
    /\ Remount(p, view, tabs')
    /\ UNCHANGED <<registered, view, sessions, buffer>>

NewTab(p) == <<p, used[p] + 1>>

AddTerminal ==
    /\ Free
    /\ "add" \in SidebarOffers /\ active # None /\ used[active] < MaxTab[active]
    /\ LET t == NewTab(active) IN
       /\ tabs' = [tabs EXCEPT ![active] = Append(@, t)]
       /\ current' = [current EXCEPT ![active] = t]
       /\ used' = [used EXCEPT ![active] = @ + 1]
       /\ status' = [status EXCEPT ![t] = "connecting"]
       /\ Calls(Spawning(t))
    /\ RemountIfShown(active)
    /\ UNCHANGED <<registered, active, view, sessions, buffer>>

SelectTerminal(t) ==
    /\ "select" \in SidebarOffers /\ t \in Range(TabsOf(active, tabs)) /\ t # Current
    /\ current' = [current EXCEPT ![active] = t]
    /\ UNCHANGED <<registered, active, view, tabs, used, status, sessions, buffer, screens, handlers>>

\* A new name makes a new list of tabs.
RenameTerminal(t) ==
    /\ "rename" \in SidebarOffers /\ t \in Range(TabsOf(active, tabs))
    /\ Remount(active, view, tabs)
    /\ UNCHANGED <<registered, active, view, tabVars, status, sessions, buffer, handlers>>

DeleteTerminal(t) ==
    /\ Free
    /\ "delete" \in SidebarOffers /\ t \in Range(TabsOf(active, tabs))
    /\ Calls(Handler("delete", active, t, <<>>))
    /\ UNCHANGED <<registered, active, view, tabVars, status, sessions, buffer, screens>>

DeleteAllTerminals ==
    /\ Free
    /\ "delete all" \in SidebarOffers /\ active # None /\ used[active] < MaxTab[active]
    /\ Calls(Handler("delete all", active, None, tabs[active]))
    /\ UNCHANGED <<registered, active, view, tabVars, status, sessions, buffer, screens>>

RespawnTerminal ==
    /\ Free
    /\ "respawn" \in HeaderOffers /\ Current # None
    /\ Calls(Handler("respawn", active, Current, <<>>))
    /\ UNCHANGED <<registered, active, view, tabVars, status, sessions, buffer, screens>>

RetrySpawn ==
    /\ Free
    /\ "retry" \in OverlayOffers
    /\ Calls(Spawning(Current))
    /\ status' = [status EXCEPT ![Current] = "connecting"]
    /\ UNCHANGED <<registered, active, view, tabVars, sessions, buffer, screens>>

\* spawn_terminal_session ends the old session first.
SpawnWorks(h, ok) ==
    /\ h.kind = "spawn"
    /\ sessions' = IF ok THEN sessions \cup {h.tab} ELSE sessions \ {h.tab}
    /\ Becomes(h, {[h EXCEPT !.kind = IF ok THEN "check" ELSE "spawned"]})
    /\ UNCHANGED <<registered, active, view, tabVars, status, buffer, screens>>

CheckWorks(h) ==
    /\ h.kind = "check"
    /\ Becomes(h, {[h EXCEPT !.kind = "spawned", !.ok = h.tab \in sessions]})
    /\ UNCHANGED <<registered, active, view, tabVars, status, sessions, buffer, screens>>

Spawned(h) ==
    /\ h.kind = "spawned"
    /\ Becomes(h, {})
    /\ status' = [status EXCEPT ![h.tab] = IF h.ok THEN "connected" ELSE "error"]
    /\ UNCHANGED <<registered, active, view, tabVars, sessions, buffer, screens>>

DeleteWorks(h) ==
    /\ h.kind = "delete"
    /\ sessions' = sessions \ {h.tab}
    /\ Becomes(h, {[h EXCEPT !.kind = "deleted"]})
    /\ UNCHANGED <<registered, active, view, tabVars, status, buffer, screens>>

\* A list has a tab once, so that the filter takes one out.
Without(s, t) == IF t \in Range(s) THEN RemoveAt(s, CHOOSE i \in DOMAIN s : s[i] = t) ELSE s

Deleted(h) ==
    /\ h.kind = "deleted"
    /\ Becomes(h, {})
    /\ status' = [status EXCEPT ![h.tab] = "none"]
    /\ tabs' = [tabs EXCEPT ![h.of] = Without(@, h.tab)]
    /\ current' = [current EXCEPT ![h.of] =
          IF @ # h.tab THEN @ ELSE IF tabs'[h.of] = <<>> THEN None ELSE Head(tabs'[h.of])]
    /\ RemountIfShown(h.of)
    /\ UNCHANGED <<registered, active, view, used, sessions, buffer>>

\* deleteAllTerminals: the sessions one after the other, then a new tab.
DeleteAllWorks(h) ==
    /\ h.kind = "delete all" /\ h.todo # <<>>
    /\ sessions' = sessions \ {Head(h.todo)}
    /\ status' = [status EXCEPT ![Head(h.todo)] = "none"]
    /\ Becomes(h, {[h EXCEPT !.todo = Tail(@)]})
    /\ UNCHANGED <<registered, active, view, tabVars, buffer, screens>>

AllDeleted(h) ==
    /\ h.kind = "delete all" /\ h.todo = <<>> /\ used[h.of] < MaxTab[h.of]
    /\ LET t == NewTab(h.of) IN
       /\ tabs' = [tabs EXCEPT ![h.of] = <<t>>]
       /\ current' = [current EXCEPT ![h.of] = t]
       /\ used' = [used EXCEPT ![h.of] = @ + 1]
       /\ status' = [status EXCEPT ![t] = "connecting"]
       /\ Becomes(h, {Spawning(t)})
    /\ RemountIfShown(h.of)
    /\ UNCHANGED <<registered, active, view, sessions, buffer>>

RespawnWorks(h) ==
    /\ h.kind = "respawn"
    /\ sessions' = sessions \ {h.tab}
    /\ Becomes(h, {[h EXCEPT !.kind = "killed"]})
    /\ UNCHANGED <<registered, active, view, tabVars, status, buffer, screens>>

Killed(h) ==
    /\ h.kind = "killed"
    /\ Becomes(h, {Spawning(h.tab)})
    /\ status' = [status EXCEPT ![h.tab] = "connecting"]
    /\ UNCHANGED <<registered, active, view, tabVars, sessions, buffer, screens>>

\* handleDeleteProject.  It kills the sessions of projectTerminals, which
\* App passes from a ref that nothing sets: none.
DeleteProject(p) ==
    /\ Free
    /\ p \in registered
    /\ registered' = registered \ {p}
    /\ active' = IF active = p THEN None ELSE active
    /\ tabs' = [tabs EXCEPT ![p] = <<>>]
    /\ current' = [current EXCEPT ![p] = None]
    /\ IF active = p THEN Remount(None, view, tabs') ELSE UNCHANGED screens
    /\ UNCHANGED <<view, used, status, sessions, buffer, handlers>>

Next ==
    \/ \E p \in Project : Select(p) \/ DeleteProject(p)
    \/ \E v \in {"terminal", "other"} : SetView(v)
    \/ \E t \in Tab : Listen(t) \/ Output(t) \/ SelectTerminal(t) \/ RenameTerminal(t) \/ DeleteTerminal(t)
    \/ Clear \/ AddTerminal \/ DeleteAllTerminals \/ RespawnTerminal \/ RetrySpawn
    \/ \E h \in handlers :
          \/ CheckWorks(h) \/ Spawned(h) \/ DeleteWorks(h) \/ Deleted(h) \/ DeleteAllWorks(h)
          \/ AllDeleted(h) \/ RespawnWorks(h) \/ Killed(h)
          \/ \E ok \in BOOLEAN : SpawnWorks(h, ok)

Spec == Init /\ [][Next]_terminalVars

----------------------------------------------------------------------------
\* When no handler is under way, the sessions of a project are those of its
\* connected tabs, no tab is left connecting, and the current tab is one of
\* the tabs (useTerminal.ts:59-197).
SessionsHaveTabs ==
    Idle => \A p \in registered :
       /\ {t \in sessions : Of(t) = p} = {t \in Range(tabs[p]) : status[t] = "connected"}
       /\ \A t \in Range(tabs[p]) : status[t] \in {"connected", "error"}
       /\ tabs[p] # <<>> => current[p] \in Range(tabs[p])

\* An instance shows all its tab has put out since it was cleared, however
\* often the views, the projects and the tabs changed (TerminalPanel.tsx:842).
ScreenIsBuffer ==
    \A t \in Tab : screens[t] # None => screens[t].shown = screens[t].cleared + 1 .. buffer[t]

(***************************************************************************)
(* Why they hold of a user who waits, when no shell writes to an instance  *)
(* that is not listening: what is to be true when the handler under way    *)
(* has ended is true by then of every tab but those it has begun with.     *)
(***************************************************************************)
IsScreen(x, n) ==
    /\ x = [listening |-> x.listening, cleared |-> x.cleared, shown |-> x.shown]
    /\ x.cleared \in 0..n /\ x.shown = x.cleared + 1 .. n
TypesOK ==
    /\ registered \subseteq Project /\ active \in registered \cup {None}
    /\ tabs \in [Project -> Seq(Tab)] /\ current \in [Project -> Tab \cup {None}] /\ used \in [Project -> Nat]
    /\ status \in [Tab -> {"none", "connecting", "connected", "error"}] /\ sessions \subseteq Tab
ScreensOK ==
    /\ buffer \in [Tab -> Nat]
    /\ DOMAIN screens = Tab /\ \A t \in Tab : screens[t] = None \/ IsScreen(screens[t], buffer[t])
ListsOK ==
    \A p \in Project :
       /\ IsInjective(tabs[p])
       /\ \A t \in Range(tabs[p]) : Of(t) = p /\ t[2] <= used[p]
       /\ IF tabs[p] = <<>> THEN current[p] = None ELSE current[p] \in Range(tabs[p])
AgreeBut(T) ==
    \A t \in Tab \ T : Of(t) \in registered =>
       /\ t \in sessions <=> t \in Range(tabs[Of(t)]) /\ status[t] = "connected"
       /\ t \in Range(tabs[Of(t)]) => status[t] \in {"connected", "error"}
HandlerOK(h) ==
    /\ h = [kind |-> h.kind, of |-> h.of, tab |-> h.tab, todo |-> h.todo, ok |-> h.ok]
    /\ h.of \in registered
    /\ h.kind # "delete all" => h.tab \in Range(tabs[h.of])
    /\ h.ok <=> h.kind = "spawned" /\ h.tab \in sessions
    /\ \/ h.kind \in {"delete", "respawn"} /\ AgreeBut({})
       \/ h.kind \in {"spawn", "killed", "spawned"} /\ AgreeBut({h.tab})
       \/ h.kind = "check" /\ AgreeBut({h.tab}) /\ h.tab \in sessions
       \/ h.kind = "deleted" /\ AgreeBut({h.tab}) /\ h.tab \notin sessions
       \/ /\ h.kind = "delete all"
          /\ h.todo \in Seq(Tab) /\ IsInjective(h.todo) /\ Range(h.todo) \subseteq Range(tabs[h.of])
          /\ LET done == Range(tabs[h.of]) \ Range(h.todo) IN AgreeBut(done) /\ done \cap sessions = {}
TabsInv ==
    /\ TypesOK /\ ScreensOK /\ ListsOK
    /\ (Idle /\ AgreeBut({})) \/ \E h \in handlers : handlers = {h} /\ HandlerOK(h)

\* "Clean up all sessions on unmount / project switch" (useTerminal.ts:18):
\* a project that is gone has no session.
DeletedHasNoSession == Idle => \A t \in sessions : Of(t) \in registered
=============================================================================
