------------------------------ MODULE Workbench ------------------------------
(***************************************************************************)
(* The parts of the workbench side by side: panes, buffers, the explorer,  *)
(* source control, the list of projects, the agent's project, the          *)
(* suggestions and the search of the editors, the terminals and their      *)
(* input, and the tunnels.  They share no state, so one behaviour exercises*)
(* one part and the states add up.                                         *)
(*                                                                         *)
(* The parts that WorkbenchProofs proves about take their parameters from  *)
(* the constants; each is used by a user who waits.                        *)
(***************************************************************************)
EXTENDS Naturals, Sequences, FiniteSets

CONSTANTS
    None,           \* null
    MaxCalls,       \* bound on the calls under way of a part
    Files,          \* files to open in panes,
    MaxPanes,       \*   and how many panes there can be: 3 in the code
    Edited,         \* files to type into and save,
    Version,        \*   the texts typed into them,
    Blank,          \*   the empty text,
    Faults,         \*   and the calls that may fail
    Cwd,            \* working directories of projects,
    Name, Folder,   \*   names in them, for the explorer,
    Git,            \*   and for source control those that are repositories,
    Tracked,        \*   their files,
    Content,        \*   the contents of those,
    MaxCommits      \*   and the bound on commits

CONSTANTS
    Project,        \* projects of the list, numbers
    NewProject,     \* "__create_project__"
    MaxEvents,      \* bound on the status events on their way
    AgentProject,   \* projects that the agent switches between,
    AgentPanel,     \*   its panel,
    MaxSeq, MaxClock, MaxSessions,  \* see ProjectSwitch
    MaxEditors,     \* bounds on the editors mounted, on the requests for
    MaxTyped,       \*   suggestions,
    MaxMade,        \*   and on the two together
    Query, Short,   \* queries to search for, and one too short for it,
    Found,          \*   the files found,
    SearchPane,     \*   the panes they are opened in,
    MaxHits,        \*   and the bound on the results
    TermProject,    \* projects with terminals,
    Adding,         \*   those in which terminals are added,
    MaxTabs,        \*   and how many in each,
    MaxOutput,      \*   and the bound on the outputs of one
    Token,          \* tokens for tunnels,
    TunnelProject,  \*   projects whose tunnels are named,
    TunnelName,     \*   the names,
    Sharing,        \*   projects whose tunnels are not,
    MaxTunnels,     \*   and the bounds on tunnels
    MaxWaiting      \*   and on the calls for them

VARIABLES
    part,           \* the part that this behaviour is about
    panes, focused, hook, opening, drag, torn,
    bufDisk, buffer, original, hookFile, bufLoading, failed, shown, editor,
    reads, writes, batch, claimed,
    treeDisk, treeCwd, files, open, treeLoading, treeCalls, last, unheard,
    repo, cwd, status, commits, message, gitLoading, acting, gitCalls, claim, touched,
    registry, running, events, projects, states, activeProject, form, confirm,
    conflict, handlers, launch,
    agentPanels, agentSeq, agentProject, agentRoot, agentRegistry, agentClock,
    registered, termProject, view, tabs, current, used, termStatus, sessions, outputs,
    screens, termHandlers,
    composing, lastIme, pty, timer, ends, typing, inputBuf, history, line, screenLine,
    ime, typed, ran,
    cloudflare, panel, tunnelProject, renaming, made, page, tunnelCalls, dropped,
    mounted, providers, enabled, stored, asked, token, debounce, requests, controller, cooling, items,
    widget, query, results, selectedIndex, queryTimer, fetching, orphans, cache, shows,
    paneOfFocus, jump, chosen, jumped

Panes == INSTANCE EditorPanes WITH
    Path <- Files, NoPath <- None, Undisturbed <- TRUE, active <- focused

Buffers == INSTANCE FileBuffersProofs WITH
    File <- Edited, Patient <- TRUE, disk <- bufDisk, loading <- bufLoading

Tree == INSTANCE FileTree WITH
    Patient <- TRUE, disk <- treeDisk, cwd <- treeCwd, loading <- treeLoading, calls <- treeCalls

Scm == INSTANCE SourceControl WITH
    File <- Tracked, Patient <- TRUE, loading <- gitLoading, calls <- gitCalls

Mirror == INSTANCE ProjectMirrorProofs WITH
    Create <- NewProject, Patient <- TRUE, active <- activeProject

Agent == INSTANCE ProjectSwitchProofs WITH
    Panel <- {AgentPanel}, Project <- AgentProject, Patient <- TRUE,
    panel <- agentPanels, taken <- agentSeq, active <- agentProject, root <- agentRoot,
    registry <- agentRegistry, clock <- agentClock

Tabs == INSTANCE TerminalTabs WITH
    Project <- TermProject, MaxTab <- [p \in TermProject |-> IF p \in Adding THEN MaxTabs ELSE 0],
    Patient <- TRUE, Early <- FALSE,
    active <- termProject, status <- termStatus, buffer <- outputs, handlers <- termHandlers

Input == INSTANCE TerminalInput WITH
    Char <- {"a", ">"}, PromptChar <- {">"}, MaxText <- 2, MaxBuffer <- 3, MaxCalls <- 1, MaxLines <- 2,
    Patient <- TRUE, Erases <- FALSE, PastesLines <- FALSE,
    last <- lastIme, calls <- typing, shown <- screenLine

\* The tunnels of projects with renames, and those of others without.
Tunnels == INSTANCE TunnelProfiles WITH
    Project <- TunnelProject, Name <- TunnelName, MaxCalls <- MaxWaiting,
    file <- cloudflare, active <- tunnelProject, calls <- tunnelCalls

Shared == INSTANCE TunnelProfiles WITH
    Project <- Sharing, Name <- {}, MaxCalls <- MaxWaiting,
    file <- cloudflare, active <- tunnelProject, calls <- tunnelCalls

Completion == INSTANCE CodeCompletion WITH timer <- debounce, calls <- requests

Search == INSTANCE CodeSearch WITH
    File <- Found, Pane <- SearchPane, Patient <- TRUE, Waits <- TRUE,
    open <- widget, timer <- queryTimer, focused <- paneOfFocus

ASSUME WorkbenchAssumption ==
    /\ Panes!PanesAssumption /\ Buffers!BuffersAssumption /\ Tree!FileTreeAssumption
    /\ Scm!SourceControlAssumption /\ Mirror!ProjectMirrorAssumption /\ Agent!SwitchAssumption
    /\ Tabs!TerminalAssumption /\ Input!InputAssumption /\ Tunnels!TunnelsAssumption /\ Shared!TunnelsAssumption
    /\ Completion!CompletionAssumption /\ Search!SearchAssumption
    /\ "close" \notin Faults

panesV   == <<panes, focused, hook, opening, drag, torn>>
buffersV == <<bufDisk, buffer, original, hookFile, bufLoading, failed, shown, editor,
              reads, writes, batch, claimed>>
treeV    == <<treeDisk, treeCwd, files, open, treeLoading, treeCalls, last, unheard>>
scmV     == <<repo, cwd, status, commits, message, gitLoading, acting, gitCalls, claim, touched>>
mirrorV  == <<registry, running, events, projects, states, activeProject, form, confirm,
              conflict, handlers, launch>>
agentV   == <<agentPanels, agentSeq, agentProject, agentRoot, agentRegistry, agentClock>>
filesV   == <<panesV, buffersV, treeV, scmV, mirrorV, agentV>>
tabsV    == <<registered, termProject, view, tabs, current, used, termStatus, sessions, outputs,
              screens, termHandlers>>
inputV   == <<composing, lastIme, pty, timer, ends, typing, inputBuf, history, line, screenLine,
              ime, typed, ran>>
tunnelsV == <<cloudflare, panel, tunnelProject, renaming, made, page, tunnelCalls, dropped>>
shellsV  == <<tabsV, inputV, tunnelsV>>
complV   == <<mounted, providers, enabled, stored, asked, token, debounce, requests, controller,
              cooling, items>>
searchV  == <<widget, query, results, selectedIndex, queryTimer, fetching, orphans, cache, shows,
              paneOfFocus, jump, chosen, jumped>>
editorsV == <<complV, searchV>>
vars == <<part, filesV, shellsV, editorsV>>

AnyCwd == CHOOSE c \in Cwd : TRUE

Init ==
    /\ part \in {"panes", "buffers", "tree", "scm", "mirror", "agent", "tabs", "input", "tunnels",
                "shared tunnels", "completion", "search"}
    /\ Panes!Init /\ Buffers!Init /\ Tree!Init /\ Scm!Init /\ Mirror!Init /\ Agent!Init
    /\ Tabs!Init /\ Input!Init /\ Tunnels!Init /\ Completion!Init /\ Search!Init
    \* a part that does not act starts in one state
    /\ part = "tree" \/ (treeCwd = AnyCwd /\ \A c \in Cwd : treeDisk[c].root = {})
    /\ part = "scm" \/ (cwd = AnyCwd /\ \A g \in DOMAIN repo : repo[g].count = 0)
    /\ part = "mirror" \/ \A p \in DOMAIN registry : registry[p] = None
    /\ part \in {"tunnels", "shared tunnels"} \/ cloudflare = Tunnels!NoFile
    /\ part = "completion" \/ stored
    /\ part = "search" \/ (paneOfFocus = (CHOOSE p \in SearchPane : TRUE) /\ shows = [p \in SearchPane |-> CHOOSE f \in Found : TRUE])

NextFiles ==
    \/ part = "panes"   /\ Panes!Next   /\ UNCHANGED <<buffersV, treeV, scmV, mirrorV, agentV>>
    \/ part = "buffers" /\ Buffers!Next /\ UNCHANGED <<panesV, treeV, scmV, mirrorV, agentV>>
    \/ part = "tree"    /\ Tree!Next    /\ UNCHANGED <<panesV, buffersV, scmV, mirrorV, agentV>>
    \/ part = "scm"     /\ Scm!Next     /\ UNCHANGED <<panesV, buffersV, treeV, mirrorV, agentV>>
    \/ part = "mirror"  /\ Mirror!Next  /\ UNCHANGED <<panesV, buffersV, treeV, scmV, agentV>>
    \/ part = "agent"   /\ Agent!Next   /\ UNCHANGED <<panesV, buffersV, treeV, scmV, mirrorV>>

NextShells ==
    \/ part = "tabs"    /\ Tabs!Next    /\ UNCHANGED <<inputV, tunnelsV>>
    \/ part = "input"   /\ Input!Next   /\ UNCHANGED <<tabsV, tunnelsV>>
    \/ part = "tunnels" /\ Tunnels!Next /\ UNCHANGED <<tabsV, inputV>>
    \/ part = "shared tunnels" /\ Shared!Next /\ UNCHANGED <<tabsV, inputV>>

NextEditors ==
    \/ part = "completion" /\ Completion!Next /\ providers' + asked' <= MaxMade /\ UNCHANGED searchV
    \/ part = "search" /\ Search!Next /\ UNCHANGED complV

Next ==
    \/ NextFiles /\ UNCHANGED <<part, shellsV, editorsV>>
    \/ NextShells /\ UNCHANGED <<part, filesV, editorsV>>
    \/ NextEditors /\ UNCHANGED <<part, filesV, shellsV>>

Spec == Init /\ [][Next]_vars

----------------------------------------------------------------------------
\* Every tab is of a file opened once in its pane, the pane shows one of its
\* tabs, and the focused pane exists; no drag loses its tab (App.tsx:492-1234).
PanesOK == Panes!PanesOK /\ Panes!NeverTorn

\* A drop moves a tab and closes none (performTabMove, App.tsx:1079).  Text
\* that was typed and not saved goes only when its file is closed or reverted
\* (useProjects.ts:137).
EditsSurvive == Panes!DropKeepsTabs /\ Buffers!UnsavedSurvives

\* What counts as the original of a file is what its disk holds, so that the
\* dirty mark and "save all" are right (App.tsx:926, useProjects.ts:138), and
\* no editor shows the text of another file (CodeEditor.tsx:1014).  What an
\* editor suggests is for its text as it is now, what it aborts is under way,
\* and what it finds is for the query and opened as chosen
\* (CodeEditor.tsx:1397, aiCompletionService.ts:73, CodeRagSearchWidget.tsx:100).
EditorsOK ==
    /\ Buffers!OriginalIsOnDisk /\ Buffers!OwnText
    /\ Completion!ShownIsCurrent /\ Completion!ControllerIsLive
    /\ Search!ResultsAreOfQuery /\ Search!ChosenIsOpened

\* After each operation, the explorer lists what the disk holds and source
\* control what git reports (FileExplorer.tsx:431, GitPanel.tsx:98).
ViewsAreFresh == Tree!TopIsFresh /\ Scm!SettledIsFresh

\* The list of projects, their states and the active one are the manager's
\* once every handler and event has ended (useProjects.ts:389-640).
MirrorIsTrue == Mirror!MirrorIsTrue

\* Once a switch was taken by the backend and has ended, the agent, its
\* directory and the chat shown are of one project (agent.rs:2110-2217); its
\* directory is that of its project even when the number was refused.
TakenIsSwitched == Agent!TakenIsSwitched /\ Agent!RootFollowsActive

\* Every session of the backend has its tab and every tab a session, and the
\* screen of a tab is what its buffer holds (useTerminal.ts:41-222); a start
\* opens the tunnels that are ticked, and those shown are stored
\* (TerminalPanel.tsx:516, executor.rs:429).
TerminalsOK ==
    /\ Tabs!SessionsHaveTabs /\ Tabs!ScreenIsBuffer
    /\ Tunnels!StartOpensTicked /\ Tunnels!ShownIsStored

\* For a user who waits: the line of the shell is what was typed, through
\* composition, buffering and timers, less what a Backspace that was not
\* swallowed took back; what a terminal runs is that line, and its history has
\* the command of it, what follows the last prompt character
\* (TerminalPanel.tsx:710-1088, terminal.rs:43).
TypedIsRun == Input!RunIsTyped /\ [](Input!LineIsTyped /\ Input!HistoryIsRun)
=============================================================================
