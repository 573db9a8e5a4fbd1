---------------------------- MODULE ProcessTree ----------------------------
(***************************************************************************)
(* What the user sees of the processes of the projects: the samples of the *)
(* resource monitor on their way to useResources.ts, the process tree with *)
(* its kill button (ProcessManager.tsx), and the cards of the active       *)
(* project (ProjectResources.tsx).                                         *)
(*                                                                         *)
(* A run is a main process and those it forked; a start goes to Running at *)
(* once, a run that ends is Stopped, and one that crashes is respawned.    *)
(* How a start replaces a run that is still up is in ProcessRunner, and    *)
(* its questions are in ProjectMirror.  Usage is the number of processes.  *)
(***************************************************************************)
EXTENDS Naturals, Sequences, FiniteSets

CONSTANTS
    Project,        \* projects
    Pid,            \* process ids
    None,           \* no process
    MaxPoints,      \* MAX_HISTORY_POINTS
    MaxStatuses,    \* bound on the updates on their way to the status router
    MaxSamples,     \* bound on the samples on their way to the stats router
    Prompt,         \* TRUE: no sample waits while a project is started
    Fresh           \* TRUE: a pid that is known anywhere is not given anew

TreeAssumption == None \notin Pid /\ {MaxPoints, MaxStatuses, MaxSamples} \subseteq Nat \ {0}

VARIABLES
    up,             \* the processes of each project
    main,           \* the one that its run was started as, or None
    ran,            \* history: those of the last run, that have ended as well
    launching,      \* projects whose start is under way
    statuses,       \* on their way to the router
    tracked,        \* active_projects of the monitor
    samples,        \* on their way to the window
    shown,          \* projectStates, which is what the router has recorded as well
    history,        \* resourceHistory: the number of points, and the last processes
    expanded,       \* expandedProjects
    details,        \* expandedProcesses
    confirm,        \* the process that the dialog asks about, with its project, or None
    active,         \* activeProjectId
    uptime          \* the projects whose seconds the uptime has counted

treeVars == <<up, main, ran, launching, statuses, tracked, samples, shown, history, expanded,
              details, confirm, active, uptime>>
processes == <<up, main, ran>>
backend == <<processes, launching, statuses, tracked, samples>>
window == <<shown, history, expanded, details, confirm, active, uptime>>

Stopped == [type |-> "Stopped", pid |-> None]
Crashing == [type |-> "Crashing", pid |-> None]
Running(pid) == [type |-> "Running", pid |-> pid]
NoHistory == [points |-> 0, processes |-> {}]
Up == UNION {up[p] : p \in Project}

Init ==
    /\ up = [p \in Project |-> {}] /\ main = [p \in Project |-> None]
    /\ ran = [p \in Project |-> {}] /\ launching = {}
    /\ statuses = <<>> /\ samples = <<>>
    /\ tracked = [p \in Project |-> {}]
    /\ shown = [p \in Project |-> Stopped]
    /\ history = [p \in Project |-> NoHistory]
    /\ expanded = {} /\ details = {} /\ confirm = None
    /\ active \in Project
    /\ uptime = {}

\* What the tree shows of a project, and what it says of it.
Rows(p) == IF p \in expanded THEN history[p].processes ELSE {}
Pill(p) ==
    IF shown[p].type = "Running" \/ history[p].processes # {} THEN "Running" ELSE "Stopped"

\* The last point of the graphs, which the cards show whatever the state is.
Usage(p) == IF history[p].points = 0 THEN 0 ELSE Cardinality(history[p].processes)

\* The effect of the cards on the state and the id of the active project.
Counted == uptime' = IF shown'[active'].type = "Running" THEN uptime ELSE {}

----------------------------------------------------------------------------
(* Runs.                                                                   *)

Known == Up \cup UNION {tracked[p] \cup history[p].processes : p \in Project}
            \cup UNION {samples[i].processes : i \in DOMAIN samples}
            \cup {statuses[i].state.pid : i \in DOMAIN statuses}
            \cup (IF confirm = None THEN {} ELSE {confirm.pid})
NewPids == Pid \ (IF Fresh THEN Known ELSE Up)
Says(p, states) == Len(statuses) + Len(states) <= MaxStatuses
                   /\ statuses' = statuses \o [i \in DOMAIN states |-> [project |-> p, state |-> states[i]]]

Spawned(p) ==
    /\ p \in launching
    /\ \E pid \in NewPids :
        /\ up' = [up EXCEPT ![p] = {pid}]
        /\ main' = [main EXCEPT ![p] = pid]
        /\ ran' = [ran EXCEPT ![p] = {pid}]
        /\ Says(p, <<Running(pid)>>)
    /\ launching' = launching \ {p}
    /\ UNCHANGED <<tracked, samples, window>>

Fork(p) ==
    /\ main[p] # None
    /\ \E pid \in NewPids :
        /\ up' = [up EXCEPT ![p] = @ \cup {pid}]
        /\ ran' = [ran EXCEPT ![p] = @ \cup {pid}]
    /\ UNCHANGED <<main, launching, statuses, tracked, samples, window>>

\* The whole tree goes with its main process.
RunEnds(p) ==
    /\ up' = [up EXCEPT ![p] = {}]
    /\ main' = [main EXCEPT ![p] = None]
    /\ Says(p, <<Stopped>>)
    /\ UNCHANGED ran

Exit(p) ==
    /\ main[p] # None /\ RunEnds(p)
    /\ UNCHANGED <<launching, tracked, samples, window>>

Respawn(p) ==
    /\ main[p] # None
    /\ \E pid \in NewPids :
        /\ up' = [up EXCEPT ![p] = {pid}]
        /\ main' = [main EXCEPT ![p] = pid]
        /\ ran' = [ran EXCEPT ![p] = @ \cup {pid}]
        /\ Says(p, <<Crashing, Running(pid)>>)
    /\ UNCHANGED <<launching, tracked, samples, window>>

ChildExits(p) ==
    /\ \E pid \in up[p] \ {main[p]} : up' = [up EXCEPT ![p] = @ \ {pid}]
    /\ UNCHANGED <<main, ran, launching, statuses, tracked, samples, window>>

----------------------------------------------------------------------------
(* The routers and the monitor.                                            *)

\* The router tells the monitor and the window.
Route ==
    /\ statuses # <<>>
    /\ statuses' = Tail(statuses)
    /\ LET p == Head(statuses).project
           s == Head(statuses).state
       IN /\ tracked' = [tracked EXCEPT ![p] =
                CASE s.type = "Running" -> @ \cup {s.pid}
                  [] s.type = "Stopped" -> @ \ {shown[p].pid}
                  [] OTHER -> @]
          /\ shown' = [shown EXCEPT ![p] = s]
    /\ UNCHANGED <<processes, launching, samples, history, expanded, details, confirm, active>>
    /\ Counted

\* collect_child_processes: a root that has ended has no children.
Tree(root) == ({root} \cap Up) \cup UNION {up[p] : p \in {q \in Project : main[q] = root}}

Sample(p) ==
    /\ tracked[p] # {} /\ Len(samples) < MaxSamples
    /\ samples' = Append(samples,
                         [project |-> p, processes |-> UNION {Tree(root) : root \in tracked[p]}])
    /\ UNCHANGED <<processes, launching, statuses, tracked, window>>

ResourceUpdate ==
    /\ samples # <<>>
    /\ samples' = Tail(samples)
    /\ LET s == Head(samples) IN
       history' = [history EXCEPT ![s.project] =
                      [points |-> IF @.points = MaxPoints THEN MaxPoints ELSE @.points + 1,
                       processes |-> s.processes]]
    /\ UNCHANGED <<processes, launching, statuses, tracked, shown, expanded, details, confirm,
                   active, uptime>>

----------------------------------------------------------------------------
(* The user.                                                               *)

\* The button "Run" selects the project; the header starts the one selected.
StartProject(p) ==
    /\ confirm = None
    /\ shown[p].type # "Running" /\ p \notin launching /\ main[p] = None
    /\ Prompt => samples = <<>>
    /\ active' = p
    /\ history' = [history EXCEPT ![p] = NoHistory]
    /\ launching' = launching \cup {p}
    /\ UNCHANGED <<processes, statuses, tracked, samples, shown, expanded, details, confirm>>
    /\ Counted

\* "Kill All".
StopProject(p) ==
    /\ confirm = None
    /\ shown[p].type = "Running"
    /\ active' = p
    /\ IF main[p] = None THEN UNCHANGED <<processes, statuses>> ELSE RunEnds(p)
    /\ UNCHANGED <<launching, tracked, samples, shown, history, expanded, details, confirm>>
    /\ Counted

Select(p) ==
    /\ confirm = None
    /\ active # p /\ active' = p
    /\ UNCHANGED <<backend, shown, history, expanded, details, confirm>>
    /\ Counted

ToggleProjectExpand(p) ==
    /\ confirm = None
    /\ Pill(p) = "Running"
    /\ expanded' = IF p \in expanded THEN expanded \ {p} ELSE expanded \cup {p}
    /\ UNCHANGED <<backend, shown, history, details, confirm, active, uptime>>

ToggleProcessExpand(p, pid) ==
    /\ confirm = None
    /\ pid \in Rows(p)
    /\ details' = IF pid \in details THEN details \ {pid} ELSE details \cup {pid}
    /\ UNCHANGED <<backend, shown, history, expanded, confirm, active, uptime>>

AskKill(p, pid) ==
    /\ confirm = None
    /\ pid \in Rows(p)
    /\ confirm' = [project |-> p, pid |-> pid]
    /\ UNCHANGED <<backend, shown, history, expanded, details, active, uptime>>

\* force_kill_process: whatever has the pid by now ends, with its children.
ForceKill ==
    /\ confirm # None
    /\ confirm' = None
    /\ IF \E p \in Project : main[p] = confirm.pid
       THEN RunEnds(CHOOSE p \in Project : main[p] = confirm.pid)
       ELSE /\ up' = [p \in Project |-> up[p] \ {confirm.pid}]
            /\ UNCHANGED <<main, ran, statuses>>
    /\ UNCHANGED <<launching, tracked, samples, shown, history, expanded, details, active, uptime>>

CancelKill ==
    /\ confirm # None
    /\ confirm' = None
    /\ UNCHANGED <<backend, shown, history, expanded, details, active, uptime>>

\* A second of the cards.
TickUptime ==
    /\ shown[active].type = "Running" /\ active \notin uptime
    /\ uptime' = uptime \cup {active}
    /\ UNCHANGED <<backend, shown, history, expanded, details, confirm, active>>

Next ==
    \/ Route \/ ResourceUpdate \/ ForceKill \/ CancelKill \/ TickUptime
    \/ \E p \in Project :
        \/ Spawned(p) \/ Fork(p) \/ Exit(p) \/ Respawn(p) \/ ChildExits(p) \/ Sample(p)
        \/ StartProject(p) \/ StopProject(p) \/ Select(p) \/ ToggleProjectExpand(p)
        \/ \E pid \in Pid : ToggleProcessExpand(p, pid) \/ AskKill(p, pid)

Spec == Init /\ [][Next]_treeVars

----------------------------------------------------------------------------
\* The tree of a project that is shown Running has processes of this run of
\* it only: none of an earlier run, and none of another project
\* (useProjects.ts:490, useResources.ts:30).
TreeIsOfRun == \A p \in Project : shown[p].type = "Running" => history[p].processes \subseteq ran[p]

\* A project that is stopped is not called "Running" once all is settled
\* (ProcessManager.tsx:108).
PillIsState ==
    (statuses = <<>> /\ samples = <<>>) =>
        \A p \in Project : shown[p] = Stopped => Pill(p) = "Stopped"

\* A project that is stopped uses nothing (ProjectResources.tsx:48).
StoppedUsesNothing ==
    (statuses = <<>> /\ samples = <<>>) => \A p \in Project : shown[p] = Stopped => Usage(p) = 0

\* The uptime shown is that of the project shown (ProjectResources.tsx:35).
UptimeIsOwn == uptime \subseteq {active}

\* A kill that is confirmed ends no process of another project
\* (ProcessManager.tsx:205).
KillIsOwn ==
    [][ForceKill => \A p \in Project \ {confirm.project} : up'[p] = up[p]]_treeVars
=============================================================================
