---------------------------- MODULE ProjectMirror ----------------------------
(***************************************************************************)
(* The projects of the user interface, as useProjects mirrors them: the    *)
(* list and the states it loads, the status events it hears, the form of   *)
(* the settings, and the way from a click on Start to the start, through   *)
(* the tunnel's warning and the port's conflict.                           *)
(*                                                                         *)
(* Of a configuration only the tunnel counts; every project has a port.    *)
(* Logs, resource graphs and terminals are not modelled here.              *)
(***************************************************************************)
EXTENDS Naturals, Sequences, FiniteSets

CONSTANTS
    Project,        \* project ids, numbers in the order of the list
    None,           \* the empty id, null
    Create,         \* "__create_project__"
    MaxCalls,       \* bound on the handlers under way
    MaxEvents,      \* bound on the status events on their way
    Patient         \* TRUE: nobody acts, and no run ends, during a handler

Config == [tunnel : BOOLEAN]
Then == [then : {"select", "clear", "keep"}, id : Project]

ProjectMirrorAssumption ==
    /\ Project \subseteq Nat /\ None \notin Project /\ Create \notin Project /\ None # Create
    /\ None \notin Config \cup Then /\ MaxCalls \in Nat \ {0}

VARIABLES
    registry,       \* what is registered: the configuration or None
    running,        \* the runs, as the backend knows them
    events,         \* process-status on its way
    projects,       \* the list shown
    states,         \* projectStates
    active,         \* activeProjectId
    form,           \* the settings form
    confirm,        \* the question of the confirm dialog
    conflict,       \* the project whose start found its port in use
    handlers,       \* the asynchronous handlers under way
    launch          \* the last start, and how it came about

mirrorVars == <<registry, running, events, projects, states, active, form,
                confirm, conflict, handlers, launch>>

Slot == 1..MaxCalls
Idle == [kind |-> "idle", id |-> None, ans |-> None, todo |-> {}, of |-> None, ok |-> FALSE]
Free == {i \in Slot : handlers[i] = Idle}
First(S) == CHOOSE i \in S : \A j \in S : i <= j
Modal == confirm # None \/ conflict # None
Quiet == Free = Slot /\ events = <<>>
Waits == Patient => Quiet
Ready == Waits /\ ~Modal

Spawn(h) == Free # {} /\ handlers' = [handlers EXCEPT ![First(Free)] = h]
Load(of, ok) == [Idle EXCEPT !.kind = "list", !.of = of, !.id = active, !.ok = ok]
Start(p, ok, of) == [Idle EXCEPT !.kind = "check", !.id = p, !.ok = ok, !.of = of]

Init ==
    /\ registry \in [Project -> Config \cup {None}]
    /\ running = [p \in Project |-> FALSE]
    /\ events = <<>>
    /\ projects = [p \in Project |-> None]
    /\ states = [p \in Project |-> FALSE]
    /\ active = None
    /\ form = [name |-> None, tunnel |-> FALSE]
    /\ confirm = None /\ conflict = None
    /\ handlers = [i \in Slot |-> IF i = 1 THEN [Idle EXCEPT !.kind = "list"] ELSE Idle]
    /\ launch = None

\* The effect on [activeProjectId, projects] fills the form.
Filled(a, list) ==
    IF a \in Project /\ list[a] # None THEN [name |-> a, tunnel |-> list[a].tunnel] ELSE form

(***************************************************************************)
(* The user                                                                *)
(***************************************************************************)
Select(p) ==
    /\ Ready
    /\ projects[p] # None
    /\ active' = p
    /\ form' = Filled(p, projects)
    /\ UNCHANGED <<registry, running, events, projects, states, confirm, conflict, handlers, launch>>

ResetForm ==
    /\ Ready
    /\ active' = Create
    /\ form' = [name |-> None, tunnel |-> FALSE]
    /\ UNCHANGED <<registry, running, events, projects, states, confirm, conflict, handlers, launch>>

\* The tab of the form, closed: handleDeleteProject asks nothing.
CloseCreate ==
    /\ Ready
    /\ active = Create
    /\ active' = None
    /\ UNCHANGED <<registry, running, events, projects, states, form, confirm, conflict, handlers, launch>>

EditForm(f) ==
    /\ Ready
    /\ form' = f
    /\ UNCHANGED <<registry, running, events, projects, states, active, confirm, conflict, handlers, launch>>

\* handleStartProject and handleStart; the warning only without force.
Begin(p, force) ==
    IF projects[p].tunnel /\ ~force
    THEN confirm' = [kind |-> "start", id |-> p] /\ UNCHANGED handlers
    ELSE Spawn(Start(p, FALSE, None)) /\ UNCHANGED confirm

\* Run in the process tree selects the project, in the welcome page not.
RunProject(p, selects) ==
    /\ Ready
    /\ projects[p] # None /\ ~states[p]
    /\ Begin(p, FALSE)
    /\ active' = IF selects THEN p ELSE active
    /\ form' = IF selects THEN Filled(p, projects) ELSE form
    /\ UNCHANGED <<registry, running, events, projects, states, conflict, launch>>

\* The header passes its click event as forceStart.
HeaderStart ==
    /\ Ready
    /\ active \in Project /\ projects[active] # None /\ ~states[active]
    /\ Begin(active, TRUE)
    /\ UNCHANGED <<registry, running, events, projects, states, active, form, conflict, launch>>

Stop(p) ==
    /\ Ready
    /\ projects[p] # None /\ states[p]
    /\ Spawn([Idle EXCEPT !.kind = "stop", !.id = p])
    /\ UNCHANGED <<registry, running, events, projects, states, active, form, confirm, conflict, launch>>

\* handleAddProject: of the active project, or a new one under the slug of
\* its name.
Save ==
    /\ Ready
    /\ form.name # None
    /\ Spawn([Idle EXCEPT !.kind = "register", !.id = IF active \in Project THEN active ELSE form.name,
                          !.ans = [tunnel |-> form.tunnel]])
    /\ UNCHANGED <<registry, running, events, projects, states, active, form, confirm, conflict, launch>>

Delete(p) ==
    /\ Ready
    /\ projects[p] # None
    /\ confirm' = [kind |-> "delete", id |-> p]
    /\ UNCHANGED <<registry, running, events, projects, states, active, form, conflict, handlers, launch>>

Answer(yes) ==
    /\ confirm # None
    /\ confirm' = None
    /\ IF ~yes THEN UNCHANGED handlers
       ELSE Spawn(IF confirm.kind = "start" THEN Start(confirm.id, TRUE, None)
                  ELSE [Idle EXCEPT !.kind = "deregister", !.id = confirm.id, !.of = active])
    /\ UNCHANGED <<registry, running, events, projects, states, active, form, conflict, launch>>

\* handleForceKillAndStart: after the kill it starts the active project.
ForceKillAndStart ==
    /\ conflict # None
    /\ IF active \in Project
       THEN Spawn([Start(active, conflict.ok, conflict.id) EXCEPT !.kind = "kill"]) /\ conflict' = None
       ELSE UNCHANGED <<conflict, handlers>>
    /\ UNCHANGED <<registry, running, events, projects, states, active, form, confirm, launch>>

CloseConflict ==
    /\ conflict # None
    /\ conflict' = None
    /\ UNCHANGED <<registry, running, events, projects, states, active, form, confirm, handlers, launch>>

(***************************************************************************)
(* The handlers                                                            *)
(***************************************************************************)
Becomes(p, on) ==
    /\ running' = [running EXCEPT ![p] = on]
    /\ IF running[p] = on THEN UNCHANGED events
       ELSE Len(events) < MaxEvents /\ events' = Append(events, [id |-> p, on |-> on])

Exit(p) ==
    /\ running[p]
    /\ Patient => Free = Slot
    /\ Becomes(p, FALSE)
    /\ UNCHANGED <<registry, projects, states, active, form, confirm, conflict, handlers, launch>>

HearStatus ==
    /\ events # <<>>
    /\ states' = [states EXCEPT ![Head(events).id] = Head(events).on]
    /\ events' = Tail(events)
    /\ UNCHANGED <<registry, running, projects, active, form, confirm, conflict, handlers, launch>>

\* force_kill_process, then handleStart(true) after 500 ms.
Kill(i) ==
    /\ handlers[i].kind = "kill"
    /\ handlers' = [handlers EXCEPT ![i].kind = "check"]
    /\ UNCHANGED <<registry, running, events, projects, states, active, form, confirm, conflict, launch>>

CheckPort(i) ==
    LET h == handlers[i] IN
    /\ h.kind = "check"
    /\ \/ handlers' = [handlers EXCEPT ![i].kind = "start"] /\ UNCHANGED conflict
       \/ /\ conflict' = [id |-> h.id, ok |-> h.ok]
          /\ handlers' = [handlers EXCEPT ![i] = Idle]
    /\ UNCHANGED <<registry, running, events, projects, states, active, form, confirm, launch>>

StartOrStop(i) ==
    LET h == handlers[i]
        known == registry[h.id] # None
    IN
    /\ h.kind \in {"start", "stop"}
    /\ IF known THEN Becomes(h.id, h.kind = "start") ELSE UNCHANGED <<running, events>>
    /\ launch' = IF h.kind = "start" /\ known
                 THEN [id |-> h.id, warned |-> h.ok, for |-> h.of, tunnel |-> registry[h.id].tunnel]
                 ELSE None
    /\ handlers' = [handlers EXCEPT ![i] = Idle]
    /\ UNCHANGED <<registry, projects, states, active, form, confirm, conflict>>

Register(i) ==
    LET h == handlers[i] IN
    /\ h.kind = "register"
    /\ registry' = [registry EXCEPT ![h.id] = h.ans]
    /\ handlers' = [handlers EXCEPT ![i] = [Load([then |-> "select", id |-> h.id], FALSE) EXCEPT !.id = active]]
    /\ UNCHANGED <<running, events, projects, states, active, form, confirm, conflict, launch>>

DeregisterKept(i) ==
    LET h == handlers[i] IN
    /\ h.kind = "deregister"
    /\ registry' = [registry EXCEPT ![h.id] = None]
    /\ Becomes(h.id, FALSE)
    /\ handlers' = [handlers EXCEPT ![i] = [Load([then |-> "keep", id |-> h.id], FALSE) EXCEPT !.id = h.of]]
    /\ UNCHANGED <<projects, states, active, form, confirm, conflict, launch>>

\* handleDeleteProject, after the question.
Deregister(i) ==
    LET h == handlers[i] IN
    /\ h.kind = "deregister"
    /\ registry' = [registry EXCEPT ![h.id] = None]
    /\ Becomes(h.id, FALSE)
    /\ handlers' = [handlers EXCEPT ![i] = [Load([then |-> IF h.of = h.id THEN "clear" ELSE "keep", id |-> h.id], FALSE)
                                              EXCEPT !.id = h.of]]
    /\ UNCHANGED <<projects, states, active, form, confirm, conflict, launch>>

\* The toast of either: a workspace that cannot be prepared, a row that cannot be written.
\* The run of a project that stays registered was stopped all the same.
RegisterFails(i) ==
    /\ handlers[i].kind = "register"
    /\ handlers' = [handlers EXCEPT ![i] = Idle]
    /\ UNCHANGED <<registry, running, events, projects, states, active, form, confirm, conflict, launch>>

DeregisterFails(i) ==
    /\ handlers[i].kind = "deregister"
    /\ Becomes(handlers[i].id, FALSE)
    /\ handlers' = [handlers EXCEPT ![i] = Idle]
    /\ UNCHANGED <<registry, projects, states, active, form, confirm, conflict, launch>>

\* loadProjects: the list, then one state after the other.
Read(i) ==
    LET h == handlers[i] IN
    /\ h.kind = "list" \/ (h.kind = "states" /\ h.todo # {})
    /\ h.ans = None
    /\ handlers' = [handlers EXCEPT ![i].ans =
                      IF h.kind = "list" THEN registry ELSE [on |-> running[First(h.todo)]]]
    /\ UNCHANGED <<registry, running, events, projects, states, active, form, confirm, conflict, launch>>

Listed(i) ==
    LET h == handlers[i] IN
    /\ h.kind = "list" /\ h.ans # None
    /\ projects' = h.ans
    /\ form' = Filled(active, h.ans)
    /\ handlers' = [handlers EXCEPT ![i].kind = "states", ![i].ans = None,
                                    ![i].todo = {p \in Project : h.ans[p] # None}]
    /\ UNCHANGED <<registry, running, events, states, active, confirm, conflict, launch>>

Stated(i) ==
    LET h == handlers[i] IN
    /\ h.kind = "states" /\ h.ans # None
    /\ states' = [states EXCEPT ![First(h.todo)] = h.ans.on]
    /\ handlers' = [handlers EXCEPT ![i].ans = None, ![i].todo = @ \ {First(@)}]
    /\ UNCHANGED <<registry, running, events, projects, active, form, confirm, conflict, launch>>

\* The end: the first project if none was active, then what the caller does.
LoadEnds(i) ==
    LET h == handlers[i]
        all == {p \in Project : projects[p] # None}
        a == IF h.id = None /\ all # {} THEN First(all) ELSE active
    IN
    /\ h.kind = "states" /\ h.ans = None /\ h.todo = {}
    /\ active' = IF h.of = None \/ h.of.then = "keep" THEN a
                 ELSE IF h.of.then = "clear" THEN None ELSE h.of.id
    /\ form' = IF active' = active THEN form ELSE Filled(active', projects)
    /\ handlers' = [handlers EXCEPT ![i] = Idle]
    /\ UNCHANGED <<registry, running, events, projects, states, confirm, conflict, launch>>

User ==
    \/ ResetForm \/ CloseCreate \/ HeaderStart \/ Save \/ ForceKillAndStart \/ CloseConflict
    \/ \E f \in [name : Project, tunnel : BOOLEAN] : f # form /\ EditForm(f)
    \/ \E p \in Project : Select(p) \/ Stop(p) \/ Delete(p) \/ \E s \in BOOLEAN : RunProject(p, s)
    \/ \E yes \in BOOLEAN : Answer(yes)

Handler(i) ==
    Kill(i) \/ CheckPort(i) \/ StartOrStop(i) \/ Register(i) \/ RegisterFails(i)
      \/ Deregister(i) \/ DeregisterFails(i) \/ Read(i) \/ Listed(i) \/ Stated(i) \/ LoadEnds(i)

Next == User \/ HearStatus \/ (\E p \in Project : Exit(p)) \/ \E i \in Slot : Handler(i)

Spec == Init /\ [][Next]_mirrorVars

(***************************************************************************)
(* The inductive invariant for a user who waits; ProjectMirrorProofs proves*)
(* MirrorIsTrue from it.                                                   *)
(***************************************************************************)
Reads ==
    [kind : {"list", "states"}, id : {None, Create} \cup Project, todo : SUBSET Project, ok : BOOLEAN,
     ans : {None} \cup [Project -> Config \cup {None}] \cup [on : BOOLEAN], of : {None} \cup Then]
Acts ==
    [kind : {"idle", "kill", "check", "start", "stop", "register", "deregister"},
     id : {None, Create} \cup Project, todo : {{}}, ok : BOOLEAN,
     ans : {None} \cup Config, of : {None, Create} \cup Project]

MirrorTypeOK ==
    /\ {registry, projects} \subseteq [Project -> Config \cup {None}]
    /\ {running, states} \subseteq [Project -> BOOLEAN]
    /\ events \in Seq([id : Project, on : BOOLEAN])
    /\ active \in Project \cup {None, Create}
    /\ form \in [name : Project \cup {None}, tunnel : BOOLEAN]
    /\ confirm \in [kind : {"start", "delete"}, id : Project] \cup {None}
    /\ conflict \in [id : Project, ok : BOOLEAN] \cup {None}
    /\ handlers \in [Slot -> Reads \cup Acts]

\* What a handler works on, by its kind.
Works(h) ==
    \/ h = Idle
    \/ h.kind \in {"kill", "check", "start", "stop"} /\ h.id \in Project
    \/ h.kind = "register" /\ h.id \in Project /\ h.ans \in Config
    \/ h.kind = "deregister" /\ h.id \in Project /\ h.of = active
    \/ h.kind = "list" /\ h.ans \in {None, registry}
    \/ /\ h.kind = "states" /\ h.todo \subseteq {p \in Project : projects[p] # None}
       /\ h.ans # None => h.todo # {} /\ h.ans = [on |-> running[First(h.todo)]]

\* What a load makes the active project of is registered.
Chooses(h) ==
    h.kind \in {"list", "states"} =>
      /\ h.of = None => active \notin Project
      /\ h.of # None => /\ h.of.then = "select" => registry[h.of.id] # None
                        /\ h.of.then = "keep" /\ active \in Project => registry[active] # None

\* The list is read anew after every change of the registry, and the active project is one
\* of it unless the load that will choose another has not ended.
Shows(h) ==
    /\ h.kind # "list" => projects = registry
    /\ h.kind \notin {"list", "states"} /\ active \in Project => projects[active] # None

\* The last event of a project says whether it runs.
LastIsTrue ==
    \A k \in DOMAIN events :
       (\A m \in DOMAIN events : k < m => events[m].id # events[k].id)
       => events[k].on = running[events[k].id]

\* A project without an event is shown as it is, unless its state is still to be read.
RestIsTrue(h) ==
    \A p \in Project :
       /\ \A k \in DOMAIN events : events[k].id # p
       /\ projects[p] # None /\ h.kind # "list" /\ ~(h.kind = "states" /\ p \in h.todo)
       => states[p] = running[p]

\* All of it, with h the only handler under way; a dialog waits for none.
Sound(h) ==
    /\ Works(h) /\ Chooses(h) /\ Shows(h) /\ RestIsTrue(h)
    /\ Modal => h = Idle

Alone(i) == \A j \in Slot : j # i => handlers[j] = Idle

MirrorInv ==
    /\ MirrorTypeOK /\ LastIsTrue /\ (confirm = None \/ conflict = None)
    /\ \E i \in Slot : Alone(i) /\ Sound(handlers[i])

(***************************************************************************)
(* Properties                                                              *)
(***************************************************************************)
\* Once every handler has ended and every event was heard, the list is what
\* is registered, the state of each project is its own, and the active
\* project is one of the list.
MirrorIsTrue ==
    Quiet =>
      /\ projects = registry
      /\ \A p \in Project : projects[p] # None => states[p] = running[p]
      /\ active \in Project => projects[active] # None

\* A tunnel is opened only once its warning was confirmed.
TunnelIsConfirmed == launch # None => (launch.tunnel => launch.warned)

\* "Force Kill & Start" starts the project whose port it freed.
FreedPortIsUsed == launch # None => launch.for \in {None, launch.id}

\* Saving a new project replaces no other one.
NewIsNew ==
    [][\A i \in Slot : handlers[i].kind = "register" /\ registry' # registry /\ active = Create
         => registry[handlers[i].id] = None]_mirrorVars
==============================================================================
