--------------------------- MODULE VirtualMachines ---------------------------
(***************************************************************************)
(* The window of the virtual machines (VmManager.tsx) and the manager      *)
(* behind it (vm.rs, vm_engine/manager.rs).                                *)
(*                                                                         *)
(* A machine is stored under its name: the directory and the file of its   *)
(* configuration are made from it.  A configuration is one value.  The     *)
(* display of a machine is served at the first free port.                  *)
(***************************************************************************)
EXTENDS Naturals, Sequences, FiniteSets

CONSTANTS
    Name,           \* names of machines
    Conf,           \* configurations
    Os,             \* systems to choose from
    Template,       \* Template[o]: the configuration suggested for o
    Snap,           \* names of snapshots
    None,           \* no machine, no display
    MaxMade,        \* bound on the machines ever made
    MaxCalls,       \* bound on the calls under way
    Patient,        \* TRUE: the user acts when no call is under way
    Distinct,       \* TRUE: the user gives every machine a name of its own
    OneRuns         \* TRUE: the user starts a machine when none runs

VmAssumption == Template \in [Os -> Conf] /\ {MaxMade, MaxCalls} \subseteq Nat /\ None \notin Nat

VARIABLES
    stored,         \* stored[n]: None, or [id, conf, snaps]
    running,        \* running[i]: the port of the display of i, or 0
    made,           \* the number of ids drawn
    view,           \* activeView
    selected,       \* selectedVmId
    listed,         \* existingVms
    snapshots,      \* the snapshots listed
    edit,           \* the configuration in the form of the selected machine
    tab,            \* consoleTab
    timer,          \* connectTimeout is set
    rfb,            \* None, or the machine the display is connected to: 0 for none
    wizard,         \* the form of a new machine: [step, os, conf, name]
    calls,          \* asynchronous commands under way
    queue           \* synchronous commands, in order

vmVars == <<stored, running, made, view, selected, listed, snapshots, edit, tab, timer, rfb,
            wizard, calls, queue>>
backend == <<stored, running, made>>

Vm == 1..MaxMade
Port == 1..MaxMade
NameOf(i) == IF \E n \in Name : stored[n] # None /\ stored[n].id = i
             THEN CHOOSE n \in Name : stored[n] # None /\ stored[n].id = i ELSE None
Call(cmd, id, conf, name) == [cmd |-> cmd, id |-> id, conf |-> conf, name |-> name]
ListCall == Call("list", 0, None, None)
Begin(c) == c \notin calls /\ Cardinality(calls) < MaxCalls /\ calls' = calls \cup {c}
Idle == calls = {} /\ queue = <<>>
Free == Patient => Idle
First == CHOOSE o \in Os : TRUE

Init ==
    /\ stored = [n \in Name |-> None] /\ running = [i \in Vm |-> 0] /\ made = 0
    /\ view = "create" /\ selected = None /\ listed = {}
    /\ snapshots = {} /\ edit = None
    /\ tab = "vnc" /\ timer = FALSE /\ rfb = None
    /\ wizard = [step |-> 1, os |-> First, conf |-> Template[First], name |-> CHOOSE n \in Name : TRUE]
    /\ calls = {ListCall} /\ queue = <<>>

----------------------------------------------------------------------------
(* The window: the list, the console, the form of a machine.               *)

Entry(i, list) == {v \in list : v.id = i}
Status(i, list) == IF Entry(i, list) = {} THEN "none" ELSE (CHOOSE v \in Entry(i, list) : TRUE).status

\* The effect on the view, the status of the machine and the tab.
Reconnect ==
    IF <<view, Status(selected, listed), tab>> = <<view', Status(selected', listed'), tab'>>
    THEN UNCHANGED <<timer, rfb>>
    ELSE /\ rfb' = None
         /\ timer' = (view' = "manage" /\ tab' = "vnc" /\ Status(selected', listed') = "running")

\* The effect on the selection and the list: the form and the snapshots.
ShowSelected ==
    IF selected' = None THEN snapshots' = {} /\ UNCHANGED <<edit, queue>>
    ELSE IF Entry(selected', listed') = {} THEN UNCHANGED <<snapshots, edit, queue>>
    ELSE /\ edit' = (CHOOSE v \in Entry(selected', listed') : TRUE).conf
         /\ Len(queue) < MaxCalls
         /\ queue' = Append(queue, Call("snaps", selected', None, None))
         /\ UNCHANGED snapshots

OpenCreate ==
    /\ Free /\ <<view, selected>> # <<"create", None>>
    /\ view' = "create" /\ selected' = None
    /\ UNCHANGED <<listed, tab, backend, wizard, calls>>
    /\ Reconnect /\ ShowSelected

Select(i) ==
    /\ Free /\ Entry(i, listed) # {} /\ <<view, selected>> # <<"manage", i>>
    /\ view' = "manage" /\ selected' = i
    /\ UNCHANGED <<listed, tab, backend, wizard, calls>>
    /\ Reconnect
    /\ IF i = selected THEN UNCHANGED <<snapshots, edit, queue>> ELSE ShowSelected

Managed == view = "manage" /\ Entry(selected, listed) # {}

SelectTab(t) ==
    /\ Managed /\ tab # t
    /\ tab' = t
    /\ UNCHANGED <<view, selected, listed, snapshots, edit, backend, wizard, calls, queue>>
    /\ Reconnect

\* One second later the display is connected, always to the first port.
Connect ==
    /\ timer
    /\ timer' = FALSE
    /\ rfb' = IF \E i \in Vm : running[i] = 1 THEN CHOOSE i \in Vm : running[i] = 1 ELSE 0
    /\ UNCHANGED <<view, selected, listed, snapshots, edit, tab, backend, wizard, calls, queue>>

Edit(c) ==
    /\ Free /\ Managed /\ edit # c
    /\ edit' = c
    /\ UNCHANGED <<view, selected, listed, snapshots, tab, timer, rfb, backend, wizard, calls, queue>>

Ask(c) ==
    /\ Free /\ Begin(c)
    /\ UNCHANGED <<view, selected, listed, snapshots, edit, tab, timer, rfb, backend, wizard, queue>>

\* The toolbar offers one of Start and Stop, by the status listed.
StartVm ==
    /\ Managed /\ Status(selected, listed) = "stopped"
    /\ OneRuns => \A i \in Vm : running[i] = 0
    /\ Ask(Call("start", selected, None, None))
StopVm == Managed /\ Status(selected, listed) = "running" /\ Ask(Call("stop", selected, None, None))
DeleteVm == Managed /\ Ask(Call("delete", selected, None, None))
ApplyConfig ==
    /\ Managed
    /\ \E v \in Entry(selected, listed) : Ask(Call("apply", v.id, edit, v.name))

Snapshots(cmd, s) ==
    /\ Free /\ Managed
    /\ s \in snapshots \/ cmd = "take"
    /\ Len(queue) < MaxCalls
    /\ queue' = Append(queue, Call(cmd, selected, None, s))
    /\ UNCHANGED <<view, selected, listed, snapshots, edit, tab, timer, rfb, backend, wizard, calls>>

----------------------------------------------------------------------------
(* The wizard.                                                             *)

Fill(w) ==
    /\ Free /\ ~Managed /\ wizard # w
    /\ wizard' = w
    /\ UNCHANGED <<view, selected, listed, snapshots, edit, tab, timer, rfb, backend, calls, queue>>

Step(n) == n \in 1..4 /\ n \in {wizard.step - 1, wizard.step + 1} /\ Fill([wizard EXCEPT !.step = n])
PickOs(o) == wizard.step = 1 /\ Fill([wizard EXCEPT !.os = o, !.conf = Template[o]])
TypeName(n) == wizard.step = 1 /\ Fill([wizard EXCEPT !.name = n])
EditConf(c) == wizard.step \in {2, 3} /\ Fill([wizard EXCEPT !.conf = c])

CreateVm ==
    /\ ~Managed /\ wizard.step = 4
    /\ Distinct => stored[wizard.name] = None
    /\ Ask(Call("create", 0, wizard.conf, wizard.name))

----------------------------------------------------------------------------
(* The manager.                                                            *)

Ended(c, next) == calls' = (calls \ {c}) \cup next
Unseen == UNCHANGED <<listed, tab, wizard>>
SameView == UNCHANGED <<view, selected, snapshots, edit, timer, rfb, queue>> /\ Unseen

\* save_vm.  An id is drawn for a new machine; the disk that is there stays.
Save(c) ==
    /\ c.cmd \in {"create", "apply"}
    /\ LET new == c.cmd = "create"
           old == stored[c.name]
       IN /\ made' = IF new THEN made + 1 ELSE made
          /\ made' <= MaxMade
          /\ stored' = [stored EXCEPT ![c.name] =
                [id |-> IF new THEN made' ELSE c.id, conf |-> c.conf,
                 snaps |-> IF old = None THEN {} ELSE old.snaps]]
    /\ UNCHANGED running
    /\ Ended(c, {ListCall})
    /\ IF c.cmd = "apply" THEN SameView
       ELSE view' = "manage" /\ UNCHANGED selected /\ Unseen /\ Reconnect /\ UNCHANGED <<snapshots, edit, queue>>

\* start_vm holds the lock of the active machines until it is up.
Start(c, ok) ==
    /\ c.cmd = "start"
    /\ LET works == ok /\ running[c.id] = 0 /\ NameOf(c.id) # None
           free == {p \in Port : \A i \in Vm : running[i] # p}
       IN /\ running' = IF works THEN [running EXCEPT ![c.id] = CHOOSE p \in free : \A q \in free : p <= q]
                        ELSE running
          /\ Ended(c, IF works THEN {ListCall} ELSE {})
    /\ UNCHANGED <<stored, made>> /\ SameView

\* stop_vm fails for one that is not active: one that was listed since it ended.
Stop(c, ok) ==
    /\ c.cmd = "stop"
    /\ running[c.id] # 0 => ok
    /\ running' = [running EXCEPT ![c.id] = 0]
    /\ Ended(c, IF ok THEN {ListCall} ELSE {})
    /\ UNCHANGED <<stored, made>> /\ SameView

\* delete_vm stops the machine, then removes its directory without the lock.
DeleteStops(c) ==
    /\ c.cmd = "delete"
    /\ running' = [running EXCEPT ![c.id] = 0]
    /\ Ended(c, {[c EXCEPT !.cmd = "remove"]})
    /\ UNCHANGED <<stored, made>> /\ SameView

Remove(c) ==
    /\ c.cmd = "remove"
    /\ stored' = IF NameOf(c.id) = None THEN stored ELSE [stored EXCEPT ![NameOf(c.id)] = None]
    /\ Ended(c, {ListCall})
    /\ view' = "create" /\ selected' = None
    /\ UNCHANGED <<running, made>> /\ Unseen
    /\ Reconnect /\ ShowSelected

List(c) ==
    /\ c.cmd = "list"
    /\ listed' = {[id |-> stored[n].id, name |-> n, conf |-> stored[n].conf,
                   status |-> IF running[stored[n].id] # 0 THEN "running" ELSE "stopped"]
                     : n \in {m \in Name : stored[m] # None}}
    /\ Ended(c, {})
    /\ UNCHANGED <<view, selected, tab, backend, wizard>>
    /\ Reconnect /\ ShowSelected

\* A machine that is shut down from inside.
Exit(i) ==
    /\ running[i] # 0
    /\ running' = [running EXCEPT ![i] = 0]
    /\ UNCHANGED <<stored, made, view, selected, listed, snapshots, edit, tab, timer, rfb, wizard, calls, queue>>

\* The commands on snapshots.  Taking and deleting list them again, for the
\* machine that was selected at the click; a list that fails is empty.
Serve(ok) ==
    /\ queue # <<>>
    /\ LET c == Head(queue)
           n == NameOf(c.id)
           works == ok /\ n # None
           snaps == IF works THEN stored[n].snaps ELSE {}
       IN /\ stored' = IF works /\ c.cmd = "take" THEN [stored EXCEPT ![n].snaps = @ \cup {c.name}]
                       ELSE IF works /\ c.cmd = "drop" THEN [stored EXCEPT ![n].snaps = @ \ {c.name}]
                       ELSE stored
          /\ snapshots' = IF c.cmd = "snaps" THEN snaps ELSE snapshots
          /\ c.cmd = "snaps" => (ok \/ n = None)
          /\ queue' = Tail(queue) \o
                (IF works /\ c.cmd \in {"take", "drop"} THEN <<Call("snaps", c.id, None, None)>> ELSE <<>>)
    /\ UNCHANGED <<running, made, view, selected, listed, edit, tab, timer, rfb, wizard, calls>>

Next ==
    \/ OpenCreate \/ Connect \/ StartVm \/ StopVm \/ DeleteVm \/ ApplyConfig \/ CreateVm
    \/ \E i \in Vm : Select(i) \/ Exit(i)
    \/ \E t \in {"vnc", "logs"} : SelectTab(t)
    \/ \E c \in Conf : Edit(c) \/ EditConf(c)
    \/ \E s \in Snap, cmd \in {"take", "restore", "drop"} : Snapshots(cmd, s)
    \/ \E n \in 1..4 : Step(n)
    \/ \E o \in Os : PickOs(o)
    \/ \E n \in Name : TypeName(n)
    \/ \E c \in calls :
          Save(c) \/ DeleteStops(c) \/ Remove(c) \/ List(c) \/ \E ok \in BOOLEAN : Start(c, ok) \/ Stop(c, ok)
    \/ \E ok \in BOOLEAN : Serve(ok)

Spec == Init /\ [][Next]_vmVars

----------------------------------------------------------------------------
\* A machine that runs is stored, so that it can be listed and stopped
\* (manager.rs:169, :206).
RunningIsStored == \A i \in Vm : running[i] # 0 => NameOf(i) # None

\* Once the calls have ended, the window lists what is stored, and the
\* snapshots are those of the selected machine (VmManager.tsx:226).
WindowIsTrue ==
    Idle =>
       /\ {<<v.id, v.name, v.conf>> : v \in listed} =
             {<<stored[n].id, n, stored[n].conf>> : n \in {m \in Name : stored[m] # None}}
       /\ selected # None => NameOf(selected) # None
       /\ snapshots = IF selected = None THEN {} ELSE stored[NameOf(selected)].snaps

\* The display is that of the selected machine (VmManager.tsx:140).
DisplayIsSelected == rfb \in Vm => rfb = selected

\* A machine goes when it is deleted alone (manager.rs:94).
CreateKeepsOthers ==
    [][\A n \in Name : (stored[n] # None /\ stored'[n] # stored[n] /\ stored'[n] # None)
          => stored'[n].id = stored[n].id]_vmVars
=============================================================================
