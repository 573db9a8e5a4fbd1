-------------------------- MODULE MonitoredRunner --------------------------
(***************************************************************************)
(* ProcessRunner composed with what the desktop shell hangs on it: the     *)
(* ResourceMonitor (monitor.rs), which the status router tells what pids   *)
(* to sample, and the watchdog in the resource stats router (events.rs),   *)
(* which forces a project to Fatal when its samples stay over a limit.     *)
(*                                                                         *)
(* The monitor drains its command channel before every tick, so a command  *)
(* takes effect at once as far as samples can tell.                        *)
(***************************************************************************)
EXTENDS ProcessRunner

CONSTANTS
  StatsBacklog   \* bound on samples in flight; the channel holds 100

ASSUME MonitorAssumption == StatsBacklog \in Nat \ {0}

VARIABLES
  telling,  \* the update that is in the manager and not yet with the monitor: its project,
            \* its state and the pid that the project was Running with until then
  tracked,  \* active_projects: the pids sampled for each project
  stats,    \* samples broadcast and not yet handled: the project, and whose processes
            \* take it over a limit; nobody's when the sample is under
  since,    \* exceeded_since: no entry, one younger than 30 s, one at least 30 s old
  blamed    \* history: whose processes were over in the sample that made the entry of since,
            \* or were up by the time it was made

monitorVars == <<telling, tracked, stats, since, blamed>>
allVars == <<vars, monitorVars>>

MonitorTypeOK ==
  /\ TypeOK
  /\ telling \subseteq [project : Projects, new : State, old : Pids \cup {None}]
  /\ tracked \in [Projects -> SUBSET Pids]
  /\ stats \in Seq([project : Projects, over : SUBSET Runs])
  /\ since \in [Projects -> {"none", "recent", "long"}]
  /\ blamed \in [Projects -> SUBSET Runs]

MonitorInit ==
  /\ Init
  /\ telling = {}
  /\ tracked = [p \in Projects |-> {}]
  /\ stats = <<>>
  /\ since = [p \in Projects |-> "none"]
  /\ blamed = [p \in Projects |-> {}]

----------------------------------------------------------------------------
\* The runs whose child is among the processes sampled for p.
Sampled(p) == {r \in Runs : proc[r] = "up" /\ run[r].pid \in tracked[p]}
ChildrenUp(p) == {r \in RunsOf(p) : proc[r] = "up"}

\* Two mutants: every busy state registers a pid; only the first pid is registered.
ToldBusy(pids, new, old) == IF new.kind \in Busy THEN pids \cup {new.pid} ELSE pids \ {old}
ToldFirst(pids, new, old) == IF new.kind = "Running" /\ pids = {} THEN {new.pid} ELSE pids

\* What the router tells the monitor: Running registers the pid, a final state
\* deregisters the pid that the instance was recorded to run with until now.
Told(pids, new, old) ==
  CASE new.kind = "Running" -> pids \cup {new.pid}
    [] new.kind \in Final -> pids \ {old}
    [] OTHER -> pids

\* The router: the manager's lock is released before the monitor is told, which has
\* nothing to do unless a pid comes or goes.
Route ==
  /\ telling = {}
  /\ RouteStatus
  /\ LET m == Head(status)
         old == inst[m.project].state.pid IN
       telling' = IF m.state.kind = "Running" \/ old # None
                  THEN {[project |-> m.project, new |-> m.state, old |-> old]}
                  ELSE {}
  /\ UNCHANGED <<tracked, stats, since, blamed>>

Tell ==
  /\ \E t \in telling :
       tracked' = [tracked EXCEPT ![t.project] = Told(@, t.new, t.old)]
  /\ telling' = {}
  /\ UNCHANGED <<vars, stats, since, blamed>>

\* One project of a tick: the usage summed over every pid tracked for it.
Sample(p) ==
  /\ tracked[p] # {}
  /\ Len(stats) < StatsBacklog
  /\ \E over \in {{}, Sampled(p)} : stats' = Append(stats, [project |-> p, over |-> over])
  /\ UNCHANGED <<vars, telling, tracked, since, blamed>>

\* Thirty seconds have gone by since the entry was made.  A sample never waits that long,
\* and as long as pids are tracked one is taken every second: it clears the entry unless
\* a child is there to be over the limit.
AgeEntry(p) ==
  /\ since[p] = "recent"
  /\ \A i \in DOMAIN stats : stats[i].project # p
  /\ tracked[p] = {} \/ Sampled(p) # {}
  /\ since' = [since EXCEPT ![p] = "long"]
  /\ UNCHANGED <<vars, telling, tracked, stats, blamed>>

\* The watchdog handles a sample; an old entry makes it kill.
ForgetBreach(p) ==
  /\ since' = [since EXCEPT ![p] = "none"]
  /\ blamed' = [blamed EXCEPT ![p] = {}]

HandleUnder ==
  /\ Unlocked
  /\ stats # <<>> /\ Head(stats).over = {}
  /\ stats' = Tail(stats)
  /\ ForgetBreach(Head(stats).project)
  /\ UNCHANGED <<vars, telling, tracked>>

HandleOver ==
  /\ Unlocked
  /\ stats # <<>> /\ Head(stats).over # {}
  /\ LET p == Head(stats).project IN
       /\ since[p] # "long"
       /\ since' = [since EXCEPT ![p] = "recent"]
       /\ blamed' = IF since[p] = "none"
                    THEN [blamed EXCEPT ![p] = Head(stats).over \cup ChildrenUp(p)]
                    ELSE blamed
  /\ stats' = Tail(stats)
  /\ UNCHANGED <<vars, telling, tracked>>

WatchdogKill ==
  /\ stats # <<>> /\ Head(stats).over # {}
  /\ since[Head(stats).project] = "long"
  /\ ForceFatalStop(Head(stats).project)
  /\ UNCHANGED monitorVars

\* The forced stop has returned; of a project that is gone there is none.
EndKill ==
  /\ stats # <<>> /\ Head(stats).over # {}
  /\ since[Head(stats).project] = "long"
  /\ \/ RecordFatal
     \/ Unlocked /\ ~ inst[Head(stats).project].registered /\ UNCHANGED vars
  /\ ForgetBreach(Head(stats).project)
  /\ stats' = Tail(stats)
  /\ UNCHANGED <<telling, tracked>>

----------------------------------------------------------------------------
UserCommand(p) ==
  \/ RegisterProject(p)
  \/ \E r \in Runs : StartProcess(p, r)
  \/ StopProcess(p)
  \/ DeregisterProject(p)

RunnerStep ==
  \/ \E p \in Projects : UserCommand(p)
  \/ \E r \in Runs : SetupStep(r) \/ LoopStep(r) \/ OsStep(r)

MonitorNext ==
  \/ RunnerStep /\ UNCHANGED monitorVars
  \/ Route \/ Tell
  \/ \E p \in Projects : Sample(p) \/ AgeEntry(p)
  \/ HandleUnder \/ HandleOver \/ WatchdogKill \/ EndKill

MonitorSpec == MonitorInit /\ [][MonitorNext]_allVars
MonitorPatientSpec == MonitorInit /\ [][MonitorNext /\ Patience]_allVars

\* A patient user who also lets every run end by itself or by the watchdog.
HandsOff ==
  \A p \in Projects : ~ (RegisterProject(p) \/ StopProcess(p) \/ DeregisterProject(p))
MonitorHandsOffSpec == MonitorInit /\ [][MonitorNext /\ Patience /\ HandsOff]_allVars

----------------------------------------------------------------------------
(* Properties.                                                             *)

(* A project that is shown Running with a pid has that pid sampled as soon *)
(* as the router has told the monitor, whatever updates of older runs were *)
(* routed late and whatever commands came while the router was at it.      *)
ToldOf(p) == \E t \in telling : t.project = p /\ t.new = inst[p].state
RunningIsMonitored ==
  \A p \in Projects :
    inst[p].state.kind = "Running" => inst[p].state.pid \in tracked[p] \/ ToldOf(p)

(* What the proofs carry along: a state Running comes with the pid of a    *)
(* child, in the updates in flight and in what is recorded, and the router *)
(* has one update at most in hand, which no command turns into Running.    *)
RunningHasPid ==
  /\ \A i \in DOMAIN status : status[i].state.kind = "Running" => status[i].state.pid \in Pids
  /\ \A p \in Projects : inst[p].state.kind = "Running" => inst[p].state.pid \in Pids
  /\ \A t \in telling : t.new.kind = "Running" => t.new.pid \in Pids

OneInHand ==
  /\ \A s, t \in telling : s = t
  /\ \A t \in telling :
       inst[t.project].state.kind = "Running" => t.new = inst[t.project].state

MonitorInv == IInv /\ WordInv /\ MonitorTypeOK /\ RunningHasPid /\ OneInHand /\ RunningIsMonitored

(* docs/README.md: stopping a process deregisters its pid.  Once all runs  *)
(* of a project have returned and every update is routed, nothing is       *)
(* sampled for it any more.                                                *)
StoppedIsForgotten ==
  \A p \in Projects :
    status = <<>> /\ telling = {} /\ AllReturned(p) => tracked[p] = {}

(* events.rs: "Breach persisted for 30s -> Force kill & fatal state": a run *)
(* that is over now, and that the watchdog tells to end, was at least up   *)
(* when the 30 s began.                                                    *)
KillsTheRunThatBreached ==
  [][WatchdogKill =>
       \A r \in Head(stats).over :
         stop[r] = "open" /\ stop'[r] = "sent" => r \in blamed[Head(stats).project]]_allVars

(* docs/process_lifecycle.md: a Fatal project is locked out until the user *)
(* intervenes.  A run that was sent a stop by no user was stopped by the   *)
(* watchdog: once it has returned, every update is routed and no start was *)
(* accepted since, its project is Fatal.                                   *)
WatchdogStopped(p) ==
  inst[p].registered /\ inst[p].sender = None /\ \E r \in RunsOf(p) : stop[r] = "sent"
WatchdogKillIsFatal ==
  \A p \in Projects :
    WatchdogStopped(p) /\ AllReturned(p) /\ Unlocked /\ status = <<>> => inst[p].state.kind = "Fatal"
=============================================================================
