--------------------------- MODULE ProcessRunner ---------------------------
(***************************************************************************)
(* The process runner of core_engine: ProcessManager (manager.rs), the     *)
(* background task that start_process spawns for every accepted start      *)
(* (executor.rs), the broadcast channel that carries ProcessState updates, *)
(* and the status router of the desktop shell that folds those updates     *)
(* back into the manager (events.rs).                                      *)
(*                                                                         *)
(* Every command runs under the one mutex around ProcessManager and is one *)
(* action, but force_fatal_stop, which awaits under it while the tasks go  *)
(* on.  The tasks run outside that mutex and only broadcast, so a task     *)
(* is split at its awaits.  One element of Runs stands for one accepted    *)
(* start: its task, its oneshot stop channel, the child it has spawned     *)
(* last, what that child leaves behind and its tunnel.                     *)
(***************************************************************************)
EXTENDS Naturals, Sequences

CONSTANTS
  Projects,       \* project ids
  Runs,           \* identities of accepted starts; bounds how many there are
  Pids,           \* operating-system process ids; an id is free once its process is gone
  AutoRestart,    \* the projects configured with auto_restart (the default)
  Tunnelled,      \* the projects configured with enable_tunnel
  Forking,        \* the projects whose command may leave a descendant on its pipes
  MaxRetries,     \* max_retries; the code's value is 5
  StatusBacklog,  \* bound on status updates in flight; the channel holds 100
  None            \* absence of a run or of a pid

ASSUME RunnerAssumption ==
  /\ AutoRestart \cup Tunnelled \cup Forking \subseteq Projects
  /\ MaxRetries \in Nat \ {0}
  /\ StatusBacklog \in Nat \ {0}
  /\ None \notin Runs \cup Pids \cup Projects

VARIABLES
  inst,    \* ProcessManager.instances: registered or not, state, stop_sender
  run,     \* per start: its project, where its task is, the pid it watches, retry_count
  stop,    \* per start: the oneshot stop channel
  proc,    \* per start: the last child spawned: none, up or exited
  helper,  \* starts whose exited child left a descendant holding its pipes
  tunnel,  \* starts whose cloudflared process is up
  status,  \* ProcessState updates broadcast and not yet routed, oldest first
  fatal    \* the project that force_fatal_stop is about, which holds the mutex at an await

vars == <<inst, run, stop, proc, helper, tunnel, status, fatal>>

----------------------------------------------------------------------------
(* ProcessState.  Terminated is never produced; retry_count, backoff and   *)
(* the reason of Fatal are left out, the pid of Running is kept.           *)
Busy == {"Setup", "Running", "Crashing"}
Final == {"Stopped", "Fatal"}
State == [kind : Busy \cup Final, pid : Pids \cup {None}]

Plain(kind) == [kind |-> kind, pid |-> None]
Running(p) == [kind |-> "Running", pid |-> p]

Instance == [registered : BOOLEAN, state : State, sender : Runs \cup {None}]
Absent == [registered |-> FALSE, state |-> Plain("Stopped"), sender |-> None]
Fresh == [Absent EXCEPT !.registered = TRUE]

(* Where a task is: started with its simulation proxies coming up ("boot"),*)
(* in toolchain and setup ("setup"), at the loop head ("poll"), between    *)
(* the poll and the spawn ("spawn"), bringing the tunnel up ("tunnel"), in *)
(* the select ("select"), waiting for the pipes of an exited child         *)
(* ("drain") or of a killed one ("kill"), sleeping ("backoff").            *)
Live == {"boot", "setup", "poll", "spawn", "tunnel", "select", "drain", "kill", "backoff"}
Ended == {"done", "panicked"}
Task == [project : Projects \cup {None}, pc : {"new"} \cup Live \cup Ended,
         pid : Pids \cup {None}, retries : 0 .. MaxRetries]

(* The oneshot channel: a value was sent, the sender was dropped without   *)
(* one, or try_recv has seen the drop ("spent": the next poll panics).     *)
Channel == {"none", "open", "sent", "dropped", "spent"}
OnlyDropped == {"dropped"}   \* mutant of Signal: a value sent does not wake a select
Signal == {"sent", "dropped"}

TypeOK ==
  /\ inst \in [Projects -> Instance]
  /\ run \in [Runs -> Task]
  /\ stop \in [Runs -> Channel]
  /\ proc \in [Runs -> {"none", "up", "exited"}]
  /\ helper \subseteq Runs
  /\ tunnel \subseteq Runs
  /\ status \in Seq([project : Projects, state : State])
  /\ fatal \in Projects \cup {None}

\* ProcessManager::with_paths loads the saved projects, all of them Stopped.
Init ==
  /\ inst \in [Projects -> {Absent, Fresh}]
  /\ run = [r \in Runs |-> [project |-> None, pc |-> "new", pid |-> None, retries |-> 0]]
  /\ stop = [r \in Runs |-> "none"]
  /\ proc = [r \in Runs |-> "none"]
  /\ helper = {}
  /\ tunnel = {}
  /\ status = <<>>
  /\ fatal = None

----------------------------------------------------------------------------
(* Building blocks.                                                        *)

\* StateUpdater::update, and the send half of update_state.
Emit(p, s) == status' = Append(status, [project |-> p, state |-> s])
HasRoom == Len(status) < StatusBacklog
Broadcast(p, s) == HasRoom /\ Emit(p, s)

\* Two mutants: the sender is left where it was, and it is never sent to.
SenderForgotten(p, signal) == stop
SenderOnlyDropped(p, signal) == [r \in Runs |-> IF r = inst[p].sender THEN "dropped" ELSE stop[r]]

\* What happens to the oneshot of the project's stop_sender, if it has one.
SenderBecomes(p, signal) ==
  [r \in Runs |-> IF r = inst[p].sender THEN signal ELSE stop[r]]

Goto(r, pc) == run' = [run EXCEPT ![r].pc = pc]

\* Mutant: the task returns without an update.
ReturnSilently(r, kind) == Goto(r, "done") /\ UNCHANGED status

\* The task broadcasts its last state and returns.
Return(r, kind) ==
  /\ Broadcast(run[r].project, Plain(kind))
  /\ Goto(r, "done")

\* A pid is taken while its process is up, and until its exit has been waited for.
FreePids ==
  Pids \ {run[r].pid : r \in {x \in Runs :
                               \/ proc[x] = "up"
                               \/ proc[x] = "exited" /\ run[x].pc \in {"tunnel", "select"}}}

----------------------------------------------------------------------------
(* Commands, each under the ProcessManager mutex.                          *)
Unlocked == fatal = None

\* register_project: a new instance replaces the old one, whose stop_sender
\* is dropped with it.
RegisterProject(p) ==
  /\ Unlocked
  /\ inst' = [inst EXCEPT ![p] = Fresh]
  /\ stop' = SenderBecomes(p, "dropped")
  /\ UNCHANGED <<run, proc, helper, tunnel, status, fatal>>

\* start_process: refused in Setup and Running only; the state is left to the
\* task, and a stop_sender that is still there is replaced, hence dropped.
StartProcess(p, r) ==
  /\ Unlocked
  /\ inst[p].registered
  /\ inst[p].state.kind \notin {"Setup", "Running"}
  /\ run[r].pc = "new"
  /\ inst' = [inst EXCEPT ![p].sender = r]
  /\ run' = [run EXCEPT ![r] = [@ EXCEPT !.project = p, !.pc = "boot"]]
  /\ stop' = [SenderBecomes(p, "dropped") EXCEPT ![r] = "open"]
  /\ UNCHANGED <<proc, helper, tunnel, status, fatal>>

\* stop_process: with a stop_sender, send and show Stopped at once; without
\* one, only a Fatal state is reset.
StopProcess(p) ==
  /\ Unlocked
  /\ inst[p].registered
  /\ inst[p].sender # None \/ inst[p].state.kind = "Fatal"
  /\ inst' = [inst EXCEPT ![p].sender = None, ![p].state = Plain("Stopped")]
  /\ stop' = SenderBecomes(p, "sent")
  /\ Broadcast(p, Plain("Stopped"))
  /\ UNCHANGED <<run, proc, helper, tunnel, fatal>>

\* deregister_project: stop_process, then the row and the instance are removed.
DeregisterProject(p) ==
  /\ Unlocked
  /\ inst[p].registered
  /\ inst' = [inst EXCEPT ![p] = Absent]
  /\ stop' = SenderBecomes(p, "sent")
  /\ IF inst[p].sender # None \/ inst[p].state.kind = "Fatal"
     THEN Broadcast(p, Plain("Stopped"))
     ELSE UNCHANGED status
  /\ UNCHANGED <<run, proc, helper, tunnel, fatal>>

\* force_fatal_stop, called by the resource watchdog: the stop is sent ...
ForceFatalStop(p) ==
  /\ Unlocked
  /\ inst[p].registered
  /\ HasRoom
  /\ inst' = [inst EXCEPT ![p].sender = None]
  /\ stop' = SenderBecomes(p, "sent")
  /\ fatal' = p
  /\ UNCHANGED <<run, proc, helper, tunnel, status>>

\* ... and once the log has its line, Fatal is recorded and broadcast, after
\* whatever the task has said meanwhile.
RecordFatal ==
  /\ fatal # None
  /\ inst' = [inst EXCEPT ![fatal].state = Plain("Fatal")]
  /\ Emit(fatal, Plain("Fatal"))
  /\ fatal' = None
  /\ UNCHANGED <<run, stop, proc, helper, tunnel>>

----------------------------------------------------------------------------
(* The status router: one update at a time, written into the instance if   *)
(* there still is one.                                                     *)
RouteStatus ==
  /\ Unlocked
  /\ status # <<>>
  /\ LET m == Head(status) IN
       inst' = IF inst[m.project].registered
               THEN [inst EXCEPT ![m.project].state = m.state]
               ELSE inst
  /\ status' = Tail(status)
  /\ UNCHANGED <<run, stop, proc, helper, tunnel, fatal>>

----------------------------------------------------------------------------
(* The task of a start.                                                    *)

\* Whether a crash is followed by another try, and the mutant that is off by one.
MayRetryOnceMore(p, spent) == p \in AutoRestart /\ spent <= MaxRetries
MayRetry(p, spent) == p \in AutoRestart /\ spent < MaxRetries

BeginSetup(r) ==
  /\ run[r].pc = "boot"
  /\ Broadcast(run[r].project, Plain("Setup"))
  /\ Goto(r, "setup")
  /\ UNCHANGED <<inst, stop, proc, helper, tunnel, fatal>>

\* Neither the toolchain install nor the setup command watches the stop channel.
FinishSetup(r) ==
  /\ run[r].pc = "setup"
  /\ Goto(r, "poll")
  /\ UNCHANGED <<inst, stop, proc, helper, tunnel, status, fatal>>

FailSetup(r) ==
  /\ run[r].pc = "setup"
  /\ Return(r, "Fatal")
  /\ UNCHANGED <<inst, stop, proc, helper, tunnel, fatal>>

\* stop_rx.try_recv() at the loop head: only a value that was sent ends the
\* run; a dropped sender is taken for no stop at all, and spends the receiver.
PollStop(r) ==
  /\ run[r].pc = "poll"
  /\ IF stop[r] = "sent"
     THEN Return(r, "Stopped") /\ UNCHANGED stop
     ELSE /\ Goto(r, "spawn")
          /\ stop' = [stop EXCEPT ![r] = IF @ = "dropped" THEN "spent" ELSE @]
          /\ UNCHANGED status
  /\ UNCHANGED <<inst, proc, helper, tunnel, fatal>>

SpawnChild(r) ==
  /\ run[r].pc = "spawn"
  /\ \E pid \in FreePids :
       /\ run' = [run EXCEPT ![r] = [@ EXCEPT !.pid = pid, !.pc = "tunnel"]]
       /\ Broadcast(run[r].project, Running(pid))
  /\ proc' = [proc EXCEPT ![r] = "up"]
  /\ UNCHANGED <<inst, stop, helper, tunnel, fatal>>

FailSpawn(r) ==
  /\ run[r].pc = "spawn"
  /\ Return(r, "Fatal")
  /\ UNCHANGED <<inst, stop, proc, helper, tunnel, fatal>>

\* The tunnel may fail to come up; the run goes on either way.
OpenTunnel(r) ==
  /\ run[r].pc = "tunnel"
  /\ \/ UNCHANGED tunnel
     \/ run[r].project \in Tunnelled /\ tunnel' = tunnel \cup {r}
  /\ Goto(r, "select")
  /\ UNCHANGED <<inst, stop, proc, helper, status, fatal>>

\* select!, first branch: child.wait() is ready.
SeeExit(r) ==
  /\ run[r].pc = "select"
  /\ proc[r] = "exited"
  /\ Goto(r, "drain")
  /\ UNCHANGED <<inst, stop, proc, helper, tunnel, status, fatal>>

\* Once both pipe readers have ended: stop the tunnel, look at the exit code and at
\* how long the child ran, and stop, back off, or give up.
Conclude(r) ==
  /\ run[r].pc = "drain"
  /\ r \notin helper
  /\ tunnel' = tunnel \ {r}
  /\ \/ Return(r, "Stopped")
     \/ \E spent \in {0, run[r].retries} :
          LET p == run[r].project IN
          IF MayRetry(p, spent)
          THEN /\ run' = [run EXCEPT ![r] = [@ EXCEPT !.pc = "backoff", !.retries = spent + 1]]
               /\ Broadcast(p, Plain("Crashing"))
          ELSE Return(r, "Fatal")
  /\ UNCHANGED <<inst, stop, proc, helper, fatal>>

\* select!, second branch: the stop channel completes, by a value or by a drop.
\* terminate_process_tree finds the descendants of a child that is still up, except
\* those that have lost their own parent.
KillTree(r) ==
  /\ run[r].pc = "select"
  /\ stop[r] \in Signal
  /\ tunnel' = tunnel \ {r}
  /\ proc' = [proc EXCEPT ![r] = "exited"]
  /\ \/ UNCHANGED helper
     \/ proc[r] = "up" /\ run[r].project \in Forking /\ helper' = helper \cup {r}
  /\ Goto(r, "kill")
  /\ UNCHANGED <<inst, stop, status, fatal>>

\* Mutant: does not wait for the pipe readers.
ReportKilledEarly(r) ==
  /\ run[r].pc = "kill"
  /\ Return(r, "Stopped")
  /\ UNCHANGED <<inst, stop, proc, helper, tunnel, fatal>>

ReportKilled(r) ==
  /\ run[r].pc = "kill"
  /\ r \notin helper
  /\ Return(r, "Stopped")
  /\ UNCHANGED <<inst, stop, proc, helper, tunnel, fatal>>

\* The sleep is over; when the stop channel is ready too, select! may take either.
EndBackoff(r) ==
  /\ run[r].pc = "backoff"
  /\ stop[r] # "spent"
  /\ Goto(r, "poll")
  /\ UNCHANGED <<inst, stop, proc, helper, tunnel, status, fatal>>

StopInBackoff(r) ==
  /\ run[r].pc = "backoff"
  /\ stop[r] \in Signal
  /\ Return(r, "Stopped")
  /\ UNCHANGED <<inst, stop, proc, helper, tunnel, fatal>>

\* Polling a oneshot receiver that try_recv has already completed panics, and
\* the panic ends the task with its child still running.
PanicOnSpentChannel(r) ==
  /\ run[r].pc \in {"select", "backoff"}
  /\ stop[r] = "spent"
  /\ Goto(r, "panicked")
  /\ UNCHANGED <<inst, stop, proc, helper, tunnel, status, fatal>>

----------------------------------------------------------------------------
(* The operating system: a child exits, is killed from outside or by the   *)
(* simulated periodic crash; it may leave a descendant with its pipes.     *)
ChildExits(r) ==
  /\ proc[r] = "up"
  /\ proc' = [proc EXCEPT ![r] = "exited"]
  /\ \/ UNCHANGED helper
     \/ run[r].project \in Forking /\ helper' = helper \cup {r}
  /\ UNCHANGED <<inst, run, stop, tunnel, status, fatal>>

HelperExits(r) ==
  /\ r \in helper
  /\ helper' = helper \ {r}
  /\ UNCHANGED <<inst, run, stop, proc, tunnel, status, fatal>>

----------------------------------------------------------------------------
Command(p) ==
  \/ RegisterProject(p)
  \/ \E r \in Runs : StartProcess(p, r)
  \/ StopProcess(p)
  \/ DeregisterProject(p)
  \/ ForceFatalStop(p)

SetupStep(r) == BeginSetup(r) \/ FinishSetup(r) \/ FailSetup(r)

LoopStep(r) ==
  \/ PollStop(r) \/ SpawnChild(r) \/ FailSpawn(r) \/ OpenTunnel(r)
  \/ SeeExit(r) \/ Conclude(r) \/ KillTree(r) \/ ReportKilled(r)
  \/ EndBackoff(r) \/ StopInBackoff(r) \/ PanicOnSpentChannel(r)

OsStep(r) == ChildExits(r) \/ HelperExits(r)

Next ==
  \/ \E p \in Projects : Command(p)
  \/ RecordFatal
  \/ RouteStatus
  \/ \E r \in Runs : SetupStep(r) \/ LoopStep(r) \/ OsStep(r)

Spec == Init /\ [][Next]_vars

(* A user who starts or re-registers a project only once every earlier run *)
(* of it has returned.  The code does not ask for that much.               *)
RunsOf(p) == {r \in Runs : run[r].project = p}
AllReturned(p) == \A r \in RunsOf(p) : run[r].pc = "done"
Patience ==
  \A p \in Projects :
    RegisterProject(p) \/ (\E r \in Runs : StartProcess(p, r)) => AllReturned(p)

PatientSpec == Init /\ [][Next /\ Patience]_vars

(* The runtime polls every ready task, the router and a command at its     *)
(* await; it owes nothing to setup commands, children and helpers, which   *)
(* may run for ever, nor to the user.  Strong fairness of a task: the send *)
(* of an update never blocks in the code, the bound on updates in flight   *)
(* is the model's.                                                         *)
FairSpec ==
  /\ Spec
  /\ WF_vars(RouteStatus) /\ WF_vars(RecordFatal)
  /\ \A r \in Runs : SF_vars(LoopStep(r))

----------------------------------------------------------------------------
(* Properties.                                                             *)

(* Every task that has not been told to stop is still in the manager's     *)
(* reach: the stop_sender of its project's instance is its own.  Breaks if *)
(* any command replaces or removes an instance or a sender and forgets the *)
(* run behind it.                                                          *)
UnsignalledIsReachable ==
  \A r \in Runs : run[r].pc \in Live /\ stop[r] = "open" =>
    inst[run[r].project].registered /\ inst[run[r].project].sender = r

(* A run that returned has left nothing behind: no child, no descendant on *)
(* its pipes, no tunnel, whichever of its returns it took.                 *)
ReturnedLeavesNothing ==
  \A r \in Runs : run[r].pc = "done" => proc[r] # "up" /\ r \notin helper /\ r \notin tunnel

(* The last word on a project whose tasks have all returned is Stopped or  *)
(* Fatal: the newest update still in flight or, when none is, the recorded *)
(* state.  Otherwise the project would show Setup or Running for ever and  *)
(* start_process would refuse it.                                          *)
PendingFor(p) == {i \in DOMAIN status : status[i].project = p}
LastWord(p, kinds) ==
  IF PendingFor(p) = {}
  THEN inst[p].state.kind \in kinds
  ELSE \E i \in PendingFor(p) : /\ \A j \in PendingFor(p) : j <= i
                               /\ status[i].state.kind \in kinds

LastWordIsFinal == \A p \in Projects : AllReturned(p) => LastWord(p, Final)

(* A run that has been sent a stop, and is past its setup, ends: it may be *)
(* held up only by a descendant that keeps the pipes of its child open.    *)
StopEndsRun ==
  \A r \in Runs :
    stop[r] = "sent" /\ run[r].pc \in Live \ {"boot", "setup"}
      ~> run[r].pc = "done" \/ (run[r].pc \in {"kill", "drain"} /\ r \in helper)

(* What the proofs carry along.  Exactly the started tasks have a project.  *)
HasProject == \A r \in Runs : run[r].pc # "new" <=> run[r].project \in Projects

(* The stop channel of a run is open exactly while the manager holds its   *)
(* sender: every command that takes a sender signals the run behind it.    *)
OpenIffHeld ==
  \A r \in Runs :
    /\ stop[r] = "open" => /\ run[r].project \in Projects
                           /\ inst[run[r].project].registered
                           /\ inst[run[r].project].sender = r
    /\ \A p \in Projects : inst[p].sender = r => stop[r] = "open" /\ run[r].project = p
    /\ run[r].pc = "new" <=> stop[r] = "none"

(* Where a task may be while its child is up, a descendant of its exited   *)
(* child holds the pipes, or its tunnel is up.                             *)
ChildPlace ==
  \A r \in Runs :
    /\ proc[r] = "up" => run[r].pc \in {"tunnel", "select", "panicked"}
    /\ r \in helper => run[r].pc \in {"tunnel", "select", "drain", "kill", "panicked"}
    /\ r \in tunnel => run[r].pc \in {"select", "drain", "panicked"}

(* What is left of an instance that was removed counts as Stopped.         *)
GoneIsStopped == \A p \in Projects : ~ inst[p].registered => inst[p].state.kind \in Final

(* The inductive invariant behind the run properties above, and the one    *)
(* behind LastWordIsFinal.                                                 *)
IInv == TypeOK /\ HasProject /\ OpenIffHeld /\ ChildPlace
WordInv == GoneIsStopped /\ LastWordIsFinal

(* A patient user has one task per project at a time: no sender of a task  *)
(* that still runs is dropped, so none panics, and while a child is        *)
(* watched uncommanded the last word on its project is Running.            *)
OneAtATime ==
  \A p \in Projects : \A r, s \in RunsOf(p) :
    run[r].pc # "done" /\ run[s].pc # "done" => r = s

NoneDropped ==
  \A r \in Runs : run[r].pc # "panicked" /\ (stop[r] \in {"dropped", "spent"} => run[r].pc = "done")

WatchedIsRunning ==
  \A r \in Runs : run[r].pc \in {"tunnel", "select"} /\ stop[r] = "open" =>
    LastWord(run[r].project, {"Running"})

\* Whoever is to be Fatal was told to end before.
FatalIsTold == fatal # None => inst[fatal].registered /\ inst[fatal].sender = None

PatientInv == IInv /\ WordInv /\ FatalIsTold /\ OneAtATime /\ NoneDropped /\ WatchedIsRunning

(* docs/process_lifecycle.md: a setup that times out makes the project     *)
(* Fatal, so no task stays in its setup for ever.                          *)
SetupEnds == \A r \in Runs : run[r].pc = "setup" ~> run[r].pc # "setup"

(* The runner keeps the promise of RunControl: seen from outside, a start  *)
(* replaces the run held before and tells it to end, only commands take a  *)
(* run out of reach, returning runs use nothing, and a task is lost with   *)
(* its child only if it was told to end.                                   *)
Control == INSTANCE RunControl WITH
  held <- [p \in Projects |-> inst[p].sender],
  told <- {r \in Runs : stop[r] \in {"sent", "dropped", "spent"}},
  over <- {r \in Runs : run[r].pc = "done"},
  lost <- {r \in Runs : run[r].pc = "panicked"},
  using <- {r \in Runs : proc[r] = "up"} \cup helper \cup tunnel

ImplementsRunControl == Control!Spec

(* docs/process_lifecycle.md: a Stopped project is idle and holds zero     *)
(* resources; with no update in flight, no child of it runs uncommanded.   *)
StoppedIsIdle ==
  \A p \in Projects : inst[p].registered /\ inst[p].state.kind = "Stopped" /\ status = <<>> =>
    ~ \E r \in RunsOf(p) : proc[r] = "up" /\ run[r].pc = "select" /\ stop[r] = "open"

(* README.md: termination eradicates orphan processes, so a child is never *)
(* up without the task that watches it.                                    *)
NoAbandonedChild == \A r \in Runs : proc[r] = "up" => run[r].pc \in Live

----------------------------------------------------------------------------
\* For TLC: runs can be exchanged for one another, and so can pids.
LOCAL INSTANCE TLC
Symmetry == Permutations(Runs) \cup Permutations(Pids)
=============================================================================
