------------------------ MODULE ProcessRunnerProofs ------------------------
(***************************************************************************)
(* What TLAPS proves of ProcessRunner, for every set of projects, runs and *)
(* pids, every retry limit and every bound on the updates in flight; and,  *)
(* at the end, of MonitoredRunner, the same with any number of samples in  *)
(* flight.                                                                 *)
(***************************************************************************)
EXTENDS MonitoredRunner, TLAPS

Update == [project : Projects, state : State]
Updates == Seq(Update)

----------------------------------------------------------------------------
(* The building blocks keep to the types.                                  *)

\* A state without a pid, as every command and every return broadcasts it.
LEMMA PlainTyped ==
  ASSUME NEW k \in Busy \cup Final
  PROVE  Plain(k) \in State /\ Plain(k).kind = k
BY DEF Plain, State

\* What a replaced and what a removed instance look like.
LEMMA FreshTyped ==
  /\ Fresh \in Instance /\ Fresh.registered /\ Fresh.sender = None
  /\ Absent \in Instance /\ ~ Absent.registered /\ Absent.sender = None
<1>1. Plain("Stopped") \in State
  BY PlainTyped DEF Final
<1> QED
  BY <1>1 DEF Fresh, Absent, Instance

\* One more update in flight leaves the updates well typed.
LEMMA EmitTyped ==
  ASSUME TypeOK, NEW p \in Projects, NEW s \in State, Emit(p, s)
  PROVE  status' \in Updates
BY DEF TypeOK, Emit, Update, Updates

LEMMA BroadcastTyped ==
  ASSUME TypeOK, NEW p \in Projects, NEW s \in State, Broadcast(p, s)
  PROVE  status' \in Updates
BY EmitTyped DEF Broadcast

\* An instance that gets a state and loses its sender stays an instance.
LEMMA InstanceTyped ==
  ASSUME TypeOK, NEW p \in Projects, NEW s \in State,
         inst' = [inst EXCEPT ![p].sender = None, ![p].state = s]
  PROVE  inst' \in [Projects -> Instance]
<1>1. inst \in [Projects -> Instance] /\ inst[p] \in Instance
  BY DEF TypeOK
<1>2. inst' = [inst EXCEPT ![p] = [inst[p] EXCEPT !.sender = None, !.state = s]]
  BY <1>1 DEF Instance
<1>3. [inst[p] EXCEPT !.sender = None, !.state = s] \in Instance
  BY <1>1 DEF Instance
<1> QED
  BY <1>1, <1>2, <1>3

\* Signalling the run behind a project leaves the stop channels well typed.
LEMMA SenderTyped ==
  ASSUME TypeOK, NEW p \in Projects, NEW signal \in Channel
  PROVE  SenderBecomes(p, signal) \in [Runs -> Channel]
BY DEF TypeOK, SenderBecomes

\* A task that only moves stays a task.
LEMMA GotoTyped ==
  ASSUME TypeOK, NEW r \in Runs, NEW pc \in Live \cup Ended, Goto(r, pc)
  PROVE  run' \in [Runs -> Task]
BY DEF TypeOK, Goto, Task

\* A task that returns stays a task, and what it broadcasts is an update.
LEMMA ReturnTyped ==
  ASSUME TypeOK, HasProject, NEW r \in Runs, run[r].pc # "new",
         NEW k \in Final, Return(r, k)
  PROVE  run' \in [Runs -> Task] /\ status' \in Updates
<1>1. run[r].project \in Projects /\ Plain(k) \in State
  BY PlainTyped DEF HasProject
<1>2. status' \in Updates
  BY <1>1, BroadcastTyped DEF Return
<1>3. run' \in [Runs -> Task]
  BY GotoTyped DEF Return, Ended
<1> QED
  BY <1>2, <1>3

----------------------------------------------------------------------------
(* The four parts of the inductive invariant hold initially.               *)
LEMMA InitIInv == Init => IInv
<1> SUFFICES ASSUME Init PROVE IInv
  OBVIOUS
<1>1. inst \in [Projects -> Instance]
  BY FreshTyped DEF Init
<1>2. run \in [Runs -> Task]
  BY RunnerAssumption DEF Init, Task
<1>3. TypeOK
  BY <1>1, <1>2 DEF Init, TypeOK, Channel
<1>4. HasProject /\ ChildPlace
  BY RunnerAssumption DEF Init, HasProject, ChildPlace
<1>5. \A p \in Projects : inst[p].sender = None
  BY FreshTyped DEF Init
<1>6. OpenIffHeld
  BY <1>5, RunnerAssumption DEF Init, OpenIffHeld
<1> QED
  BY <1>3, <1>4, <1>6 DEF IInv

(* Every step keeps the types: commands, then the router, then the steps   *)
(* of a task in the order of its life, then the operating system.          *)
LEMMA TypeStep ==
  ASSUME TypeOK, HasProject, [Next]_vars
  PROVE  TypeOK'
<1> USE DEF Final, Channel
<1>1. ASSUME NEW p \in Projects, RegisterProject(p) PROVE TypeOK'
  <2>1. inst' \in [Projects -> Instance]
    BY <1>1, FreshTyped DEF TypeOK, RegisterProject
  <2>2. stop' \in [Runs -> Channel]
    BY <1>1, SenderTyped DEF RegisterProject
  <2> QED
    BY <1>1, <2>1, <2>2 DEF TypeOK, RegisterProject
<1>2. ASSUME NEW p \in Projects, NEW r \in Runs, StartProcess(p, r) PROVE TypeOK'
  <2>1. inst' \in [Projects -> Instance]
    BY <1>2 DEF TypeOK, StartProcess, Instance
  <2>2. run' \in [Runs -> Task]
    <3>1. run \in [Runs -> Task]
      BY DEF TypeOK
    <3>2. [run[r] EXCEPT !.project = p, !.pc = "boot"] \in Task
      BY <3>1 DEF Task, Live
    <3> QED
      BY <1>2, <3>1, <3>2 DEF StartProcess
  <2>3. stop' \in [Runs -> Channel]
    <3>1. SenderBecomes(p, "dropped") \in [Runs -> Channel]
      BY SenderTyped
    <3> QED
      BY <1>2, <3>1 DEF StartProcess
  <2> QED
    BY <1>2, <2>1, <2>2, <2>3 DEF TypeOK, StartProcess
<1>3. ASSUME NEW p \in Projects, StopProcess(p) PROVE TypeOK'
  <2>1. Plain("Stopped") \in State
    BY PlainTyped
  <2>2. inst' \in [Projects -> Instance]
    BY <1>3, <2>1, InstanceTyped DEF StopProcess
  <2>3. stop' \in [Runs -> Channel]
    BY <1>3, SenderTyped DEF StopProcess
  <2>4. status' \in Updates
    BY <1>3, <2>1, BroadcastTyped DEF StopProcess
  <2> QED
    BY <1>3, <2>2, <2>3, <2>4 DEF TypeOK, StopProcess, Update, Updates
<1>4. ASSUME NEW p \in Projects, DeregisterProject(p) PROVE TypeOK'
  <2>1. inst' \in [Projects -> Instance]
    BY <1>4, FreshTyped DEF TypeOK, DeregisterProject
  <2>2. stop' \in [Runs -> Channel]
    BY <1>4, SenderTyped DEF DeregisterProject
  <2>3. status' \in Updates
    BY <1>4, PlainTyped, BroadcastTyped DEF DeregisterProject, TypeOK, Update, Updates
  <2> QED
    BY <1>4, <2>1, <2>2, <2>3 DEF TypeOK, DeregisterProject, Update, Updates
<1>5. ASSUME NEW p \in Projects, ForceFatalStop(p) PROVE TypeOK'
  <2>1. inst' \in [Projects -> Instance]
    BY <1>5 DEF TypeOK, ForceFatalStop, Instance
  <2>2. stop' \in [Runs -> Channel]
    BY <1>5, SenderTyped DEF ForceFatalStop
  <2> QED
    BY <1>5, <2>1, <2>2 DEF TypeOK, ForceFatalStop
<1>6. ASSUME RouteStatus PROVE TypeOK'
  <2> DEFINE m == Head(status)
  <2>1. status \in Updates /\ status # <<>>
    BY <1>6 DEF TypeOK, RouteStatus, Update, Updates
  <2>2. m \in Update /\ Tail(status) \in Updates
    BY <2>1 DEF Updates
  <2>3. inst' \in [Projects -> Instance]
    <3>1. m.project \in Projects /\ m.state \in State /\ inst \in [Projects -> Instance]
      BY <2>2 DEF TypeOK, Update
    <3>2. [inst[m.project] EXCEPT !.state = m.state] \in Instance
      BY <3>1 DEF Instance
    <3>3. inst' = inst \/ inst' = [inst EXCEPT ![m.project] = [inst[m.project] EXCEPT !.state = m.state]]
      BY <1>6 DEF RouteStatus
    <3> QED
      BY <3>1, <3>2, <3>3
  <2> QED
    BY <1>6, <2>2, <2>3 DEF TypeOK, RouteStatus, Update, Updates
<1>7. ASSUME NEW r \in Runs, BeginSetup(r) PROVE TypeOK'
  <2>1. run[r].project \in Projects /\ Plain("Setup") \in State
    BY <1>7, PlainTyped DEF HasProject, BeginSetup, Busy
  <2>2. status' \in Updates
    BY <1>7, <2>1, BroadcastTyped DEF BeginSetup
  <2>3. run' \in [Runs -> Task]
    BY <1>7, GotoTyped DEF BeginSetup, Live
  <2> QED
    BY <1>7, <2>2, <2>3 DEF TypeOK, BeginSetup, Update, Updates
<1>8. ASSUME NEW r \in Runs, FinishSetup(r) PROVE TypeOK'
  <2>1. run' \in [Runs -> Task]
    BY <1>8, GotoTyped DEF FinishSetup, Live
  <2> QED
    BY <1>8, <2>1 DEF TypeOK, FinishSetup
<1>9. ASSUME NEW r \in Runs, FailSetup(r) PROVE TypeOK'
  <2>1. run' \in [Runs -> Task] /\ status' \in Updates
    BY <1>9, ReturnTyped DEF FailSetup
  <2> QED
    BY <1>9, <2>1 DEF TypeOK, FailSetup, Update, Updates
<1>10. ASSUME NEW r \in Runs, PollStop(r) PROVE TypeOK'
  <2>1. CASE stop[r] = "sent"
    <3>1. run' \in [Runs -> Task] /\ status' \in Updates
      BY <1>10, <2>1, ReturnTyped DEF PollStop
    <3> QED
      BY <1>10, <2>1, <3>1 DEF TypeOK, PollStop, Update, Updates
  <2>2. CASE stop[r] # "sent"
    <3>1. run' \in [Runs -> Task]
      BY <1>10, <2>2, GotoTyped DEF PollStop, Live
    <3>2. stop' \in [Runs -> Channel]
      BY <1>10, <2>2 DEF TypeOK, PollStop
    <3> QED
      BY <1>10, <2>2, <3>1, <3>2 DEF TypeOK, PollStop
  <2> QED
    BY <2>1, <2>2
<1>11. ASSUME NEW r \in Runs, SpawnChild(r) PROVE TypeOK'
  <2>1. PICK pid \in Pids :
          /\ run' = [run EXCEPT ![r] = [@ EXCEPT !.pid = pid, !.pc = "tunnel"]]
          /\ Broadcast(run[r].project, Running(pid))
    BY <1>11 DEF SpawnChild, FreePids
  <2>2. run[r].project \in Projects /\ Running(pid) \in State
    BY <1>11 DEF HasProject, SpawnChild, Running, State, Busy
  <2>3. status' \in Updates
    BY <2>1, <2>2, BroadcastTyped
  <2>4. run' \in [Runs -> Task]
    <3>1. run \in [Runs -> Task]
      BY DEF TypeOK
    <3>2. [run[r] EXCEPT !.pid = pid, !.pc = "tunnel"] \in Task
      BY <3>1 DEF Task, Live
    <3> QED
      BY <2>1, <3>1, <3>2
  <2>5. proc' \in [Runs -> {"none", "up", "exited"}]
    BY <1>11 DEF TypeOK, SpawnChild
  <2> QED
    BY <1>11, <2>3, <2>4, <2>5 DEF TypeOK, SpawnChild, Update, Updates
<1>12. ASSUME NEW r \in Runs, FailSpawn(r) PROVE TypeOK'
  <2>1. run' \in [Runs -> Task] /\ status' \in Updates
    BY <1>12, ReturnTyped DEF FailSpawn
  <2> QED
    BY <1>12, <2>1 DEF TypeOK, FailSpawn, Update, Updates
<1>13. ASSUME NEW r \in Runs, OpenTunnel(r) PROVE TypeOK'
  <2>1. run' \in [Runs -> Task]
    BY <1>13, GotoTyped DEF OpenTunnel, Live
  <2> QED
    BY <1>13, <2>1 DEF TypeOK, OpenTunnel
<1>14. ASSUME NEW r \in Runs, SeeExit(r) PROVE TypeOK'
  <2>1. run' \in [Runs -> Task]
    BY <1>14, GotoTyped DEF SeeExit, Live
  <2> QED
    BY <1>14, <2>1 DEF TypeOK, SeeExit
<1>15. ASSUME NEW r \in Runs, Conclude(r) PROVE TypeOK'
  <2>1. run[r].pc # "new" /\ run[r].project \in Projects
    BY <1>15 DEF HasProject, Conclude
  <2>2. run' \in [Runs -> Task] /\ status' \in Updates
    <3>1. CASE \E k \in Final : Return(r, k)
      BY <2>1, <3>1, ReturnTyped
    <3>2. CASE \E spent \in {0, run[r].retries} :
                 /\ spent < MaxRetries
                 /\ run' = [run EXCEPT ![r] = [@ EXCEPT !.pc = "backoff", !.retries = spent + 1]]
                 /\ Broadcast(run[r].project, Plain("Crashing"))
      <4>1. PICK spent \in {0, run[r].retries} :
              /\ spent < MaxRetries
              /\ run' = [run EXCEPT ![r] = [@ EXCEPT !.pc = "backoff", !.retries = spent + 1]]
              /\ Broadcast(run[r].project, Plain("Crashing"))
        BY <3>2
      <4>2. spent + 1 \in 0 .. MaxRetries
        BY <4>1, RunnerAssumption DEF TypeOK, Task
      <4>3. run' \in [Runs -> Task]
        <5>1. run \in [Runs -> Task]
          BY DEF TypeOK
        <5>2. [run[r] EXCEPT !.pc = "backoff", !.retries = spent + 1] \in Task
          BY <4>2, <5>1 DEF Task, Live
        <5> QED
          BY <4>1, <5>1, <5>2
      <4>4. Plain("Crashing") \in State
        BY PlainTyped DEF Busy
      <4>5. status' \in Updates
        BY <2>1, <4>1, <4>4, BroadcastTyped
      <4> QED
        BY <4>3, <4>5
    <3> QED
      BY <1>15, <3>1, <3>2 DEF Conclude, MayRetry
  <2>3. tunnel' \subseteq Runs
    BY <1>15 DEF TypeOK, Conclude
  <2> QED
    BY <1>15, <2>2, <2>3 DEF TypeOK, Conclude, Update, Updates
<1>16. ASSUME NEW r \in Runs, KillTree(r) PROVE TypeOK'
  <2>1. run' \in [Runs -> Task]
    BY <1>16, GotoTyped DEF KillTree, Live
  <2> QED
    BY <1>16, <2>1 DEF TypeOK, KillTree
<1>17. ASSUME NEW r \in Runs, ReportKilled(r) PROVE TypeOK'
  <2>1. run' \in [Runs -> Task] /\ status' \in Updates
    BY <1>17, ReturnTyped DEF ReportKilled
  <2> QED
    BY <1>17, <2>1 DEF TypeOK, ReportKilled, Update, Updates
<1>18. ASSUME NEW r \in Runs, EndBackoff(r) PROVE TypeOK'
  <2>1. run' \in [Runs -> Task]
    BY <1>18, GotoTyped DEF EndBackoff, Live
  <2> QED
    BY <1>18, <2>1 DEF TypeOK, EndBackoff
<1>19. ASSUME NEW r \in Runs, StopInBackoff(r) PROVE TypeOK'
  <2>1. run' \in [Runs -> Task] /\ status' \in Updates
    BY <1>19, ReturnTyped DEF StopInBackoff
  <2> QED
    BY <1>19, <2>1 DEF TypeOK, StopInBackoff, Update, Updates
<1>20. ASSUME NEW r \in Runs, PanicOnSpentChannel(r) PROVE TypeOK'
  <2>1. run' \in [Runs -> Task]
    BY <1>20, GotoTyped DEF PanicOnSpentChannel, Ended
  <2> QED
    BY <1>20, <2>1 DEF TypeOK, PanicOnSpentChannel
<1>21. ASSUME NEW r \in Runs, ChildExits(r) PROVE TypeOK'
  BY <1>21 DEF TypeOK, ChildExits
<1>22. ASSUME NEW r \in Runs, HelperExits(r) PROVE TypeOK'
  BY <1>22 DEF TypeOK, HelperExits
<1>23. CASE RecordFatal
  <2>1. fatal \in Projects /\ Plain("Fatal") \in State
    BY <1>23, PlainTyped DEF TypeOK, RecordFatal
  <2>2. inst' \in [Projects -> Instance]
    <3>1. inst \in [Projects -> Instance]
      BY DEF TypeOK
    <3>2. [inst[fatal] EXCEPT !.state = Plain("Fatal")] \in Instance
      BY <2>1, <3>1 DEF Instance
    <3> QED
      BY <1>23, <2>1, <3>1, <3>2 DEF RecordFatal
  <2>3. status' \in Updates
    BY <1>23, <2>1, EmitTyped DEF RecordFatal
  <2> QED
    BY <1>23, <2>2, <2>3 DEF TypeOK, RecordFatal, Update, Updates
<1>24. CASE UNCHANGED vars
  BY <1>24 DEF TypeOK, vars
<1> QED
  BY <1>1, <1>2, <1>3, <1>4, <1>5, <1>6, <1>7, <1>8, <1>9, <1>10, <1>11, <1>12, <1>13,
     <1>14, <1>15, <1>16, <1>17, <1>18, <1>19, <1>20, <1>21, <1>22, <1>23, <1>24
     DEF Next, Command, SetupStep, LoopStep, OsStep

----------------------------------------------------------------------------
(* A step of a task or of the operating system leaves the manager alone,   *)
(* neither starts a task nor moves it to another project, and neither      *)
(* opens nor closes a stop channel.                                        *)
TaskFrame ==
  /\ inst' = inst /\ fatal' = fatal
  /\ \A s \in Runs :
       /\ run'[s].project = run[s].project
       /\ run'[s].pc = "new" <=> run[s].pc = "new"
       /\ stop'[s] = "open" <=> stop[s] = "open"
       /\ stop'[s] = "none" <=> stop[s] = "none"

\* What a task that only moves leaves alone.
LEMMA GotoFrame ==
  ASSUME TypeOK, NEW r \in Runs, run[r].pc # "new", NEW pc \in Live \cup Ended, Goto(r, pc)
  PROVE  \A s \in Runs : /\ run'[s].project = run[s].project
                         /\ run'[s].pc = "new" <=> run[s].pc = "new"
<1>1. pc # "new"
  BY DEF Live, Ended
<1>2. run \in [Runs -> Task]
  BY DEF TypeOK
<1>3. \A s \in Runs : run'[s] = IF s = r THEN [run[r] EXCEPT !.pc = pc] ELSE run[s]
  BY <1>2 DEF Goto
<1>4. run'[r].project = run[r].project /\ run'[r].pc = pc
  BY <1>2, <1>3 DEF Task
<1> QED
  BY <1>1, <1>3, <1>4

\* Every step of a task or of the operating system stays within that frame.
LEMMA TaskStepFrame ==
  ASSUME TypeOK, NEW r \in Runs, SetupStep(r) \/ LoopStep(r) \/ OsStep(r)
  PROVE  TaskFrame
<1> USE DEF TaskFrame, Return, Live, Ended
<1>1. CASE BeginSetup(r) \/ FinishSetup(r) \/ FailSetup(r)
  BY <1>1, GotoFrame DEF BeginSetup, FinishSetup, FailSetup
<1>2. CASE PollStop(r)
  <2>1. \A s \in Runs : /\ stop'[s] = "open" <=> stop[s] = "open"
                        /\ stop'[s] = "none" <=> stop[s] = "none"
    BY <1>2 DEF PollStop, TypeOK
  <2> QED
    BY <1>2, <2>1, GotoFrame DEF PollStop
<1>3. CASE SpawnChild(r)
  BY <1>3 DEF SpawnChild, TypeOK, Task
<1>4. CASE FailSpawn(r) \/ OpenTunnel(r) \/ SeeExit(r)
  BY <1>4, GotoFrame DEF FailSpawn, OpenTunnel, SeeExit
<1>5. CASE Conclude(r)
  <2>1. CASE \E k \in Final : Return(r, k)
    BY <1>5, <2>1, GotoFrame DEF Conclude
  <2>2. CASE \E retries \in {run[r].retries, 0} :
               run' = [run EXCEPT ![r] = [@ EXCEPT !.pc = "backoff", !.retries = retries + 1]]
    BY <1>5, <2>2 DEF Conclude, TypeOK, Task
  <2> QED
    BY <1>5, <2>1, <2>2 DEF Conclude, MayRetry, Final
<1>6. CASE KillTree(r) \/ ReportKilled(r)
  BY <1>6, GotoFrame DEF KillTree, ReportKilled
<1>7. CASE EndBackoff(r) \/ StopInBackoff(r) \/ PanicOnSpentChannel(r)
  BY <1>7, GotoFrame DEF EndBackoff, StopInBackoff, PanicOnSpentChannel
<1>8. CASE ChildExits(r) \/ HelperExits(r)
  BY <1>8 DEF ChildExits, HelperExits
<1> QED
  BY <1>1, <1>2, <1>3, <1>4, <1>5, <1>6, <1>7, <1>8 DEF SetupStep, LoopStep, OsStep

(* Only start_process makes a task, and it gives it its project.           *)
LEMMA ProjectStep ==
  ASSUME TypeOK, HasProject, [Next]_vars
  PROVE  HasProject'
<1>1. ASSUME NEW p \in Projects, NEW r \in Runs, StartProcess(p, r) PROVE HasProject'
  BY <1>1 DEF TypeOK, Task, HasProject, StartProcess
<1>2. ASSUME NEW p \in Projects, RegisterProject(p) \/ StopProcess(p) \/ DeregisterProject(p)
                                   \/ ForceFatalStop(p)
      PROVE  HasProject'
  BY <1>2 DEF HasProject, RegisterProject, StopProcess, DeregisterProject, ForceFatalStop
<1>3. CASE RouteStatus \/ RecordFatal
  BY <1>3 DEF HasProject, RouteStatus, RecordFatal
<1>4. ASSUME NEW r \in Runs, SetupStep(r) \/ LoopStep(r) \/ OsStep(r) PROVE HasProject'
  BY <1>4, TaskStepFrame DEF TaskFrame, HasProject
<1>5. CASE UNCHANGED vars
  BY <1>5 DEF HasProject, vars
<1> QED
  BY <1>1, <1>2, <1>3, <1>4, <1>5 DEF Next, Command

(* The heart of the matter: whatever command takes the stop_sender out of  *)
(* an instance, or replaces it, signals the run it belonged to, and no     *)
(* other run.                                                              *)
LEMMA HeldStep ==
  ASSUME TypeOK, HasProject, OpenIffHeld, [Next]_vars
  PROVE  OpenIffHeld'
<1> USE RunnerAssumption
<1>1. ASSUME NEW p \in Projects, RegisterProject(p) PROVE OpenIffHeld'
  BY <1>1, FreshTyped DEF TypeOK, OpenIffHeld, RegisterProject, SenderBecomes
<1>2. ASSUME NEW p \in Projects, NEW r \in Runs, StartProcess(p, r) PROVE OpenIffHeld'
  BY <1>2 DEF TypeOK, Instance, Task, OpenIffHeld, StartProcess, SenderBecomes
<1>3. ASSUME NEW p \in Projects, StopProcess(p) PROVE OpenIffHeld'
  BY <1>3 DEF TypeOK, Instance, OpenIffHeld, StopProcess, SenderBecomes
<1>4. ASSUME NEW p \in Projects, DeregisterProject(p) PROVE OpenIffHeld'
  BY <1>4, FreshTyped DEF TypeOK, OpenIffHeld, DeregisterProject, SenderBecomes
<1>5. ASSUME NEW p \in Projects, ForceFatalStop(p) PROVE OpenIffHeld'
  BY <1>5 DEF TypeOK, Instance, OpenIffHeld, ForceFatalStop, SenderBecomes
<1>6. CASE RouteStatus \/ RecordFatal
  <2>1. \A p \in Projects : /\ inst'[p].registered = inst[p].registered
                            /\ inst'[p].sender = inst[p].sender
    <3>1. CASE RouteStatus
      BY <3>1 DEF TypeOK, Instance, RouteStatus
    <3>2. CASE RecordFatal
      BY <3>2 DEF TypeOK, Instance, RecordFatal
    <3> QED
      BY <1>6, <3>1, <3>2
  <2> QED
    BY <1>6, <2>1 DEF OpenIffHeld, RouteStatus, RecordFatal
<1>7. ASSUME NEW r \in Runs, SetupStep(r) \/ LoopStep(r) \/ OsStep(r) PROVE OpenIffHeld'
  <2>1. TaskFrame
    BY <1>7, TaskStepFrame
  <2> QED
    BY <2>1 DEF TaskFrame, OpenIffHeld
<1>8. CASE UNCHANGED vars
  BY <1>8 DEF OpenIffHeld, vars
<1> QED
  BY <1>1, <1>2, <1>3, <1>4, <1>5, <1>6, <1>7, <1>8 DEF Next, Command

(* No task gets past the point where it reaps its child, waits for its     *)
(* descendants or stops its tunnel without having done so.                 *)
LEMMA PlaceStep ==
  ASSUME TypeOK, ChildPlace, [Next]_vars
  PROVE  ChildPlace'
<1> USE DEF TypeOK, Task, ChildPlace, Goto, Return
<1>1. ASSUME NEW p \in Projects, NEW r \in Runs, StartProcess(p, r) PROVE ChildPlace'
  BY <1>1 DEF StartProcess
<1>2. ASSUME NEW p \in Projects, RegisterProject(p) \/ StopProcess(p) \/ DeregisterProject(p)
                                   \/ ForceFatalStop(p)
      PROVE  ChildPlace'
  BY <1>2 DEF RegisterProject, StopProcess, DeregisterProject, ForceFatalStop
<1>3. CASE RouteStatus \/ RecordFatal
  BY <1>3 DEF RouteStatus, RecordFatal
<1>4. ASSUME NEW r \in Runs, SetupStep(r) PROVE ChildPlace'
  BY <1>4 DEF SetupStep, BeginSetup, FinishSetup, FailSetup
<1>5. ASSUME NEW r \in Runs, PollStop(r) PROVE ChildPlace'
  BY <1>5 DEF PollStop
<1>6. ASSUME NEW r \in Runs, SpawnChild(r) PROVE ChildPlace'
  BY <1>6 DEF SpawnChild
<1>7. ASSUME NEW r \in Runs, FailSpawn(r) \/ OpenTunnel(r) \/ SeeExit(r) PROVE ChildPlace'
  <2>1. CASE FailSpawn(r)
    BY <2>1 DEF FailSpawn
  <2>2. CASE OpenTunnel(r)
    BY <2>2 DEF OpenTunnel
  <2>3. CASE SeeExit(r)
    BY <2>3 DEF SeeExit
  <2> QED
    BY <1>7, <2>1, <2>2, <2>3
<1>8. ASSUME NEW r \in Runs, Conclude(r) PROVE ChildPlace'
  <2>1. run'[r].pc \in {"done", "backoff"} /\ \A s \in Runs \ {r} : run'[s] = run[s]
    <3>1. CASE \E k \in Final : Return(r, k)
      BY <3>1
    <3>2. CASE \E retries \in {run[r].retries, 0} :
                 run' = [run EXCEPT ![r] = [@ EXCEPT !.pc = "backoff", !.retries = retries + 1]]
      BY <3>2
    <3> QED
      BY <1>8, <3>1, <3>2 DEF Conclude, Final
  <2>2. proc[r] # "up" /\ r \notin helper /\ proc' = proc /\ helper' = helper /\ tunnel' = tunnel \ {r}
    BY <1>8 DEF Conclude
  <2> QED
    BY <2>1, <2>2
<1>9. ASSUME NEW r \in Runs, KillTree(r) \/ ReportKilled(r) PROVE ChildPlace'
  <2>1. CASE KillTree(r)
    <3>1. run'[r].pc = "kill" /\ \A s \in Runs \ {r} : run'[s] = run[s]
      BY <2>1 DEF KillTree
    <3>2. /\ proc'[r] = "exited" /\ \A s \in Runs \ {r} : proc'[s] = proc[s]
          /\ helper' \subseteq helper \cup {r} /\ tunnel' = tunnel \ {r}
      BY <2>1 DEF KillTree
    <3> QED
      BY <3>1, <3>2
  <2>2. CASE ReportKilled(r)
    BY <2>2 DEF ReportKilled
  <2> QED
    BY <1>9, <2>1, <2>2
<1>10. ASSUME NEW r \in Runs, EndBackoff(r) \/ StopInBackoff(r) \/ PanicOnSpentChannel(r)
       PROVE  ChildPlace'
  BY <1>10 DEF EndBackoff, StopInBackoff, PanicOnSpentChannel
<1>11. ASSUME NEW r \in Runs, OsStep(r) PROVE ChildPlace'
  BY <1>11 DEF OsStep, ChildExits, HelperExits
<1>12. CASE UNCHANGED vars
  BY <1>12 DEF vars
<1> QED
  BY <1>1, <1>2, <1>3, <1>4, <1>5, <1>6, <1>7, <1>8, <1>9, <1>10, <1>11, <1>12
     DEF Next, Command, LoopStep

----------------------------------------------------------------------------
(* IInv is inductive, hence an invariant of every behaviour of the runner. *)
THEOREM Invariance == Spec => []IInv
<1>1. IInv /\ [Next]_vars => IInv'
  BY TypeStep, ProjectStep, HeldStep, PlaceStep DEF IInv
<1> QED
  BY InitIInv, <1>1, PTL DEF Spec

(* The runner's state stays within its types.                              *)
THEOREM TypeCorrect == Spec => []TypeOK
BY Invariance, PTL DEF IInv

(* Whatever users, router, watchdog and tasks do, a task that has not been *)
(* told to stop can still be told: its project's instance holds its sender.*)
THEOREM Reachable == Spec => []UnsignalledIsReachable
<1>1. IInv => UnsignalledIsReachable
  BY DEF IInv, OpenIffHeld, UnsignalledIsReachable
<1> QED
  BY Invariance, <1>1, PTL

(* A run that has returned left no child, no descendant on its pipes and   *)
(* no tunnel behind.                                                       *)
THEOREM NothingLeft == Spec => []ReturnedLeavesNothing
<1>1. IInv => ReturnedLeavesNothing
  BY DEF IInv, ChildPlace, ReturnedLeavesNothing
<1> QED
  BY Invariance, <1>1, PTL

----------------------------------------------------------------------------
(* The runner implements RunControl.  The mapped variables, by name.       *)
held == [p \in Projects |-> inst[p].sender]
told == {r \in Runs : stop[r] \in {"sent", "dropped", "spent"}}
over == {r \in Runs : run[r].pc = "done"}
lost == {r \in Runs : run[r].pc = "panicked"}
using == {r \in Runs : proc[r] = "up"} \cup helper \cup tunnel

\* The initial states of the runner map to the initial state of RunControl.
LEMMA ControlInit == Init => Control!Init
<1> SUFFICES ASSUME Init PROVE Control!Init
  OBVIOUS
<1>1. \A p \in Projects : inst[p].sender = None
  BY FreshTyped DEF Init
<1> QED
  BY <1>1 DEF Init, Control!Init

\* A started task is known to RunControl, and one not yet started is not.
LEMMA ControlKnown ==
  ASSUME IInv, NEW r \in Runs
  PROVE  r \in Control!Known <=> run[r].pc # "new"
<1>1. stop[r] \in Channel
  BY DEF IInv, TypeOK
<1>2. CASE run[r].pc = "new"
  <2>1. stop[r] = "none"
    BY <1>2 DEF IInv, OpenIffHeld
  <2>2. \A p \in Projects : inst[p].sender # r
    BY <2>1 DEF IInv, OpenIffHeld
  <2> QED
    BY <1>2, <2>1, <2>2 DEF Control!Known
<1>3. CASE run[r].pc # "new"
  <2>1. stop[r] # "none"
    BY <1>3 DEF IInv, OpenIffHeld
  <2>2. CASE stop[r] = "open"
    BY <1>3, <2>2 DEF IInv, OpenIffHeld, Control!Known
  <2>3. CASE stop[r] # "open"
    BY <1>1, <1>3, <2>1, <2>3 DEF Channel, Control!Known
  <2> QED
    BY <2>2, <2>3
<1> QED
  BY <1>2, <1>3

\* Commands that take the sender of p signal the run it belongs to: GiveUp(p).
LEMMA ControlGiveUp ==
  ASSUME IInv, NEW p \in Projects, NEW signal \in Signal,
         inst' \in [Projects -> Instance],
         inst'[p].sender = None,
         \A q \in Projects \ {p} : inst'[q] = inst[q],
         stop' = SenderBecomes(p, signal),
         UNCHANGED <<run, proc, helper, tunnel>>
  PROVE  Control!GiveUp(p)
<1>1. held' = [held EXCEPT ![p] = None]
  BY DEF held
<1>2. told' = told \cup ({inst[p].sender} \ {None})
  BY RunnerAssumption DEF IInv, TypeOK, Instance, SenderBecomes, told, Signal
<1>3. UNCHANGED <<over, lost, using>>
  BY DEF over, lost, using
<1> QED
  BY <1>1, <1>2, <1>3 DEF Control!GiveUp, Control!Telling, held, told, over, lost, using

\* A start tells the run it replaces: Accept(p, r).
LEMMA ControlAccept ==
  ASSUME IInv, NEW p \in Projects, NEW r \in Runs, StartProcess(p, r)
  PROVE  Control!Accept(p, r)
<1> USE DEF IInv, TypeOK
<1>1. r \notin Control!Known
  BY ControlKnown DEF StartProcess
<1>2. held' = [held EXCEPT ![p] = r]
  BY DEF StartProcess, held, Instance
<1>3. told' = told \cup ({inst[p].sender} \ {None})
  <2>1. inst[p].sender # r /\ stop[r] = "none"
    BY DEF StartProcess, OpenIffHeld
  <2>2. \A s \in Runs : stop'[s] = IF s = r THEN "open"
                                   ELSE IF s = inst[p].sender THEN "dropped" ELSE stop[s]
    BY DEF StartProcess, SenderBecomes
  <2> QED
    BY <2>1, <2>2, RunnerAssumption DEF told, Instance
<1>4. \A s \in Runs : s # r => run'[s] = run[s]
  BY DEF StartProcess
<1>5. run[r].pc = "new" /\ run'[r].pc = "boot"
  BY DEF StartProcess, Task
<1>6. UNCHANGED <<over, lost, using>>
  BY <1>4, <1>5 DEF StartProcess, over, lost, using
<1> QED
  BY <1>1, <1>2, <1>3, <1>6 DEF Control!Accept, Control!Telling, held, told, over, lost, using

\* What a move of one task does to the runs that are over and to those that are lost.
LEMMA OverLost ==
  ASSUME TypeOK, NEW r \in Runs, NEW pc, Goto(r, pc)
  PROVE  /\ over' = IF pc = "done" THEN over \cup {r} ELSE over \ {r}
         /\ lost' = IF pc = "panicked" THEN lost \cup {r} ELSE lost \ {r}
BY DEF TypeOK, Task, Goto, over, lost

\* Every step of the runner is a step of RunControl, or is not seen there.
LEMMA ControlStep ==
  ASSUME IInv, IInv', [Next]_vars
  PROVE  [Control!Next]_(Control!vars)
<1> USE DEF Control!vars
<1>1. ASSUME NEW p \in Projects, RegisterProject(p) PROVE Control!GiveUp(p)
  BY <1>1, ControlGiveUp, FreshTyped DEF RegisterProject, IInv, TypeOK, Signal
<1>2. ASSUME NEW p \in Projects, StopProcess(p) \/ DeregisterProject(p) \/ ForceFatalStop(p)
      PROVE  Control!GiveUp(p)
  <2>1. inst'[p].sender = None /\ \A q \in Projects \ {p} : inst'[q] = inst[q]
    BY <1>2, FreshTyped DEF StopProcess, DeregisterProject, ForceFatalStop, IInv, TypeOK, Instance
  <2>2. stop' = SenderBecomes(p, "sent") /\ UNCHANGED <<run, proc, helper, tunnel>>
    BY <1>2 DEF StopProcess, DeregisterProject, ForceFatalStop
  <2> QED
    BY <2>1, <2>2, ControlGiveUp DEF IInv, TypeOK, Signal
<1>3. CASE RouteStatus \/ RecordFatal
  <2>1. held' = held
    BY <1>3 DEF RouteStatus, RecordFatal, held, IInv, TypeOK, Instance
  <2> QED
    BY <1>3, <2>1 DEF RouteStatus, RecordFatal, held, told, over, lost, using
<1>4. ASSUME NEW r \in Runs, SetupStep(r) \/ LoopStep(r) \/ OsStep(r)
      PROVE  [Control!Next]_(Control!vars)
  <2> SUFFICES \/ Control!Acquire(r) \/ Control!Release(r) \/ Control!End(r) \/ Control!Lose(r)
               \/ UNCHANGED Control!vars
    BY DEF Control!Next
  <2>1. held' = held /\ told' = told
    <3>1. TaskFrame
      BY <1>4, TaskStepFrame DEF IInv
    <3> QED
      BY <3>1 DEF TaskFrame, held, told, IInv, TypeOK, Channel
  <2>2. ASSUME run[r].pc # "new", run[r].pc \notin Ended PROVE r \in Control!Known \ (over \cup lost)
    BY <2>2, ControlKnown DEF over, lost, Ended
  <2>3. ASSUME \E k \in Final : Return(r, k), UNCHANGED <<proc, helper>>, tunnel' \in {tunnel, tunnel \ {r}},
               run[r].pc \in Live
        PROVE  Control!End(r)
    <3>1. over' = over \cup {r} /\ lost' = lost \ {r}
      BY <2>3, OverLost DEF Return, IInv
    <3>2. r \in Control!Known \ lost /\ lost' = lost
      BY <2>2, <2>3, <3>1 DEF Live, Ended
    <3>3. proc'[r] # "up" /\ r \notin helper' /\ r \notin tunnel'
      BY <3>1 DEF over, IInv, ChildPlace
    <3>4. using' = using \ {r}
      BY <2>3, <3>3 DEF using
    <3> QED
      BY <2>1, <3>1, <3>2, <3>4 DEF Control!End, held, told, over, lost, using
  <2>4. ASSUME NEW pc \in Live, Goto(r, pc), run[r].pc \in Live PROVE over' = over /\ lost' = lost
    BY <2>4, OverLost DEF over, lost, Live, IInv
  <2>5. ASSUME over' = over, lost' = lost,
               \/ using' \in {using, using \ {r}}
               \/ using' = using \cup {r} /\ run[r].pc # "new" /\ run[r].pc \notin Ended
        PROVE  Control!Acquire(r) \/ Control!Release(r) \/ UNCHANGED Control!vars
    BY <2>1, <2>2, <2>5 DEF Control!Acquire, Control!Release, held, told, over, lost, using
  <2>6. ASSUME \E pc \in Live : Goto(r, pc), UNCHANGED <<proc, helper, tunnel>>, run[r].pc \in Live
        PROVE  UNCHANGED Control!vars
    BY <2>1, <2>4, <2>6 DEF held, told, over, lost, using
  <2>7. CASE BeginSetup(r) \/ FinishSetup(r) \/ SeeExit(r) \/ EndBackoff(r)
    BY <2>6, <2>7 DEF BeginSetup, FinishSetup, SeeExit, EndBackoff, Live
  <2>8. CASE FailSetup(r) \/ FailSpawn(r) \/ ReportKilled(r) \/ StopInBackoff(r)
    BY <2>3, <2>8 DEF FailSetup, FailSpawn, ReportKilled, StopInBackoff, Live, Final
  <2>9. CASE PollStop(r)
    BY <2>3, <2>6, <2>9 DEF PollStop, Live, Final
  <2>10. CASE SpawnChild(r)
    <3>1. over' = over /\ lost' = lost
      BY <2>10 DEF SpawnChild, over, lost, IInv, TypeOK, Task
    <3>2. using' = using \cup {r}
      BY <2>10 DEF SpawnChild, using, IInv, TypeOK
    <3> QED
      BY <2>5, <2>10, <3>1, <3>2 DEF SpawnChild, Ended
  <2>11. CASE OpenTunnel(r)
    <3>1. over' = over /\ lost' = lost
      BY <2>4, <2>11 DEF OpenTunnel, Live
    <3>2. using' = using \/ using' = using \cup {r}
      BY <2>11 DEF OpenTunnel, using
    <3> QED
      BY <2>5, <2>11, <3>1, <3>2 DEF OpenTunnel, Ended
  <2>12. CASE Conclude(r)
    <3>1. CASE \E k \in Final : Return(r, k)
      BY <2>3, <2>12, <3>1 DEF Conclude, Live
    <3>2. CASE \E retries \in {run[r].retries, 0} :
                 run' = [run EXCEPT ![r] = [@ EXCEPT !.pc = "backoff", !.retries = retries + 1]]
      <4>1. over' = over /\ lost' = lost
        BY <2>12, <3>2 DEF Conclude, over, lost, IInv, TypeOK, Task
      <4>2. using' = using \ {r}
        <5>1. proc[r] # "up" /\ r \notin helper
          BY <2>12 DEF Conclude, IInv, ChildPlace
        <5> QED
          BY <2>12, <5>1 DEF Conclude, using
      <4> QED
        BY <2>5, <4>1, <4>2
    <3> QED
      BY <2>12, <3>1, <3>2 DEF Conclude, Final
  <2>13. CASE KillTree(r)
    <3>1. over' = over /\ lost' = lost
      BY <2>4, <2>13 DEF KillTree, Live
    <3>2. using' = using \cup {r} \/ using' = using \ {r}
      BY <2>13 DEF KillTree, using, IInv, TypeOK
    <3> QED
      BY <2>5, <2>13, <3>1, <3>2 DEF KillTree, Ended
  <2>14. CASE PanicOnSpentChannel(r)
    <3>1. over' = over \ {r} /\ lost' = lost \cup {r}
      BY <2>14, OverLost DEF PanicOnSpentChannel, IInv
    <3>2. r \in told \ over
      BY <2>14 DEF PanicOnSpentChannel, told, over
    <3>3. using' = using
      BY <2>14 DEF PanicOnSpentChannel, using
    <3> QED
      BY <2>1, <3>1, <3>2, <3>3 DEF Control!Lose, held, told, over, lost, using
  <2>15. CASE OsStep(r)
    <3>1. over' = over /\ lost' = lost
      BY <2>15 DEF OsStep, ChildExits, HelperExits, over, lost
    <3>2. using' = using \/ using' = using \ {r}
      <4>1. CASE ChildExits(r)
        <5>1. {s \in Runs : proc'[s] = "up"} = {s \in Runs : proc[s] = "up"} \ {r}
          BY <4>1 DEF ChildExits, IInv, TypeOK
        <5>2. r \in using
          BY <4>1 DEF ChildExits, using
        <5> QED
          BY <4>1, <5>1, <5>2 DEF ChildExits, using
      <4>2. CASE HelperExits(r)
        BY <4>2 DEF HelperExits, using
      <4> QED
        BY <2>15, <4>1, <4>2 DEF OsStep
    <3> QED
      BY <2>5, <3>1, <3>2
  <2> QED
    BY <1>4, <2>7, <2>8, <2>9, <2>10, <2>11, <2>12, <2>13, <2>14, <2>15 DEF SetupStep, LoopStep
<1>5. CASE UNCHANGED vars
  BY <1>5 DEF vars, held, told, over, lost, using
<1> QED
  BY <1>1, <1>2, <1>3, <1>4, <1>5, ControlAccept DEF Next, Command, Control!Next

(* The runner implements RunControl: for every set of projects and runs,   *)
(* what it does to starts and stops is what RunControl allows.             *)
THEOREM Refinement == Spec => ImplementsRunControl
<1>1. IInv /\ IInv' /\ [Next]_vars => [Control!Next]_(Control!vars)
  BY ControlStep
<1> QED
  BY Invariance, ControlInit, <1>1, PTL DEF Spec, ImplementsRunControl, Control!Spec

----------------------------------------------------------------------------
(* The last word on a project whose runs have all returned.                *)

\* The newest update is the last word on its project.
LEMMA NewestWord ==
  ASSUME TypeOK, NEW p \in Projects, NEW s \in State, NEW kinds, s.kind \in kinds, Emit(p, s)
  PROVE  LastWord(p, kinds)'
<1> DEFINE n == Len(status) + 1
<1>1. status \in Updates
  BY DEF TypeOK, Updates, Update
<1>2. /\ Len(status) \in Nat /\ DOMAIN status' = 1 .. n
      /\ status'[n] = [project |-> p, state |-> s]
  BY <1>1 DEF Emit, Updates
<1>3. n \in PendingFor(p)' /\ \A j \in PendingFor(p)' : j <= n
  BY <1>2 DEF PendingFor
<1> QED
  BY <1>2, <1>3 DEF LastWord

\* An update leaves the last word on every other project as it was.
LEMMA OtherWord ==
  ASSUME TypeOK, NEW p \in Projects, NEW s \in State, Emit(p, s),
         NEW q \in Projects, q # p, inst'[q] = inst[q], NEW kinds, LastWord(q, kinds)
  PROVE  LastWord(q, kinds)'
<1>1. status \in Updates /\ [project |-> p, state |-> s] \in Update
  BY DEF TypeOK, Updates, Update
<1>2. /\ DOMAIN status = 1 .. Len(status) /\ Len(status) \in Nat
      /\ DOMAIN status' = 1 .. (Len(status) + 1)
      /\ \A i \in DOMAIN status : status'[i] = status[i]
      /\ status'[Len(status) + 1] = [project |-> p, state |-> s]
  BY <1>1 DEF Emit, Updates
<1>3. PendingFor(q)' = PendingFor(q)
  BY <1>2 DEF PendingFor
<1> QED
  BY <1>2, <1>3 DEF LastWord, PendingFor

\* Routing the oldest update takes no last word away: it becomes the recorded state of a
\* project that is registered, and one that is not counts as Stopped.
LEMMA RoutedWord ==
  ASSUME TypeOK, GoneIsStopped, RouteStatus, NEW q \in Projects, NEW kinds,
         inst[q].registered \/ kinds = Final, LastWord(q, kinds)
  PROVE  LastWord(q, kinds)'
<1> DEFINE m == Head(status)
<1>1. status \in Updates /\ status # <<>> /\ status' = Tail(status)
  BY DEF TypeOK, Updates, Update, RouteStatus
<1>2. /\ Len(status) \in Nat \ {0} /\ DOMAIN status = 1 .. Len(status) /\ m = status[1]
      /\ DOMAIN status' = 1 .. (Len(status) - 1)
      /\ \A i \in DOMAIN status' : status'[i] = status[i + 1]
  BY <1>1 DEF Updates
<1>3. \A i : i \in PendingFor(q)' <=> i \in Nat \ {0} /\ i + 1 \in PendingFor(q)
  BY <1>2 DEF PendingFor
<1>4. CASE PendingFor(q) = {}
  <2>1. m.project # q
    BY <1>2, <1>4 DEF PendingFor
  <2>2. inst'[q] = inst[q]
    BY <2>1 DEF RouteStatus, TypeOK
  <2> QED
    BY <1>3, <1>4, <2>2 DEF LastWord
<1>5. CASE PendingFor(q) # {}
  <2>1. PICK i \in PendingFor(q) : /\ \A j \in PendingFor(q) : j <= i
                                  /\ status[i].state.kind \in kinds
    BY <1>5 DEF LastWord
  <2>2. i \in 1 .. Len(status)
    BY <1>2 DEF PendingFor
  <2>3. CASE i = 1
    <3>1. PendingFor(q)' = {}
      BY <1>2, <1>3, <2>1, <2>3 DEF PendingFor
    <3>2. m.project = q /\ m.state.kind \in kinds
      BY <1>2, <2>1, <2>3 DEF PendingFor
    <3>3. inst'[q].state.kind \in kinds
      BY <3>2 DEF RouteStatus, GoneIsStopped, TypeOK, Instance
    <3> QED
      BY <3>1, <3>3 DEF LastWord
  <2>4. CASE i # 1
    <3>1. i - 1 \in PendingFor(q)' /\ \A j \in PendingFor(q)' : j <= i - 1
      BY <1>2, <1>3, <2>1, <2>2, <2>4 DEF PendingFor
    <3>2. status'[i - 1].state.kind \in kinds
      BY <1>2, <2>1, <2>2, <2>4
    <3> QED
      BY <3>1, <3>2 DEF LastWord
  <2> QED
    BY <2>3, <2>4
<1> QED
  BY <1>4, <1>5

\* A step of a task ends it with a final update, or keeps it from having returned; its
\* updates are about its own project.
LEMMA TaskStepKinds ==
  ASSUME TypeOK, HasProject, NEW r \in Runs, SetupStep(r) \/ LoopStep(r)
  PROVE  /\ run[r].project \in Projects
         /\ \/ \E k \in Final : Return(r, k)
            \/ /\ run'[r].pc # "done" /\ \A s \in Runs \ {r} : run'[s] = run[s]
               /\ status' = status \/ \E s \in State : Broadcast(run[r].project, s)
<1>1. run[r].project \in Projects
  BY DEF HasProject, SetupStep, BeginSetup, FinishSetup, FailSetup, LoopStep, PollStop, SpawnChild,
         FailSpawn, OpenTunnel, SeeExit, Conclude, KillTree, ReportKilled, EndBackoff,
         StopInBackoff, PanicOnSpentChannel
<1>2. ASSUME NEW pc \in (Live \cup Ended) \ {"done"}, Goto(r, pc)
      PROVE  run'[r].pc # "done" /\ \A s \in Runs \ {r} : run'[s] = run[s]
  BY <1>2 DEF Goto, TypeOK, Task
<1>3. CASE BeginSetup(r)
  <2>1. Plain("Setup") \in State
    BY PlainTyped DEF Busy
  <2> QED
    BY <1>1, <1>2, <1>3, <2>1 DEF BeginSetup, Live
<1>4. CASE FinishSetup(r) \/ OpenTunnel(r) \/ SeeExit(r) \/ KillTree(r) \/ EndBackoff(r)
             \/ PanicOnSpentChannel(r)
  BY <1>1, <1>2, <1>4 DEF FinishSetup, OpenTunnel, SeeExit, KillTree, EndBackoff,
     PanicOnSpentChannel, Live, Ended
<1>5. CASE FailSetup(r) \/ FailSpawn(r) \/ ReportKilled(r) \/ StopInBackoff(r)
  BY <1>1, <1>5 DEF FailSetup, FailSpawn, ReportKilled, StopInBackoff, Final
<1>6. CASE PollStop(r)
  BY <1>1, <1>2, <1>6 DEF PollStop, Live, Final
<1>7. CASE SpawnChild(r)
  <2>1. \E s \in State : Broadcast(run[r].project, s)
    BY <1>7 DEF SpawnChild, FreePids, Running, State, Busy
  <2>2. run'[r].pc # "done" /\ \A s \in Runs \ {r} : run'[s] = run[s]
    BY <1>7 DEF SpawnChild, TypeOK, Task
  <2> QED
    BY <1>1, <2>1, <2>2
<1>8. CASE Conclude(r)
  <2>1. CASE \E k \in Final : Return(r, k)
    BY <1>1, <2>1
  <2>2. CASE /\ Broadcast(run[r].project, Plain("Crashing"))
             /\ \E retries \in {run[r].retries, 0} :
                  run' = [run EXCEPT ![r] = [@ EXCEPT !.pc = "backoff", !.retries = retries + 1]]
    <3>1. Plain("Crashing") \in State
      BY PlainTyped DEF Busy
    <3>2. run'[r].pc # "done" /\ \A s \in Runs \ {r} : run'[s] = run[s]
      BY <2>2 DEF TypeOK, Task
    <3> QED
      BY <1>1, <2>2, <3>1, <3>2
  <2> QED
    BY <1>8, <2>1, <2>2 DEF Conclude, Final
<1> QED
  BY <1>3, <1>4, <1>5, <1>6, <1>7, <1>8 DEF SetupStep, LoopStep

\* Every step keeps the last word on a project without a run on its way a final one.
LEMMA WordStep ==
  ASSUME IInv, WordInv, [Next]_vars
  PROVE  LastWordIsFinal'
<1> SUFFICES ASSUME NEW q \in Projects, AllReturned(q)'
             PROVE  LastWord(q, Final)'
  BY DEF LastWordIsFinal
<1> USE DEF IInv, WordInv
<1>1. ASSUME status' = status, inst'[q].state.kind \in Final, LastWord(q, Final)
      PROVE  LastWord(q, Final)'
  BY <1>1 DEF LastWord, PendingFor
<1>2. ASSUME status' = status, inst'[q].state = inst[q].state, LastWord(q, Final)
      PROVE  LastWord(q, Final)'
  BY <1>2 DEF LastWord, PendingFor
<1>3. ASSUME run' = run PROVE LastWord(q, Final)
  BY <1>3 DEF AllReturned, RunsOf, LastWordIsFinal
<1>4. ASSUME NEW p \in Projects, RegisterProject(p) PROVE LastWord(q, Final)'
  <2>1. inst'[q].state.kind \in Final \/ inst'[q] = inst[q]
    BY <1>4, PlainTyped DEF RegisterProject, TypeOK, Fresh, Absent, Final
  <2> QED
    BY <1>1, <1>2, <1>3, <1>4, <2>1 DEF RegisterProject
<1>5. ASSUME NEW p \in Projects, NEW r \in Runs, StartProcess(p, r) PROVE LastWord(q, Final)'
  <2>1. run'[r].project = p /\ run'[r].pc = "boot" /\ \A s \in Runs \ {r} : run'[s] = run[s]
    BY <1>5 DEF StartProcess, TypeOK, Task
  <2>2. p # q
    BY <2>1 DEF AllReturned, RunsOf
  <2>3. AllReturned(q)
    <3>1. run[r].project # q
      BY <1>5 DEF StartProcess, HasProject
    <3> QED
      BY <2>1, <3>1 DEF AllReturned, RunsOf
  <2> QED
    BY <1>2, <1>5, <2>2, <2>3 DEF StartProcess, LastWordIsFinal, TypeOK
<1>6. ASSUME NEW p \in Projects, StopProcess(p) \/ DeregisterProject(p) PROVE LastWord(q, Final)'
  <2>1. (\E k \in Final : Emit(p, Plain(k))) \/ (status' = status /\ inst'[p] = Absent)
    BY <1>6 DEF StopProcess, DeregisterProject, Broadcast, Final, TypeOK
  <2>2. LastWord(q, Final)
    BY <1>3, <1>6 DEF StopProcess, DeregisterProject
  <2>3. q # p => inst'[q] = inst[q]
    BY <1>6 DEF StopProcess, DeregisterProject, TypeOK
  <2>4. CASE \E k \in Final : Emit(p, Plain(k))
    BY <2>2, <2>3, <2>4, NewestWord, OtherWord, PlainTyped
  <2>5. CASE status' = status /\ inst'[p] = Absent
    BY <1>1, <1>2, <2>2, <2>3, <2>5, PlainTyped DEF Absent, Final
  <2> QED
    BY <2>1, <2>4, <2>5
<1>7. CASE RouteStatus
  BY <1>3, <1>7, RoutedWord DEF RouteStatus
<1>11. ASSUME NEW p \in Projects, ForceFatalStop(p) PROVE LastWord(q, Final)'
  <2>1. inst'[q].state = inst[q].state
    BY <1>11 DEF ForceFatalStop, TypeOK, Instance
  <2> QED
    BY <1>2, <1>3, <1>11, <2>1 DEF ForceFatalStop
<1>12. CASE RecordFatal
  <2>1. fatal \in Projects /\ Emit(fatal, Plain("Fatal")) /\ LastWord(q, Final)
    BY <1>3, <1>12 DEF RecordFatal, TypeOK
  <2>2. q # fatal => inst'[q] = inst[q]
    BY <1>12 DEF RecordFatal, TypeOK
  <2>3. Plain("Fatal") \in State /\ Plain("Fatal").kind \in Final
    BY PlainTyped DEF Final
  <2> QED
    BY <2>1, <2>2, <2>3, NewestWord, OtherWord
<1>8. ASSUME NEW r \in Runs, SetupStep(r) \/ LoopStep(r) PROVE LastWord(q, Final)'
  <2>1. inst' = inst /\ \A s \in Runs : run'[s].project = run[s].project
    BY <1>8, TaskStepFrame DEF TaskFrame
  <2>2. CASE \E k \in Final : Return(r, k)
    <3>1. run[r].project \in Projects /\ \A s \in Runs \ {r} : run'[s] = run[s]
      BY <1>8, <2>2, TaskStepKinds DEF Return, Goto, TypeOK
    <3>2. CASE q = run[r].project
      BY <2>2, <3>1, <3>2, NewestWord, PlainTyped DEF Return, Broadcast
    <3>3. CASE q # run[r].project
      <4>1. LastWord(q, Final)
        BY <3>1, <3>3 DEF AllReturned, RunsOf, LastWordIsFinal
      <4> QED
        BY <2>1, <2>2, <3>1, <3>3, <4>1, OtherWord, PlainTyped DEF Return, Broadcast
    <3> QED
      BY <3>2, <3>3
  <2>3. CASE /\ run'[r].pc # "done" /\ \A s \in Runs \ {r} : run'[s] = run[s]
             /\ status' = status \/ \E s \in State : Broadcast(run[r].project, s)
    <3>1. q # run[r].project
      BY <2>1, <2>3 DEF AllReturned, RunsOf
    <3>2. LastWord(q, Final)
      BY <2>3, <3>1 DEF AllReturned, RunsOf, LastWordIsFinal
    <3>3. run[r].project \in Projects
      BY <1>8, TaskStepKinds
    <3> QED
      BY <1>2, <2>1, <2>3, <3>1, <3>2, <3>3, OtherWord DEF Broadcast
  <2> QED
    BY <1>8, <2>2, <2>3, TaskStepKinds
<1>9. ASSUME NEW r \in Runs, OsStep(r) PROVE LastWord(q, Final)'
  BY <1>2, <1>3, <1>9 DEF OsStep, ChildExits, HelperExits
<1>10. CASE UNCHANGED vars
  BY <1>2, <1>3, <1>10 DEF vars
<1> QED
  BY <1>4, <1>5, <1>6, <1>7, <1>8, <1>9, <1>10, <1>11, <1>12 DEF Next, Command

\* A project that was removed stays Stopped until it is registered again.
LEMMA GoneStep ==
  ASSUME IInv, WordInv, [Next]_vars
  PROVE  GoneIsStopped'
<1> USE DEF IInv, TypeOK, WordInv, GoneIsStopped
<1>1. ASSUME NEW p \in Projects, Command(p) PROVE GoneIsStopped'
  <2>1. \A q \in Projects \ {p} : inst'[q] = inst[q]
    BY <1>1 DEF Command, RegisterProject, StartProcess, StopProcess, DeregisterProject, ForceFatalStop
  <2>2. inst'[p].registered \/ inst'[p] = Absent
    <3>1. CASE RegisterProject(p) \/ DeregisterProject(p)
      BY <3>1, FreshTyped DEF RegisterProject, DeregisterProject
    <3>2. CASE \E r \in Runs : StartProcess(p, r)
      BY <3>2 DEF StartProcess, Instance
    <3>3. CASE StopProcess(p) \/ ForceFatalStop(p)
      <4>1. inst[p] \in Instance /\ inst[p].registered
        BY <3>3 DEF StopProcess, ForceFatalStop
      <4>2. CASE StopProcess(p)
        BY <4>1, <4>2 DEF StopProcess, Instance
      <4>3. CASE ForceFatalStop(p)
        BY <4>1, <4>3 DEF ForceFatalStop, Instance
      <4> QED
        BY <3>3, <4>2, <4>3
    <3> QED
      BY <1>1, <3>1, <3>2, <3>3 DEF Command
  <2> QED
    BY <2>1, <2>2, PlainTyped DEF Absent, Final
<1>2. CASE RouteStatus
  BY <1>2 DEF RouteStatus, Instance
<1>5. CASE RecordFatal
  <2>1. fatal \in Projects /\ \A q \in Projects \ {fatal} : inst'[q] = inst[q]
    BY <1>5 DEF RecordFatal
  <2>2. inst'[fatal].state = Plain("Fatal")
    BY <1>5, <2>1 DEF RecordFatal, Instance
  <2> QED
    BY <2>1, <2>2, PlainTyped DEF Final
<1>3. ASSUME NEW r \in Runs, SetupStep(r) \/ LoopStep(r) \/ OsStep(r) PROVE GoneIsStopped'
  <2>1. inst' = inst
    BY <1>3, TaskStepFrame DEF TaskFrame
  <2> QED
    BY <2>1
<1>4. CASE UNCHANGED vars
  BY <1>4 DEF vars
<1> QED
  BY <1>1, <1>2, <1>3, <1>4, <1>5 DEF Next

\* Nothing is in flight at first, and every loaded project is Stopped.
LEMMA InitWord == Init => WordInv
<1> SUFFICES ASSUME Init PROVE WordInv
  OBVIOUS
<1>1. \A p \in Projects : inst[p].state.kind \in Final /\ PendingFor(p) = {}
  BY PlainTyped DEF Init, Fresh, Absent, Final, PendingFor
<1> QED
  BY <1>1 DEF WordInv, GoneIsStopped, LastWordIsFinal, LastWord

(* However starts, stops, crashes and late updates interleave: once all    *)
(* runs of a project have returned, what will be recorded of it is Stopped *)
(* or Fatal, so that it can be started again.                              *)
THEOREM FinalInTheEnd == Spec => []LastWordIsFinal
<1>1. IInv /\ WordInv /\ [Next]_vars => WordInv'
  BY WordStep, GoneStep DEF WordInv
<1>2. WordInv => LastWordIsFinal
  BY DEF WordInv
<1> QED
  BY Invariance, InitWord, <1>1, <1>2, PTL DEF Spec

----------------------------------------------------------------------------
(* A user who waits until every run of a project has returned.             *)

\* Who patiently registers or starts a project has no run of it on its way.
LEMMA PatientStart ==
  ASSUME Patience, NEW p \in Projects, RegisterProject(p) \/ \E r \in Runs : StartProcess(p, r)
  PROVE  AllReturned(p)
BY DEF Patience

\* A task moves only while it is under way.
LEMMA TaskMoves ==
  ASSUME TypeOK, NEW r \in Runs, SetupStep(r) \/ LoopStep(r)
  PROVE  run[r].pc \in Live
BY DEF SetupStep, BeginSetup, FinishSetup, FailSetup, LoopStep, PollStop, SpawnChild, FailSpawn,
       OpenTunnel, SeeExit, Conclude, KillTree, ReportKilled, EndBackoff, StopInBackoff,
       PanicOnSpentChannel, Live

\* What a step of a task does to the place of any task, and to its own.
LEMMA TaskPlaces ==
  ASSUME TypeOK, HasProject, NEW r \in Runs, SetupStep(r) \/ LoopStep(r)
  PROVE  /\ \A s \in Runs \ {r} : run'[s] = run[s]
         /\ run'[r].project = run[r].project
         /\ run'[r].pc = "panicked" => stop[r] = "spent"
<1> USE DEF TypeOK, Task, Goto, Return
<1>1. CASE SetupStep(r)
  BY <1>1 DEF SetupStep, BeginSetup, FinishSetup, FailSetup
<1>2. CASE PollStop(r) \/ FailSpawn(r) \/ OpenTunnel(r) \/ SeeExit(r)
  BY <1>2 DEF PollStop, FailSpawn, OpenTunnel, SeeExit
<1>6. CASE SpawnChild(r)
  BY <1>6 DEF SpawnChild
<1>3. CASE Conclude(r)
  <2>1. CASE \E k \in Final : Return(r, k)
    BY <2>1
  <2>2. CASE \E retries \in {run[r].retries, 0} :
               run' = [run EXCEPT ![r] = [@ EXCEPT !.pc = "backoff", !.retries = retries + 1]]
    BY <2>2
  <2> QED
    BY <1>3, <2>1, <2>2 DEF Conclude, Final
<1>4. CASE KillTree(r) \/ ReportKilled(r)
  BY <1>4 DEF KillTree, ReportKilled
<1>5. CASE EndBackoff(r) \/ StopInBackoff(r) \/ PanicOnSpentChannel(r)
  BY <1>5 DEF EndBackoff, StopInBackoff, PanicOnSpentChannel
<1> QED
  BY <1>1, <1>2, <1>3, <1>4, <1>5, <1>6 DEF LoopStep

\* A task comes to watch a child uncommanded by spawning it or from bringing its tunnel up.
LEMMA TaskWatches ==
  ASSUME TypeOK, HasProject, NEW r \in Runs, SetupStep(r) \/ LoopStep(r),
         run'[r].pc \in {"tunnel", "select"}
  PROVE  \/ \E s \in State : s.kind = "Running" /\ Broadcast(run[r].project, s)
         \/ run[r].pc = "tunnel" /\ UNCHANGED <<inst, status>>
<1> USE DEF TypeOK, Task, Goto, Return
<1>1. CASE SpawnChild(r)
  BY <1>1 DEF SpawnChild, FreePids, Running, State, Busy
<1>2. CASE OpenTunnel(r)
  BY <1>2 DEF OpenTunnel
<1>3. CASE SetupStep(r) \/ PollStop(r) \/ FailSpawn(r) \/ SeeExit(r)
  BY <1>3 DEF SetupStep, BeginSetup, FinishSetup, FailSetup, PollStop, FailSpawn, SeeExit
<1>4. CASE Conclude(r)
  <2>1. CASE \E k \in Final : Return(r, k)
    BY <2>1
  <2>2. CASE \E retries \in {run[r].retries, 0} :
               run' = [run EXCEPT ![r] = [@ EXCEPT !.pc = "backoff", !.retries = retries + 1]]
    BY <2>2
  <2> QED
    BY <1>4, <2>1, <2>2 DEF Conclude, Final
<1>5. CASE KillTree(r) \/ ReportKilled(r)
  BY <1>5 DEF KillTree, ReportKilled
<1>6. CASE EndBackoff(r) \/ StopInBackoff(r) \/ PanicOnSpentChannel(r)
  BY <1>6 DEF EndBackoff, StopInBackoff, PanicOnSpentChannel
<1> QED
  BY <1>1, <1>2, <1>3, <1>4, <1>5, <1>6 DEF LoopStep

\* A patient user never has two tasks of a project under way.
LEMMA OneStep ==
  ASSUME IInv, OneAtATime, [Next /\ Patience]_vars
  PROVE  OneAtATime'
<1> USE DEF IInv, TypeOK
<1>1. ASSUME NEW p \in Projects, NEW r \in Runs, StartProcess(p, r), Patience PROVE OneAtATime'
  <2>1. AllReturned(p)
    BY <1>1, PatientStart
  <2>2. run'[r].project = p /\ \A s \in Runs \ {r} : run'[s] = run[s]
    BY <1>1 DEF StartProcess, Task
  <2> QED
    BY <2>1, <2>2 DEF OneAtATime, RunsOf, AllReturned
<1>2. ASSUME run' = run PROVE OneAtATime'
  BY <1>2 DEF OneAtATime, RunsOf
<1>3. ASSUME NEW r \in Runs, SetupStep(r) \/ LoopStep(r) PROVE OneAtATime'
  <2>1. run[r].pc # "done" /\ run'[r].project = run[r].project
    BY <1>3, TaskMoves, TaskPlaces DEF Live
  <2>2. \A s \in Runs \ {r} : run'[s] = run[s]
    BY <1>3, TaskPlaces
  <2>3. \A s \in Runs : /\ run'[s].project = run[s].project
                        /\ run'[s].pc # "done" => run[s].pc # "done"
    BY <2>1, <2>2
  <2> QED
    BY <2>3 DEF OneAtATime, RunsOf
<1>4. ASSUME NEW p \in Projects, RegisterProject(p) \/ StopProcess(p) \/ DeregisterProject(p)
                                   \/ ForceFatalStop(p)
      PROVE  run' = run
  BY <1>4 DEF RegisterProject, StopProcess, DeregisterProject, ForceFatalStop
<1>5. ASSUME NEW r \in Runs, OsStep(r) PROVE run' = run
  BY <1>5 DEF OsStep, ChildExits, HelperExits
<1> QED
  BY <1>1, <1>2, <1>3, <1>4, <1>5 DEF Next, Command, RouteStatus, RecordFatal, vars

\* No sender of a task that still runs is dropped, so that no task panics.
LEMMA DroppedStep ==
  ASSUME IInv, NoneDropped, [Next /\ Patience]_vars
  PROVE  NoneDropped'
<1> USE DEF IInv, TypeOK, NoneDropped
<1>1. ASSUME NEW p \in Projects, RegisterProject(p), Patience PROVE NoneDropped'
  <2>1. AllReturned(p)
    BY <1>1, PatientStart
  <2>2. \A r \in Runs : r = inst[p].sender => run[r].pc = "done"
    BY <2>1 DEF OpenIffHeld, AllReturned, RunsOf
  <2> QED
    BY <1>1, <2>2 DEF RegisterProject, SenderBecomes
<1>2. ASSUME NEW p \in Projects, NEW r \in Runs, StartProcess(p, r), Patience PROVE NoneDropped'
  <2>1. AllReturned(p)
    BY <1>2, PatientStart
  <2>2. \A s \in Runs : s = inst[p].sender => run[s].pc = "done"
    BY <2>1 DEF OpenIffHeld, AllReturned, RunsOf
  <2>3. run'[r].pc = "boot" /\ \A s \in Runs \ {r} : run'[s] = run[s]
    BY <1>2 DEF StartProcess, Task
  <2>4. \A s \in Runs : stop'[s] = IF s = r THEN "open"
                                   ELSE IF s = inst[p].sender THEN "dropped" ELSE stop[s]
    BY <1>2 DEF StartProcess, SenderBecomes
  <2> QED
    BY <2>2, <2>3, <2>4
<1>3. ASSUME NEW p \in Projects, StopProcess(p) \/ DeregisterProject(p) \/ ForceFatalStop(p)
      PROVE  NoneDropped'
  <2>1. run' = run /\ stop' = SenderBecomes(p, "sent")
    BY <1>3 DEF StopProcess, DeregisterProject, ForceFatalStop
  <2> QED
    BY <2>1 DEF SenderBecomes
<1>4. ASSUME NEW r \in Runs, SetupStep(r) \/ LoopStep(r) PROVE NoneDropped'
  <2>1. run[r].pc \in Live /\ run'[r].pc # "panicked"
    BY <1>4, TaskMoves, TaskPlaces DEF Live
  <2>2. \A s \in Runs \ {r} : run'[s] = run[s]
    BY <1>4, TaskPlaces
  <2>3. stop' = stop
    BY <1>4, <2>1 DEF SetupStep, BeginSetup, FinishSetup, FailSetup, LoopStep, PollStop, SpawnChild,
       FailSpawn, OpenTunnel, SeeExit, Conclude, KillTree, ReportKilled, EndBackoff,
       StopInBackoff, PanicOnSpentChannel, Live
  <2> QED
    BY <2>1, <2>2, <2>3 DEF Live
<1>5. ASSUME run' = run, stop' = stop PROVE NoneDropped'
  BY <1>5
<1>6. ASSUME NEW r \in Runs, OsStep(r) PROVE run' = run /\ stop' = stop
  BY <1>6 DEF OsStep, ChildExits, HelperExits
<1> QED
  BY <1>1, <1>2, <1>3, <1>4, <1>5, <1>6 DEF Next, Command, RouteStatus, RecordFatal, vars

\* While a child is watched uncommanded, the last word on its project stays Running: only
\* its own task has more to say.
LEMMA WatchedStep ==
  ASSUME PatientInv, [Next /\ Patience]_vars
  PROVE  WatchedIsRunning'
<1> SUFFICES ASSUME NEW r \in Runs, run'[r].pc \in {"tunnel", "select"}, stop'[r] = "open",
                    NEW q \in Projects, run'[r].project = q
             PROVE  LastWord(q, {"Running"})'
  <2>1. HasProject'
    BY ProjectStep DEF PatientInv, IInv
  <2>2. \A r \in Runs : run'[r].pc \in {"tunnel", "select"} => run'[r].project \in Projects
    BY <2>1 DEF HasProject
  <2> QED
    BY <2>2 DEF WatchedIsRunning
<1> USE DEF PatientInv, IInv, WordInv
<1>1. ASSUME run'[r] = run[r], stop[r] = "open"
      PROVE  /\ run[r].project = q /\ LastWord(q, {"Running"})
             /\ inst[q].registered /\ inst[q].sender = r
  BY <1>1 DEF WatchedIsRunning, OpenIffHeld
<1>2. ASSUME UNCHANGED <<inst, status, run, stop>> PROVE LastWord(q, {"Running"})'
  BY <1>1, <1>2 DEF LastWord, PendingFor
<1>3. ASSUME NEW p \in Projects, NEW s \in State, Emit(p, s), p # q, inst'[q] = inst[q],
             run'[r] = run[r], stop[r] = "open"
      PROVE  LastWord(q, {"Running"})'
  BY <1>1, <1>3, OtherWord
<1>4. ASSUME status' = status, inst'[q] = inst[q], run'[r] = run[r], stop[r] = "open"
      PROVE  LastWord(q, {"Running"})'
  BY <1>1, <1>4 DEF LastWord, PendingFor
<1>5. ASSUME NEW p \in Projects, RegisterProject(p), Patience
      PROVE  LastWord(q, {"Running"})'
  <2>1. run' = run /\ status' = status /\ stop[r] = "open"
    BY <1>5 DEF RegisterProject, SenderBecomes, TypeOK
  <2>2. p # q
    BY <1>5, <2>1, PatientStart DEF AllReturned, RunsOf
  <2>3. inst'[q] = inst[q]
    BY <1>1, <1>5, <2>1, <2>2 DEF RegisterProject, TypeOK
  <2> QED
    BY <1>4, <2>1, <2>3
<1>6. ASSUME NEW p \in Projects, NEW s \in Runs, StartProcess(p, s), Patience
      PROVE  LastWord(q, {"Running"})'
  <2>1. run'[s].pc = "boot" /\ \A x \in Runs \ {s} : run'[x] = run[x]
    BY <1>6 DEF StartProcess, TypeOK, Task
  <2>2. r # s /\ run'[r] = run[r]
    BY <2>1
  <2>3. stop[r] = "open" /\ status' = status
    BY <1>6, <2>2 DEF StartProcess, SenderBecomes, TypeOK
  <2>4. p # q
    BY <1>6, <2>2, PatientStart DEF AllReturned, RunsOf
  <2>5. inst'[q] = inst[q]
    BY <1>6, <2>4 DEF StartProcess, TypeOK
  <2> QED
    BY <1>4, <2>2, <2>3, <2>5
<1>7. ASSUME NEW p \in Projects, StopProcess(p) \/ DeregisterProject(p) \/ ForceFatalStop(p)
      PROVE  LastWord(q, {"Running"})'
  <2>1. run' = run /\ stop' = SenderBecomes(p, "sent")
    BY <1>7 DEF StopProcess, DeregisterProject, ForceFatalStop
  <2>2. stop[r] = "open" /\ r # inst[p].sender
    BY <2>1 DEF SenderBecomes, TypeOK
  <2>3. p # q
    BY <1>1, <2>1, <2>2
  <2>4. inst'[q] = inst[q]
    BY <1>7, <2>3 DEF StopProcess, DeregisterProject, ForceFatalStop, TypeOK, Instance
  <2>5. status' = status \/ \E k \in Final : Emit(p, Plain(k))
    BY <1>7 DEF StopProcess, DeregisterProject, ForceFatalStop, Broadcast, Final
  <2> QED
    BY <1>3, <1>4, <2>1, <2>2, <2>3, <2>4, <2>5, PlainTyped
<1>8. CASE RouteStatus
  <2>1. run'[r] = run[r] /\ stop[r] = "open"
    BY <1>8 DEF RouteStatus
  <2> QED
    BY <1>1, <1>8, <2>1, RoutedWord
<1>9. ASSUME NEW s \in Runs, SetupStep(s) \/ LoopStep(s)
      PROVE  LastWord(q, {"Running"})'
  <2>1. inst' = inst /\ stop[r] = "open"
    BY <1>9, TaskStepFrame DEF TaskFrame
  <2>2. CASE r = s
    <3>1. run[r].project = q
      BY <1>9, <2>2, TaskPlaces
    <3>2. CASE \E x \in State : x.kind = "Running" /\ Broadcast(q, x)
      BY <3>1, <3>2, NewestWord DEF Broadcast
    <3>3. CASE run[r].pc = "tunnel" /\ UNCHANGED <<inst, status>>
      <4>1. LastWord(q, {"Running"})
        BY <2>1, <3>1, <3>3 DEF WatchedIsRunning
      <4> QED
        BY <3>1, <3>3, <4>1 DEF LastWord, PendingFor
    <3> QED
      BY <1>9, <2>2, <3>1, <3>2, <3>3, TaskWatches
  <2>3. CASE r # s
    <3>1. run'[r] = run[r] /\ run[s].project \in Projects
      BY <1>9, <2>3, TaskPlaces, TaskStepKinds
    <3>2. run[s].project # q
      <4>1. run[s].pc # "done"
        BY <1>9, TaskMoves DEF Live
      <4> QED
        BY <1>1, <2>1, <2>3, <3>1, <4>1 DEF OneAtATime, RunsOf
    <3>3. status' = status \/ \E x \in State : Broadcast(run[s].project, x)
      BY <1>9, TaskStepKinds, PlainTyped DEF Return
    <3> QED
      BY <1>3, <1>4, <2>1, <3>1, <3>2, <3>3 DEF Broadcast
  <2> QED
    BY <2>2, <2>3
<1>10. ASSUME NEW s \in Runs, OsStep(s) PROVE UNCHANGED <<inst, status, run, stop>>
  BY <1>10 DEF OsStep, ChildExits, HelperExits
<1>11. CASE UNCHANGED vars
  BY <1>2, <1>11 DEF vars
<1>12. CASE RecordFatal
  <2>1. run'[r] = run[r] /\ stop[r] = "open" /\ fatal \in Projects
    BY <1>12 DEF RecordFatal, TypeOK
  <2>2. fatal # q
    BY <1>1, <1>12, <2>1, RunnerAssumption DEF FatalIsTold, RecordFatal
  <2>3. inst'[q] = inst[q] /\ Emit(fatal, Plain("Fatal"))
    BY <1>12, <2>1, <2>2 DEF RecordFatal, TypeOK
  <2> QED
    BY <1>3, <2>1, <2>2, <2>3, PlainTyped DEF Final
<1> QED
  BY <1>2, <1>5, <1>6, <1>7, <1>8, <1>9, <1>10, <1>11, <1>12 DEF Next, Command

\* No other command comes between the two halves of a forced stop.
LEMMA FatalStep ==
  ASSUME TypeOK, FatalIsTold, [Next]_vars
  PROVE  FatalIsTold'
<1>1. ASSUME NEW p \in Projects, ForceFatalStop(p) PROVE FatalIsTold'
  BY <1>1 DEF ForceFatalStop, FatalIsTold, TypeOK, Instance
<1>2. ASSUME NEW p \in Projects, RegisterProject(p) \/ (\E r \in Runs : StartProcess(p, r))
                                   \/ StopProcess(p) \/ DeregisterProject(p)
      PROVE  FatalIsTold'
  BY <1>2 DEF RegisterProject, StartProcess, StopProcess, DeregisterProject, Unlocked, FatalIsTold
<1>3. CASE RouteStatus \/ RecordFatal
  BY <1>3 DEF RouteStatus, RecordFatal, Unlocked, FatalIsTold
<1>4. ASSUME NEW r \in Runs, SetupStep(r) \/ LoopStep(r) \/ OsStep(r) PROVE FatalIsTold'
  BY <1>4, TaskStepFrame DEF TaskFrame, FatalIsTold
<1>5. CASE UNCHANGED vars
  BY <1>5 DEF FatalIsTold, vars
<1> QED
  BY <1>1, <1>2, <1>3, <1>4, <1>5 DEF Next, Command

\* PatientInv is an invariant for a patient user.
LEMMA PatientInvariance == PatientSpec => []PatientInv
<1>1. Init => PatientInv
  <2> SUFFICES ASSUME Init PROVE PatientInv
    OBVIOUS
  <2>1. IInv /\ WordInv
    BY InitIInv, InitWord
  <2>2. \A r \in Runs : run[r].project \notin Projects /\ run[r].pc = "new" /\ stop[r] = "none"
    BY RunnerAssumption DEF Init
  <2>3. FatalIsTold
    BY DEF Init, FatalIsTold
  <2> QED
    BY <2>1, <2>2, <2>3 DEF PatientInv, OneAtATime, RunsOf, NoneDropped, WatchedIsRunning
<1>2. PatientInv /\ [Next /\ Patience]_vars => PatientInv'
  <2> SUFFICES ASSUME PatientInv, [Next /\ Patience]_vars PROVE PatientInv'
    OBVIOUS
  <2>1. [Next]_vars
    OBVIOUS
  <2>2. IInv'
    BY <2>1, TypeStep, ProjectStep, HeldStep, PlaceStep DEF IInv, PatientInv
  <2>3. WordInv'
    BY <2>1, WordStep, GoneStep DEF PatientInv, WordInv
  <2> QED
    BY <2>1, <2>2, <2>3, OneStep, DroppedStep, WatchedStep, FatalStep DEF PatientInv, IInv
<1> QED
  BY <1>1, <1>2, PTL DEF PatientSpec

(* For a patient user no child is ever up without the task that watches it.*)
THEOREM NoOrphan == PatientSpec => []NoAbandonedChild
<1>1. PatientInv => NoAbandonedChild
  BY DEF PatientInv, IInv, NoneDropped, ChildPlace, NoAbandonedChild, Live
<1> QED
  BY PatientInvariance, <1>1, PTL

(* For a patient user a project recorded as Stopped, with no update in     *)
(* flight, has no child that runs uncommanded.                             *)
THEOREM IdleWhenStopped == PatientSpec => []StoppedIsIdle
<1>1. PatientInv => StoppedIsIdle
  <2> SUFFICES ASSUME PatientInv, NEW p \in Projects, inst[p].state.kind = "Stopped", status = <<>>,
                      NEW r \in RunsOf(p), run[r].pc = "select", stop[r] = "open"
               PROVE  FALSE
    BY DEF StoppedIsIdle
  <2>1. PendingFor(p) = {}
    BY DEF PendingFor
  <2>2. LastWord(p, {"Running"})
    BY DEF PatientInv, WatchedIsRunning, RunsOf
  <2> QED
    BY <2>1, <2>2 DEF LastWord
<1> QED
  BY PatientInvariance, <1>1, PTL

----------------------------------------------------------------------------
(* The monitor and the watchdog on top of the runner.                      *)

SampleRecord == [project : Projects, over : SUBSET Runs]

TellingRecord == [project : Projects, new : State, old : Pids \cup {None}]

\* What the router tells of a state that has a pid is a set of pids.
LEMMA ToldTyped ==
  ASSUME NEW pids \in SUBSET Pids, NEW new \in State, NEW old,
         new.kind = "Running" => new.pid \in Pids
  PROVE  Told(pids, new, old) \in SUBSET Pids
BY DEF Told, Final

\* A state that is told to be Running has its pid sampled.
LEMMA ToldRunning ==
  ASSUME NEW pids \in SUBSET Pids, NEW new \in State, NEW old, new.kind = "Running"
  PROVE  new.pid \in Told(pids, new, old)
<1>1. Told(pids, new, old) = pids \cup {new.pid}
  BY DEF Told, Final
<1> QED
  BY <1>1

----------------------------------------------------------------------------
\* The oldest sample is one, and what is left of the samples without it are samples.
LEMMA SampleTyped ==
  ASSUME MonitorTypeOK, stats # <<>>
  PROVE  Head(stats) \in SampleRecord /\ Tail(stats) \in Seq(SampleRecord)
<1>1. stats \in Seq(SampleRecord)
  BY DEF MonitorTypeOK, SampleRecord
<1> HIDE DEF SampleRecord
<1> QED
  BY <1>1

\* A step of the runner other than one of the router.
NotRouted ==
  \/ \E p \in Projects : Command(p)
  \/ RecordFatal
  \/ \E r \in Runs : SetupStep(r) \/ LoopStep(r) \/ OsStep(r)
  \/ UNCHANGED vars

\* What the router takes it tells the monitor, and nothing else takes updates or tells.
LEMMA RoutedIsTold ==
  ASSUME MonitorTypeOK, [MonitorNext]_allVars
  PROVE  Route \/ Tell \/ (NotRouted /\ UNCHANGED <<telling, tracked>>)
<1> USE DEF NotRouted
<1>1. CASE RunnerStep /\ UNCHANGED monitorVars
  BY <1>1 DEF RunnerStep, UserCommand, Command, monitorVars
<1>2. CASE \E p \in Projects : Sample(p) \/ AgeEntry(p)
  BY <1>2 DEF Sample, AgeEntry
<1>3. CASE HandleUnder \/ HandleOver
  BY <1>3 DEF HandleUnder, HandleOver
<1>4. CASE WatchdogKill
  <2>1. Head(stats).project \in Projects
    BY <1>4, SampleTyped DEF WatchdogKill, SampleRecord
  <2> QED
    BY <1>4, <2>1 DEF WatchdogKill, Command, monitorVars
<1>5. CASE EndKill
  BY <1>5 DEF EndKill
<1>6. CASE UNCHANGED allVars
  BY <1>6 DEF allVars, monitorVars
<1> QED
  BY <1>1, <1>2, <1>3, <1>4, <1>5, <1>6 DEF MonitorNext

\* Every step of the whole is a step of the runner, or is not seen there.
LEMMA RunnerStepOrStutter ==
  ASSUME MonitorTypeOK, [MonitorNext]_allVars
  PROVE  [Next]_vars
BY RoutedIsTold DEF NotRouted, Route, Tell, Next

----------------------------------------------------------------------------
(* Where updates and recorded states come from.                            *)

\* A step says nothing, or one thing about a project, and Running only with a pid.
LEMMA UpdateStep ==
  ASSUME IInv, NotRouted
  PROVE  \/ status' = status
         \/ \E p \in Projects, s \in State :
              Emit(p, s) /\ (s.kind = "Running" => s.pid \in Pids)
<1> USE DEF IInv
<1> DEFINE Says == \E p \in Projects, s \in State :
                      Emit(p, s) /\ (s.kind = "Running" => s.pid \in Pids)
<1>1. ASSUME NEW p \in Projects, NEW k \in (Busy \cup Final) \ {"Running"}, Emit(p, Plain(k))
      PROVE  Says
  BY <1>1, PlainTyped
<1> HIDE DEF Says
<1>2. ASSUME NEW p \in Projects, Command(p) PROVE status' = status \/ Says
  BY <1>1, <1>2 DEF Command, RegisterProject, StartProcess, StopProcess, DeregisterProject,
     ForceFatalStop, Broadcast, Final
<1>3. ASSUME NEW r \in Runs, SetupStep(r) \/ LoopStep(r) PROVE status' = status \/ Says
  <2> DEFINE p == run[r].project
  <2>1. p \in Projects
    BY <1>3, TaskStepKinds
  <2> HIDE DEF p
  <2>2. ASSUME NEW k \in Final, Return(r, k) PROVE Says
    BY <1>1, <2>1, <2>2 DEF Return, Broadcast, p, Final
  <2>3. CASE SetupStep(r)
    BY <1>1, <2>1, <2>2, <2>3 DEF SetupStep, BeginSetup, FinishSetup, FailSetup, Broadcast, p, Busy, Final
  <2>4. CASE PollStop(r) \/ FailSpawn(r) \/ OpenTunnel(r) \/ SeeExit(r) \/ KillTree(r)
    BY <2>2, <2>4 DEF PollStop, FailSpawn, OpenTunnel, SeeExit, KillTree, Final
  <2>5. CASE SpawnChild(r)
    <3>1. PICK pid \in FreePids : Broadcast(p, Running(pid))
      BY <2>5 DEF SpawnChild, p
    <3>2. Running(pid) \in State /\ Running(pid).pid \in Pids
      BY DEF FreePids, Running, State, Busy
    <3> QED
      BY <2>1, <3>1, <3>2 DEF Says, Broadcast
  <2>6. CASE Conclude(r)
    BY <1>1, <2>1, <2>2, <2>6 DEF Conclude, Broadcast, p, Busy, Final
  <2>7. CASE ReportKilled(r) \/ EndBackoff(r) \/ StopInBackoff(r) \/ PanicOnSpentChannel(r)
    BY <2>2, <2>7 DEF ReportKilled, EndBackoff, StopInBackoff, PanicOnSpentChannel, Final
  <2> QED
    BY <1>3, <2>3, <2>4, <2>5, <2>6, <2>7 DEF LoopStep
<1>4. ASSUME NEW r \in Runs, OsStep(r) PROVE status' = status
  BY <1>4 DEF OsStep, ChildExits, HelperExits
<1>5. ASSUME RecordFatal PROVE Says
  <2>1. fatal \in Projects /\ Emit(fatal, Plain("Fatal"))
    BY <1>5 DEF RecordFatal, TypeOK
  <2>2. "Fatal" \in (Busy \cup Final) \ {"Running"}
    BY DEF Final
  <2> QED
    BY <1>1, <2>1, <2>2
<1>6. CASE UNCHANGED vars
  BY <1>6 DEF vars
<1> QED
  BY <1>2, <1>3, <1>4, <1>5, <1>6 DEF NotRouted, Says

\* A state is recorded as Running only by the router.
LEMMA RecordStep ==
  ASSUME IInv, NotRouted, NEW p \in Projects, inst'[p].state.kind = "Running"
  PROVE  inst'[p].state = inst[p].state
<1> USE DEF IInv, TypeOK
<1>1. ASSUME NEW q \in Projects, Command(q) PROVE inst'[p].state = inst[p].state
  <2>1. CASE RegisterProject(q) \/ DeregisterProject(q)
    BY <2>1, PlainTyped DEF RegisterProject, DeregisterProject, Fresh, Absent, Final
  <2>2. CASE \E r \in Runs : StartProcess(q, r)
    BY <2>2 DEF StartProcess, Instance
  <2>3. CASE StopProcess(q) \/ ForceFatalStop(q)
    <3>1. CASE StopProcess(q)
      BY <3>1, PlainTyped DEF StopProcess, Instance, Final
    <3>2. CASE ForceFatalStop(q)
      BY <3>2 DEF ForceFatalStop, Instance
    <3> QED
      BY <2>3, <3>1, <3>2
  <2> QED
    BY <1>1, <2>1, <2>2, <2>3 DEF Command
<1>2. ASSUME NEW r \in Runs, SetupStep(r) \/ LoopStep(r) \/ OsStep(r) PROVE inst' = inst
  BY <1>2, TaskStepFrame DEF TaskFrame
<1>3. CASE RecordFatal
  <2>1. inst'[fatal].state = Plain("Fatal") /\ \A q \in Projects \ {fatal} : inst'[q] = inst[q]
    BY <1>3 DEF RecordFatal, Instance
  <2> QED
    BY <2>1, PlainTyped DEF Final
<1> QED
  BY <1>1, <1>2, <1>3 DEF NotRouted, vars

----------------------------------------------------------------------------
\* What the router takes and where it writes it.
LEMMA RouteEffect ==
  ASSUME MonitorTypeOK, RunningHasPid, Route
  PROVE  LET m == Head(status) IN
         /\ m.project \in Projects /\ m.state \in State
         /\ m.state.kind = "Running" => m.state.pid \in Pids
         /\ \A p \in Projects \ {m.project} : inst'[p] = inst[p]
         /\ inst'[m.project].state =
              IF inst[m.project].registered THEN m.state ELSE inst[m.project].state
         /\ telling' \subseteq {[project |-> m.project, new |-> m.state,
                                 old |-> inst[m.project].state.pid]}
         /\ m.state.kind = "Running" => telling' # {}
<1>1. status \in Updates /\ status # <<>>
  BY DEF MonitorTypeOK, TypeOK, Updates, Update, Route, RouteStatus
<1>2. Head(status) \in Update /\ 1 \in DOMAIN status /\ Head(status) = status[1]
  BY <1>1 DEF Updates
<1>3. inst \in [Projects -> Instance]
  BY DEF MonitorTypeOK, TypeOK
<1> QED
  BY <1>2, <1>3 DEF RunningHasPid, Instance, Update, Route, RouteStatus

\* A state Running always comes with a pid.
LEMMA PidStep ==
  ASSUME MonitorInv, [MonitorNext]_allVars
  PROVE  RunningHasPid'
<1> USE DEF MonitorInv
<1>1. status \in Updates
  BY DEF MonitorTypeOK, TypeOK, Updates, Update
<1>2. CASE NotRouted /\ UNCHANGED <<telling, tracked>>
  <2>1. \A p \in Projects : inst'[p].state.kind = "Running" => inst'[p].state.pid \in Pids
    BY <1>2, RecordStep DEF RunningHasPid
  <2>2. CASE status' = status
    BY <1>2, <2>1, <2>2 DEF RunningHasPid
  <2>3. ASSUME NEW p \in Projects, NEW s \in State, Emit(p, s), s.kind = "Running" => s.pid \in Pids
        PROVE  RunningHasPid'
    <3>1. /\ Len(status) \in Nat /\ DOMAIN status' = 1 .. (Len(status) + 1)
          /\ \A i \in 1 .. Len(status) : i \in DOMAIN status /\ status'[i] = status[i]
          /\ status'[Len(status) + 1] = [project |-> p, state |-> s]
      BY <1>1, <2>3 DEF Emit, Updates, Update
    <3> QED
      BY <1>2, <2>1, <2>3, <3>1 DEF RunningHasPid
  <2> QED
    BY <1>2, <2>2, <2>3, UpdateStep
<1>3. CASE Route
  <2>1. status # <<>> /\ status' = Tail(status)
    BY <1>3 DEF Route, RouteStatus
  <2>2. /\ Len(status) \in Nat \ {0}
        /\ \A i \in DOMAIN status' : i + 1 \in DOMAIN status /\ status'[i] = status[i + 1]
    BY <1>1, <2>1 DEF Updates
  <2>3. \A p \in Projects : inst'[p].state.kind = "Running" => inst'[p].state.pid \in Pids
    BY <1>3, RouteEffect DEF RunningHasPid
  <2>4. \A t \in telling' : t.new.kind = "Running" => t.new.pid \in Pids
    BY <1>3, RouteEffect
  <2> QED
    BY <2>2, <2>3, <2>4 DEF RunningHasPid
<1>4. CASE Tell
  BY <1>4 DEF Tell, vars, RunningHasPid
<1> QED
  BY <1>2, <1>3, <1>4, RoutedIsTold

\* The router has one update in hand at most, and nobody else records Running.
LEMMA InHandStep ==
  ASSUME MonitorInv, [MonitorNext]_allVars
  PROVE  OneInHand'
<1> USE DEF MonitorInv
<1>1. CASE NotRouted /\ UNCHANGED <<telling, tracked>>
  <2>1. \A t \in telling : t.project \in Projects
    BY DEF MonitorTypeOK
  <2> QED
    BY <1>1, <2>1, RecordStep DEF OneInHand
<1>2. CASE Route
  <2> DEFINE m == Head(status)
             t == [project |-> m.project, new |-> m.state, old |-> inst[m.project].state.pid]
  <2>1. telling' \subseteq {t} /\ t.project = m.project /\ t.new = m.state /\ m.project \in Projects
    BY <1>2, RouteEffect
  <2>2. inst'[m.project].state.kind = "Running" => inst'[m.project].state = m.state
    BY <1>2, RouteEffect DEF WordInv, GoneIsStopped, Final
  <2> HIDE DEF m, t
  <2> QED
    BY <2>1, <2>2 DEF OneInHand
<1>3. CASE Tell
  BY <1>3 DEF Tell, OneInHand
<1> QED
  BY <1>1, <1>2, <1>3, RoutedIsTold

\* The variables of the monitor keep to their types.
LEMMA MonitorTypeStep ==
  ASSUME MonitorInv, [MonitorNext]_allVars
  PROVE  MonitorTypeOK'
<1> USE DEF MonitorInv
<1>1. TypeOK'
  BY RunnerStepOrStutter, TypeStep DEF IInv
<1>2. /\ tracked \in [Projects -> SUBSET Pids] /\ stats \in Seq(SampleRecord)
      /\ telling \subseteq TellingRecord
  BY DEF MonitorTypeOK, SampleRecord, TellingRecord
<1>3. tracked' \in [Projects -> SUBSET Pids] /\ telling' \subseteq TellingRecord
  <2>1. CASE Tell
    <3>1. PICK t \in telling : tracked' = [tracked EXCEPT ![t.project] = Told(@, t.new, t.old)]
      BY <2>1 DEF Tell
    <3>2. /\ t.project \in Projects /\ t.new \in State
          /\ t.new.kind = "Running" => t.new.pid \in Pids
      BY <1>2 DEF RunningHasPid, TellingRecord
    <3>3. Told(tracked[t.project], t.new, t.old) \in SUBSET Pids
      BY <1>2, <3>2, ToldTyped
    <3> QED
      BY <1>2, <2>1, <3>1, <3>3 DEF Tell
  <2>2. CASE Route
    <3> DEFINE m == Head(status)
    <3>1. m.project \in Projects /\ m.state \in State
      BY <2>2, RouteEffect
    <3>2. inst[m.project].state.pid \in Pids \cup {None}
      BY <3>1 DEF MonitorTypeOK, TypeOK, Instance, State
    <3>3. telling' \subseteq {[project |-> m.project, new |-> m.state,
                               old |-> inst[m.project].state.pid]}
      BY <2>2, RouteEffect
    <3>4. tracked' = tracked
      BY <2>2 DEF Route
    <3> HIDE DEF m
    <3> QED
      BY <1>2, <3>1, <3>2, <3>3, <3>4 DEF TellingRecord
  <2> QED
    BY <1>2, <2>1, <2>2, RoutedIsTold
<1>4. /\ stats' \in Seq(SampleRecord) /\ since' \in [Projects -> {"none", "recent", "long"}]
      /\ blamed' \in [Projects -> SUBSET Runs]
  <2>1. since \in [Projects -> {"none", "recent", "long"}] /\ blamed \in [Projects -> SUBSET Runs]
    BY DEF MonitorTypeOK
  <2>2. ASSUME NEW p \in Projects, Sample(p)
        PROVE  stats' \in Seq(SampleRecord) /\ UNCHANGED <<since, blamed>>
    <3>1. PICK s \in {{}, Sampled(p)} : stats' = Append(stats, [project |-> p, over |-> s])
      BY <2>2 DEF Sample
    <3>2. [project |-> p, over |-> s] \in SampleRecord
      BY DEF SampleRecord, Sampled
    <3> HIDE DEF SampleRecord
    <3> QED
      BY <1>2, <2>2, <3>1, <3>2 DEF Sample
  <2>3. ASSUME NEW p \in Projects, AgeEntry(p)
        PROVE  since' \in [Projects -> {"none", "recent", "long"}] /\ UNCHANGED <<stats, blamed>>
    BY <2>1, <2>3 DEF AgeEntry
  <2>4. CASE HandleUnder \/ EndKill
    <3>1. stats' = Tail(stats) /\ stats # <<>> /\ ForgetBreach(Head(stats).project)
      BY <2>4 DEF HandleUnder, EndKill
    <3> QED
      BY <2>1, <3>1, SampleTyped DEF ForgetBreach
  <2>5. CASE HandleOver
    <3>1. stats' = Tail(stats) /\ stats # <<>>
      BY <2>5 DEF HandleOver
    <3>2. Head(stats).over \cup ChildrenUp(Head(stats).project) \subseteq Runs
      BY <3>1, SampleTyped DEF SampleRecord, ChildrenUp, RunsOf
    <3> QED
      BY <2>1, <2>5, <3>1, <3>2, SampleTyped DEF HandleOver
  <2>6. CASE UNCHANGED <<stats, since, blamed>>
    BY <1>2, <2>1, <2>6
  <2> QED
    BY <1>2, <2>1, <2>2, <2>3, <2>4, <2>5, <2>6
       DEF MonitorNext, Route, Tell, WatchdogKill, monitorVars, allVars
<1> QED
  BY <1>1, <1>3, <1>4 DEF MonitorTypeOK, SampleRecord, TellingRecord

\* Whoever is recorded as Running is about to be told of, has just been, or was sampled
\* before and is kept.
LEMMA MonitoredStep ==
  ASSUME MonitorInv, [MonitorNext]_allVars
  PROVE  RunningIsMonitored'
<1> SUFFICES ASSUME NEW p \in Projects, inst'[p].state.kind = "Running"
             PROVE  inst'[p].state.pid \in tracked'[p] \/ ToldOf(p)'
  BY DEF RunningIsMonitored
<1> USE DEF MonitorInv
<1>1. CASE NotRouted /\ UNCHANGED <<telling, tracked>>
  BY <1>1, RecordStep DEF RunningIsMonitored, ToldOf
<1>2. CASE Route
  <2>1. telling = {} /\ tracked' = tracked
    BY <1>2 DEF Route
  <2>2. CASE p # Head(status).project
    <3>1. inst'[p] = inst[p]
      BY <1>2, <2>2, RouteEffect
    <3> QED
      BY <2>1, <3>1 DEF RunningIsMonitored, ToldOf
  <2>3. CASE p = Head(status).project
    <3>1. inst[p].registered
      BY <1>2, <2>3, RouteEffect DEF WordInv, GoneIsStopped, Final
    <3>2. inst'[p].state = Head(status).state /\ telling' # {}
      BY <1>2, <2>3, <3>1, RouteEffect
    <3>3. \A t \in telling' : t.project = p /\ t.new = Head(status).state
      BY <1>2, <2>3, RouteEffect
    <3> QED
      BY <3>2, <3>3 DEF ToldOf
  <2> QED
    BY <2>2, <2>3
<1>3. CASE Tell
  <2>1. PICK t \in telling : tracked' = [tracked EXCEPT ![t.project] = Told(@, t.new, t.old)]
    BY <1>3 DEF Tell
  <2>2. inst' = inst
    BY <1>3 DEF Tell, vars
  <2>3. /\ t.project \in Projects /\ t.new \in State
        /\ tracked \in [Projects -> SUBSET Pids]
    BY DEF MonitorTypeOK
  <2>4. CASE t.project = p
    <3>1. t.new = inst[p].state
      BY <2>2, <2>4 DEF OneInHand
    <3>2. tracked'[p] = Told(tracked[p], t.new, t.old)
      BY <2>1, <2>3, <2>4
    <3> QED
      BY <2>2, <2>3, <3>1, <3>2, ToldRunning
  <2>5. CASE t.project # p
    <3>1. ~ ToldOf(p)
      BY <2>5 DEF OneInHand, ToldOf
    <3>2. tracked'[p] = tracked[p]
      BY <2>1, <2>3, <2>5
    <3> QED
      BY <2>2, <3>1, <3>2 DEF RunningIsMonitored
  <2> QED
    BY <2>4, <2>5
<1> QED
  BY <1>1, <1>2, <1>3, RoutedIsTold

\* Nothing is sampled at first, and nothing runs.
LEMMA MonitorInitInv == MonitorInit => MonitorInv
<1> SUFFICES ASSUME MonitorInit PROVE MonitorInv
  OBVIOUS
<1>1. Init /\ IInv /\ WordInv
  BY InitIInv, InitWord DEF MonitorInit
<1>2. MonitorTypeOK
  BY <1>1 DEF IInv, MonitorInit, MonitorTypeOK
<1>3. status = <<>> /\ \A p \in Projects : inst[p].state.kind # "Running"
  BY <1>1, PlainTyped DEF Init, Absent, Fresh, Final
<1> QED
  BY <1>1, <1>2, <1>3 DEF MonitorInit, MonitorInv, RunningHasPid, OneInHand, RunningIsMonitored

(* MonitorInv is an invariant of the runner with its monitor and watchdog. *)
THEOREM MonitorInvariance == MonitorSpec => []MonitorInv
<1>1. MonitorInv /\ [MonitorNext]_allVars => MonitorInv'
  <2> SUFFICES ASSUME MonitorInv, [MonitorNext]_allVars PROVE MonitorInv'
    OBVIOUS
  <2>1. [Next]_vars
    BY RunnerStepOrStutter DEF MonitorInv
  <2>2. IInv'
    BY <2>1, TypeStep, ProjectStep, HeldStep, PlaceStep DEF IInv, MonitorInv
  <2>3. WordInv'
    BY <2>1, WordStep, GoneStep DEF WordInv, MonitorInv
  <2> QED
    BY <2>2, <2>3, PidStep, InHandStep, MonitorTypeStep, MonitoredStep DEF MonitorInv
<1> QED
  BY MonitorInitInv, <1>1, PTL DEF MonitorSpec

(* The monitor and the watchdog stay within their types: only pids of      *)
(* children are ever sampled, and only runs are blamed.                    *)
THEOREM MonitorTypeCorrect == MonitorSpec => []MonitorTypeOK
BY MonitorInvariance, PTL DEF MonitorInv

(* Whatever updates of older runs are routed late and whatever commands    *)
(* come while the router is at work, a project shown Running with a pid    *)
(* has that pid sampled, once the router has told the monitor.             *)
THEOREM Monitored == MonitorSpec => []RunningIsMonitored
BY MonitorInvariance, PTL DEF MonitorInv
=============================================================================
