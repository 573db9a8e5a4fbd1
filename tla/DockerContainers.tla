-------------------------- MODULE DockerContainers --------------------------
(***************************************************************************)
(* The Docker window (DockerManager.tsx) over the commands of docker.rs:   *)
(* the daemon, the list of containers, the actions on them, and the log    *)
(* of the selected one.  A log is followed by a task of the backend that   *)
(* nothing but the end of the container ends, and that emits to all tabs.  *)
(* The daemon does not stop while the window is open.  "settings" stands   *)
(* for every tab but that of the log.                                      *)
(***************************************************************************)
EXTENDS Naturals, Sequences, FiniteSets, SequencesExt, FiniteSetsExt

CONSTANTS
    Container,      \* ids, the newest the greatest
    None,           \* no container
    MaxLines,       \* bound on the lines a container logs
    MaxJobs,        \* bound on the handlers under way
    MaxStreams,     \* bound on the followed logs
    Patient,        \* TRUE: the user waits for a handler to end
    Ordered,        \* TRUE: no list is read between another one and its answer
    Once,           \* TRUE: a log that is followed is not opened again
    Early           \* TRUE: lines may be emitted before the tab listens

DockerAssumption ==
    Container \subseteq Nat /\ None \notin Container /\ {MaxLines, MaxJobs, MaxStreams} \subseteq Nat

VARIABLES
    up,             \* the daemon answers
    engine,         \* its containers: "none", "stopped" or "running"
    lines,          \* the number of lines each has logged
    page,           \* daemonRunning, activeView, selectedId and manageTab
    list,           \* containers: the state of those that were listed
    cleared,        \* clearedLogsAt
    jobs,           \* handlers under way
    streams,        \* logs followed by the backend: of a container, from a line
    logs,           \* the log tab: of a container, since a line, listening, its screen
    fresh           \* nothing but the window has changed the engine since the last list

dockerVars == <<up, engine, lines, page, list, cleared, jobs, streams, logs, fresh>>
engineVars == <<up, engine, lines>>

Existing == {c \in Container : engine[c] # "none"}
Listed == [c \in Existing |-> engine[c]]

\* A handler: what it does to which container, its next await ("call", "list",
\* "answer"), what was rendered when it began, and the list it got.
Job(kind, c, stage) ==
    [kind |-> kind, id |-> c, stage |-> stage, sel |-> page.selected,
     few |-> Cardinality(DOMAIN list) <= 1, got |-> <<>>]
Started(k) == Append(jobs, k)
CanStart == Len(jobs) < MaxJobs /\ (Patient => jobs = <<>>)

NoLog == [of |-> None, since |-> 0, heard |-> FALSE, screen |-> <<>>]

\* The window opens and checks the daemon.
Init ==
    /\ up \in BOOLEAN
    /\ engine \in [Container -> {"none", "running"}]
    /\ lines = [c \in Container |-> 0]
    /\ page = [daemon |-> FALSE, view |-> "manage", selected |-> None, tab |-> "logs"]
    /\ list = <<>>
    /\ cleared = lines
    /\ jobs = <<Job("check", None, "call")>>
    /\ streams = <<>>
    /\ logs = NoLog
    /\ fresh = TRUE

----------------------------------------------------------------------------
(* The log tab, after a change of the page, the list or the times.         *)

Current == IF page.daemon /\ page.view = "manage" /\ page.selected \in DOMAIN list
           THEN page.selected ELSE None
LogsOf == IF page.tab = "logs" THEN Current ELSE None

\* The effect of [containerId, since]: what was followed before goes on.
Remount ==
    IF LogsOf' = logs.of /\ (LogsOf' = None \/ cleared'[LogsOf'] = logs.since)
    THEN UNCHANGED <<logs, streams>>
    ELSE IF LogsOf' = None THEN logs' = NoLog /\ UNCHANGED streams
    ELSE /\ logs' = [of |-> LogsOf', since |-> cleared'[LogsOf'], heard |-> FALSE, screen |-> <<>>]
         /\ Len(streams) < MaxStreams
         /\ Once => \A i \in DOMAIN streams : streams[i].of # LogsOf'
         /\ streams' = Append(streams, [of |-> LogsOf', next |-> logs'.since + 1])

Listen ==
    /\ logs.of # None /\ ~logs.heard
    /\ logs' = [logs EXCEPT !.heard = TRUE]
    /\ UNCHANGED <<page, list, cleared, jobs, streams, fresh>> /\ UNCHANGED engineVars

\* stream_container_logs and the event "docker_log" of one line.
EmitLine(i) == LET s == streams[i] IN
    /\ s.next <= lines[s.of]
    /\ s.of = logs.of => logs.heard \/ Early
    /\ streams' = [streams EXCEPT ![i].next = @ + 1]
    /\ logs' = IF s.of = logs.of /\ logs.heard THEN [logs EXCEPT !.screen = Append(@, s.next)] ELSE logs
    /\ UNCHANGED <<page, list, cleared, jobs, fresh>> /\ UNCHANGED engineVars

StreamEnds(i) ==
    /\ engine[streams[i].of] # "running" /\ streams[i].next > lines[streams[i].of]
    /\ streams' = RemoveAt(streams, i)
    /\ UNCHANGED <<page, list, cleared, jobs, logs, fresh>> /\ UNCHANGED engineVars

\* The time is in whole seconds: a line of this second may be shown again.
ClearLogs ==
    /\ logs.of # None
    /\ \E n \in {0, 1} : n <= lines[logs.of] /\ cleared' = [cleared EXCEPT ![logs.of] = lines[logs.of] - n]
    /\ UNCHANGED <<page, list, jobs, fresh>> /\ UNCHANGED engineVars
    /\ Remount

----------------------------------------------------------------------------
(* What the user does.                                                     *)

Free == Patient => jobs = <<>>

CheckAgain ==
    /\ ~page.daemon /\ jobs = <<>>
    /\ jobs' = Started(Job("check", None, "call"))
    /\ UNCHANGED <<page, list, cleared, streams, logs, fresh>> /\ UNCHANGED engineVars

ShowForm ==
    /\ page.daemon /\ Free
    /\ page' = [page EXCEPT !.view = "create", !.selected = None]
    /\ UNCHANGED <<list, cleared, jobs, fresh>> /\ UNCHANGED engineVars
    /\ Remount

SelectContainer(c) ==
    /\ page.daemon /\ Free /\ c \in DOMAIN list
    /\ page' = [page EXCEPT !.view = "manage", !.selected = c]
    /\ UNCHANGED <<list, cleared, jobs, fresh>> /\ UNCHANGED engineVars
    /\ Remount

SelectTab(t) ==
    /\ Current # None
    /\ page' = [page EXCEPT !.tab = t]
    /\ UNCHANGED <<list, cleared, jobs, fresh>> /\ UNCHANGED engineVars
    /\ Remount

FormIsShown == page.daemon /\ Current = None

\* The sidebar removes any container, the header acts on the current one.
Offered ==
    {<<"remove", c>> : c \in DOMAIN list}
    \cup (IF Current = None THEN {}
          ELSE IF list[Current] = "running" THEN {<<"stop", Current>>, <<"restart", Current>>}
          ELSE {<<"start", Current>>})

Begin(kind, c, stage) ==
    /\ page.daemon /\ CanStart
    /\ jobs' = Started(Job(kind, c, stage))
    /\ UNCHANGED <<page, list, cleared, streams, logs, fresh>> /\ UNCHANGED engineVars

Act == \E a \in Offered : Begin(a[1], a[2], "call")
Refresh == Begin("list", None, "list")
Cleanup == Begin("cleanup", None, "call")

\* The form with an image, and with a name or without.
Deploy == FormIsShown /\ \E kind \in {"create", "create unnamed"} : Begin(kind, None, "call")

\* Every five seconds.
Poll ==
    /\ page.daemon /\ Len(jobs) < MaxJobs
    /\ jobs' = Started(Job("list", None, "list"))
    /\ UNCHANGED <<page, list, cleared, streams, logs, fresh>> /\ UNCHANGED engineVars

----------------------------------------------------------------------------
(* The handlers.                                                           *)

Set(c, s) == [engine EXCEPT ![c] = s]

\* The name of a config is a String: null is refused with the arguments.
Accepted(kind) == kind # "create unnamed"

Creates(c) == engine[c] = "none" /\ engine' = Set(c, "stopped")
Does(kind, c) ==
    CASE kind = "start" -> engine[c] = "stopped" /\ engine' = Set(c, "running")
      [] kind = "stop" -> engine[c] = "running" /\ engine' = Set(c, "stopped")
      [] kind = "restart" -> engine[c] # "none" /\ engine' = Set(c, "running")
      [] kind = "remove" -> engine[c] # "none" /\ engine' = Set(c, "none")
      [] kind = "cleanup" -> engine' = [d \in Container |-> IF engine[d] = "running" THEN "running" ELSE "none"]

At(i, stage) == jobs' = [jobs EXCEPT ![i].stage = stage]
Ended(i) == jobs' = RemoveAt(jobs, i)

\* docker_ensure_started.  The effect of [daemonRunning] checks once more
\* when it has changed.
Ensured(i) ==
    /\ jobs[i].kind = "check" /\ jobs[i].stage = "call"
    /\ up' = TRUE
    /\ page' = [page EXCEPT !.daemon = TRUE]
    /\ jobs' = LET mine == [jobs EXCEPT ![i].stage = "list"]
               IN IF page.daemon THEN mine ELSE Append(mine, Job("check", None, "call"))
    /\ UNCHANGED <<engine, lines, list, cleared, fresh>>
    /\ Remount

NotEnsured(i) ==
    /\ jobs[i].kind = "check" /\ jobs[i].stage = "call" /\ ~up
    /\ Ended(i)
    /\ UNCHANGED <<page, list, cleared, streams, logs, fresh>> /\ UNCHANGED engineVars

\* The first await of handleCreate, handleAction and the cleanup.
Performed(i) == LET k == jobs[i] IN
    /\ k.kind \notin {"check", "list"} /\ k.stage = "call" /\ Accepted(k.kind)
    /\ IF k.kind = "create"
       THEN \E c \in Container : Creates(c) /\ jobs' = [jobs EXCEPT ![i].stage = "list", ![i].id = c]
       ELSE Does(k.kind, k.id) /\ At(i, "list")
    /\ page' = IF k.kind # "remove" THEN page
               ELSE [page EXCEPT !.selected = None,
                                 !.view = IF k.few THEN "create" ELSE @]
    /\ UNCHANGED <<up, lines, list, cleared, fresh>>
    /\ Remount

\* An alert; nothing is listed anew.  The engine may refuse any call.
Refused(i) ==
    /\ jobs[i].kind \notin {"check", "list"} /\ jobs[i].stage = "call"
    /\ Ended(i)
    /\ UNCHANGED <<page, list, cleared, streams, logs, fresh>> /\ UNCHANGED engineVars

\* docker_list_containers reads, and its answer arrives.
Reads(i) ==
    /\ jobs[i].stage = "list"
    /\ Ordered => \A j \in DOMAIN jobs : jobs[j].stage # "answer"
    /\ jobs' = [jobs EXCEPT ![i].stage = "answer", ![i].got = Listed]
    /\ fresh' = TRUE
    /\ UNCHANGED <<page, list, cleared, streams, logs>> /\ UNCHANGED engineVars

\* setContainers, and what the handler selects then.
Answered(i) == LET k == jobs[i] IN
    /\ Ended(i)
    /\ list' = k.got
    /\ page' = IF k.kind = "check" /\ DOMAIN k.got # {} /\ k.sel = None
               THEN [page EXCEPT !.selected = Max(DOMAIN k.got), !.view = "manage"]
               ELSE IF k.kind = "create" THEN [page EXCEPT !.selected = k.id, !.view = "manage"]
               ELSE page

Answer(i) ==
    /\ jobs[i].stage = "answer"
    /\ Answered(i)
    /\ UNCHANGED <<cleared, fresh>> /\ UNCHANGED engineVars
    /\ Remount

----------------------------------------------------------------------------
(* The engine on its own: a container logs a line or exits.                *)

Exits(c) ==
    /\ engine[c] = "running"
    /\ engine' = Set(c, "stopped")
    /\ fresh' = FALSE
    /\ UNCHANGED <<up, lines, page, list, cleared, jobs, streams, logs>>

LogsLine(c) ==
    /\ engine[c] = "running" /\ lines[c] < MaxLines
    /\ lines' = [lines EXCEPT ![c] = @ + 1]
    /\ UNCHANGED <<up, engine, page, list, cleared, jobs, streams, logs, fresh>>

Next ==
    \/ Listen \/ ClearLogs \/ CheckAgain \/ ShowForm \/ Act \/ Refresh \/ Cleanup \/ Deploy \/ Poll
    \/ \E c \in Container : SelectContainer(c) \/ Exits(c) \/ LogsLine(c)
    \/ \E t \in {"logs", "settings"} : SelectTab(t)
    \/ \E i \in DOMAIN jobs :
          Ensured(i) \/ NotEnsured(i) \/ Performed(i) \/ Refused(i) \/ Reads(i) \/ Answer(i)
    \/ \E i \in DOMAIN streams : EmitLine(i) \/ StreamEnds(i)

Spec == Init /\ [][Next]_dockerVars

----------------------------------------------------------------------------
\* Once the handlers have ended, the list is the engine's, unless the engine
\* has changed on its own since.
ListIsFresh == (jobs = <<>> /\ fresh /\ page.daemon) => list = Listed

\* The log tab shows the lines of its container in their order, each once.
ScreenIsLog == \A i \in DOMAIN logs.screen : logs.screen[i] = logs.since + i

\* The log of a running container is followed.
LogIsFollowed ==
    (logs.of # None /\ engine[logs.of] = "running") => \E i \in DOMAIN streams : streams[i].of = logs.of

\* A container stays selected when another one is removed.
RemoveKeepsSelection ==
    [][(page.selected # None /\ engine'[page.selected] # "none" /\ engine' # engine)
         => page'.selected = page.selected]_dockerVars

\* A container can be deployed without a name, as the form says.
NameIsOptional == \A i \in DOMAIN jobs : Accepted(jobs[i].kind)
=============================================================================
