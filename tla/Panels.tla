------------------------------- MODULE Panels -------------------------------
(***************************************************************************)
(* The panels side by side: the API client (request form, body, sends, web *)
(* socket, event stream, environments), the sections of the settings       *)
(* (sandbox, languages, models, theme and system), and the tools (SQLite   *)
(* grid, virtual machines, simulated environment, Docker, process tree).   *)
(* They share no state, so one behaviour exercises one part.               *)
(*                                                                         *)
(* The parts that PanelsProofs proves about take their parameters from the *)
(* constants; the others are small instances.                              *)
(***************************************************************************)
EXTENDS Naturals, Sequences, FiniteSets

CONSTANTS
    None,           \* null
    \* request form: environments, query parameters, kinds of authorization
    \* and of bodies, timeouts with certificates, and the bounds on its history
    \* and templates
    RequestEnv, Param, AuthType, BodyType, Option, MaxSent, MaxItems,
    \* sends, and the bound on their history
    SendId, MaxShown,
    \* connections of the web socket, event streams, and their events
    Conn, EventStream, MaxNews, MaxNotes,
    \* environments, those shown at first, and their variables
    EnvId, FirstEnvs, VarName, VarValue, MaxVars, MaxScripts,
    \* sandbox: projects and "__global_default__", values, DEFAULT_CONFIG
    SandboxProject, Global, SandboxValue, Default, MaxEdits,
    \* languages, those that are known, and their versions
    Language, KnownLanguage, Detail, MaxCalls

VARIABLES
    part,           \* the part that this behaviour is about
    request, env, requests, templates,
    type, body, fields, path, query, vars, threw,
    loading, controller, response, error, shownHistory, sends, used,
    status, listening, unlisten, left, wsCalls, conn, reader, sender, wsEvents,
    sseStatus, sseListening, sseUnlisten, sseCalls, task, cancel, sseEvents,
    storedEnvs, envCopy, edited, offered, selectedEnv, scripts,
    configs, own, selected, tab, pending, timer, saving, stored, edits,
    languages, list, language, adding, form, calls,
    loaded, chosen, keys, local, aiFile,
    settings, section, copy, theme,
    db, filePath, tables, activeTable, data, limit, offset, viewMode, editingCell,
    showAddColumn, confirm, dbCalls, stale,
    storedVms, running, made, view, selectedVm, listed, snapshots, vmEdit, consoleTab,
    connectTimer, rfb, wizard, vmCalls, queue,
    activeProject, open, selectedProj, config, envLoading, envSaving, said, envTimer,
    lists, loads, saves, envStored, envEdits,
    up, engine, lines, page, containers, cleared, jobs, streams, logs, fresh,
    live, main, ran, launching, statuses, tracked, samples, shown, history, expanded, details,
    ask, active, uptime

Form == INSTANCE RequestForm WITH
    Env <- RequestEnv, MaxHistory <- MaxSent, form <- request, history <- requests, saved <- templates

Body == INSTANCE RequestBody WITH Typed <- {"x", "y"}, Parsable <- {"x"}, MaxRows <- 1

Sends == INSTANCE RequestSends WITH MaxHistory <- MaxShown, Patient <- FALSE, history <- shownHistory

Socket == INSTANCE ApiSocket WITH
    MaxEvents <- MaxNews, Patient <- TRUE, calls <- wsCalls, events <- wsEvents

Stream == INSTANCE ApiEvents WITH
    Stream <- EventStream, MaxEvents <- MaxNotes, status <- sseStatus,
    listening <- sseListening, unlisten <- sseUnlisten, calls <- sseCalls, events <- sseEvents

Envs == INSTANCE ApiEnvironments WITH
    Defaults <- FirstEnvs, Key <- VarName, Value <- VarValue,
    stored <- storedEnvs, copy <- envCopy, selected <- selectedEnv

Sandbox == INSTANCE SandboxSettings WITH
    Project <- SandboxProject, Value <- SandboxValue, Patient <- TRUE, MayFail <- FALSE

\* The DEFAULT_CONFIG that TLC checks with.
UsualConfig == [k \in {"terminal", "browser", "semantic", "engine", "setup"} |-> 1]

Languages == INSTANCE LanguageSettings WITH
    Name <- Language, Known <- KnownLanguage, Patient <- TRUE,
    stored <- languages, selected <- language

Models == INSTANCE ModelSettings WITH
    Provider <- {"a", "b"}, Typed <- {"k", "l"}, None <- "none",
    Model <- {<<"a", "1">>, <<"a", "2">>, <<"b", "1">>}, Usual <- <<<<"a", "1">>, <<"gemini", "x">>>>,
    file <- aiFile

Admin == INSTANCE AdminSettings WITH
    Theme <- {"dark", "light"}, Number <- {1, 2}, Limit <- {1, 2}, file <- settings

\* The grid over two files, and over two tables in pages of one row and two.
Grid == INSTANCE DatabaseGrid WITH
    File <- {"f", "g"}, Table <- {"s"}, Keyed <- {"s"}, Limit <- {1}, MaxRows <- 2, MaxCalls <- 2,
    Patient <- TRUE, Ordered <- TRUE, MayFail <- FALSE, calls <- dbCalls

Pages == INSTANCE DatabaseGrid WITH
    File <- {"f"}, Table <- {"s", "t"}, Keyed <- {"s"}, Limit <- {1, 2}, MaxRows <- 2, MaxCalls <- 2,
    Patient <- TRUE, Ordered <- TRUE, MayFail <- FALSE, calls <- dbCalls

\* Machines of two configurations, and their snapshots.
Vms == INSTANCE VirtualMachines WITH
    Name <- {"a", "b"}, Conf <- {1, 2}, Os <- {"x"}, Template <- [o \in {"x"} |-> 1], Snap <- {},
    MaxMade <- 2, MaxCalls <- 1, Patient <- TRUE, Distinct <- TRUE, OneRuns <- TRUE,
    stored <- storedVms, selected <- selectedVm, edit <- vmEdit, tab <- consoleTab,
    timer <- connectTimer, calls <- vmCalls

Snapshots == INSTANCE VirtualMachines WITH
    Name <- {"a", "b"}, Conf <- {1}, Os <- {"x"}, Template <- [o \in {"x"} |-> 1], Snap <- {"s"},
    MaxMade <- 2, MaxCalls <- 1, Patient <- TRUE, Distinct <- TRUE, OneRuns <- TRUE,
    stored <- storedVms, selected <- selectedVm, edit <- vmEdit, tab <- consoleTab,
    timer <- connectTimer, calls <- vmCalls

Setup == INSTANCE EnvironmentSetup WITH
    Project <- {"p", "q"}, Number <- {0, 60001}, MaxLatency <- 60000, MaxEdits <- 2, MaxCalls <- 1,
    Patient <- TRUE, MayFail <- FALSE, active <- activeProject, selected <- selectedProj,
    loading <- envLoading, saving <- envSaving, timer <- envTimer, stored <- envStored, edits <- envEdits

\* Two containers, and the log of one.
Docker == INSTANCE DockerContainers WITH
    Container <- {1, 2}, MaxLines <- 1, MaxJobs <- 1, MaxStreams <- 2, Patient <- TRUE,
    Ordered <- TRUE, Once <- TRUE, Early <- FALSE, list <- containers

Log == INSTANCE DockerContainers WITH
    Container <- {1}, MaxLines <- 2, MaxJobs <- 2, MaxStreams <- 2, Patient <- TRUE,
    Ordered <- TRUE, Once <- TRUE, Early <- FALSE, list <- containers

\* The processes of one project, with more of them or with more news of them
\* under way, and two projects side by side.
Tree == INSTANCE ProcessTree WITH
    Project <- {1}, Pid <- {1, 2, 3}, MaxPoints <- 1, MaxStatuses <- 1, MaxSamples <- 1,
    Prompt <- TRUE, Fresh <- TRUE, up <- live, confirm <- ask

Late == INSTANCE ProcessTree WITH
    Project <- {1}, Pid <- {1, 2}, MaxPoints <- 2, MaxStatuses <- 2, MaxSamples <- 2,
    Prompt <- TRUE, Fresh <- TRUE, up <- live, confirm <- ask

Trees == INSTANCE ProcessTree WITH
    Project <- {1, 2}, Pid <- {1}, MaxPoints <- 2, MaxStatuses <- 2, MaxSamples <- 1,
    Prompt <- TRUE, Fresh <- TRUE, up <- live, confirm <- ask

ASSUME PanelsAssumption ==
    /\ Form!FormAssumption /\ Body!BodyAssumption /\ Sends!SendsAssumption
    /\ Socket!SocketAssumption /\ Stream!StreamAssumption /\ Envs!EnvAssumption
    /\ Sandbox!SandboxAssumption
    /\ Languages!LanguageAssumption /\ Models!ModelAssumption /\ Admin!AdminAssumption
    /\ Grid!GridAssumption /\ Pages!GridAssumption /\ Vms!VmAssumption
    /\ Setup!EnvironmentAssumption /\ Docker!DockerAssumption /\ Log!DockerAssumption
    /\ Tree!TreeAssumption /\ Late!TreeAssumption /\ Trees!TreeAssumption

formV  == <<request, env, requests, templates>>
bodyV  == <<type, body, fields, path, query, vars, threw>>
sendsV == <<loading, controller, response, error, shownHistory, sends, used>>
socketV == <<status, listening, unlisten, left, wsCalls, conn, reader, sender, wsEvents>>
streamV == <<sseStatus, sseListening, sseUnlisten, sseCalls, task, cancel, sseEvents>>
envsV  == <<storedEnvs, envCopy, edited, offered, selectedEnv, scripts>>
apiV   == <<formV, bodyV, sendsV, socketV, streamV, envsV>>
sandboxV   == <<configs, own, selected, tab, pending, timer, saving, stored, edits>>
languagesV == <<languages, list, language, adding, form, calls>>
modelsV == <<loaded, chosen, keys, local, aiFile>>
adminV  == <<settings, section, copy, theme>>
settingsV == <<sandboxV, languagesV, modelsV, adminV>>
gridV   == <<db, filePath, tables, activeTable, data, limit, offset, viewMode, editingCell,
             showAddColumn, confirm, dbCalls, stale>>
vmsV    == <<storedVms, running, made, view, selectedVm, listed, snapshots, vmEdit, consoleTab,
             connectTimer, rfb, wizard, vmCalls, queue>>
setupV  == <<activeProject, open, selectedProj, config, envLoading, envSaving, said, envTimer,
             lists, loads, saves, envStored, envEdits>>
dockerV == <<up, engine, lines, page, containers, cleared, jobs, streams, logs, fresh>>
treeV   == <<live, main, ran, launching, statuses, tracked, samples, shown, history, expanded,
             details, ask, active, uptime>>
toolsV  == <<gridV, vmsV, setupV, dockerV, treeV>>

Init ==
    /\ part \in {"form", "body", "sends", "socket", "stream", "envs",
                 "sandbox", "languages", "models", "admin",
                 "grid", "pages", "vms", "snapshots", "setup", "docker", "log",
                 "tree", "late", "trees"}
    /\ Form!Init /\ Body!Init /\ Sends!Init /\ Socket!Init /\ Stream!Init /\ Envs!Init
    /\ Sandbox!Init /\ Languages!Init /\ Models!Init /\ Admin!Init
    /\ Vms!Init /\ Setup!Init
    /\ IF part = "pages" THEN Pages!Init ELSE Grid!Init
    /\ IF part = "log" THEN Log!Init ELSE Docker!Init
    /\ IF part = "trees" THEN Trees!Init ELSE Tree!Init
    \* a part that does not act starts in one state
    /\ part = "languages" \/ DOMAIN languages = {}
    /\ part = "models" \/ (aiFile.active = <<"a", "1">> /\ aiFile.keys = [p \in {"a", "b"} |-> ""])
    /\ part = "admin" \/ theme = "dark"
    /\ part \in {"grid", "pages"} \/ (filePath = "f" /\ \A f \in DOMAIN db : db[f]["s"] = None)
    /\ part = "setup" \/ activeProject = None
    /\ part \in {"docker", "log"} \/ (~up /\ \A c \in {1, 2} : engine[c] = "none")

NextApi ==
    \/ part = "form"   /\ Form!Next   /\ UNCHANGED <<bodyV, sendsV, socketV, streamV, envsV>>
    \/ part = "body"   /\ Body!Next   /\ UNCHANGED <<formV, sendsV, socketV, streamV, envsV>>
    \/ part = "sends"  /\ Sends!Next  /\ UNCHANGED <<formV, bodyV, socketV, streamV, envsV>>
    \/ part = "socket" /\ Socket!Next /\ UNCHANGED <<formV, bodyV, sendsV, streamV, envsV>>
    \/ part = "stream" /\ Stream!Next /\ UNCHANGED <<formV, bodyV, sendsV, socketV, envsV>>
    \/ part = "envs"   /\ Envs!Next   /\ UNCHANGED <<formV, bodyV, sendsV, socketV, streamV>>

NextSettings ==
    \/ part = "sandbox"   /\ Sandbox!Next   /\ UNCHANGED <<languagesV, modelsV, adminV>>
    \/ part = "languages" /\ Languages!Next /\ UNCHANGED <<sandboxV, modelsV, adminV>>
    \/ part = "models"    /\ Models!Next    /\ UNCHANGED <<sandboxV, languagesV, adminV>>
    \/ part = "admin"     /\ Admin!Next     /\ UNCHANGED <<sandboxV, languagesV, modelsV>>

NextTools ==
    \/ part = "grid"   /\ Grid!Next   /\ UNCHANGED <<vmsV, setupV, dockerV, treeV>>
    \/ part = "pages"  /\ Pages!Next  /\ UNCHANGED <<vmsV, setupV, dockerV, treeV>>
    \/ part = "vms"    /\ Vms!Next    /\ UNCHANGED <<gridV, setupV, dockerV, treeV>>
    \/ part = "snapshots" /\ Snapshots!Next /\ UNCHANGED <<gridV, setupV, dockerV, treeV>>
    \/ part = "setup"  /\ Setup!Next  /\ UNCHANGED <<gridV, vmsV, dockerV, treeV>>
    \/ part = "docker" /\ Docker!Next /\ UNCHANGED <<gridV, vmsV, setupV, treeV>>
    \/ part = "log"    /\ Log!Next    /\ UNCHANGED <<gridV, vmsV, setupV, treeV>>
    \/ part = "tree"   /\ Tree!Next   /\ UNCHANGED <<gridV, vmsV, setupV, dockerV>>
    \/ part = "late"   /\ Late!Next   /\ UNCHANGED <<gridV, vmsV, setupV, dockerV>>
    \/ part = "trees"  /\ Trees!Next  /\ UNCHANGED <<gridV, vmsV, setupV, dockerV>>

Next ==
    \/ NextApi /\ UNCHANGED <<part, settingsV, toolsV>>
    \/ NextSettings /\ UNCHANGED <<part, apiV, toolsV>>
    \/ NextTools /\ UNCHANGED <<part, apiV, settingsV>>

panelsVars == <<part, apiV, settingsV, toolsV>>
Spec == Init /\ [][Next]_panelsVars

----------------------------------------------------------------------------
\* A request that is replayed from the history is sent as it was, one of a
\* template as the form it was saved from would have been, with the timeout and
\* the certificate that the form has now (loadRequest, PingZero.tsx:791-858).
ReplayIsSent == Form!ReplayIsSent

\* An edit of a text, of the file or of GraphQL leaves the request sending what
\* the editor shows, whatever was loaded or typed under another type; variables
\* that are no JSON count as none (PingZero.tsx:2156-2242, :2472-2618).
EditedIsSent == Body!EditedIsSent

\* While the client is loading, its newest send is under way, and that is the
\* one that Cancel would abort (PingZero.tsx:524-785).
LoadingIsNewest == Sends!LoadingIsNewest

\* For a user who waits, a web socket that is shown as connected is, and the
\* converse as long as no connected tab was left (PingZeroWebSocket.tsx:24,
\* PingZero.tsx:1511); of any user, one event stream at most runs that was not
\* told to stop, although sse_connect takes its lock twice (sse.rs:28-51).
StreamsOK == Socket!StatusIsTrue /\ Stream!OneStream

\* The manager of the environments works on what is stored, although scripts
\* write it too (PingZeroEnvManager.tsx:74, PingZero.tsx:371).
ManagerIsCurrent == Envs!ManagerIsCurrent

\* What the sandbox section shows of a project is saved, as its own or as the
\* global configuration, which it inherits when the section is opened; the
\* languages listed are those stored and known, and the form is of one of them
\* or a new one (AdminPanel.tsx:1367, :1407, :1446, :2493-2548).
SectionsOK == Sandbox!SavedIsShown /\ Languages!LanguagesOK

\* A stored key changes only when a new one is typed (agent.rs:1434), saving
\* in one section keeps what another saved (AdminPanel.tsx:2362, :3062), making
\* a machine keeps the others (manager.rs:94), and an edit of the simulated
\* environment is sent before the next one replaces it (EnvironmentSetup.tsx:122).
SettingsSurvive ==
    /\ Models!KeysSurvive /\ Admin!SectionsKeepEachOther
    /\ Vms!CreateKeepsOthers /\ Setup!EditsAreSent

\* The grid shows the rows of the page that is selected, and a row that is
\* deleted is the one that was confirmed (SqliteEditor.tsx:114-279).
GridOK ==
    /\ part = "grid" => Grid!PageIsShown /\ Grid!DeleteIsShown
    /\ part = "pages" => Pages!PageIsShown /\ Pages!DeleteIsShown

\* What runs is stored, and the window and its display are of the machine that
\* is selected (VmManager.tsx:97-264); the simulated environment shown is the
\* one of the project and the one a start uses (EnvironmentSetup.tsx:81,
\* config.rs:249); the containers listed and the log shown are the daemon's
\* (DockerManager.tsx:109-310); the processes shown of a project that runs are
\* those of this run (useResources.ts:30).
ToolsOK ==
    /\ GridOK
    /\ Vms!RunningIsStored /\ Vms!WindowIsTrue /\ Vms!DisplayIsSelected
    /\ Setup!ShownIsSelected /\ Setup!ShownIsUsed /\ Setup!PercentIsUsed
    /\ part = "docker" => Docker!ListIsFresh /\ Docker!ScreenIsLog
    /\ part = "log" => Log!ListIsFresh /\ Log!ScreenIsLog
    /\ part = "trees" => Trees!TreeIsOfRun
    /\ part # "trees" => Tree!TreeIsOfRun
==============================================================================
