-------------------------- MODULE SandboxSettings --------------------------
(***************************************************************************)
(* The sandbox section of AdminPanel.tsx: a configuration per project and  *)
(* a global one that the others inherit, edited in four tabs and saved in  *)
(* batches half a second after the last edit.  One key stands for the keys *)
(* of a tab; "semantic" is the switch the other keys of its tab wait for.  *)
(***************************************************************************)
EXTENDS Naturals, FiniteSets

CONSTANTS
    Project,        \* projects
    Global,         \* "__global_default__"
    None,           \* no project selected
    Value,          \* values of a key
    Default,        \* DEFAULT_CONFIG: a value for every key
    MaxEdits,       \* bound on the edits
    Patient,        \* TRUE: the user waits for a save before anything else
    MayFail         \* TRUE: a save may fail

Key == {"terminal", "browser", "semantic", "engine", "setup"}
Tab == {"terminal", "browser", "engine", "setup"}
Id == Project \cup {Global}

SandboxAssumption ==
    /\ Global \notin Project /\ None \notin Id
    /\ Default \in [Key -> Value] /\ MaxEdits \in Nat

VARIABLES
    configs,        \* projectConfigs
    own,            \* the projects of projectsList that are "active"
    selected,       \* selectedProjectId
    tab,            \* activeSubTab
    pending,        \* pendingSaveRef: the configurations not yet sent
    timer,          \* the save timer runs
    saving,         \* the batches of save_all_sandbox_configs under way
    stored,         \* sandbox_configs in the database
    edits           \* edits made so far

sandboxVars == <<configs, own, selected, tab, pending, timer, saving, stored, edits>>

NoConfigs == [i \in {} |-> Default]
Merged(f, g) == [i \in DOMAIN f \cup DOMAIN g |-> IF i \in DOMAIN g THEN g[i] ELSE f[i]]

Init ==
    /\ configs = NoConfigs /\ own = {} /\ selected = None
    /\ tab = "terminal"
    /\ pending = NoConfigs /\ timer = FALSE /\ saving = {}
    /\ stored = NoConfigs
    /\ edits = 0

Settled == ~timer /\ saving = {}
Free == Patient => Settled
Saves == <<pending, timer, saving, stored, edits>>

\* The section is shown: projects and configurations are loaded.  Every
\* project starts as one that inherits.
Open ==
    /\ selected = None
    /\ Free
    /\ configs' = Merged([i \in Id |-> Default], stored)
    /\ own' = {}
    /\ selected' = Global
    /\ tab' = "terminal"
    /\ UNCHANGED Saves

\* Another section is shown.  The timer runs on, with the batch it is for.
Leave ==
    /\ selected # None
    /\ Free
    /\ selected' = None /\ configs' = NoConfigs /\ own' = {}
    /\ saving' = IF timer THEN saving \cup {pending} ELSE saving
    /\ timer' = FALSE /\ pending' = NoConfigs
    /\ UNCHANGED <<tab, stored, edits>>

Inheriting(i) == i # Global /\ i \notin own
Shown(i) == IF Inheriting(i) THEN configs[Global] ELSE configs[i]

\* The keys a tab lets the user change.
TerminalKeys == {"terminal"}
BrowserKeys == {"browser"}
EngineKeys(c, on) == {"semantic"} \cup {k \in {"engine"} : c["semantic"] = on}
SetupKeys == {"setup"}
Offered(t, c, on) ==
    CASE t = "terminal" -> TerminalKeys [] t = "browser" -> BrowserKeys
      [] t = "engine" -> EngineKeys(c, on) [] t = "setup" -> SetupKeys

SelectTab(t) == tab' = t /\ UNCHANGED <<configs, own, selected>> /\ UNCHANGED Saves

ScheduleSaveOfLast(i, c) ==
    /\ pending' = [j \in {i} |-> c]
    /\ timer' = TRUE
    /\ UNCHANGED <<saving, stored>>

\* scheduleSave: one timer for all projects.
ScheduleSave(i, c) ==
    /\ pending' = [j \in DOMAIN pending \cup {i} |-> IF j = i THEN c ELSE pending[j]]
    /\ timer' = TRUE
    /\ UNCHANGED <<saving, stored>>

\* updateCurrentConfig: a project that inherits starts from the global
\* configuration and inherits no more.
Edited(i, k, v) == [Shown(i) EXCEPT ![k] = v]

Edit(k, v) ==
    /\ selected # None
    /\ saving = {} \/ ~Patient
    /\ edits < MaxEdits /\ edits' = edits + 1
    /\ k \in Offered(tab, Shown(selected), Default["semantic"])
    /\ v # Shown(selected)[k]
    /\ configs' = [configs EXCEPT ![selected] = Edited(selected, k, v)]
    /\ own' = own \cup ({selected} \ {Global})
    /\ ScheduleSave(selected, Edited(selected, k, v))
    /\ UNCHANGED <<selected, tab>>

SelectProject(i) ==
    /\ selected # None
    /\ selected' = i
    /\ UNCHANGED <<configs, own, tab>> /\ UNCHANGED Saves

\* The box "own configuration" of a project: nothing is saved.
SetOwn(p) ==
    /\ selected # None
    /\ own' = IF p \in own THEN own \ {p} ELSE own \cup {p}
    /\ UNCHANGED <<configs, selected, tab>> /\ UNCHANGED Saves

SendSave ==
    /\ timer
    /\ timer' = FALSE
    /\ saving' = saving \cup {pending}
    /\ pending' = NoConfigs
    /\ UNCHANGED <<configs, own, selected, tab, stored, edits>>

SaveEnds(b, ok) ==
    /\ ok \/ MayFail
    /\ saving' = saving \ {b}
    /\ stored' = IF ok THEN Merged(stored, b) ELSE stored
    /\ UNCHANGED <<configs, own, selected, tab, pending, timer, edits>>

Next ==
    \/ Open \/ Leave \/ SendSave
    \/ \E t \in Tab : SelectTab(t)
    \/ \E k \in Key, v \in Value : Edit(k, v)
    \/ \E i \in Id : SelectProject(i)
    \/ \E p \in Project : SetOwn(p)
    \/ \E b \in saving, ok \in BOOLEAN : SaveEnds(b, ok)

Spec == Init /\ [][Next]_sandboxVars

----------------------------------------------------------------------------
Saved(i) == IF i \in DOMAIN stored THEN stored[i] ELSE Default

\* Half a second and a save after the last edit, what the section shows of a
\* project, edited or not, is in the database: the project's configuration if
\* it has one of its own, else the global one.  Every project inherits when
\* the section is opened, whatever is stored of it.
SavedIsShown ==
    Settled /\ selected # None =>
       \A i \in Id : Shown(i) = Saved(IF Inheriting(i) THEN Global ELSE i)

(***************************************************************************)
(* Why it holds of a user who waits, when no save fails: one batch at most *)
(* is under way, none while the timer runs, and what is shown of a project *)
(* is what the batch to come, the one under way or else the database has.  *)
(***************************************************************************)
Latest(i) ==
    IF i \in DOMAIN pending THEN pending[i]
    ELSE IF \E b \in saving : i \in DOMAIN b THEN (CHOOSE b \in saving : TRUE)[i]
    ELSE Saved(i)
SandboxInv ==
    /\ selected \in Id \cup {None}
    /\ \A f \in saving \cup {pending, stored} : DOMAIN f \subseteq Id
    /\ \A b, d \in saving : b = d
    /\ timer => saving = {}
    /\ ~timer => DOMAIN pending = {}
    /\ selected # None => configs = [i \in Id |-> Latest(i)]

\* A project with a stored configuration is shown with it.
StoredIsShown ==
    Settled /\ selected # None => \A p \in Project \cap DOMAIN stored : Shown(p) = stored[p]
=============================================================================
