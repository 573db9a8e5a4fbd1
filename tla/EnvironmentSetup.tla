-------------------------- MODULE EnvironmentSetup --------------------------
(***************************************************************************)
(* EnvironmentSetup.tsx: the simulation that a project is run under, shown *)
(* for a selected project and saved 0.8 s after the last edit by one timer *)
(* for all projects, and EnvSimulationConfig, which cleans what it reads   *)
(* (config.rs).  A start and the watchdog read the same file.              *)
(*                                                                         *)
(* Of the numbers, one stands for those with the same bounds; of the two   *)
(* texts, "raw" stands for one that is cleaned to another.                 *)
(***************************************************************************)
EXTENDS Integers, Sequences, FiniteSets, SequencesExt

CONSTANTS
    Project,        \* projects, with their order in the list
    None,           \* no project, no configuration
    Number,         \* what is typed into a field for numbers
    MaxLatency,     \* 60000: the latency that the backend caps at
    MaxEdits,       \* bound on the edits
    MaxCalls,       \* bound on the calls of a kind under way
    Patient,        \* TRUE: the user waits for "Saved" before leaving a project
    MayFail         \* TRUE: the file may be unreadable

Block == {"firewall", "network", "server", "cpu", "ram", "injection"}
NumberOf == [loss |-> "network", latency |-> "network", drop |-> "server", cpu |-> "cpu", ram |-> "ram"]
Fields == DOMAIN NumberOf
TextOf == [rules |-> "firewall", codes |-> "server"]

EnvironmentAssumption ==
    /\ Project # {} /\ None \notin Project
    /\ Number \subseteq Int /\ {MaxLatency, MaxEdits, MaxCalls} \subseteq Nat

VARIABLES
    active,         \* activeProject of the application
    open,           \* the page is open
    selected,       \* selectedProjId
    config,         \* the configuration shown, with its project_id, or None
    loading,        \* isLoading
    saving,         \* isSaving
    said,           \* saveStatus
    timer,          \* the configuration that the save timer holds, or None
    lists,          \* activeProject of each get_projects under way
    loads,          \* the project of each load under way
    saves,          \* the saves under way: the configuration, and whether the page still waits
    stored,         \* env_simulation.yml: a configuration for some projects
    edits           \* edits made so far

envVars == <<active, open, selected, config, loading, saving, said, timer, lists, loads,
             saves, stored, edits>>
calls == <<lists, loads, saves>>

\* default_for, which the page repeats.
DefaultFor(p) ==
    [of |-> p, on |-> [b \in Block |-> FALSE],
     num |-> [loss |-> 0, latency |-> 0, drop |-> 0, cpu |-> 80, ram |-> 2000],
     text |-> [rules |-> "", codes |-> "usual"], envs |-> <<>>]

Clamp(lo, hi, n) == IF n < lo THEN lo ELSE IF n > hi THEN hi ELSE n
AtLeast(lo, n) == IF n < lo THEN lo ELSE n
Typed(n, lo) == IF n = 0 THEN lo ELSE n

\* sanitize, which every read applies.
CleanNumber(f, n) ==
    CASE f \in {"loss", "drop"} -> Clamp(0, 100, n)
      [] f = "cpu" -> Clamp(1, 100, n)
      [] f = "latency" -> Clamp(0, MaxLatency, n)
      [] f = "ram" -> n

CleanText(t) == IF t = "raw" THEN "cleaned" ELSE t
CleanEnv(e) == [e EXCEPT !.key = CleanText(@)]

Sanitized(c) ==
    [c EXCEPT !.num = [f \in Fields |-> CleanNumber(f, c.num[f])],
              !.text = [f \in DOMAIN TextOf |-> CleanText(c.text[f])],
              !.envs = [i \in DOMAIN c.envs |-> CleanEnv(c.envs[i])]]

\* What a start, the watchdog and the page get of the file.
Used(p) == IF p \in DOMAIN stored THEN Sanitized(stored[p]) ELSE DefaultFor(p)

Save(c) == [config |-> c, awaited |-> TRUE]
Settled == timer = None /\ lists = <<>> /\ loads = <<>> /\ saves = <<>>
Free == Patient => Settled

Init ==
    /\ active \in Project \cup {None}
    /\ open = FALSE /\ selected = None /\ config = None
    /\ loading = FALSE /\ saving = FALSE /\ said = "idle"
    /\ timer = None
    /\ lists = <<>> /\ loads = <<>> /\ saves = <<>>
    /\ stored = [p \in {} |-> DefaultFor(p)]
    /\ edits = 0

----------------------------------------------------------------------------
(* The page and the project it shows.                                      *)

GetProjects == Len(lists) < MaxCalls /\ lists' = Append(lists, active')

OpenPage ==
    /\ ~open /\ Free
    /\ open' = TRUE /\ selected' = None /\ config' = None
    /\ loading' = FALSE /\ saving' = FALSE /\ said' = "idle"
    /\ UNCHANGED <<active, timer, loads, saves, stored, edits>>
    /\ GetProjects

\* Answers to come are for nobody.  The timer is not cancelled.
ClosePage == LET fired == IF timer = None THEN saves ELSE Append(saves, Save(timer)) IN
    /\ open /\ Free
    /\ open' = FALSE /\ selected' = None /\ config' = None
    /\ lists' = <<>> /\ loads' = <<>>
    /\ saves' = [i \in DOMAIN fired |-> [fired[i] EXCEPT !.awaited = FALSE]]
    /\ timer' = None
    /\ UNCHANGED <<active, loading, saving, said, stored, edits>>

\* Another project is made the active one, or the active one is read anew.
SetActive(p) ==
    /\ Free
    /\ active' = p
    /\ IF open THEN GetProjects ELSE UNCHANGED lists
    /\ UNCHANGED <<open, selected, config, loading, saving, said, timer, loads, saves, stored, edits>>

\* setSelectedProjId and the effect of a change.
Select(p) ==
    /\ selected' = p
    /\ IF p = selected THEN UNCHANGED <<loads, loading, said>>
       ELSE /\ Len(loads) < MaxCalls /\ loads' = Append(loads, p)
            /\ loading' = TRUE /\ said' = "idle"

\* The active project, or the first of the list.
GotProjects(i) ==
    /\ \E p \in (IF lists[i] = None THEN Project ELSE {lists[i]}) : Select(p)
    /\ lists' = RemoveAt(lists, i)
    /\ UNCHANGED <<active, open, config, saving, timer, saves, stored, edits>>

\* The page has no controls while it says "Loading configuration...".
SelectProject(p) ==
    /\ open /\ ~loading /\ selected # None /\ Free
    /\ Select(p)
    /\ UNCHANGED <<active, open, config, saving, timer, lists, saves, stored, edits>>

Loaded(i, ok) ==
    /\ ok \/ MayFail
    /\ config' = IF ok THEN Used(loads[i]) ELSE config
    /\ loading' = FALSE
    /\ loads' = RemoveAt(loads, i)
    /\ UNCHANGED <<active, open, selected, saving, said, timer, lists, saves, stored, edits>>

----------------------------------------------------------------------------
(* Edits.  Each shows the new configuration and starts the timer anew.     *)

TriggerSave(c) == saving' = TRUE /\ said' = "idle" /\ timer' = c

Edit(c) ==
    /\ open /\ ~loading /\ config # None
    /\ Patient => lists = <<>> /\ saves = <<>>
    /\ edits < MaxEdits /\ edits' = edits + 1
    /\ c # config
    /\ config' = c
    /\ TriggerSave(c)
    /\ UNCHANGED <<active, open, selected, loading, lists, loads, saves, stored>>

FirewallBlock ==
    \/ Edit([config EXCEPT !.on["firewall"] = ~@])
    \/ \E preset \in {"preset", ""} : Edit([config EXCEPT !.text["rules"] = preset])
    \/ config.on["firewall"] /\ \E t \in {"raw", "cleaned"} : Edit([config EXCEPT !.text["rules"] = t])

\* As it would be if updateField bounded a percentage from below alone.
SanitizedBelow(f, n) == IF f = "cpu" THEN AtLeast(1, n) ELSE AtLeast(0, n)

\* sanitizedVal of updateField.
SanitizedVal(f, n) ==
    CASE f \in {"loss", "drop"} -> Clamp(0, 100, n)
      [] f = "cpu" -> Clamp(1, 100, n)
      [] OTHER -> AtLeast(0, n)

SetNumber(f, n) == config.on[NumberOf[f]] /\ Edit([config EXCEPT !.num[f] = SanitizedVal(f, n)])

NetworkBlock ==
    \/ Edit([config EXCEPT !.on["network"] = ~@])
    \/ \E f \in {"loss", "latency"}, n \in Number : SetNumber(f, n)

ServerBlock ==
    \/ Edit([config EXCEPT !.on["server"] = ~@])
    \/ \E n \in Number : SetNumber("drop", n)
    \/ config.on["server"] /\ \E t \in {"raw", "cleaned"} : Edit([config EXCEPT !.text["codes"] = t])

\* An empty or zero limit is taken for 1.
LimitsBlock ==
    \/ \E b \in {"cpu", "ram"} : Edit([config EXCEPT !.on[b] = ~@])
    \/ \E f \in {"cpu", "ram"}, n \in Number : SetNumber(f, AtLeast(1, Typed(n, 1)))

Env(key, vis, scope) == [key |-> key, vis |-> vis, scope |-> scope, enabled |-> TRUE]
Presets == {Env("trace", "hidden", "both"), Env("auth", "hidden", "inbound"), Env("stage", "exposed", "both")}
Custom == Env("marker", "hidden", "both")

\* A variable that is added or changed turns the injection on.
WithEnvs(envs) == [config EXCEPT !.envs = envs, !.on["injection"] = TRUE]

AddCustomEnv == \E e \in Presets \cup {Custom} : Edit(WithEnvs(Append(config.envs, e)))

UpdateCustomEnv(i) ==
    \/ Edit(WithEnvs([config.envs EXCEPT ![i].enabled = ~@]))
    \/ Edit(WithEnvs([config.envs EXCEPT ![i].key = "raw"]))
    \/ \E v \in {"exposed", "hidden"} : Edit(WithEnvs([config.envs EXCEPT ![i].vis = v]))
    \/ \E s \in {"both", "inbound", "outbound"} : Edit(WithEnvs([config.envs EXCEPT ![i].scope = s]))

DeleteCustomEnv(i) == Edit([config EXCEPT !.envs = RemoveAt(@, i)])

EnvBlock ==
    \/ Edit([config EXCEPT !.on["injection"] = ~@])
    \/ AddCustomEnv
    \/ \E i \in DOMAIN config.envs : UpdateCustomEnv(i) \/ DeleteCustomEnv(i)

EditConfig ==
    /\ config # None
    /\ FirewallBlock \/ NetworkBlock \/ ServerBlock \/ LimitsBlock \/ EnvBlock

----------------------------------------------------------------------------
(* The save.                                                               *)

SendSave ==
    /\ timer # None /\ Len(saves) < MaxCalls
    /\ saves' = Append(saves, Save(timer))
    /\ timer' = None
    /\ UNCHANGED <<active, open, selected, config, loading, saving, said, lists, loads, stored, edits>>

\* save_env_simulation_config reads the file, replaces one entry and writes
\* all of them, under the lock of the manager.
Inserted(c) == [p \in DOMAIN stored \cup {c.of} |-> IF p = c.of THEN c ELSE Used(p)]

Saved(ok) ==
    /\ saves # <<>>
    /\ saves' = Tail(saves)
    /\ stored' = IF ok THEN Inserted(Head(saves).config) ELSE stored
    /\ IF Head(saves).awaited
       THEN saving' = FALSE /\ said' = IF ok THEN "success" ELSE "error"
       ELSE UNCHANGED <<saving, said>>
    /\ UNCHANGED <<active, open, selected, config, loading, timer, lists, loads, edits>>

Next ==
    \/ OpenPage \/ ClosePage \/ EditConfig \/ SendSave
    \/ \E p \in Project : SelectProject(p)
    \/ \E p \in Project \cup {None} : SetActive(p)
    \/ \E i \in DOMAIN lists : GotProjects(i)
    \/ \E i \in DOMAIN loads, ok \in BOOLEAN : Loaded(i, ok)
    \/ \E ok \in BOOLEAN : Saved(ok)

Spec == Init /\ [][Next]_envVars

----------------------------------------------------------------------------
\* The configuration shown is of the selected project.
ShownIsSelected ==
    (open /\ lists = <<>> /\ loads = <<>> /\ config # None) => config.of = selected

\* Unless the page says that it saves or that it failed to, a start of the
\* project is run under what the page shows, after cleaning.
ShownIsUsed ==
    (open /\ ~loading /\ ~saving /\ said # "error" /\ config # None) => Sanitized(config) = Used(config.of)

\* ... and the percentages without any cleaning.
PercentIsUsed ==
    (open /\ config # None) => \A f \in {"loss", "drop", "cpu"} : CleanNumber(f, config.num[f]) = config.num[f]

\* An edit that waits for the timer is only replaced by one of its project.
EditsAreSent == [][(timer # None /\ timer' # None) => timer'.of = timer.of]_envVars

\* The latency shown is the one that is used.
LatencyIsUsed ==
    (open /\ config # None) => CleanNumber("latency", config.num["latency"]) = config.num["latency"]
=============================================================================
