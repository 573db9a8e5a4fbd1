-------------------------- MODULE ApiEnvironments --------------------------
(***************************************************************************)
(* The environments of PingZero: what localStorage has, the copy that      *)
(* PingZeroEnvManager edits while its tab is open, the list the selector   *)
(* of PingZero.tsx offers, and scripts that set a variable                 *)
(* (pm.environment.set) at once or after they have awaited something.      *)
(***************************************************************************)
EXTENDS Naturals, Sequences, SequencesExt, FiniteSets

CONSTANTS
    EnvId,          \* environments that may exist
    Defaults,       \* those the manager shows when nothing is stored
    Key,            \* names of variables
    Value,          \* their values
    None,           \* no environment; nothing stored
    MaxVars,        \* bound on the variables of an environment
    MaxScripts      \* bound on scripts that still await something

EnvAssumption ==
    /\ Defaults \subseteq EnvId /\ Defaults # {} /\ None \notin EnvId
    /\ MaxVars \in Nat /\ MaxScripts \in Nat

VARIABLES
    stored,         \* "pingzero_environments": the variables by environment
    copy,           \* environments of the manager, or none while unmounted
    edited,         \* activeEnvId of the manager
    offered,        \* the selector's list
    selected,       \* selectedEnv
    scripts         \* scripts that will set a variable of an environment

envVars == <<stored, copy, edited, offered, selected, scripts>>

\* An environment is a sequence of variables; a list of environments is a
\* function from the ones that exist.
Empty == <<>>
DefaultList == [e \in Defaults |-> Empty]
FirstOf(list) == IF DOMAIN list = {} THEN None ELSE CHOOSE e \in DOMAIN list : TRUE
Read == IF stored = None THEN DefaultList ELSE stored
KeysOf(vars) == {vars[i].key : i \in DOMAIN vars}

Init ==
    /\ stored = None
    /\ copy = None /\ edited = None
    /\ offered = {} /\ selected = None
    /\ scripts = {}

\* The window is opened again: PingZero's list, and a selection when it has none.
Reopen ==
    /\ copy' = None /\ edited' = None
    /\ offered' = IF stored = None THEN {} ELSE DOMAIN stored
    /\ selected' = IF stored = None THEN None ELSE FirstOf(stored)
    /\ scripts' = {}
    /\ UNCHANGED stored

OpenManager ==
    /\ copy = None
    /\ copy' = Read
    /\ edited' = FirstOf(Read)
    /\ UNCHANGED <<stored, offered, selected, scripts>>

CloseManager ==
    /\ copy # None
    /\ copy' = None /\ edited' = None
    /\ UNCHANGED <<stored, offered, selected, scripts>>

\* saveEnvironments: the whole copy is written.
SaveAll(list) ==
    /\ copy' = list /\ stored' = list
    /\ UNCHANGED <<offered, selected, scripts>>

Editing == copy # None /\ edited \in DOMAIN copy

\* The variables the manager lists, each with fields and a button to
\* remove it; and its Delete button, which spares the last environment.
Rows == copy[edited]
Deletable == copy # None /\ Cardinality(DOMAIN copy) > 1

AddVariable(k, v) ==
    /\ Editing /\ Len(Rows) < MaxVars
    /\ SaveAll([copy EXCEPT ![edited] =
          Append(SelectSeq(@, LAMBDA x : x.key # k), [key |-> k, value |-> v])])
    /\ UNCHANGED edited

RemoveVariable(k) ==
    /\ Editing /\ k \in KeysOf(Rows)
    /\ SaveAll([copy EXCEPT ![edited] = SelectSeq(@, LAMBDA x : x.key # k)])
    /\ UNCHANGED edited

\* A row of the manager: every variable of that key changes, its key or
\* its value.
Renamed(vars, k, l) == [i \in DOMAIN vars |-> IF vars[i].key = k THEN [vars[i] EXCEPT !.key = l] ELSE vars[i]]
Revalued(vars, k, v) == [i \in DOMAIN vars |-> IF vars[i].key = k THEN [vars[i] EXCEPT !.value = v] ELSE vars[i]]

RenameVariable(k, l) ==
    /\ Editing /\ k \in KeysOf(Rows)
    /\ SaveAll([copy EXCEPT ![edited] = Renamed(@, k, l)])
    /\ UNCHANGED edited

UpdateVariable(k, v) ==
    /\ Editing /\ k \in KeysOf(Rows)
    /\ SaveAll([copy EXCEPT ![edited] = Revalued(@, k, v)])
    /\ UNCHANGED edited

AddEnvironment(e) ==
    /\ copy # None /\ e \notin DOMAIN copy
    /\ SaveAll([x \in DOMAIN copy \cup {e} |-> IF x = e THEN Empty ELSE copy[x]])
    /\ edited' = e

DeleteEnvironment ==
    /\ Editing /\ Deletable
    /\ LET rest == [x \in DOMAIN copy \ {edited} |-> copy[x]]
       IN  /\ SaveAll(rest)
           /\ edited' = FirstOf(rest)

SelectEdited(e) ==
    /\ copy # None /\ e \in DOMAIN copy
    /\ edited' = e
    /\ UNCHANGED <<stored, copy, offered, selected, scripts>>

Select(e) ==
    /\ e \in offered
    /\ selected' = e
    /\ UNCHANGED <<stored, copy, edited, offered, scripts>>

SetVariableUnseen(e, k, v) ==
    LET vars == stored[e]
    IN  IF stored # None /\ e \in DOMAIN stored /\ k \notin KeysOf(vars)
        THEN /\ Len(vars) < MaxVars
             /\ stored' = [stored EXCEPT ![e] = Append(@, [key |-> k, value |-> v])]
             /\ offered' = DOMAIN stored
             /\ UNCHANGED copy
        ELSE UNCHANGED <<stored, offered, copy>>

\* setEnvVar of a script: localStorage first, then the selector's list and
\* the trigger that makes an open manager read everything again.
SetVariable(e, k, v) ==
    LET vars == stored[e]
        new == IF k \in KeysOf(vars)
               THEN [vars EXCEPT ![CHOOSE i \in DOMAIN vars : vars[i].key = k /\ \A j \in 1 .. i - 1 : vars[j].key # k].value = v]
               ELSE Append(vars, [key |-> k, value |-> v])
    IN  IF stored # None /\ e \in DOMAIN stored
        THEN /\ Len(new) <= MaxVars
             /\ stored' = [stored EXCEPT ![e] = new]
             /\ offered' = DOMAIN stored
             /\ copy' = IF copy = None THEN None ELSE stored'
        ELSE /\ copy' = IF copy = None THEN None ELSE Read
             /\ UNCHANGED <<stored, offered>>

RunScript(k, v) ==
    /\ SetVariable(selected, k, v)
    /\ UNCHANGED <<edited, selected, scripts>>

\* The part of a script after its first await, which nobody waits for.
AwaitScript(k) ==
    /\ Cardinality(scripts) < MaxScripts
    /\ scripts' = scripts \cup {[env |-> selected, key |-> k]}
    /\ UNCHANGED <<stored, copy, edited, offered, selected>>

ScriptResumes(s, v) ==
    /\ SetVariable(s.env, s.key, v)
    /\ scripts' = scripts \ {s}
    /\ UNCHANGED <<edited, selected>>

Next ==
    \/ Reopen \/ OpenManager \/ CloseManager \/ DeleteEnvironment
    \/ \E k \in Key, v \in Value : AddVariable(k, v) \/ UpdateVariable(k, v) \/ RunScript(k, v)
    \/ \E k \in Key : RemoveVariable(k) \/ AwaitScript(k) \/ \E l \in Key : RenameVariable(k, l)
    \/ \E e \in EnvId : AddEnvironment(e) \/ SelectEdited(e) \/ Select(e)
    \/ \E s \in scripts, v \in Value : ScriptResumes(s, v)

Spec == Init /\ [][Next]_envVars

----------------------------------------------------------------------------
\* The manager writes its whole copy back, so a copy older than what is
\* stored would undo what a script has set.
ManagerIsCurrent == copy # None => copy = Read

\* Editing a variable by its key changes one variable.
KeysAreUnique ==
    stored # None => \A e \in DOMAIN stored : Cardinality(KeysOf(stored[e])) = Len(stored[e])

\* The environment that is selected, and thus substituted, exists.
SelectedExists == selected # None => stored # None /\ selected \in DOMAIN stored

\* The selector offers the environments there are.
OfferedIsStored == stored # None => offered = DOMAIN stored
=============================================================================
