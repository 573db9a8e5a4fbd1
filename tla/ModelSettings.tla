--------------------------- MODULE ModelSettings ---------------------------
(***************************************************************************)
(* The AI section of AdminPanel.tsx: which models are active and the keys  *)
(* of the providers, written on every change to localStorage and to        *)
(* ai_config.yml.  The backend never tells a key: it shows a mask, and     *)
(* takes the mask or an empty key for "as before".                         *)
(***************************************************************************)
EXTENDS Naturals, Sequences, SequencesExt

CONSTANTS
    Provider,       \* providers of the configuration file
    Model,          \* models of the configuration file, pairs <<provider, name>>
    Typed,          \* keys the user may type
    Usual,          \* the models active before anything was chosen
    None            \* nothing stored

ModelAssumption == Model \subseteq Provider \X STRING

Mask == "masked"
Fallback == <<"gemini", "gemini-1.5-flash">>

VARIABLES
    loaded,         \* predefinedModels are there
    chosen,         \* activeModels
    keys,           \* providerApiKeys
    local,          \* localStorage: the chosen models, or nothing
    file            \* ai_config.yml: the active model and the keys

modelVars == <<loaded, chosen, keys, local, file>>

NoKeys == [p \in Provider |-> ""]

Init ==
    /\ loaded = FALSE
    /\ chosen = Usual /\ keys = NoKeys
    /\ local = None
    /\ file \in [active : Model, keys : [Provider -> {"", "first"}]]

ModelsOf(p) == {m \in Model : m[1] = p}

\* The effect that loads: what localStorage has goes before the file's.
Load ==
    /\ ~loaded
    /\ loaded' = TRUE
    /\ keys' = [p \in Provider |-> Mask]
    /\ chosen' = IF local # None THEN local ELSE <<file.active>>
    /\ UNCHANGED <<local, file>>

Close ==
    /\ loaded
    /\ loaded' = FALSE
    /\ chosen' = Usual /\ keys' = NoKeys
    /\ UNCHANGED <<local, file>>

KeysAsSent(k, old) == [p \in Provider |-> IF k[p] = "" THEN old[p] ELSE k[p]]

\* save_custom_ai_config: a masked or empty key leaves the stored one.
KeysWritten(k, old) ==
    [p \in Provider |-> IF k[p] \in {Mask, ""} THEN old[p] ELSE k[p]]

\* autoSave: the first of the chosen models is the active one.
AutoSave(c, k) ==
    /\ local' = c
    /\ file' = [active |-> IF c = <<>> THEN Fallback ELSE Head(c), keys |-> KeysWritten(k, file.keys)]

ToggleModel(m) ==
    /\ loaded
    /\ chosen' = IF m \in ToSet(chosen) THEN SelectSeq(chosen, LAMBDA x : x # m) ELSE Append(chosen, m)
    /\ AutoSave(chosen', keys)
    /\ UNCHANGED <<loaded, keys>>

\* All models of a provider off, when any is on; else all on, in some order.
ToggleProvider(p) ==
    /\ loaded
    /\ IF ToSet(chosen) \cap ModelsOf(p) # {}
       THEN chosen' = SelectSeq(chosen, LAMBDA x : x \notin ModelsOf(p))
       ELSE \E s \in SetToSeqs(ModelsOf(p)) : chosen' = chosen \o s
    /\ AutoSave(chosen', keys)
    /\ UNCHANGED <<loaded, keys>>

TypeKey(p, k) ==
    /\ loaded
    /\ keys' = [keys EXCEPT ![p] = k]
    /\ AutoSave(chosen, keys')
    /\ UNCHANGED <<loaded, chosen>>

Next ==
    \/ Load \/ Close
    \/ \E m \in Model : ToggleModel(m)
    \/ \E p \in Provider : ToggleProvider(p) \/ \E k \in Typed \cup {""} : TypeKey(p, k)

Spec == Init /\ [][Next]_modelVars

----------------------------------------------------------------------------
\* A stored key is there until another is typed for its provider: choosing
\* models, reopening the section and emptying the field keep it.
KeysSurvive ==
    [][\A p \in Provider :
         file'.keys[p] # file.keys[p] => keys'[p] \in Typed /\ file'.keys[p] = keys'[p]]_modelVars

\* The active model of the configuration is one of its models.
ActiveIsModel == file.active \in Model
=============================================================================
