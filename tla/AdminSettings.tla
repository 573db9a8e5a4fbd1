--------------------------- MODULE AdminSettings ---------------------------
(***************************************************************************)
(* The theme and the system section of AdminPanel.tsx.  They edit one file *)
(* of settings, each through a copy of the whole of it that it loads when  *)
(* it is shown; the dock shows one section at a time and has a theme       *)
(* button of its own.  One field stands for the fields of a section; the   *)
(* announcement of the editor engine to other windows is not modelled.     *)
(***************************************************************************)
EXTENDS Naturals

CONSTANTS
    Theme,          \* "dark", "light"
    Number,         \* values of the fields of the theme section
    Limit,          \* values of the limits, enabled or not
    None            \* no copy loaded

Section == {"theme", "system", "other"}
Settings == [theme : Theme, font : Number, limited : BOOLEAN, limit : Limit]

AdminAssumption == None \notin Settings /\ Theme # {} /\ Number # {} /\ Limit # {}

VARIABLES
    file,           \* settings.json
    section,        \* activeDock
    copy,           \* the settings of the section that is shown
    theme           \* the theme in use, of useTheme

settingsVars == <<file, section, copy, theme>>

Defaults == [theme |-> CHOOSE t \in Theme : TRUE, font |-> CHOOSE n \in Number : TRUE,
             limited |-> FALSE, limit |-> CHOOSE l \in Limit : TRUE]

Init ==
    /\ file = Defaults
    /\ section = "other" /\ copy = None
    /\ theme \in Theme

\* handleDockClick: the section that was shown goes, with its copy.
Show(s) ==
    /\ section' = s
    /\ copy' = IF s = section THEN copy ELSE None
    /\ UNCHANGED <<file, theme>>

\* get_settings answers.
Load ==
    /\ section \in {"theme", "system"} /\ copy = None
    /\ copy' = file
    /\ UNCHANGED <<file, section, theme>>

\* The theme button of the dock.
ToggleTheme == theme' \in Theme \ {theme} /\ UNCHANGED <<file, section, copy>>

\* The theme section: its buttons, its fields, "Save" and "Reset".
InTheme == section = "theme"

PickTheme(t) ==
    /\ InTheme
    /\ theme' = t
    /\ copy' = IF copy = None THEN None ELSE [copy EXCEPT !.theme = t]
    /\ UNCHANGED <<file, section>>

EditFont(n) ==
    /\ InTheme /\ copy # None
    /\ copy' = [copy EXCEPT !.font = n]
    /\ UNCHANGED <<file, section, theme>>

SaveTheme ==
    /\ InTheme /\ copy # None
    /\ file' = copy
    /\ theme' = copy.theme
    /\ UNCHANGED <<section, copy>>

ResetSettings ==
    /\ InTheme
    /\ file' = Defaults /\ copy' = Defaults /\ theme' = Defaults.theme
    /\ UNCHANGED <<section>>

\* The system section saves every change at once.
Update(c) ==
    /\ section = "system"
    /\ copy' = c /\ file' = c
    /\ UNCHANGED <<section, theme>>

SwitchLimit == copy # None /\ Update([copy EXCEPT !.limited = ~@])
EditLimit(l) == copy # None /\ copy.limited /\ Update([copy EXCEPT !.limit = l])

Next ==
    \/ \E s \in Section : Show(s)
    \/ \E t \in Theme : PickTheme(t)
    \/ \E n \in Number : EditFont(n)
    \/ \E l \in Limit : EditLimit(l)
    \/ Load \/ ToggleTheme \/ SaveTheme \/ ResetSettings \/ SwitchLimit

Spec == Init /\ [][Next]_settingsVars

----------------------------------------------------------------------------
\* Saving in one section keeps what the other section saved, although each
\* writes the whole file from a copy of its own.
SectionsKeepEachOther ==
    [][/\ SaveTheme => file'.limited = file.limited /\ file'.limit = file.limit
       /\ (SwitchLimit \/ \E l \in Limit : EditLimit(l))
            => file'.theme = file.theme /\ file'.font = file.font]_settingsVars

\* Saving the theme section keeps the theme the user sees.
SaveKeepsTheme == [][SaveTheme => theme' = theme]_settingsVars
=============================================================================
