--------------------------- MODULE TunnelProfiles ---------------------------
(***************************************************************************)
(* cloudflare_config.yml and its three readers: the list of tunnels in the *)
(* terminal panel (TerminalPanel.tsx), the page of the mode and the token  *)
(* (CloudflareTunnel.tsx), and the start of a project (executor.rs).       *)
(*                                                                         *)
(* A call of the two commands is answered when it is performed: they are   *)
(* synchronous and run in the order in which they were invoked.  Ports     *)
(* and the tokens of single tunnels, which no view edits, are left out.    *)
(*                                                                         *)
(* A list of tunnels is a set: a new one gets a greater id than all before *)
(* it and the last place, so that the order of a list is that of the ids.  *)
(***************************************************************************)
EXTENDS Naturals, Sequences

CONSTANTS
    Project,        \* projects
    None,           \* no project, no mode
    Token,          \* tokens that are typed on the page
    Name,           \* names that are typed for a tunnel
    MaxTunnels,     \* bound on the tunnels ever made
    MaxCalls        \* bound on the calls under way

TunnelsAssumption ==
    /\ None \notin Project \cup {"default", "token", "api"} /\ "" \notin Token
    /\ {MaxTunnels, MaxCalls} \subseteq Nat

VARIABLES
    file,           \* cloudflare_config.yml, or NoFile
    panel,          \* cloudflareMode, globalToken and tunnels of the panel
    active,         \* activeProject of the panel
    renaming,       \* tunnelEditingId
    made,           \* the number of ids made from the time
    page,           \* the page: [open, loading, saving, mode, token]
    calls,          \* commands invoked, in order
    dropped         \* the page has written the file since the panel read or wrote it

tunnelVars == <<file, panel, active, renaming, made, page, calls, dropped>>

Idle == calls = <<>>
Config(mode, token, tunnels) == [mode |-> mode, token |-> token, tunnels |-> tunnels]
NoFile == Config(None, "", {})
Call(cmd, by, content) == [cmd |-> cmd, by |-> by, content |-> content]
Invoke(c) == Len(calls) < MaxCalls /\ calls' = Append(calls, c)

\* A file may be from an older version, with "api" for a mode.
Init ==
    /\ file = NoFile \/ \E m \in {"default", "api"}, t \in Token : file = Config(m, t, {})
    /\ panel = Config("default", "", {})
    /\ active = None
    /\ renaming = None
    /\ made = 0
    /\ page = [open |-> FALSE, loading |-> FALSE, saving |-> FALSE, mode |-> "default", token |-> ""]
    /\ calls = <<Call("load", "panel", None)>>
    /\ dropped = FALSE

----------------------------------------------------------------------------
(* The panel.                                                              *)

Mine(t) == t.of = active
Shown == {t \in panel.tunnels : Mine(t)}

\* saveCloudflareConfig writes the mode and the token that the panel knows.
SaveTunnels(ts) == Invoke(Call("save", "panel", Config(panel.mode, panel.token, ts)))

SelectProject(p) ==
    /\ p # active
    /\ active' = p
    /\ Invoke(Call("load", "panel", None))
    /\ UNCHANGED <<file, panel, renaming, made, page, dropped>>

AddTunnel ==
    /\ active # None /\ made < MaxTunnels
    /\ made' = made + 1
    /\ SaveTunnels(panel.tunnels \cup
          {[id |-> made', of |-> active, name |-> "port", quoted |-> FALSE, active |-> FALSE]})
    /\ UNCHANGED <<file, panel, active, renaming, page, dropped>>

DeleteTunnel(id) ==
    /\ SaveTunnels({t \in panel.tunnels : t.id # id})
    /\ UNCHANGED <<file, panel, active, renaming, made, page, dropped>>

DeleteAllTunnels ==
    /\ active # None
    /\ SaveTunnels(panel.tunnels \ Shown)
    /\ UNCHANGED <<file, panel, active, renaming, made, page, dropped>>

\* As it would be if the other tunnels of the project kept their ticks.
ToggledAlone(id, t) ==
    IF Mine(t) /\ t.id = id THEN [t EXCEPT !.active = ~@] ELSE t

\* Only the clicked tunnel of the project may be ticked.
Toggled(id, t) ==
    IF Mine(t) THEN [t EXCEPT !.active = t.id = id /\ ~@] ELSE t

ToggleTunnel(id) ==
    /\ active # None
    /\ SaveTunnels({Toggled(id, t) : t \in panel.tunnels})
    /\ UNCHANGED <<file, panel, active, renaming, made, page, dropped>>

StartRename(id) ==
    /\ renaming = None
    /\ renaming' = id
    /\ UNCHANGED <<file, panel, active, made, page, calls, dropped>>

\* The name as it was typed, with or without quotes.
Renamed(name, quoted, t) ==
    IF t.id = renaming THEN [t EXCEPT !.name = name, !.quoted = quoted] ELSE t

SubmitRename(name, quoted) ==
    /\ renaming # None
    /\ renaming' = None
    /\ SaveTunnels({Renamed(name, quoted, t) : t \in panel.tunnels})
    /\ UNCHANGED <<file, panel, active, made, page, dropped>>

\* Escape, or an empty name.
CancelRename ==
    /\ renaming # None
    /\ renaming' = None
    /\ UNCHANGED <<file, panel, active, made, page, calls, dropped>>

----------------------------------------------------------------------------
(* The page.                                                               *)

OpenPage ==
    /\ ~page.open
    /\ page' = [open |-> TRUE, loading |-> TRUE, saving |-> FALSE, mode |-> "default", token |-> ""]
    /\ Invoke(Call("load", "page", None))
    /\ UNCHANGED <<file, panel, active, renaming, made, dropped>>

Usable == page.open /\ ~page.loading

ClosePage ==
    /\ Usable /\ ~page.saving
    /\ page' = [page EXCEPT !.open = FALSE]
    /\ UNCHANGED <<file, panel, active, renaming, made, calls, dropped>>

PickMode(m) ==
    /\ Usable /\ page.mode # m
    /\ page' = [page EXCEPT !.mode = m]
    /\ UNCHANGED <<file, panel, active, renaming, made, calls, dropped>>

\* The field is there in the mode "token" alone.
TypeToken(t) ==
    /\ Usable /\ page.mode # "default" /\ page.token # t
    /\ page' = [page EXCEPT !.token = t]
    /\ UNCHANGED <<file, panel, active, renaming, made, calls, dropped>>

\* toYaml has no tunnels.
SavePage ==
    /\ Usable /\ ~page.saving
    /\ page' = [page EXCEPT !.saving = TRUE]
    /\ Invoke(Call("save", "page", Config(page.mode, page.token, {})))
    /\ UNCHANGED <<file, panel, active, renaming, made, dropped>>

----------------------------------------------------------------------------
(* The commands and what the views do with the answers.                    *)

\* Quotes go when a file is parsed.
Bare(t) == [t EXCEPT !.quoted = FALSE]
Parsed(c) == [c EXCEPT !.tunnels = {Bare(t) : t \in @}]
ModeOf(m) == IF m = "api" THEN "token" ELSE m

LoadPanel ==
    /\ Head(calls).cmd = "load" /\ Head(calls).by = "panel"
    /\ IF file = NoFile THEN UNCHANGED panel ELSE panel' = Parsed(file)
    /\ dropped' = FALSE
    /\ UNCHANGED <<file, page>>

LoadPage ==
    /\ Head(calls).cmd = "load" /\ Head(calls).by = "page"
    /\ page' = IF file = NoFile THEN [page EXCEPT !.loading = FALSE]
               ELSE [page EXCEPT !.loading = FALSE, !.mode = ModeOf(file.mode), !.token = file.token]
    /\ UNCHANGED <<file, panel, dropped>>

\* save_cloudflare_config, which may fail before it writes.
SavedPanel(ok) ==
    /\ Head(calls).cmd = "save" /\ Head(calls).by = "panel"
    /\ IF ok
       THEN /\ file' = Head(calls).content
            /\ panel' = [panel EXCEPT !.tunnels = Head(calls).content.tunnels]
            /\ dropped' = FALSE
       ELSE UNCHANGED <<file, panel, dropped>>
    /\ UNCHANGED page

SavedPage(ok) ==
    /\ Head(calls).cmd = "save" /\ Head(calls).by = "page"
    /\ page' = [page EXCEPT !.saving = FALSE]
    /\ IF ok THEN file' = Head(calls).content /\ dropped' = TRUE ELSE UNCHANGED <<file, dropped>>
    /\ UNCHANGED panel

Perform ==
    /\ calls # <<>>
    /\ LoadPanel \/ LoadPage \/ \E ok \in BOOLEAN : SavedPanel(ok) \/ SavedPage(ok)
    /\ calls' = Tail(calls)
    /\ UNCHANGED <<active, renaming, made>>

Next ==
    \/ \E p \in Project \cup {None} : SelectProject(p)
    \/ AddTunnel \/ DeleteAllTunnels
    \/ \E t \in Shown : DeleteTunnel(t.id) \/ ToggleTunnel(t.id) \/ StartRename(t.id)
    \/ \E n \in Name, q \in BOOLEAN : SubmitRename(n, q)
    \/ CancelRename
    \/ OpenPage \/ ClosePage \/ SavePage
    \/ \E m \in {"default", "token"} : PickMode(m)
    \/ \E t \in Token : TypeToken(t)
    \/ Perform

Spec == Init /\ [][Next]_tunnelVars

----------------------------------------------------------------------------
\* The tunnel that a start of p opens: the parser of the executor keeps the
\* last one that is active, and the general one without one.
Ticked(ts, p) == {t \in ts : t.of = p /\ t.active}
Opened(p) ==
    LET ticked == IF file = NoFile THEN {} ELSE Ticked(file.tunnels, p)
    IN  IF ticked = {} THEN 0 ELSE (CHOOSE t \in ticked : \A u \in ticked : u.id <= t.id).id

\* Unless the page has just written the file, a start of the active project
\* opens the one tunnel that is ticked in the panel, and the general one
\* when none is (executor.rs:441-508, TerminalPanel.tsx:566).
StartOpensTicked ==
    (Idle /\ ~dropped) => LET ticked == Ticked(Shown, active) IN
       IF ticked = {} THEN Opened(active) = 0 ELSE \A t \in ticked : Opened(active) = t.id

\* After a call, the panel shows what a reload would show, but for quotes.
ShownIsStored ==
    (Idle /\ ~dropped /\ file # NoFile) => Parsed(panel).tunnels = Parsed(file).tunnels

(***************************************************************************)
(* Why both hold: of the tunnels of a project one is ticked at most,       *)
(* wherever they are, in the file, in the panel or on their way, and the   *)
(* panel knows those of the file unless the page has dropped them.         *)
(***************************************************************************)
IsTunnel(t) ==
    t = [id |-> t.id, of |-> t.of, name |-> t.name, quoted |-> t.quoted, active |-> t.active] /\ t.id \in Nat
IsContent(c) ==
    /\ c = Config(c.mode, c.token, c.tunnels) /\ c.mode # None
    /\ \A t \in c.tunnels : IsTunnel(t)
    /\ \A t, u \in c.tunnels : t.of = u.of /\ t.active /\ u.active => t.id = u.id
IsCall(c) ==
    /\ c = Call(c.cmd, c.by, c.content)
    /\ c.cmd = "save" => IsContent(c.content)
CallsOK == calls \in Seq({calls[i] : i \in DOMAIN calls}) /\ \A i \in DOMAIN calls : IsCall(calls[i])
IsPage == page = [open |-> page.open, loading |-> page.loading, saving |-> page.saving,
                  mode |-> page.mode, token |-> page.token] /\ page.mode # None
KnowsFile ==
    \/ file = NoFile /\ panel.tunnels = {}
    \/ IsContent(file) /\ (dropped \/ Parsed(panel).tunnels = Parsed(file).tunnels)
TunnelsInv == IsContent(panel) /\ CallsOK /\ IsPage /\ made \in Nat /\ KnowsFile

\* What the page saves keeps the tunnels.
PageKeepsTunnels ==
    [][(file # NoFile /\ file' # file /\ Head(calls).by = "page") => file'.tunnels = file.tunnels]_tunnelVars

\* What the panel saves keeps the mode and the token.
PanelKeepsMode ==
    [][(file # NoFile /\ file' # file /\ Head(calls).by = "panel") =>
          file'.mode = file.mode /\ file'.token = file.token]_tunnelVars
=============================================================================
