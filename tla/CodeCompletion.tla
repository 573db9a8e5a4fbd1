--------------------------- MODULE CodeCompletion ---------------------------
(***************************************************************************)
(* The suggestions in the editor: the providers that every CodeEditor      *)
(* registers with Monaco when it mounts, and aiCompletionService.ts, which *)
(* serves all of them with one cooldown and one AbortController.           *)
(*                                                                         *)
(* A provider is never disposed and is asked for every editor.  Monaco     *)
(* cancels the token of a request when there is a newer one for its        *)
(* editor.  A text is a number that grows as it is typed.                  *)
(***************************************************************************)
EXTENDS Naturals, FiniteSets

CONSTANTS
    MaxEditors,     \* bound on the editors ever mounted
    MaxTyped,       \* bound on the requests ever made
    None            \* no call

CompletionAssumption == {MaxEditors, MaxTyped} \subseteq Nat /\ None \notin Nat

VARIABLES
    mounted,        \* the editors mounted
    providers,      \* the number of those that ever were: each has a provider
    enabled,        \* aiCompletionEnabled of each
    stored,         \* "ai_completion_enabled"
    asked,          \* the number of requests made by Monaco
    token,          \* the request of each editor that is not cancelled, or 0
    timer,          \* the call that the debounce timer of each provider resolves, or None
    calls,          \* provideInlineCompletions under way
    controller,     \* activeAbortController: of a call, or None
    cooling,        \* the last request is younger than 1.5 s
    items           \* the suggestions shown

complVars == <<mounted, providers, enabled, stored, asked, token, timer, calls, controller,
               cooling, items>>
settings == <<mounted, providers, enabled, stored>>

Editor == 1..MaxEditors
Provider == 1..providers

\* A call of provider p for request r of editor e; its stage is "debounce",
\* "code" or "chat".
Call(e, r, p, manual, stage) == [ed |-> e, req |-> r, prov |-> p, manual |-> manual, stage |-> stage]
Cancelled(c) == token[c.ed] # c.req

Init ==
    /\ mounted = {} /\ providers = 0
    /\ stored \in BOOLEAN
    /\ enabled = [e \in Editor |-> FALSE]
    /\ asked = 0 /\ token = [e \in Editor |-> 0]
    /\ timer = [e \in Editor |-> None]
    /\ calls = {} /\ controller = None /\ cooling = FALSE
    /\ items = {}

\* handleBeforeMount registers anew on every mount.
Mount ==
    /\ providers < MaxEditors
    /\ providers' = providers + 1
    /\ mounted' = mounted \cup {providers'}
    /\ enabled' = [enabled EXCEPT ![providers'] = stored]
    /\ UNCHANGED <<stored, asked, token, timer, calls, controller, cooling, items>>

Unmount(e) ==
    /\ e \in mounted
    /\ mounted' = mounted \ {e}
    /\ token' = [token EXCEPT ![e] = 0]
    /\ items' = {c \in items : c.ed # e}
    /\ UNCHANGED <<providers, enabled, stored, asked, timer, calls, controller, cooling>>

\* The button "AI Suggest" of one editor.
Toggle(e) ==
    /\ e \in mounted
    /\ enabled' = [enabled EXCEPT ![e] = ~@]
    /\ stored' = enabled'[e]
    /\ UNCHANGED <<mounted, providers, asked, token, timer, calls, controller, cooling, items>>

----------------------------------------------------------------------------
(* fetchAiCodeCompletion.                                                  *)

\* An aborted call runs its finally at once: the controller that it clears is
\* that of the call that aborted it.
Cleared(aborted, c) == IF aborted = {} THEN c ELSE None

\* The calls and the controller after c is sent, beside others.
Sent(c, others) ==
    IF cooling /\ ~c.manual
    THEN calls' = others /\ UNCHANGED <<controller, cooling>>
    ELSE LET aborted == IF controller = None THEN {} ELSE {controller} IN
         /\ calls' = (others \ aborted) \cup {[c EXCEPT !.stage = "code"]}
         /\ controller' = Cleared(aborted, [c EXCEPT !.stage = "code"])
         /\ cooling' = TRUE

CooldownEnds ==
    /\ cooling
    /\ cooling' = FALSE
    /\ UNCHANGED <<settings, asked, token, timer, calls, controller, items>>

\* The older server answers 404: the same call asks for a chat completion.
FallBack(c) ==
    /\ c.stage = "code"
    /\ LET chat == [c EXCEPT !.stage = "chat"] IN
       /\ calls' = (calls \ {c}) \cup {chat}
       /\ controller' = IF controller = c THEN chat ELSE controller
    /\ UNCHANGED <<settings, asked, token, timer, cooling, items>>

\* What the provider returns for the text of an answer.
Offered(c, text) == IF text /\ ~Cancelled(c) THEN {c} ELSE {}

Answer(c, text) ==
    /\ c.stage \in {"code", "chat"}
    /\ calls' = calls \ {c}
    /\ controller' = None
    /\ items' = items \cup Offered(c, text)
    /\ UNCHANGED <<settings, asked, token, timer, cooling>>

----------------------------------------------------------------------------
(* The providers.                                                          *)

\* Monaco asks every provider: after a key, or for Alt+\.
Request(e, manual) ==
    /\ e \in mounted /\ asked < MaxTyped
    /\ asked' = asked + 1
    /\ token' = [token EXCEPT ![e] = asked']
    /\ items' = {c \in items : c.ed # e}
    /\ calls' = calls \cup {Call(e, asked', p, manual, "asked") : p \in Provider}
    /\ UNCHANGED <<settings, timer, controller, cooling>>

\* A call that waited for the timer, which is set anew, waits for ever.
Provide(c) ==
    /\ c.stage = "asked"
    /\ LET others == calls \ {c}
           waits == [c EXCEPT !.stage = "debounce"]
       IN \/ ~enabled[c.prov] /\ calls' = others /\ UNCHANGED <<timer, controller, cooling>>
          \/ /\ enabled[c.prov] /\ ~c.manual
             /\ timer' = [timer EXCEPT ![c.prov] = waits]
             /\ calls' = (others \ {timer[c.prov]}) \cup {waits}
             /\ UNCHANGED <<controller, cooling>>
          \/ /\ enabled[c.prov] /\ c.manual
             /\ IF Cancelled(c) THEN calls' = others /\ UNCHANGED <<controller, cooling>>
                ELSE Sent(c, others)
             /\ UNCHANGED timer
    /\ UNCHANGED <<settings, asked, token, items>>

DebounceEnds(p) ==
    /\ timer[p] # None
    /\ timer' = [timer EXCEPT ![p] = None]
    /\ LET c == timer[p] IN
       IF Cancelled(c) THEN calls' = calls \ {c} /\ UNCHANGED <<controller, cooling>>
       ELSE Sent(c, calls \ {c})
    /\ UNCHANGED <<settings, asked, token, items>>

Next ==
    \/ Mount \/ CooldownEnds
    \/ \E e \in Editor : Unmount(e) \/ Toggle(e) \/ \E b \in BOOLEAN : Request(e, b)
    \/ \E p \in Editor : DebounceEnds(p)
    \/ \E c \in calls : Provide(c) \/ FallBack(c) \/ \E b \in BOOLEAN : Answer(c, b)

Spec == Init /\ [][Next]_complVars

----------------------------------------------------------------------------
\* What is shown was suggested for the text as it is now: no answer comes
\* from before the last key (CodeEditor.tsx:1397).
ShownIsCurrent == \A c \in items : c.ed \in mounted /\ ~Cancelled(c)

\* The controller is that of a call under way: what is aborted is never an
\* answer that has come (aiCompletionService.ts:156).
ControllerIsLive == controller # None => controller \in calls

(***************************************************************************)
(* Why both hold: the request that an editor has not cancelled is younger  *)
(* than none and is of an editor that is mounted, a call that is sent is   *)
(* the controller's until it ends, and the timers hold calls that were not *)
(* sent.                                                                   *)
(***************************************************************************)
IsCall(c) ==
    /\ c = Call(c.ed, c.req, c.prov, c.manual, c.stage)
    /\ c.ed \in Editor /\ c.prov \in Editor /\ c.req \in 1..asked
CallsOK ==
    /\ asked \in Nat /\ providers \in 0..MaxEditors
    /\ \A c \in calls : IsCall(c)
    /\ timer = [p \in Editor |-> timer[p]]
    /\ \A p \in Editor : timer[p] # None => IsCall(timer[p]) /\ timer[p].stage = "debounce"
TokensOK ==
    /\ token = [e \in Editor |-> token[e]]
    /\ \A e \in Editor : token[e] # 0 => e \in mounted
SentOK == controller # None => controller \in calls /\ controller.stage \in {"code", "chat"}
CompletionInv == CallsOK /\ TokensOK /\ SentOK /\ ShownIsCurrent

\* "Cancel previous pending request if any": one request is under way at a
\* time (aiCompletionService.ts:73).
OneRequest == Cardinality({c \in calls : c.stage \in {"code", "chat"}}) <= 1

\* "AI Suggest OFF": an editor that is switched off shows no new suggestion
\* (CodeEditor.tsx:1774).
OffIsSilent == [][\A c \in items' \ items : enabled[c.ed]]_complVars
=============================================================================
