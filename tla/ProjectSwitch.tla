--------------------------- MODULE ProjectSwitch ---------------------------
(***************************************************************************)
(* Switching the agent to another project.  Every agent panel (AiAgent.tsx)*)
(* watches the project it is shown for and asks the backend to switch,     *)
(* 150 ms after the last change, one switch at a time and with a number of *)
(* its own counting; switch_agent_project of agent.rs refuses a number     *)
(* below the last it took, and does the rest in steps that other calls can *)
(* come between.                                                           *)
(***************************************************************************)
EXTENDS Naturals, FiniteSets

CONSTANTS
    Panel,          \* agent panels mounted
    Project,        \* projects
    None,           \* no project
    MaxSeq,         \* bound on the numbers of a panel
    MaxClock,       \* bound on the seconds that pass
    MaxSessions,    \* 5 in the code
    Patient         \* TRUE: the user waits until a switch has ended

SwitchAssumption ==
    /\ None \notin Project
    /\ {MaxSeq, MaxClock, MaxSessions} \subseteq Nat

VARIABLES
    panel,          \* what each panel holds, see Fresh
    taken,          \* SWITCH_SEQUENCE
    active,         \* active_agent_project
    root,           \* workspace_root of the harness, as its project
    registry,       \* agent_registry: the second each entry was last used in
    clock           \* the current second

switchVars == <<panel, taken, active, root, registry, clock>>

By == {"switch", "new"}     \* the effect, and handleNewChat
NoCall == [project |-> None, seq |-> 0, step |-> "none", stale |-> FALSE, isNew |-> FALSE]

Fresh == [project   |-> None,   \* activeProjectId
          seq       |-> 0,      \* switchSeqRef
          timer     |-> None,   \* the project of the pending timer
          timerSeq  |-> 0,
          switching |-> FALSE,  \* switchingRef
          call      |-> [b \in By |-> NoCall], \* switch_agent_project under way
          chat      |-> None]   \* the project whose messages are shown

Init ==
    /\ panel = [p \in Panel |-> Fresh]
    /\ taken = 0
    /\ active = None /\ root = None
    /\ registry = [j \in {} |-> 0]
    /\ clock = 0

Settled == \A p \in Panel : panel[p].timer = None /\ \A b \in By : panel[p].call[b] = NoCall
Free == Patient => Settled
Backend == <<taken, active, root, registry, clock>>

Put(p, x) == panel' = [panel EXCEPT ![p] = x]
WithCall(x, b, c) == [x EXCEPT !.call = [x.call EXCEPT ![b] = c]]

\* The effect on activeProjectId: the cleanup of the last one clears its
\* timer and aborts its controller; the call under way runs on, aborted.
Select(p, j) ==
    /\ Free
    /\ j # panel[p].project
    /\ panel[p].seq < MaxSeq
    /\ LET x == panel[p]
           c == [x.call["switch"] EXCEPT !.stale = x.switching]
       IN  Put(p, [WithCall(x, "switch", c) EXCEPT !.project = j, !.seq = x.seq + 1,
                                                   !.timer = j, !.timerSeq = x.seq + 1])
    /\ UNCHANGED Backend

\* The timer.  While another switch is under way it does nothing, and
\* prevProjectIdRef says already that this one was made.
Fire(p) ==
    /\ panel[p].timer # None
    /\ LET x == panel[p]
           c == IF x.switching THEN x.call["switch"]
                ELSE [NoCall EXCEPT !.project = x.timer, !.seq = x.timerSeq, !.step = "save"]
       IN  Put(p, [WithCall(x, "switch", c) EXCEPT !.timer = None, !.switching = TRUE])
    /\ UNCHANGED Backend

\* The session shown so far is saved first; an aborted effect then ends.
Ask(p) ==
    /\ panel[p].call["switch"].step = "save"
    /\ LET x == panel[p]
           c == x.call["switch"]
       IN  Put(p, IF c.stale THEN [WithCall(x, "switch", NoCall) EXCEPT !.switching = FALSE]
                  ELSE WithCall(x, "switch", [c EXCEPT !.step = "ask"]))
    /\ UNCHANGED Backend

\* handleNewChat, which does not look at switchingRef.
NewChat(p) ==
    /\ Free
    /\ panel[p].project # None /\ panel[p].call["new"] = NoCall
    /\ panel[p].seq < MaxSeq
    /\ LET x == panel[p]
           c == [NoCall EXCEPT !.project = x.project, !.seq = x.seq + 1, !.step = "ask"]
       IN  Put(p, [WithCall(x, "new", c) EXCEPT !.seq = x.seq + 1])
    /\ UNCHANGED Backend

Step(p, b, s) == Put(p, WithCall(panel[p], b, [panel[p].call[b] EXCEPT !.step = s]))

\* "reject stale": the number is compared now and stored later.
Compare(p, b) ==
    /\ panel[p].call[b].step = "ask"
    /\ Step(p, b, IF panel[p].call[b].seq < taken THEN "refused" ELSE "store")
    /\ UNCHANGED Backend

Store(p, b) ==
    /\ panel[p].call[b].step = "store"
    /\ Step(p, b, "activate")
    /\ taken' = panel[p].call[b].seq
    /\ UNCHANGED <<active, root, registry, clock>>

Activate(p, b) ==
    /\ panel[p].call[b].step = "activate"
    /\ Step(p, b, "find")
    /\ active' = panel[p].call[b].project
    /\ UNCHANGED <<taken, root, registry, clock>>

\* The entry of the project is marked as used, if there is one.
Find(p, b) ==
    LET j == panel[p].call[b].project
    IN  /\ panel[p].call[b].step = "find"
        /\ Put(p, WithCall(panel[p], b, [panel[p].call[b] EXCEPT !.step = "root", !.isNew = j \notin DOMAIN registry]))
        /\ registry' = [i \in DOMAIN registry |-> IF i = j THEN clock ELSE registry[i]]
        /\ UNCHANGED <<taken, active, root, clock>>

\* evict_if_needed: one entry of the oldest second, whichever comes first.
Evicted(reg) ==
    IF Cardinality(DOMAIN reg) <= MaxSessions THEN {reg}
    ELSE {[j \in DOMAIN reg \ {v} |-> reg[j]] :
             v \in {w \in DOMAIN reg : \A u \in DOMAIN reg : reg[w] <= reg[u]}}

Kept(p, b) ==
    LET j == panel[p].call[b].project
    IN  IF panel[p].call[b].isNew
        THEN Evicted([i \in DOMAIN registry \cup {j} |-> IF i = j THEN clock ELSE registry[i]])
        ELSE Evicted(registry)

SetRootOfNew(p, b) ==
    LET j == panel[p].call[b].project
    IN  /\ panel[p].call[b].step = "root"
        /\ Step(p, b, "answered")
        /\ root' = IF panel[p].call[b].isNew THEN j ELSE root
        /\ registry' \in Kept(p, b)
        /\ UNCHANGED <<taken, active, clock>>

\* The workspace root of the harness, and the entry of a new project.
SetRoot(p, b) ==
    LET j == panel[p].call[b].project
    IN  /\ panel[p].call[b].step = "root"
        /\ Step(p, b, "answered")
        /\ root' = j
        /\ registry' \in Kept(p, b)
        /\ UNCHANGED <<taken, active, clock>>

AnswerWithoutFinally(p, b) ==
    LET c == panel[p].call[b]
        shows == c.step = "answered" /\ ~c.stale
    IN  /\ c.step \in {"answered", "refused"}
        /\ \E chat \in IF ~shows THEN {panel[p].chat}
                       ELSE IF b = "new" THEN {None} ELSE {None, c.project} :
              Put(p, [WithCall(panel[p], b, NoCall) EXCEPT !.chat = chat,
                        !.switching = IF b = "switch" /\ c.step = "answered" THEN FALSE ELSE @])
        /\ UNCHANGED Backend

\* The rest of the effect: an aborted one leaves the messages alone, a
\* refusal is thrown past everything; handleNewChat reports it.
Answer(p, b) ==
    LET c == panel[p].call[b]
        shows == c.step = "answered" /\ ~c.stale
    IN  /\ c.step \in {"answered", "refused"}
        /\ \E chat \in IF ~shows THEN {panel[p].chat}
                       ELSE IF b = "new" THEN {None} ELSE {None, c.project} :
              Put(p, [WithCall(panel[p], b, NoCall) EXCEPT !.chat = chat,
                        !.switching = IF b = "switch" THEN FALSE ELSE @])
        /\ UNCHANGED Backend

\* A panel is closed; the next one of that place starts from nothing.
Remount(p) ==
    /\ \A b \in By : panel[p].call[b] = NoCall
    /\ Put(p, Fresh)
    /\ UNCHANGED Backend

Tick == clock < MaxClock /\ clock' = clock + 1 /\ UNCHANGED <<panel, taken, active, root, registry>>

Serve(p, b) ==
    Compare(p, b) \/ Store(p, b) \/ Activate(p, b) \/ Find(p, b) \/ SetRoot(p, b) \/ Answer(p, b)

Next ==
    \/ \E p \in Panel :
          Fire(p) \/ Ask(p) \/ NewChat(p) \/ (\E b \in By : Serve(p, b)) \/ Remount(p) \/ \E j \in Project : Select(p, j)
    \/ Tick

Spec == Init /\ [][Next]_switchVars
\* Timers fire and the backend answers.
FairSpec == Spec /\ \A p \in Panel : WF_switchVars(Fire(p)) /\ WF_switchVars(Ask(p)) /\ \A b \in By : WF_switchVars(Serve(p, b))

----------------------------------------------------------------------------
(* The inductive invariant for a user who waits; ProjectSwitchProofs proves *)
(* the properties from it.                                                 *)

Call ==
    [project : Project \cup {None}, seq : 0 .. MaxSeq, stale : BOOLEAN, isNew : BOOLEAN,
     step : {"none", "save", "ask", "refused", "store", "activate", "find", "root", "answered"}]

PanelState ==
    [project : Project \cup {None}, seq : 0 .. MaxSeq, timer : Project \cup {None},
     timerSeq : 0 .. MaxSeq, switching : BOOLEAN, call : [By -> Call], chat : Project \cup {None}]

\* A call is made, and a panel waits for nothing.
Made(c) == c # NoCall
Quiet(x) == x.timer = None /\ \A b \in By : ~Made(x.call[b])

\* A panel waits for one thing, the last it was told; a call that was let through has
\* done what its step says to the backend: last number, project and directory.
Orderly(x, last, project, dir) ==
    /\ x.timer # None =>
         x.timer = x.project /\ x.timerSeq = x.seq /\ \A b \in By : ~Made(x.call[b])
    /\ x.switching <=> Made(x.call["switch"])
    /\ \A b, d \in By : Made(x.call[b]) /\ Made(x.call[d]) => b = d
    /\ \A b \in By : LET c == x.call[b] IN Made(c) =>
         /\ c.project = x.project /\ c.project # None /\ c.seq = x.seq
         /\ ~c.stale /\ c.step # "none"
         /\ c.step = "refused" => c.seq < last
         /\ c.step \in {"find", "root", "answered"} => project = c.project
         /\ c.step = "answered" => dir = c.project

\* The agent moves to a project in two steps, see Activate and SetRoot.
Moving(x) == \E b \in By : x.call[b].step \in {"find", "root"}

SwitchInv ==
    /\ panel \in [Panel -> PanelState] /\ taken \in 0 .. MaxSeq
    /\ \A p, q \in Panel : Quiet(panel[p]) \/ Quiet(panel[q]) \/ p = q
    /\ \A p \in Panel : Orderly(panel[p], taken, active, root)
    /\ (\A p \in Panel : ~Moving(panel[p])) => root = active

----------------------------------------------------------------------------
\* When nothing is under way the agent is where the panel says it is: its
\* project, its directory and the messages shown belong together.
Switched(p) ==
    /\ active = panel[p].project
    /\ root = panel[p].project
    /\ panel[p].chat \in {None, panel[p].project}

SettledIsSwitched ==
    Settled => \A p \in Panel : panel[p].project # None => Switched(p)

\* So it is at least after a switch whose number the backend took: nothing
\* of another project is left behind.
TakenIsSwitched ==
    Settled => \A p \in Panel : panel[p].project # None /\ panel[p].seq = taken => Switched(p)

\* The project and the directory of the agent are set by one switch.
RootFollowsActive == Settled => root = active

\* "Dung sequence number de chong stale request" (agent.rs:2117, against
\* stale requests): only a request older than one of the same panel is
\* refused.
NewestIsNotRefused ==
    \A p \in Panel, b \in By :
       panel[p].call[b].step = "refused" => panel[p].call[b].seq < panel[p].seq

\* The project that is active has an entry in the registry.
ActiveIsRegistered == Settled /\ active # None => active \in DOMAIN registry

\* switchingRef does not stay set: later switches are not ignored for good.
SwitchingEnds == \A p \in Panel : panel[p].switching ~> ~panel[p].switching
=============================================================================
