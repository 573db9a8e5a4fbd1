------------------------ MODULE ProjectMirrorProofs ------------------------
(***************************************************************************)
(* What holds of the projects that the user interface shows, for any       *)
(* number of projects, events and handlers, when the user waits for the    *)
(* handlers to end and for the events to be heard.                         *)
(***************************************************************************)
EXTENDS ProjectMirror, WellFoundedInduction, TLAPS

----------------------------------------------------------------------------
(* Choices, events and handlers.                                           *)

\* The choice that stands for the first of a set of numbers is one of them.
LEMMA FirstIsOne ==
  ASSUME NEW S, S \subseteq Nat, S # {}
  PROVE  First(S) \in S
<1> DEFINE Smaller == {p \in Nat \X Nat : p[1] < p[2]}
<1>1. IsWellFoundedOn(Smaller, Nat)
  BY NatLessThanWellFounded DEF OpToRel
<1>2. PICK i \in S : \A j \in S : ~ <<j, i>> \in Smaller
  <2> HIDE DEF Smaller
  <2> QED
    BY <1>1, WFMin
<1>3. \A j \in S : ~ j < i
  BY <1>2
<1>4. \A j \in S : i <= j
  BY <1>3
<1> QED
  BY <1>4 DEF First

\* The positions of a sequence with one element more.
LEMMA AppendPositions ==
  ASSUME NEW S, NEW e \in Seq(S), NEW x \in S
  PROVE  /\ Append(e, x) \in Seq(S) /\ Len(e) \in Nat
         /\ DOMAIN e = 1 .. Len(e) /\ DOMAIN Append(e, x) = 1 .. (Len(e) + 1)
         /\ \A k \in DOMAIN e : /\ k \in DOMAIN Append(e, x) /\ Append(e, x)[k] = e[k]
                                /\ k < Len(e) + 1 /\ e[k] \in S
         /\ Append(e, x)[Len(e) + 1] = x
OBVIOUS

\* The positions of a sequence without its first element.
LEMMA TailPositions ==
  ASSUME NEW S, NEW e \in Seq(S), e # <<>>
  PROVE  /\ Tail(e) \in Seq(S) /\ Len(e) \in Nat \ {0}
         /\ DOMAIN e = 1 .. Len(e) /\ DOMAIN Tail(e) = 1 .. (Len(e) - 1)
         /\ \A k \in DOMAIN Tail(e) : Tail(e)[k] = e[k + 1]
         /\ Head(e) = e[1] /\ e[1] \in S
OBVIOUS

\* The last of the events e for a project says what r does.
LastSays(e, r) ==
    \A k \in DOMAIN e : (\A m \in DOMAIN e : k < m => e[m].id # e[k].id) => e[k].on = r[e[k].id]

\* No event of e is for the project q.
Silent(e, q) == \A k \in DOMAIN e : e[k].id # q

\* An event for a project becomes its last.
LEMMA NewsOfAppend ==
  ASSUME NEW P, NEW e \in Seq([id : P, on : BOOLEAN]), NEW p \in P, NEW on \in BOOLEAN,
         NEW r \in [P -> BOOLEAN], LastSays(e, r)
  PROVE  LET f == Append(e, [id |-> p, on |-> on])
             s == [r EXCEPT ![p] = on]
         IN  /\ f \in Seq([id : P, on : BOOLEAN])
             /\ LastSays(f, s)
             /\ \A q \in P : Silent(f, q) => Silent(e, q) /\ s[q] = r[q]
<1> DEFINE Event == [id : P, on : BOOLEAN]
           new == [id |-> p, on |-> on]
           f == Append(e, new)
           s == [r EXCEPT ![p] = on]
<1>1. /\ f \in Seq([id : P, on : BOOLEAN]) /\ Len(e) \in Nat
      /\ DOMAIN e = 1 .. Len(e) /\ DOMAIN f = 1 .. (Len(e) + 1)
      /\ \A k \in DOMAIN e : k \in DOMAIN f /\ f[k] = e[k] /\ k < Len(e) + 1 /\ e[k].id \in P
      /\ f[Len(e) + 1] = [id |-> p, on |-> on]
  <2>1. new \in Event /\ e \in Seq(Event) /\ \A x \in Event : x.id \in P
    OBVIOUS
  <2> HIDE DEF Event, new
  <2>2. /\ f \in Seq(Event) /\ Len(e) \in Nat
        /\ DOMAIN e = 1 .. Len(e) /\ DOMAIN f = 1 .. (Len(e) + 1)
        /\ \A k \in DOMAIN e : k \in DOMAIN f /\ f[k] = e[k] /\ k < Len(e) + 1 /\ e[k] \in Event
        /\ f[Len(e) + 1] = new
    BY <2>1, AppendPositions
  <2>3. \A k \in DOMAIN e : e[k].id \in P
    BY <2>1, <2>2
  <2> HIDE DEF f
  <2> QED
    BY <2>2, <2>3 DEF Event, new
<1>2. \A q \in P : s[q] = IF q = p THEN on ELSE r[q]
  OBVIOUS
<1> HIDE DEF f, s
<1>3. Len(e) + 1 \in DOMAIN f /\ \A k \in DOMAIN f : k = Len(e) + 1 \/ k \in DOMAIN e
  BY <1>1
<1>4. ASSUME NEW k \in DOMAIN f, \A m \in DOMAIN f : k < m => f[m].id # f[k].id
      PROVE  f[k].on = s[f[k].id]
  <2>1. CASE k = Len(e) + 1
    BY <1>1, <1>2, <2>1
  <2>2. CASE k \in DOMAIN e
    <3>1. f[k] = e[k] /\ e[k].id # p /\ e[k].id \in P
      BY <1>1, <1>3, <1>4, <2>2
    <3>2. \A m \in DOMAIN e : k < m => e[m].id # e[k].id
      BY <1>1, <1>4, <2>2
    <3> QED
      BY <1>2, <2>2, <3>1, <3>2 DEF LastSays
  <2> QED
    BY <1>3, <2>1, <2>2
<1>5. ASSUME NEW q \in P, \A k \in DOMAIN f : f[k].id # q
      PROVE  (\A k \in DOMAIN e : e[k].id # q) /\ s[q] = r[q]
  BY <1>1, <1>2, <1>3, <1>5
<1>6. LastSays(f, s) /\ \A q \in P : Silent(f, q) => Silent(e, q) /\ s[q] = r[q]
  BY <1>4, <1>5 DEF LastSays, Silent
<1> QED
  BY <1>1, <1>6 DEF f, s, new, Event

\* The first event goes, and the later ones keep their order.
LEMMA NewsOfTail ==
  ASSUME NEW P, NEW e \in Seq([id : P, on : BOOLEAN]), e # <<>>, NEW r \in [P -> BOOLEAN],
         LastSays(e, r)
  PROVE  LET f == Tail(e)
         IN  /\ f \in Seq([id : P, on : BOOLEAN]) /\ Head(e) \in [id : P, on : BOOLEAN]
             /\ LastSays(f, r)
             /\ \A q \in P : Silent(f, q) => IF Head(e).id = q THEN Head(e).on = r[q] ELSE Silent(e, q)
<1> DEFINE f == Tail(e)
<1>1. /\ f \in Seq([id : P, on : BOOLEAN]) /\ Len(e) \in Nat \ {0}
      /\ DOMAIN e = 1 .. Len(e) /\ DOMAIN f = 1 .. (Len(e) - 1)
      /\ \A k \in DOMAIN f : f[k] = e[k + 1]
      /\ Head(e) = e[1] /\ e[1] \in [id : P, on : BOOLEAN]
  BY TailPositions
<1> HIDE DEF f
<1>2. /\ \A k \in DOMAIN f : k \in Nat /\ k + 1 \in DOMAIN e /\ 1 < k + 1
      /\ 1 \in DOMAIN e
      /\ \A m \in DOMAIN e : m \in Nat /\ (m # 1 => m - 1 \in DOMAIN f /\ (m - 1) + 1 = m)
  BY <1>1
<1>3. ASSUME NEW k \in DOMAIN f, \A m \in DOMAIN f : k < m => f[m].id # f[k].id
      PROVE  f[k].on = r[f[k].id]
  <2>1. ASSUME NEW m \in DOMAIN e, k + 1 < m
        PROVE  e[m].id # e[k + 1].id
    <3>1. m - 1 \in DOMAIN f /\ k < m - 1 /\ f[m - 1] = e[m]
      BY <1>1, <1>2, <2>1
    <3> QED
      BY <1>1, <1>3, <3>1
  <2>2. e[k + 1].on = r[e[k + 1].id]
    BY <1>2, <2>1 DEF LastSays
  <2> QED
    BY <1>1, <2>2
<1>4. ASSUME NEW q \in P, \A k \in DOMAIN f : f[k].id # q
      PROVE  IF Head(e).id = q THEN Head(e).on = r[q] ELSE \A k \in DOMAIN e : e[k].id # q
  <2>1. \A m \in DOMAIN e : m # 1 => e[m].id # q
    BY <1>1, <1>2, <1>4
  <2>2. CASE e[1].id = q
    <3>1. \A m \in DOMAIN e : 1 < m => e[m].id # e[1].id
      BY <1>2, <2>1, <2>2
    <3>2. e[1].on = r[e[1].id]
      BY <1>2, <3>1 DEF LastSays
    <3> QED
      BY <1>1, <2>2, <3>2
  <2>3. CASE e[1].id # q
    BY <1>1, <2>1, <2>3
  <2> QED
    BY <1>1, <2>2, <2>3
<1>5. LastSays(f, r)
  BY <1>3 DEF LastSays
<1>6. \A q \in P : Silent(f, q) => IF Head(e).id = q THEN Head(e).on = r[q] ELSE Silent(e, q)
  BY <1>4 DEF Silent
<1> QED
  BY <1>1, <1>5, <1>6 DEF f

\* The handler that does nothing.
LEMMA IdleHandler ==
  /\ Idle \in Acts /\ Idle.kind = "idle" /\ Idle.ans = None /\ Idle.todo = {}
  /\ \A h : Works(h) /\ h.kind = "idle" => h = Idle
BY DEF Idle, Acts, Works

\* The assumptions on the constants, one by one.
LEMMA Constants ==
  ASSUME ProjectMirrorAssumption
  PROVE  /\ Project \subseteq Nat /\ None \notin Project /\ Create \notin Project /\ None # Create
         /\ None \notin Config /\ None \notin Then
         /\ Slot \subseteq Nat /\ 1 \in Slot
BY DEF ProjectMirrorAssumption, Slot

\* The only handler may become another.
LEMMA Resumes ==
  ASSUME handlers \in [Slot -> Reads \cup Acts], NEW i \in Slot, Alone(i),
         NEW x \in Reads \cup Acts, handlers' = [handlers EXCEPT ![i] = x]
  PROVE  handlers' \in [Slot -> Reads \cup Acts] /\ Alone(i)' /\ handlers'[i] = x
BY DEF Alone

\* When every slot is free, a new handler is the only one.
LEMMA Spawns ==
  ASSUME ProjectMirrorAssumption, handlers \in [Slot -> Reads \cup Acts], Free = Slot,
         NEW x \in Reads \cup Acts, Spawn(x)
  PROVE  /\ handlers' \in [Slot -> Reads \cup Acts]
         /\ \E i \in Slot : Alone(i)' /\ handlers'[i] = x
<1>1. First(Free) \in Slot
  BY Constants, FirstIsOne
<1>2. PICK i \in Slot : i = First(Free)
  BY <1>1
<1>3. Alone(i)
  BY DEF Alone, Free
<1>4. handlers' = [handlers EXCEPT ![i] = x]
  BY <1>2 DEF Spawn
<1> QED
  BY <1>3, <1>4, Resumes

\* A handler that does nothing alone is one of many: every slot is free.
LEMMA AllFree ==
  ASSUME NEW i \in Slot, Alone(i)
  PROVE  handlers[i] = Idle <=> Free = Slot
BY DEF Alone, Free

\* A run that starts or ends is the last news of its project, and no news of another.
LEMMA BecomesTrue ==
  ASSUME MirrorTypeOK, LastIsTrue, NEW p \in Project, NEW on \in BOOLEAN, Becomes(p, on)
  PROVE  /\ running' \in [Project -> BOOLEAN] /\ events' \in Seq([id : Project, on : BOOLEAN])
         /\ LastIsTrue'
         /\ \A q \in Project : Silent(events', q) => Silent(events, q) /\ running'[q] = running[q]
<1>1. events \in Seq([id : Project, on : BOOLEAN]) /\ running \in [Project -> BOOLEAN]
  BY DEF MirrorTypeOK
<1>2. CASE running[p] = on
  <2>1. running' = running /\ events' = events
    BY <1>1, <1>2 DEF Becomes
  <2> QED
    BY <1>1, <2>1 DEF LastIsTrue
<1>3. CASE running[p] # on
  <2>1. running' = [running EXCEPT ![p] = on] /\ events' = Append(events, [id |-> p, on |-> on])
    BY <1>3 DEF Becomes
  <2>2. running' \in [Project -> BOOLEAN]
    BY <1>1, <2>1
  <2>3. LastSays(events, running)
    BY DEF LastIsTrue, LastSays
  <2>4. /\ events' \in Seq([id : Project, on : BOOLEAN]) /\ LastSays(events', running')
        /\ \A q \in Project : Silent(events', q) => Silent(events, q) /\ running'[q] = running[q]
    BY <1>1, <2>1, <2>3, NewsOfAppend
  <2>5. LastIsTrue'
    BY <2>4 DEF LastIsTrue, LastSays
  <2> QED
    BY <2>2, <2>4, <2>5
<1> QED
  BY <1>2, <1>3

\* What is shown stays true when less is shown, or more is to be read.
LEMMA RestStays ==
  ASSUME NEW h, RestIsTrue(h), NEW x, states' = states,
         \A q \in Project : Silent(events', q) => Silent(events, q) /\ running'[q] = running[q],
         \A q \in Project : projects'[q] # None /\ x.kind # "list" /\ ~(x.kind = "states" /\ q \in x.todo)
           => projects[q] # None /\ h.kind # "list" /\ ~(h.kind = "states" /\ q \in h.todo)
  PROVE  RestIsTrue(x)'
BY DEF RestIsTrue, Silent

\* What holds before a step: one handler, or none.
LEMMA TheHandler ==
  ASSUME MirrorInv
  PROVE  /\ MirrorTypeOK /\ LastIsTrue /\ (confirm = None \/ conflict = None)
         /\ \E i \in Slot : Alone(i) /\ Sound(handlers[i])
BY DEF MirrorInv

\* With every slot free no handler has anything to say, and the list and the active project are true.
LEMMA NothingUnderWay ==
  ASSUME MirrorInv, Free = Slot
  PROVE  /\ projects = registry /\ (active \in Project => projects[active] # None)
         /\ RestIsTrue(Idle)
<1>1. PICK i \in Slot : Alone(i) /\ Sound(handlers[i])
  BY TheHandler
<1>2. handlers[i] = Idle
  BY <1>1, AllFree
<1> QED
  BY <1>1, <1>2, IdleHandler DEF Sound, Shows

\* What a user does with nothing under way, or in a dialog, begins one handler at most, and
\* makes no project active that is not in the list.
LEMMA UserHolds ==
  ASSUME ProjectMirrorAssumption, MirrorInv, Free = Slot,
         UNCHANGED <<registry, running, events, projects, states>>,
         active' \in {active, None, Create} \cup {p \in Project : projects[p] # None},
         form' \in [name : Project \cup {None}, tunnel : BOOLEAN],
         confirm' \in [kind : {"start", "delete"}, id : Project] \cup {None},
         conflict' \in [id : Project, ok : BOOLEAN] \cup {None},
         confirm' = None \/ conflict' = None,
         \/ UNCHANGED handlers
         \/ \E x \in Acts : Spawn(x) /\ x.kind # "idle" /\ Works(x)' /\ ~Modal'
  PROVE  MirrorInv'
<1>1. MirrorTypeOK /\ LastIsTrue /\ RestIsTrue(Idle)
  BY TheHandler, NothingUnderWay
<1>2. active' \in Project \cup {None, Create} /\ projects' = registry'
      /\ (active' \in Project => projects'[active'] # None)
  BY <1>1, NothingUnderWay, Constants DEF MirrorTypeOK
<1>3. LastIsTrue'
  BY <1>1 DEF LastIsTrue
<1>4. ASSUME NEW x \in Acts, Works(x)', Modal' => x = Idle
      PROVE  Sound(x)'
  <2>1. x.kind \notin {"list", "states"}
    BY <1>4 DEF Acts
  <2>2. RestIsTrue(x)'
    BY <1>1, IdleHandler, RestStays
  <2> QED
    BY <1>2, <1>4, <2>1, <2>2 DEF Sound, Chooses, Shows
<1>5. handlers' \in [Slot -> Reads \cup Acts] /\ \E i \in Slot : Alone(i)' /\ Sound(handlers[i])'
  <2>1. CASE UNCHANGED handlers
    <3>1. PICK i \in Slot : Alone(i) /\ handlers[i] = Idle
      BY TheHandler, AllFree
    <3>2. Sound(Idle)'
      BY <1>4, IdleHandler DEF Works
    <3> QED
      BY <1>1, <2>1, <3>1, <3>2 DEF MirrorTypeOK, Alone
  <2>2. ASSUME NEW x \in Acts, Spawn(x), x.kind # "idle", Works(x)', ~Modal'
        PROVE  handlers' \in [Slot -> Reads \cup Acts] /\ \E i \in Slot : Alone(i)' /\ Sound(handlers[i])'
    <3>1. PICK i \in Slot : Alone(i)' /\ handlers'[i] = x
      BY <1>1, <2>2, Spawns DEF MirrorTypeOK
    <3>2. handlers' \in [Slot -> Reads \cup Acts]
      BY <1>1, <2>2, Spawns DEF MirrorTypeOK
    <3>3. Sound(x)'
      BY <1>4, <2>2
    <3> QED
      BY <3>1, <3>2, <3>3
  <2> QED
    BY <2>1, <2>2
<1>6. MirrorTypeOK'
  BY <1>1, <1>2, <1>5 DEF MirrorTypeOK
<1> QED
  BY <1>3, <1>5, <1>6 DEF MirrorInv

----------------------------------------------------------------------------
(* The user.                                                               *)

\* A user who waits acts with nothing under way.
LEMMA ReadyIsQuiet ==
  ASSUME Patient, Ready
  PROVE  Free = Slot /\ confirm = None /\ conflict = None
BY DEF Ready, Waits, Quiet, Modal

\* The form that an active project fills is one.
LEMMA FilledTyped ==
  ASSUME MirrorTypeOK, NEW a, NEW list \in [Project -> Config \cup {None}]
  PROVE  Filled(a, list) \in [name : Project \cup {None}, tunnel : BOOLEAN]
BY DEF Filled, MirrorTypeOK, Config

\* The way to a start asks, or begins a handler.
LEMMA Begins ==
  ASSUME NEW p \in Project, NEW force \in BOOLEAN, Begin(p, force), confirm = None, conflict = None,
         conflict' = conflict
  PROVE  /\ confirm' \in [kind : {"start", "delete"}, id : Project] \cup {None}
         /\ \/ UNCHANGED handlers
            \/ \E x \in Acts : Spawn(x) /\ x.kind # "idle" /\ Works(x)' /\ ~Modal'
<1>1. CASE projects[p].tunnel /\ ~force
  BY <1>1 DEF Begin
<1>2. CASE ~(projects[p].tunnel /\ ~force)
  <2> DEFINE x == Start(p, FALSE, None)
  <2>1. Spawn(x) /\ confirm' = None
    BY <1>2 DEF Begin
  <2>2. x \in Acts /\ x.kind = "check" /\ x.id = p
    BY DEF Start, Idle, Acts
  <2> HIDE DEF x
  <2>3. x.kind # "idle" /\ Works(x)' /\ ~Modal'
    BY <2>1, <2>2 DEF Works, Modal
  <2> QED
    BY <2>1, <2>2, <2>3
<1> QED
  BY <1>1, <1>2

\* A selection, a new form and an edit change the form and the active project.
LEMMA FormHolds ==
  ASSUME ProjectMirrorAssumption, Patient, MirrorInv,
         \/ \E p \in Project : Select(p)
         \/ ResetForm \/ CloseCreate
         \/ \E f \in [name : Project, tunnel : BOOLEAN] : EditForm(f)
  PROVE  MirrorInv'
<1>1. MirrorTypeOK
  BY TheHandler
<1>2. Free = Slot /\ confirm = None /\ conflict = None
  BY ReadyIsQuiet DEF Select, ResetForm, CloseCreate, EditForm
<1>3. UNCHANGED <<registry, running, events, projects, states, confirm, conflict, handlers>>
  BY DEF Select, ResetForm, CloseCreate, EditForm
<1>4. active' \in {active, None, Create} \cup {p \in Project : projects[p] # None}
  BY DEF Select, ResetForm, CloseCreate, EditForm
<1>5. form' \in [name : Project \cup {None}, tunnel : BOOLEAN]
  <2>1. projects \in [Project -> Config \cup {None}] /\ form \in [name : Project \cup {None}, tunnel : BOOLEAN]
    BY <1>1 DEF MirrorTypeOK
  <2>2. ASSUME NEW p \in Project, Select(p)
        PROVE  form' \in [name : Project \cup {None}, tunnel : BOOLEAN]
    BY <1>1, <2>1, <2>2, FilledTyped DEF Select
  <2>3. /\ [name : Project, tunnel : BOOLEAN] \subseteq [name : Project \cup {None}, tunnel : BOOLEAN]
        /\ [name |-> None, tunnel |-> FALSE] \in [name : Project \cup {None}, tunnel : BOOLEAN]
    OBVIOUS
  <2>4. ASSUME NEW f \in [name : Project, tunnel : BOOLEAN], EditForm(f)
        PROVE  form' \in [name : Project \cup {None}, tunnel : BOOLEAN]
    BY <2>3, <2>4 DEF EditForm
  <2>5. CASE ResetForm \/ CloseCreate
    BY <2>1, <2>3, <2>5 DEF ResetForm, CloseCreate
  <2> QED
    BY <2>2, <2>4, <2>5
<1> QED
  BY <1>2, <1>3, <1>4, <1>5, UserHolds

\* Run and Start begin a start or ask about the tunnel.
LEMMA StartHolds ==
  ASSUME ProjectMirrorAssumption, Patient, MirrorInv,
         HeaderStart \/ \E p \in Project, selects \in BOOLEAN : RunProject(p, selects)
  PROVE  MirrorInv'
<1>1. MirrorTypeOK /\ projects \in [Project -> Config \cup {None}]
      /\ form \in [name : Project \cup {None}, tunnel : BOOLEAN]
  BY TheHandler DEF MirrorTypeOK
<1>2. Free = Slot /\ confirm = None /\ conflict = None
  BY ReadyIsQuiet DEF HeaderStart, RunProject
<1>3. UNCHANGED <<registry, running, events, projects, states, conflict>>
  BY DEF HeaderStart, RunProject
<1>4. active' \in {active, None, Create} \cup {p \in Project : projects[p] # None}
  BY DEF HeaderStart, RunProject
<1>5. form' \in [name : Project \cup {None}, tunnel : BOOLEAN]
  <2>1. \A p \in Project : Filled(p, projects) \in [name : Project \cup {None}, tunnel : BOOLEAN]
    BY <1>1, FilledTyped
  <2>2. form' = form \/ \E p \in Project : form' = Filled(p, projects)
    BY DEF HeaderStart, RunProject
  <2> QED
    BY <1>1, <2>1, <2>2
<1>6. \E p \in Project, force \in BOOLEAN : Begin(p, force)
  BY DEF HeaderStart, RunProject
<1>7. /\ confirm' \in [kind : {"start", "delete"}, id : Project] \cup {None}
      /\ \/ UNCHANGED handlers
         \/ \E x \in Acts : Spawn(x) /\ x.kind # "idle" /\ Works(x)' /\ ~Modal'
  BY <1>2, <1>3, <1>6, Begins
<1> QED
  BY <1>2, <1>3, <1>4, <1>5, <1>7, UserHolds

\* Stop and Save begin a handler.
LEMMA StopOrSaveHolds ==
  ASSUME ProjectMirrorAssumption, Patient, MirrorInv, Save \/ \E p \in Project : Stop(p)
  PROVE  MirrorInv'
<1>1. form \in [name : Project \cup {None}, tunnel : BOOLEAN]
  BY TheHandler DEF MirrorTypeOK
<1>2. Free = Slot /\ confirm = None /\ conflict = None
  BY ReadyIsQuiet DEF Save, Stop
<1>3. UNCHANGED <<registry, running, events, projects, states, active, form, confirm, conflict>>
  BY DEF Save, Stop
<1>4. \E x \in Acts : Spawn(x) /\ x.kind # "idle" /\ Works(x)' /\ ~Modal'
  <2>1. ASSUME NEW p \in Project, Stop(p)
        PROVE  \E x \in Acts : Spawn(x) /\ x.kind # "idle" /\ Works(x)' /\ ~Modal'
    <3> DEFINE x == [Idle EXCEPT !.kind = "stop", !.id = p]
    <3>1. Spawn(x)
      BY <2>1 DEF Stop
    <3>2. x \in Acts /\ x.kind = "stop" /\ x.id = p
      BY DEF Idle, Acts
    <3> HIDE DEF x
    <3>3. Works(x)' /\ ~Modal'
      BY <1>2, <1>3, <3>2 DEF Works, Modal
    <3> QED
      BY <3>1, <3>2, <3>3
  <2>2. ASSUME Save
        PROVE  \E x \in Acts : Spawn(x) /\ x.kind # "idle" /\ Works(x)' /\ ~Modal'
    <3>1. PICK p \in Project : p = IF active \in Project THEN active ELSE form.name
      BY <1>1, <2>2 DEF Save
    <3>2. PICK c \in Config : c = [tunnel |-> form.tunnel]
      BY <1>1 DEF Config
    <3> DEFINE x == [Idle EXCEPT !.kind = "register", !.id = p, !.ans = c]
    <3>3. Spawn(x)
      BY <2>2, <3>1, <3>2 DEF Save
    <3>4. x \in Acts /\ x.kind = "register" /\ x.id = p /\ x.ans = c
      BY DEF Idle, Acts
    <3> HIDE DEF x
    <3>5. Works(x)' /\ ~Modal'
      BY <1>2, <1>3, <3>4 DEF Works, Modal
    <3> QED
      BY <3>3, <3>4, <3>5
  <2> QED
    BY <2>1, <2>2
<1> QED
  BY <1>1, <1>2, <1>3, <1>4, UserHolds

\* A dialog is open only while no handler is under way, and one at a time.
LEMMA DialogIsQuiet ==
  ASSUME MirrorInv, Modal
  PROVE  Free = Slot /\ (confirm = None \/ conflict = None)
<1>1. PICK i \in Slot : Alone(i) /\ Sound(handlers[i])
  BY TheHandler
<1>2. handlers[i] = Idle
  BY <1>1 DEF Sound
<1> QED
  BY <1>1, <1>2, AllFree, TheHandler

\* Delete asks.
LEMMA DeleteHolds ==
  ASSUME ProjectMirrorAssumption, Patient, MirrorInv, NEW p \in Project, Delete(p)
  PROVE  MirrorInv'
<1>1. form \in [name : Project \cup {None}, tunnel : BOOLEAN]
  BY TheHandler DEF MirrorTypeOK
<1>2. Free = Slot /\ confirm = None /\ conflict = None
  BY ReadyIsQuiet DEF Delete
<1>3. UNCHANGED <<registry, running, events, projects, states, active, form, conflict, handlers>>
  BY DEF Delete
<1>4. confirm' \in [kind : {"start", "delete"}, id : Project]
  BY DEF Delete
<1> QED
  BY <1>1, <1>2, <1>3, <1>4, UserHolds

\* The answer to a question begins what was asked about, or nothing.
LEMMA AnswerHolds ==
  ASSUME ProjectMirrorAssumption, MirrorInv, NEW yes \in BOOLEAN, Answer(yes)
  PROVE  MirrorInv'
<1>1. /\ form \in [name : Project \cup {None}, tunnel : BOOLEAN]
      /\ confirm \in [kind : {"start", "delete"}, id : Project] /\ active \in {None, Create} \cup Project
  BY TheHandler DEF MirrorTypeOK, Answer
<1>2. Free = Slot /\ conflict = None
  BY DialogIsQuiet DEF Answer, Modal
<1>3. UNCHANGED <<registry, running, events, projects, states, active, form, conflict>> /\ confirm' = None
  BY DEF Answer
<1>4. UNCHANGED handlers \/ \E x \in Acts : Spawn(x) /\ x.kind # "idle" /\ Works(x)' /\ ~Modal'
  <2>1. CASE ~yes
    BY <2>1 DEF Answer
  <2>2. CASE yes /\ confirm.kind = "start"
    <3>1. PICK p \in Project : p = confirm.id
      BY <1>1
    <3> DEFINE x == Start(p, TRUE, None)
    <3>2. Spawn(x)
      BY <2>2, <3>1 DEF Answer
    <3>3. x \in Acts /\ x.kind = "check" /\ x.id = p
      BY DEF Start, Idle, Acts
    <3> HIDE DEF x
    <3>4. Works(x)' /\ ~Modal'
      BY <1>2, <1>3, <3>3 DEF Works, Modal
    <3> QED
      BY <3>2, <3>3, <3>4
  <2>3. CASE yes /\ confirm.kind # "start"
    <3>1. PICK p \in Project : p = confirm.id
      BY <1>1
    <3>2. PICK a \in {None, Create} \cup Project : a = active
      BY <1>1
    <3> DEFINE x == [Idle EXCEPT !.kind = "deregister", !.id = p, !.of = a]
    <3>3. Spawn(x)
      BY <2>3, <3>1, <3>2 DEF Answer
    <3>4. x \in Acts /\ x.kind = "deregister" /\ x.id = p /\ x.of = a
      BY DEF Idle, Acts
    <3> HIDE DEF x
    <3>5. Works(x)' /\ ~Modal'
      BY <1>2, <1>3, <3>2, <3>4 DEF Works, Modal
    <3> QED
      BY <3>3, <3>4, <3>5
  <2> QED
    BY <2>1, <2>2, <2>3
<1> QED
  BY <1>1, <1>2, <1>3, <1>4, UserHolds

\* The dialog of the conflict closes, or kills who holds the port.
LEMMA ConflictHolds ==
  ASSUME ProjectMirrorAssumption, MirrorInv, ForceKillAndStart \/ CloseConflict
  PROVE  MirrorInv'
<1>1. /\ form \in [name : Project \cup {None}, tunnel : BOOLEAN]
      /\ conflict \in [id : Project, ok : BOOLEAN]
  BY TheHandler DEF MirrorTypeOK, ForceKillAndStart, CloseConflict
<1>2. Free = Slot /\ confirm = None
  BY DialogIsQuiet DEF ForceKillAndStart, CloseConflict, Modal
<1>3. UNCHANGED <<registry, running, events, projects, states, active, form, confirm>>
  BY DEF ForceKillAndStart, CloseConflict
<1>4. conflict' \in {conflict, None}
  BY DEF ForceKillAndStart, CloseConflict
<1>5. UNCHANGED handlers \/ \E x \in Acts : Spawn(x) /\ x.kind # "idle" /\ Works(x)' /\ ~Modal'
  <2>1. CASE UNCHANGED handlers
    BY <2>1
  <2>2. CASE ForceKillAndStart /\ active \in Project
    <3>1. PICK p \in Project : p = active
      BY <2>2
    <3>2. PICK ok \in BOOLEAN : ok = conflict.ok
      BY <1>1
    <3>3. PICK q \in Project : q = conflict.id
      BY <1>1
    <3> DEFINE x == [Start(p, ok, q) EXCEPT !.kind = "kill"]
    <3>4. Spawn(x) /\ conflict' = None
      BY <2>2, <3>1, <3>2, <3>3 DEF ForceKillAndStart
    <3>5. x \in Acts /\ x.kind = "kill" /\ x.id = p
      BY DEF Start, Idle, Acts
    <3> HIDE DEF x
    <3>6. Works(x)' /\ ~Modal'
      BY <1>2, <1>3, <3>4, <3>5 DEF Works, Modal
    <3> QED
      BY <3>4, <3>5, <3>6
  <2> QED
    BY <2>1, <2>2 DEF ForceKillAndStart, CloseConflict
<1> QED
  BY <1>1, <1>2, <1>3, <1>4, <1>5, UserHolds

----------------------------------------------------------------------------
(* Runs and events.                                                        *)

\* A run ends while no handler is under way.
LEMMA ExitHolds ==
  ASSUME ProjectMirrorAssumption, Patient, MirrorInv, NEW p \in Project, Exit(p)
  PROVE  MirrorInv'
<1>1. /\ MirrorTypeOK /\ LastIsTrue /\ (confirm = None \/ conflict = None) /\ Free = Slot
      /\ UNCHANGED <<registry, projects, states, active, form, confirm, conflict, handlers>>
  BY TheHandler DEF Exit
<1>2. /\ running' \in [Project -> BOOLEAN] /\ events' \in Seq([id : Project, on : BOOLEAN])
      /\ LastIsTrue'
      /\ \A q \in Project : Silent(events', q) => Silent(events, q) /\ running'[q] = running[q]
  BY <1>1, BecomesTrue DEF Exit
<1>3. MirrorTypeOK'
  BY <1>1, <1>2 DEF MirrorTypeOK
<1>4. RestIsTrue(Idle)'
  BY <1>1, <1>2, NothingUnderWay, RestStays
<1>5. Sound(Idle)'
  BY <1>1, <1>4, IdleHandler, NothingUnderWay DEF Sound, Works, Chooses, Shows
<1>6. \E i \in Slot : Alone(i)' /\ handlers'[i] = Idle
  BY <1>1, TheHandler, AllFree DEF Alone
<1>7. \E i \in Slot : Alone(i)' /\ Sound(handlers[i])'
  BY <1>5, <1>6
<1> QED
  BY <1>1, <1>2, <1>3, <1>7 DEF MirrorInv

\* An event that is heard is what its project does, unless another follows.
LEMMA HearStatusHolds ==
  ASSUME ProjectMirrorAssumption, MirrorInv, HearStatus
  PROVE  MirrorInv'
<1>1. /\ MirrorTypeOK /\ LastIsTrue /\ (confirm = None \/ conflict = None)
      /\ UNCHANGED <<registry, running, projects, active, form, confirm, conflict, handlers>>
      /\ events # <<>> /\ events' = Tail(events)
      /\ states' = [states EXCEPT ![Head(events).id] = Head(events).on]
  BY TheHandler DEF HearStatus
<1>2. events \in Seq([id : Project, on : BOOLEAN]) /\ running \in [Project -> BOOLEAN]
      /\ states \in [Project -> BOOLEAN]
  BY <1>1 DEF MirrorTypeOK
<1>3. LastSays(events, running)
  BY <1>1 DEF LastIsTrue, LastSays
<1>4. /\ events' \in Seq([id : Project, on : BOOLEAN]) /\ Head(events) \in [id : Project, on : BOOLEAN]
      /\ LastSays(events', running)
      /\ \A q \in Project : Silent(events', q)
           => IF Head(events).id = q THEN Head(events).on = running[q] ELSE Silent(events, q)
  BY <1>1, <1>2, <1>3, NewsOfTail
<1>5. LastIsTrue'
  BY <1>1, <1>4 DEF LastIsTrue, LastSays
<1>6. states' \in [Project -> BOOLEAN]
      /\ \A q \in Project : states'[q] = IF q = Head(events).id THEN Head(events).on ELSE states[q]
  BY <1>1, <1>2, <1>4
<1>7. MirrorTypeOK'
  BY <1>1, <1>4, <1>6 DEF MirrorTypeOK
<1>8. PICK i \in Slot : Alone(i) /\ Sound(handlers[i])
  BY TheHandler
<1>9. PICK h : h = handlers[i]
  OBVIOUS
<1>10. RestIsTrue(h)'
  <2> SUFFICES ASSUME NEW q \in Project, Silent(events', q), projects[q] # None, h.kind # "list",
                      ~(h.kind = "states" /\ q \in h.todo)
               PROVE  states'[q] = running[q]
    BY <1>1 DEF RestIsTrue, Silent
  <2>1. RestIsTrue(h)
    BY <1>8, <1>9 DEF Sound
  <2>2. Silent(events, q) => states[q] = running[q]
    BY <2>1 DEF RestIsTrue, Silent
  <2> QED
    BY <1>4, <1>6, <2>2
<1>11. Works(h)' /\ Chooses(h)' /\ Shows(h)' /\ (Modal' => h = Idle)
  BY <1>1, <1>8, <1>9 DEF Sound, Works, Chooses, Shows, Modal
<1>12. Alone(i)' /\ Sound(handlers[i])'
  BY <1>1, <1>8, <1>9, <1>10, <1>11 DEF Alone, Sound
<1> QED
  BY <1>1, <1>5, <1>7, <1>12 DEF MirrorInv

----------------------------------------------------------------------------
(* The handlers.                                                           *)

\* A handler at work is the only one, and no dialog is open.
LEMMA AtWork ==
  ASSUME MirrorInv, NEW k \in Slot, handlers[k].kind # "idle"
  PROVE  /\ MirrorTypeOK /\ LastIsTrue /\ confirm = None /\ conflict = None
         /\ Alone(k) /\ Sound(handlers[k]) /\ handlers[k] \in Reads \cup Acts
<1>1. PICK i \in Slot : Alone(i) /\ Sound(handlers[i])
  BY TheHandler
<1>2. i = k
  BY <1>1, IdleHandler DEF Alone
<1>3. ~Modal
  BY <1>1, <1>2, IdleHandler DEF Sound
<1> QED
  BY <1>1, <1>2, <1>3, TheHandler DEF Modal, MirrorTypeOK

\* What a handler leaves true when it becomes x.
LEMMA WorkHolds ==
  ASSUME NEW k \in Slot, handlers \in [Slot -> Reads \cup Acts], Alone(k), NEW x \in Reads \cup Acts,
         handlers' = [handlers EXCEPT ![k] = x], Sound(x)',
         handlers' \in [Slot -> Reads \cup Acts] => MirrorTypeOK',
         LastIsTrue', (confirm = None \/ conflict = None)'
  PROVE  MirrorInv'
<1>1. handlers' \in [Slot -> Reads \cup Acts] /\ Alone(k)' /\ handlers'[k] = x
  BY Resumes
<1> QED
  BY <1>1 DEF MirrorInv

\* Killing who holds the port, and looking at it.
LEMMA PortHolds ==
  ASSUME ProjectMirrorAssumption, MirrorInv, NEW k \in Slot, Kill(k) \/ CheckPort(k)
  PROVE  MirrorInv'
<1>1. handlers[k].kind \in {"kill", "check"}
  BY DEF Kill, CheckPort
<1>2. PICK h \in Acts : h = handlers[k]
  BY <1>1, AtWork DEF Reads
<1>3. /\ MirrorTypeOK /\ LastIsTrue /\ confirm = None /\ conflict = None
      /\ Alone(k) /\ Sound(h)
  BY <1>1, <1>2, AtWork
<1>4. UNCHANGED <<registry, running, events, projects, states, active, form, confirm>>
  BY DEF Kill, CheckPort
<1>5. /\ h.kind \in {"kill", "check"} /\ h.id \in Project /\ h.ok \in BOOLEAN
  BY <1>1, <1>2, <1>3 DEF Sound, Works, Idle, Acts
<1>6. \/ \E kind \in {"check", "start"} :
           handlers' = [handlers EXCEPT ![k] = [h EXCEPT !.kind = kind]] /\ conflict' = conflict
      \/ handlers' = [handlers EXCEPT ![k] = Idle] /\ conflict' = [id |-> h.id, ok |-> h.ok]
  BY <1>2 DEF Kill, CheckPort
<1>7. PICK x \in Acts : /\ handlers' = [handlers EXCEPT ![k] = x]
                        /\ \/ x = Idle /\ conflict' = [id |-> h.id, ok |-> h.ok]
                           \/ x.kind \in {"check", "start"} /\ x.id \in Project /\ conflict' = conflict
  <2>1. \A kind \in {"check", "start"} :
          LET x == [h EXCEPT !.kind = kind] IN x \in Acts /\ x.kind = kind /\ x.id = h.id
    BY DEF Acts
  <2> QED
    BY <1>5, <1>6, <2>1, IdleHandler
<1>8. x.kind \notin {"list", "states"} /\ conflict' \in [id : Project, ok : BOOLEAN] \cup {None}
  BY <1>3, <1>5, <1>7 DEF Acts
<1>9. Sound(x)'
  <2>1. Works(x)' /\ (Modal' => x = Idle)
    BY <1>3, <1>4, <1>7 DEF Works, Modal
  <2>2. RestIsTrue(x)'
    <3>1. RestIsTrue(h)
      BY <1>3 DEF Sound
    <3> QED
      BY <1>4, <1>5, <3>1 DEF RestIsTrue
  <2>3. Chooses(x)' /\ Shows(x)'
    BY <1>3, <1>4, <1>5, <1>8 DEF Sound, Chooses, Shows
  <2> QED
    BY <2>1, <2>2, <2>3 DEF Sound
<1>10. LastIsTrue'
  BY <1>3, <1>4 DEF LastIsTrue
<1>11. handlers' \in [Slot -> Reads \cup Acts] => MirrorTypeOK'
  BY <1>3, <1>4, <1>8 DEF MirrorTypeOK
<1>12. handlers \in [Slot -> Reads \cup Acts] /\ (confirm = None \/ conflict = None)'
  BY <1>3, <1>4 DEF MirrorTypeOK
<1> QED
  BY <1>3, <1>7, <1>9, <1>10, <1>11, <1>12, WorkHolds

\* The backend starts or ends a run.
LEMMA StartOrStopHolds ==
  ASSUME ProjectMirrorAssumption, MirrorInv, NEW k \in Slot, StartOrStop(k)
  PROVE  MirrorInv'
<1>1. handlers[k].kind \in {"start", "stop"}
  BY DEF StartOrStop
<1>2. PICK h \in Acts : h = handlers[k]
  BY <1>1, AtWork DEF Reads
<1>3. /\ MirrorTypeOK /\ LastIsTrue /\ confirm = None /\ conflict = None
      /\ Alone(k) /\ Sound(h)
  BY <1>1, <1>2, AtWork
<1>4. h.kind \in {"start", "stop"} /\ h.id \in Project
  BY <1>1, <1>2, <1>3 DEF Sound, Works, Idle
<1>5. /\ UNCHANGED <<registry, projects, states, active, form, confirm, conflict>>
      /\ handlers' = [handlers EXCEPT ![k] = Idle]
      /\ (\E on \in BOOLEAN : Becomes(h.id, on)) \/ UNCHANGED <<running, events>>
  BY <1>2 DEF StartOrStop
<1>6. /\ running' \in [Project -> BOOLEAN] /\ events' \in Seq([id : Project, on : BOOLEAN])
      /\ LastIsTrue'
      /\ \A q \in Project : Silent(events', q) => Silent(events, q) /\ running'[q] = running[q]
  <2>1. CASE \E on \in BOOLEAN : Becomes(h.id, on)
    BY <1>3, <1>4, <2>1, BecomesTrue
  <2>2. CASE UNCHANGED <<running, events>>
    BY <1>3, <2>2 DEF MirrorTypeOK, LastIsTrue
  <2> QED
    BY <1>5, <2>1, <2>2
<1>7. Sound(Idle)'
  <2>1. RestIsTrue(h) /\ Shows(h)
    BY <1>3 DEF Sound
  <2>2. RestIsTrue(Idle)'
    BY <1>4, <1>5, <1>6, <2>1, RestStays
  <2> QED
    BY <1>4, <1>5, <2>1, <2>2, IdleHandler DEF Sound, Works, Chooses, Shows
<1>8. handlers' \in [Slot -> Reads \cup Acts] => MirrorTypeOK'
  BY <1>3, <1>5, <1>6 DEF MirrorTypeOK
<1>9. handlers \in [Slot -> Reads \cup Acts] /\ (confirm = None \/ conflict = None)'
  BY <1>3, <1>5 DEF MirrorTypeOK
<1> QED
  BY <1>3, <1>5, <1>6, <1>7, <1>8, <1>9, IdleHandler, WorkHolds

\* A change of the registry is followed by a load, of which nothing is shown yet.
LEMMA LoadsAnew ==
  ASSUME ProjectMirrorAssumption, MirrorTypeOK, confirm = None, conflict = None,
         NEW k \in Slot, Alone(k), NEW x \in Reads,
         handlers' = [handlers EXCEPT ![k] = x],
         x.kind = "list", x.ans = None, x.of # None,
         x.of.then = "select" => registry'[x.of.id] # None,
         x.of.then = "keep" /\ active \in Project => registry'[active] # None,
         UNCHANGED <<projects, states, active, form, confirm, conflict>>,
         registry' \in [Project -> Config \cup {None}],
         running' \in [Project -> BOOLEAN], events' \in Seq([id : Project, on : BOOLEAN]),
         LastIsTrue'
  PROVE  MirrorInv'
<1>1. Sound(x)'
  <2>1. ~Modal'
    BY DEF Modal
  <2>2. Works(x)' /\ Chooses(x)'
    BY DEF Works, Chooses
  <2>3. Shows(x)' /\ RestIsTrue(x)'
    BY DEF Shows, RestIsTrue
  <2> QED
    BY <2>1, <2>2, <2>3 DEF Sound
<1>2. handlers' \in [Slot -> Reads \cup Acts] => MirrorTypeOK'
  BY DEF MirrorTypeOK
<1>3. handlers \in [Slot -> Reads \cup Acts] /\ (confirm = None \/ conflict = None)'
  BY DEF MirrorTypeOK
<1> QED
  BY <1>1, <1>2, <1>3, WorkHolds

\* A project that was saved is the one the load selects.
LEMMA RegisterHolds ==
  ASSUME ProjectMirrorAssumption, MirrorInv, NEW k \in Slot, Register(k)
  PROVE  MirrorInv'
<1>1. handlers[k].kind = "register"
  BY DEF Register
<1>2. PICK h \in Acts : h = handlers[k]
  BY <1>1, AtWork DEF Reads
<1>3. /\ MirrorTypeOK /\ LastIsTrue /\ confirm = None /\ conflict = None
      /\ Alone(k) /\ Sound(h)
  BY <1>1, <1>2, AtWork
<1>4. h.id \in Project /\ h.ans \in Config
  BY <1>1, <1>2, <1>3 DEF Sound, Works, Idle
<1>5. PICK a \in {None, Create} \cup Project : a = active
  BY <1>3 DEF MirrorTypeOK
<1> DEFINE x == [Load([then |-> "select", id |-> h.id], FALSE) EXCEPT !.id = a]
<1>6. /\ UNCHANGED <<running, events, projects, states, active, form, confirm, conflict>>
      /\ handlers' = [handlers EXCEPT ![k] = x]
      /\ registry' = [registry EXCEPT ![h.id] = h.ans]
  BY <1>2, <1>5 DEF Register
<1>7. x \in Reads /\ x.kind = "list" /\ x.ans = None /\ x.of = [then |-> "select", id |-> h.id]
      /\ x.of \in Then
  BY <1>4 DEF Load, Idle, Reads, Then
<1> HIDE DEF x
<1>8. x.of # None /\ x.of.then = "select" /\ x.of.id = h.id
  BY <1>7, Constants
<1>9. registry' \in [Project -> Config \cup {None}] /\ registry'[h.id] = h.ans /\ h.ans # None
  BY <1>3, <1>4, <1>6, Constants DEF MirrorTypeOK
<1>10. LastIsTrue'
  BY <1>3, <1>6 DEF LastIsTrue
<1>11. running' \in [Project -> BOOLEAN] /\ events' \in Seq([id : Project, on : BOOLEAN])
  BY <1>3, <1>6 DEF MirrorTypeOK
<1> QED
  BY <1>3, <1>6, <1>7, <1>8, <1>9, <1>10, <1>11, LoadsAnew

\* A project that was deleted does not stay active.
LEMMA DeregisterHolds ==
  ASSUME ProjectMirrorAssumption, MirrorInv, NEW k \in Slot, Deregister(k)
  PROVE  MirrorInv'
<1>1. handlers[k].kind = "deregister"
  BY DEF Deregister
<1>2. PICK h \in Acts : h = handlers[k]
  BY <1>1, AtWork DEF Reads
<1>3. /\ MirrorTypeOK /\ LastIsTrue /\ confirm = None /\ conflict = None
      /\ Alone(k) /\ Sound(h)
  BY <1>1, <1>2, AtWork
<1>4. h.kind = "deregister" /\ h.id \in Project /\ h.of = active
      /\ h.of \in {None, Create} \cup Project
  BY <1>1, <1>2, <1>3 DEF Sound, Works, Idle, Acts
<1>5. PICK then \in {"clear", "keep"} : then = IF h.of = h.id THEN "clear" ELSE "keep"
  OBVIOUS
<1> DEFINE x == [Load([then |-> then, id |-> h.id], FALSE) EXCEPT !.id = h.of]
<1>6. /\ UNCHANGED <<projects, states, active, form, confirm, conflict>>
      /\ handlers' = [handlers EXCEPT ![k] = x]
      /\ registry' = [registry EXCEPT ![h.id] = None]
      /\ Becomes(h.id, FALSE)
  BY <1>2, <1>5 DEF Deregister
<1>7. x \in Reads /\ x.kind = "list" /\ x.ans = None /\ x.of = [then |-> then, id |-> h.id]
      /\ x.of \in Then
  BY <1>4 DEF Load, Idle, Reads, Then
<1> HIDE DEF x
<1>8. x.of # None /\ x.of.then = then
  BY <1>7, Constants
<1>9. registry' \in [Project -> Config \cup {None}]
  BY <1>3, <1>4, <1>6 DEF MirrorTypeOK
<1>10. x.of.then = "keep" /\ active \in Project => registry'[active] # None
  <2> SUFFICES ASSUME x.of.then = "keep", active \in Project
               PROVE  registry'[active] # None
    OBVIOUS
  <2>1. active # h.id
    BY <1>4, <1>5, <1>8
  <2>2. projects = registry /\ projects[active] # None
    BY <1>3, <1>4 DEF Sound, Shows
  <2> QED
    BY <1>3, <1>4, <1>6, <2>1, <2>2 DEF MirrorTypeOK
<1>11. /\ running' \in [Project -> BOOLEAN] /\ events' \in Seq([id : Project, on : BOOLEAN])
       /\ LastIsTrue'
  BY <1>3, <1>4, <1>6, BecomesTrue
<1>12. x.of.then # "select"
  BY <1>8
<1> QED
  BY <1>3, <1>6, <1>7, <1>8, <1>9, <1>10, <1>11, <1>12, LoadsAnew

\* A save or a deletion that fails leaves the list as it is, but the run is over.
LEMMA FailureHolds ==
  ASSUME ProjectMirrorAssumption, MirrorInv, NEW k \in Slot, RegisterFails(k) \/ DeregisterFails(k)
  PROVE  MirrorInv'
<1>1. handlers[k].kind \in {"register", "deregister"}
  BY DEF RegisterFails, DeregisterFails
<1>2. PICK h \in Acts : h = handlers[k]
  BY <1>1, AtWork DEF Reads
<1>3. /\ MirrorTypeOK /\ LastIsTrue /\ confirm = None /\ conflict = None
      /\ Alone(k) /\ Sound(h)
  BY <1>1, <1>2, AtWork
<1>4. h.kind \notin {"list", "states"} /\ h.id \in Project
  BY <1>1, <1>2, <1>3 DEF Sound, Works, Idle
<1>5. /\ UNCHANGED <<registry, projects, states, active, form, confirm, conflict>>
      /\ handlers' = [handlers EXCEPT ![k] = Idle]
      /\ UNCHANGED <<running, events>> \/ Becomes(h.id, FALSE)
  BY <1>2 DEF RegisterFails, DeregisterFails
<1>6. /\ running' \in [Project -> BOOLEAN] /\ events' \in Seq([id : Project, on : BOOLEAN])
      /\ LastIsTrue'
      /\ \A q \in Project : Silent(events', q) => Silent(events, q) /\ running'[q] = running[q]
  <2>1. CASE UNCHANGED <<running, events>>
    BY <1>3, <2>1 DEF MirrorTypeOK, LastIsTrue
  <2>2. CASE Becomes(h.id, FALSE)
    BY <1>3, <1>4, <2>2, BecomesTrue
  <2> QED
    BY <1>5, <2>1, <2>2
<1>7. Sound(Idle)'
  <2>1. RestIsTrue(h) /\ Shows(h)
    BY <1>3 DEF Sound
  <2>2. RestIsTrue(Idle)'
    BY <1>4, <1>5, <1>6, <2>1, RestStays
  <2>3. Works(Idle)' /\ Chooses(Idle)' /\ Shows(Idle)'
    BY <1>4, <1>5, <2>1, IdleHandler DEF Works, Chooses, Shows
  <2> QED
    BY <2>2, <2>3 DEF Sound
<1>8. handlers' \in [Slot -> Reads \cup Acts] => MirrorTypeOK'
  BY <1>3, <1>5, <1>6 DEF MirrorTypeOK
<1>9. handlers \in [Slot -> Reads \cup Acts] /\ (confirm = None \/ conflict = None)'
  BY <1>3, <1>5 DEF MirrorTypeOK
<1> QED
  BY <1>3, <1>5, <1>6, <1>7, <1>8, <1>9, IdleHandler, WorkHolds

\* An answer of the backend, taken while nothing else is under way.
LEMMA ReadHolds ==
  ASSUME ProjectMirrorAssumption, MirrorInv, NEW k \in Slot, Read(k)
  PROVE  MirrorInv'
<1>1. handlers[k].kind \in {"list", "states"}
  BY DEF Read
<1>2. PICK h \in Reads : h = handlers[k]
  BY <1>1, AtWork DEF Acts
<1>3. /\ MirrorTypeOK /\ LastIsTrue /\ confirm = None /\ conflict = None
      /\ Alone(k) /\ Sound(h)
  BY <1>1, <1>2, AtWork
<1>4. /\ UNCHANGED <<registry, running, events, projects, states, active, form, confirm, conflict>>
      /\ h.kind = "list" \/ (h.kind = "states" /\ h.todo # {})
  BY <1>2 DEF Read
<1>5. PICK ans \in [Project -> Config \cup {None}] \cup [on : BOOLEAN] :
        /\ handlers' = [handlers EXCEPT ![k] = [h EXCEPT !.ans = ans]]
        /\ ans = IF h.kind = "list" THEN registry ELSE [on |-> running[First(h.todo)]]
  <2>1. handlers' = [handlers EXCEPT ![k] =
           [h EXCEPT !.ans = IF h.kind = "list" THEN registry ELSE [on |-> running[First(h.todo)]]]]
    BY <1>2 DEF Read
  <2>2. CASE h.kind = "list"
    BY <1>3, <2>1, <2>2 DEF MirrorTypeOK
  <2>3. CASE h.kind = "states" /\ h.todo # {}
    <3>1. h.todo \subseteq Project /\ h.todo # {}
      BY <2>3 DEF Reads
    <3>2. First(h.todo) \in Project
      BY <3>1, Constants, FirstIsOne
    <3>3. [on |-> running[First(h.todo)]] \in [on : BOOLEAN]
      BY <1>3, <3>2 DEF MirrorTypeOK
    <3> QED
      BY <2>1, <2>3, <3>3
  <2> QED
    BY <1>4, <2>2, <2>3
<1> DEFINE x == [h EXCEPT !.ans = ans]
<1>6. /\ x \in Reads /\ x.kind = h.kind /\ x.id = h.id /\ x.todo = h.todo /\ x.of = h.of /\ x.ans = ans
      /\ handlers' = [handlers EXCEPT ![k] = x]
  BY <1>5 DEF Reads
<1> HIDE DEF x
<1>7. Sound(x)'
  <2>1. RestIsTrue(h) /\ Chooses(h) /\ Shows(h) /\ Works(h)
    BY <1>3 DEF Sound
  <2>2. RestIsTrue(x)' /\ Chooses(x)' /\ Shows(x)'
    BY <1>4, <1>6, <2>1 DEF RestIsTrue, Chooses, Shows
  <2>3. Works(x)'
    BY <1>4, <1>5, <1>6, <2>1, IdleHandler DEF Works
  <2>4. ~Modal'
    BY <1>3, <1>4 DEF Modal
  <2> QED
    BY <2>2, <2>3, <2>4 DEF Sound
<1>8. LastIsTrue'
  BY <1>3, <1>4 DEF LastIsTrue
<1>9. handlers' \in [Slot -> Reads \cup Acts] => MirrorTypeOK'
  BY <1>3, <1>4 DEF MirrorTypeOK
<1>10. handlers \in [Slot -> Reads \cup Acts] /\ (confirm = None \/ conflict = None)'
  BY <1>3, <1>4 DEF MirrorTypeOK
<1> QED
  BY <1>3, <1>6, <1>7, <1>8, <1>9, <1>10, WorkHolds

\* The list is shown, and the state of each of its projects is to be read.
LEMMA ListedHolds ==
  ASSUME ProjectMirrorAssumption, MirrorInv, NEW k \in Slot, Listed(k)
  PROVE  MirrorInv'
<1>1. handlers[k].kind = "list" /\ handlers[k].ans # None
  BY DEF Listed
<1>2. PICK h \in Reads : h = handlers[k]
  BY <1>1, AtWork DEF Acts
<1>3. /\ MirrorTypeOK /\ LastIsTrue /\ confirm = None /\ conflict = None
      /\ Alone(k) /\ Sound(h)
  BY <1>1, <1>2, AtWork
<1>4. h.kind = "list" /\ h.ans = registry /\ registry \in [Project -> Config \cup {None}]
  BY <1>1, <1>2, <1>3, IdleHandler DEF Sound, Works, MirrorTypeOK
<1>5. PICK todo \in SUBSET Project : todo = {p \in Project : h.ans[p] # None}
  OBVIOUS
<1> DEFINE x == [h EXCEPT !.kind = "states", !.ans = None, !.todo = todo]
<1>6. /\ UNCHANGED <<registry, running, events, states, active, confirm, conflict>>
      /\ projects' = registry /\ form' = Filled(active, registry)
      /\ handlers' = [handlers EXCEPT ![k] = x]
  BY <1>2, <1>4, <1>5 DEF Listed
<1>7. x \in Reads /\ x.kind = "states" /\ x.ans = None /\ x.todo = todo /\ x.of = h.of
  BY DEF Reads
<1> HIDE DEF x
<1>8. Sound(x)'
  <2>1. Chooses(h)
    BY <1>3 DEF Sound
  <2>2. Works(x)' /\ Chooses(x)' /\ Shows(x)'
    BY <1>4, <1>5, <1>6, <1>7, <2>1 DEF Works, Chooses, Shows
  <2>3. RestIsTrue(x)'
    BY <1>4, <1>5, <1>6, <1>7 DEF RestIsTrue
  <2>4. ~Modal'
    BY <1>3, <1>6 DEF Modal
  <2> QED
    BY <2>2, <2>3, <2>4 DEF Sound
<1>9. LastIsTrue'
  BY <1>3, <1>6 DEF LastIsTrue
<1>10. form' \in [name : Project \cup {None}, tunnel : BOOLEAN]
  BY <1>3, <1>4, <1>6, FilledTyped
<1>11. handlers' \in [Slot -> Reads \cup Acts] => MirrorTypeOK'
  BY <1>3, <1>4, <1>6, <1>10 DEF MirrorTypeOK
<1>12. handlers \in [Slot -> Reads \cup Acts] /\ (confirm = None \/ conflict = None)'
  BY <1>3, <1>6 DEF MirrorTypeOK
<1> QED
  BY <1>3, <1>6, <1>7, <1>8, <1>9, <1>11, <1>12, WorkHolds

\* A state that was read is the one shown, and one less is to be read.
LEMMA StatedHolds ==
  ASSUME ProjectMirrorAssumption, MirrorInv, NEW k \in Slot, Stated(k)
  PROVE  MirrorInv'
<1>1. handlers[k].kind = "states" /\ handlers[k].ans # None
  BY DEF Stated
<1>2. PICK h \in Reads : h = handlers[k]
  BY <1>1, AtWork DEF Acts
<1>3. /\ MirrorTypeOK /\ LastIsTrue /\ confirm = None /\ conflict = None
      /\ Alone(k) /\ Sound(h)
  BY <1>1, <1>2, AtWork
<1>4. /\ h.kind = "states" /\ h.todo # {} /\ h.ans = [on |-> running[First(h.todo)]]
      /\ h.todo \subseteq {p \in Project : projects[p] # None}
  BY <1>1, <1>2, <1>3, IdleHandler DEF Sound, Works
<1>5. PICK p \in Project : p = First(h.todo)
  BY <1>4, Constants, FirstIsOne
<1>6. h.ans = [on |-> running[p]]
  BY <1>4, <1>5
<1> DEFINE x == [h EXCEPT !.ans = None, !.todo = h.todo \ {p}]
<1>7. /\ UNCHANGED <<registry, running, events, projects, active, form, confirm, conflict>>
      /\ states' = [states EXCEPT ![p] = running[p]]
      /\ handlers' = [handlers EXCEPT ![k] = x]
  <2>1. /\ UNCHANGED <<registry, running, events, projects, active, form, confirm, conflict>>
        /\ states' = [states EXCEPT ![p] = running[p]]
    BY <1>2, <1>5, <1>6 DEF Stated
  <2>2. handlers' = [handlers EXCEPT ![k].ans = None, ![k].todo = @ \ {p}]
    BY <1>2, <1>5 DEF Stated
  <2>3. handlers \in [Slot -> Reads \cup Acts] /\ handlers[k] = h
    BY <1>2, <1>3 DEF MirrorTypeOK
  <2>4. handlers' = [handlers EXCEPT ![k] = x]
    BY <2>2, <2>3 DEF Reads
  <2> QED
    BY <2>1, <2>4
<1>8. x \in Reads /\ x.kind = "states" /\ x.ans = None /\ x.todo = h.todo \ {p} /\ x.of = h.of
  BY <1>4 DEF Reads
<1> HIDE DEF x
<1>9. /\ running \in [Project -> BOOLEAN] /\ states' \in [Project -> BOOLEAN]
      /\ \A q \in Project : states'[q] = IF q = p THEN running[p] ELSE states[q]
  BY <1>3, <1>7 DEF MirrorTypeOK
<1>10. Sound(x)'
  <2>1. RestIsTrue(h) /\ Chooses(h) /\ Shows(h)
    BY <1>3 DEF Sound
  <2>2. Works(x)' /\ Chooses(x)' /\ Shows(x)'
    BY <1>4, <1>7, <1>8, <2>1 DEF Works, Chooses, Shows
  <2>3. RestIsTrue(x)'
    BY <1>4, <1>7, <1>8, <1>9, <2>1 DEF RestIsTrue
  <2>4. ~Modal'
    BY <1>3, <1>7 DEF Modal
  <2> QED
    BY <2>2, <2>3, <2>4 DEF Sound
<1>11. LastIsTrue'
  BY <1>3, <1>7 DEF LastIsTrue
<1>12. handlers' \in [Slot -> Reads \cup Acts] => MirrorTypeOK'
  BY <1>3, <1>7, <1>9 DEF MirrorTypeOK
<1>13. handlers \in [Slot -> Reads \cup Acts] /\ (confirm = None \/ conflict = None)'
  BY <1>3, <1>7 DEF MirrorTypeOK
<1> QED
  BY <1>3, <1>7, <1>8, <1>10, <1>11, <1>12, <1>13, WorkHolds

\* At the end of a load the active project is one of the list.
LEMMA LoadEndsHolds ==
  ASSUME ProjectMirrorAssumption, MirrorInv, NEW k \in Slot, LoadEnds(k)
  PROVE  MirrorInv'
<1>1. handlers[k].kind = "states"
  BY DEF LoadEnds
<1>2. PICK h \in Reads : h = handlers[k]
  BY <1>1, AtWork DEF Acts
<1>3. /\ MirrorTypeOK /\ LastIsTrue /\ confirm = None /\ conflict = None
      /\ Alone(k) /\ Sound(h)
  BY <1>1, <1>2, AtWork
<1> DEFINE all == {p \in Project : projects[p] # None}
           a == IF h.id = None /\ all # {} THEN First(all) ELSE active
<1>4. /\ UNCHANGED <<registry, running, events, projects, states, confirm, conflict>>
      /\ h.kind = "states" /\ h.todo = {}
      /\ active' = IF h.of = None \/ h.of.then = "keep" THEN a
                   ELSE IF h.of.then = "clear" THEN None ELSE h.of.id
      /\ form' = IF active' = active THEN form ELSE Filled(active', projects)
      /\ handlers' = [handlers EXCEPT ![k] = Idle]
  BY <1>2 DEF LoadEnds
<1>5. /\ projects = registry /\ Chooses(h) /\ RestIsTrue(h) /\ h.of \in {None} \cup Then
      /\ active \in Project \cup {None, Create}
  BY <1>3, <1>4 DEF Sound, Shows, MirrorTypeOK, Reads
<1>6. all # {} => First(all) \in all
  BY Constants, FirstIsOne
<1>7. active' \in Project \cup {None, Create} /\ (active' \in Project => projects[active'] # None)
  <2>1. a = active \/ a \in all
    BY <1>6
  <2>2. h.of # None => h.of.then \in {"select", "clear", "keep"} /\ h.of.id \in Project
    BY <1>5 DEF Then
  <2> HIDE DEF a
  <2>3. CASE h.of = None
    BY <1>4, <1>5, <2>1, <2>3 DEF Chooses
  <2>4. CASE h.of # None /\ h.of.then = "keep"
    BY <1>4, <1>5, <2>1, <2>4 DEF Chooses
  <2>5. CASE h.of # None /\ h.of.then = "clear"
    BY <1>4, <2>5, Constants
  <2>6. CASE h.of # None /\ h.of.then = "select"
    BY <1>4, <1>5, <2>2, <2>6 DEF Chooses
  <2> QED
    BY <2>2, <2>3, <2>4, <2>5, <2>6
<1> HIDE DEF all, a
<1>8. Sound(Idle)'
  <2>1. RestIsTrue(Idle)'
    BY <1>4, <1>5, IdleHandler DEF RestIsTrue
  <2> QED
    BY <1>3, <1>4, <1>5, <1>7, <2>1, IdleHandler DEF Sound, Works, Chooses, Shows
<1>9. form' \in [name : Project \cup {None}, tunnel : BOOLEAN]
  BY <1>3, <1>4, FilledTyped DEF MirrorTypeOK
<1>10. LastIsTrue'
  BY <1>3, <1>4 DEF LastIsTrue
<1>11. handlers' \in [Slot -> Reads \cup Acts] => MirrorTypeOK'
  BY <1>3, <1>4, <1>7, <1>9 DEF MirrorTypeOK
<1>12. handlers \in [Slot -> Reads \cup Acts] /\ (confirm = None \/ conflict = None)'
  BY <1>3, <1>4 DEF MirrorTypeOK
<1> QED
  BY <1>3, <1>4, <1>8, <1>10, <1>11, <1>12, IdleHandler, WorkHolds

----------------------------------------------------------------------------
(* The theorems.                                                           *)

\* The load that the user interface begins with is the first handler.
LEMMA InitHolds ==
  ASSUME ProjectMirrorAssumption, Init
  PROVE  MirrorInv
<1> DEFINE x == [Idle EXCEPT !.kind = "list"]
<1>1. x \in Reads /\ x.kind = "list" /\ x.ans = None /\ x.of = None
  BY DEF Idle, Reads
<1>2. handlers = [i \in Slot |-> IF i = 1 THEN x ELSE Idle]
  BY DEF Init
<1> HIDE DEF x
<1>3. handlers \in [Slot -> Reads \cup Acts] /\ Alone(1) /\ handlers[1] = x
  BY <1>1, <1>2, Constants, IdleHandler DEF Alone
<1>4. MirrorTypeOK /\ LastIsTrue /\ (confirm = None \/ conflict = None)
  <2>1. events \in Seq([id : Project, on : BOOLEAN]) /\ LastIsTrue /\ confirm = None /\ conflict = None
    BY DEF Init, LastIsTrue
  <2>2. {registry, projects} \subseteq [Project -> Config \cup {None}]
    BY DEF Init
  <2>3. {running, states} \subseteq [Project -> BOOLEAN]
    BY DEF Init
  <2>4. active \in Project \cup {None, Create} /\ form \in [name : Project \cup {None}, tunnel : BOOLEAN]
    BY DEF Init
  <2> QED
    BY <1>3, <2>1, <2>2, <2>3, <2>4 DEF MirrorTypeOK
<1>5. Sound(x)
  <2>1. Works(x) /\ Chooses(x) /\ Shows(x) /\ RestIsTrue(x)
    BY <1>1, Constants DEF Init, Works, Chooses, Shows, RestIsTrue
  <2>2. ~Modal
    BY DEF Init, Modal
  <2> QED
    BY <2>1, <2>2 DEF Sound
<1> QED
  BY <1>3, <1>4, <1>5, Constants DEF MirrorInv

\* Every step of the user, of the backend and of a handler keeps the invariant.
LEMMA StepHolds ==
  ASSUME ProjectMirrorAssumption, Patient, MirrorInv, [Next]_mirrorVars
  PROVE  MirrorInv'
<1>1. CASE User
  BY <1>1, FormHolds, StartHolds, StopOrSaveHolds, DeleteHolds, AnswerHolds, ConflictHolds DEF User
<1>2. CASE HearStatus
  BY <1>2, HearStatusHolds
<1>3. ASSUME NEW p \in Project, Exit(p) PROVE MirrorInv'
  BY <1>3, ExitHolds
<1>4. ASSUME NEW i \in Slot, Handler(i) PROVE MirrorInv'
  BY <1>4, PortHolds, StartOrStopHolds, RegisterHolds, DeregisterHolds, FailureHolds, ReadHolds,
     ListedHolds, StatedHolds, LoadEndsHolds DEF Handler
<1>5. CASE UNCHANGED mirrorVars
  BY <1>5 DEF mirrorVars, MirrorInv, MirrorTypeOK, LastIsTrue, Alone, Sound, Works, Chooses, Shows,
              RestIsTrue, Modal
<1> QED
  BY <1>1, <1>2, <1>3, <1>4, <1>5 DEF Next

\* For a user who waits, one handler at most is under way, what it has read is what the backend
\* holds, and the last event of a project says whether it runs.
THEOREM MirrorInvariance ==
  ASSUME ProjectMirrorAssumption, Patient
  PROVE  Spec => []MirrorInv
<1>1. Init => MirrorInv
  BY InitHolds
<1>2. MirrorInv /\ [Next]_mirrorVars => MirrorInv'
  BY StepHolds
<1> QED
  BY <1>1, <1>2, PTL DEF Spec

\* For a user who waits, once every handler has ended and every event was heard, the list is what
\* is registered, each project is shown running just when it runs, and the active project is one
\* of the list.
THEOREM Mirrored ==
  ASSUME ProjectMirrorAssumption, Patient
  PROVE  Spec => []MirrorIsTrue
<1>1. MirrorInv => MirrorIsTrue
  <2> SUFFICES ASSUME MirrorInv, Quiet
               PROVE  /\ projects = registry
                      /\ \A p \in Project : projects[p] # None => states[p] = running[p]
                      /\ active \in Project => projects[active] # None
    BY DEF MirrorIsTrue
  <2>1. Free = Slot /\ events = <<>>
    BY DEF Quiet
  <2>2. RestIsTrue(Idle) /\ projects = registry /\ (active \in Project => projects[active] # None)
    BY <2>1, NothingUnderWay
  <2>3. \A p \in Project : projects[p] # None => states[p] = running[p]
    BY <2>1, <2>2, IdleHandler DEF RestIsTrue
  <2> QED
    BY <2>2, <2>3
<1> QED
  BY <1>1, MirrorInvariance, PTL
=============================================================================
