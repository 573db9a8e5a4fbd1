------------------------- MODULE ToolApprovalProofs -------------------------
(***************************************************************************)
(* What holds of the agent's session when the user waits for each answer:  *)
(* histories stay well paired, a session that was left is not taken up     *)
(* again, and no call runs twice or without its approval.                  *)
(*                                                                         *)
(* The last part proves that the session implements what the action guard  *)
(* promises (ToolApproval): with a user who, besides, decides on whole     *)
(* batches or on the calls of a batch one by one, and sends nothing while  *)
(* calls are pending, a call runs at most once, and only if it needs no    *)
(* approval or the user granted that very call.                            *)
(***************************************************************************)
EXTENDS AgentSessionProofs

----------------------------------------------------------------------------
(* A patient user has one command under way at most.                       *)

\* Nothing is under way when the user issues a command or opens a session.
LEMMA Idle ==
  ASSUME SessionInv, Patient, (\E op, index : Issue(op, index)) \/ (\E shows : Open(shows))
  PROVE  run = None /\ queue = <<>> /\ left.shows = {}
<1>1. InProgress = 0 /\ left.shows = {}
  BY DEF Issue, Open, Still
<1>2. Len(queue) \in Nat /\ (queue # <<>> => Len(queue) > 0)
  BY Typed
<1> QED
  BY <1>1, <1>2 DEF InProgress

\* The command that the user issues is the only one.
LEMMA IssuesOne ==
  ASSUME SessionInv, Patient, NEW op, NEW index, Issue(op, index)
  PROVE  /\ run = None /\ queue = <<>> /\ left.shows = {}
         /\ queue' # <<>> /\ Len(queue') = 1
         /\ Head(queue') = [op |-> op, index |-> index, from |-> card.kind]
         /\ UNCHANGED <<store, db, view, dropped, run, cancel, answered, left, runs, aimed>>
<1>1. run = None /\ queue = <<>> /\ left.shows = {}
  BY Idle
<1> QED
  BY <1>1 DEF Issue, sessionVars

\* What the user's steps are.
LEMMA UserSteps ==
  ASSUME SessionInv, Patient, UserStep
  PROVE  \/ SendMessage
         \/ \E i \in 1..MaxBatch : ApproveTool(i) \/ RejectTool(i)
         \/ ApproveCard \/ RejectCard
         \/ Cancel /\ UNCHANGED <<store, db, view, dropped, card, verdict, run, queue, answered, left.shows, runs>>
         \/ Reset \/ (\E id \in Ids : Load(id)) \/ RemindOfWorkspace
         \/ \E id \in left.shows : ShowOpened(id)
         \/ Save /\ UNCHANGED <<store, view, dropped, card, verdict, run, queue, answered, left.shows, runs>>
BY Typed DEF UserStep, Cancel, Save, NewChatFails, sessionVars, userVars

\* A command that is issued: nothing else was under way, and the store stays as it is.
LEMMA UserIssues ==
  ASSUME SessionInv, Patient, SendMessage \/ (\E i \in 1..MaxBatch : ApproveTool(i) \/ RejectTool(i)) \/ ApproveCard \/ RejectCard
  PROVE  /\ run = None /\ queue = <<>> /\ Len(queue') = 1 /\ queue' # <<>>
         /\ Head(queue').op = "send" => SendMessage
         /\ UNCHANGED <<store, db, view, dropped, run, answered, left>> /\ left.shows = {}
<1>1. ASSUME NEW op, NEW index, Issue(op, index), op = "send" => SendMessage
      PROVE  /\ run = None /\ queue = <<>> /\ Len(queue') = 1 /\ queue' # <<>>
             /\ Head(queue').op = "send" => SendMessage
             /\ UNCHANGED <<store, db, view, dropped, run, answered, left>> /\ left.shows = {}
  BY <1>1, IssuesOne
<1>2. CASE SendMessage
  BY <1>1, <1>2 DEF SendMessage
<1>3. ASSUME NEW i \in 1..MaxBatch, ApproveTool(i)
      PROVE  /\ run = None /\ queue = <<>> /\ Len(queue') = 1 /\ queue' # <<>>
             /\ Head(queue').op = "send" => SendMessage
             /\ UNCHANGED <<store, db, view, dropped, run, answered, left>> /\ left.shows = {}
  BY <1>1, <1>3 DEF ApproveTool
<1>4. ASSUME NEW i \in 1..MaxBatch, RejectTool(i)
      PROVE  /\ run = None /\ queue = <<>> /\ Len(queue') = 1 /\ queue' # <<>>
             /\ Head(queue').op = "send" => SendMessage
             /\ UNCHANGED <<store, db, view, dropped, run, answered, left>> /\ left.shows = {}
  BY <1>1, <1>4 DEF RejectTool
<1>5. CASE ApproveCard
  BY <1>1, <1>5 DEF ApproveCard
<1>6. CASE RejectCard
  BY <1>1, <1>6 DEF RejectCard
<1> QED
  BY <1>2, <1>3, <1>4, <1>5, <1>6

\* Of what is queued and what runs there is one.
LEMMA OneOfTwo ==
  ASSUME NEW n \in Nat, n > 0, NEW c, NEW d, n + (IF c = d THEN 0 ELSE 1) <= 1
  PROVE  n = 1 /\ c = d
OBVIOUS

LEMMA SingleTail ==
  ASSUME NEW S, NEW seq \in Seq(S), Len(seq) = 1
  PROVE  Tail(seq) = <<>>
<1>1. Tail(seq) \in Seq(S) /\ Len(Tail(seq)) = 0
  OBVIOUS
<1> QED
  BY <1>1, EmptySeq

\* A command that comes from the queue is the only one.
LEMMA OneTaken ==
  ASSUME SessionInv, OneCommand, queue # <<>>
  PROVE  run = None /\ Len(queue) = 1 /\ Tail(queue) = <<>> /\ left.shows = {}
<1>1. queue \in Seq(Request)
  BY Typed
<1>2. Len(queue) \in Nat /\ Len(queue) > 0
  BY <1>1
<1>3. Len(queue) + (IF run = None THEN 0 ELSE 1) <= 1
  BY DEF OneCommand, InProgress
<1>4. Len(queue) = 1 /\ run = None
  BY <1>2, <1>3, OneOfTwo, Zenon
<1>5. left.shows = {}
  BY <1>4 DEF OneCommand, InProgress
<1> QED
  BY <1>1, <1>4, <1>5, SingleTail, Zenon

\* A command under way has left the queue empty.
LEMMA NoneQueued ==
  ASSUME SessionInv, OneCommand, run # None
  PROVE  queue = <<>> /\ left.shows = {}
<1>1. queue = <<>>
  BY OneTaken
<1> QED
  BY <1>1 DEF OneCommand, InProgress

\* One command at a time, from a session of the right state.
LEMMA OneCommandStep ==
  ASSUME SessionInv, OneCommand, Patient, ~Interjects, [Next]_vars
  PROVE  OneCommand'
<1>1. ASSUME run' = None, queue' = <<>>
      PROVE  OneCommand'
  BY <1>1 DEF OneCommand, InProgress
<1>2. CASE UNCHANGED vars
  BY <1>2 DEF vars, OneCommand, InProgress, Awaiting
<1>3. CASE UserStep
  <2>1. CASE SendMessage \/ (\E i \in 1..MaxBatch : ApproveTool(i) \/ RejectTool(i)) \/ ApproveCard \/ RejectCard
    <3>1. /\ run' = None /\ Len(queue') = 1 /\ store' = store /\ left'.shows = {}
          /\ Head(queue').op = "send" => SendMessage
      BY <2>1, UserIssues
    <3>2. Head(queue').op = "send" => ~Awaiting(store)
      BY <3>1 DEF SendMessage
    <3>3. InProgress' <= 1
      BY <3>1 DEF InProgress
    <3> QED
      BY <3>1, <3>2, <3>3 DEF OneCommand, Awaiting
  <2>2. CASE Cancel /\ UNCHANGED <<store, run, queue, left.shows>>
    BY <2>2 DEF OneCommand, InProgress, Awaiting
  <2>3. CASE Reset \/ (\E id \in Ids : Load(id)) \/ RemindOfWorkspace
    <3>1. \E shows : Open(shows)
      BY <2>3 DEF Reset, Load, RemindOfWorkspace
    <3>2. UNCHANGED <<run, queue>>
      BY <3>1 DEF Open
    <3> QED
      BY <1>1, <3>1, <3>2, Idle
  <2>4. CASE Save /\ UNCHANGED <<store, run, queue, left.shows>>
    BY <2>4 DEF OneCommand, InProgress, Awaiting
  <2>5. ASSUME NEW id \in left.shows, ShowOpened(id)
        PROVE  OneCommand'
    <3>1. run = None /\ queue = <<>> /\ UNCHANGED <<run, queue>>
      BY <2>5, OneTaken, NoneQueued DEF ShowOpened
    <3> QED
      BY <1>1, <3>1
  <2> QED
    BY <1>3, <2>1, <2>2, <2>3, <2>4, <2>5, UserSteps
<1>4. CASE StartSend
  <2>1. queue # <<>> /\ queue' = Tail(queue) /\ UNCHANGED left
    BY <1>4 DEF StartSend, ReturnError, Return, GoOn
  <2>2. queue' = <<>> /\ left'.shows = {}
    BY <2>1, OneTaken
  <2>3. run' = None \/ run'.pc = "top"
    BY <1>4 DEF StartSend, ReturnError, Return, GoOn
  <2> QED
    BY <2>2, <2>3 DEF OneCommand, InProgress
<1>5. CASE StartDecision
  <2>1. queue # <<>> /\ queue' = Tail(queue) /\ store' = store /\ UNCHANGED left
    BY <1>5 DEF StartDecision, ReturnError, Return, GoOn
  <2>2. queue' = <<>> /\ left'.shows = {}
    BY <2>1, OneTaken
  <2>3. run' = None \/ Awaiting(store')
    BY <1>5, <2>1 DEF StartDecision, ReturnError, Return
  <2> QED
    BY <2>2, <2>3 DEF OneCommand, InProgress
<1>6. ASSUME run # None, UNCHANGED <<queue, left>>, run' # None => run'.pc # "take"
      PROVE  OneCommand'
  BY <1>6, NoneQueued DEF OneCommand, InProgress
<1>7. CASE TakeNothing \/ TakeRejected \/ TakeApproved
  <2>1. run # None /\ UNCHANGED <<queue, left>>
    BY <1>7 DEF TakeNothing, TakeRejected, TakeApproved, ReturnError, ReturnRest, Return, GoOn
  <2>2. run' # None => run'.pc # "take"
    BY <1>7 DEF TakeNothing, TakeRejected, TakeApproved, ReturnError, ReturnRest, Return, GoOn
  <2> QED
    BY <1>6, <2>1, <2>2
<1>8. CASE FinishSingle \/ TickStep \/ ModelStep \/ ToolStep
  BY <1>6, <1>8, Outcomes DEF GoneOn, GivenBack, Lost
<1> QED
  BY <1>2, <1>3, <1>4, <1>5, <1>7, <1>8, Steps

----------------------------------------------------------------------------
(* The session in use was not left.                                        *)

\* A command that takes the stored session goes on with it or puts it back.
LEMMA TakeOutcomes ==
  ASSUME SessionInv, TakeRejected \/ TakeApproved
  PROVE  /\ run # None /\ run.pc = "take" /\ run.session = None /\ store \in Session
         /\ UNCHANGED <<queue, db, left, aimed, dropped>>
         /\ \/ /\ run' # None /\ run'.session \in Session /\ run'.session.id = store.id
               /\ UNCHANGED <<card, view, answered>> /\ store' = None
            \/ /\ run' = None /\ answered' = answered + 1 /\ store' \in Session
               /\ store'.id = store.id /\ view' = Pending
<1> DEFINE Goal ==
      /\ UNCHANGED <<db, left, aimed, dropped>>
      /\ \/ /\ run' # None /\ run'.session \in Session /\ run'.session.id = store.id
            /\ UNCHANGED <<card, view, answered>> /\ store' = None
         \/ /\ run' = None /\ answered' = answered + 1 /\ store' \in Session
            /\ store'.id = store.id /\ view' = Pending
<1>1. /\ run # None /\ run.pc = "take" /\ run.session = None /\ store \in Session
      /\ Sound(store) /\ run.request \in Request /\ UNCHANGED queue
      /\ store.history \in Seq(Message) /\ store.pending \in Seq(Calls)
  BY RunFields, Typed, SessionFields DEF TakeRejected, TakeApproved
<1>2. <<>> \in Seq(Calls)
  OBVIOUS
<1>3. ASSUME NEW s \in Session, s.id = store.id, NEW todo \in Seq(Calls), NEW pc \in {"single", "top"},
             GoOn(run.request, s, pc, todo), store' = None
      PROVE  Goal
  BY <1>1, <1>3, GoesHeld
<1>4. ASSUME NEW s \in Session, s.id = store.id, ReturnRest(run.request, s)
      PROVE  Goal
  BY <1>4 DEF ReturnRest, PutBack, Return
<1>5. ASSUME run.request.index \in DOMAIN PendingOf(store)
      PROVE  /\ run.request.index \in DOMAIN store.pending
             /\ Settled(store, run.request.index) \in Session
             /\ Settled(store, run.request.index).id = store.id
             /\ <<store.pending[run.request.index]>> \in Seq(Calls)
  <2>1. run.request.index \in DOMAIN store.pending
    BY <1>1, <1>5 DEF PendingOf
  <2> QED
    BY <1>1, <2>1, SettledTyped
<1>6. ASSUME NEW x \in States \ {"AwaitingApproval"}
      PROVE  /\ [store EXCEPT !.state = x, !.pending = <<>>] \in Session
             /\ [store EXCEPT !.state = x, !.pending = <<>>].id = store.id
  BY <1>1, <1>6, Emptied DEF Session
<1>7. CASE TakeApproved
  <2>1. Goal
    BY <1>1, <1>2, <1>3, <1>5, <1>6, <1>7 DEF TakeApproved, States
  <2> QED
    BY <1>1, <2>1
<1>8. CASE TakeRejected
  <2> DEFINE h == store.history \o Answers(PendingOf(store))
             s == [store EXCEPT !.state = "Thinking", !.pending = <<>>, !.history = h]
  <2>1. h \in Seq(Message)
    <3>1. Answers(PendingOf(store)) \in Seq(Message)
      BY <1>1, Messages DEF Answers, PendingOf
    <3> QED
      BY <1>1, <3>1
  <2>2. s = [store EXCEPT !.state = "Thinking", !.pending = <<>>,
                          !.history = @ \o Answers(PendingOf(store))]
    BY <1>1 DEF Session
  <2> HIDE DEF h
  <2>3. s \in Session /\ s.id = store.id
    BY <1>1, <2>1, Emptied DEF Session, States
  <2> HIDE DEF s
  <2>4. CASE \E t \in {Settled(store, run.request.index)} : ReturnRest(run.request, t) /\ run.request.index \in DOMAIN PendingOf(store)
    BY <1>1, <1>4, <1>5, <2>4
  <2>5. CASE /\ store' = None
             /\ \/ /\ GoOn(run.request, Settled(store, run.request.index), "top", <<>>)
                   /\ run.request.index \in DOMAIN PendingOf(store)
                \/ GoOn(run.request, [store EXCEPT !.state = "Thinking", !.pending = <<>>], "top", <<>>)
                \/ GoOn(run.request, s, "top", <<>>)
    <3>1. Goal
      BY <1>1, <1>2, <1>3, <1>5, <1>6, <2>3, <2>5 DEF States
    <3> QED
      BY <1>1, <3>1
  <2>6. \/ /\ ReturnRest(run.request, Settled(store, run.request.index))
           /\ run.request.index \in DOMAIN PendingOf(store)
        \/ /\ store' = None
           /\ \/ /\ GoOn(run.request, Settled(store, run.request.index), "top", <<>>)
                 /\ run.request.index \in DOMAIN PendingOf(store)
              \/ GoOn(run.request, [store EXCEPT !.state = "Thinking", !.pending = <<>>], "top", <<>>)
              \/ GoOn(run.request, s, "top", <<>>)
    BY <1>8, <2>2, Zenon DEF TakeRejected
  <2> QED
    BY <2>4, <2>5, <2>6
<1> QED
  BY <1>7, <1>8

\* The ids of sessions are those of commands that have come.
LEMMA IdNumbers ==
  ASSUME SessionInv
  PROVE  /\ answered \in Nat /\ \A s \in Session : s.id \in Nat
         /\ Pending \notin Ids /\ None \notin Ids
BY Counts, SessionFields, SessionAssumption DEF Ids, Pending

\* A step of a command keeps the numbers in order when the sessions it leaves do.
LEMMA InUseNext ==
  ASSUME SessionInv, InUse, UNCHANGED <<db, left, dropped>>,
         answered' = answered \/ answered' = answered + 1,
         \/ store' = store \/ store' = None
         \/ store' \in Session /\ store'.id <= answered' /\ store'.id \notin dropped,
         \/ Held' = None
         \/ Held' \in Session /\ Held'.id <= answered' + 1 /\ Held'.id \notin dropped,
         view' \in {view, Pending} \/ (view' \in Ids /\ view' <= answered')
  PROVE  InUse'
<1>1. /\ answered \in Nat /\ answered <= answered' /\ answered' \in Nat
      /\ \A i \in Ids : i \in Nat /\ (i <= answered => i <= answered')
  BY Counts DEF Ids
<1>2. store' # None => store'.id <= answered' /\ store'.id \notin dropped'
  <2>1. CASE store' = store
    <3>1. store # None => store.id \in Ids /\ store.id <= answered /\ store.id \notin dropped
      BY Typed, SessionFields DEF InUse
    <3> QED
      BY <1>1, <2>1, <3>1
  <2> QED
    BY <2>1
<1>3. Held' # None => Held'.id <= answered' + 1 /\ Held'.id \notin dropped'
  OBVIOUS
<1>4. \A id \in {view'} \cup left'.shows : id \in Ids => id <= answered'
  <2>1. \A id \in {view} \cup left.shows : id \in Ids => id <= answered
    BY DEF InUse
  <2> QED
    BY <1>1, <2>1, IdNumbers
<1>5. \A id \in Ids : db'[id] # None => id <= answered'
  BY <1>1 DEF InUse
<1>6. \A id \in dropped' : id <= answered'
  BY <1>1, Typed DEF InUse
<1> QED
  BY <1>2, <1>3, <1>4, <1>5, <1>6 DEF InUse

\* The session in use was not left, and no session is numbered ahead of the commands.
LEMMA InUseStep ==
  ASSUME SessionInv, InUse, Patient, [Next]_vars
  PROVE  InUse'
<1> USE IdNumbers
<1>1. CASE UNCHANGED vars
  BY <1>1 DEF vars, InUse, Held
<1>2. CASE UserStep
  <2>1. CASE UNCHANGED <<store, run, view, dropped, answered, left.shows>> /\ UNCHANGED db
    BY <2>1 DEF InUse, Held
  <2>2. CASE Save /\ UNCHANGED <<store, view, dropped, run, answered, left.shows>>
    <3>1. db' = [db EXCEPT ![view] = ToSave(store, view)] /\ view \in Ids
      BY <2>2 DEF Save
    <3>2. \A id \in Ids : db'[id] # None => db[id] # None \/ id = view
      BY <3>1, Typed
    <3> QED
      BY <2>2, <3>1, <3>2 DEF InUse, Held
  <2>3. ASSUME NEW shows \in SUBSET (Ids \cup {None}), Open(shows)
        PROVE  /\ run' = None /\ UNCHANGED <<db, view, answered>>
               /\ left'.shows = shows
               /\ Current = {s.id : s \in {store} \ {None}}
    <3>1. left' = [left EXCEPT !.opens = @ - 1, !.shows = @ \cup shows]
      BY <2>3 DEF Open
    <3>2. left'.shows = left.shows \cup shows
      BY <3>1, Typed
    <3> QED
      BY <2>3, <3>2, Idle DEF Open, Current
  <2>4. CASE Reset
    <3>1. Open({None}) /\ store' = None /\ dropped' = dropped \cup Current
      BY <2>4 DEF Reset
    <3>2. \A id \in dropped' : id <= answered
      BY <2>3, <3>1 DEF InUse
    <3> QED
      BY <2>3, <3>1, <3>2 DEF InUse, Held
  <2>5. ASSUME NEW id \in Ids, Load(id)
        PROVE  InUse'
    <3>1. /\ Open({id}) /\ db[id] # None /\ store' = Restored(id)
          /\ dropped' = (dropped \cup Current) \ {id}
      BY <2>5 DEF Load
    <3>2. store'.id = id /\ id <= answered
      BY <3>1 DEF Restored, InUse
    <3>3. \A i \in dropped' : i <= answered /\ i # id
      BY <2>3, <3>1 DEF InUse
    <3> QED
      BY <2>3, <3>1, <3>2, <3>3 DEF InUse, Held
  <2>6. CASE RemindOfWorkspace
    <3>1. /\ Open({}) /\ store \in Session /\ UNCHANGED dropped
          /\ store' = [store EXCEPT !.history = Append(@, User)]
      BY <2>6, Typed DEF RemindOfWorkspace
    <3>2. store'.id = store.id /\ store # None
      BY <3>1, SessionFields DEF Session
    <3> QED
      BY <2>3, <3>1, <3>2 DEF InUse, Held
  <2>7. CASE SendMessage \/ (\E i \in 1..MaxBatch : ApproveTool(i) \/ RejectTool(i)) \/ ApproveCard \/ RejectCard
    BY <2>1, <2>7, UserIssues
  <2>8. ASSUME NEW id \in left.shows, ShowOpened(id)
        PROVE  InUse'
    <3>1. /\ left' = [left EXCEPT !.shows = @ \ {id}] /\ view' = id
          /\ UNCHANGED <<store, db, dropped, run, answered>>
      BY <2>8 DEF ShowOpened
    <3>2. left'.shows = left.shows \ {id}
      BY <3>1, Typed
    <3> QED
      BY <2>8, <3>1, <3>2 DEF InUse, Held
  <2> QED
    BY <1>2, <2>1, <2>2, <2>4, <2>5, <2>6, <2>7, <2>8, UserSteps
<1>3. CASE StartSend \/ StartDecision
  <2>1. run = None /\ queue # <<>> /\ UNCHANGED <<dropped, db, view, left>>
    BY <1>3 DEF StartSend, StartDecision, GoOn, ReturnError, Return
  <2>2. CASE run' = None /\ UNCHANGED store /\ answered' = answered + 1
    BY <2>1, <2>2, InUseNext DEF Held
  <2>3. CASE StartDecision /\ run' = [request |-> Head(queue), session |-> None, todo |-> <<>>, pc |-> "take"] /\ UNCHANGED <<store, answered>>
    BY <2>1, <2>3 DEF InUse, Held
  <2>4. ASSUME NEW s \in Session, s.id <= answered + 1, s.id \notin dropped, store' = None,
               GoOn(Head(queue), Sent(s), "top", <<>>)
        PROVE  InUse'
    <3>1. run'.session.id = s.id /\ UNCHANGED answered
      BY <2>4 DEF GoOn, Sent, Session
    <3> QED
      BY <2>1, <2>4, <3>1 DEF InUse, Held
  <2>5. Fresh \in Session /\ Fresh.id = answered + 1 /\ Fresh.id \notin dropped
    <3>1. \A id \in dropped : id <= answered
      BY DEF InUse
    <3>2. Fresh \in Session /\ Fresh.id = answered + 1
      BY <2>1, FreshTyped DEF Fresh
    <3> QED
      BY <3>1, <3>2, Counts
  <2>6. store \in Session => store.id <= answered + 1 /\ store.id \notin dropped
    BY SessionFields DEF InUse
  <2>7. CASE StartSend
    <3>1. \/ ReturnError(Head(queue)) /\ UNCHANGED store
          \/ /\ GoOn(Head(queue), Sent(IF store = None THEN Fresh ELSE store), "top", <<>>)
             /\ store' = None
      BY <2>7 DEF StartSend
    <3> QED
      BY <2>2, <2>4, <2>5, <2>6, <3>1, Typed DEF ReturnError, Return
  <2>8. CASE StartDecision
    BY <2>2, <2>3, <2>8 DEF StartDecision, GoOn, ReturnError, Return
  <2> QED
    BY <1>3, <2>7, <2>8
<1>4. CASE TakeNothing
  <2>1. /\ run # None /\ run.session = None /\ run' = None /\ answered' = answered + 1
        /\ UNCHANGED <<store, dropped, db, view, left>>
    BY <1>4, RunFields DEF TakeNothing, ReturnError, Return
  <2> QED
    BY <2>1, InUseNext DEF Held
<1>5. CASE TakeRejected \/ TakeApproved
  <2>1. store \in Session /\ store.id \in Nat /\ store.id <= answered /\ store.id \notin dropped
    BY <1>5, TakeOutcomes, SessionFields DEF InUse
  <2>2. store.id <= answered + 1
    BY <2>1
  <2>3. CASE run' # None
    BY <1>5, <2>1, <2>2, <2>3, TakeOutcomes, InUseNext DEF Held
  <2>4. CASE run' = None
    BY <1>5, <2>1, <2>2, <2>4, TakeOutcomes, InUseNext DEF Held
  <2> QED
    BY <2>3, <2>4
<1>6. CASE FinishSingle \/ TickStep \/ ModelStep \/ ToolStep
  <2>1. /\ run # None /\ run.session \in Session /\ UNCHANGED <<db, left, dropped>>
        /\ GoneOn \/ GivenBack \/ Lost
    BY <1>6, Outcomes
  <2>2. run.session.id <= answered + 1 /\ run.session.id \notin dropped
    BY <2>1, SessionFields DEF InUse, Held
  <2>3. CASE GoneOn
    BY <2>1, <2>2, <2>3, Typed DEF GoneOn, InUse, Held
  <2>4. CASE GivenBack
    BY <2>1, <2>2, <2>4, InUseNext, SessionFields DEF GivenBack, Held
  <2>5. CASE Lost
    BY <2>1, <2>2, <2>5, InUseNext, SessionFields DEF Lost, Held
  <2> QED
    BY <2>1, <2>3, <2>4, <2>5
<1> QED
  BY <1>1, <1>2, <1>3, <1>4, <1>5, <1>6, Steps

\* The step that gives a command its session does not change which sessions were left.
LEMMA TakenWasNotLeft ==
  ASSUME SessionInv, InUse, InUse', [Next]_vars, Held = None, Held' # None
  PROVE  Held'.id \notin dropped
<1>1. Held'.id \notin dropped'
  BY DEF InUse
<1>2. CASE UserStep \/ UNCHANGED vars
  <2>1. run' = run
    BY <1>2, UserRuns DEF vars
  <2> QED
    BY <2>1 DEF Held
<1>3. dropped' = dropped \/ UserStep \/ UNCHANGED vars
  BY Steps, Outcomes, TakeOutcomes
     DEF StartSend, StartDecision, TakeNothing, GoOn, ReturnError, Return
<1> QED
  BY <1>1, <1>2, <1>3

\* A session that handleNewChat reset, or that the user left for another, is not what a
\* later message or decision works on, as long as the user waits for each answer.
THEOREM NotTakenUpAgain ==
  ASSUME Patient
  PROVE  Spec => LeftIsLeft
<1>1. Init => InUse
  BY IdNumbers, SessionStart DEF Init, InUse, Held
<1>2. SessionInv /\ InUse /\ [Next]_vars => InUse'
  BY InUseStep
<1>3. SessionInv /\ InUse /\ InUse' /\ [Next]_vars
        => [Held = None /\ Held' # None => Held'.id \notin dropped]_vars
  BY TakenWasNotLeft
<1> QED
  BY SessionInvariance, <1>1, <1>2, <1>3, PTL DEF Spec, LeftIsLeft

----------------------------------------------------------------------------
(* Results stay with the message that asked for them.                      *)

\* The messages of two histories, one put behind the other.
LEMMA Joined ==
  ASSUME NEW h \in Seq(Message), NEW t \in Seq(Message)
  PROVE  /\ h \o t \in Seq(Message) /\ Len(h) \in Nat /\ Len(t) \in Nat
         /\ Len(h \o t) = Len(h) + Len(t) /\ DOMAIN (h \o t) = 1..(Len(h) + Len(t))
         /\ DOMAIN h = 1..Len(h) /\ DOMAIN t = 1..Len(t)
         /\ \A i \in 1..Len(h) : (h \o t)[i] = h[i]
         /\ \A i \in 1..(Len(h) + Len(t)) : i > Len(h) => (h \o t)[i] = t[i - Len(h)]
<1>1. /\ h \o t \in Seq(Message) /\ Len(h) \in Nat /\ Len(t) \in Nat
      /\ Len(h \o t) = Len(h) + Len(t)
      /\ DOMAIN h = 1..Len(h) /\ DOMAIN t = 1..Len(t)
      /\ DOMAIN (h \o t) = 1..(Len(h) + Len(t))
      /\ \A i \in 1..(Len(h) + Len(t)) :
           (h \o t)[i] = IF i <= Len(h) THEN h[i] ELSE t[i - Len(h)]
  BY ConcatProperties
<1>2. \A i \in 1..Len(h) : i \in 1..(Len(h) + Len(t)) /\ i <= Len(h)
  BY <1>1
<1>3. \A i \in 1..(Len(h) + Len(t)) : i > Len(h) => ~ i <= Len(h)
  BY <1>1
<1> QED
  BY <1>1, <1>2, <1>3

\* Results put behind a history that can take them belong to the message that asked.
LEMMA ResultsBelong ==
  ASSUME NEW h \in Seq(Message), NEW t \in Seq(Message), NEW calls, Answerable(h, calls), WellPaired(h),
         \A k \in DOMAIN t : t[k].role = "tool" /\ t[k].calls[1] \in calls
  PROVE  WellPaired(h \o t) /\ Answerable(h \o t, calls)
<1> DEFINE g == h \o t
<1>1. /\ Len(h) \in Nat /\ Len(t) \in Nat /\ DOMAIN g = 1..(Len(h) + Len(t)) /\ Len(g) = Len(h) + Len(t)
      /\ DOMAIN h = 1..Len(h) /\ DOMAIN t = 1..Len(t)
      /\ \A i \in 1..Len(h) : g[i] = h[i]
      /\ \A i \in 1..(Len(h) + Len(t)) : i > Len(h) => g[i] = t[i - Len(h)]
  BY Joined
<1> HIDE DEF g
<1>2. PICK j \in 1..Len(h) : /\ IsCalls(h[j]) /\ calls \subseteq Members(h[j].calls)
                             /\ \A k \in (j + 1)..Len(h) : h[k].role = "tool"
  BY <1>1 DEF Answerable
<1>3. \A i \in 1..(Len(h) + Len(t)) :
        i > Len(h) => i - Len(h) \in DOMAIN t /\ g[i].role = "tool" /\ g[i].calls[1] \in calls
  <2> TAKE i \in 1..(Len(h) + Len(t))
  <2> HAVE i > Len(h)
  <2>1. i - Len(h) \in 1..Len(t)
    BY <1>1
  <2> QED
    BY <1>1, <2>1
<1>4. j \in 1..(Len(h) + Len(t)) /\ g[j] = h[j] /\ j \in Int
  BY <1>1, <1>2
<1>5. \A k \in (j + 1)..(Len(h) + Len(t)) : g[k].role = "tool"
  <2> TAKE k \in (j + 1)..(Len(h) + Len(t))
  <2>1. k \in 1..(Len(h) + Len(t)) /\ k \in Int
    BY <1>1, <1>4
  <2>2. CASE k > Len(h)
    BY <1>3, <2>1, <2>2
  <2>3. CASE ~ k > Len(h)
    <3>1. k \in (j + 1)..Len(h) /\ k \in 1..Len(h)
      BY <1>1, <1>4, <2>1, <2>3
    <3> QED
      BY <1>1, <1>2, <3>1
  <2> QED
    BY <2>2, <2>3
<1>6. Answerable(g, calls)
  BY <1>1, <1>2, <1>4, <1>5 DEF Answerable
<1>7. ASSUME NEW i \in DOMAIN g, g[i].role = "tool"
      PROVE  Belongs(g, i)
  <2>1. i \in 1..(Len(h) + Len(t)) /\ i \in Int
    BY <1>1
  <2>2. CASE i > Len(h)
    <3>1. j \in 1..(i - 1)
      BY <1>1, <1>4, <2>1, <2>2
    <3>2. g[i].calls[1] \in {g[j].calls[k] : k \in DOMAIN g[j].calls}
      BY <1>2, <1>3, <1>4, <2>1, <2>2 DEF Members
    <3>3. \A k \in (j + 1)..(i - 1) : k \in (j + 1)..(Len(h) + Len(t))
      BY <1>1, <1>4, <2>1
    <3> QED
      BY <1>2, <1>4, <1>5, <3>1, <3>2, <3>3 DEF Belongs
  <2>3. CASE ~ i > Len(h)
    <3>1. i \in 1..Len(h)
      BY <1>1, <2>1, <2>3
    <3>2. Belongs(h, i)
      BY <1>1, <1>7, <3>1 DEF WellPaired
    <3>3. \A k \in 1..(i - 1) : k \in 1..Len(h)
      BY <1>1, <3>1
    <3>4. \A m \in 1..(i - 1) : \A k \in (m + 1)..(i - 1) : k \in 1..(i - 1)
      BY <2>1
    <3> QED
      BY <1>1, <3>1, <3>2, <3>3, <3>4 DEF Belongs
  <2> QED
    BY <2>2, <2>3
<1> QED
  BY <1>6, <1>7 DEF WellPaired, g

\* A message that is no result leaves a history well paired.
LEMMA MessagePaired ==
  ASSUME NEW h \in Seq(Message), NEW m \in Message, WellPaired(h), m.role # "tool"
  PROVE  WellPaired(Append(h, m))
<1> DEFINE g == Append(h, m)
<1>1. /\ Len(h) \in Nat /\ DOMAIN h = 1..Len(h) /\ DOMAIN g = 1..(Len(h) + 1)
      /\ g[Len(h) + 1] = m /\ \A i \in 1..Len(h) : g[i] = h[i]
  OBVIOUS
<1> HIDE DEF g
<1>2. ASSUME NEW i \in DOMAIN g, g[i].role = "tool"
      PROVE  Belongs(g, i)
  <2>1. i \in 1..Len(h)
    BY <1>1, <1>2
  <2>2. Belongs(h, i)
    BY <1>1, <1>2, <2>1 DEF WellPaired
  <2>3. \A k \in 1..(i - 1) : k \in 1..Len(h)
    BY <1>1, <2>1
  <2>4. \A n \in 1..(i - 1) : \A k \in (n + 1)..(i - 1) : k \in 1..(i - 1)
    BY <2>1
  <2> QED
    BY <1>1, <2>1, <2>2, <2>3, <2>4 DEF Belongs
<1> QED
  BY <1>2 DEF WellPaired, g

\* A message that asks for calls can be answered.
LEMMA AsksAnswerable ==
  ASSUME NEW h \in Seq(Message), NEW calls \in Seq(Calls), calls # <<>>
  PROVE  Answerable(Append(h, Asks(calls)), Members(calls))
<1> DEFINE g == Append(h, Asks(calls))
<1>1. /\ Len(h) \in Nat /\ DOMAIN g = 1..(Len(h) + 1) /\ Len(g) = Len(h) + 1
      /\ g[Len(h) + 1] = Asks(calls) /\ Len(h) + 1 \in 1..(Len(h) + 1)
  BY Messages
<1>2. IsCalls(Asks(calls)) /\ Asks(calls).calls = calls
  BY Asking
<1>3. \A k \in ((Len(h) + 1) + 1)..(Len(h) + 1) : FALSE
  BY <1>1
<1> HIDE DEF g
<1>4. Answerable(g, Members(calls))
  BY <1>1, <1>2, <1>3 DEF Answerable
<1> QED
  BY <1>4 DEF g

\* What can be answered is asked for by the last message that asks for anything.
LEMMA AnswerableIsLast ==
  ASSUME NEW h \in Seq(Message), NEW calls, Answerable(h, calls)
  PROVE  /\ calls \subseteq Members(LastCalls(h))
         /\ Answerable(h, Members(LastCalls(h)))
         /\ LastCalls(h) # <<>>
<1> DEFINE asks == {i \in DOMAIN h : IsCalls(h[i])}
<1>1. /\ Len(h) \in Nat /\ DOMAIN h = 1..Len(h) /\ asks \subseteq 1..Len(h)
  OBVIOUS
<1>2. PICK j \in 1..Len(h) : /\ IsCalls(h[j]) /\ calls \subseteq Members(h[j].calls)
                             /\ \A k \in (j + 1)..Len(h) : h[k].role = "tool"
  BY <1>1 DEF Answerable
<1>3. j \in asks
  BY <1>1, <1>2
<1>4. \A k \in (j + 1)..Len(h) : k \notin asks
  BY <1>2 DEF IsCalls
<1>5. LastCalls(h) = h[Last(asks)].calls
  BY <1>3 DEF LastCalls
<1> HIDE DEF asks
<1>6. Last(asks) \in asks /\ j <= Last(asks)
  BY <1>1, <1>3, LastIsLargest
<1>7. Last(asks) = j
  <2>1. Last(asks) \in 1..Len(h) /\ j \in 1..Len(h)
    BY <1>1, <1>6
  <2>2. Last(asks) \notin (j + 1)..Len(h)
    BY <1>4, <1>6
  <2> QED
    BY <1>1, <1>6, <2>1, <2>2
<1> QED
  BY <1>1, <1>2, <1>5, <1>7 DEF Answerable, IsCalls

\* Fewer calls can be answered, too.
LEMMA AnswerableLess ==
  ASSUME NEW h, NEW calls, NEW fewer \in SUBSET calls, Answerable(h, calls)
  PROVE  Answerable(h, fewer)
BY DEF Answerable

\* One result.
LEMMA ResultPaired ==
  ASSUME NEW h \in Seq(Message), NEW c \in Calls, NEW calls, c \in calls, Answerable(h, calls),
         WellPaired(h)
  PROVE  WellPaired(Append(h, Result(c))) /\ Answerable(Append(h, Result(c)), calls)
<1>1. Result(c) \in Message /\ Result(c).role = "tool" /\ Result(c).calls[1] = c
  BY Messages DEF Result
<1> DEFINE t == <<Result(c)>>
<1>2. t \in Seq(Message) /\ \A k \in DOMAIN t : t[k].role = "tool" /\ t[k].calls[1] \in calls
  BY <1>1
<1>3. Append(h, Result(c)) = h \o t
  BY <1>1
<1> HIDE DEF t
<1> QED
  BY <1>2, <1>3, ResultsBelong

\* What is asked of one session.
PairedSession(s) ==
  WellPaired(s.history) /\ (Awaiting(s) => Answerable(s.history, Members(s.pending)))

\* The parts of the invariant, by session.
LEMMA PairingParts ==
  ASSUME SessionInv, Pairing
  PROVE  /\ store # None => PairedSession(store)
         /\ Held # None => PairedSession(Held)
         /\ \A id \in Ids : db[id] # None => WellPaired(db[id])
BY DEF Pairing, PairedSession

\* A command that returns leaves paired what the store has then.
LEMMA PairEnds ==
  ASSUME SessionInv, Pairing, run' = None, UNCHANGED db,
         store' = store \/ store' = None \/ PairedSession(store')
  PROVE  Pairing'
BY PairingParts DEF Pairing, PairedSession, Held

\* A command that goes on leaves paired what it has.
LEMMA PairGoes ==
  ASSUME SessionInv, Pairing, NEW r \in Request, NEW s \in Session, NEW todo \in Seq(Calls),
         NEW pc \in {"single", "top", "llm", "exec", "backoff"}, GoOn(r, s, pc, todo),
         store' = store \/ store' = None, PairedSession(s),
         pc = "top" /\ s.state = "ExecutingTool" => Answerable(s.history, {}),
         pc \in {"exec", "backoff"} => Answerable(s.history, Members(todo))
  PROVE  Pairing'
<1>1. /\ run' # None /\ run'.session = s /\ run'.pc = pc /\ run'.todo = todo /\ UNCHANGED db
      /\ s # None
  BY GoesHeld, SessionFields
<1>2. Held' = s
  BY <1>1 DEF Held
<1>3. \A x \in {store', s} \ {None} : PairedSession(x)
  BY PairingParts
<1>4. \A x \in {store, Held}' \ {None} :
        WellPaired(x.history) /\ (Awaiting(x) => Answerable(x.history, Members(x.pending)))
  BY <1>2, <1>3 DEF PairedSession
<1>5. \A id \in Ids : db'[id] # None => WellPaired(db'[id])
  BY <1>1, PairingParts
<1> QED
  BY <1>1, <1>4, <1>5 DEF Pairing

\* What the user does.
LEMMA UserPairs ==
  ASSUME SessionInv, Pairing, Patient, ~Interjects, UserStep
  PROVE  Pairing'
<1>1. ASSUME UNCHANGED <<store, run, db>>
      PROVE  Pairing'
  BY <1>1 DEF Pairing, Held
<1>2. CASE SendMessage \/ (\E i \in 1..MaxBatch : ApproveTool(i) \/ RejectTool(i)) \/ ApproveCard \/ RejectCard
  BY <1>1, <1>2, UserIssues
<1>3. CASE Cancel /\ UNCHANGED <<store, run, db>>
  BY <1>1, <1>3
<1>4. CASE Reset
  <2>1. run' = None /\ UNCHANGED db /\ store' = None
    BY <1>4, Idle DEF Reset, Open
  <2> QED
    BY <2>1, PairEnds
<1>5. ASSUME NEW id \in Ids, Load(id)
      PROVE  Pairing'
  <2>1. run' = None /\ UNCHANGED db /\ store' = Restored(id) /\ db[id] # None
    BY <1>5, Idle DEF Load, Open
  <2>2. PairedSession(Restored(id))
    BY <2>1, PairingParts DEF PairedSession, Restored, Awaiting
  <2> QED
    BY <2>1, <2>2, PairEnds
<1>6. CASE RemindOfWorkspace
  <2>1. /\ run' = None /\ UNCHANGED db /\ store \in Session /\ ~Awaiting(store)
        /\ store' = [store EXCEPT !.history = Append(@, User)]
    BY <1>6, Idle, Typed DEF RemindOfWorkspace, Open
  <2>2. store'.history = Append(store.history, User) /\ store'.state = store.state
    BY <2>1 DEF Session
  <2>3. User.role # "tool" /\ User \in Message /\ store.history \in Seq(Message)
        /\ WellPaired(store.history)
    BY <2>1, Messages, SessionFields, PairingParts DEF User, PairedSession
  <2>4. WellPaired(store'.history)
    BY <2>2, <2>3, MessagePaired
  <2>5. PairedSession(store')
    BY <2>1, <2>2, <2>4, SessionFields DEF PairedSession, Awaiting
  <2> QED
    BY <2>1, <2>5, PairEnds
<1>7. CASE Save /\ UNCHANGED <<store, run>>
  <2>1. db' = [db EXCEPT ![view] = ToSave(store, view)] /\ view \in Ids
    BY <1>7 DEF Save
  <2>2. WellPaired(ToSave(store, view))
    <3>1. WellPaired(<<>>)
      BY DEF WellPaired
    <3> QED
      BY <3>1, PairingParts DEF ToSave, PairedSession
  <2>3. \A id \in Ids : db'[id] # None => WellPaired(db'[id])
    BY <2>1, <2>2, Typed, PairingParts
  <2> QED
    BY <1>7, <2>3 DEF Pairing, Held
<1> QED
  BY <1>1, <1>2, <1>3, <1>4, <1>5, <1>6, <1>7, UserSteps DEF ShowOpened

\* A command that fails.
LEMMA FailPairs ==
  ASSUME SessionInv, Pairing, run # None, NEW s \in Session, WellPaired(s.history),
         Fail(run.request, s)
  PROVE  Pairing'
<1> DEFINE e == [s EXCEPT !.state = "Error"]
<1>1. e.state = "Error" /\ e.history = s.history /\ e \in Session
  BY DEF Session
<1>2. PairedSession(e)
  BY <1>1, SessionFields DEF PairedSession, Awaiting
<1>3. run' = None /\ UNCHANGED db
  BY DEF Fail, ReturnError, Return
<1>4. store' = e \/ store' = store
  BY DEF Fail, PutBack
<1> HIDE DEF e
<1> QED
  BY <1>2, <1>3, <1>4, PairEnds

\* A command that returns with the session.
LEMMA BackPairs ==
  ASSUME SessionInv, Pairing, PairedSession(store'), NEW r, NEW kind, NEW calls, NEW w,
         Return(r, kind, calls, w)
  PROVE  Pairing'
BY PairEnds DEF Return

LEMMA PendingPairs ==
  ASSUME SessionInv, Pairing, NEW r, NEW s, PairedSession(s), ReturnPending(r, s) \/ ReturnRest(r, s)
  PROVE  Pairing'
<1>1. store' = s /\ run' = None /\ UNCHANGED db
  BY DEF ReturnPending, ReturnRest, PutBack, Return
<1> QED
  BY <1>1, PairEnds

\* The commands that start.
LEMMA StartPairs ==
  ASSUME SessionInv, Pairing, OneCommand, StartSend \/ StartDecision
  PROVE  Pairing'
<1>1. queue # <<>> /\ run = None /\ Head(queue) \in Request
  BY Typed DEF StartSend, StartDecision
<1>2. ASSUME ReturnError(Head(queue)), UNCHANGED store
      PROVE  Pairing'
  BY <1>2, PairEnds DEF ReturnError, Return
<1>3. CASE StartDecision
  <2>1. CASE ~Awaiting(store)
    BY <1>2, <1>3, <2>1 DEF StartDecision
  <2>2. CASE Awaiting(store)
    <3>1. /\ run' = [request |-> Head(queue), session |-> None, todo |-> <<>>, pc |-> "take"]
          /\ UNCHANGED <<store, db>>
      BY <1>3, <2>2 DEF StartDecision, GoOn
    <3>2. Held' = None /\ (run' # None => run'.pc = "take")
      BY <3>1 DEF Held
    <3> QED
      BY <3>1, <3>2, PairingParts DEF Pairing, PairedSession
  <2> QED
    BY <2>1, <2>2
<1>4. ASSUME NEW s \in Session, WellPaired(s.history), ~Awaiting(s), store' = None,
             GoOn(Head(queue), Sent(s), "top", <<>>)
      PROVE  Pairing'
  <2> DEFINE h == Append(s.history, User)
  <2>1. /\ Sent(s).state = "Idle" /\ Sent(s).history = h
    BY <1>4, SessionFields DEF Sent, Session, Awaiting
  <2>2. User \in Message /\ User.role # "tool" /\ s.history \in Seq(Message)
    BY Messages, SessionFields DEF User
  <2>3. WellPaired(h) /\ h \in Seq(Message)
    BY <1>4, <2>2, MessagePaired
  <2> HIDE DEF h
  <2>4. Sent(s) \in Session
    <3>1. Sent(s) = [s EXCEPT !.state = "Idle", !.history = h]
      BY <1>4, SessionFields DEF Sent, Awaiting, h
    <3> QED
      BY <2>3, <3>1 DEF Session
  <2>5. PairedSession(Sent(s)) /\ <<>> \in Seq(Calls)
    BY <2>1, <2>3 DEF PairedSession, Awaiting
  <2> QED
    BY <1>1, <1>4, <2>1, <2>4, <2>5, PairGoes
<1>5. CASE StartSend
  <2>1. \/ ReturnError(Head(queue)) /\ UNCHANGED store
        \/ /\ GoOn(Head(queue), Sent(IF store = None THEN Fresh ELSE store), "top", <<>>)
           /\ store' = None
    BY <1>5 DEF StartSend
  <2>2. Fresh \in Session /\ WellPaired(Fresh.history) /\ ~Awaiting(Fresh)
    BY <1>1, FreshTyped DEF Fresh, WellPaired, Awaiting
  <2>3. store # None => store \in Session /\ WellPaired(store.history) /\ ~Awaiting(store)
    BY <1>5, Typed, PairingParts DEF OneCommand, StartSend, PairedSession
  <2>4. CASE store = None
    BY <1>2, <1>4, <2>1, <2>2, <2>4
  <2>5. CASE store # None
    BY <1>2, <1>4, <2>1, <2>3, <2>5
  <2> QED
    BY <2>4, <2>5
<1> QED
  BY <1>3, <1>5

\* The members of a batch without one of its calls.
LEMMA WithoutMembers ==
  ASSUME NEW seq \in Seq(Calls), NEW i \in DOMAIN seq
  PROVE  /\ Members(Without(seq, i)) \subseteq Members(seq) /\ seq[i] \in Members(seq)
         /\ seq[i] \in Calls
<1>1. /\ Without(seq, i) \in Seq(Calls) /\ Len(Without(seq, i)) = Len(seq) - 1
      /\ \A k \in DOMAIN Without(seq, i) : Without(seq, i)[k] = IF k < i THEN seq[k] ELSE seq[k + 1]
  BY WithoutOne
<1>2. /\ DOMAIN Without(seq, i) = 1..(Len(seq) - 1) /\ DOMAIN seq = 1..Len(seq) /\ Len(seq) \in Nat
  BY <1>1
<1>3. ASSUME NEW k \in DOMAIN Without(seq, i)
      PROVE  Without(seq, i)[k] \in Members(seq)
  <2>1. k \in DOMAIN seq /\ k + 1 \in DOMAIN seq
    BY <1>2
  <2> QED
    BY <1>1, <2>1 DEF Members
<1> QED
  BY <1>3 DEF Members

\* A call that was pending is answered.
LEMMA SettledPairs ==
  ASSUME NEW s \in Session, Sound(s), NEW i \in DOMAIN s.pending, Awaiting(s), PairedSession(s)
  PROVE  PairedSession(Settled(s, i)) /\ Settled(s, i) \in Session
<1>1. /\ Settled(s, i) \in Session
      /\ Settled(s, i).pending = Without(s.pending, i)
      /\ Settled(s, i).history = Append(s.history, Result(s.pending[i]))
      /\ s.history \in Seq(Message) /\ s.pending \in Seq(Calls)
  BY SettledTyped, SessionFields
<1>2. /\ Members(Without(s.pending, i)) \subseteq Members(s.pending)
      /\ s.pending[i] \in Members(s.pending) /\ s.pending[i] \in Calls
  BY <1>1, WithoutMembers
<1>3. WellPaired(s.history) /\ Answerable(s.history, Members(s.pending))
  BY DEF PairedSession
<1>4. /\ WellPaired(Settled(s, i).history)
      /\ Answerable(Settled(s, i).history, Members(s.pending))
  BY <1>1, <1>2, <1>3, ResultPaired
<1> QED
  BY <1>1, <1>2, <1>4, AnswerableLess DEF PairedSession

\* The commands that take the session of a batch that waits.
LEMMA TakePairs ==
  ASSUME SessionInv, Pairing, OneCommand, TakeNothing \/ TakeRejected \/ TakeApproved
  PROVE  Pairing'
<1>1. run # None /\ run.pc = "take" /\ run.request \in Request /\ Awaiting(store)
  BY RunFields DEF TakeNothing, TakeRejected, TakeApproved, OneCommand
<1>2. CASE TakeNothing
  BY <1>2, PairEnds DEF TakeNothing, ReturnError, Return
<1>3. ASSUME store # None
      PROVE  /\ store \in Session /\ Sound(store) /\ PairedSession(store)
             /\ store.history \in Seq(Message) /\ store.pending \in Seq(Calls)
             /\ WellPaired(store.history) /\ Answerable(store.history, Members(store.pending))
             /\ PendingOf(store) = store.pending
  BY <1>1, <1>3, Typed, SessionFields, PairingParts DEF PairedSession, PendingOf
<1>4. <<>> \in Seq(Calls)
  OBVIOUS
<1>5. ASSUME store # None, NEW x \in {"Thinking", "ExecutingTool"},
             store' = None, GoOn(run.request, [store EXCEPT !.state = x, !.pending = <<>>], "top", <<>>)
      PROVE  Pairing'
  <2> DEFINE s == [store EXCEPT !.state = x, !.pending = <<>>]
  <2>1. s \in Session
    BY <1>3, <1>5, Emptied DEF States
  <2>2. s.history = store.history /\ s.state = x /\ x # "AwaitingApproval"
    BY <1>3, <1>5 DEF Session
  <2>3. PairedSession(s) /\ Answerable(s.history, {})
    BY <1>3, <1>5, <2>2, AnswerableLess DEF PairedSession, Awaiting
  <2> HIDE DEF s
  <2>4. GoOn(run.request, s, "top", <<>>)
    BY <1>5 DEF s
  <2> QED
    BY <1>1, <1>4, <1>5, <2>1, <2>3, <2>4, PairGoes
<1>6. CASE TakeApproved
  <2>1. store # None /\ store' = None
    BY <1>6 DEF TakeApproved
  <2>2. store.state # "ExecutingTool"
    BY <1>1 DEF Awaiting
  <2>3. ASSUME GoOn(run.request, store, "top", <<>>)
        PROVE  Pairing'
    BY <1>1, <1>3, <1>4, <2>1, <2>2, <2>3, PairGoes
  <2>4. ASSUME run.request.index \in DOMAIN PendingOf(store),
               GoOn(run.request, store, "single", <<store.pending[run.request.index]>>)
        PROVE  Pairing'
    <3>1. <<store.pending[run.request.index]>> \in Seq(Calls)
      BY <1>3, <2>1, <2>4
    <3> QED
      BY <1>1, <1>3, <2>1, <2>4, <3>1, PairGoes
  <2> QED
    BY <1>5, <1>6, <2>1, <2>3, <2>4 DEF TakeApproved
<1>7. CASE TakeRejected
  <2>1. store # None
    BY <1>7 DEF TakeRejected
  <2>2. ASSUME run.request.index \in DOMAIN PendingOf(store)
        PROVE  /\ PairedSession(Settled(store, run.request.index))
               /\ Settled(store, run.request.index) \in Session
               /\ Settled(store, run.request.index).state # "ExecutingTool"
    BY <1>1, <1>3, <2>1, <2>2, SettledPairs, SettledTyped
  <2>3. ASSUME run.request.index \in DOMAIN PendingOf(store),
               ReturnRest(run.request, Settled(store, run.request.index))
        PROVE  Pairing'
    BY <2>2, <2>3, PendingPairs
  <2>4. ASSUME run.request.index \in DOMAIN PendingOf(store),
               GoOn(run.request, Settled(store, run.request.index), "top", <<>>), store' = None
        PROVE  Pairing'
    BY <1>1, <1>4, <2>2, <2>4, PairGoes
  <2> DEFINE t == Answers(PendingOf(store))
             h == store.history \o t
             s == [store EXCEPT !.state = "Thinking", !.pending = <<>>, !.history = h]
  <2>5. ASSUME GoOn(run.request, [store EXCEPT !.state = "Thinking", !.pending = <<>>,
                                    !.history = @ \o Answers(PendingOf(store))], "top", <<>>),
               store' = None
        PROVE  Pairing'
    <3>1. t \in Seq(Message) /\ \A k \in DOMAIN t : t[k].role = "tool" /\ t[k].calls[1] \in Members(store.pending)
      BY <1>3, <2>1, Messages DEF Answers, Members, Result
    <3>2. s = [store EXCEPT !.state = "Thinking", !.pending = <<>>,
                            !.history = @ \o Answers(PendingOf(store))]
      BY <1>3, <2>1 DEF Session
    <3> HIDE DEF t
    <3>3. h \in Seq(Message)
      BY <1>3, <2>1, <3>1
    <3>4. WellPaired(h)
      BY <1>3, <2>1, <3>1, ResultsBelong
    <3> HIDE DEF h
    <3>5. s \in Session /\ s.state = "Thinking" /\ s.history = h
      <4>1. "Thinking" \in States \ {"AwaitingApproval"}
        BY DEF States
      <4>2. s \in Session
        BY <1>3, <2>1, <3>3, <4>1, Emptied
      <4> QED
        BY <1>3, <2>1, <4>2 DEF Session
    <3>6. PairedSession(s)
      BY <3>4, <3>5 DEF PairedSession, Awaiting
    <3> HIDE DEF s
    <3> QED
      BY <1>1, <1>4, <2>5, <3>2, <3>5, <3>6, PairGoes
  <2>6. ASSUME GoOn(run.request, [store EXCEPT !.state = "Thinking", !.pending = <<>>], "top", <<>>),
               store' = None
        PROVE  Pairing'
    BY <1>5, <2>1, <2>6
  <2> HIDE DEF s, h, t
  <2> QED
    BY <1>7, <2>3, <2>4, <2>5, <2>6, Zenon DEF TakeRejected
<1> QED
  BY <1>2, <1>6, <1>7

\* The single call that was approved returns.
LEMMA SinglePairs ==
  ASSUME SessionInv, Pairing, FinishSingle
  PROVE  Pairing'
<1> DEFINE s == Settled(run.session, run.request.index)
<1>1. /\ run # None /\ run.session \in Session /\ Sound(run.session) /\ run.request \in Request
      /\ Awaiting(run.session) /\ run.request.index \in DOMAIN run.session.pending
  BY RunFields DEF FinishSingle, AtItsPlace
<1>2. PairedSession(run.session)
  BY <1>1, PairingParts, SessionFields DEF Held
<1>3. PairedSession(s) /\ s \in Session /\ s.state # "ExecutingTool" /\ <<>> \in Seq(Calls)
  BY <1>1, <1>2, SettledPairs, SettledTyped
<1>4. \/ ReturnRest(run.request, s)
      \/ GoOn(run.request, s, "top", <<>>) /\ UNCHANGED store
  BY DEF FinishSingle
<1> HIDE DEF s
<1> QED
  BY <1>1, <1>3, <1>4, PairGoes, PendingPairs

\* The steps at the top of the loop.
LEMMA TickPairs ==
  ASSUME SessionInv, Pairing, TickStep
  PROVE  Pairing'
<1>1. /\ run # None /\ run.pc = "top" /\ run.session \in Session /\ Sound(run.session)
      /\ run.request \in Request
      /\ run.session.history \in Seq(Message) /\ <<>> \in Seq(Calls)
  BY RunFields, SessionFields
     DEF TickStep, CancelAtTop, TickSpent, TickLimit, TickThink, TickExecute, TickNoCalls,
         TickAwait, AtTick
<1>2. PairedSession(run.session)
  BY <1>1, PairingParts, SessionFields DEF Held
<1>3. WellPaired(run.session.history)
  BY <1>2 DEF PairedSession
<1>4. CASE CancelAtTop
  BY <1>2, <1>4, BackPairs DEF CancelAtTop, PutBack
<1>5. CASE TickSpent \/ TickNoCalls
  BY <1>1, <1>3, <1>5, FailPairs DEF TickSpent, TickNoCalls
<1>6. CASE TickLimit
  <2> DEFINE s == [run.session EXCEPT !.state = "Finished", !.pending = <<>>]
  <2>1. s.history = run.session.history /\ s.state = "Finished"
    BY <1>1 DEF Session
  <2>2. PairedSession(s)
    BY <1>3, <2>1 DEF PairedSession, Awaiting
  <2> HIDE DEF s
  <2>3. store' = s /\ Return(run.request, "text", <<>>, s.id)
    BY <1>6 DEF TickLimit, ReturnText, PutBack, s
  <2> QED
    BY <2>2, <2>3, BackPairs
<1>7. CASE TickThink
  <2> DEFINE h == Compacted(run.session.history)
             s == [run.session EXCEPT !.state = "Thinking", !.history = h]
  <2>1. h \in Seq(Message) /\ WellPaired(h)
    BY <1>1, <1>3, CompactedKeepsPairs
  <2>2. s = [run.session EXCEPT !.state = "Thinking", !.history = Compacted(@)]
    BY <1>1 DEF Session
  <2> HIDE DEF h
  <2>3. s \in Session /\ s.history = h /\ s.state = "Thinking"
    BY <1>1, <2>1 DEF Session
  <2>4. PairedSession(s)
    BY <2>1, <2>3 DEF PairedSession, Awaiting
  <2> HIDE DEF s
  <2>5. GoOn(run.request, s, "llm", <<>>) /\ UNCHANGED store
    BY <1>7, <2>2 DEF TickThink
  <2> QED
    BY <1>1, <2>3, <2>4, <2>5, PairGoes
<1>8. CASE TickExecute
  <2> DEFINE calls == LastCalls(run.session.history)
  <2>1. calls \in Seq(Calls)
    BY <1>1, LastCallsTyped
  <2>2. run.session.state = "ExecutingTool" /\ GoOn(run.request, run.session, "exec", calls)
        /\ UNCHANGED store
    BY <1>8 DEF TickExecute
  <2>3. Answerable(run.session.history, Members(calls))
    BY <1>1, <2>2, AnswerableIsLast DEF Pairing
  <2> HIDE DEF calls
  <2> QED
    BY <1>1, <1>2, <2>1, <2>2, <2>3, PairGoes
<1>9. CASE TickAwait
  BY <1>2, <1>9, PendingPairs DEF TickAwait
<1> QED
  BY <1>4, <1>5, <1>6, <1>7, <1>8, <1>9 DEF TickStep

\* The answers of the model.
LEMMA ModelPairs ==
  ASSUME SessionInv, Pairing, ModelStep
  PROVE  Pairing'
<1>1. /\ run # None /\ run.session \in Session /\ Sound(run.session) /\ Able(run.session)
      /\ run.request \in Request
      /\ run.session.history \in Seq(Message) /\ <<>> \in Seq(Calls)
  <2>1. run # None /\ run.pc = "llm"
    BY DEF ModelStep, ModelFails, ModelSpends, ModelFinishes, ModelAsks, ModelReads, AtModel
  <2> QED
    BY <2>1, RunFields, SessionFields DEF AtItsPlace
<1>2. WellPaired(run.session.history)
  BY <1>1, PairingParts, SessionFields DEF Held, PairedSession
<1>3. /\ Counted(run.session) \in Session
      /\ Counted(run.session).history = run.session.history
  BY <1>1, CountedTyped
<1>4. CASE ModelFails
  BY <1>1, <1>2, <1>4, FailPairs DEF ModelFails
<1>5. CASE ModelSpends
  <2>1. /\ [Counted(run.session) EXCEPT !.spent = TRUE] \in Session
        /\ [Counted(run.session) EXCEPT !.spent = TRUE].history = run.session.history
    BY <1>3 DEF Session
  <2> QED
    BY <1>1, <1>2, <1>5, <2>1, FailPairs DEF ModelSpends
<1>6. CASE ModelFinishes
  <2> DEFINE h == Append(run.session.history, Text)
             s == [Counted(run.session) EXCEPT !.history = h, !.state = "Finished"]
  <2>1. s = [Counted(run.session) EXCEPT !.history = Append(@, Text), !.state = "Finished"]
    BY <1>3 DEF Session
  <2>2. WellPaired(h)
    BY <1>1, <1>2, Messages, MessagePaired DEF Text
  <2> HIDE DEF h
  <2>3. s.history = h /\ s.state = "Finished"
    BY <1>3 DEF Session
  <2>4. PairedSession(s)
    BY <2>2, <2>3 DEF PairedSession, Awaiting
  <2> HIDE DEF s
  <2>5. store' = s /\ Return(run.request, "text", <<>>, s.id)
    BY <1>6, <2>1 DEF ModelFinishes, ReturnText, PutBack
  <2> QED
    BY <2>4, <2>5, BackPairs
<1>7. ASSUME NEW n \in 1..MaxBatch, ModelAsks(n) \/ ModelReads(n)
      PROVE  Pairing'
  <2> DEFINE calls == NewCalls(n)
             e == [Asked(run.session, calls) EXCEPT !.state = "ExecutingTool"]
             p == [Asked(run.session, calls) EXCEPT !.state = "AwaitingApproval", !.pending = calls]
             h == Append(run.session.history, Asks(calls))
  <2>1. calls \in Seq(Calls) /\ calls # <<>> /\ Len(calls) <= MaxBatch
    BY <1>7, NewCallsTyped DEF ModelAsks, ModelReads
  <2>2. \/ ReturnPending(run.request, p)
        \/ PutBack(e) /\ Return(run.request, "text", <<>>, e.id)
        \/ GoOn(run.request, e, "top", <<>>) /\ UNCHANGED store
    BY <1>7 DEF ModelAsks, ModelReads, ReturnText
  <2> HIDE DEF calls
  <2>3. /\ e \in Session /\ e.history = h /\ e.state = "ExecutingTool"
        /\ p.history = h /\ p.pending = calls
    <3>1. e \in Session /\ e.history = h /\ e.state = "ExecutingTool"
      BY <1>1, <2>1, AskedTyped
    <3>2. p.history = e.history /\ p.pending = calls
      BY <1>1, <2>1, AskedTyped
    <3> QED
      BY <3>1, <3>2
  <2>4. Asks(calls) \in Message /\ Asks(calls).role # "tool"
    BY <2>1, Messages DEF Asks
  <2>5. WellPaired(h) /\ Answerable(h, Members(calls))
    BY <1>1, <1>2, <2>1, <2>4, MessagePaired, AsksAnswerable
  <2> HIDE DEF h, e, p
  <2>6. PairedSession(e) /\ PairedSession(p) /\ Answerable(e.history, {})
    BY <2>3, <2>5, AnswerableLess DEF PairedSession, Awaiting
  <2> QED
    BY <1>1, <2>2, <2>3, <2>6, PairGoes, PendingPairs, BackPairs DEF PutBack
<1> QED
  BY <1>4, <1>5, <1>6, <1>7 DEF ModelStep

\* The tools of a batch.
LEMMA ToolPairs ==
  ASSUME SessionInv, Pairing, ToolStep
  PROVE  Pairing'
<1>1. /\ run # None /\ run.session \in Session /\ Sound(run.session) /\ run.request \in Request
      /\ run.todo \in Seq(Calls) /\ run.session.history \in Seq(Message)
      /\ run.pc = "exec" => run.todo # <<>>
  BY RunFields, SessionFields
     DEF ToolStep, ToolReturns, ToolFailsForNow, EndBackoff, ToolFailsForGood, CancelTick,
         TimeOutTick, AtTool, AtAwait, AtItsPlace
<1>2. PairedSession(run.session)
  BY <1>1, PairingParts, SessionFields DEF Held
<1>3. CASE CancelTick \/ TimeOutTick
  BY <1>2, <1>3, BackPairs DEF CancelTick, TimeOutTick, PutBack, ReturnError
<1>4. ASSUME NEW s \in Session, PairedSession(s), NEW rest \in Seq(Calls),
             Answerable(s.history, Members(rest)), NextTool(run.request, s, rest)
      PROVE  Pairing'
  <2> DEFINE t == [s EXCEPT !.state = "Thinking"]
  <2>1. t \in Session /\ t.history = s.history /\ t.state = "Thinking" /\ <<>> \in Seq(Calls)
    BY DEF Session
  <2>2. PairedSession(t)
    BY <1>4, <2>1 DEF PairedSession, Awaiting
  <2> HIDE DEF t
  <2>3. /\ UNCHANGED store
        /\ GoOn(run.request, t, "top", <<>>) \/ GoOn(run.request, s, "exec", rest)
    BY <1>4 DEF NextTool, t
  <2> QED
    BY <1>1, <1>4, <2>1, <2>2, <2>3, PairGoes
<1> DEFINE h == Append(run.session.history, Result(Head(run.todo)))
           a == [run.session EXCEPT !.history = h]
<1>5. ASSUME AtTool
      PROVE  /\ a \in Session /\ PairedSession(a) /\ WellPaired(a.history)
             /\ Tail(run.todo) \in Seq(Calls) /\ Answerable(a.history, Members(Tail(run.todo)))
             /\ Resulted(run.session, Head(run.todo)) = a
  <2>1. /\ Head(run.todo) \in Calls /\ Head(run.todo) \in Members(run.todo)
        /\ Tail(run.todo) \in Seq(Calls) /\ Members(Tail(run.todo)) \subseteq Members(run.todo)
    BY <1>1, <1>5, HeadAndTail DEF AtTool
  <2>2. h \in Seq(Message)
    BY <1>1, <2>1, Messages
  <2>3. Answerable(run.session.history, Members(run.todo))
    BY <1>1, <1>5 DEF AtTool, Pairing
  <2>4. WellPaired(h) /\ Answerable(h, Members(run.todo))
    BY <1>1, <1>2, <2>1, <2>3, ResultPaired DEF PairedSession
  <2>5. Answerable(h, Members(Tail(run.todo)))
    BY <2>1, <2>4, AnswerableLess
  <2>6. Resulted(run.session, Head(run.todo)) = a
    BY DEF Resulted
  <2>7. Answerable(run.session.history, Members(run.session.pending)) => Answerable(h, Members(run.session.pending))
    <3>1. ASSUME Answerable(run.session.history, Members(run.session.pending))
          PROVE  Answerable(h, Members(run.session.pending))
      <4> DEFINE both == Members(run.todo) \cup Members(run.session.pending)
      <4>1. Answerable(run.session.history, both)
        <5> DEFINE last == Members(LastCalls(run.session.history))
        <5>1. Members(run.todo) \subseteq last /\ Members(run.session.pending) \subseteq last
              /\ Answerable(run.session.history, last)
          BY <1>1, <2>3, <3>1, AnswerableIsLast
        <5> HIDE DEF last
        <5> QED
          BY <5>1, AnswerableLess
      <4>2. Head(run.todo) \in both /\ Members(run.session.pending) \subseteq both
        BY <2>1
      <4> HIDE DEF both
      <4>3. Answerable(h, both)
        BY <1>1, <1>2, <2>1, <4>1, <4>2, ResultPaired DEF PairedSession
      <4> QED
        BY <4>2, <4>3, AnswerableLess
    <3> QED
      BY <3>1
  <2> HIDE DEF h
  <2>8. a \in Session /\ a.history = h /\ a.state = run.session.state /\ a.pending = run.session.pending
    BY <1>1, <2>2 DEF Session
  <2> HIDE DEF a
  <2>9. PairedSession(a)
    <3>1. WellPaired(a.history)
      BY <2>4, <2>8
    <3>2. ASSUME Awaiting(a)
          PROVE  Answerable(a.history, Members(a.pending))
      <4>1. Awaiting(run.session)
        BY <1>1, <2>8, <3>2, SessionFields DEF Awaiting
      <4>2. Answerable(run.session.history, Members(run.session.pending))
        BY <1>2, <4>1 DEF PairedSession
      <4> QED
        BY <2>7, <2>8, <4>2
    <3> QED
      BY <3>1, <3>2 DEF PairedSession
  <2> QED
    BY <2>1, <2>4, <2>5, <2>6, <2>8, <2>9
<1> HIDE DEF a
<1>6. CASE ToolReturns
  BY <1>4, <1>5, <1>6 DEF ToolReturns
<1>7. CASE ToolFailsForNow
  BY <1>1, <1>5, <1>7, PairGoes DEF ToolFailsForNow
<1>8. CASE EndBackoff
  BY <1>1, <1>2, <1>4, <1>8 DEF EndBackoff, Pairing
<1>9. CASE ToolFailsForGood
  BY <1>1, <1>5, <1>9, FailPairs DEF ToolFailsForGood
<1> QED
  BY <1>3, <1>6, <1>7, <1>8, <1>9 DEF ToolStep

\* Every step keeps the histories paired.
LEMMA PairingStep ==
  ASSUME SessionInv, Pairing, OneCommand, Patient, ~Interjects, [Next]_vars
  PROVE  Pairing'
<1>1. CASE UNCHANGED vars
  BY <1>1 DEF vars, Pairing, Held
<1> QED
  BY <1>1, Steps, UserPairs, StartPairs, TakePairs, SinglePairs, TickPairs, ModelPairs, ToolPairs

\* compact_history says that a tool message must follow the assistant message with its
\* call.  It always does, through rejections, cancels, timeouts, compaction and reloads,
\* as long as the user waits for answers and sends nothing while calls are pending.
THEOREM Paired ==
  ASSUME Patient, ~Interjects
  PROVE  Spec => []HistoriesArePaired
<1>1. Init => OneCommand /\ Pairing
  BY DEF Init, OneCommand, InProgress, Pairing, Held
<1>2. SessionInv /\ OneCommand /\ Pairing /\ [Next]_vars => OneCommand' /\ Pairing'
  BY OneCommandStep, PairingStep
<1>3. Pairing => HistoriesArePaired
  BY DEF Pairing, HistoriesArePaired
<1> QED
  BY SessionInvariance, <1>1, <1>2, <1>3, PTL DEF Spec

----------------------------------------------------------------------------
(* Batches without repetitions.                                            *)

\* What is left of a batch without one of its calls.
LEMMA DistinctWithout ==
  ASSUME NEW seq \in Seq(Calls), Distinct(seq), NEW i \in DOMAIN seq
  PROVE  /\ Distinct(Without(seq, i)) /\ seq[i] \notin Members(Without(seq, i))
         /\ Members(Without(seq, i)) \subseteq Members(seq)
<1> DEFINE rest == Without(seq, i)
           at(k) == IF k < i THEN k ELSE k + 1
<1>1. /\ rest \in Seq(Calls) /\ DOMAIN rest = 1..(Len(seq) - 1)
      /\ DOMAIN seq = 1..Len(seq) /\ Len(seq) \in Nat /\ i \in 1..Len(seq)
      /\ \A k \in DOMAIN rest : rest[k] = IF k < i THEN seq[k] ELSE seq[k + 1]
  <2>1. rest \in Seq(Calls) /\ Len(rest) = Len(seq) - 1
    BY WithoutOne
  <2>2. Len(seq) \in Nat /\ DOMAIN seq = 1..Len(seq) /\ i \in 1..Len(seq)
    OBVIOUS
  <2>3. DOMAIN rest = 1..Len(rest)
    BY <2>1
  <2>4. \A k \in DOMAIN rest : rest[k] = IF k < i THEN seq[k] ELSE seq[k + 1]
    BY WithoutOne
  <2> HIDE DEF rest
  <2> QED
    BY <2>1, <2>2, <2>3, <2>4
<1> HIDE DEF rest
<1>2. ASSUME NEW k \in DOMAIN rest
      PROVE  at(k) \in DOMAIN seq /\ at(k) # i /\ rest[k] = seq[at(k)]
  BY <1>1
<1>3. ASSUME NEW k \in DOMAIN rest, NEW m \in DOMAIN rest, at(k) = at(m)
      PROVE  k = m
  BY <1>1, <1>3
<1> HIDE DEF at
<1>4. Distinct(rest)
  BY <1>2, <1>3 DEF Distinct
<1>5. seq[i] \notin Members(rest)
  BY <1>2 DEF Distinct, Members
<1> QED
  BY <1>4, <1>5, WithoutMembers DEF rest

\* What is left of a batch without its first call.
LEMMA DistinctTail ==
  ASSUME NEW seq \in Seq(Calls), Distinct(seq), seq # <<>>
  PROVE  Distinct(Tail(seq)) /\ Head(seq) \notin Members(Tail(seq))
<1>1. /\ Len(seq) \in Nat /\ Len(seq) > 0 /\ DOMAIN seq = 1..Len(seq)
      /\ DOMAIN Tail(seq) = 1..(Len(seq) - 1) /\ Head(seq) = seq[1]
      /\ \A k \in 1..(Len(seq) - 1) : Tail(seq)[k] = seq[k + 1]
  OBVIOUS
<1>2. \A k \in 1..(Len(seq) - 1) : k + 1 \in DOMAIN seq /\ k + 1 # 1 /\ 1 \in DOMAIN seq
  BY <1>1
<1>3. \A k, m \in 1..(Len(seq) - 1) : k + 1 = m + 1 => k = m
  BY <1>1
<1>4. Distinct(Tail(seq))
  BY <1>1, <1>2, <1>3 DEF Distinct
<1>5. Head(seq) \notin Members(Tail(seq))
  BY <1>1, <1>2 DEF Distinct, Members
<1> QED
  BY <1>4, <1>5

\* The calls of a batch.
LEMMA MembersAreCalls ==
  ASSUME NEW seq \in Seq(Calls)
  PROVE  /\ Members(seq) \subseteq Calls
         /\ \A i \in DOMAIN seq : seq[i] \in Members(seq)
BY DEF Members

\* An empty batch.
LEMMA EmptyBatch ==
  /\ Distinct(<<>>) /\ Members(<<>>) = {} /\ <<>> \in Seq(Calls)
  /\ \A verdicts : Due(<<>>, verdicts)
BY DEF Distinct, Members, Due

----------------------------------------------------------------------------
(* The steps of the abstract specification.                                *)

\* A step that it takes or that it does not see.
Promised == [Approval!Next]_(Approval!vars)

\* Nothing happens to the calls.
LEMMA NothingRuns ==
  ASSUME KnownCalls, UNCHANGED <<verdict, runs>>
  PROVE  KnownCalls' /\ Promised
BY DEF KnownCalls, Promised, Approval!vars

\* A call that is due starts.
LEMMA DueRuns ==
  ASSUME SessionInv, KnownCalls, NEW c \in Calls, Started(c), UNCHANGED verdict,
         verdict[c] \in {"free", "granted"}, runs[c] = 0
  PROVE  KnownCalls' /\ Promised
<1>1. /\ \A d \in Calls : d # c => runs'[d] = runs[d]
      /\ runs' = [runs EXCEPT ![c] = 1]
  BY OneStarts DEF Started
<1>2. KnownCalls'
  BY <1>1 DEF KnownCalls
<1>3. Approval!Run(c)
  BY <1>1 DEF Approval!Run
<1> QED
  BY <1>2, <1>3 DEF Promised, Approval!Next

\* The user decides.
LEMMA DecidedOn ==
  ASSUME SessionInv, KnownCalls, NEW positions \in SUBSET (DOMAIN card.calls),
         NEW v \in {"granted", "denied"}, Click(positions, v), UNCHANGED runs
  PROVE  KnownCalls' /\ Promised
<1> DEFINE batch == {card.calls[i] : i \in positions}
<1>1. verdict' = [c \in Calls |-> IF c \in batch /\ verdict[c] = "asked" THEN v ELSE verdict[c]]
  BY DEF Click
<1>2. batch \in SUBSET Calls
  BY Typed
<1> HIDE DEF batch
<1>3. Approval!Decide(batch)
  BY <1>1 DEF Approval!Decide
<1>4. \A c \in Calls : verdict'[c] = "new" <=> verdict[c] = "new"
  BY <1>1
<1>5. KnownCalls'
  BY <1>4 DEF KnownCalls
<1> QED
  BY <1>2, <1>3, <1>5 DEF Promised, Approval!Next

\* The calls known so far are the first ones.
LEMMA KnownIs ==
  ASSUME NEW k \in 0..MaxCalls, \A c \in Calls : verdict[c] = "new" <=> c > k
  PROVE  Known = k
<1>1. {c \in Calls : verdict[c] # "new"} = 1..k
  BY Bounds DEF Calls
<1>2. Cardinality(1..k) = k
  <2>1. Cardinality(1..k) = IF 1 > k THEN 0 ELSE k - 1 + 1
    BY FS_Interval
  <2> QED
    BY <2>1
<1> QED
  BY <1>1, <1>2 DEF Known

\* The model asks for new calls, which have not run and are no two the same.
LEMMA AskedNew ==
  ASSUME SessionInv, KnownCalls, NEW n \in 1..MaxBatch, Known + n <= MaxCalls,
         NEW v \in {"free", "asked"}, AskedAs(NewCalls(n), v), UNCHANGED runs
  PROVE  /\ KnownCalls' /\ Promised /\ Distinct(NewCalls(n))
         /\ \A c \in Members(NewCalls(n)) : c \in Calls /\ verdict'[c] = v /\ runs'[c] = 0
<1> DEFINE batch == Members(NewCalls(n))
<1>1. PICK k \in 0..MaxCalls : \A c \in Calls : verdict[c] = "new" <=> c > k
  BY DEF KnownCalls
<1>2. Known = k
  BY <1>1, KnownIs
<1>3. /\ DOMAIN NewCalls(n) = 1..n /\ \A i \in 1..n : NewCalls(n)[i] = k + i
      /\ NewCalls(n) \in Seq(Calls) /\ n \in Nat /\ k \in Nat /\ k + n <= MaxCalls /\ n > 0
  BY <1>2, NewCallsTyped, Bounds
<1>4. Distinct(NewCalls(n))
  BY <1>3 DEF Distinct
<1>5. batch = {k + i : i \in 1..n}
  BY <1>3 DEF Members
<1>6. batch \in SUBSET Calls /\ \A c \in Calls : c \in batch <=> c > k /\ c <= k + n
  <2>1. \A c \in Calls : c > k /\ c <= k + n => c - k \in 1..n /\ c = k + (c - k)
    BY <1>3, Bounds DEF Calls
  <2>2. \A i \in 1..n : k + i \in Calls /\ k + i > k /\ k + i <= k + n
    BY <1>3, Bounds DEF Calls
  <2> HIDE DEF batch
  <2> QED
    BY <1>5, <2>1, <2>2
<1>7. verdict' = [c \in Calls |-> IF c \in batch THEN v ELSE verdict[c]]
  BY DEF AskedAs
<1> HIDE DEF batch
<1>8. \A c \in batch : verdict[c] = "new"
  BY <1>1, <1>6
<1>9. Approval!Propose(batch)
  BY <1>7, <1>8 DEF Approval!Propose
<1>10. \A c \in batch : c \in Calls /\ verdict'[c] = v /\ runs'[c] = 0
  BY <1>6, <1>7, <1>8 DEF KnownCalls
<1>11. \A c \in Calls : verdict'[c] = "new" <=> c > k + n
  <2> TAKE c \in Calls
  <2>1. verdict'[c] = IF c \in batch THEN v ELSE verdict[c]
    BY <1>7
  <2>2. CASE c \in batch
    BY <1>3, <1>6, <2>1, <2>2, Bounds DEF Calls
  <2>3. CASE c \notin batch
    BY <1>1, <1>3, <1>6, <2>1, <2>3, Bounds DEF Calls
  <2> QED
    BY <2>2, <2>3
<1>12. KnownCalls'
  <2>1. k + n \in 0..MaxCalls
    BY <1>3, Bounds
  <2>2. \A c \in Calls : verdict'[c] = "new" => verdict[c] = "new"
    BY <1>7
  <2>3. \A c \in Calls : verdict'[c] = "new" => runs'[c] = 0
    BY <2>2 DEF KnownCalls
  <2> QED
    BY <1>11, <2>1, <2>3 DEF KnownCalls
<1>13. Promised
  BY <1>6, <1>9 DEF Promised, Approval!Next
<1> QED
  BY <1>4, <1>10, <1>12, <1>13 DEF batch

----------------------------------------------------------------------------
(* What makes Approving hold after a step.                                 *)

\* Nothing changes that it speaks of.
LEMMA ApprovingKept ==
  ASSUME Approving, UNCHANGED <<run, queue, store, card, verdict, runs, left.shows>>
  PROVE  Approving'
BY DEF Approving, InProgress, Dead, Shown, Due, Meant, Awaiting

\* A command goes on, the card is used up, and what it has yet to run is due.
LEMMA CommandGoes ==
  ASSUME NEW r \in Request, NEW s \in Session, NEW todo \in Seq(Calls),
         NEW pc \in {"top", "llm", "exec", "backoff"}, GoOn(r, s, pc, todo),
         queue' = <<>>, Dead, ~Awaiting(s),
         NEW calls,
         calls = CASE pc = "top" /\ s.state = "ExecutingTool" -> LastCalls(s.history)
                   [] pc = "exec" -> Tail(todo)
                   [] pc = "backoff" -> todo
                   [] OTHER -> <<>>,
         Distinct(calls),
         \A c \in Members(calls) : verdict'[c] \in {"free", "granted"} /\ runs'[c] = 0
  PROVE  Approving'
<1>1. /\ run' # None /\ run'.session = s /\ run'.todo = todo /\ run'.pc = pc /\ card' = card
  BY GoesHeld
<1>2. Upcoming(run') = calls
  BY <1>1 DEF Upcoming
<1>3. Distinct(Upcoming(run')) /\ Due(Upcoming(run), {"free", "granted"})'
  BY <1>2 DEF Due
<1>4. Dead' /\ ~Awaiting(run'.session)
  BY <1>1 DEF Dead
<1>5. InProgress' # 0
  BY <1>1 DEF InProgress
<1> QED
  BY <1>1, <1>3, <1>4, <1>5 DEF Approving, Awaiting, Distinct

\* A command returns and leaves nothing to click.
LEMMA CommandEnds ==
  ASSUME run' = None, queue' = <<>>, card'.clicked = DOMAIN card'.calls
  PROVE  Approving'
BY DEF Approving, Dead

\* A command returns and leaves a card that shows what its session waits for.
LEMMA CardIsNew ==
  ASSUME NEW s \in Session, run' = None, queue' = <<>>, store' = s,
         card'.clicked = {}, card'.calls = s.pending,
         Awaiting(s), Distinct(s.pending), Distinct(LastCalls(s.history)),
         \A c \in Members(s.pending) : verdict'[c] = "asked" /\ runs'[c] = 0
  PROVE  Approving'
<1>1. Due(store.pending, {"asked"})'
  BY DEF Due
<1>2. Shown(store)'
  BY DEF Shown, Distinct, Awaiting
<1> QED
  BY <1>1, <1>2 DEF Approving

\* A message or a rejection of everything is queued.
LEMMA PlainIsQueued ==
  ASSUME run' = None, queue' # <<>>, Len(queue') = 1, Head(queue').op \in {"send", "rejectAll"},
         card'.clicked = DOMAIN card'.calls
  PROVE  Approving'
<1>1. Dead'
  BY DEF Dead
<1>2. InProgress' # 0
  BY DEF InProgress
<1>3. Meant(Head(queue), store)'
  BY <1>1 DEF Meant
<1> QED
  BY <1>2, <1>3 DEF Approving

\* The approval of a whole batch is queued.
LEMMA BatchIsQueued ==
  ASSUME run' = None, queue' # <<>>, Len(queue') = 1, Head(queue').op = "approveAll",
         card'.clicked = DOMAIN card'.calls,
         NEW calls, LastCalls(store'.history) = calls, Distinct(calls),
         \A c \in Members(calls) : verdict'[c] = "granted" /\ runs'[c] = 0
  PROVE  Approving'
<1>1. Dead' /\ Due(LastCalls(store.history), {"granted"})'
  BY DEF Dead, Due
<1>2. Distinct(LastCalls(store.history))'
  BY DEF Distinct
<1>3. InProgress' # 0
  BY DEF InProgress
<1>4. Meant(Head(queue), store)'
  BY <1>1, <1>2 DEF Meant
<1> QED
  BY <1>3, <1>4 DEF Approving

\* The decision on one call of a batch is queued.
LEMMA OneIsQueued ==
  ASSUME run' = None, queue' # <<>>, Len(queue') = 1, NEW s, store' = s,
         NEW op \in {"approve", "reject"}, NEW i \in DOMAIN s.pending,
         Head(queue') = [op |-> op, index |-> i, from |-> "batch"],
         card'.kind = "batch", card'.calls = s.pending, card'.clicked = {i},
         Awaiting(s), Distinct(s.pending), Distinct(LastCalls(s.history)),
         \A c \in Members(Without(s.pending, i)) : verdict'[c] = "asked" /\ runs'[c] = 0,
         op = "approve" => verdict'[s.pending[i]] = "granted" /\ runs'[s.pending[i]] = 0
  PROVE  Approving'
<1> DEFINE r == [op |-> op, index |-> i, from |-> "batch"]
<1>1. r.op = op /\ r.index = i /\ r.from = "batch"
  OBVIOUS
<1> HIDE DEF r
<1>2. Head(queue') = r
  BY DEF r
<1>3. Due(Without(s.pending, i), {"asked"})' /\ Shown(s)'
  BY DEF Due, Shown
<1>4. Meant(r, s)'
  BY <1>1, <1>3 DEF Meant
<1>5. op = "approve" => Due(<<s.pending[i]>>, {"granted"})'
  BY DEF Due, Members
<1>6. InProgress' # 0
  BY DEF InProgress
<1> QED
  BY <1>1, <1>2, <1>4, <1>5, <1>6 DEF Approving

----------------------------------------------------------------------------
(* The steps of the user.                                                  *)

\* What the invariants say of the session when nothing is under way.
LEMMA AtRest ==
  ASSUME SessionInv, Approving, run = None, queue = <<>>, left.shows = {}
  PROVE  /\ Dead \/ (card.clicked = {} /\ Shown(store) /\ Due(store.pending, {"asked"}))
         /\ ~Awaiting(store) => Dead
<1>1. InProgress = 0
  BY DEF InProgress
<1> QED
  BY <1>1 DEF Approving, Shown

\* A click on one call of a batch.
LEMMA OneClick ==
  ASSUME SessionInv, KnownCalls, Approving, Patient,
         NEW op \in {"approve", "reject"}, NEW v \in {"granted", "denied"},
         op = "approve" => v = "granted",
         NEW i \in 1..MaxBatch, card.kind = "batch", i \in DOMAIN card.calls \ card.clicked,
         Click({i}, v), Issue(op, i)
  PROVE  Approving' /\ KnownCalls' /\ Promised
<1>1. /\ run = None /\ queue = <<>> /\ run' = None /\ Len(queue') = 1 /\ queue' # <<>>
      /\ left.shows = {} /\ Head(queue') = [op |-> op, index |-> i, from |-> "batch"]
      /\ UNCHANGED <<store, runs>>
  BY IssuesOne
<1>2. /\ card.clicked = {} /\ Shown(store) /\ Due(store.pending, {"asked"})
  BY <1>1, AtRest DEF Dead
<1>3. {i} \in SUBSET (DOMAIN card.calls)
  OBVIOUS
<1>4. card'.calls = card.calls /\ card'.kind = "batch" /\ card'.clicked = {i}
  BY <1>2, <1>3, Clicks
<1>5. /\ Awaiting(store) /\ store \in Session /\ card.calls = store.pending
      /\ Distinct(store.pending) /\ Distinct(LastCalls(store.history))
  BY <1>2, Typed DEF Shown, Awaiting
<1>6. /\ store.pending \in Seq(Calls) /\ i \in DOMAIN store.pending
      /\ store.pending[i] \in Calls /\ store.pending[i] \in Members(store.pending)
  BY <1>5, SessionFields, MembersAreCalls
<1>7. /\ store.pending[i] \notin Members(Without(store.pending, i))
      /\ Members(Without(store.pending, i)) \subseteq Members(store.pending)
      /\ Members(store.pending) \subseteq Calls
  BY <1>5, <1>6, DistinctWithout, MembersAreCalls
<1>8. \A c \in Calls : verdict'[c] = IF verdict[c] = "asked" /\ c = store.pending[i] THEN v ELSE verdict[c]
  BY <1>5 DEF Click
<1>9. \A c \in Members(store.pending) : verdict[c] = "asked" /\ runs[c] = 0
  BY <1>2 DEF Due
<1>10. \A c \in Members(Without(store.pending, i)) : verdict'[c] = "asked" /\ runs'[c] = 0
  BY <1>1, <1>7, <1>8, <1>9
<1>11. op = "approve" => verdict'[store.pending[i]] = "granted" /\ runs'[store.pending[i]] = 0
  BY <1>1, <1>6, <1>8, <1>9
<1>12. Approving'
  BY <1>1, <1>4, <1>5, <1>6, <1>10, <1>11, OneIsQueued
<1> QED
  BY <1>1, <1>3, <1>12, DecidedOn

\* A click that decides on all calls of a card.
LEMMA CardClick ==
  ASSUME SessionInv, KnownCalls, Approving, Patient, ~Mixes, ApproveCard \/ RejectCard
  PROVE  Approving' /\ KnownCalls' /\ Promised
<1>1. DOMAIN card.calls \in SUBSET (DOMAIN card.calls)
  OBVIOUS
<1>2. ASSUME NEW op, NEW v \in {"granted", "denied"},
             Issue(op, 1), Click(DOMAIN card.calls, v), card.clicked = {}
      PROVE  /\ run' = None /\ Len(queue') = 1 /\ queue' # <<>> /\ Head(queue').op = op
             /\ UNCHANGED <<store, runs>>
             /\ card.clicked = {} /\ Shown(store) /\ Due(store.pending, {"asked"})
             /\ card'.clicked = DOMAIN card'.calls
             /\ KnownCalls' /\ Promised
  <2>1. /\ run = None /\ queue = <<>> /\ run' = None /\ Len(queue') = 1 /\ queue' # <<>>
        /\ left.shows = {} /\ Head(queue').op = op /\ UNCHANGED <<store, runs>>
    BY <1>2, IssuesOne
  <2>2. DOMAIN card.calls # {}
    BY <1>2 DEF Click
  <2>3. Shown(store) /\ Due(store.pending, {"asked"})
    BY <1>2, <2>1, <2>2, AtRest DEF Dead
  <2>4. card'.clicked = DOMAIN card'.calls
    BY <1>1, <1>2, Clicks
  <2>5. KnownCalls' /\ Promised
    BY <1>1, <1>2, <2>1, DecidedOn
  <2> QED
    BY <1>2, <2>1, <2>3, <2>4, <2>5
<1>3. CASE RejectCard
  <2>1. Issue("rejectAll", 1) /\ Click(DOMAIN card.calls, "denied") /\ card.clicked = {}
    BY <1>3 DEF RejectCard
  <2> QED
    BY <1>2, <2>1, PlainIsQueued
<1>4. CASE ApproveCard
  <2>1. /\ Issue("approveAll", 1) /\ Click(DOMAIN card.calls, "granted") /\ card.clicked = {}
        /\ store # None /\ Members(LastCalls(store.history)) = Members(card.calls)
    BY <1>4 DEF ApproveCard, WholeBatch
  <2> DEFINE calls == LastCalls(store.history)
  <2>2. /\ run' = None /\ Len(queue') = 1 /\ queue' # <<>> /\ Head(queue').op = "approveAll"
        /\ UNCHANGED <<store, runs>>
        /\ Shown(store) /\ Due(store.pending, {"asked"})
        /\ card'.clicked = DOMAIN card'.calls /\ KnownCalls' /\ Promised
    BY <1>2, <2>1
  <2>3. Distinct(calls) /\ card.calls = store.pending
    BY <2>2 DEF Shown
  <2>4. \A c \in Members(calls) : verdict[c] = "asked" /\ runs[c] = 0
    BY <2>1, <2>2, <2>3 DEF Due
  <2>5. Members(calls) = {card.calls[i] : i \in DOMAIN card.calls} /\ Members(calls) \subseteq Calls
    <3>1. card.calls \in Seq(Calls)
      BY Typed
    <3>2. Members(card.calls) \subseteq Calls
      BY <3>1, MembersAreCalls
    <3> QED
      BY <2>1, <3>2 DEF Members
  <2>6. \A c \in Members(calls) : verdict'[c] = "granted" /\ runs'[c] = 0
    BY <2>1, <2>2, <2>4, <2>5 DEF Click
  <2>7. LastCalls(store'.history) = calls
    BY <2>2
  <2> HIDE DEF calls
  <2>8. Approving'
    BY <2>2, <2>3, <2>6, <2>7, BatchIsQueued
  <2> QED
    BY <2>2, <2>8
<1> QED
  BY <1>3, <1>4

\* Every step of the user.
LEMMA UserApproves ==
  ASSUME SessionInv, KnownCalls, OneCommand, Approving, Patient, ~Mixes, ~Interjects, UserStep
  PROVE  Approving' /\ KnownCalls' /\ Promised
<1>1. CASE SendMessage
  <2>1. /\ run = None /\ queue = <<>> /\ run' = None /\ Len(queue') = 1 /\ queue' # <<>>
        /\ left.shows = {} /\ Head(queue').op = "send" /\ ~Awaiting(store) /\ UNCHANGED <<card, verdict, runs>>
    BY <1>1, IssuesOne DEF SendMessage, userVars
  <2>2. card'.clicked = DOMAIN card'.calls
    BY <2>1, AtRest DEF Dead
  <2> QED
    BY <2>1, <2>2, PlainIsQueued, NothingRuns
<1>2. ASSUME NEW i \in 1..MaxBatch, ApproveTool(i)
      PROVE  Approving' /\ KnownCalls' /\ Promised
  BY <1>2, OneClick DEF ApproveTool
<1>3. ASSUME NEW i \in 1..MaxBatch, RejectTool(i)
      PROVE  Approving' /\ KnownCalls' /\ Promised
  BY <1>3, OneClick DEF RejectTool
<1>4. CASE Reset \/ \E id \in Ids : Load(id)
  <2>1. run' = None /\ queue' = <<>> /\ left'.shows # {} /\ UNCHANGED <<verdict, runs>>
    <3>1. PICK id : Open({id})
      BY <1>4 DEF Reset, Load
    <3>2. left' = [left EXCEPT !.opens = @ - 1, !.shows = @ \cup {id}]
      BY <3>1 DEF Open
    <3> QED
      BY <3>1, <3>2, Idle, Typed DEF Open
  <2>2. Approving'
    BY <2>1 DEF Approving
  <2> QED
    BY <2>1, <2>2, NothingRuns
<1>5. CASE RemindOfWorkspace
  <2>1. Open({}) /\ ~Awaiting(store)
    BY <1>5 DEF RemindOfWorkspace
  <2>2. /\ run = None /\ queue = <<>> /\ left.shows = {}
        /\ run' = None /\ queue' = <<>> /\ UNCHANGED <<card, verdict, runs>>
    BY <2>1, Idle DEF Open
  <2>3. card'.clicked = DOMAIN card'.calls
    BY <2>1, <2>2, AtRest DEF Dead
  <2> QED
    BY <2>2, <2>3, CommandEnds, NothingRuns
<1>6. ASSUME NEW id \in left.shows, ShowOpened(id)
      PROVE  Approving' /\ KnownCalls' /\ Promised
  <2>1. run' = None /\ queue' = <<>> /\ card' = NoCard /\ UNCHANGED <<verdict, runs>>
    BY <1>6, OneTaken, NoneQueued DEF ShowOpened
  <2>2. card'.clicked = DOMAIN card'.calls
    BY <2>1 DEF NoCard
  <2> QED
    BY <2>1, <2>2, CommandEnds, NothingRuns
<1> QED
  BY <1>1, <1>2, <1>3, <1>4, <1>5, <1>6, UserSteps, CardClick, ApprovingKept, NothingRuns

----------------------------------------------------------------------------
(* The commands from the queue to their session.                           *)

\* A command that goes on with nothing to run.
LEMMA CommandGoesBare ==
  ASSUME NEW r \in Request, NEW s \in Session, NEW pc \in {"top", "llm"}, GoOn(r, s, pc, <<>>),
         queue' = <<>>, Dead, ~Awaiting(s), s.state # "ExecutingTool"
  PROVE  Approving'
BY CommandGoes, EmptyBatch DEF Members

\* A command that ends with the card as it is, used up.
LEMMA CommandEndsPlain ==
  ASSUME NEW r, NEW kind \in {"error", "text", "cancelled"}, NEW calls, NEW w,
         Return(r, kind, calls, w), queue' = <<>>, Dead
  PROVE  Approving'
BY CommandEnds DEF Return, CardAfter, Dead

\* A message takes the harness.
LEMMA SendApproves ==
  ASSUME SessionInv, KnownCalls, OneCommand, Approving, StartSend
  PROVE  Approving' /\ KnownCalls' /\ Promised
<1> DEFINE r == Head(queue)
           x == IF store = None THEN Fresh ELSE store
<1>1. /\ run = None /\ queue # <<>> /\ queue' = <<>> /\ r.op = "send" /\ r \in Request
      /\ UNCHANGED <<verdict, runs>>
  BY OneTaken, Typed DEF StartSend
<1>2. Dead
  BY <1>1 DEF Approving, Meant
<1>3. x \in Session /\ ~Awaiting(x)
  BY <1>1, FreshTyped, Typed DEF OneCommand, Awaiting, Fresh
<1>4. ReturnError(r) \/ GoOn(r, Sent(x), "top", <<>>)
  BY DEF StartSend
<1> HIDE DEF r, x
<1>5. Sent(x) \in Session /\ Sent(x).state = "Idle"
  <2> DEFINE h == Append(x.history, User)
  <2>1. h \in Seq(Message)
    BY <1>3, Messages, SessionFields
  <2>2. Sent(x) = [x EXCEPT !.state = "Idle", !.history = h]
    <3>1. x = [id |-> x.id, history |-> x.history, pending |-> x.pending,
               iteration |-> x.iteration, spent |-> x.spent, state |-> x.state]
          /\ x.state # "AwaitingApproval"
      BY <1>3, SessionFields DEF Session, Awaiting
    <3> QED
      BY <3>1 DEF Sent
  <2> HIDE DEF h
  <2> QED
    BY <1>3, <2>1, <2>2 DEF Session
<1>6. Approving'
  <2>1. CASE ReturnError(r)
    BY <1>1, <1>2, <2>1, CommandEndsPlain DEF ReturnError
  <2>2. CASE GoOn(r, Sent(x), "top", <<>>)
    BY <1>1, <1>2, <1>5, <2>2, CommandGoesBare DEF Awaiting
  <2> QED
    BY <1>4, <2>1, <2>2
<1> QED
  BY <1>1, <1>6, NothingRuns

\* A decision waits for the session it is about.
LEMMA DecisionIsTaken ==
  ASSUME NEW r \in Request, NEW s, store' = s, GoOn(r, None, "take", <<>>), queue' = <<>>,
         UNCHANGED <<verdict, runs>>, Meant(r, s),
         r.op = "approve" => Due(<<s.pending[r.index]>>, {"granted"})
  PROVE  Approving'
<1> DEFINE cmd == [request |-> r, session |-> None, todo |-> <<>>, pc |-> "take"]
<1>1. cmd \in Run /\ cmd.request = r /\ cmd.pc = "take"
  BY EmptyBatch DEF Run
<1>2. run' = cmd /\ card' = card
  BY DEF GoOn
<1> HIDE DEF cmd
<1>3. run' # None /\ run'.request = r /\ run'.pc = "take"
  BY <1>1, <1>2, NoneAssumption
<1>4. Meant(r, s)' /\ (r.op = "approve" => Due(<<s.pending[r.index]>>, {"granted"})')
  BY <1>2 DEF Meant, Dead, Shown, Due
<1>5. Upcoming(run') = <<>>
  BY <1>3 DEF Upcoming
<1>6. Distinct(Upcoming(run)') /\ Due(Upcoming(run), {"free", "granted"})'
  BY <1>5, EmptyBatch DEF Due
<1>7. InProgress' # 0
  BY <1>3 DEF InProgress
<1>8. Meant(run.request, store)'
  BY <1>3, <1>4 DEF Meant, Dead, Shown, Due
<1>9. (run.request.op = "approve" => Due(<<store.pending[run.request.index]>>, {"granted"}))'
  BY <1>3, <1>4 DEF Due
<1> QED
  BY <1>3, <1>6, <1>7, <1>8, <1>9 DEF Approving

\* A decision takes the harness, or finds that nothing waits for it.
LEMMA DecisionApproves ==
  ASSUME SessionInv, KnownCalls, OneCommand, Approving, StartDecision
  PROVE  Approving' /\ KnownCalls' /\ Promised
<1> DEFINE r == Head(queue)
<1>1. /\ run = None /\ queue # <<>> /\ queue' = <<>> /\ r.op # "send"
      /\ UNCHANGED <<store, verdict, runs>>
  BY OneTaken DEF StartDecision
<1>2. Meant(r, store) /\ (r.op = "approve" => Due(<<store.pending[r.index]>>, {"granted"}))
  BY <1>1 DEF Approving
<1>3. \/ Awaiting(store) /\ GoOn(r, None, "take", <<>>)
      \/ ~Awaiting(store) /\ ReturnError(r)
  BY DEF StartDecision
<1> HIDE DEF r
<1>4. r \in Request
  BY <1>1, Typed DEF r
<1>5. CASE Awaiting(store) /\ GoOn(r, None, "take", <<>>)
  <2>1. Approving'
    BY <1>1, <1>2, <1>4, <1>5, DecisionIsTaken
  <2> QED
    BY <1>1, <2>1, NothingRuns
<1>6. CASE ~Awaiting(store) /\ ReturnError(r)
  <2>1. Dead
    BY <1>1, <1>2, <1>6 DEF Meant, Shown
  <2>2. Approving'
    BY <1>1, <1>6, <2>1, CommandEndsPlain DEF ReturnError
  <2> QED
    BY <1>1, <2>2, NothingRuns
<1> QED
  BY <1>3, <1>5, <1>6

----------------------------------------------------------------------------
(* One call of a batch.                                                    *)

\* A decision on one call of a batch: what Meant says of it.
OneMeant(r, s) ==
  /\ r.op \in {"approve", "reject"} /\ r.from = "batch" /\ card.kind = "batch"
  /\ Shown(s)
  /\ r.index \in DOMAIN s.pending /\ card.clicked = {r.index}
  /\ Due(Without(s.pending, r.index), {"asked"})

\* The call is answered: the rest goes to a new card, or the command goes on.
LEMMA SettledApproves ==
  ASSUME NEW r \in Request, NEW s \in Session, Sound(s), OneMeant(r, s),
         queue' = <<>>, UNCHANGED <<verdict, runs>>,
         NEW t, t = Settled(s, r.index),
         \/ t.pending # <<>> /\ ReturnRest(r, t)
         \/ t.pending = <<>> /\ GoOn(r, t, "top", <<>>)
  PROVE  Approving'
<1> DEFINE rest == Without(s.pending, r.index)
<1>1. /\ r.index \in DOMAIN s.pending /\ s.pending \in Seq(Calls) /\ s.history \in Seq(Message)
      /\ Awaiting(s) /\ card.calls = s.pending /\ card.clicked = {r.index}
      /\ Distinct(s.pending) /\ Distinct(LastCalls(s.history)) /\ r.from = "batch"
      /\ Due(rest, {"asked"}) /\ s.pending[r.index] \in Calls
  BY SessionFields DEF OneMeant, Shown
<1>2. /\ t \in Session /\ t.pending = rest /\ t.history = Append(s.history, Result(s.pending[r.index]))
      /\ t.state = IF rest # <<>> THEN "AwaitingApproval" ELSE "Thinking"
  BY <1>1, SettledTyped
<1>3. LastCalls(t.history) = LastCalls(s.history)
  <2>1. Result(s.pending[r.index]) \in Message /\ ~IsCalls(Result(s.pending[r.index]))
    BY <1>1, Messages, Asking
  <2> QED
    BY <1>1, <1>2, <2>1, LastCallsOfAppend
<1>4. Distinct(rest) /\ Len(rest) = Len(s.pending) - 1 /\ rest \in Seq(Calls)
  BY <1>1, DistinctWithout, WithoutOne
<1> HIDE DEF rest
<1>5. CASE t.pending # <<>> /\ ReturnRest(r, t)
  <2>1. Awaiting(t) /\ Distinct(t.pending) /\ Distinct(LastCalls(t.history))
    BY <1>1, <1>2, <1>3, <1>4, <1>5, SessionFields DEF Awaiting
  <2>2. /\ run' = None /\ store' = t /\ card' = CardAfter(r, "batch", t.pending)
    BY <1>5 DEF ReturnRest, PutBack, Return
  <2>3. card'.clicked = {} /\ card'.calls = t.pending
    BY <1>1, <2>2 DEF CardAfter
  <2>4. \A c \in Members(t.pending) : verdict'[c] = "asked" /\ runs'[c] = 0
    BY <1>1, <1>2 DEF Due
  <2> QED
    BY <1>2, <2>1, <2>2, <2>3, <2>4, CardIsNew
<1>6. CASE t.pending = <<>> /\ GoOn(r, t, "top", <<>>)
  <2>1. rest = <<>>
    BY <1>2, <1>6
  <2>2. t.state = "Thinking"
    BY <1>2, <2>1
  <2>3. Dead
    <3>1. Len(s.pending) = 1
      BY <1>1, <1>4, <2>1
    <3>2. DOMAIN s.pending = {r.index}
      BY <1>1, <3>1
    <3> QED
      BY <1>1, <3>2 DEF Dead
  <2> QED
    BY <1>2, <1>6, <2>2, <2>3, CommandGoesBare DEF Awaiting
<1> QED
  BY <1>5, <1>6

\* A command that takes its session does so from a store that waits.
LEMMA Taken ==
  ASSUME SessionInv, OneCommand, Approving, run # None, run.pc = "take"
  PROVE  /\ queue = <<>> /\ run.request \in Request /\ Meant(run.request, store)
         /\ store \in Session /\ Sound(store) /\ Awaiting(store)
         /\ PendingOf(store) = store.pending
         /\ run.request.op # "send"
         /\ run.request.op \in {"approve", "reject"} =>
              OneMeant(run.request, store) /\ run.request.index \in DOMAIN PendingOf(store)
         /\ run.request.op = "approve" =>
              Due(<<store.pending[run.request.index]>>, {"granted"})
<1>1. /\ queue = <<>> /\ run.request \in Request /\ run.request.op # "send"
  BY NoneQueued, RunFields DEF AtItsPlace
<1>2. Awaiting(store) /\ store # None
  BY DEF OneCommand, Awaiting
<1>3. store \in Session /\ Sound(store) /\ PendingOf(store) = store.pending
  BY <1>2, Typed DEF PendingOf
<1>4. /\ Meant(run.request, store)
      /\ run.request.op = "approve" => Due(<<store.pending[run.request.index]>>, {"granted"})
  BY DEF Approving
<1>5. run.request.op \in {"approve", "reject"} => OneMeant(run.request, store)
  BY <1>4 DEF Meant, OneMeant
<1>6. OneMeant(run.request, store) => run.request.index \in DOMAIN store.pending
  BY DEF OneMeant
<1> QED
  BY <1>1, <1>2, <1>3, <1>4, <1>5, <1>6

\* The session of a rejection is taken.
LEMMA RejectedApproves ==
  ASSUME SessionInv, KnownCalls, OneCommand, Approving, TakeRejected
  PROVE  Approving' /\ KnownCalls' /\ Promised
<1> DEFINE r == run.request
           s == store
           a == Answers(PendingOf(s))
           h == s.history \o a
<1>1. run # None /\ run.pc = "take" /\ UNCHANGED <<queue, verdict, runs>>
  BY DEF TakeRejected
<1>2. /\ queue' = <<>> /\ r \in Request /\ Meant(r, s) /\ s \in Session /\ Sound(s)
      /\ PendingOf(s) = s.pending
      /\ r.op \in {"approve", "reject"} => OneMeant(r, s) /\ r.index \in DOMAIN PendingOf(s)
  BY <1>1, Taken
<1>3. CASE r.op = "reject"
  <2> DEFINE t == Settled(s, r.index)
  <2>1. \/ Len(s.pending) > 1 /\ ReturnRest(r, t)
        \/ Len(s.pending) = 1 /\ GoOn(r, t, "top", <<>>)
    BY <1>2, <1>3 DEF TakeRejected
  <2>2. t.pending = Without(s.pending, r.index) /\ Without(s.pending, r.index) \in Seq(Calls)
        /\ Len(Without(s.pending, r.index)) = Len(s.pending) - 1
    BY <1>2, <1>3, SessionFields, SettledTyped, WithoutOne
  <2> HIDE DEF t
  <2>3. \/ t.pending # <<>> /\ ReturnRest(r, t)
        \/ t.pending = <<>> /\ GoOn(r, t, "top", <<>>)
    <3>1. Len(t.pending) = Len(s.pending) - 1 /\ t.pending \in Seq(Calls) /\ Len(s.pending) \in Nat
      BY <1>2, <2>2, SessionFields
    <3>2. Len(s.pending) > 1 => t.pending # <<>>
      BY <3>1
    <3>3. Len(s.pending) = 1 => t.pending = <<>>
      BY <3>1, EmptySeq
    <3> QED
      BY <2>1, <3>2, <3>3
  <2>4. t = Settled(s, r.index) /\ OneMeant(r, s)
    BY <1>2, <1>3 DEF t
  <2> HIDE DEF r, s
  <2> QED
    BY <1>1, <1>2, <2>3, <2>4, SettledApproves, NothingRuns
<1>4. CASE r.op = "rejectAll"
  <2> DEFINE t == [s EXCEPT !.state = "Thinking", !.pending = <<>>, !.history = h]
  <2>1. GoOn(r, t, "top", <<>>)
    <3>1. GoOn(r, [s EXCEPT !.state = "Thinking", !.pending = <<>>,
                            !.history = @ \o Answers(PendingOf(s))], "top", <<>>)
      BY <1>4 DEF TakeRejected
    <3>2. t = [s EXCEPT !.state = "Thinking", !.pending = <<>>, !.history = @ \o Answers(PendingOf(s))]
      BY <1>2 DEF Session
    <3> QED
      BY <3>1, <3>2
  <2>2. a \in Seq(Message)
    BY <1>2, Messages, SessionFields DEF Answers
  <2> HIDE DEF a
  <2>3. h \in Seq(Message)
    BY <1>2, <2>2, SessionFields
  <2> HIDE DEF h
  <2>4. t \in Session /\ t.state = "Thinking"
    <3>1. t \in Session
      BY <1>2, <2>3, EmptyBatch, SessionMoves DEF States
    <3> QED
      BY <1>2, <3>1 DEF Session
  <2>5. Dead
    BY <1>2, <1>4 DEF Meant
  <2> HIDE DEF t, r
  <2>6. Approving'
    BY <1>2, <2>1, <2>4, <2>5, CommandGoesBare DEF Awaiting
  <2> QED
    BY <1>1, <2>6, NothingRuns
<1>5. r.op \in {"reject", "rejectAll"}
  BY DEF TakeRejected
<1> QED
  BY <1>3, <1>4, <1>5

\* The call that was approved starts, and what was decided on it stays as it is.
LEMMA OneIsRun ==
  ASSUME SessionInv, KnownCalls, NEW r \in Request, r.op = "approve",
         NEW s \in Session, OneMeant(r, s), NEW c \in Calls, c = s.pending[r.index],
         Due(<<c>>, {"granted"}), GoOn(r, s, "single", <<c>>), queue' = <<>>,
         Started(c), UNCHANGED verdict
  PROVE  Approving' /\ KnownCalls' /\ Promised
<1>1. verdict[c] = "granted" /\ runs[c] = 0
  BY DEF Due, Members
<1>2. <<c>> \in Seq(Calls)
  OBVIOUS
<1>3. /\ run' # None /\ run'.request = r /\ run'.session = s /\ run'.pc = "single" /\ card' = card
  BY <1>2, GoesHeld
<1>4. /\ s.pending \in Seq(Calls) /\ r.index \in DOMAIN s.pending
      /\ Awaiting(s) /\ Distinct(s.pending) /\ Distinct(LastCalls(s.history))
      /\ Due(Without(s.pending, r.index), {"asked"})
  BY SessionFields DEF OneMeant, Shown
<1>5. c \notin Members(Without(s.pending, r.index))
      /\ Members(Without(s.pending, r.index)) \subseteq Calls
  BY <1>4, DistinctWithout, MembersAreCalls
<1>6. \A d \in Members(Without(s.pending, r.index)) : verdict'[d] = "asked" /\ runs'[d] = 0
  BY <1>4, <1>5, OneStarts DEF Due
<1>7. Due(Without(s.pending, r.index), {"asked"})' /\ Shown(s)'
  BY <1>3, <1>4, <1>6 DEF Due, Shown, OneMeant
<1>8. Meant(r, s)'
  BY <1>3, <1>4, <1>7 DEF Meant, OneMeant
<1>9. Meant(run.request, run.session)'
  BY <1>3, <1>8 DEF Meant, Dead, Shown, Due
<1>10. Upcoming(run') = <<>>
  BY <1>3 DEF Upcoming
<1>11. Distinct(Upcoming(run)') /\ Due(Upcoming(run), {"free", "granted"})'
  BY <1>10, EmptyBatch DEF Due
<1>12. InProgress' # 0
  BY <1>3 DEF InProgress
<1>13. Approving'
  BY <1>3, <1>9, <1>11, <1>12 DEF Approving
<1> QED
  BY <1>1, <1>13, DueRuns

\* The session of an approval is taken.
LEMMA ApprovedApproves ==
  ASSUME SessionInv, KnownCalls, OneCommand, Approving, TakeApproved
  PROVE  Approving' /\ KnownCalls' /\ Promised
<1> DEFINE r == run.request
           s == store
<1>1. run # None /\ run.pc = "take" /\ UNCHANGED <<queue, verdict>>
  BY DEF TakeApproved
<1>2. /\ queue' = <<>> /\ r \in Request /\ Meant(r, s) /\ s \in Session /\ Sound(s)
      /\ s.pending \in Seq(Calls)
      /\ r.op \in {"approve", "reject"} => OneMeant(r, s) /\ r.index \in DOMAIN PendingOf(s)
      /\ PendingOf(s) = s.pending
      /\ r.op = "approve" => Due(<<s.pending[r.index]>>, {"granted"})
  BY <1>1, Taken, SessionFields
<1>3. CASE r.op = "approve"
  <2> DEFINE c == s.pending[r.index]
  <2>1. GoOn(r, s, "single", <<c>>) /\ Started(c)
    BY <1>2, <1>3 DEF TakeApproved
  <2>2. c \in Calls /\ Due(<<c>>, {"granted"}) /\ OneMeant(r, s)
    BY <1>2, <1>3
  <2> HIDE DEF r, s
  <2> QED
    BY <1>1, <1>2, <1>3, <2>1, <2>2, OneIsRun
<1>4. CASE r.op = "approveAll"
  <2> DEFINE t == [s EXCEPT !.state = "ExecutingTool", !.pending = <<>>]
             calls == LastCalls(s.history)
  <2>1. GoOn(r, t, "top", <<>>) /\ UNCHANGED runs
    BY <1>4 DEF TakeApproved
  <2>2. t \in Session /\ t.state = "ExecutingTool" /\ t.history = s.history
    <3>1. "ExecutingTool" \in States \ {"AwaitingApproval"} /\ s.history \in Seq(Message)
      BY <1>2, SessionFields DEF States
    <3>2. t \in Session
      BY <1>2, <3>1, Emptied
    <3> QED
      BY <1>2, <3>2 DEF Session
  <2>3. Dead /\ Distinct(calls) /\ Due(calls, {"granted"})
    BY <1>2, <1>4 DEF Meant
  <2>4. calls = LastCalls(t.history)
    BY <2>2
  <2> HIDE DEF t, r, s, calls
  <2>5. \A c \in Members(calls) : verdict'[c] \in {"free", "granted"} /\ runs'[c] = 0
    BY <1>1, <2>1, <2>3 DEF Due
  <2>6. Approving'
    BY <1>2, <2>1, <2>2, <2>3, <2>4, <2>5, EmptyBatch, CommandGoes DEF Awaiting
  <2> QED
    BY <1>1, <2>1, <2>6, NothingRuns
<1>5. r.op \in {"approve", "approveAll"}
  BY DEF TakeApproved
<1> QED
  BY <1>3, <1>4, <1>5

\* The one call that was approved has run.
LEMMA SingleApproves ==
  ASSUME SessionInv, KnownCalls, OneCommand, Approving, FinishSingle
  PROVE  Approving' /\ KnownCalls' /\ Promised
<1> DEFINE r == run.request
           s == run.session
           t == Settled(s, r.index)
<1>1. run # None /\ run.pc = "single" /\ UNCHANGED <<queue, verdict, runs>>
  BY DEF FinishSingle
<1>2. /\ queue' = <<>> /\ r \in Request /\ s \in Session /\ Sound(s)
      /\ r.op = "approve" /\ Meant(r, s)
  BY <1>1, NoneQueued, RunFields DEF Approving
<1>3. OneMeant(r, s)
  BY <1>2 DEF Meant, OneMeant
<1>4. \/ t.pending # <<>> /\ ReturnRest(r, t)
      \/ t.pending = <<>> /\ GoOn(r, t, "top", <<>>)
  BY DEF FinishSingle
<1>5. t = Settled(s, r.index)
  OBVIOUS
<1> HIDE DEF r, s, t
<1> QED
  BY <1>1, <1>2, <1>3, <1>4, <1>5, SettledApproves, NothingRuns

----------------------------------------------------------------------------
(* The ticks.                                                              *)

\* What a command that ticks may count on.
LEMMA Ticking ==
  ASSUME SessionInv, OneCommand, Approving, run # None, run.pc \notin {"take", "single"},
         UNCHANGED queue
  PROVE  /\ queue' = <<>> /\ Dead /\ run.request \in Request
         /\ run.session \in Session /\ Sound(run.session) /\ ~Awaiting(run.session)
         /\ run.session.history \in Seq(Message) /\ run.todo \in Seq(Calls)
         /\ Distinct(Upcoming(run)) /\ Due(Upcoming(run), {"free", "granted"})
         /\ Upcoming(run) =
              CASE run.pc = "top" /\ run.session.state = "ExecutingTool" -> LastCalls(run.session.history)
                [] run.pc = "exec" -> Tail(run.todo)
                [] run.pc = "backoff" -> run.todo
                [] OTHER -> <<>>
<1>1. queue' = <<>>
  BY NoneQueued
<1>2. /\ Dead /\ ~Awaiting(run.session)
      /\ Distinct(Upcoming(run)) /\ Due(Upcoming(run), {"free", "granted"})
  BY DEF Approving
<1>3. /\ run.request \in Request /\ run.session \in Session /\ Sound(run.session)
      /\ run.session.history \in Seq(Message) /\ run.todo \in Seq(Calls)
  BY RunFields, SessionFields
<1> QED
  BY <1>1, <1>2, <1>3 DEF Upcoming

\* The next of the calls that are due starts.
LEMMA NextIsRun ==
  ASSUME SessionInv, KnownCalls, NEW r \in Request, NEW s \in Session, ~Awaiting(s), Dead,
         NEW rest \in Seq(Calls), rest # <<>>, Distinct(rest), Due(rest, {"free", "granted"}),
         GoOn(r, s, "exec", rest), queue' = <<>>, Started(Head(rest)), UNCHANGED verdict
  PROVE  Approving' /\ KnownCalls' /\ Promised
<1> DEFINE c == Head(rest)
           calls == Tail(rest)
<1>1. /\ c \in Calls /\ c \in Members(rest) /\ calls \in Seq(Calls)
      /\ Members(calls) \subseteq Members(rest) /\ c \notin Members(calls) /\ Distinct(calls)
      /\ Members(rest) \subseteq Calls
  BY HeadAndTail, DistinctTail, MembersAreCalls
<1> HIDE DEF c, calls
<1>2. verdict[c] \in {"free", "granted"} /\ runs[c] = 0
  BY <1>1 DEF Due
<1>3. Started(c)
  BY DEF c
<1>4. \A d \in Members(calls) : verdict'[d] \in {"free", "granted"} /\ runs'[d] = 0
  BY <1>1, <1>3, OneStarts DEF Due
<1>5. calls = CASE "exec" = "top" /\ s.state = "ExecutingTool" -> LastCalls(s.history)
                [] "exec" = "exec" -> Tail(rest)
                [] "exec" = "backoff" -> rest
                [] OTHER -> <<>>
  BY DEF calls
<1>6. Approving'
  BY <1>1, <1>4, <1>5, CommandGoes
<1> QED
  BY <1>1, <1>2, <1>3, <1>6, DueRuns

\* The steps at the top of the loop.
LEMMA TickApproves ==
  ASSUME SessionInv, KnownCalls, OneCommand, Approving, TickStep
  PROVE  Approving' /\ KnownCalls' /\ Promised
<1> DEFINE r == run.request
           s == run.session
<1>1. run # None /\ run.pc = "top" /\ UNCHANGED <<queue, verdict>>
  BY DEF TickStep, CancelAtTop, TickSpent, TickLimit, TickThink, TickExecute, TickNoCalls,
         TickAwait, AtTick
<1>2. /\ queue' = <<>> /\ Dead /\ r \in Request /\ s \in Session /\ ~Awaiting(s)
      /\ s.history \in Seq(Message) /\ Distinct(Upcoming(run)) /\ Due(Upcoming(run), {"free", "granted"})
      /\ s.state = "ExecutingTool" => Upcoming(run) = LastCalls(s.history)
  BY <1>1, Ticking
<1>3. ASSUME NEW kind \in {"error", "text", "cancelled"}, NEW w, Return(r, kind, <<>>, w), UNCHANGED runs
      PROVE  Approving' /\ KnownCalls' /\ Promised
  <2> HIDE DEF r, s
  <2> QED
    BY <1>1, <1>2, <1>3, CommandEndsPlain, NothingRuns
<1>4. CASE CancelAtTop \/ TickSpent \/ TickLimit \/ TickNoCalls
  BY <1>3, <1>4 DEF CancelAtTop, TickSpent, TickLimit, TickNoCalls, Fail, ReturnError, ReturnText
<1>5. CASE TickThink
  <2> DEFINE h == Compacted(s.history)
             t == [s EXCEPT !.state = "Thinking", !.history = h]
  <2>1. h \in Seq(Message)
    BY <1>2, CompactedTyped
  <2>2. t = [s EXCEPT !.state = "Thinking", !.history = Compacted(@)]
    BY <1>2 DEF Session
  <2>3. GoOn(r, t, "llm", <<>>) /\ UNCHANGED runs
    BY <1>5, <2>2 DEF TickThink
  <2> HIDE DEF h
  <2>4. t \in Session /\ t.state = "Thinking"
    BY <1>2, <2>1 DEF Session
  <2> HIDE DEF t, r, s
  <2>5. Approving'
    BY <1>2, <2>3, <2>4, CommandGoesBare DEF Awaiting
  <2> QED
    BY <1>1, <2>3, <2>5, NothingRuns
<1>6. CASE TickExecute
  <2> DEFINE calls == LastCalls(s.history)
  <2>1. /\ calls # <<>> /\ GoOn(r, s, "exec", calls) /\ Started(Head(calls))
        /\ s.state = "ExecutingTool"
    BY <1>6 DEF TickExecute
  <2>2. calls \in Seq(Calls) /\ Distinct(calls) /\ Due(calls, {"free", "granted"})
    BY <1>2, <2>1, LastCallsTyped
  <2> HIDE DEF calls, r, s
  <2> QED
    BY <1>1, <1>2, <2>1, <2>2, NextIsRun
<1>7. CASE TickAwait
  BY <1>2, <1>7 DEF TickAwait
<1> QED
  BY <1>4, <1>5, <1>6, <1>7 DEF TickStep

\* The tools of a batch.
LEMMA ToolApproves ==
  ASSUME SessionInv, KnownCalls, OneCommand, Approving, ToolStep
  PROVE  Approving' /\ KnownCalls' /\ Promised
<1> DEFINE r == run.request
           s == run.session
           a == Resulted(s, Head(run.todo))
<1>1. run # None /\ run.pc \in {"llm", "exec", "backoff"} /\ UNCHANGED <<queue, verdict>>
  BY DEF ToolStep, ToolReturns, ToolFailsForNow, EndBackoff, ToolFailsForGood, CancelTick,
         TimeOutTick, AtTool, AtAwait, NextTool
<1>2. /\ queue' = <<>> /\ Dead /\ r \in Request /\ s \in Session /\ Sound(s) /\ ~Awaiting(s)
      /\ s.history \in Seq(Message) /\ Distinct(Upcoming(run)) /\ Due(Upcoming(run), {"free", "granted"})
      /\ run.pc = "exec" => Upcoming(run) = Tail(run.todo) /\ run.todo # <<>>
      /\ run.pc = "backoff" => Upcoming(run) = run.todo
      /\ run.todo \in Seq(Calls)
  BY <1>1, Ticking, RunFields DEF AtItsPlace
<1>3. ASSUME run.pc = "exec"
      PROVE  a \in Session /\ ~Awaiting(a) /\ Tail(run.todo) \in Seq(Calls)
  <2> DEFINE h == Append(s.history, Result(Head(run.todo)))
  <2>1. Head(run.todo) \in Calls /\ Tail(run.todo) \in Seq(Calls)
    BY <1>2, <1>3, HeadAndTail
  <2>2. h \in Seq(Message)
    BY <1>2, <2>1, Messages
  <2>3. a = [s EXCEPT !.history = h]
    BY DEF Resulted
  <2> HIDE DEF h
  <2>4. a \in Session /\ a.state = s.state
    BY <1>2, <2>2, <2>3 DEF Session
  <2> HIDE DEF a
  <2> QED
    BY <1>2, <2>1, <2>4, SessionFields DEF Awaiting
<1>4. ASSUME NEW t \in Session, ~Awaiting(t), NEW rest \in Seq(Calls), NextTool(r, t, rest),
             Distinct(rest), Due(rest, {"free", "granted"})
      PROVE  Approving' /\ KnownCalls' /\ Promised
  <2> DEFINE u == [t EXCEPT !.state = "Thinking"]
  <2>1. u \in Session /\ u.state = "Thinking"
    BY DEF Session
  <2>2. \/ GoOn(r, u, "top", <<>>) /\ UNCHANGED runs
        \/ rest # <<>> /\ GoOn(r, t, "exec", rest) /\ Started(Head(rest))
    BY <1>4 DEF NextTool
  <2> HIDE DEF u, r, s
  <2>3. CASE GoOn(r, u, "top", <<>>) /\ UNCHANGED runs
    BY <1>1, <1>2, <2>1, <2>3, CommandGoesBare, NothingRuns DEF Awaiting
  <2>4. CASE rest # <<>> /\ GoOn(r, t, "exec", rest) /\ Started(Head(rest))
    BY <1>1, <1>2, <1>4, <2>4, NextIsRun
  <2> QED
    BY <2>2, <2>3, <2>4
<1>5. CASE ToolReturns
  <2>1. run.pc = "exec" /\ NextTool(r, a, Tail(run.todo))
    BY <1>5 DEF ToolReturns, AtTool
  <2> HIDE DEF a, r, s
  <2> QED
    BY <1>2, <1>3, <1>4, <2>1
<1>6. CASE EndBackoff
  <2>1. run.pc = "backoff" /\ NextTool(r, s, run.todo)
    BY <1>6 DEF EndBackoff
  <2> HIDE DEF a, r, s
  <2> QED
    BY <1>2, <1>4, <2>1
<1>7. CASE ToolFailsForNow
  <2> DEFINE calls == Tail(run.todo)
  <2>1. run.pc = "exec" /\ GoOn(r, a, "backoff", calls) /\ UNCHANGED runs
    BY <1>7 DEF ToolFailsForNow, AtTool
  <2>2. calls = Upcoming(run) /\ a \in Session /\ ~Awaiting(a) /\ calls \in Seq(Calls)
    BY <1>2, <1>3, <2>1
  <2>3. \A c \in Members(calls) : verdict'[c] \in {"free", "granted"} /\ runs'[c] = 0
    BY <1>1, <1>2, <2>1, <2>2 DEF Due
  <2> HIDE DEF a, r, s, calls
  <2>4. Approving'
    BY <1>2, <2>1, <2>2, <2>3, CommandGoes
  <2> QED
    BY <1>1, <2>1, <2>4, NothingRuns
<1>8. CASE ToolFailsForGood \/ CancelTick \/ TimeOutTick
  <2>1. \E kind \in {"error", "cancelled"} : \E w : Return(r, kind, <<>>, w)
    BY <1>8 DEF ToolFailsForGood, CancelTick, TimeOutTick, Fail, ReturnError
  <2>2. UNCHANGED runs
    BY <1>8 DEF ToolFailsForGood, CancelTick, TimeOutTick
  <2> HIDE DEF r, s, a
  <2> QED
    BY <1>1, <1>2, <2>1, <2>2, CommandEndsPlain, NothingRuns
<1> QED
  BY <1>5, <1>6, <1>7, <1>8 DEF ToolStep

\* What the model asks for is shown by a card that can be clicked, or not at all.
LEMMA AskedIsShown ==
  ASSUME SessionInv, NEW r \in Request, NEW s \in Session, Dead, Awaiting(s), queue' = <<>>,
         ReturnPending(r, s), Distinct(s.pending), LastCalls(s.history) = s.pending,
         \A c \in Members(s.pending) : verdict'[c] = "asked" /\ runs'[c] = 0
  PROVE  Approving'
<1> DEFINE one == SubSeq(s.pending, 1, 1)
<1>1. /\ run' = None /\ store' = s /\ s.pending \in Seq(Calls)
      /\ \/ /\ Len(s.pending) > 1 /\ ~OneTick(r)
            /\ card' = CardAfter(r, "batch", s.pending)
         \/ /\ ~(Len(s.pending) > 1 /\ ~OneTick(r))
            /\ card' = CardAfter(r, "single", one)
  BY SessionFields DEF ReturnPending, PutBack, Return
<1>2. \/ card' = card
      \/ card'.clicked = {} /\ card'.calls = s.pending
      \/ card'.clicked = {} /\ card'.calls = one /\ ~(Len(s.pending) > 1)
  BY <1>1 DEF CardAfter
<1>3. ~(Len(s.pending) > 1) => one = s.pending \/ s.pending = <<>>
  <2>1. CASE Len(s.pending) = 1
    <3>1. one \in Seq(Calls) /\ Len(one) = 1 /\ one[1] = s.pending[1]
      BY <1>1, <2>1
    <3> HIDE DEF one
    <3> QED
      BY <1>1, <2>1, <3>1
  <2>2. CASE Len(s.pending) = 0
    BY <1>1, <2>2, EmptySeq
  <2> QED
    BY <1>1, <2>1, <2>2
<1> HIDE DEF one
<1>4. CASE card' = card
  BY <1>1, <1>4, CommandEnds DEF Dead
<1>5. CASE card'.clicked = {} /\ card'.calls = s.pending
  BY <1>1, <1>5, CardIsNew
<1>6. CASE s.pending = <<>> /\ card'.clicked = {} /\ card'.calls = one /\ ~(Len(s.pending) > 1)
  <2>1. one = <<>>
    BY <1>6 DEF one
  <2> QED
    BY <1>1, <1>6, <2>1, CommandEnds
<1> QED
  BY <1>2, <1>3, <1>4, <1>5, <1>6

\* The answers of the model.
LEMMA ModelApproves ==
  ASSUME SessionInv, KnownCalls, OneCommand, Approving, ModelStep
  PROVE  Approving' /\ KnownCalls' /\ Promised
<1> DEFINE r == run.request
           s == run.session
<1>1. run # None /\ run.pc = "llm" /\ UNCHANGED <<queue, runs>>
  BY DEF ModelStep, ModelFails, ModelSpends, ModelFinishes, ModelAsks, ModelReads, AtModel
<1>2. /\ queue' = <<>> /\ Dead /\ r \in Request /\ s \in Session /\ Sound(s) /\ Able(s)
      /\ s.history \in Seq(Message)
  BY <1>1, Ticking, RunFields DEF AtItsPlace
<1>3. CASE ModelFails \/ ModelSpends \/ ModelFinishes
  <2>1. \E kind \in {"error", "text"} : \E w : Return(r, kind, <<>>, w)
    BY <1>3 DEF ModelFails, ModelSpends, ModelFinishes, Fail, ReturnError, ReturnText
  <2>2. UNCHANGED verdict
    BY <1>3 DEF ModelFails, ModelSpends, ModelFinishes
  <2> HIDE DEF r, s
  <2> QED
    BY <1>1, <1>2, <2>1, <2>2, CommandEndsPlain, NothingRuns
<1>4. ASSUME NEW n \in 1..MaxBatch, ModelAsks(n) \/ ModelReads(n)
      PROVE  Approving' /\ KnownCalls' /\ Promised
  <2> DEFINE calls == NewCalls(n)
             e == [Asked(s, calls) EXCEPT !.state = "ExecutingTool"]
             p == [Asked(s, calls) EXCEPT !.state = "AwaitingApproval", !.pending = calls]
             h == Append(s.history, Asks(calls))
  <2>1. Known + n <= MaxCalls
    BY <1>4 DEF ModelAsks, ModelReads
  <2>2. calls \in Seq(Calls) /\ calls # <<>> /\ Len(calls) <= MaxBatch
    BY <2>1, NewCallsTyped
  <2>3. \/ ReturnPending(r, p) /\ AskedAs(calls, "asked")
        \/ /\ Return(r, "text", <<>>, e.id) \/ GoOn(r, e, "top", <<>>)
           /\ AskedAs(calls, "free")
    BY <1>4 DEF ModelAsks, ModelReads, ReturnText
  <2>4. ASSUME NEW v \in {"free", "asked"}, AskedAs(calls, v)
        PROVE  /\ KnownCalls' /\ Promised /\ Distinct(calls)
               /\ \A c \in Members(calls) : verdict'[c] = v /\ runs'[c] = 0
    BY <1>1, <2>1, <2>4, AskedNew
  <2> HIDE DEF calls
  <2>5. /\ e \in Session /\ e.state = "ExecutingTool" /\ e.history = h
        /\ p \in Session /\ Awaiting(p) /\ p.pending = calls /\ p.history = h
    <3>1. e \in Session /\ e.state = "ExecutingTool" /\ e.history = h
      BY <1>2, <2>2, AskedTyped
    <3>2. p \in Session /\ Awaiting(p) /\ p.pending = calls
      BY <1>2, <2>2, AskedTyped
    <3>3. p.history = e.history
      BY <1>2, <2>2, AskedTyped
    <3> QED
      BY <3>1, <3>2, <3>3
  <2>6. LastCalls(h) = calls
    <3>1. Asks(calls) \in Message /\ IsCalls(Asks(calls)) /\ Asks(calls).calls = calls
      BY <2>2, Messages, Asking
    <3> QED
      BY <1>2, <3>1, LastCallsOfAppend
  <2> HIDE DEF e, p, h, r, s
  <2>7. CASE ReturnPending(r, p) /\ AskedAs(calls, "asked")
    <3>1. KnownCalls' /\ Promised /\ Distinct(calls)
          /\ \A c \in Members(calls) : verdict'[c] = "asked" /\ runs'[c] = 0
      BY <2>4, <2>7
    <3> QED
      BY <1>2, <2>5, <2>6, <2>7, <3>1, AskedIsShown
  <2>8. CASE /\ Return(r, "text", <<>>, e.id) \/ GoOn(r, e, "top", <<>>)
             /\ AskedAs(calls, "free")
    <3>1. KnownCalls' /\ Promised /\ Distinct(calls)
          /\ \A c \in Members(calls) : verdict'[c] = "free" /\ runs'[c] = 0
      BY <2>4, <2>8
    <3>2. CASE Return(r, "text", <<>>, e.id)
      BY <1>2, <3>1, <3>2, CommandEndsPlain
    <3>3. CASE GoOn(r, e, "top", <<>>)
      BY <1>2, <2>5, <2>6, <3>1, <3>3, EmptyBatch, CommandGoes DEF Awaiting
    <3> QED
      BY <2>8, <3>1, <3>2, <3>3
  <2> QED
    BY <2>3, <2>7, <2>8
<1> QED
  BY <1>3, <1>4 DEF ModelStep

----------------------------------------------------------------------------
(* The refinement.                                                         *)

\* Every step keeps the invariants and does what the action guard promises.
LEMMA ApprovingStep ==
  ASSUME SessionInv, KnownCalls, OneCommand, Approving, Patient, ~Mixes, ~Interjects, [Next]_vars
  PROVE  Approving' /\ KnownCalls' /\ Promised
<1>1. CASE UNCHANGED vars
  BY <1>1, ApprovingKept, NothingRuns DEF vars
<1>2. CASE TakeNothing
  <2>1. run # None /\ run.pc = "take" /\ store = None
    BY <1>2 DEF TakeNothing
  <2> QED
    BY <2>1 DEF OneCommand, Awaiting
<1> QED
  BY <1>1, <1>2, Steps, UserApproves, SendApproves, DecisionApproves, RejectedApproves,
     ApprovedApproves, SingleApproves, TickApproves, ModelApproves, ToolApproves

\* The invariants hold at the start.
LEMMA ApprovingStart ==
  ASSUME Init
  PROVE  OneCommand /\ KnownCalls /\ Approving /\ Approval!Init
<1>1. OneCommand /\ Approval!Init
  BY DEF Init, OneCommand, InProgress, Approval!Init
<1>2. KnownCalls
  <2>1. 0 \in 0..MaxCalls /\ \A c \in Calls : c > 0
    BY Bounds DEF Calls
  <2> QED
    BY <2>1 DEF Init, KnownCalls
<1>3. Dead
  BY DEF Init, NoCard, Dead
<1>4. run = None /\ queue = <<>>
  BY DEF Init
<1>5. Approving
  BY <1>3, <1>4 DEF Approving
<1> QED
  BY <1>1, <1>2, <1>5

\* The action guard (README.md:147): whatever a user who waits for each answer clicks, and
\* whatever the model, its tools, cancels, timeouts, resets and reloads do, every step of
\* the session is one of the promised ones.  No call runs twice, and none runs that needs
\* approval and was not granted.
THEOREM ApprovalIsKept ==
  ASSUME Patient, ~Mixes, ~Interjects
  PROVE  Spec => ImplementsApproval
<1>1. Init => OneCommand /\ KnownCalls /\ Approving /\ Approval!Init
  BY ApprovingStart
<1>2. SessionInv /\ OneCommand /\ KnownCalls /\ Approving /\ [Next]_vars =>
        OneCommand' /\ KnownCalls' /\ Approving' /\ [Approval!Next]_(Approval!vars)
  BY OneCommandStep, ApprovingStep DEF Promised
<1> QED
  BY SessionInvariance, <1>1, <1>2, PTL DEF Spec, ImplementsApproval, Approval!Spec

\* A promised step lets no call run unapproved or again.
LEMMA PromisedKeeps ==
  ASSUME SessionInv, RunsAreApproved, RunsOnce, Promised
  PROVE  RunsAreApproved' /\ RunsOnce'
<1>1. /\ verdict \in [Calls -> {"new", "free", "asked", "granted", "denied"}]
      /\ runs \in [Calls -> Nat]
  BY Typed
<1>2. CASE UNCHANGED <<verdict, runs>>
  BY <1>2 DEF RunsAreApproved, RunsOnce
<1>3. ASSUME NEW batch \in SUBSET Calls, Approval!Propose(batch) \/ Approval!Decide(batch)
      PROVE  RunsAreApproved' /\ RunsOnce'
  <2>1. runs' = runs
    BY <1>3 DEF Approval!Propose, Approval!Decide
  <2>2. \A c \in Calls : verdict[c] \in {"free", "granted"} => verdict'[c] = verdict[c]
    BY <1>3 DEF Approval!Propose, Approval!Decide
  <2> QED
    BY <2>1, <2>2 DEF RunsAreApproved, RunsOnce
<1>4. ASSUME NEW c \in Calls, Approval!Run(c)
      PROVE  RunsAreApproved' /\ RunsOnce'
  <2>1. /\ verdict' = verdict /\ verdict[c] \in {"free", "granted"} /\ runs[c] = 0
        /\ \A d \in Calls : runs'[d] = IF d = c THEN 1 ELSE runs[d]
    BY <1>1, <1>4 DEF Approval!Run
  <2> QED
    BY <1>1, <2>1 DEF RunsAreApproved, RunsOnce
<1> QED
  BY <1>2, <1>3, <1>4 DEF Promised, Approval!Next, Approval!vars

\* What that means for the state: every call that has run needs no approval or was granted,
\* and has run once.  The run mixed shows what remains of this with a user who approves all
\* after deciding on some.
THEOREM OnlyGrantedRun ==
  ASSUME Patient, ~Mixes, ~Interjects
  PROVE  Spec => [](RunsAreApproved /\ RunsOnce)
<1>1. Init => RunsAreApproved /\ RunsOnce
  BY DEF Init, RunsAreApproved, RunsOnce
<1>2. Init => OneCommand /\ KnownCalls /\ Approving
  BY ApprovingStart
<1>3. SessionInv /\ OneCommand /\ KnownCalls /\ Approving /\ RunsAreApproved /\ RunsOnce /\ [Next]_vars =>
        OneCommand' /\ KnownCalls' /\ Approving' /\ RunsAreApproved' /\ RunsOnce'
  BY OneCommandStep, ApprovingStep, PromisedKeeps
<1> QED
  BY SessionInvariance, <1>1, <1>2, <1>3, PTL DEF Spec
=============================================================================
