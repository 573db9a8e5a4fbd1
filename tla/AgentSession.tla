---------------------------- MODULE AgentSession ----------------------------
(***************************************************************************)
(* The session of the AI agent: the commands that take it out of the store *)
(* and put it back (commands/agent.rs), the tick state machine they drive  *)
(* (agent_harness/mod.rs), and the chat panel whose cards the user clicks  *)
(* (AiAgent.tsx).                                                          *)
(*                                                                         *)
(* A command that ticks holds the agent_harness mutex from start to end,   *)
(* so commands queue.  Cancelling, resetting, loading, saving and the      *)
(* reminder of a project switch do not, and interleave with its awaits.    *)
(***************************************************************************)
EXTENDS SessionHistory

CONSTANTS
  None,
  MaxCommands,    \* bound on commands the user issues
  MaxBatch,       \* bound on tool calls in one answer of the model
  MaxIterations,  \* max_iterations of a session; 25 in the code
  MaxCancels,     \* bound on presses of the stop button
  MaxOpens,       \* bound on resets, loads and project switches
  MaxSaves,       \* bound on saves that the panel makes
  Patient,        \* the user waits for each answer before the next click
  Mixes,          \* the user approves all after deciding on some calls of a batch
  Interjects      \* the user sends a message, or switches projects, while calls are pending

ASSUME SessionAssumption ==
  /\ \A n \in {MaxCommands, MaxBatch, MaxIterations, MaxCancels, MaxOpens, MaxSaves} : n \in Nat
  /\ MaxBatch > 0
  /\ \A b \in {Patient, Mixes, Interjects} : b \in BOOLEAN
  /\ None \notin Int

VARIABLES
  store,     \* agent_session: the session, or None while a command has it or there is none
  run,       \* the command that holds the harness, or None
  queue,     \* commands that wait for the harness
  cancel,    \* agent_cancel_flag
  card,      \* the newest card of the panel that asks for approval
  view,      \* sessionId of the panel
  db,        \* the saved history of each session
  answered,  \* how many commands have returned; commands are numbered in order
  left,      \* what is left: of the bounds on stops, opens and saves, and the sessions
             \* that were opened and that the panel has still to show
  verdict,   \* history: what the user decided on each call, see ToolApproval
  runs,      \* history: how often each call was run
  aimed,     \* history: commands in progress when the stop button was pressed
  dropped    \* history: sessions that the user has left by a reset or a load

sessionVars == <<store, db, view, dropped>>
userVars == <<card, verdict>>
vars == <<store, run, queue, cancel, card, view, db, answered, left, verdict, runs, aimed, dropped>>

Ids == 1..MaxCommands   \* a session is named by the command that created it
Pending == 0            \* a session id "pending_...": no session has it

Session ==
  [id : Ids, history : Seq(Message), pending : Seq(Calls), iteration : 0..MaxIterations,
   spent : BOOLEAN,  \* token_budget = 0
   state : {"Idle", "Thinking", "AwaitingApproval", "ExecutingTool", "Finished", "Error"}]

Request ==
  [op : {"send", "approve", "approveAll", "reject", "rejectAll"}, index : 1..MaxBatch,
   from : {"none", "single", "batch"}]  \* the card that was clicked

Run ==
  [request : Request, session : Session \cup {None}, todo : Seq(Calls),
   pc : {"take", "single", "top", "llm", "exec", "backoff"}]

ASSUME NoneAssumption == None \notin Session /\ None \notin Run /\ None \notin Seq(Message)

TypeOK ==
  /\ store \in Session \cup {None}
  /\ run \in Run \cup {None}
  /\ queue \in Seq(Request)
  /\ cancel \in BOOLEAN
  /\ card \in [kind : {"none", "single", "batch"}, calls : Seq(Calls), clicked : SUBSET (1..MaxBatch)]
  /\ view \in Ids \cup {None, Pending}
  /\ db \in [Ids -> Seq(Message) \cup {None}]
  /\ answered \in 0..MaxCommands
  /\ left \in [cancels : 0..MaxCancels, opens : 0..MaxOpens, saves : 0..MaxSaves,
               shows : SUBSET (Ids \cup {None})]
  /\ verdict \in [Calls -> {"new", "free", "asked", "granted", "denied"}]
  /\ runs \in [Calls -> Nat]
  /\ aimed \subseteq Ids
  /\ dropped \subseteq Ids

NoCard == [kind |-> "none", calls |-> <<>>, clicked |-> {}]

Init ==
  /\ store = None
  /\ run = None
  /\ queue = <<>>
  /\ cancel = FALSE
  /\ card = NoCard
  /\ view = None
  /\ db = [i \in Ids |-> None]
  /\ answered = 0
  /\ left = [cancels |-> MaxCancels, opens |-> MaxOpens, saves |-> MaxSaves, shows |-> {}]
  /\ verdict = [c \in Calls |-> "new"]
  /\ runs = [c \in Calls |-> 0]
  /\ aimed = {}
  /\ dropped = {}

----------------------------------------------------------------------------
(* The user.                                                               *)

InProgress == Len(queue) + (IF run = None THEN 0 ELSE 1)
Issued == answered + InProgress
Still == InProgress = 0 /\ left.shows = {}
Awaiting(s) == s # None /\ s.state = "AwaitingApproval"
Members(seq) == {seq[i] : i \in DOMAIN seq}

Issue(op, index) ==
  /\ Issued < MaxCommands
  /\ Patient => Still
  /\ queue' = Append(queue, [op |-> op, index |-> index, from |-> card.kind])
  /\ UNCHANGED <<sessionVars, run, cancel, answered, left, runs, aimed>>

\* The calls at these positions of the card are decided, as the user sees it.
Click(positions, v) ==
  /\ positions # {}
  /\ card' = [card EXCEPT !.clicked = @ \cup positions]
  /\ verdict' = [c \in Calls |->
       IF verdict[c] = "asked" /\ c \in {card.calls[i] : i \in positions} THEN v ELSE verdict[c]]

SendMessage ==
  /\ Interjects \/ ~Awaiting(store)
  /\ Issue("send", 1)
  /\ UNCHANGED userVars

\* The two buttons of one tool in a batch card; a tool that was clicked has none.
ApproveTool(i) ==
  /\ card.kind = "batch" /\ i \in DOMAIN card.calls \ card.clicked
  /\ Click({i}, "granted")
  /\ Issue("approve", i)

RejectTool(i) ==
  /\ card.kind = "batch" /\ i \in DOMAIN card.calls \ card.clicked
  /\ Click({i}, "denied")
  /\ Issue("reject", i)

\* The card shows every call of the batch the session waits for, and none was clicked.
WholeBatch ==
  /\ store # None /\ Members(LastCalls(store.history)) = Members(card.calls)
  /\ card.clicked = {}

\* The button of a single card, or "approve all" of a batch card, which never goes away.
ApproveCard ==
  /\ card.kind = "single" => card.clicked = {}
  /\ Mixes \/ WholeBatch
  /\ Click(DOMAIN card.calls, "granted")
  /\ Issue("approveAll", 1)

RejectCard ==
  /\ card.kind = "single" /\ card.clicked = {}
  /\ Click(DOMAIN card.calls, "denied")
  /\ Issue("rejectAll", 1)

\* agent_cancel; the panel has a stop button while it waits for an answer.
Cancel ==
  /\ left.cancels > 0
  /\ InProgress > 0
  /\ left' = [left EXCEPT !.cancels = @ - 1]
  /\ cancel' = TRUE
  /\ aimed' = (answered + 1)..Issued
  /\ UNCHANGED <<sessionVars, userVars, run, queue, answered, runs>>

\* What the user leaves by opening another session or a new one.
Current == {s.id : s \in {store, IF run = None THEN None ELSE run.session} \ {None}}

\* The command; the panel is changed when it has its answer.
Open(shows) ==
  /\ left.opens > 0
  /\ Patient => Still
  /\ left' = [left EXCEPT !.opens = @ - 1, !.shows = @ \cup shows]
  /\ UNCHANGED <<card, view, run, queue, cancel, db, answered, verdict, runs, aimed>>

\* A mutant: the panel forgets the chat and the store does not.
ResetPanel ==
  /\ Open({None})
  /\ dropped' = dropped \cup Current
  /\ UNCHANGED store

\* agent_reset_session, by handleNewChat.
Reset ==
  /\ Open({None})
  /\ store' = None
  /\ dropped' = dropped \cup Current

Restored(id) ==
  [id |-> id, history |-> db[id], pending |-> <<>>, iteration |-> 0, spent |-> FALSE,
   state |-> "Idle"]

\* load_agent_session; only saved sessions are in the list.
Load(id) ==
  /\ Open({id})
  /\ db[id] # None
  /\ store' = Restored(id)
  /\ dropped' = (dropped \cup Current) \ {id}

\* The rest of either, after its awaits: the chat of the session, or an empty one.
ShowOpened(id) ==
  /\ id \in left.shows
  /\ left' = [left EXCEPT !.shows = @ \ {id}]
  /\ view' = id
  /\ card' = NoCard
  /\ UNCHANGED <<store, db, dropped, run, queue, cancel, answered, verdict, runs, aimed>>

\* The catch of handleNewChat: its switch was refused as stale (see ProjectSwitch), which
\* takes more than one panel, and the panel stays as it was.
NewChatFails ==
  /\ ~Patient
  /\ None \in left.shows
  /\ left' = [left EXCEPT !.shows = @ \ {None}]
  /\ UNCHANGED <<sessionVars, userVars, run, queue, cancel, answered, runs, aimed>>

\* switch_agent_project, last step: the stored session is told of the new workspace.
RemindOfWorkspace ==
  /\ Open({})
  /\ store # None
  /\ Interjects \/ ~Awaiting(store)
  /\ store' = [store EXCEPT !.history = Append(@, User)]
  /\ UNCHANGED dropped

\* save_agent_session, by the effect on every change of the chat: the history saved is
\* that of the stored session, or none if that is another one or a command has it.
ToSave(s, id) == IF s # None /\ s.id = id THEN s.history ELSE <<>>

Save ==
  /\ left.saves > 0
  /\ view \in Ids
  /\ left' = [left EXCEPT !.saves = @ - 1]
  /\ db' = [db EXCEPT ![view] = ToSave(store, view)]
  /\ UNCHANGED <<store, view, dropped, userVars, run, queue, cancel, answered, runs, aimed>>

----------------------------------------------------------------------------
(* The commands that hold the harness.                                     *)

\* Reject, with or without an index, ticks once; the others tick until something else
\* than Continue comes back.
OneTick(r) == r.op \in {"reject", "rejectAll"}

\* What the panel shows for an answer that lists pending calls.  The handlers of approve
\* and reject put the calls of a batch into the card that was clicked, where a single
\* card does not display them; the one of reject ignores a single call.
CardAfter(r, kind, calls) ==
  LET new == [kind |-> kind, calls |-> calls, clicked |-> {}]
  IN  CASE kind = "batch" -> IF r.op = "send" \/ r.from = "batch" THEN new ELSE card
        [] kind = "single" -> IF OneTick(r) THEN card ELSE new
        [] OTHER -> card

\* The command returns; the next in the queue may take the harness.
Return(r, kind, calls, newView) ==
  /\ run' = None
  /\ answered' = answered + 1
  /\ card' = CardAfter(r, kind, calls)
  /\ view' = newView
  /\ UNCHANGED <<db, left, aimed, dropped>>

PutBack(s) == store' = s
ReturnError(r) == Return(r, "error", <<>>, view)
ReturnText(r, s) == PutBack(s) /\ Return(r, "text", <<>>, s.id)

\* Every path that ends in WaitForApproval: two calls or more make a batch card, but not
\* after a rejection.
ReturnPending(r, s) ==
  /\ PutBack(s)
  /\ IF Len(s.pending) > 1 /\ ~OneTick(r)
     THEN Return(r, "batch", s.pending, Pending)
     ELSE Return(r, "single", SubSeq(s.pending, 1, 1), Pending)

\* The command keeps the session and goes on.
GoOn(r, s, pc, todo) ==
  /\ run' = [request |-> r, session |-> s, todo |-> todo, pc |-> pc]
  /\ UNCHANGED <<card, view, answered, db, left, aimed, dropped>>

Started(c) == runs' = [runs EXCEPT ![c] = @ + 1]

Fresh ==
  [id |-> answered + 1, history |-> <<>>, pending |-> <<>>, iteration |-> 0, spent |-> FALSE,
   state |-> "Idle"]

\* A mutant: the state is not reset, so a batch that was cancelled half-way goes on.
SentKeeps(s) == [s EXCEPT !.history = Append(@, User)]

\* agent_send_message: the state is reset unless the session waits for approval.
Sent(s) ==
  [s EXCEPT !.state = IF @ = "AwaitingApproval" THEN @ ELSE "Idle",
            !.history = Append(@, User)]

StartSend ==
  /\ run = None /\ queue # <<>> /\ Head(queue).op = "send"
  /\ queue' = Tail(queue)
  /\ LET r == Head(queue) IN
       \/ /\ ReturnError(r)   \* no API key for the chosen model
          /\ UNCHANGED store
       \/ /\ GoOn(r, Sent(IF store = None THEN Fresh ELSE store), "top", <<>>)
          /\ store' = None
  /\ UNCHANGED <<cancel, verdict, runs>>

\* agent_approve_tool looks whether the stored session waits, and takes it afterwards.
StartDecision ==
  /\ run = None /\ queue # <<>> /\ Head(queue).op # "send"
  /\ queue' = Tail(queue)
  /\ LET r == Head(queue) IN
       IF Awaiting(store) THEN GoOn(r, None, "take", <<>>) ELSE ReturnError(r)
  /\ UNCHANGED <<store, cancel, verdict, runs>>

TakeNothing ==
  /\ run # None /\ run.pc = "take" /\ store = None
  /\ ReturnError(run.request)
  /\ UNCHANGED <<store, queue, cancel, verdict, runs>>

\* A mutant: pop where the code has remove.
WithoutLast(seq, i) == SubSeq(seq, 1, Len(seq) - 1)

Without(seq, i) == SubSeq(seq, 1, i - 1) \o SubSeq(seq, i + 1, Len(seq))
Answers(seq) == [i \in DOMAIN seq |-> Result(seq[i])]

\* The pending calls of a session that was taken: none if it no longer waits.
PendingOf(s) == IF Awaiting(s) THEN s.pending ELSE <<>>

\* The call at i is answered.  The rest stays pending; there is a rest or none.
Settled(s, i) ==
  LET rest == Without(s.pending, i) IN
    [s EXCEPT !.history = Append(@, Result(s.pending[i])),
              !.pending = rest,
              !.state = IF rest # <<>> THEN "AwaitingApproval" ELSE "Thinking"]

ReturnRest(r, s) == PutBack(s) /\ Return(r, "batch", s.pending, Pending)

TakeRejected ==
  /\ run # None /\ run.pc = "take" /\ store # None
  /\ LET r == run.request
         s == store
         inRange == r.index \in DOMAIN PendingOf(s) IN
       \/ /\ r.op = "reject" /\ inRange /\ Len(s.pending) > 1
          /\ ReturnRest(r, Settled(s, r.index))
       \/ /\ r.op = "reject" /\ inRange /\ Len(s.pending) = 1
          /\ GoOn(r, Settled(s, r.index), "top", <<>>)
          /\ store' = None
       \/ /\ r.op = "reject" /\ ~inRange
          /\ GoOn(r, [s EXCEPT !.state = "Thinking", !.pending = <<>>], "top", <<>>)
          /\ store' = None
       \/ /\ r.op = "rejectAll"
          /\ GoOn(r, [s EXCEPT !.state = "Thinking", !.pending = <<>>,
                               !.history = @ \o Answers(PendingOf(s))], "top", <<>>)
          /\ store' = None
  /\ UNCHANGED <<queue, cancel, verdict, runs>>

\* An index out of range, or a session that no longer waits, is left to the ticks.
TakeApproved ==
  /\ run # None /\ run.pc = "take" /\ store # None
  /\ LET r == run.request
         s == store
         inRange == r.index \in DOMAIN PendingOf(s) IN
       \/ /\ r.op = "approve" /\ inRange
          /\ GoOn(r, s, "single", <<s.pending[r.index]>>)
          /\ Started(s.pending[r.index])
       \/ /\ r.op = "approve" /\ ~inRange
          /\ GoOn(r, s, "top", <<>>)
          /\ UNCHANGED runs
       \/ /\ r.op = "approveAll"
          /\ GoOn(r, [s EXCEPT !.state = "ExecutingTool", !.pending = <<>>], "top", <<>>)
          /\ UNCHANGED runs
  /\ store' = None
  /\ UNCHANGED <<queue, cancel, verdict>>

\* The one approved call returns, with a result or an error; nothing else ends its wait.
FinishSingle ==
  /\ run # None /\ run.pc = "single"
  /\ LET s == Settled(run.session, run.request.index) IN
       IF s.pending # <<>>
       THEN ReturnRest(run.request, s)
       ELSE GoOn(run.request, s, "top", <<>>) /\ UNCHANGED store
  /\ UNCHANGED <<queue, cancel, verdict, runs>>

----------------------------------------------------------------------------
(* One tick under run_tick, which lets a cancel or 90 s end it at an await. *)

\* The loop looks at the flag before each tick, and a tick that does not await can
\* lose the race against it.
CancelAtTop ==
  /\ run # None /\ run.pc = "top" /\ cancel
  /\ cancel' = FALSE
  /\ PutBack(run.session)
  /\ Return(run.request, "cancelled", <<>>, run.session.id)
  /\ UNCHANGED <<queue, verdict, runs>>

\* A rejection has no loop, so a flag that is set does not stop its tick from starting.
AtTick == run # None /\ run.pc = "top" /\ (cancel => OneTick(run.request))

\* The tick ends in TickResult::Error: only the rejection puts the session back.
Fail(r, s) ==
  /\ IF OneTick(r) THEN PutBack([s EXCEPT !.state = "Error"]) ELSE UNCHANGED store
  /\ ReturnError(r)

TickSpent ==
  /\ AtTick /\ run.session.spent
  /\ Fail(run.request, run.session)
  /\ UNCHANGED <<queue, cancel, verdict, runs>>

\* A mutant: one iteration too many.
AbleOnceMore(s) == ~s.spent /\ s.iteration <= MaxIterations

Able(s) == ~s.spent /\ s.iteration < MaxIterations

TickLimit ==
  /\ AtTick /\ ~run.session.spent /\ run.session.iteration >= MaxIterations
  /\ ReturnText(run.request, [run.session EXCEPT !.state = "Finished", !.pending = <<>>])
  /\ UNCHANGED <<queue, cancel, verdict, runs>>

\* Idle becomes Thinking; the history is compacted and the model is called.
TickThink ==
  /\ AtTick /\ Able(run.session) /\ run.session.state \in {"Idle", "Thinking"}
  /\ GoOn(run.request,
          [run.session EXCEPT !.state = "Thinking", !.history = Compacted(@)], "llm", <<>>)
  /\ UNCHANGED <<store, queue, cancel, verdict, runs>>

\* All calls of the last message that has any are executed, one after the other.
TickExecute ==
  /\ AtTick /\ Able(run.session) /\ run.session.state = "ExecutingTool"
  /\ LET calls == LastCalls(run.session.history) IN
       /\ calls # <<>>
       /\ GoOn(run.request, run.session, "exec", calls)
       /\ Started(Head(calls))
  /\ UNCHANGED <<store, queue, cancel, verdict>>

TickNoCalls ==
  /\ AtTick /\ Able(run.session) /\ run.session.state = "ExecutingTool"
  /\ LastCalls(run.session.history) = <<>>
  /\ Fail(run.request, run.session)
  /\ UNCHANGED <<queue, cancel, verdict, runs>>

\* A mutant: waiting for approval counts as Continue.
TickAwaitSpins ==
  /\ AtTick /\ Able(run.session) /\ Awaiting(run.session)
  /\ UNCHANGED vars

TickAwait ==
  /\ AtTick /\ Able(run.session) /\ Awaiting(run.session)
  /\ ReturnPending(run.request, run.session)
  /\ UNCHANGED <<queue, cancel, verdict, runs>>

AtModel == run # None /\ run.pc = "llm"
Counted(s) == [s EXCEPT !.iteration = @ + 1]

ModelFails ==
  /\ AtModel
  /\ Fail(run.request, run.session)
  /\ UNCHANGED <<queue, cancel, verdict, runs>>

\* The answer takes the last of the token budget and is thrown away.
ModelSpends ==
  /\ AtModel
  /\ Fail(run.request, [Counted(run.session) EXCEPT !.spent = TRUE])
  /\ UNCHANGED <<queue, cancel, verdict, runs>>

ModelFinishes ==
  /\ AtModel
  /\ ReturnText(run.request,
       [Counted(run.session) EXCEPT !.history = Append(@, Text), !.state = "Finished"])
  /\ UNCHANGED <<queue, cancel, verdict, runs>>

Known == Cardinality({c \in Calls : verdict[c] # "new"})
NewCalls(n) == [i \in 1..n |-> Known + i]
Asked(s, calls) == [Counted(s) EXCEPT !.history = Append(@, Asks(calls))]
AskedAs(calls, v) ==
  verdict' = [c \in Calls |-> IF c \in Members(calls) THEN v ELSE verdict[c]]

\* The model asks for n calls, one of which at least is not a read.
ModelAsks(n) ==
  /\ AtModel /\ Known + n <= MaxCalls
  /\ LET calls == NewCalls(n) IN
       /\ AskedAs(calls, "asked")
       /\ ReturnPending(run.request, [Asked(run.session, calls) EXCEPT
            !.state = "AwaitingApproval", !.pending = calls])
  /\ UNCHANGED <<queue, cancel, runs>>

\* The model asks for n reads; after a rejection nothing executes them yet.
ModelReads(n) ==
  /\ AtModel /\ Known + n <= MaxCalls
  /\ LET calls == NewCalls(n)
         s == [Asked(run.session, calls) EXCEPT !.state = "ExecutingTool"] IN
       /\ AskedAs(calls, "free")
       /\ IF OneTick(run.request)
          THEN ReturnText(run.request, s)
          ELSE GoOn(run.request, s, "top", <<>>) /\ UNCHANGED store
  /\ UNCHANGED <<queue, cancel, runs>>

AtTool == run # None /\ run.pc = "exec"
Resulted(s, c) == [s EXCEPT !.history = Append(@, Result(c))]

\* The next call, or back to Thinking after the last.
NextTool(r, s, rest) ==
  /\ IF rest = <<>>
     THEN GoOn(r, [s EXCEPT !.state = "Thinking"], "top", <<>>) /\ UNCHANGED runs
     ELSE GoOn(r, s, "exec", rest) /\ Started(Head(rest))
  /\ UNCHANGED <<store, queue, cancel, verdict>>

ToolReturns ==
  /\ AtTool
  /\ NextTool(run.request, Resulted(run.session, Head(run.todo)), Tail(run.todo))

ToolFailsForNow ==
  /\ AtTool
  /\ GoOn(run.request, Resulted(run.session, Head(run.todo)), "backoff", Tail(run.todo))
  /\ UNCHANGED <<store, queue, cancel, verdict, runs>>

EndBackoff ==
  /\ run # None /\ run.pc = "backoff"
  /\ NextTool(run.request, run.session, run.todo)

ToolFailsForGood ==
  /\ AtTool
  /\ Fail(run.request, Resulted(run.session, Head(run.todo)))
  /\ UNCHANGED <<queue, cancel, verdict, runs>>

\* The future of the tick is dropped where it awaits, the session stays as it is there.
AtAwait == run # None /\ run.pc \in {"llm", "exec", "backoff"}

CancelTick ==
  /\ AtAwait /\ cancel
  /\ cancel' = FALSE
  /\ PutBack(run.session)
  /\ Return(run.request, "cancelled", <<>>, run.session.id)
  /\ UNCHANGED <<queue, verdict, runs>>

\* A mutant: the timeout returns without putting the session back.
TimeOutLoses ==
  /\ AtAwait
  /\ ReturnError(run.request)
  /\ UNCHANGED <<store, queue, cancel, verdict, runs>>

TimeOutTick ==
  /\ AtAwait
  /\ PutBack(run.session)
  /\ ReturnError(run.request)
  /\ UNCHANGED <<queue, cancel, verdict, runs>>

----------------------------------------------------------------------------
UserStep ==
  \/ SendMessage
  \/ \E i \in 1..MaxBatch : ApproveTool(i) \/ RejectTool(i)
  \/ ApproveCard
  \/ RejectCard
  \/ Cancel
  \/ Reset
  \/ \E id \in Ids : Load(id)
  \/ \E id \in left.shows : ShowOpened(id)
  \/ NewChatFails
  \/ RemindOfWorkspace
  \/ Save

HarnessStep ==
  \/ StartSend \/ StartDecision \/ TakeNothing \/ TakeRejected \/ TakeApproved \/ FinishSingle
  \/ CancelAtTop \/ TickSpent \/ TickLimit \/ TickThink \/ TickExecute \/ TickNoCalls \/ TickAwait
  \/ ModelFails \/ ModelSpends \/ ModelFinishes
  \/ \E n \in 1..MaxBatch : ModelAsks(n) \/ ModelReads(n)
  \/ ToolReturns \/ ToolFailsForNow \/ EndBackoff \/ ToolFailsForGood
  \/ CancelTick \/ TimeOutTick

Next == UserStep \/ HarnessStep

Spec == Init /\ [][Next]_vars

\* Every await of a command ends: the model's and a tool's in a tick after 90 s at the
\* latest, the backoff by its timer, a single call by the limits of the tool itself
\* (execute_command gives up waiting after command_timeout_secs).  The mutex is fair.
\* Nothing is assumed of the user.
FairSpec == Spec /\ WF_vars(HarnessStep)

----------------------------------------------------------------------------
(* Inductive invariants; AgentSessionProofs and ToolApprovalProofs prove   *)
(* the properties from them.                                               *)

\* The session that a command has.
Held == IF run = None THEN None ELSE run.session

\* A session that waits lists the calls it waits for.
Sound(s) == Len(s.pending) <= MaxBatch /\ (Awaiting(s) => s.pending # <<>>)

\* What a command may count on where it is.
AtItsPlace(r) ==
  /\ r.pc = "take" <=> r.session = None
  /\ r.pc \in {"take", "single"} => r.request.op # "send"
  /\ r.session # None => Sound(r.session)
  /\ r.pc = "single" => Awaiting(r.session) /\ r.request.index \in DOMAIN r.session.pending
  /\ r.pc = "llm" => Able(r.session)
  /\ r.pc = "exec" => r.todo # <<>>

SessionInv ==
  /\ TypeOK
  /\ Issued <= MaxCommands
  /\ store # None => Sound(store)
  /\ run # None => AtItsPlace(run)
  /\ Len(card.calls) <= MaxBatch

\* The calls that a command has yet to start.
Upcoming(r) ==
  CASE r.pc = "top" /\ r.session.state = "ExecutingTool" -> LastCalls(r.session.history)
    [] r.pc = "exec" -> Tail(r.todo)
    [] r.pc = "backoff" -> r.todo
    [] OTHER -> <<>>

\* A message has only reads to run.
OnlyReads ==
  run # None /\ run.request.op = "send" =>
    \A c \in Members(Upcoming(run)) : verdict[c] = "free"

\* The calls the model has asked for so far are the first ones; the others have not run.
KnownCalls ==
  /\ \E k \in 0..MaxCalls : \A c \in Calls : verdict[c] = "new" <=> c > k
  /\ \A c \in Calls : verdict[c] = "new" => runs[c] = 0

\* A patient user has one command under way at most.  A message finds no session that
\* waits, and a decision one that does.  None is under way while the panel has a session
\* to show.
OneCommand ==
  /\ InProgress <= 1
  /\ left.shows # {} => InProgress = 0
  /\ queue # <<>> /\ Head(queue).op = "send" => ~Awaiting(store)
  /\ run # None /\ run.pc = "take" => Awaiting(store)

\* Only sessions of commands that have come are known, and the one in use was not left.
InUse ==
  /\ store # None => store.id <= answered /\ store.id \notin dropped
  /\ Held # None => Held.id <= answered + 1 /\ Held.id \notin dropped
  /\ \A id \in {view} \cup left.shows : id \in Ids => id <= answered
  /\ \A id \in Ids : db[id] # None => id <= answered
  /\ \A id \in dropped : id <= answered

\* The calls can be answered at the end of the history: the last message that asks for
\* any asks for them, and only results follow it.
Answerable(h, calls) ==
  \E j \in DOMAIN h :
    /\ IsCalls(h[j])
    /\ calls \subseteq Members(h[j].calls)
    /\ \A k \in (j + 1)..Len(h) : h[k].role = "tool"

\* Histories are well paired, and the calls that are still to be answered can be.
Pairing ==
  /\ \A s \in {store, Held} \ {None} :
       WellPaired(s.history) /\ (Awaiting(s) => Answerable(s.history, Members(s.pending)))
  /\ \A id \in Ids : db[id] # None => WellPaired(db[id])
  /\ run # None /\ run.pc = "top" /\ run.session.state = "ExecutingTool" =>
       Answerable(run.session.history, {})
  /\ run # None /\ run.pc \in {"exec", "backoff"} =>
       Answerable(run.session.history, Members(run.todo))

\* No call is listed twice.
Distinct(calls) == \A i, j \in DOMAIN calls : calls[i] = calls[j] => i = j

\* The calls wait for their first run, with one of these verdicts.
Due(calls, verdicts) == \A c \in Members(calls) : verdict[c] \in verdicts /\ runs[c] = 0

\* A card on which nothing is left to click.
Dead == card.clicked = DOMAIN card.calls

\* The card shows what the session waits for, in a batch that was not run yet.
Shown(s) ==
  /\ Awaiting(s)
  /\ card.calls = s.pending
  /\ Distinct(s.pending) /\ Distinct(LastCalls(s.history))

\* What a request was meant for, before its session is taken or the call it approves ends.
Meant(r, s) ==
  \/ r.op = "send" /\ Dead
  \/ r.op = "rejectAll" /\ Dead
  \/ /\ r.op = "approveAll" /\ Dead
     /\ Distinct(LastCalls(s.history)) /\ Due(LastCalls(s.history), {"granted"})
  \/ /\ r.op \in {"approve", "reject"} /\ r.from = "batch" /\ card.kind = "batch"
     /\ Shown(s)
     /\ r.index \in DOMAIN s.pending /\ card.clicked = {r.index}
     /\ Due(Without(s.pending, r.index), {"asked"})

\* A card with something to click shows calls that nobody has decided on, and a command
\* runs nothing but calls that were granted or need no approval, each for the first time.
Approving ==
  /\ InProgress = 0 /\ left.shows = {} => Dead \/ (card.clicked = {} /\ Shown(store) /\ Due(store.pending, {"asked"}))
  /\ queue # <<>> =>
       /\ Meant(Head(queue), store)
       /\ Head(queue).op = "approve" => Due(<<store.pending[Head(queue).index]>>, {"granted"})
  /\ run # None /\ run.pc = "take" =>
       /\ Meant(run.request, store)
       /\ run.request.op = "approve" => Due(<<store.pending[run.request.index]>>, {"granted"})
  /\ run # None /\ run.pc = "single" =>
       run.request.op = "approve" /\ Meant(run.request, run.session)
  /\ run # None /\ run.pc \notin {"take", "single"} => Dead /\ ~Awaiting(run.session)
  /\ run # None => Distinct(Upcoming(run)) /\ Due(Upcoming(run), {"free", "granted"})

\* With a user who waits for each answer, and who leaves neither cards nor pending calls.
PatientSessionInv == SessionInv /\ KnownCalls /\ OneCommand /\ InUse /\ Pairing /\ Approving

----------------------------------------------------------------------------
(* Properties.                                                             *)

\* The action guard: a call is run only if it needs no approval or the user granted
\* that very call.
RunsAreApproved == \A c \in Calls : runs[c] > 0 => verdict[c] \in {"free", "granted"}

\* No call is run again, whichever way its batch is decided.
RunsOnce == \A c \in Calls : runs[c] <= 1

\* Both, step by step: the session implements what the action guard promises.
Approval == INSTANCE ToolApproval
ImplementsApproval == Approval!Spec

\* A new message never makes the harness run a call that was pending or half-way when it
\* came: what it runs are the reads that the model asks for in answer to it.
MessageRunsOnlyReads ==
  [][\A c \in Calls : runs'[c] > runs[c] /\ run'.request.op = "send" => verdict'[c] = "free"]_vars

FailStep ==
  ~OneTick(run.request) /\
    (TickSpent \/ TickNoCalls \/ ModelFails \/ ModelSpends \/ ToolFailsForGood)

\* Whatever ends a command, be it a cancel, a timeout or the end of a rejection, the
\* session it took is in the store again; only the error of a loop loses it.
HeldSessionComesBack ==
  [][Held # None /\ Held' = None /\ ~FailStep => store' # None /\ store'.id = Held.id]_vars

\* Tool results stay with the message that asked for them, as compact_history says they
\* must, through compaction, cancels, timeouts, rejections and reloads.
HistoriesArePaired ==
  \A s \in {store, Held} \ {None} : WellPaired(s.history)

\* The stop button stops the loop that runs, not one that is started later.
StopsItsTarget == [][cancel /\ ~cancel' => answered + 1 \in aimed]_vars

\* While the agent waits for approval and no command runs, the panel shows what it waits
\* for, with a button that still works.
CardShowsPending ==
  InProgress = 0 /\ Awaiting(store) =>
    /\ card.calls = store.pending
    /\ card.kind = "batch" \/ card.clicked = {}

\* A session that was left by a reset, or by opening another, is never taken up again.
LeftIsLeft == [][Held = None /\ Held' # None => Held'.id \notin dropped]_vars

\* A session that was saved with messages keeps some in the database.
SavedIsKept ==
  [][\A id \in Ids : db[id] \notin {None, <<>>} => db'[id] # <<>>]_vars

\* When the agent says it has finished, every call that was granted has run.
GrantedHasRun ==
  InProgress = 0 /\ store # None /\ store.state = "Finished" =>
    \A c \in Calls : verdict[c] = "granted" => runs[c] > 0

\* Every command returns: no loop of ticks is endless and none waits for the user.
Answered == \A n \in 1..MaxCommands : Issued >= n ~> answered >= n
=============================================================================
