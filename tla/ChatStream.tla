----------------------------- MODULE ChatStream -----------------------------
(***************************************************************************)
(* A message under way in the chat of AiAgent.tsx: the events that stream  *)
(* in while agent_send_message runs, the placeholder they fill, the cards  *)
(* of the tool calls, the watchdog and the answer.  A message for the one  *)
(* agent waits for the lock of the harness, reports each iteration, which  *)
(* the session counts, and its answer holds none; one for the team of      *)
(* agents takes no lock, reports none, and its answer holds six of its     *)
(* own, numbered from one.                                                 *)
(***************************************************************************)
EXTENDS Naturals, Sequences, SequencesExt

CONSTANTS
    Message,        \* messages, in the order they are sent
    None,           \* null
    MaxIterations,  \* max_iterations of the session, 25 in the code
    TeamSteps,      \* iterations of the team's workflow, 6 in the code
    MaxEvents,      \* bound on the events under way
    Patient         \* TRUE: nothing is sent while a command or an event is
                    \* under way

StreamingAssumption ==
    /\ Message \subseteq Nat \ {0} /\ None = 0
    /\ {MaxIterations, TeamSteps, MaxEvents} \subseteq Nat /\ Patient \in BOOLEAN

VARIABLES
    chat,           \* chatHistory: items with an id, their message and text
    stream,         \* activeStreamMessageIdRef: a number, None without one
    sending,        \* isActiveSender
    typing,         \* isTyping
    seen,           \* processedIters
    commands,       \* agent_send_message under way, in the order of the lock
    counted,        \* iteration_count of the session
    replies,        \* their answers, still under way
    events,         \* events emitted and not yet delivered
    given           \* the placeholders that were given up, see GiveUp

chatVars == <<chat, stream, sending, typing, seen, commands, counted, replies, events, given>>

Item(id, of, ok) == [id |-> id, of |-> of, ok |-> ok]

Init ==
    /\ chat = <<>> /\ stream = None
    /\ sending = FALSE /\ typing = FALSE
    /\ seen = {}
    /\ commands = <<>> /\ counted = 0 /\ replies = {} /\ events = <<>>
    /\ given = {}

Ids(c) == {c[i].id : i \in DOMAIN c}
MergedAsNew(c, item) == Append(c, item)
Merged(c, item) ==
    IF item.id \in Ids(c) THEN [i \in DOMAIN c |-> IF c[i].id = item.id THEN item ELSE c[i]]
    ELSE Append(c, item)
\* removeStreamPlaceholder.
Unplaced(c) == SelectSeq(c, LAMBDA x : x.id # <<"stream", stream>>)
Sent(m) == <<"user", m>> \in Ids(chat)
\* The command at i runs: it is for the team, or has the lock.
Runs(i) == commands[i].team \/ \A j \in 1 .. i - 1 : commands[j].team

\* The ref is set to null and the placeholder stays in the chat.
GiveUp == stream' = None /\ given' = given \cup {stream}

SendIntoOld(m, composed, team) ==
    /\ composed => ~typing
    /\ Patient => commands = <<>> /\ replies = {} /\ events = <<>>
    /\ \A n \in Message : Sent(n) <=> n < m
    /\ chat' = Append(chat, Item(<<"user", m>>, {m}, TRUE))
    /\ typing' = TRUE /\ sending' = TRUE
    /\ seen' = {}
    /\ commands' = Append(commands, [msg |-> m, team |-> team, step |-> 0, spoke |-> FALSE])
    /\ UNCHANGED <<stream, given, counted, replies, events>>

\* triggerSendMessage: from the composer, which is disabled while typing,
\* or from the card of an error, which is not.
Send(m, composed, team) ==
    /\ composed => ~typing
    /\ Patient => commands = <<>> /\ replies = {} /\ events = <<>>
    /\ \A n \in Message : Sent(n) <=> n < m
    /\ chat' = Append(chat, Item(<<"user", m>>, {m}, TRUE))
    /\ typing' = TRUE /\ sending' = TRUE
    /\ GiveUp
    /\ seen' = {}
    /\ commands' = Append(commands, [msg |-> m, team |-> team, step |-> 0, spoke |-> FALSE])
    /\ UNCHANGED <<counted, replies, events>>

\* A command that runs calls the model, which speaks; then a tool runs and
\* the iteration is reported, or the next of the team takes its turn.
Emit(e) == Len(events) < MaxEvents /\ events' = Append(events, e)

Speak(i) ==
    /\ Runs(i) /\ ~commands[i].spoke
    /\ Emit([kind |-> "text", of |-> commands[i].msg, iteration |-> 0])
    /\ commands' = [commands EXCEPT ![i].spoke = TRUE]
    /\ UNCHANGED <<chat, stream, sending, typing, seen, counted, replies, given>>

Iterate(i) ==
    /\ Runs(i) /\ ~commands[i].team /\ commands[i].spoke /\ counted < MaxIterations
    /\ counted' = counted + 1
    /\ Emit([kind |-> "iteration", of |-> commands[i].msg, iteration |-> counted + 1])
    /\ commands' = [commands EXCEPT ![i].spoke = FALSE]
    /\ UNCHANGED <<chat, stream, sending, typing, seen, replies, given>>

TakeTurn(i) ==
    /\ commands[i].team /\ commands[i].spoke /\ commands[i].step < TeamSteps
    /\ commands' = [commands EXCEPT ![i].step = @ + 1, ![i].spoke = FALSE]
    /\ UNCHANGED <<chat, stream, sending, typing, seen, counted, replies, events, given>>

End(i, ok) ==
    /\ Runs(i)
    /\ ok /\ commands[i].team => commands[i].step = TeamSteps
    /\ commands' = RemoveAt(commands, i)
    /\ replies' = replies \cup {[msg |-> commands[i].msg, iterations |-> commands[i].step, ok |-> ok]}
    /\ UNCHANGED <<chat, stream, sending, typing, seen, counted, events, given>>

\* "agent-text-chunk".
ShowChunk(e) ==
    /\ e.kind = "text"
    /\ IF ~sending THEN UNCHANGED <<chat, stream>>
       ELSE IF stream = None
       THEN LET n == CHOOSE k \in 1 .. Len(chat) + 1 : <<"stream", k>> \notin Ids(chat)
            IN  /\ stream' = n
                /\ chat' = Append(chat, Item(<<"stream", n>>, {e.of}, TRUE))
       ELSE /\ chat' = [i \in DOMAIN chat |-> IF chat[i].id = <<"stream", stream>> THEN [chat[i] EXCEPT !.of = @ \cup {e.of}] ELSE chat[i]]
            /\ UNCHANGED stream
    /\ UNCHANGED <<seen>>

\* "agent-iteration", with the result of its tool.
ShowIteration(e) ==
    /\ e.kind = "iteration"
    /\ IF ~sending \/ e.iteration \in seen THEN UNCHANGED <<chat, stream, seen>>
       ELSE /\ seen' = seen \cup {e.iteration}
            /\ stream' = None
            /\ chat' = Merged(Unplaced(chat), Item(<<"iteration", e.iteration>>, {e.of}, TRUE))

Deliver ==
    /\ events # <<>>
    /\ events' = Tail(events)
    /\ ShowChunk(Head(events)) \/ ShowIteration(Head(events))
    /\ UNCHANGED <<sending, typing, commands, counted, replies, given>>

\* 120 s without an event.
Watchdog ==
    /\ typing
    /\ typing' = FALSE
    /\ GiveUp
    /\ UNCHANGED <<chat, sending, seen, commands, counted, replies, events>>

\* handleCancel: the flag ends the command that runs, at its next check.
Cancel ==
    /\ typing
    /\ typing' = FALSE
    /\ GiveUp
    /\ UNCHANGED <<chat, sending, seen, commands, counted, replies, events>>

WithCallsMissing(c, r) ==
    FoldLeftDomain(LAMBDA acc, k : IF <<"iteration", k>> \in Ids(acc) THEN acc
                                   ELSE Append(acc, Item(<<"iteration", k>>, {r.msg}, TRUE)),
                   c, [k \in 1 .. r.iterations |-> k])

\* The iterations of a loop_result are merged into the chat by their ids.
WithCalls(c, r) ==
    FoldLeftDomain(LAMBDA acc, k : Merged(acc, Item(<<"iteration", k>>, {r.msg}, TRUE)), c, [k \in 1 .. r.iterations |-> k])

AnswerOfSuccess(r) ==
    /\ replies' = replies \ {r}
    /\ typing' = (typing /\ ~r.ok) /\ sending' = FALSE
    /\ IF r.ok
       THEN /\ chat' = Append(WithCalls(Unplaced(chat), r), Item(<<"final", r.msg>>, {r.msg}, TRUE))
            /\ stream' = None
            /\ UNCHANGED given
       ELSE /\ chat' = Append(chat, Item(<<"error", r.msg>>, {r.msg}, FALSE))
            /\ given' = given \cup {stream}
            /\ UNCHANGED stream
    /\ UNCHANGED <<seen, commands, counted, events>>

\* The rest of triggerSendMessage.  The catch leaves the placeholder.
Answer(r) ==
    /\ replies' = replies \ {r}
    /\ typing' = FALSE /\ sending' = FALSE
    /\ IF r.ok
       THEN /\ chat' = Append(WithCalls(Unplaced(chat), r), Item(<<"final", r.msg>>, {r.msg}, TRUE))
            /\ stream' = None
            /\ UNCHANGED given
       ELSE /\ chat' = Append(chat, Item(<<"error", r.msg>>, {r.msg}, FALSE))
            /\ given' = given \cup {stream}
            /\ UNCHANGED stream
    /\ UNCHANGED <<seen, commands, counted, events>>

Next ==
    \/ \E m \in Message, composed, team \in BOOLEAN : Send(m, composed, team)
    \/ Deliver \/ Watchdog \/ Cancel
    \/ \E i \in DOMAIN commands : Speak(i) \/ Iterate(i) \/ TakeTurn(i) \/ \E ok \in BOOLEAN : End(i, ok)
    \/ \E r \in replies : Answer(r)

Spec == Init /\ [][Next]_chatVars
\* The backend ends every command and its answer arrives.
FairSpec == Spec /\ WF_chatVars(\E i \in DOMAIN commands, ok \in BOOLEAN : End(i, ok)) /\ \A m \in Message : WF_chatVars(\E r \in replies : r.msg = m /\ Answer(r))

----------------------------------------------------------------------------
\* The chat shows every item once (React keys them by id), and a
\* placeholder that is not being filled was given up by a cancel, the
\* watchdog, a failure or the next message; an answer leaves none.
ChatOK ==
    /\ \A i, j \in DOMAIN chat : chat[i].id = chat[j].id => i = j
    /\ \A i \in DOMAIN chat : Head(chat[i].id) = "stream" => chat[i].id[2] \in given \cup {stream}

\* For a user who waits, a placeholder holds the text of one message.
OneMessageEach == Patient => \A i \in DOMAIN chat : \E m \in Message : chat[i].of = {m}

\* After the answer of the team every one of its steps has a card with the
\* result of that step, whatever cards the chat had by then.
AnswerShowsCalls ==
    [][\A r \in replies : Answer(r) /\ r.ok =>
         \A k \in 1 .. r.iterations :
            \E i \in DOMAIN chat' : chat'[i].id = <<"iteration", k>> /\ chat'[i].of = {r.msg}]_chatVars

\* isTyping, which disables the composer, does not stay set.
TypingEnds == typing ~> ~typing

\* The card of an earlier message's tool call stays in the chat.
CardsStay ==
    [][\A i \in DOMAIN chat : Head(chat[i].id) = "iteration"
         => \E j \in DOMAIN chat' : chat'[j].id = chat[i].id /\ chat'[j].of = chat[i].of]_chatVars
=============================================================================
