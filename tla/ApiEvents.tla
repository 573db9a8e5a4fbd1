----------------------------- MODULE ApiEvents -----------------------------
(***************************************************************************)
(* The Server-Sent Events tab: PingZeroSse.tsx, and sse.rs with one task   *)
(* per stream.  sse_connect takes the lock twice, once to tell the old     *)
(* stream to stop and once to keep the new one's cancel channel, and the   *)
(* calls of a user who does not wait run between the two.  The events of   *)
(* every stream go to the same listeners.                                  *)
(***************************************************************************)
EXTENDS Naturals, Sequences

CONSTANTS
    Stream,         \* streams, in the order they are asked for
    None,           \* no stream
    MaxEvents       \* bound on the events under way

StreamAssumption == Stream \subseteq Nat /\ None \notin Stream /\ MaxEvents \in Nat \ {0}

VARIABLES
    status,         \* "disconnected", "connecting", "connected"
    listening,      \* the listeners of the tab, by the connect that made them
    unlisten,       \* unlistenRef
    calls,          \* commands under way: [cmd, no, at, ok, mine]
    task,           \* task[s]: "none", "running", "told" to stop, "ended"
    cancel,         \* SseState.cancel_tx: the stream it stops
    events          \* "sse-message" events not yet delivered

streamVars == <<status, listening, unlisten, calls, task, cancel, events>>
tabVars == <<status, listening, unlisten>>

Init ==
    /\ status = "disconnected"
    /\ listening = {}
    /\ unlisten = None
    /\ calls = {}
    /\ task = [s \in Stream |-> "none"]
    /\ cancel = None
    /\ events = <<>>

Running(s) == task[s] \in {"running", "told"}
Emit(kind) == Len(events) < MaxEvents /\ events' = Append(events, kind)
\* tx.send(()) on the sender taken: its stream will see it.
Told == IF cancel # None /\ task[cancel] = "running" THEN [task EXCEPT ![cancel] = "told"] ELSE task

\* A stream is asked for once; a disconnect has the least number that is free.
\* Both are tagged with the mount of the tab that made them (mine).
Call(cmd, s, at) == [cmd |-> cmd, no |-> s, at |-> at, ok |-> TRUE, mine |-> TRUE]
Underway(cmd) == {x.no : x \in {y \in calls : y.cmd = cmd}}
Asked == {s \in Stream : task[s] # "none"} \cup Underway("connect")
IsNext(s, S) == s \notin S /\ {r \in Stream : r < s} \subseteq S
Moves(x, at) == calls' = (calls \ {x}) \cup {[x EXCEPT !.at = at]}

\* What the tab offers.
Offers == IF status = "disconnected" THEN {"connect"} ELSE {"disconnect"}

\* connect: the old listener goes, and a new one is asked for.
Connect(s) ==
    /\ "connect" \in Offers
    /\ IsNext(s, Asked)
    /\ status' = "connecting"
    /\ listening' = listening \ {unlisten}
    /\ calls' = calls \cup {Call("connect", s, "listen")}
    /\ UNCHANGED <<unlisten, task, cancel, events>>

\* The new listener is there; sse_connect is invoked.
Listens(x) ==
    /\ x.at = "listen"
    /\ Moves(x, "cancel")
    /\ IF x.mine THEN listening' = listening \cup {x.no} /\ unlisten' = x.no
       ELSE UNCHANGED <<listening, unlisten>>
    /\ UNCHANGED <<status, task, cancel, events>>

\* The first lock of sse_connect, and the one of sse_disconnect: whichever
\* stream is there is told.
Cancels(x) ==
    /\ x.at = "cancel"
    /\ Moves(x, IF x.cmd = "connect" THEN "make" ELSE "done")
    /\ task' = Told
    /\ cancel' = None
    /\ UNCHANGED <<tabVars, events>>

\* The url is refused.
Refused(x) ==
    /\ x.at = "make"
    /\ calls' = (calls \ {x}) \cup {[x EXCEPT !.at = "done", !.ok = FALSE]}
    /\ task' = [task EXCEPT ![x.no] = "ended"]
    /\ UNCHANGED <<tabVars, cancel, events>>

\* The second lock: the new stream's channel is kept.  A sender that another
\* call has put there meanwhile is dropped, which its stream sees as well.
Makes(x) ==
    /\ x.at = "make"
    /\ Moves(x, "done")
    /\ task' = [Told EXCEPT ![x.no] = "running"]
    /\ cancel' = x.no
    /\ Emit("connected")
    /\ UNCHANGED tabVars

ConnectReturns(x) ==
    /\ x.cmd = "connect" /\ x.at = "done"
    /\ calls' = calls \ {x}
    /\ status' = IF x.mine /\ ~x.ok THEN "disconnected" ELSE status
    /\ UNCHANGED <<listening, unlisten, task, cancel, events>>

\* disconnect, offered as soon as the tab is "connecting".
Disconnect(s) ==
    /\ "disconnect" \in Offers
    /\ IsNext(s, Underway("disconnect"))
    /\ calls' = calls \cup {Call("disconnect", s, "cancel")}
    /\ UNCHANGED <<tabVars, task, cancel, events>>

DisconnectReturns(x) ==
    /\ x.cmd = "disconnect" /\ x.at = "done"
    /\ calls' = calls \ {x}
    /\ IF x.mine THEN status' = "disconnected" /\ listening' = listening \ {unlisten} /\ unlisten' = None
       ELSE UNCHANGED tabVars
    /\ UNCHANGED <<task, cancel, events>>

\* The task of a stream: it opens, has a message, stops as told, or the
\* peer ends it or fails.
Message(s) ==
    /\ Running(s)
    /\ \E kind \in {"connected", "event"} : Emit(kind)
    /\ UNCHANGED <<tabVars, calls, task, cancel>>

Ends(s) ==
    /\ Running(s)
    /\ task' = [task EXCEPT ![s] = "ended"]
    /\ \E kind \in {"disconnected", "error"} : Emit(kind)
    /\ UNCHANGED <<tabVars, calls, cancel>>

\* Every listener has it; without one it is lost.
Deliver ==
    /\ events # <<>>
    /\ events' = Tail(events)
    /\ status' = IF listening = {} \/ Head(events) = "event" THEN status
                 ELSE IF Head(events) = "connected" THEN "connected" ELSE "disconnected"
    /\ UNCHANGED <<listening, unlisten, calls, task, cancel>>

\* The user leaves the tab and comes back to a new one.  The cleanup of the
\* effect saw the status of the first render, so it never disconnects; the
\* old listeners and calls go on, and change nothing that is shown.
Remount ==
    /\ status' = "disconnected"
    /\ listening' = {}
    /\ unlisten' = None
    /\ calls' = {[x EXCEPT !.mine = FALSE] : x \in calls}
    /\ UNCHANGED <<task, cancel, events>>

Next ==
    \/ \E s \in Stream : Connect(s) \/ Disconnect(s) \/ Message(s) \/ Ends(s)
    \/ \E x \in calls : \/ Listens(x) \/ Cancels(x) \/ Refused(x) \/ Makes(x)
                        \/ ConnectReturns(x) \/ DisconnectReturns(x)
    \/ Deliver \/ Remount

Spec == Init /\ [][Next]_streamVars

----------------------------------------------------------------------------
\* At most one stream runs that was not told to stop, and the backend can
\* still tell it.
OneStream ==
    \A s \in Stream : task[s] = "running" => s = cancel

(***************************************************************************)
(* Why it holds, of any user: the tasks are those of the streams, and a    *)
(* connect that is under way is for one of them.                           *)
(***************************************************************************)
IsCall(x) == x = [cmd |-> x.cmd, no |-> x.no, at |-> x.at, ok |-> x.ok, mine |-> x.mine]
StreamInv ==
    /\ task = [s \in Stream |-> task[s]]
    /\ cancel \in Stream \cup {None}
    /\ \A x \in calls : IsCall(x) /\ x.no \in Stream
    /\ OneStream

\* A tab that says "disconnected" when everything has settled has no
\* stream running behind it.
DisconnectedIsIdle ==
    (calls = {} /\ events = <<>> /\ status = "disconnected") => \A s \in Stream : ~Running(s)
=============================================================================
