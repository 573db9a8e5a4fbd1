----------------------------- MODULE ApiSocket -----------------------------
(***************************************************************************)
(* The WebSocket tab: PingZeroWebSocket.tsx and the three commands and two *)
(* tasks of websocket.rs behind it.  Every connection has a reader task    *)
(* that emits "ws-message" to whoever listens, whichever connection the    *)
(* tab is about; the backend keeps the sender of the last one.  The tab is *)
(* unmounted when another method is chosen, and disconnects nothing then.  *)
(***************************************************************************)
EXTENDS Naturals, Sequences

CONSTANTS
    Conn,           \* connections, in the order they are asked for
    None,           \* no connection
    MaxEvents,      \* bound on the events under way
    Patient         \* TRUE: the user clicks and leaves, and a peer closes, when
                    \* calls, events and closing connections have settled

SocketAssumption == Conn \subseteq Nat /\ None \notin Conn /\ MaxEvents \in Nat \ {0}

VARIABLES
    status,         \* "disconnected", "connecting", "connected"
    listening,      \* the listeners of the tab, by the connect that made them
    unlisten,       \* unlistenRef
    left,           \* a tab was left that did not say "disconnected" (history)
    calls,          \* commands under way: [cmd, no, at, ok, mine]
    conn,           \* conn[c] of a connection: "none", "open", "closing", "closed"
    reader,         \* the connections whose reader task runs
    sender,         \* WsState.sender
    events          \* "ws-message" events emitted and not yet delivered

tabVars == <<status, listening, unlisten, left>>
backVars == <<conn, reader, sender>>
socketVars == <<tabVars, calls, backVars, events>>

Init ==
    /\ status = "disconnected"
    /\ listening = {}
    /\ unlisten = None
    /\ left = FALSE
    /\ calls = {}
    /\ conn = [c \in Conn |-> "none"]
    /\ reader = {}
    /\ sender = None
    /\ events = <<>>

Settled ==
    /\ calls = {} /\ events = <<>>
    /\ \A c \in Conn : conn[c] # "closing" /\ (c \in reader => conn[c] = "open")
Free == Patient => Settled

\* A connection is asked for once; a disconnect has the least number that is
\* free.  A call of a tab that was left since is not its successor's (mine).
Call(cmd, c, at) == [cmd |-> cmd, no |-> c, at |-> at, ok |-> TRUE, mine |-> TRUE]
Underway(cmd) == {x.no : x \in {y \in calls : y.cmd = cmd}}
Asked == {c \in Conn : conn[c] # "none"} \cup Underway("connect")
IsNext(c, C) == c \notin C /\ {d \in Conn : d < c} \subseteq C
Becomes(x, y) == calls' = (calls \ {x}) \cup {y}
Emit(e) == Len(events) < MaxEvents /\ events' = Append(events, e)

\* What the tab offers.  Sending changes nothing here but the log.
Offers ==
    IF status = "disconnected" THEN {"connect"}
    ELSE {"disconnect"} \cup IF status = "connected" THEN {"send"} ELSE {}

\* connect: the old listener goes, and a new one is asked for.
Connect(c) ==
    /\ Free
    /\ "connect" \in Offers
    /\ IsNext(c, Asked)
    /\ status' = "connecting"
    /\ listening' = listening \ {unlisten}
    /\ calls' = calls \cup {Call("connect", c, "listen")}
    /\ UNCHANGED <<unlisten, left, backVars, events>>

\* The new listener is there; ws_connect is invoked.
Listens(x) ==
    /\ x.at = "listen"
    /\ Becomes(x, [x EXCEPT !.at = "ask"])
    /\ IF x.mine THEN listening' = listening \cup {x.no} /\ unlisten' = x.no
       ELSE UNCHANGED <<listening, unlisten>>
    /\ UNCHANGED <<status, left, backVars, events>>

\* ws_connect: the old sender is dropped, its reader runs on.
Connected(x, ok) ==
    /\ x.cmd = "connect" /\ x.at = "ask"
    /\ Becomes(x, [x EXCEPT !.at = "done", !.ok = ok])
    /\ conn' = [conn EXCEPT ![x.no] = IF ok THEN "open" ELSE "closed"]
    /\ IF ok THEN sender' = x.no /\ reader' = reader \cup {x.no}
       ELSE UNCHANGED <<sender, reader>>
    /\ UNCHANGED <<tabVars, events>>

ConnectReturns(x) ==
    /\ x.cmd = "connect" /\ x.at = "done"
    /\ calls' = calls \ {x}
    /\ status' = IF ~x.mine THEN status ELSE IF x.ok THEN "connected" ELSE "disconnected"
    /\ UNCHANGED <<listening, unlisten, left, backVars, events>>

\* disconnect, offered as soon as the tab is "connecting".
Disconnect(c) ==
    /\ Free
    /\ "disconnect" \in Offers
    /\ IsNext(c, Underway("disconnect"))
    /\ calls' = calls \cup {Call("disconnect", c, "ask")}
    /\ UNCHANGED <<tabVars, backVars, events>>

\* ws_disconnect: a close frame to the connection of the sender, if any.
Disconnected(x) ==
    /\ x.cmd = "disconnect" /\ x.at = "ask"
    /\ Becomes(x, [x EXCEPT !.at = "done"])
    /\ sender' = None
    /\ conn' = IF sender # None /\ conn[sender] = "open" THEN [conn EXCEPT ![sender] = "closing"] ELSE conn
    /\ UNCHANGED <<tabVars, reader, events>>

DisconnectReturns(x) ==
    /\ x.cmd = "disconnect" /\ x.at = "done"
    /\ calls' = calls \ {x}
    /\ IF x.mine THEN status' = "disconnected" /\ listening' = listening \ {unlisten} /\ unlisten' = None
       ELSE UNCHANGED <<status, listening, unlisten>>
    /\ UNCHANGED <<left, backVars, events>>

\* The peer closes, or answers the close frame; the reader task ends with
\* its last event.
PeerCloses(c) ==
    /\ conn[c] = "closing" \/ (conn[c] = "open" /\ Free)
    /\ conn' = [conn EXCEPT ![c] = "closed"]
    /\ UNCHANGED <<tabVars, calls, reader, sender, events>>

Receive(c) ==
    /\ c \in reader /\ conn[c] = "open"
    /\ Emit([kind |-> "received", conn |-> c])
    /\ UNCHANGED <<tabVars, calls, backVars>>

ReaderEndsQuietly(c) ==
    /\ c \in reader /\ conn[c] = "closed"
    /\ reader' = reader \ {c}
    /\ UNCHANGED <<tabVars, calls, conn, sender, events>>

\* The reader task emits its end, whoever closed the connection.
ReaderEnds(c) ==
    /\ c \in reader /\ conn[c] = "closed"
    /\ reader' = reader \ {c}
    /\ Emit([kind |-> "disconnected", conn |-> c])
    /\ UNCHANGED <<tabVars, calls, conn, sender>>

\* The listeners; without one the event is lost.
Deliver ==
    /\ events # <<>>
    /\ events' = Tail(events)
    /\ status' = IF listening # {} /\ Head(events).kind = "disconnected" THEN "disconnected" ELSE status
    /\ UNCHANGED <<listening, unlisten, left, calls, backVars>>

\* The user leaves the tab and comes back to a new one, which is about no
\* connection, whatever runs.
Remount ==
    /\ Free
    /\ status' = "disconnected"
    /\ listening' = {}
    /\ unlisten' = None
    /\ left' = (left \/ status # "disconnected")
    /\ calls' = {[x EXCEPT !.mine = FALSE] : x \in calls}
    /\ UNCHANGED <<backVars, events>>

Next ==
    \/ \E c \in Conn : \/ Connect(c) \/ Disconnect(c)
                       \/ PeerCloses(c) \/ Receive(c) \/ ReaderEnds(c)
    \/ \E x \in calls : \/ Listens(x) \/ ConnectReturns(x) \/ Disconnected(x) \/ DisconnectReturns(x)
                        \/ \E ok \in BOOLEAN : Connected(x, ok)
    \/ Deliver \/ Remount

Spec == Init /\ [][Next]_socketVars

----------------------------------------------------------------------------
\* When nothing is under way, a tab that says "connected" is about the open
\* connection of the sender and listens to it.  Of a tab that was not left
\* while it was about one, the converse holds too, and no other connection's
\* messages come in.
StatusIsTrue ==
    Settled =>
       /\ status = "connected" => /\ sender # None /\ conn[sender] = "open" /\ sender \in reader
                                  /\ unlisten \in listening
       /\ ~left => /\ (sender # None /\ conn[sender] = "open") => status = "connected"
                   /\ status = "connected" => reader = {sender}

\* A tab that says "disconnected" when everything has settled has no open
\* connection behind it, also when it was left meanwhile.
DisconnectedIsClosed ==
    Settled /\ status = "disconnected" => \A c \in Conn : conn[c] # "open"

(***************************************************************************)
(* Why it holds of a user who waits: one command is under way at most, and *)
(* none of a tab that was left.  Where the tab says "connected", its       *)
(* connection is open, or news of its end is on the way.  While no tab was *)
(* left, a command begins when no other connection is open, and a          *)
(* "disconnected" tab has none.                                            *)
(***************************************************************************)
IsCall(x) == x = [cmd |-> x.cmd, no |-> x.no, at |-> x.at, ok |-> x.ok, mine |-> x.mine]
NoneOpen == \A c \in Conn : conn[c] # "open"
NoNews == \A i \in DOMAIN events : events[i].kind # "disconnected"
\* The connection of the sender is open.
Live == sender \in Conn /\ conn[sender] = "open" /\ sender \in reader
\* It was closed by the peer, and its reader or an event will say so.
Lost == sender \in Conn /\ conn[sender] = "closed" /\ (sender \in reader \/ ~NoNews)
Only == reader \subseteq {sender} /\ \A c \in Conn : conn[c] = "open" => c = sender
Idle ==
    \/ status = "connected" /\ unlisten \in listening /\ (Live \/ Lost) /\ (~left => Only /\ (Live => NoNews))
    \/ status = "disconnected" /\ (~left => NoneOpen)
Begun(x) ==
    \/ x.cmd = "connect" /\ x.at \in {"listen", "ask"} /\ x.no \in Conn
       /\ (~left => NoneOpen /\ reader = {} /\ NoNews)
    \/ x.cmd = "connect" /\ x.at = "done" /\ ~x.ok /\ (~left => NoneOpen)
    \/ x.cmd = "connect" /\ x.at = "done" /\ x.ok /\ Live /\ (~left => Only /\ NoNews)
    \/ x.cmd = "disconnect" /\ x.at = "ask" /\ (~left => Only)
    \/ x.cmd = "disconnect" /\ x.at = "done" /\ (~left => NoneOpen)
SocketInv ==
    /\ conn = [c \in Conn |-> conn[c]] /\ reader \subseteq Conn /\ sender \in Conn \cup {None}
    /\ events \in Seq([kind : {"received", "disconnected"}, conn : Conn])
    /\ left \in BOOLEAN
    /\ \A x, y \in calls : x = y
    /\ \A x \in calls : IsCall(x) /\ x.mine /\ Begun(x)
    /\ \A x \in calls : x.cmd = "connect" /\ x.at # "listen" => unlisten \in listening
    /\ calls = {} => Idle
=============================================================================
