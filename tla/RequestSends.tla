---------------------------- MODULE RequestSends ----------------------------
(***************************************************************************)
(* Requests under way in PingZero.tsx: handleSend up to the call of the    *)
(* backend, the answer that resumes it, handleCancel, and the history that *)
(* the answer is added to.  The button sends or cancels, by isLoading; the *)
(* Enter key in the URL sends whatever isLoading says.  The backend is     *)
(* never told of a cancel.                                                 *)
(***************************************************************************)
EXTENDS Naturals, Sequences, SequencesExt

CONSTANTS
    SendId,         \* sends, in the order they are made
    None,           \* null
    MaxHistory,     \* 50 in the code
    Patient         \* TRUE: nothing is done while a send is under way

SendsAssumption ==
    /\ SendId \subseteq Nat /\ None \notin SendId
    /\ MaxHistory \in Nat \ {0} /\ Patient \in BOOLEAN

VARIABLES
    loading,        \* isLoading
    controller,     \* abortControllerRef
    response,       \* the send whose response is shown, or none
    error,          \* reqError
    history,        \* the sends in the history, newest first
    sends,          \* under way, each with the history it closed over
    used            \* sends made so far

sendVars == <<loading, controller, response, error, history, sends, used>>

Init ==
    /\ loading = FALSE
    /\ controller = None /\ response = None
    /\ error = None
    /\ history = <<>>
    /\ sends = {}
    /\ used = {}

Newest(s, n) == SubSeq(s, 1, IF Len(s) < n THEN Len(s) ELSE n)

Free == Patient => sends = {}

\* handleSend up to the await.  A body that is not JSON ends it there, with
\* its controller left in the ref.
Send(s, valid) ==
    /\ Free
    /\ s \in SendId \ used /\ \A t \in SendId : t < s => t \in used
    /\ used' = used \cup {s}
    /\ controller' = s
    /\ response' = None
    /\ IF valid
       THEN /\ loading' = TRUE
            /\ error' = None
            /\ sends' = sends \cup {[id |-> s, history |-> history, cancelled |-> FALSE]}
       ELSE /\ loading' = FALSE
            /\ error' = "invalid"
            /\ UNCHANGED sends
    /\ UNCHANGED history

\* handleCancel, offered while loading.  The ref holds the newest send.
Cancel ==
    /\ loading
    /\ loading' = FALSE
    /\ error' = "cancelled"
    /\ controller' = None
    /\ sends' = {IF x.id = controller THEN [x EXCEPT !.cancelled = TRUE] ELSE x : x \in sends}
    /\ UNCHANGED <<response, history, used>>

\* The rest of handleSend.  The signal is not looked at again.
Finished(x) ==
    /\ sends' = sends \ {x}
    /\ loading' = FALSE
    /\ controller' = None
    /\ UNCHANGED used

Answered(x) ==
    /\ Finished(x)
    /\ response' = x.id
    /\ history' = <<x.id>> \o Newest(x.history, MaxHistory - 1)
    /\ UNCHANGED error

FailedLoading(x) ==
    /\ sends' = sends \ {x}
    /\ error' = "failed"
    /\ UNCHANGED <<loading, controller, response, history, used>>

Failed(x) ==
    /\ Finished(x)
    /\ error' = "failed"
    /\ UNCHANGED <<response, history>>

\* loadRequest of an item: its response is shown, without an error.
LoadItem(i) ==
    /\ Free
    /\ response' = history[i]
    /\ error' = None
    /\ UNCHANGED <<loading, controller, history, sends, used>>

ClearHistory ==
    /\ Free
    /\ history' = <<>>
    /\ UNCHANGED <<loading, controller, response, error, sends, used>>

Next ==
    \/ \E s \in SendId, valid \in BOOLEAN : Send(s, valid)
    \/ Cancel \/ ClearHistory
    \/ \E x \in sends : Answered(x) \/ Failed(x)
    \/ \E i \in DOMAIN history : LoadItem(i)

Spec == Init /\ [][Next]_sendVars

----------------------------------------------------------------------------
\* While the overlay "Invoking Web Request Socket..." is shown, whatever
\* overlaps, cancels or fails, the newest send is under way, and it is the
\* one that the button would cancel: the overlay never outlives it.
LoadingIsNewest ==
    loading => \E x \in sends :
       x.id = controller /\ ~x.cancelled /\ \A s \in used : s <= x.id

\* What the proof carries along: the sends are made in their order.
MadeInOrder == used \subseteq SendId /\ \A s \in used, t \in SendId : t < s => t \in used
SendsInv == LoadingIsNewest /\ MadeInOrder

\* While one send is under way, uncancelled and shown as loading, no
\* answer of another takes its overlay away.
OverlayIsOwn ==
    [][\A x \in sends : (Answered(x) \/ Failed(x)) /\ loading
         => x.id = controller]_sendVars

\* "Request cancelled by user" (PingZero.tsx:785): a response is not shown
\* for a send the user cancelled.
CancelledIsNotShown ==
    [][\A x \in sends : Answered(x) => ~x.cancelled]_sendVars

\* "Clear History" clears it: no earlier item comes back.
ClearedStaysClear ==
    [][\A x \in sends : Answered(x)
         => ToSet(history') \subseteq ToSet(history) \cup {x.id}]_sendVars
=============================================================================
