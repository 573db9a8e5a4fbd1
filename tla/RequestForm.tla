---------------------------- MODULE RequestForm ----------------------------
(***************************************************************************)
(* The request form of PingZero.tsx: what the user edits, what "Send"      *)
(* makes of it, and the items of the history, of the saved templates and   *)
(* of the collections that are loaded back into it.  A send is one step    *)
(* here; sends under way are in RequestSends.                              *)
(*                                                                         *)
(* A URL is a host, which may be a template {{variable}}, and a set of     *)
(* parameters; a token stands for the credentials of its kind; the options *)
(* stand for the timeout and the client certificate.  The changes a        *)
(* pre-request script makes, and the OAuth token, which nothing reads, are *)
(* not modelled.                                                           *)
(***************************************************************************)
EXTENDS Naturals, Sequences, SequencesExt

CONSTANTS
    Env,            \* environments; each gives the variable a value
    Param,          \* names of query parameters
    AuthType,       \* "none", and what the user selects
    BodyType,       \* "none", and what the user selects
    Option,         \* timeoutMs, certPath and certPassphrase together
    None,           \* a header that is not set, an empty text
    MaxHistory,     \* 50 in the code
    MaxItems        \* bound on the templates and the history together

FormAssumption ==
    /\ "none" \in AuthType /\ "none" \in BodyType
    /\ AuthType \subseteq {"none", "bearer", "basic", "apikey", "oauth2"}
    /\ Option # {} /\ MaxHistory \in Nat \ {0} /\ MaxItems \in Nat

VARIABLES
    form,           \* url, rows (queryParams), headers, body, auth, options
    env,            \* selectedEnv
    history,        \* what was sent, newest first; .sent is a history variable
    saved           \* the saved templates; .sent is what "Send" would have sent

formVars == <<form, env, history, saved>>

Template == "{{variable}}"
NoHeader == [h \in {"authorization", "content-type"} |-> None]
NoBody == [type |-> "none", text |-> None]

OnRows(rows) == {p \in Param : rows[p] = "on"}

\* parseUrlIntoParams: only a URL that parses; a template does not.
RowsOf(url, rows) ==
    IF url.host = Template THEN rows
    ELSE [p \in Param |-> IF p \in url.query THEN "on" ELSE "off"]

Init ==
    /\ form = [url |-> [host |-> "literal", query |-> {}],
               rows |-> [p \in Param |-> "off"],
               headers |-> NoHeader, body |-> NoBody, auth |-> "none",
               options |-> CHOOSE o \in Option : TRUE]
    /\ env \in Env
    /\ history = <<>> /\ saved = <<>>

\* substituteEnvVars, of the URL and the body; headers are sent as typed.
Substituted(text, e) == IF text = Template THEN e ELSE text

\* The headers handleSend builds before the authorization.
WithContentType(f) ==
    IF f.headers["content-type"] # None \/ f.body.type = "none" THEN f.headers
    ELSE [f.headers EXCEPT !["content-type"] = f.body.type]

\* "Inject Auth": nothing is injected for "oauth2" and "aws".
WithAuth(headers, auth) ==
    IF auth \in {"bearer", "basic"} THEN [headers EXCEPT !["authorization"] = auth] ELSE headers

\* The request that handleSend makes of the form, and what it passes to the
\* backend: the request and the options.
Request(f, e) ==
    [url     |-> [f.url EXCEPT !.host = Substituted(@, e)],
     key     |-> f.auth = "apikey",
     headers |-> WithAuth(WithContentType(f), f.auth),
     body    |-> IF f.body.type = "none" THEN NoBody
                 ELSE [f.body EXCEPT !.text = Substituted(@, e)]]

Sent(f, e) == [request |-> Request(f, e), options |-> f.options]

\* Neither an item of the history nor a template has the options.
HistoryItem(f, e) ==
    [url |-> f.url, headers |-> Request(f, e).headers, body |-> Request(f, e).body,
     auth |-> f.auth, env |-> e, sent |-> Sent(f, e)]

\* handleSave.
Template0(f) ==
    [url |-> f.url, headers |-> f.headers,
     body |-> IF f.body.type = "none" THEN NoBody ELSE f.body, auth |-> f.auth,
     sent |-> [e \in Env |-> Sent(f, e)]]

LoadedWithAuth(f, item) == [f EXCEPT !.url = item.url, !.headers = item.headers, !.body = item.body]

\* loadRequest: every field of the form but the rows of parameters and the
\* options.
Loaded(f, item) ==
    [f EXCEPT !.url = item.url, !.headers = item.headers, !.body = item.body, !.auth = item.auth]

\* A change: what leaves the form as it is, is no step.
Edit(f) == f # form /\ form' = f /\ UNCHANGED <<env, history, saved>>

TypeUrl == \E host \in {Template, "literal"}, query \in SUBSET Param :
    LET url == [host |-> host, query |-> query]
    IN  Edit([form EXCEPT !.url = url, !.rows = RowsOf(url, form.rows)])

\* The button of the environment manager appends {{variable}} to the URL.
InsertVariable == Edit([form EXCEPT !.url.host = Template])

\* A row is added, changed, switched off or deleted, which is "off" as well:
\* updateUrlFromParams writes the rows that are on into the URL.
EditRow(p) == \E r \in {"off", "on"} :
    LET rows == [form.rows EXCEPT ![p] = r]
    IN  Edit([form EXCEPT !.rows = rows, !.url.query = OnRows(rows)])

EditHeader == \E h \in {None, "typed"} : Edit([form EXCEPT !.headers["authorization"] = h])
EditBody == \E b \in {NoBody} \cup [type : BodyType \ {"none"}, text : {Template}] :
    Edit([form EXCEPT !.body = b])
EditAuth == \E a \in AuthType : Edit([form EXCEPT !.auth = a])
EditOptions == \E o \in Option : Edit([form EXCEPT !.options = o])

SelectEnv == env' \in Env /\ UNCHANGED <<form, history, saved>>

Newest(s, n) == SubSeq(s, 1, IF Len(s) < n THEN Len(s) ELSE n)

Send ==
    /\ Len(saved) < MaxItems
    /\ history' = <<HistoryItem(form, env)>> \o Newest(history, MaxHistory - 1)
    /\ UNCHANGED <<form, env, saved>>

SaveTemplate ==
    /\ Len(saved) + Len(history) < MaxItems
    /\ saved' = <<Template0(form)>> \o saved
    /\ UNCHANGED <<form, env, history>>

DeleteSaved(i) == saved' = RemoveAt(saved, i) /\ UNCHANGED <<form, env, history>>
ClearHistory == history' = <<>> /\ UNCHANGED <<form, env, saved>>
LoadItem(item) == Edit(Loaded(form, item))

\* A request of a collection: its URL is parsed into rows as well.
LoadCollection ==
    LET url == [host |-> "literal", query |-> Param]
    IN  Edit([url |-> url, rows |-> RowsOf(url, form.rows),
              headers |-> NoHeader, body |-> NoBody, auth |-> "none", options |-> form.options])

\* handleImportCurl replaces the URL, the headers and the body; the
\* authorization of the form stays.
Curl == [url |-> [host |-> "literal", query |-> {}],
         headers |-> [NoHeader EXCEPT !["authorization"] = "typed"], body |-> NoBody]
Imported(f, c) ==
    [f EXCEPT !.url = c.url, !.rows = RowsOf(c.url, f.rows), !.headers = c.headers, !.body = c.body]
ImportCurl == Edit(Imported(form, Curl))

Next ==
    \/ TypeUrl \/ InsertVariable \/ \E p \in Param : EditRow(p)
    \/ EditHeader \/ EditBody \/ EditAuth \/ EditOptions \/ SelectEnv
    \/ Send \/ SaveTemplate \/ ClearHistory \/ LoadCollection \/ ImportCurl
    \/ \E i \in DOMAIN saved : DeleteSaved(i) \/ LoadItem(saved[i])
    \/ \E i \in DOMAIN history : LoadItem(history[i])

Spec == Init /\ [][Next]_formVars

----------------------------------------------------------------------------
\* A history item, loaded into whatever the form holds by then and sent in
\* the environment it was sent in, is what was sent; a template, sent in any
\* environment, is what the form it was saved from would have sent there: no
\* field of the form in between leaks into either.  All but the timeout and
\* the certificate, which no item has: they are those of the form now.
Replayed(item, e) == Sent(Loaded(form, item), e)
ReplayIsSent ==
    /\ \A i \in DOMAIN history :
          Replayed(history[i], history[i].env) = [history[i].sent EXCEPT !.options = form.options]
    /\ \A i \in DOMAIN saved, e \in Env :
          Replayed(saved[i], e) = [saved[i].sent[e] EXCEPT !.options = form.options]

(***************************************************************************)
(* Why it holds: an item has all that "Send" reads of the form, and what   *)
(* was made of it once is not made again of the item.                      *)
(***************************************************************************)
Header == {"authorization", "content-type"}
IsUrl(u) == u = [host |-> u.host, query |-> u.query]
IsBody(b) == b = [type |-> b.type, text |-> b.text]
IsHeaders(h) == h = [x \in Header |-> h[x]]
IsItem(item) == IsUrl(item.url) /\ IsBody(item.body) /\ IsHeaders(item.headers)
IsForm(f) ==
    /\ IsItem(f)
    /\ f = [url |-> f.url, rows |-> f.rows, headers |-> f.headers, body |-> f.body,
            auth |-> f.auth, options |-> f.options]
IsMade(sent, request) == sent = [request |-> request, options |-> sent.options]
IsSent(item) == IsItem(item) /\ IsMade(item.sent, Request(item, item.env))
IsSaved(item) == IsItem(item) /\ \A e \in Env : IsMade(item.sent[e], Request(item, e))
FormInv ==
    /\ IsForm(form)
    /\ history \in Seq({history[i] : i \in DOMAIN history})
    /\ saved \in Seq({saved[i] : i \in DOMAIN saved})
    /\ \A i \in DOMAIN history : IsSent(history[i])
    /\ \A i \in DOMAIN saved : IsSaved(saved[i])

\* What is replayed is what was sent, the timeout and the certificate too.
ReplayIsVerbatim ==
    \A i \in DOMAIN history : Replayed(history[i], history[i].env) = history[i].sent

\* The rows of parameters show the parameters of the URL.
RowsFollowUrl == OnRows(form.rows) = form.url.query

\* "Token ready" (PingZero.tsx:1930): an OAuth token, of which the form shows
\* that it was fetched, is sent.
TokenIsSent ==
    form.auth = "oauth2" /\ form.headers["authorization"] = None
    => Request(form, env).headers["authorization"] # None

\* An imported curl command is sent as it was written.
ImportIsVerbatim ==
    LET s == Request(Imported(form, Curl), env)
    IN  s.headers = Curl.headers /\ ~s.key
=============================================================================
