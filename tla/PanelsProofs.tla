----------------------------- MODULE PanelsProofs -----------------------------
(***************************************************************************)
(* What Panels promises of the API client and of two sections of the       *)
(* settings holds for every value of its constants.  The parts share no    *)
(* variable, so a step of the panels is one of a part, or leaves the part  *)
(* as it is; each is proved from the inductive invariant that its module   *)
(* states.                                                                 *)
(***************************************************************************)
EXTENDS Panels, TLAPS

(***************************************************************************)
(* Sequences                                                               *)
(***************************************************************************)
\* What is put in front of a sequence, and what its beginning is.
LEMMA PutInFront ==
  ASSUME NEW S, NEW s \in Seq(S), NEW x
  PROVE  /\ <<x>> \o s \in Seq(S \cup {x})
         /\ \A i \in DOMAIN (<<x>> \o s) : (<<x>> \o s)[i] = x \/ \E j \in DOMAIN s : (<<x>> \o s)[i] = s[j]
  OBVIOUS

\* A sequence is one of what it holds.
LEMMA OfItsOwn ==
  ASSUME NEW S, NEW s \in Seq(S)
  PROVE  s \in Seq({s[i] : i \in DOMAIN s})
<1>1. DOMAIN s = 1..Len(s) /\ Len(s) \in Nat
  OBVIOUS
<1>2. s = [i \in 1..Len(s) |-> s[i]]
  OBVIOUS
<1>3. s \in [1..Len(s) -> {s[i] : i \in DOMAIN s}]
  BY <1>1, <1>2
<1> QED
  BY <1>1, <1>3

(***************************************************************************)
(* The sends of the API client                                             *)
(***************************************************************************)
\* While the client is loading, its newest send is under way and is the one that
\* Cancel would abort, whoever cancels, overlaps or fails (handleSend,
\* PingZero.tsx:524).
THEOREM LoadingIsOfNewest == Spec => []LoadingIsNewest
<1>1. Init => Sends!SendsInv
  BY Zenon DEF Init, Sends!Init, Sends!SendsInv, Sends!LoadingIsNewest, Sends!MadeInOrder
<1>2. Sends!SendsInv /\ [Next]_panelsVars => Sends!SendsInv'
  <2> SUFFICES ASSUME Sends!SendsInv, [Next]_panelsVars
               PROVE  Sends!SendsInv'
    OBVIOUS
  <2>1. CASE Sends!Next
    <3>1. ASSUME NEW s \in SendId, NEW valid \in BOOLEAN, Sends!Send(s, valid)
          PROVE  Sends!SendsInv'
      <4>1. SendId \subseteq Nat /\ used \subseteq SendId
        BY PanelsAssumption DEF Sends!SendsAssumption, Sends!SendsInv, Sends!MadeInOrder
      <4>2. used' = used \cup {s} /\ controller' = s /\ s \notin used /\ \A t \in SendId : t < s => t \in used
        BY <3>1 DEF Sends!Send
      <4>3. \A t \in used : t < s
        BY <4>1, <4>2 DEF Sends!SendsInv, Sends!MadeInOrder
      <4>4. Sends!MadeInOrder'
        BY <4>1, <4>2 DEF Sends!SendsInv, Sends!MadeInOrder
      <4>5. CASE valid
        <5>1. PICK x : x = [id |-> s, history |-> shownHistory, cancelled |-> FALSE]
          OBVIOUS
        <5>2. x \in sends' /\ x.id = s /\ ~x.cancelled
          BY <3>1, <4>5, <5>1 DEF Sends!Send
        <5>3. \A t \in used' : t <= x.id
          BY <4>1, <4>2, <4>3, <5>2
        <5> QED
          BY <4>2, <4>4, <5>2, <5>3 DEF Sends!SendsInv, Sends!LoadingIsNewest
      <4>6. CASE ~valid
        BY <3>1, <4>4, <4>6 DEF Sends!Send, Sends!SendsInv, Sends!LoadingIsNewest
      <4> QED
        BY <4>5, <4>6
    <3>2. ASSUME NEW x, Sends!Finished(x)
          PROVE  Sends!SendsInv'
      BY <3>2 DEF Sends!Finished, Sends!SendsInv, Sends!LoadingIsNewest, Sends!MadeInOrder
    <3>3. CASE Sends!Cancel
      BY <3>3 DEF Sends!Cancel, Sends!SendsInv, Sends!LoadingIsNewest, Sends!MadeInOrder
    <3>4. ASSUME UNCHANGED <<loading, controller, sends, used>>
          PROVE  Sends!SendsInv'
      BY <3>4 DEF Sends!SendsInv, Sends!LoadingIsNewest, Sends!MadeInOrder
    <3> QED
      BY <2>1, <3>1, <3>2, <3>3, <3>4, Zenon
         DEF Sends!Next, Sends!Answered, Sends!Failed, Sends!ClearHistory, Sends!LoadItem
  <2>2. CASE UNCHANGED sendsV
    BY <2>2 DEF sendsV, Sends!SendsInv, Sends!LoadingIsNewest, Sends!MadeInOrder
  <2> QED
    BY <2>1, <2>2 DEF Next, NextApi, NextSettings, NextTools, panelsVars, apiV
<1>3. Sends!SendsInv => LoadingIsNewest
  BY DEF Sends!SendsInv, LoadingIsNewest
<1> QED
  BY <1>1, <1>2, <1>3, PTL DEF Spec

(***************************************************************************)
(* The environments                                                        *)
(***************************************************************************)
\* The manager of the environments works on what is stored, whichever scripts
\* write it meanwhile (PingZeroEnvManager.tsx:74, PingZero.tsx:371).
THEOREM ManagerStaysCurrent == Spec => []ManagerIsCurrent
<1>1. Init => ManagerIsCurrent
  BY Zenon DEF Init, Envs!Init, ManagerIsCurrent, Envs!ManagerIsCurrent
<1>2. ASSUME NEW all, Envs!SaveAll(all)
      PROVE  ManagerIsCurrent'
  BY <1>2 DEF Envs!SaveAll, ManagerIsCurrent, Envs!ManagerIsCurrent, Envs!Read
<1>3. ASSUME ManagerIsCurrent, NEW e, NEW k, NEW v, Envs!SetVariable(e, k, v)
      PROVE  ManagerIsCurrent'
  <2>1. \/ envCopy' = IF envCopy = None THEN None ELSE storedEnvs'
        \/ envCopy' = (IF envCopy = None THEN None ELSE Envs!Read) /\ UNCHANGED storedEnvs
    BY <1>3 DEF Envs!SetVariable
  <2> QED
    BY <2>1 DEF ManagerIsCurrent, Envs!ManagerIsCurrent, Envs!Read
<1>4. ASSUME ManagerIsCurrent, UNCHANGED <<storedEnvs, envCopy>>
      PROVE  ManagerIsCurrent'
  BY <1>4 DEF ManagerIsCurrent, Envs!ManagerIsCurrent, Envs!Read
<1>5. ManagerIsCurrent /\ [Next]_panelsVars => ManagerIsCurrent'
  <2> SUFFICES ASSUME ManagerIsCurrent, [Next]_panelsVars
               PROVE  ManagerIsCurrent'
    OBVIOUS
  <2>1. CASE Envs!Next
    <3>1. CASE Envs!Reopen \/ Envs!OpenManager \/ Envs!CloseManager
      BY <3>1 DEF Envs!Reopen, Envs!OpenManager, Envs!CloseManager, ManagerIsCurrent,
                  Envs!ManagerIsCurrent, Envs!Read
    <3>2. CASE Envs!DeleteEnvironment
      BY <3>2, <1>2 DEF Envs!DeleteEnvironment
    <3>3. ASSUME NEW k \in VarName, NEW v \in VarValue,
                 Envs!AddVariable(k, v) \/ Envs!UpdateVariable(k, v) \/ Envs!RunScript(k, v)
          PROVE  ManagerIsCurrent'
      BY <3>3, <1>2, <1>3 DEF Envs!AddVariable, Envs!UpdateVariable, Envs!RunScript
    <3>4. ASSUME NEW k \in VarName, Envs!RemoveVariable(k) \/ \E l \in VarName : Envs!RenameVariable(k, l)
          PROVE  ManagerIsCurrent'
      BY <3>4, <1>2 DEF Envs!RemoveVariable, Envs!RenameVariable
    <3>5. ASSUME NEW k \in VarName, Envs!AwaitScript(k)
          PROVE  ManagerIsCurrent'
      BY <3>5, <1>4 DEF Envs!AwaitScript
    <3>6. ASSUME NEW e \in EnvId, Envs!AddEnvironment(e) \/ Envs!SelectEdited(e) \/ Envs!Select(e)
          PROVE  ManagerIsCurrent'
      BY <3>6, <1>2, <1>4 DEF Envs!AddEnvironment, Envs!SelectEdited, Envs!Select
    <3>7. ASSUME NEW s \in scripts, NEW v \in VarValue, Envs!ScriptResumes(s, v)
          PROVE  ManagerIsCurrent'
      BY <3>7, <1>3 DEF Envs!ScriptResumes
    <3> QED
      BY <2>1, <3>1, <3>2, <3>3, <3>4, <3>5, <3>6, <3>7 DEF Envs!Next
  <2>2. CASE UNCHANGED envsV
    BY <2>2, <1>4 DEF envsV
  <2> QED
    BY <2>1, <2>2 DEF Next, NextApi, NextSettings, NextTools, panelsVars, apiV
<1> QED
  BY <1>1, <1>5, PTL DEF Spec

(***************************************************************************)
(* The request form                                                        *)
(***************************************************************************)
\* The request made of a form has the fields of an item.
LEMMA RequestIsItem ==
  ASSUME NEW f, Form!IsItem(f), NEW e
  PROVE  /\ Form!IsHeaders(Form!Request(f, e).headers)
         /\ Form!IsBody(Form!Request(f, e).body)
         /\ f.body.type = "none" => Form!Request(f, e).body = Form!NoBody
<1>1. PICK h : h = Form!WithContentType(f)
  OBVIOUS
<1>2. Form!IsHeaders(h)
  <2>1. f.headers = [x \in Form!Header |-> f.headers[x]]
    BY DEF Form!IsItem, Form!IsHeaders
  <2>2. CASE h = f.headers
    BY <2>1, <2>2 DEF Form!IsHeaders
  <2>3. CASE h = [f.headers EXCEPT !["content-type"] = f.body.type]
    BY <2>1, <2>3 DEF Form!IsHeaders
  <2> QED
    BY <1>1, <2>2, <2>3 DEF Form!WithContentType
<1>3. PICK g : g = Form!WithAuth(h, f.auth)
  OBVIOUS
<1>4. Form!IsHeaders(g)
  BY <1>2, <1>3 DEF Form!WithAuth, Form!IsHeaders
<1>5. Form!Request(f, e).headers = g
  BY <1>1, <1>3 DEF Form!Request
<1>6. PICK b : b = IF f.body.type = "none" THEN Form!NoBody
                   ELSE [f.body EXCEPT !.text = Form!Substituted(f.body.text, e)]
  BY Zenon
<1>7. Form!IsBody(b)
  BY <1>6 DEF Form!IsItem, Form!IsBody, Form!NoBody
<1>8. Form!Request(f, e).body = b
  BY <1>6 DEF Form!Request
<1> QED
  BY <1>4, <1>5, <1>6, <1>7, <1>8

\* What was made of the form once is not made again of the item: the content
\* type and the authorization are there, and nothing is left to substitute.
LEMMA SentOnce ==
  ASSUME NEW f, Form!IsForm(f), NEW e
  PROVE  Form!IsSent(Form!HistoryItem(f, e))
<1>1. PICK s : s = Form!Request(f, e)
  OBVIOUS
<1>2. PICK item : item = Form!HistoryItem(f, e)
  OBVIOUS
<1>3. /\ item.url = f.url /\ item.headers = s.headers /\ item.body = s.body
      /\ item.auth = f.auth /\ item.env = e
      /\ item.sent = [request |-> s, options |-> f.options]
  BY <1>1, <1>2 DEF Form!HistoryItem, Form!Sent
<1>4. /\ s.url = [f.url EXCEPT !.host = Form!Substituted(f.url.host, e)]
      /\ s.key = (f.auth = "apikey")
      /\ s.headers = Form!WithAuth(Form!WithContentType(f), f.auth)
      /\ s.body = IF f.body.type = "none" THEN Form!NoBody
                  ELSE [f.body EXCEPT !.text = Form!Substituted(f.body.text, e)]
      /\ s = [url |-> s.url, key |-> s.key, headers |-> s.headers, body |-> s.body]
  BY <1>1 DEF Form!Request
<1>5. Form!IsItem(item)
  BY <1>1, <1>3, RequestIsItem DEF Form!IsForm, Form!IsItem
<1>6. item.body.type = f.body.type
  BY <1>3, <1>4 DEF Form!NoBody, Form!IsForm, Form!IsItem, Form!IsBody
<1>7. Form!WithAuth(Form!WithContentType(item), item.auth) = s.headers
  <2>1. PICK h : h = Form!WithContentType(f)
    OBVIOUS
  <2>2. f.headers = [x \in Form!Header |-> f.headers[x]]
    BY DEF Form!IsForm, Form!IsItem, Form!IsHeaders
  <2>3. h = [x \in Form!Header |-> h[x]]
        /\ (h["content-type"] # None \/ f.body.type = "none" \/ f.body.type = h["content-type"])
    <3>1. CASE f.headers["content-type"] # None \/ f.body.type = "none"
      BY <2>1, <2>2, <3>1 DEF Form!WithContentType
    <3>2. CASE ~(f.headers["content-type"] # None \/ f.body.type = "none")
      BY <2>1, <2>2, <3>2, Zenon DEF Form!WithContentType, Form!Header
    <3> QED
      BY <3>1, <3>2
  <2>4. s.headers = Form!WithAuth(h, f.auth)
    BY <1>4, <2>1
  <2>5. s.headers = [x \in Form!Header |-> s.headers[x]] /\ s.headers["content-type"] = h["content-type"]
    BY <2>3, <2>4 DEF Form!WithAuth, Form!Header
  <2>6. Form!WithContentType(item) = s.headers
    <3>1. item.headers = s.headers /\ item.body.type = f.body.type
      BY <1>3, <1>6
    <3>2. CASE s.headers["content-type"] # None \/ f.body.type = "none"
      BY <3>1, <3>2 DEF Form!WithContentType
    <3>3. CASE ~(s.headers["content-type"] # None \/ f.body.type = "none")
      <4>1. f.body.type = s.headers["content-type"]
        BY <2>3, <2>5, <3>3
      <4>2. [s.headers EXCEPT !["content-type"] = s.headers["content-type"]] = s.headers
        BY <2>5
      <4> QED
        BY <3>1, <3>3, <4>1, <4>2 DEF Form!WithContentType
    <3> QED
      BY <3>2, <3>3
  <2>7. Form!WithAuth(s.headers, f.auth) = s.headers
    <3>1. CASE f.auth \in {"bearer", "basic"}
      <4>1. s.headers = [h EXCEPT !["authorization"] = f.auth]
        BY <2>4, <3>1 DEF Form!WithAuth
      <4>2. s.headers["authorization"] = f.auth
        BY <2>3, <4>1 DEF Form!Header
      <4>3. [s.headers EXCEPT !["authorization"] = f.auth] = s.headers
        BY <2>5, <4>2
      <4> QED
        BY <3>1, <4>3 DEF Form!WithAuth
    <3>2. CASE f.auth \notin {"bearer", "basic"}
      BY <3>2 DEF Form!WithAuth
    <3> QED
      BY <3>1, <3>2
  <2> QED
    BY <1>3, <2>6, <2>7
<1>8. (IF item.body.type = "none" THEN Form!NoBody
       ELSE [item.body EXCEPT !.text = Form!Substituted(item.body.text, e)]) = s.body
  <2>1. CASE f.body.type = "none"
    BY <1>4, <1>6, <2>1
  <2>2. CASE f.body.type # "none"
    <3>1. PICK t : t = Form!Substituted(f.body.text, e)
      OBVIOUS
    <3>2. s.body = [type |-> f.body.type, text |-> t]
      BY <1>4, <2>2, <3>1 DEF Form!IsForm, Form!IsItem, Form!IsBody
    <3>3. Form!Substituted(t, e) = t
      BY <3>1 DEF Form!Substituted
    <3>4. [s.body EXCEPT !.text = t] = s.body
      BY <3>2
    <3> QED
      BY <1>3, <1>6, <2>2, <3>2, <3>3, <3>4
  <2> QED
    BY <2>1, <2>2
<1>9. Form!Request(item, item.env) = s
  BY <1>3, <1>4, <1>7, <1>8 DEF Form!Request
<1>10. Form!IsMade(item.sent, s)
  BY <1>3 DEF Form!IsMade
<1> QED
  BY <1>2, <1>5, <1>9, <1>10 DEF Form!IsSent

\* What a template keeps of the form makes, in every environment, the request
\* that the form makes there.
LEMMA SavedOnce ==
  ASSUME NEW f, Form!IsForm(f)
  PROVE  Form!IsSaved(Form!Template0(f))
<1>1. PICK item : item = Form!Template0(f)
  OBVIOUS
<1>2. /\ item.url = f.url /\ item.headers = f.headers /\ item.auth = f.auth
      /\ item.body = IF f.body.type = "none" THEN Form!NoBody ELSE f.body
      /\ item.sent = [e \in RequestEnv |-> Form!Sent(f, e)]
  BY <1>1, Zenon DEF Form!Template0
<1>3. Form!IsItem(item)
  BY <1>2 DEF Form!IsForm, Form!IsItem, Form!IsBody, Form!NoBody
<1>4. item.body.type = f.body.type
  BY <1>2 DEF Form!NoBody
<1>5. ASSUME NEW e \in RequestEnv
      PROVE  Form!IsMade(item.sent[e], Form!Request(item, e))
  <2>1. Form!WithContentType(item) = Form!WithContentType(f)
    BY <1>2, <1>4 DEF Form!WithContentType
  <2>2. Form!Request(item, e) = Form!Request(f, e)
    BY <1>2, <1>4, <2>1 DEF Form!Request
  <2>3. item.sent[e] = [request |-> Form!Request(f, e), options |-> f.options]
    BY <1>2 DEF Form!Sent
  <2> QED
    BY <2>2, <2>3 DEF Form!IsMade
<1> QED
  BY <1>1, <1>3, <1>5 DEF Form!IsSaved

\* An item that is loaded takes every field a request is made of, and leaves the
\* options of the form.
LEMMA LoadedIsItem ==
  ASSUME NEW f, Form!IsForm(f), NEW item, Form!IsItem(item)
  PROVE  /\ Form!IsForm(Form!Loaded(f, item))
         /\ \A e : Form!Sent(Form!Loaded(f, item), e) = [request |-> Form!Request(item, e), options |-> f.options]
<1>1. PICK g : g = Form!Loaded(f, item)
  OBVIOUS
<1>2. g = [url |-> item.url, rows |-> f.rows, headers |-> item.headers, body |-> item.body,
           auth |-> item.auth, options |-> f.options]
  BY <1>1, Zenon DEF Form!Loaded, Form!IsForm
<1>3. g.url = item.url /\ g.headers = item.headers /\ g.body = item.body /\ g.auth = item.auth
      /\ g.options = f.options
  BY <1>2
<1>4. Form!IsForm(g)
  BY <1>2, <1>3 DEF Form!IsForm, Form!IsItem
<1>5. \A e : Form!Request(g, e) = Form!Request(item, e)
  BY <1>3 DEF Form!Request, Form!WithContentType
<1> QED
  BY <1>1, <1>3, <1>4, <1>5 DEF Form!Sent

\* The form is edited, and stays one.
LEMMA FormEdited ==
  ASSUME Form!FormInv, NEW f, Form!IsForm(f), Form!Edit(f)
  PROVE  Form!FormInv'
  BY DEF Form!FormInv, Form!Edit, Form!IsSent, Form!IsSaved, Form!IsItem, Form!IsForm

\* The steps that edit the form.
LEMMA FormEdits ==
  ASSUME Form!FormInv,
         \/ Form!TypeUrl \/ Form!InsertVariable \/ \E p \in Param : Form!EditRow(p)
         \/ Form!EditHeader \/ Form!EditBody \/ Form!EditAuth \/ Form!EditOptions
         \/ Form!LoadCollection \/ Form!ImportCurl
  PROVE  Form!FormInv'
<1>1. Form!IsForm(request)
  BY DEF Form!FormInv
<1>2. /\ request = [url |-> request.url, rows |-> request.rows, headers |-> request.headers,
                    body |-> request.body, auth |-> request.auth, options |-> request.options]
      /\ Form!IsUrl(request.url) /\ Form!IsBody(request.body) /\ Form!IsHeaders(request.headers)
  BY <1>1 DEF Form!IsForm, Form!IsItem
<1>3. ASSUME NEW u, NEW r, Form!IsUrl(u), Form!Edit([request EXCEPT !.url = u, !.rows = r])
      PROVE  Form!FormInv'
  <2>1. PICK f : f = [request EXCEPT !.url = u, !.rows = r]
    OBVIOUS
  <2>2. f = [url |-> u, rows |-> r, headers |-> request.headers, body |-> request.body, auth |-> request.auth,
           options |-> request.options]
    BY <1>2, <2>1, Zenon
  <2>3. Form!IsForm(f)
    BY <1>2, <1>3, <2>2 DEF Form!IsForm, Form!IsItem
  <2> QED
    BY <1>3, <2>1, <2>3, FormEdited
<1>4. CASE Form!TypeUrl
  <2>1. PICK host \in {Form!Template, "literal"}, q \in SUBSET Param :
           Form!Edit([request EXCEPT !.url = [host |-> host, query |-> q],
                                     !.rows = Form!RowsOf([host |-> host, query |-> q], request.rows)])
    BY <1>4, Zenon DEF Form!TypeUrl
  <2>2. Form!IsUrl([host |-> host, query |-> q])
    BY DEF Form!IsUrl
  <2> QED
    BY <1>3, <2>1, <2>2, Zenon
<1>5. CASE Form!InsertVariable
  <2>1. PICK f : f = [request EXCEPT !.url.host = Form!Template]
    BY Zenon
  <2>2. PICK u : u = [request.url EXCEPT !.host = Form!Template]
    OBVIOUS
  <2>3. u = [host |-> Form!Template, query |-> request.url.query]
    BY <1>2, <2>2 DEF Form!IsUrl
  <2>4. f = [url |-> u, rows |-> request.rows, headers |-> request.headers, body |-> request.body, auth |-> request.auth,
           options |-> request.options]
    BY <1>2, <2>1, <2>2
  <2>5. Form!IsUrl(u)
    BY <2>3 DEF Form!IsUrl
  <2>6. Form!IsForm(f)
    BY <1>2, <2>4, <2>5 DEF Form!IsForm, Form!IsItem
  <2> QED
    BY <1>5, <2>1, <2>6, FormEdited DEF Form!InsertVariable
<1>6. CASE \E p \in Param : Form!EditRow(p)
  <2>1. PICK r : Form!Edit([request EXCEPT !.rows = r, !.url.query = Form!OnRows(r)])
    BY <1>6, Zenon DEF Form!EditRow
  <2>2. PICK f : f = [request EXCEPT !.rows = r, !.url.query = Form!OnRows(r)]
    OBVIOUS
  <2>3. PICK u : u = [request.url EXCEPT !.query = Form!OnRows(r)]
    BY Zenon
  <2>4. u = [host |-> request.url.host, query |-> Form!OnRows(r)]
    BY <1>2, <2>3 DEF Form!IsUrl
  <2>5. f = [url |-> u, rows |-> r, headers |-> request.headers, body |-> request.body, auth |-> request.auth,
           options |-> request.options]
    BY <1>2, <2>2, <2>3, Zenon
  <2>6. Form!IsUrl(u)
    BY <2>4 DEF Form!IsUrl
  <2>7. Form!IsForm(f)
    BY <1>2, <2>5, <2>6 DEF Form!IsForm, Form!IsItem
  <2> QED
    BY <2>1, <2>2, <2>7, FormEdited
<1>7. CASE Form!EditHeader
  <2>1. PICK h : Form!Edit([request EXCEPT !.headers["authorization"] = h])
    BY <1>7, Zenon DEF Form!EditHeader
  <2>2. PICK f : f = [request EXCEPT !.headers["authorization"] = h]
    OBVIOUS
  <2>3. PICK g : g = [request.headers EXCEPT !["authorization"] = h]
    BY Zenon
  <2>4. Form!IsHeaders(g)
    BY <1>2, <2>3 DEF Form!IsHeaders
  <2>5. f = [url |-> request.url, rows |-> request.rows, headers |-> g, body |-> request.body, auth |-> request.auth,
           options |-> request.options]
    BY <1>2, <2>2, <2>3
  <2>6. Form!IsForm(f)
    BY <1>2, <2>4, <2>5 DEF Form!IsForm, Form!IsItem
  <2> QED
    BY <2>1, <2>2, <2>6, FormEdited
<1>8. CASE Form!EditBody
  <2>1. PICK b \in {Form!NoBody} \cup [type : BodyType \ {"none"}, text : {Form!Template}] :
           Form!Edit([request EXCEPT !.body = b])
    BY <1>8, Zenon DEF Form!EditBody
  <2>2. Form!IsBody(b)
    BY DEF Form!IsBody, Form!NoBody
  <2>3. PICK f : f = [request EXCEPT !.body = b]
    BY Zenon
  <2>4. f = [url |-> request.url, rows |-> request.rows, headers |-> request.headers, body |-> b, auth |-> request.auth,
           options |-> request.options]
    BY <1>2, <2>3
  <2>5. Form!IsForm(f)
    BY <1>2, <2>2, <2>4 DEF Form!IsForm, Form!IsItem
  <2> QED
    BY <2>1, <2>3, <2>5, FormEdited
<1>9. CASE Form!EditAuth
  <2>1. PICK a \in AuthType : Form!Edit([request EXCEPT !.auth = a])
    BY <1>9 DEF Form!EditAuth
  <2>2. PICK f : f = [request EXCEPT !.auth = a]
    BY Zenon
  <2>3. f = [url |-> request.url, rows |-> request.rows, headers |-> request.headers, body |-> request.body, auth |-> a,
           options |-> request.options]
    BY <1>2, <2>2
  <2>4. Form!IsForm(f)
    BY <1>2, <2>3 DEF Form!IsForm, Form!IsItem
  <2> QED
    BY <2>1, <2>2, <2>4, FormEdited
<1>13. CASE Form!EditOptions
  <2>1. PICK o \in Option : Form!Edit([request EXCEPT !.options = o])
    BY <1>13 DEF Form!EditOptions
  <2>2. PICK f : f = [request EXCEPT !.options = o]
    BY Zenon
  <2>3. f = [url |-> request.url, rows |-> request.rows, headers |-> request.headers, body |-> request.body,
             auth |-> request.auth, options |-> o]
    BY <1>2, <2>2
  <2>4. Form!IsForm(f)
    BY <1>2, <2>3 DEF Form!IsForm, Form!IsItem
  <2> QED
    BY <2>1, <2>2, <2>4, FormEdited
<1>10. Form!IsHeaders(Form!NoHeader) /\ Form!IsBody(Form!NoBody)
  BY DEF Form!IsHeaders, Form!IsBody, Form!NoHeader, Form!NoBody, Form!Header
<1>11. CASE Form!LoadCollection
  <2>1. PICK u : u = [host |-> "literal", query |-> Param]
    OBVIOUS
  <2>2. PICK f : f = [url |-> u, rows |-> Form!RowsOf(u, request.rows),
                      headers |-> Form!NoHeader, body |-> Form!NoBody, auth |-> "none",
                      options |-> request.options]
    OBVIOUS
  <2>3. Form!IsUrl(u)
    BY <2>1 DEF Form!IsUrl
  <2>4. Form!IsForm(f)
    BY <1>10, <2>2, <2>3 DEF Form!IsForm, Form!IsItem
  <2> QED
    BY <1>11, <2>1, <2>2, <2>4, FormEdited DEF Form!LoadCollection
<1>12. CASE Form!ImportCurl
  <2>1. /\ Form!IsUrl(Form!Curl.url) /\ Form!IsBody(Form!Curl.body) /\ Form!IsHeaders(Form!Curl.headers)
    <3>1. PICK h : h = [Form!NoHeader EXCEPT !["authorization"] = "typed"]
      OBVIOUS
    <3>2. Form!IsHeaders(h)
      BY <1>10, <3>1 DEF Form!IsHeaders
    <3> QED
      BY <1>10, <3>1, <3>2 DEF Form!Curl, Form!IsUrl
  <2>2. PICK c : c = Form!Curl
    OBVIOUS
  <2>3. PICK r : r = Form!RowsOf(c.url, request.rows)
    OBVIOUS
  <2>4. PICK f : f = [request EXCEPT !.url = c.url, !.rows = r, !.headers = c.headers, !.body = c.body]
    OBVIOUS
  <2>5. f = [url |-> c.url, rows |-> r, headers |-> c.headers, body |-> c.body, auth |-> request.auth,
           options |-> request.options]
    BY <1>2, <2>4, Zenon
  <2>6. Form!IsForm(f)
    BY <2>1, <2>2, <2>5 DEF Form!IsForm, Form!IsItem
  <2> QED
    BY <1>12, <2>2, <2>3, <2>4, <2>6, FormEdited DEF Form!ImportCurl, Form!Imported
<1> QED
  BY <1>4, <1>5, <1>6, <1>7, <1>8, <1>9, <1>11, <1>12, <1>13

\* The lists of what was sent and saved.
LEMMA FormLists ==
  ASSUME Form!FormAssumption, Form!FormInv,
         \/ Form!Send \/ Form!SaveTemplate \/ Form!ClearHistory \/ \E i \in DOMAIN templates : Form!DeleteSaved(i)
  PROVE  Form!FormInv'
<1> DEFINE old == {requests[i] : i \in DOMAIN requests}
           kept == {templates[i] : i \in DOMAIN templates}
<1>1. /\ requests \in Seq(old) /\ templates \in Seq(kept) /\ Form!IsForm(request)
      /\ \A x \in old : Form!IsSent(x)
      /\ \A x \in kept : Form!IsSaved(x)
  BY DEF Form!FormInv
<1>2. ASSUME UNCHANGED <<request, templates>>, NEW S, requests' \in Seq(S), \A x \in S : Form!IsSent(x)
      PROVE  Form!FormInv'
  <2>1. requests' \in Seq({requests'[i] : i \in DOMAIN requests'})
    BY <1>2, OfItsOwn
  <2>2. \A i \in DOMAIN requests' : Form!IsSent(requests'[i])
    BY <1>2
  <2> QED
    BY <1>2, <2>1, <2>2 DEF Form!FormInv
<1>3. ASSUME UNCHANGED <<request, requests>>, NEW S, templates' \in Seq(S), \A x \in S : Form!IsSaved(x)
      PROVE  Form!FormInv'
  <2>1. templates' \in Seq({templates'[i] : i \in DOMAIN templates'})
    BY <1>3, OfItsOwn
  <2>2. \A i \in DOMAIN templates' : Form!IsSaved(templates'[i])
    BY <1>3
  <2> QED
    BY <1>3, <2>1, <2>2 DEF Form!FormInv
<1> HIDE DEF old, kept
<1>4. CASE Form!Send
  <2>1. PICK n : n = IF Len(requests) < MaxSent - 1 THEN Len(requests) ELSE MaxSent - 1
    OBVIOUS
  <2>2. SubSeq(requests, 1, n) \in Seq(old)
    BY <1>1, <2>1 DEF Form!FormAssumption
  <2>3. PICK x : x = Form!HistoryItem(request, env)
    OBVIOUS
  <2>4. requests' = <<x>> \o SubSeq(requests, 1, n) /\ UNCHANGED <<request, templates>>
    BY <1>4, <2>1, <2>3 DEF Form!Send, Form!Newest
  <2>5. requests' \in Seq(old \cup {x})
    BY <2>2, <2>4, PutInFront
  <2>6. Form!IsSent(x)
    BY <1>1, <2>3, SentOnce
  <2> QED
    BY <1>1, <1>2, <2>4, <2>5, <2>6, Zenon
<1>5. CASE Form!SaveTemplate
  <2>1. PICK x : x = Form!Template0(request)
    OBVIOUS
  <2>2. templates' = <<x>> \o templates /\ UNCHANGED <<request, requests>>
    BY <1>5, <2>1 DEF Form!SaveTemplate
  <2>3. templates' \in Seq(kept \cup {x})
    BY <1>1, <2>2, PutInFront
  <2>4. Form!IsSaved(x)
    BY <1>1, <2>1, SavedOnce
  <2> QED
    BY <1>1, <1>3, <2>2, <2>3, <2>4
<1>6. CASE Form!ClearHistory
  <2>1. requests' \in Seq({}) /\ UNCHANGED <<request, templates>>
    BY <1>6 DEF Form!ClearHistory
  <2> QED
    BY <1>2, <2>1
<1>7. CASE \E i \in DOMAIN templates : Form!DeleteSaved(i)
  <2>1. PICK i \in DOMAIN templates : Form!DeleteSaved(i)
    BY <1>7
  <2>2. templates' = SubSeq(templates, 1, i - 1) \o SubSeq(templates, i + 1, Len(templates))
        /\ UNCHANGED <<request, requests>>
    BY <2>1 DEF Form!DeleteSaved, Form!RemoveAt
  <2>3. i \in 1..Len(templates) /\ Len(templates) \in Nat
    BY <1>1
  <2>4. SubSeq(templates, 1, i - 1) \in Seq(kept) /\ SubSeq(templates, i + 1, Len(templates)) \in Seq(kept)
    BY <1>1, <2>3
  <2>5. templates' \in Seq(kept)
    BY <2>2, <2>4
  <2> QED
    BY <1>1, <1>3, <2>2, <2>5, Zenon
<1> QED
  BY <1>4, <1>5, <1>6, <1>7

\* An item of the history, loaded and sent again in its environment, is the
\* request that was sent, and a template the request that the form would have
\* been in any, with the timeout and the certificate of the form that it is
\* loaded into (loadRequest, PingZero.tsx:791).
THEOREM ReplaysAreSent == Spec => []ReplayIsSent
<1>1. Form!FormAssumption
  BY PanelsAssumption
<1>2. Init => Form!FormInv
  <2> SUFFICES ASSUME Form!Init PROVE Form!FormInv
    BY Zenon DEF Init
  <2>1. Form!IsHeaders(Form!NoHeader) /\ Form!IsBody(Form!NoBody)
    BY DEF Form!IsHeaders, Form!IsBody, Form!NoHeader, Form!NoBody, Form!Header
  <2>2. Form!IsForm(request)
    BY <2>1 DEF Form!Init, Form!IsForm, Form!IsItem, Form!IsUrl
  <2> QED
    BY <2>2 DEF Form!Init, Form!FormInv
<1>3. Form!FormInv /\ [Next]_panelsVars => Form!FormInv'
  <2> SUFFICES ASSUME Form!FormInv, [Next]_panelsVars
               PROVE  Form!FormInv'
    OBVIOUS
  <2>1. ASSUME UNCHANGED <<request, requests, templates>>
        PROVE  Form!FormInv'
    BY <2>1 DEF Form!FormInv, Form!IsForm, Form!IsSent, Form!IsSaved, Form!IsItem
  <2>2. CASE Form!SelectEnv \/ UNCHANGED formV
    BY <2>1, <2>2 DEF Form!SelectEnv, formV
  <2>3. ASSUME NEW item, Form!IsItem(item), Form!LoadItem(item)
        PROVE  Form!FormInv'
    BY <2>3, LoadedIsItem, FormEdited DEF Form!FormInv, Form!LoadItem
  <2>4. ASSUME NEW i \in DOMAIN templates, Form!LoadItem(templates[i])
        PROVE  Form!FormInv'
    BY <2>3, <2>4 DEF Form!FormInv, Form!IsSaved
  <2>5. ASSUME NEW i \in DOMAIN requests, Form!LoadItem(requests[i])
        PROVE  Form!FormInv'
    BY <2>3, <2>5 DEF Form!FormInv, Form!IsSent
  <2>6. Form!Next \/ UNCHANGED formV
    BY DEF Next, NextApi, NextSettings, NextTools, panelsVars, apiV
  <2> QED
    BY <1>1, <2>2, <2>4, <2>5, <2>6, FormEdits, FormLists DEF Form!Next
<1>4. Form!FormInv => ReplayIsSent
  <2> SUFFICES ASSUME Form!FormInv PROVE ReplayIsSent
    OBVIOUS
  <2>1. Form!IsForm(request)
    BY DEF Form!FormInv
  <2>2. ASSUME NEW i \in DOMAIN requests
        PROVE  Form!Replayed(requests[i], requests[i].env)
                 = [requests[i].sent EXCEPT !.options = request.options]
    <3>1. PICK item : item = requests[i]
      OBVIOUS
    <3>2. Form!IsItem(item) /\ Form!IsMade(item.sent, Form!Request(item, item.env))
      BY <3>1 DEF Form!FormInv, Form!IsSent
    <3>3. Form!Replayed(item, item.env) = [request |-> Form!Request(item, item.env), options |-> request.options]
      BY <2>1, <3>2, LoadedIsItem DEF Form!Replayed
    <3>4. [item.sent EXCEPT !.options = request.options]
             = [request |-> Form!Request(item, item.env), options |-> request.options]
      BY <3>2 DEF Form!IsMade
    <3> QED
      BY <3>1, <3>3, <3>4
  <2>3. ASSUME NEW i \in DOMAIN templates, NEW e \in RequestEnv
        PROVE  Form!Replayed(templates[i], e) = [templates[i].sent[e] EXCEPT !.options = request.options]
    <3>1. PICK item : item = templates[i]
      OBVIOUS
    <3>2. Form!IsItem(item) /\ Form!IsMade(item.sent[e], Form!Request(item, e))
      BY <3>1 DEF Form!FormInv, Form!IsSaved
    <3>3. Form!Replayed(item, e) = [request |-> Form!Request(item, e), options |-> request.options]
      BY <2>1, <3>2, LoadedIsItem DEF Form!Replayed
    <3>4. [item.sent[e] EXCEPT !.options = request.options]
             = [request |-> Form!Request(item, e), options |-> request.options]
      BY <3>2 DEF Form!IsMade
    <3> QED
      BY <3>1, <3>3, <3>4
  <2> QED
    BY <2>2, <2>3 DEF ReplayIsSent, Form!ReplayIsSent
<1> QED
  BY <1>2, <1>3, <1>4, PTL DEF Spec

(***************************************************************************)
(* The event stream and the web socket                                     *)
(***************************************************************************)
\* A stream is not told to stop without the backend being able to, whatever
\* is connected, refused, left or under way between the two locks.
LEMMA StreamSafe ==
  ASSUME Stream!StreamAssumption
  PROVE  Spec => []Stream!StreamInv
<1>0. None \notin EventStream
  BY DEF Stream!StreamAssumption
<1>1. Init => Stream!StreamInv
  <2> SUFFICES ASSUME Stream!Init PROVE Stream!StreamInv
    BY Zenon DEF Init
  <2> QED
    BY DEF Stream!Init, Stream!StreamInv, Stream!OneStream
<1>2. Stream!StreamInv /\ [Next]_panelsVars => Stream!StreamInv'
  <2> SUFFICES ASSUME Stream!StreamInv, [Next]_panelsVars
               PROVE  Stream!StreamInv'
    OBVIOUS
  <2>1. /\ Stream!Told = [s \in EventStream |-> Stream!Told[s]]
        /\ \A s \in EventStream : Stream!Told[s] # "running"
    <3>1. CASE cancel # None /\ task[cancel] = "running"
      BY <3>1 DEF Stream!Told, Stream!StreamInv, Stream!OneStream
    <3>2. CASE ~(cancel # None /\ task[cancel] = "running")
      <4>1. Stream!Told = task
        BY <3>2 DEF Stream!Told
      <4>2. \A s \in EventStream : task[s] # "running"
        BY <1>0, <3>2 DEF Stream!StreamInv, Stream!OneStream
      <4> QED
        BY <4>1, <4>2 DEF Stream!StreamInv
    <3> QED
      BY <3>1, <3>2
  <2>2. ASSUME UNCHANGED <<sseCalls, task, cancel>>
        PROVE  Stream!StreamInv'
    BY <2>2 DEF Stream!StreamInv, Stream!OneStream
  <2>3. ASSUME NEW s \in EventStream, NEW cmd, NEW at
        PROVE  Stream!IsCall(Stream!Call(cmd, s, at)) /\ Stream!Call(cmd, s, at).no = s
    BY DEF Stream!Call, Stream!IsCall
  <2>4. ASSUME NEW x \in sseCalls, NEW at, NEW ok
        PROVE  LET y == [x EXCEPT !.at = at]
                   z == [x EXCEPT !.at = at, !.ok = ok]
               IN  Stream!IsCall(y) /\ y.no \in EventStream /\ Stream!IsCall(z) /\ z.no \in EventStream
    <3>1. x = [cmd |-> x.cmd, no |-> x.no, at |-> x.at, ok |-> x.ok, mine |-> x.mine] /\ x.no \in EventStream
      BY DEF Stream!StreamInv, Stream!IsCall
    <3>2. PICK y : y = [x EXCEPT !.at = at]
      OBVIOUS
    <3>3. PICK z : z = [x EXCEPT !.at = at, !.ok = ok]
      OBVIOUS
    <3>4. y = [cmd |-> x.cmd, no |-> x.no, at |-> at, ok |-> x.ok, mine |-> x.mine]
      BY ONLY <3>1, <3>2, Zenon
    <3>5. z = [cmd |-> x.cmd, no |-> x.no, at |-> at, ok |-> ok, mine |-> x.mine]
      BY ONLY <3>1, <3>3, Zenon
    <3> QED
      BY <3>1, <3>2, <3>3, <3>4, <3>5 DEF Stream!IsCall
  <2>5. ASSUME NEW s \in EventStream, Stream!Connect(s) \/ Stream!Disconnect(s)
        PROVE  Stream!StreamInv'
    <3>1. \E c : sseCalls' = sseCalls \cup {c} /\ Stream!IsCall(c) /\ c.no = s
      BY <2>3, <2>5 DEF Stream!Connect, Stream!Disconnect
    <3>2. UNCHANGED <<task, cancel>>
      BY <2>5 DEF Stream!Connect, Stream!Disconnect
    <3> QED
      BY <3>1, <3>2 DEF Stream!StreamInv, Stream!OneStream
  <2>6. ASSUME NEW x \in sseCalls, NEW y, sseCalls' = (sseCalls \ {x}) \cup {y},
               Stream!IsCall(y), y.no \in EventStream
        PROVE  \A z \in sseCalls' : Stream!IsCall(z) /\ z.no \in EventStream
    BY <2>6 DEF Stream!StreamInv
  <2>7. ASSUME NEW x \in sseCalls, Stream!Listens(x)
        PROVE  Stream!StreamInv'
    BY <2>4, <2>6, <2>7 DEF Stream!Listens, Stream!Moves, Stream!StreamInv, Stream!OneStream
  <2>8. ASSUME NEW x \in sseCalls, Stream!Cancels(x)
        PROVE  Stream!StreamInv'
    <3>1. \A z \in sseCalls' : Stream!IsCall(z) /\ z.no \in EventStream
      BY <2>4, <2>6, <2>8 DEF Stream!Cancels, Stream!Moves
    <3>2. task' = Stream!Told /\ cancel' = None
      BY <2>8 DEF Stream!Cancels
    <3> QED
      BY <2>1, <3>1, <3>2 DEF Stream!StreamInv, Stream!OneStream
  <2>9. ASSUME NEW x \in sseCalls, Stream!Refused(x)
        PROVE  Stream!StreamInv'
    <3>1. \A z \in sseCalls' : Stream!IsCall(z) /\ z.no \in EventStream
      BY <2>4, <2>6, <2>9 DEF Stream!Refused
    <3>2. task' = [task EXCEPT ![x.no] = "ended"] /\ cancel' = cancel
      BY <2>9 DEF Stream!Refused
    <3> QED
      BY <3>1, <3>2 DEF Stream!StreamInv, Stream!OneStream
  <2>10. ASSUME NEW x \in sseCalls, Stream!Makes(x)
         PROVE  Stream!StreamInv'
    <3>1. \A z \in sseCalls' : Stream!IsCall(z) /\ z.no \in EventStream
      BY <2>4, <2>6, <2>10 DEF Stream!Makes, Stream!Moves
    <3>2. task' = [Stream!Told EXCEPT ![x.no] = "running"] /\ cancel' = x.no /\ x.no \in EventStream
      BY <2>10 DEF Stream!Makes, Stream!StreamInv
    <3> QED
      BY <2>1, <3>1, <3>2 DEF Stream!StreamInv, Stream!OneStream
  <2>11. ASSUME NEW x \in sseCalls, Stream!ConnectReturns(x) \/ Stream!DisconnectReturns(x)
         PROVE  Stream!StreamInv'
    BY <2>11 DEF Stream!ConnectReturns, Stream!DisconnectReturns, Stream!StreamInv, Stream!OneStream
  <2>12. ASSUME NEW s \in EventStream, Stream!Ends(s)
         PROVE  Stream!StreamInv'
    BY <2>12 DEF Stream!Ends, Stream!StreamInv, Stream!OneStream
  <2>13. CASE Stream!Remount
    <3>1. \A z \in sseCalls' : \E x \in sseCalls : z = [x EXCEPT !.mine = FALSE]
      BY <2>13 DEF Stream!Remount
    <3>2. ASSUME NEW x \in sseCalls, NEW z, z = [x EXCEPT !.mine = FALSE]
          PROVE  Stream!IsCall(z) /\ z.no \in EventStream
      <4>1. x = [cmd |-> x.cmd, no |-> x.no, at |-> x.at, ok |-> x.ok, mine |-> x.mine] /\ x.no \in EventStream
        BY DEF Stream!StreamInv, Stream!IsCall
      <4>2. z = [cmd |-> x.cmd, no |-> x.no, at |-> x.at, ok |-> x.ok, mine |-> FALSE]
        BY ONLY <3>2, <4>1, Zenon
      <4> QED
        BY <4>1, <4>2 DEF Stream!IsCall
    <3>3. \A z \in sseCalls' : Stream!IsCall(z) /\ z.no \in EventStream
      BY <3>1, <3>2, Zenon
    <3>4. UNCHANGED <<task, cancel>>
      BY <2>13 DEF Stream!Remount
    <3> QED
      BY <3>3, <3>4 DEF Stream!StreamInv, Stream!OneStream
  <2>14. CASE (\E s \in EventStream : Stream!Message(s)) \/ Stream!Deliver \/ UNCHANGED streamV
    BY <2>2, <2>14 DEF Stream!Message, Stream!Deliver, streamV
  <2>15. Stream!Next \/ UNCHANGED streamV
    BY DEF Next, NextApi, NextSettings, NextTools, panelsVars, apiV
  <2> QED
    BY <2>5, <2>7, <2>8, <2>9, <2>10, <2>11, <2>12, <2>13, <2>14, <2>15 DEF Stream!Next
<1> QED
  BY <1>1, <1>2, PTL DEF Spec

\* The events of the web socket that have not been delivered.
LEMMA SocketAppends ==
  ASSUME NEW S, NEW es \in Seq(S), NEW e \in S, NEW fs, fs = Append(es, e)
  PROVE  /\ fs \in Seq(S)
         /\ \A i \in DOMAIN fs : fs[i] = e \/ \E j \in DOMAIN es : fs[i] = es[j]
         /\ \A j \in DOMAIN es : \E i \in DOMAIN fs : fs[i] = es[j]
         /\ \E i \in DOMAIN fs : fs[i] = e
<1>1. fs \in Seq(S) /\ DOMAIN fs = 1..(Len(es) + 1) /\ DOMAIN es = 1..Len(es) /\ Len(es) \in Nat
  OBVIOUS
<1>2. fs[Len(es) + 1] = e /\ \A i \in 1..Len(es) : fs[i] = es[i]
  OBVIOUS
<1> QED
  BY <1>1, <1>2

LEMMA SocketTail ==
  ASSUME NEW S, NEW es \in Seq(S), es # <<>>, NEW fs, fs = Tail(es)
  PROVE  /\ fs \in Seq(S)
         /\ \A i \in DOMAIN fs : i + 1 \in DOMAIN es /\ fs[i] = es[i + 1]
         /\ \A j \in DOMAIN es : j = 1 \/ (j - 1 \in DOMAIN fs /\ fs[j - 1] = es[j])
<1>1. fs \in Seq(S) /\ DOMAIN fs = 1..(Len(es) - 1) /\ DOMAIN es = 1..Len(es) /\ Len(es) \in Nat /\ Len(es) > 0
  OBVIOUS
<1>2. \A i \in DOMAIN fs : fs[i] = es[i + 1]
  BY <1>1
<1>3. \A j \in DOMAIN es : j = 1 \/ (j - 1 \in DOMAIN fs /\ fs[j - 1] = es[j])
  BY <1>1, <1>2
<1>4. \A i \in DOMAIN fs : i + 1 \in DOMAIN es
  BY <1>1
<1> QED
  BY <1>1, <1>2, <1>3, <1>4

\* The commands of the web socket's tab.
LEMMA SocketConnects ==
  ASSUME Socket!SocketAssumption, Socket!SocketInv, NEW c \in Conn, Socket!Connect(c)
  PROVE  Socket!SocketInv'
<1>1. /\ wsCalls = {} /\ wsEvents = <<>> /\ \A d \in Conn : d \in reader => conn[d] = "open"
      /\ status = "disconnected" /\ UNCHANGED <<left, conn, reader, sender, wsEvents>>
  BY DEF Socket!Connect, Socket!Free, Socket!Settled, Socket!Offers, Socket!backVars
<1>2. ~left => Socket!NoneOpen /\ reader = {} /\ Socket!NoNews
  BY <1>1 DEF Socket!SocketInv, Socket!Idle, Socket!NoneOpen, Socket!NoNews
<1>3. PICK x : x = Socket!Call("connect", c, "listen")
  OBVIOUS
<1>4. Socket!IsCall(x) /\ x.mine /\ x.cmd = "connect" /\ x.no = c /\ x.at = "listen"
  BY <1>3 DEF Socket!Call, Socket!IsCall
<1>5. wsCalls' = {x}
  BY <1>1, <1>3 DEF Socket!Connect
<1>6. Socket!Begun(x)'
  BY <1>1, <1>2, <1>4 DEF Socket!Begun, Socket!NoneOpen, Socket!NoNews
<1> QED
  BY <1>1, <1>4, <1>5, <1>6 DEF Socket!SocketInv

LEMMA SocketListens ==
  ASSUME Socket!SocketInv, NEW x \in wsCalls, Socket!Listens(x)
  PROVE  Socket!SocketInv'
<1>1. /\ x.at = "listen" /\ x.cmd = "connect" /\ x.mine /\ x.no \in Conn
      /\ ~left => Socket!NoneOpen /\ reader = {} /\ Socket!NoNews
  BY DEF Socket!Listens, Socket!SocketInv, Socket!Begun
<1>2. PICK y : y = [x EXCEPT !.at = "ask"]
  OBVIOUS
<1>3. Socket!IsCall(y) /\ y.cmd = "connect" /\ y.no = x.no /\ y.at = "ask" /\ y.mine
  <2>1. x = [cmd |-> x.cmd, no |-> x.no, at |-> x.at, ok |-> x.ok, mine |-> x.mine]
    BY DEF Socket!SocketInv, Socket!IsCall
  <2>2. y = [cmd |-> x.cmd, no |-> x.no, at |-> "ask", ok |-> x.ok, mine |-> x.mine]
    BY ONLY <1>2, <2>1, Zenon
  <2> QED
    BY <1>1, <2>2 DEF Socket!IsCall
<1>4. wsCalls' = {y} /\ UNCHANGED <<left, conn, reader, sender, wsEvents>>
  BY <1>2 DEF Socket!Listens, Socket!Becomes, Socket!SocketInv, Socket!backVars
<1>5. unlisten' \in listening'
  BY <1>1 DEF Socket!Listens
<1>6. Socket!Begun(y)'
  BY <1>1, <1>3, <1>4 DEF Socket!Begun, Socket!NoneOpen, Socket!NoNews
<1> QED
  BY <1>3, <1>4, <1>5, <1>6 DEF Socket!SocketInv

LEMMA SocketConnected ==
  ASSUME Socket!SocketAssumption, Socket!SocketInv, NEW x \in wsCalls, NEW ok \in BOOLEAN, Socket!Connected(x, ok)
  PROVE  Socket!SocketInv'
<1>1. /\ x.cmd = "connect" /\ x.no \in Conn /\ unlisten \in listening
      /\ ~left => Socket!NoneOpen /\ reader = {} /\ Socket!NoNews
  BY DEF Socket!SocketInv, Socket!Begun, Socket!Connected
<1>2. PICK y : y = [x EXCEPT !.at = "done", !.ok = ok]
  OBVIOUS
<1>3. Socket!IsCall(y) /\ y.cmd = "connect" /\ y.no = x.no /\ y.at = "done" /\ y.ok = ok /\ y.mine
  <2>1. x = [cmd |-> x.cmd, no |-> x.no, at |-> x.at, ok |-> x.ok, mine |-> x.mine] /\ x.mine
    BY DEF Socket!SocketInv, Socket!IsCall
  <2>2. y = [cmd |-> x.cmd, no |-> x.no, at |-> "done", ok |-> ok, mine |-> x.mine]
    BY ONLY <1>2, <2>1, Zenon
  <2> QED
    BY <1>1, <2>1, <2>2 DEF Socket!IsCall
<1>4. wsCalls' = {y} /\ UNCHANGED <<listening, unlisten, left, wsEvents>>
  BY <1>2 DEF Socket!Connected, Socket!Becomes, Socket!SocketInv, Socket!tabVars
<1>5. /\ conn' = [c \in Conn |-> conn'[c]]
      /\ \A c \in Conn : conn'[c] = IF c = x.no THEN IF ok THEN "open" ELSE "closed" ELSE conn[c]
  BY <1>1 DEF Socket!Connected, Socket!SocketInv
<1>6. CASE ok
  <2>1. sender' = x.no /\ reader' = reader \cup {x.no}
    BY <1>6 DEF Socket!Connected
  <2>2. Socket!Live'
    BY <1>1, <1>5, <1>6, <2>1 DEF Socket!Live
  <2>3. ~left => Socket!Only' /\ Socket!NoNews'
    BY <1>1, <1>4, <1>5, <2>1 DEF Socket!Only, Socket!NoNews, Socket!NoneOpen
  <2>4. Socket!Begun(y)'
    BY <1>3, <1>4, <1>6, <2>2, <2>3 DEF Socket!Begun
  <2> QED
    BY <1>1, <1>3, <1>4, <1>5, <2>1, <2>4 DEF Socket!SocketInv
<1>7. CASE ~ok
  <2>1. UNCHANGED <<sender, reader>>
    BY <1>7 DEF Socket!Connected
  <2>2. ~left => Socket!NoneOpen'
    BY <1>1, <1>5, <1>7 DEF Socket!NoneOpen
  <2>3. Socket!Begun(y)'
    BY <1>3, <1>4, <1>7, <2>2 DEF Socket!Begun
  <2> QED
    BY <1>1, <1>3, <1>4, <1>5, <2>1, <2>3 DEF Socket!SocketInv
<1> QED
  BY <1>6, <1>7

\* A command that was done returns.
LEMMA SocketReturns ==
  ASSUME Socket!SocketInv, NEW x \in wsCalls, Socket!ConnectReturns(x) \/ Socket!DisconnectReturns(x)
  PROVE  Socket!SocketInv'
<1>1. x.mine /\ wsCalls' = {} /\ UNCHANGED <<left, conn, reader, sender, wsEvents>>
  BY DEF Socket!SocketInv, Socket!ConnectReturns, Socket!DisconnectReturns, Socket!backVars
<1>2. /\ Socket!NoneOpen => Socket!NoneOpen'
      /\ Socket!Live => Socket!Live'
      /\ Socket!Only => Socket!Only'
      /\ Socket!NoNews => Socket!NoNews'
  BY <1>1 DEF Socket!NoneOpen, Socket!Live, Socket!Only, Socket!NoNews
<1>3. Socket!Idle'
  <2>1. CASE Socket!ConnectReturns(x) /\ x.ok
    <3>1. Socket!Live /\ (~left => Socket!Only /\ Socket!NoNews) /\ unlisten \in listening
      BY <2>1 DEF Socket!ConnectReturns, Socket!SocketInv, Socket!Begun
    <3>2. status' = "connected" /\ UNCHANGED <<listening, unlisten>>
      BY <1>1, <2>1 DEF Socket!ConnectReturns
    <3> QED
      BY <1>1, <1>2, <3>1, <3>2 DEF Socket!Idle
  <2>2. CASE (Socket!ConnectReturns(x) /\ ~x.ok) \/ Socket!DisconnectReturns(x)
    <3>1. (~left => Socket!NoneOpen) /\ status' = "disconnected"
      BY <1>1, <2>2 DEF Socket!ConnectReturns, Socket!DisconnectReturns, Socket!SocketInv, Socket!Begun
    <3> QED
      BY <1>1, <1>2, <3>1 DEF Socket!Idle
  <2> QED
    BY <2>1, <2>2
<1> QED
  BY <1>1, <1>3 DEF Socket!SocketInv

\* The user disconnects what is connected.
LEMMA SocketDisconnects ==
  ASSUME Socket!SocketInv, NEW c \in Conn, Socket!Disconnect(c)
  PROVE  Socket!SocketInv'
<1>1. wsCalls = {} /\ status # "disconnected" /\ UNCHANGED <<left, conn, reader, sender, wsEvents>>
  BY DEF Socket!Disconnect, Socket!Free, Socket!Settled, Socket!Offers, Socket!tabVars, Socket!backVars
<1>2. ~left => Socket!Only
  BY <1>1 DEF Socket!SocketInv, Socket!Idle
<1>3. PICK x : x = Socket!Call("disconnect", c, "ask")
  OBVIOUS
<1>4. Socket!IsCall(x) /\ x.mine /\ x.cmd = "disconnect" /\ x.at = "ask"
  BY <1>3 DEF Socket!Call, Socket!IsCall
<1>5. wsCalls' = {x}
  BY <1>1, <1>3 DEF Socket!Disconnect
<1>6. Socket!Begun(x)'
  BY <1>1, <1>2, <1>4 DEF Socket!Begun, Socket!Only
<1> QED
  BY <1>1, <1>4, <1>5, <1>6 DEF Socket!SocketInv

LEMMA SocketDisconnected ==
  ASSUME Socket!SocketAssumption, Socket!SocketInv, NEW x \in wsCalls, Socket!Disconnected(x)
  PROVE  Socket!SocketInv'
<1>1. x.cmd = "disconnect" /\ (~left => Socket!Only)
  BY DEF Socket!SocketInv, Socket!Begun, Socket!Disconnected
<1>2. PICK y : y = [x EXCEPT !.at = "done"]
  OBVIOUS
<1>3. Socket!IsCall(y) /\ y.cmd = "disconnect" /\ y.at = "done" /\ y.mine
  <2>1. x = [cmd |-> x.cmd, no |-> x.no, at |-> x.at, ok |-> x.ok, mine |-> x.mine] /\ x.mine
    BY DEF Socket!SocketInv, Socket!IsCall
  <2>2. y = [cmd |-> x.cmd, no |-> x.no, at |-> "done", ok |-> x.ok, mine |-> x.mine]
    BY ONLY <1>2, <2>1, Zenon
  <2> QED
    BY <1>1, <2>1, <2>2 DEF Socket!IsCall
<1>4. wsCalls' = {y} /\ UNCHANGED <<left, wsEvents, reader>> /\ sender' = None
  BY <1>2 DEF Socket!Disconnected, Socket!Becomes, Socket!SocketInv, Socket!tabVars
<1>5. conn' = [c \in Conn |-> conn'[c]] /\ \A c \in Conn : conn'[c] = "open" => c # sender /\ conn[c] = "open"
  BY DEF Socket!Disconnected, Socket!SocketInv, Socket!SocketAssumption
<1>6. ~left => Socket!NoneOpen'
  BY <1>1, <1>5 DEF Socket!Only, Socket!NoneOpen
<1>7. Socket!Begun(y)'
  BY <1>3, <1>4, <1>6 DEF Socket!Begun
<1> QED
  BY <1>3, <1>4, <1>5, <1>7 DEF Socket!SocketInv

\* The peer closes a connection, or answers the close frame.
LEMMA SocketPeer ==
  ASSUME Socket!SocketInv, NEW c \in Conn, Socket!PeerCloses(c)
  PROVE  Socket!SocketInv'
<1>1. /\ conn' = [d \in Conn |-> conn'[d]]
      /\ \A d \in Conn : conn'[d] = IF d = c THEN "closed" ELSE conn[d]
      /\ UNCHANGED <<status, listening, unlisten, left, wsCalls, reader, sender, wsEvents>>
  BY DEF Socket!PeerCloses, Socket!SocketInv, Socket!tabVars
<1>2. /\ Socket!NoneOpen => Socket!NoneOpen'
      /\ Socket!Only => Socket!Only'
      /\ Socket!NoNews' <=> Socket!NoNews
      /\ Socket!Live' => Socket!Live
      /\ Socket!Lost => Socket!Lost'
  BY <1>1 DEF Socket!NoneOpen, Socket!Only, Socket!NoNews, Socket!Live, Socket!Lost
<1>3. CASE conn[c] = "closing"
  <2>1. Socket!Live => Socket!Live'
    BY <1>1, <1>3 DEF Socket!Live
  <2>2. ASSUME NEW x \in wsCalls PROVE Socket!Begun(x)'
    BY <1>1, <1>2, <2>1 DEF Socket!SocketInv, Socket!Begun
  <2>3. Socket!Idle => Socket!Idle'
    BY <1>1, <1>2, <2>1 DEF Socket!Idle
  <2> QED
    BY <1>1, <2>2, <2>3 DEF Socket!SocketInv
<1>4. CASE conn[c] = "open" /\ Socket!Free
  <2>1. wsCalls = {} /\ Socket!Idle
    BY <1>4 DEF Socket!Free, Socket!Settled, Socket!SocketInv
  <2>2. Socket!Live => Socket!Live' \/ Socket!Lost'
    BY <1>1 DEF Socket!Live, Socket!Lost
  <2>3. Socket!Idle'
    BY <1>1, <1>2, <2>1, <2>2 DEF Socket!Idle
  <2> QED
    BY <1>1, <2>1, <2>3 DEF Socket!SocketInv
<1> QED
  BY <1>3, <1>4 DEF Socket!PeerCloses

\* Its reader task has a message, or ends with the last of its events.
LEMMA SocketReader ==
  ASSUME Socket!SocketInv, NEW c \in Conn, Socket!Receive(c) \/ Socket!ReaderEnds(c)
  PROVE  Socket!SocketInv'
<1> DEFINE Event == [kind : {"received", "disconnected"}, conn : Conn]
<1>1. PICK e \in Event : wsEvents' = Append(wsEvents, e)
                         /\ (Socket!Receive(c) => e.kind = "received")
                         /\ (~Socket!Receive(c) => e.kind = "disconnected")
  <2>1. CASE Socket!Receive(c)
    BY <2>1 DEF Socket!Receive, Socket!Emit
  <2>2. CASE ~Socket!Receive(c)
    BY <2>2 DEF Socket!ReaderEnds, Socket!Emit
  <2> QED
    BY <2>1, <2>2
<1>2. /\ wsEvents' \in Seq(Event)
      /\ \A i \in DOMAIN wsEvents' : wsEvents'[i] = e \/ \E j \in DOMAIN wsEvents : wsEvents'[i] = wsEvents[j]
      /\ \A j \in DOMAIN wsEvents : \E i \in DOMAIN wsEvents' : wsEvents'[i] = wsEvents[j]
      /\ \E i \in DOMAIN wsEvents' : wsEvents'[i] = e
  BY <1>1, SocketAppends DEF Socket!SocketInv
<1>3. UNCHANGED <<status, listening, unlisten, left, wsCalls, conn, sender>>
  BY DEF Socket!Receive, Socket!ReaderEnds, Socket!tabVars, Socket!backVars
<1>4. Socket!NoneOpen => Socket!NoneOpen'
  BY <1>3 DEF Socket!NoneOpen
<1>5. CASE Socket!Receive(c)
  <2>1. reader' = reader /\ (Socket!NoNews' <=> Socket!NoNews)
    <3>1. e.kind # "disconnected"
      BY <1>1, <1>5
    <3>2. Socket!NoNews => Socket!NoNews'
      BY <1>2, <3>1 DEF Socket!NoNews
    <3>3. Socket!NoNews' => Socket!NoNews
      BY <1>2 DEF Socket!NoNews
    <3>4. reader' = reader
      BY <1>5 DEF Socket!Receive, Socket!backVars
    <3> QED
      BY <3>2, <3>3, <3>4
  <2>2. (Socket!Live' <=> Socket!Live) /\ (Socket!Only' <=> Socket!Only)
    BY <1>3, <2>1 DEF Socket!Live, Socket!Only
  <2>3. Socket!Lost => Socket!Lost'
    BY <1>3, <2>1 DEF Socket!Lost
  <2>4. ASSUME NEW x \in wsCalls PROVE Socket!Begun(x)'
    BY <1>3, <1>4, <2>1, <2>2 DEF Socket!SocketInv, Socket!Begun
  <2>5. Socket!Idle => Socket!Idle'
    BY <1>3, <1>4, <2>1, <2>2, <2>3 DEF Socket!Idle
  <2> QED
    BY <1>2, <1>3, <2>1, <2>4, <2>5 DEF Socket!SocketInv
<1>6. CASE Socket!ReaderEnds(c) /\ ~Socket!Receive(c)
  <2>1. c \in reader /\ conn[c] = "closed" /\ reader' = reader \ {c} /\ ~Socket!NoNews'
    BY <1>1, <1>2, <1>6 DEF Socket!ReaderEnds, Socket!NoNews
  <2>2. /\ Socket!Live' <=> Socket!Live
        /\ Socket!Only => Socket!Only' /\ ~Socket!Live
    BY <1>3, <2>1 DEF Socket!Live, Socket!Only
  <2>3. Socket!Lost => Socket!Lost'
    BY <1>3, <2>1 DEF Socket!Lost
  <2>4. ASSUME NEW x \in wsCalls PROVE Socket!Begun(x)'
    BY <1>3, <1>4, <2>1, <2>2 DEF Socket!SocketInv, Socket!Begun
  <2>5. Socket!Idle => Socket!Idle'
    BY <1>3, <1>4, <2>2, <2>3 DEF Socket!Idle
  <2> QED
    BY <1>2, <1>3, <2>1, <2>4, <2>5 DEF Socket!SocketInv
<1> QED
  BY <1>5, <1>6

\* The listener hears an event, or nobody does.
LEMMA SocketHeard ==
  ASSUME Socket!SocketInv, Socket!Deliver
  PROVE  Socket!SocketInv'
<1>1. /\ wsEvents # <<>> /\ wsEvents' = Tail(wsEvents)
      /\ UNCHANGED <<listening, unlisten, left, wsCalls, conn, reader, sender>>
  BY DEF Socket!Deliver, Socket!backVars
<1> DEFINE Event == [kind : {"received", "disconnected"}, conn : Conn]
<1>2. /\ wsEvents' \in Seq(Event)
      /\ Head(wsEvents) = wsEvents[1] /\ 1 \in DOMAIN wsEvents
      /\ \A i \in DOMAIN wsEvents' : \E j \in DOMAIN wsEvents : wsEvents'[i] = wsEvents[j]
      /\ \A j \in DOMAIN wsEvents : j = 1 \/ \E i \in DOMAIN wsEvents' : wsEvents'[i] = wsEvents[j]
  <2>1. wsEvents \in Seq(Event)
    BY DEF Socket!SocketInv
  <2>2. wsEvents # <<>> /\ wsEvents' = Tail(wsEvents)
    BY <1>1
  <2>3. Head(wsEvents) = wsEvents[1] /\ 1 \in DOMAIN wsEvents
    BY ONLY <2>1, <2>2
  <2> HIDE DEF Event
  <2>4. /\ wsEvents' \in Seq(Event)
        /\ \A i \in DOMAIN wsEvents' : i + 1 \in DOMAIN wsEvents /\ wsEvents'[i] = wsEvents[i + 1]
        /\ \A j \in DOMAIN wsEvents : j = 1 \/ (j - 1 \in DOMAIN wsEvents' /\ wsEvents'[j - 1] = wsEvents[j])
    BY ONLY <2>1, <2>2, SocketTail
  <2> QED
    BY ONLY <2>3, <2>4
<1>3. status' = IF listening # {} /\ wsEvents[1].kind = "disconnected" THEN "disconnected" ELSE status
  BY <1>2 DEF Socket!Deliver
<1>4. Socket!NoNews => Socket!NoNews' /\ wsEvents[1].kind # "disconnected"
  BY <1>2 DEF Socket!NoNews
<1>5. wsEvents[1].kind # "disconnected" /\ ~Socket!NoNews => ~Socket!NoNews'
  BY <1>2 DEF Socket!NoNews
<1>6. /\ Socket!NoneOpen => Socket!NoneOpen'
      /\ Socket!Live' <=> Socket!Live
      /\ Socket!Only => Socket!Only'
  BY <1>1 DEF Socket!NoneOpen, Socket!Live, Socket!Only
<1>7. ASSUME NEW x \in wsCalls PROVE Socket!Begun(x)'
  BY <1>1, <1>4, <1>6 DEF Socket!SocketInv, Socket!Begun
<1>8. Socket!Idle => Socket!Idle'
  <2>1. CASE /\ status = "connected" /\ unlisten \in listening /\ (Socket!Live \/ Socket!Lost)
             /\ ~left => Socket!Only /\ (Socket!Live => Socket!NoNews)
    <3>1. CASE wsEvents[1].kind = "disconnected"
      <4>1. ~left => Socket!NoneOpen
        BY <1>4, <2>1, <3>1 DEF Socket!Lost, Socket!Only, Socket!NoneOpen
      <4> QED
        BY <1>1, <1>3, <1>6, <2>1, <3>1, <4>1 DEF Socket!Idle
    <3>2. CASE wsEvents[1].kind # "disconnected"
      <4>1. Socket!Lost => Socket!Lost'
        BY <1>1, <1>5, <3>2 DEF Socket!Lost
      <4> QED
        BY <1>1, <1>3, <1>4, <1>6, <2>1, <3>2, <4>1 DEF Socket!Idle
    <3> QED
      BY <3>1, <3>2
  <2>2. CASE status = "disconnected" /\ (~left => Socket!NoneOpen)
    BY <1>1, <1>3, <1>6, <2>2 DEF Socket!Idle
  <2> QED
    BY <2>1, <2>2 DEF Socket!Idle
<1> QED
  BY <1>1, <1>2, <1>7, <1>8 DEF Socket!SocketInv

\* The tab is left, and another one is about no connection.
LEMMA SocketRemounts ==
  ASSUME Socket!SocketInv, Socket!Remount
  PROVE  Socket!SocketInv'
<1>1. wsCalls = {} /\ wsCalls' = {} /\ UNCHANGED <<conn, reader, sender, wsEvents>>
  BY DEF Socket!Remount, Socket!Free, Socket!Settled, Socket!backVars
<1>2. /\ status' = "disconnected" /\ left' \in BOOLEAN
      /\ ~left' => ~left /\ status = "disconnected"
  BY Zenon DEF Socket!Remount
<1>3. ~left' => Socket!NoneOpen'
  BY <1>1, <1>2 DEF Socket!SocketInv, Socket!Idle, Socket!NoneOpen
<1> QED
  BY <1>1, <1>2, <1>3 DEF Socket!SocketInv, Socket!Idle

\* The tab of the web socket keeps its invariant.
LEMMA SocketSafe ==
  ASSUME Socket!SocketAssumption
  PROVE  Spec => []Socket!SocketInv
<1>1. Init => Socket!SocketInv
  <2> SUFFICES ASSUME Socket!Init PROVE Socket!SocketInv
    BY Zenon DEF Init
  <2>1. /\ status = "disconnected" /\ left = FALSE /\ wsCalls = {} /\ conn = [c \in Conn |-> "none"]
        /\ reader = {} /\ sender = None /\ wsEvents = <<>>
    BY Zenon DEF Socket!Init
  <2>2. Socket!NoneOpen /\ left \in BOOLEAN
    BY <2>1 DEF Socket!NoneOpen
  <2>3. wsEvents \in Seq([kind : {"received", "disconnected"}, conn : Conn])
    BY <2>1
  <2>4. Socket!Idle
    BY <2>1, <2>2 DEF Socket!Idle
  <2> QED
    BY <2>1, <2>2, <2>3, <2>4 DEF Socket!SocketInv
<1>2. Socket!SocketInv /\ [Next]_panelsVars => Socket!SocketInv'
  <2> SUFFICES ASSUME Socket!SocketInv, [Next]_panelsVars
               PROVE  Socket!SocketInv'
    OBVIOUS
  <2>1. CASE UNCHANGED socketV
    BY <2>1 DEF socketV, Socket!SocketInv, Socket!Idle, Socket!Begun, Socket!Live, Socket!Lost,
                Socket!Only, Socket!NoneOpen, Socket!NoNews
  <2>2. Socket!Next \/ UNCHANGED socketV
    BY DEF Next, NextApi, NextSettings, NextTools, panelsVars, apiV
  <2> QED
    BY <2>1, <2>2, SocketConnects, SocketListens, SocketConnected, SocketReturns, SocketDisconnects,
       SocketDisconnected, SocketPeer, SocketReader, SocketHeard, SocketRemounts DEF Socket!Next
<1> QED
  BY <1>1, <1>2, PTL DEF Spec

\* For a user who waits, a web socket that is shown as connected is, and the
\* converse as long as no connected tab was left; and of any user, whose calls
\* overlap between the two locks of sse_connect, there is one event stream at
\* most that was not told to stop (PingZeroWebSocket.tsx:24, sse.rs:22).
THEOREM StreamsAreOK == Spec => []StreamsOK
<1>1. Socket!SocketAssumption /\ Stream!StreamAssumption
  BY PanelsAssumption
<1>2. Socket!SocketInv => Socket!StatusIsTrue
  <2> SUFFICES ASSUME Socket!SocketInv, Socket!Settled
               PROVE  /\ status = "connected" => /\ sender # None /\ conn[sender] = "open" /\ sender \in reader
                                                 /\ unlisten \in listening
                      /\ ~left => /\ (sender # None /\ conn[sender] = "open") => status = "connected"
                                  /\ status = "connected" => reader = {sender}
    BY DEF Socket!StatusIsTrue
  <2>1. Socket!Idle /\ Socket!NoNews /\ \A c \in Conn : c \in reader => conn[c] = "open"
    BY DEF Socket!Settled, Socket!SocketInv, Socket!NoNews
  <2>2. ~Socket!Lost
    BY <2>1 DEF Socket!Lost
  <2>3. CASE status = "connected" /\ unlisten \in listening /\ Socket!Live /\ (~left => Socket!Only)
    BY <1>1, <2>3 DEF Socket!Live, Socket!Only, Socket!SocketAssumption
  <2>4. CASE status = "disconnected" /\ (~left => Socket!NoneOpen)
    BY <2>4 DEF Socket!NoneOpen, Socket!SocketInv
  <2> QED
    BY <2>1, <2>2, <2>3, <2>4 DEF Socket!Idle
<1>3. Stream!StreamInv => Stream!OneStream
  BY DEF Stream!StreamInv
<1>4. Spec => []Socket!SocketInv
  BY <1>1, SocketSafe
<1>5. Spec => []Stream!StreamInv
  BY <1>1, StreamSafe
<1> QED
  BY <1>2, <1>3, <1>4, <1>5, PTL DEF StreamsOK

\* The sandbox section of the settings, for a user who waits and saves that
\* do not fail.
LEMMA SandboxOpens ==
  ASSUME Sandbox!SandboxAssumption, Sandbox!SandboxInv, Sandbox!Open \/ Sandbox!Leave
  PROVE  Sandbox!SandboxInv'
<1>1. ~timer /\ saving = {} /\ DOMAIN pending = {}
  BY DEF Sandbox!Open, Sandbox!Leave, Sandbox!Free, Sandbox!Settled, Sandbox!SandboxInv
<1>2. CASE Sandbox!Open
  <2>1. /\ configs' = Sandbox!Merged([i \in Sandbox!Id |-> Default], stored) /\ selected' = Global
        /\ UNCHANGED <<pending, timer, saving, stored>>
    BY <1>2 DEF Sandbox!Open, Sandbox!Saves
  <2>2. DOMAIN stored \subseteq Sandbox!Id
    BY DEF Sandbox!SandboxInv
  <2>3. \A i \in Sandbox!Id : Sandbox!Latest(i)' = IF i \in DOMAIN stored THEN stored[i] ELSE Default
    BY <1>1, <2>1 DEF Sandbox!Latest, Sandbox!Saved
  <2>4. configs' = [i \in Sandbox!Id |-> IF i \in DOMAIN stored THEN stored[i] ELSE Default]
    BY <2>1, <2>2 DEF Sandbox!Merged
  <2>5. configs' = [i \in Sandbox!Id |-> Sandbox!Latest(i)']
    BY <2>3, <2>4
  <2>6. selected' \in Sandbox!Id
    BY <2>1 DEF Sandbox!Id
  <2> QED
    BY <1>1, <2>1, <2>5, <2>6 DEF Sandbox!SandboxInv
<1>3. CASE Sandbox!Leave
  <2>1. /\ selected' = None /\ UNCHANGED <<saving, stored>> /\ timer' = FALSE
        /\ pending' = Sandbox!NoConfigs
    BY <1>1, <1>3 DEF Sandbox!Leave
  <2>2. DOMAIN pending' = {}
    BY <2>1 DEF Sandbox!NoConfigs
  <2> QED
    BY <1>1, <2>1, <2>2 DEF Sandbox!SandboxInv
<1> QED
  BY <1>2, <1>3

\* What is edited is in the batch to come.
LEMMA SandboxEdits ==
  ASSUME Sandbox!SandboxAssumption, Sandbox!SandboxInv, NEW k, NEW v, Sandbox!Edit(k, v)
  PROVE  Sandbox!SandboxInv'
<1>1. saving = {} /\ selected \in Sandbox!Id
  BY DEF Sandbox!Edit, Sandbox!SandboxInv
<1>2. PICK c : c = Sandbox!Edited(selected, k, v)
  OBVIOUS
<1>3. /\ configs' = [configs EXCEPT ![selected] = c]
      /\ pending' = [j \in DOMAIN pending \cup {selected} |-> IF j = selected THEN c ELSE pending[j]]
      /\ timer' /\ UNCHANGED <<saving, stored, selected>>
  BY <1>2 DEF Sandbox!Edit, Sandbox!ScheduleSave
<1>4. configs = [i \in Sandbox!Id |-> Sandbox!Latest(i)]
  BY DEF Sandbox!Edit, Sandbox!SandboxInv
<1>5. configs' = [i \in Sandbox!Id |-> IF i = selected THEN c ELSE Sandbox!Latest(i)]
  BY <1>1, <1>3, <1>4
<1>6. \A i \in Sandbox!Id : Sandbox!Latest(i)' = IF i = selected THEN c ELSE Sandbox!Latest(i)
  BY <1>1, <1>3 DEF Sandbox!Latest, Sandbox!Saved
<1>7. configs' = [i \in Sandbox!Id |-> Sandbox!Latest(i)']
  BY <1>5, <1>6
<1>8. DOMAIN pending' \subseteq Sandbox!Id
  BY <1>1, <1>3 DEF Sandbox!SandboxInv
<1> QED
  BY <1>1, <1>3, <1>7, <1>8, Zenon DEF Sandbox!SandboxInv

\* A batch is sent, and stored.
LEMMA SandboxSaves ==
  ASSUME Sandbox!SandboxInv, Sandbox!SendSave \/ \E b \in saving, ok \in BOOLEAN : Sandbox!SaveEnds(b, ok)
  PROVE  Sandbox!SandboxInv'
<1>1. CASE Sandbox!SendSave
  <2>1. /\ saving' = {pending} /\ pending' = Sandbox!NoConfigs /\ ~timer'
        /\ UNCHANGED <<configs, selected, stored>> /\ saving = {}
    BY <1>1 DEF Sandbox!SendSave, Sandbox!SandboxInv
  <2>2. DOMAIN pending' = {}
    BY <2>1 DEF Sandbox!NoConfigs
  <2>3. (CHOOSE b \in saving' : TRUE) = pending
    BY <2>1
  <2>4. \A i \in Sandbox!Id : Sandbox!Latest(i)' = Sandbox!Latest(i)
    BY <2>1, <2>2, <2>3 DEF Sandbox!Latest, Sandbox!Saved
  <2>5. selected' # None => configs' = [i \in Sandbox!Id |-> Sandbox!Latest(i)']
    BY <2>1, <2>4 DEF Sandbox!SandboxInv
  <2> QED
    BY <2>1, <2>2, <2>5 DEF Sandbox!SandboxInv
<1>2. ASSUME NEW b \in saving, NEW ok \in BOOLEAN, Sandbox!SaveEnds(b, ok)
      PROVE  Sandbox!SandboxInv'
  <2>1. /\ saving = {b} /\ saving' = {} /\ stored' = Sandbox!Merged(stored, b)
        /\ UNCHANGED <<configs, selected, pending, timer>> /\ ~timer /\ DOMAIN pending = {}
    BY <1>2 DEF Sandbox!SaveEnds, Sandbox!SandboxInv
  <2>2. (CHOOSE d \in saving : TRUE) = b
    BY <2>1
  <2>3. /\ DOMAIN stored' = DOMAIN stored \cup DOMAIN b
        /\ \A i \in DOMAIN stored' : stored'[i] = IF i \in DOMAIN b THEN b[i] ELSE stored[i]
    BY <2>1 DEF Sandbox!Merged
  <2>4. \A i \in Sandbox!Id : Sandbox!Latest(i)' = Sandbox!Latest(i)
    BY <2>1, <2>2, <2>3 DEF Sandbox!Latest, Sandbox!Saved
  <2>5. selected' # None => configs' = [i \in Sandbox!Id |-> Sandbox!Latest(i)']
    BY <2>1, <2>4 DEF Sandbox!SandboxInv
  <2>6. DOMAIN stored' \subseteq Sandbox!Id
    BY <2>1, <2>3 DEF Sandbox!SandboxInv
  <2> QED
    BY <2>1, <2>5, <2>6 DEF Sandbox!SandboxInv
<1> QED
  BY <1>1, <1>2

\* The sandbox section keeps its invariant.
LEMMA SandboxSafe ==
  ASSUME Sandbox!SandboxAssumption
  PROVE  Spec => []Sandbox!SandboxInv
<1>1. Init => Sandbox!SandboxInv
  <2> SUFFICES ASSUME Sandbox!Init PROVE Sandbox!SandboxInv
    BY Zenon DEF Init
  <2> QED
    BY DEF Sandbox!Init, Sandbox!SandboxInv, Sandbox!NoConfigs
<1>2. Sandbox!SandboxInv /\ [Next]_panelsVars => Sandbox!SandboxInv'
  <2> SUFFICES ASSUME Sandbox!SandboxInv, [Next]_panelsVars
               PROVE  Sandbox!SandboxInv'
    OBVIOUS
  <2>1. CASE UNCHANGED <<configs, selected, pending, timer, saving, stored>>
    BY <2>1 DEF Sandbox!SandboxInv, Sandbox!Latest, Sandbox!Saved
  <2>2. Sandbox!Next \/ UNCHANGED sandboxV
    BY DEF Next, NextApi, NextSettings, NextTools, panelsVars, settingsV
  <2>3. ASSUME NEW i \in Sandbox!Id, Sandbox!SelectProject(i) PROVE Sandbox!SandboxInv'
    <3>1. /\ selected # None /\ selected' = i
          /\ UNCHANGED <<configs, pending, timer, saving, stored>>
      BY <2>3 DEF Sandbox!SelectProject, Sandbox!Saves
    <3>2. \A j \in Sandbox!Id : Sandbox!Latest(j)' = Sandbox!Latest(j)
      BY <3>1 DEF Sandbox!Latest, Sandbox!Saved
    <3> QED
      BY <3>1, <3>2 DEF Sandbox!SandboxInv
  <2>4. ASSUME NEW t, Sandbox!SelectTab(t) PROVE Sandbox!SandboxInv'
    BY <2>1, <2>4 DEF Sandbox!SelectTab, Sandbox!Saves
  <2>5. ASSUME NEW p, Sandbox!SetOwn(p) PROVE Sandbox!SandboxInv'
    BY <2>1, <2>5 DEF Sandbox!SetOwn, Sandbox!Saves
  <2>6. CASE UNCHANGED sandboxV
    BY <2>1, <2>6 DEF sandboxV
  <2> QED
    BY <2>2, <2>3, <2>4, <2>5, <2>6, SandboxOpens, SandboxEdits, SandboxSaves DEF Sandbox!Next
<1> QED
  BY <1>1, <1>2, PTL DEF Spec

\* The language section of the settings, for a user who waits: a call begins
\* when none is under way, and changes one language.
LEMMA LanguageCall ==
  ASSUME NEW kind, NEW id, Languages!Begin(kind, id), calls = {}
  PROVE  \E c : /\ calls' = {c} /\ Languages!IsCall(c)
                /\ c.kind = kind /\ c.id = id /\ c.step = "call"
<1>1. PICK n : n = CHOOSE k \in 0 .. MaxCalls : \A c \in calls : c.seq # k
  OBVIOUS
<1>2. PICK c : c = [kind |-> kind, id |-> id, step |-> "call", got |-> Languages!NoRuntimes, seq |-> n]
  BY Zenon
<1>3. calls' = {c}
  BY <1>1, <1>2 DEF Languages!Begin
<1> QED
  BY <1>2, <1>3 DEF Languages!IsCall

LEMMA LanguageChosen ==
  ASSUME Languages!LanguageAssumption, Languages!LanguagesInv, NEW n, NEW d,
         Languages!Select(n) \/ Languages!New \/ Languages!Cancel \/ Languages!EditName(n) \/ Languages!EditDetail(d)
  PROVE  Languages!LanguagesInv'
<1>1. /\ calls = {} /\ list = languages /\ Languages!SelectedIn(languages)
      /\ UNCHANGED <<languages, list, calls>>
  BY DEF Languages!Select, Languages!New, Languages!Cancel, Languages!EditName, Languages!EditDetail,
         Languages!Free, Languages!LanguagesInv
<1>2. form = [id |-> form.id, name |-> form.name, detail |-> form.detail]
  BY DEF Languages!LanguagesInv, Languages!IsForm
<1>3. /\ Languages!IsForm(form') /\ Languages!FormIsOfSelected' /\ Languages!SelectedIn(languages)'
  <2>1. CASE Languages!Select(n)
    BY <1>1, <2>1 DEF Languages!Select, Languages!FormOf, Languages!IsForm, Languages!FormIsOfSelected,
                      Languages!SelectedIn
  <2>2. CASE Languages!New
    BY <1>1, <2>2 DEF Languages!New, Languages!EmptyForm, Languages!IsForm, Languages!FormIsOfSelected,
                      Languages!SelectedIn
  <2>3. CASE Languages!Cancel
    <3>1. /\ language' = language
          /\ form' = IF language \in DOMAIN languages THEN Languages!FormOf(language, languages[language]) ELSE form
      BY <1>1, <2>3 DEF Languages!Cancel
    <3>2. CASE language \in DOMAIN languages
      BY <1>1, <3>1, <3>2 DEF Languages!FormOf, Languages!IsForm, Languages!FormIsOfSelected, Languages!SelectedIn
    <3>3. CASE language \notin DOMAIN languages
      BY <1>1, <1>2, <3>1, <3>3 DEF Languages!IsForm, Languages!FormIsOfSelected, Languages!SelectedIn
    <3> QED
      BY <3>2, <3>3
  <2>4. ASSUME NEW f, form' = f, f = [form EXCEPT !.name = n] \/ f = [form EXCEPT !.detail = d],
               UNCHANGED <<language, adding>>
        PROVE  /\ Languages!IsForm(form') /\ Languages!FormIsOfSelected' /\ Languages!SelectedIn(languages)'
    <3>1. f = [id |-> form.id, name |-> n, detail |-> form.detail]
          \/ f = [id |-> form.id, name |-> form.name, detail |-> d]
      BY ONLY <1>2, <2>4
    <3> QED
      BY <1>1, <2>4, <3>1 DEF Languages!IsForm, Languages!FormIsOfSelected, Languages!SelectedIn, Languages!LanguagesInv
  <2> QED
    BY <2>1, <2>2, <2>3, <2>4 DEF Languages!EditName, Languages!EditDetail
<1> QED
  BY <1>1, <1>3 DEF Languages!LanguagesInv

LEMMA LanguageChanges ==
  ASSUME Languages!LanguageAssumption, Languages!LanguagesInv, NEW i,
         Languages!Save \/ Languages!Delete(i)
  PROVE  Languages!LanguagesInv'
<1>1. /\ calls = {} /\ list = languages /\ Languages!SelectedIn(languages)
      /\ UNCHANGED <<list, language, adding, form>>
  BY DEF Languages!Save, Languages!Delete, Languages!Free, Languages!LanguagesInv
<1>2. Languages!IsForm(form') /\ Languages!FormIsOfSelected'
  BY <1>1 DEF Languages!LanguagesInv, Languages!FormIsOfSelected
<1>3. CASE Languages!Save
  <2>1. PICK c : /\ calls' = {c} /\ Languages!IsCall(c)
                 /\ c.kind = "save" /\ c.id = Languages!IdOf(form) /\ c.step = "call"
    BY <1>1, <1>3, LanguageCall DEF Languages!Save
  <2>2. Languages!IdOf(form) \in DOMAIN languages'
    BY <1>3 DEF Languages!Save
  <2>3. Languages!Progress(c)'
    BY <1>1, <2>1, <2>2 DEF Languages!Progress, Languages!IdOf
  <2> QED
    BY <1>2, <2>1, <2>3 DEF Languages!LanguagesInv
<1>4. CASE Languages!Delete(i)
  <2>1. PICK c : calls' = {c} /\ Languages!IsCall(c) /\ c.kind = "delete" /\ c.id = i /\ c.step = "call"
    BY <1>1, <1>4, LanguageCall DEF Languages!Delete
  <2>2. DOMAIN languages' = DOMAIN languages \ {i}
    BY <1>4 DEF Languages!Delete
  <2>3. Languages!Progress(c)'
    BY <1>1, <2>1, <2>2 DEF Languages!Progress, Languages!SelectedIn
  <2> QED
    BY <1>2, <2>1, <2>3 DEF Languages!LanguagesInv
<1> QED
  BY <1>3, <1>4

\* The call goes on to load the list.
LEMMA LanguageLoads ==
  ASSUME Languages!LanguagesInv, NEW c \in calls,
         Languages!Answer(c) \/ Languages!ReadList(c) \/ Languages!SetList(c)
  PROVE  Languages!LanguagesInv'
<1>1. calls = {c} /\ Languages!Progress(c) /\ form' = form /\ Languages!IsForm(form)
  BY DEF Languages!Answer, Languages!ReadList, Languages!SetList, Languages!LanguagesInv
<1>2. c = [kind |-> c.kind, id |-> c.id, step |-> c.step, got |-> c.got, seq |-> c.seq]
  BY DEF Languages!LanguagesInv, Languages!IsCall
<1>3. CASE Languages!Answer(c)
  <2>1. PICK d : d = [c EXCEPT !.step = "list"]
    BY Zenon
  <2>2. d = [kind |-> c.kind, id |-> c.id, step |-> "list", got |-> c.got, seq |-> c.seq]
    BY ONLY <1>2, <2>1
  <2>3. Languages!IsCall(d) /\ d.step = "list"
    BY <2>2 DEF Languages!IsCall
  <2>4. calls' = {d} /\ UNCHANGED <<languages, list>> /\ c.step = "call"
    BY <1>1, <1>3, <2>1 DEF Languages!Answer, Languages!Becomes
  <2>5. Languages!FormIsOfSelected' /\ Languages!SelectedIn(languages)'
    <3>1. CASE c.kind = "save"
      <4>1. language' = c.id /\ c.id \in DOMAIN languages /\ form.id \in {c.id, None}
        BY <1>1, <1>3, <2>4, <3>1 DEF Languages!Answer, Languages!Progress
      <4> QED
        BY <1>1, <2>4, <4>1 DEF Languages!FormIsOfSelected, Languages!SelectedIn
    <3>2. CASE c.kind # "save" /\ language = c.id
      <4>1. language' = None
        BY <1>3, <3>2 DEF Languages!Answer
      <4> QED
        BY <4>1 DEF Languages!FormIsOfSelected, Languages!SelectedIn
    <3>3. CASE c.kind # "save" /\ language # c.id
      <4>1. UNCHANGED <<adding, language>> /\ Languages!SelectedIn(languages)
        BY <1>1, <1>3, <2>4, <3>3 DEF Languages!Answer, Languages!Progress
      <4> QED
        BY <1>1, <2>4, <4>1 DEF Languages!FormIsOfSelected, Languages!SelectedIn, Languages!LanguagesInv
    <3> QED
      BY <3>1, <3>2, <3>3
  <2>6. Languages!Progress(d)'
    BY <2>3, <2>5 DEF Languages!Progress
  <2> QED
    BY <1>1, <2>3, <2>4, <2>5, <2>6 DEF Languages!LanguagesInv
<1>4. CASE Languages!ReadList(c)
  <2>1. PICK d : d = [c EXCEPT !.step = "listed", !.got = Languages!WithKnown(languages)]
    OBVIOUS
  <2>2. d = [kind |-> c.kind, id |-> c.id, step |-> "listed", got |-> Languages!WithKnown(languages), seq |-> c.seq]
    BY ONLY <1>2, <2>1, Zenon
  <2>3. Languages!IsCall(d) /\ d.step = "listed" /\ d.got = Languages!WithKnown(languages)
    BY <2>2 DEF Languages!IsCall
  <2>4. /\ calls' = {d} /\ languages' = Languages!WithKnown(languages)
        /\ UNCHANGED <<list, language, adding>> /\ c.step = "list"
    BY <1>1, <1>4, <2>1 DEF Languages!ReadList, Languages!Becomes
  <2>5. DOMAIN languages \subseteq DOMAIN languages'
    BY <2>4 DEF Languages!WithKnown
  <2>6. Languages!FormIsOfSelected' /\ Languages!SelectedIn(languages)'
    BY <1>1, <2>4, <2>5 DEF Languages!Progress, Languages!FormIsOfSelected, Languages!SelectedIn, Languages!LanguagesInv
  <2>7. Languages!Progress(d)'
    BY <2>3, <2>4, <2>6 DEF Languages!Progress
  <2> QED
    BY <1>1, <2>3, <2>4, <2>6, <2>7 DEF Languages!LanguagesInv
<1>5. CASE Languages!SetList(c)
  <2>1. /\ calls' = {} /\ list' = c.got /\ UNCHANGED <<languages, language, adding>> /\ c.step = "listed"
    BY <1>1, <1>5 DEF Languages!SetList
  <2>2. c.got = languages /\ Languages!SelectedIn(languages)
    BY <1>1, <2>1 DEF Languages!Progress
  <2>3. Languages!FormIsOfSelected' /\ Languages!SelectedIn(languages)'
    BY <1>1, <2>1, <2>2 DEF Languages!FormIsOfSelected, Languages!SelectedIn, Languages!LanguagesInv
  <2> QED
    BY <1>1, <2>1, <2>2, <2>3 DEF Languages!LanguagesInv
<1> QED
  BY <1>3, <1>4, <1>5

\* The language section keeps its invariant.
LEMMA LanguagesSafe ==
  ASSUME Languages!LanguageAssumption
  PROVE  Spec => []Languages!LanguagesInv
<1>1. Init => Languages!LanguagesInv
  <2> SUFFICES ASSUME Languages!Init PROVE Languages!LanguagesInv
    BY Zenon DEF Init
  <2>1. PICK c : c = [kind |-> "load", id |-> None, step |-> "list", got |-> Languages!NoRuntimes, seq |-> 0]
    BY Zenon
  <2>2. calls = {c} /\ language = None
    BY <2>1 DEF Languages!Init
  <2>3. Languages!IsCall(c) /\ Languages!Progress(c)
    BY <2>1, <2>2 DEF Languages!IsCall, Languages!Progress, Languages!SelectedIn
  <2>4. Languages!IsForm(form) /\ Languages!FormIsOfSelected
    BY <2>2 DEF Languages!Init, Languages!IsForm, Languages!EmptyForm, Languages!FormIsOfSelected
  <2> QED
    BY <2>2, <2>3, <2>4 DEF Languages!LanguagesInv
<1>2. Languages!LanguagesInv /\ [Next]_panelsVars => Languages!LanguagesInv'
  <2> SUFFICES ASSUME Languages!LanguagesInv, [Next]_panelsVars
               PROVE  Languages!LanguagesInv'
    OBVIOUS
  <2>1. CASE UNCHANGED languagesV
    BY <2>1 DEF languagesV, Languages!LanguagesInv, Languages!Progress, Languages!FormIsOfSelected,
                Languages!SelectedIn
  <2>2. Languages!Next \/ UNCHANGED languagesV
    BY DEF Next, NextApi, NextSettings, NextTools, panelsVars, settingsV
  <2>3. ASSUME Languages!New \/ Languages!Cancel \/ Languages!Save PROVE Languages!LanguagesInv'
    BY <2>3, LanguageChosen, LanguageChanges
  <2>4. ASSUME NEW n, Languages!Select(n) \/ Languages!EditName(n) \/ Languages!Delete(n)
        PROVE  Languages!LanguagesInv'
    BY <2>4, LanguageChosen, LanguageChanges
  <2>5. ASSUME NEW d, Languages!EditDetail(d) PROVE Languages!LanguagesInv'
    BY <2>5, LanguageChosen
  <2> QED
    BY <2>1, <2>2, <2>3, <2>4, <2>5, LanguageLoads DEF Languages!Next
<1> QED
  BY <1>1, <1>2, PTL DEF Spec

\* For a user who waits, what the sandbox section shows of a project is saved, as
\* its own or as the global configuration, which it inherits when the section is
\* opened; the languages listed are those stored and known, and the form is of
\* one of them or a new one (AdminPanel.tsx:1367, :1407, :1446, :2493-2548).
THEOREM SectionsStayTrue == Spec => []SectionsOK
<1>1. Sandbox!SandboxAssumption /\ Languages!LanguageAssumption
  BY PanelsAssumption
<1>2. Sandbox!SandboxInv => Sandbox!SavedIsShown
  <2> SUFFICES ASSUME Sandbox!SandboxInv, Sandbox!Settled, selected # None, NEW i \in Sandbox!Id
               PROVE  Sandbox!Shown(i) = Sandbox!Saved(IF Sandbox!Inheriting(i) THEN Global ELSE i)
    BY DEF Sandbox!SavedIsShown
  <2>1. saving = {} /\ DOMAIN pending = {} /\ configs = [j \in Sandbox!Id |-> Sandbox!Latest(j)]
    BY DEF Sandbox!Settled, Sandbox!SandboxInv
  <2>2. \A j \in Sandbox!Id : configs[j] = Sandbox!Saved(j)
    BY <2>1 DEF Sandbox!Latest
  <2>3. Global \in Sandbox!Id
    BY DEF Sandbox!Id
  <2> QED
    BY <2>2, <2>3 DEF Sandbox!Shown
<1>3. Languages!LanguagesInv => Languages!LanguagesOK
  BY DEF Languages!LanguagesInv, Languages!LanguagesOK, Languages!FormIsOfSelected
<1>4. Spec => []Sandbox!SandboxInv
  BY <1>1, SandboxSafe
<1>5. Spec => []Languages!LanguagesInv
  BY <1>1, LanguagesSafe
<1> QED
  BY <1>2, <1>3, <1>4, <1>5, PTL DEF SectionsOK

===============================================================================
