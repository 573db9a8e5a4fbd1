--------------------------- MODULE WorkbenchProofs ---------------------------
(***************************************************************************)
(* What Workbench promises holds for every value of its constants.         *)
(*                                                                         *)
(* A behaviour of the workbench is one of each of its parts: the parts     *)
(* that have a module of proofs bring their theorems with them.  Those of  *)
(* the panes, the explorer, source control, the suggestions, the search,   *)
(* the tunnels and the terminals are proved here, each from the inductive  *)
(* invariant its module states.                                            *)
(***************************************************************************)
EXTENDS Workbench, TLAPS

(***************************************************************************)
(* The parts                                                               *)
(***************************************************************************)
\* A behaviour of the workbench is one of the list of projects.
LEMMA MirrorSteps == Spec => Mirror!Spec
<1>1. Init => Mirror!Init
  BY DEF Init
<1>2. [Next]_vars => [Mirror!Next]_(Mirror!mirrorVars)
  BY DEF Next, NextFiles, NextShells, NextEditors, vars, filesV, mirrorV, Mirror!mirrorVars
<1> QED
  BY <1>1, <1>2, PTL DEF Spec, Mirror!Spec

\* It is one of the agent's project.
LEMMA AgentSteps == Spec => Agent!Spec
<1>1. Init => Agent!Init
  BY DEF Init
<1>2. [Next]_vars => [Agent!Next]_(Agent!switchVars)
  BY DEF Next, NextFiles, NextShells, NextEditors, vars, filesV, agentV, Agent!switchVars
<1> QED
  BY <1>1, <1>2, PTL DEF Spec, Agent!Spec

\* It is one of the files and editors.
LEMMA BuffersSteps == Spec => Buffers!Spec
<1>1. Init => Buffers!Init
  BY DEF Init
<1>2. [Next]_vars => [Buffers!Next]_(Buffers!bufVars)
  BY DEF Next, NextFiles, NextShells, NextEditors, vars, filesV, buffersV, Buffers!bufVars
<1> QED
  BY <1>1, <1>2, PTL DEF Spec, Buffers!Spec

(***************************************************************************)
(* The suggestions of an editor                                            *)
(***************************************************************************)
\* No call is under way at first, and nothing is shown.
LEMMA CompletionInit == Completion!CompletionAssumption /\ Completion!Init => Completion!CompletionInv
BY DEF Completion!CompletionAssumption, Completion!Init, Completion!CompletionInv,
       Completion!CallsOK, Completion!TokensOK, Completion!SentOK, Completion!ShownIsCurrent,
       Completion!Editor

\* Mounting an editor and its switch.
LEMMA CompletionSettings ==
  ASSUME Completion!CompletionAssumption, Completion!CompletionInv,
         \/ Completion!Mount \/ Completion!CooldownEnds
         \/ \E e \in Completion!Editor : Completion!Toggle(e)
  PROVE  Completion!CompletionInv'
<1>1. Completion!CallsOK' /\ Completion!SentOK'
  BY DEF Completion!CompletionAssumption, Completion!CompletionInv, Completion!CallsOK,
         Completion!SentOK, Completion!IsCall, Completion!Editor, Completion!Call,
         Completion!Mount, Completion!CooldownEnds, Completion!Toggle, Completion!settings
<1>2. Completion!TokensOK' /\ Completion!ShownIsCurrent'
  BY DEF Completion!CompletionInv, Completion!TokensOK, Completion!ShownIsCurrent, Completion!Cancelled,
         Completion!Mount, Completion!CooldownEnds, Completion!Toggle, Completion!settings
<1> QED
  BY <1>1, <1>2 DEF Completion!CompletionInv

\* What is shown in an editor that is left goes, and its request with it.
LEMMA CompletionUnmount ==
  ASSUME Completion!CompletionInv, NEW e \in Completion!Editor, Completion!Unmount(e)
  PROVE  Completion!CompletionInv'
<1>1. Completion!CallsOK' /\ Completion!SentOK'
  BY DEF Completion!CompletionInv, Completion!CallsOK, Completion!IsCall, Completion!SentOK,
         Completion!Unmount
<1>2. \A d \in Completion!Editor : token'[d] = IF d = e THEN 0 ELSE token[d]
  BY DEF Completion!CompletionInv, Completion!TokensOK, Completion!Unmount
<1>3. Completion!TokensOK'
  <2>1. token' = [d \in Completion!Editor |-> token'[d]]
    BY DEF Completion!CompletionInv, Completion!TokensOK, Completion!Unmount
  <2> QED
    BY <1>2, <2>1 DEF Completion!CompletionInv, Completion!TokensOK, Completion!Unmount
<1>4. Completion!ShownIsCurrent'
  <2> SUFFICES ASSUME NEW c \in items' PROVE c.ed \in mounted' /\ token'[c.ed] = c.req
    BY DEF Completion!ShownIsCurrent, Completion!Cancelled
  <2>1. c \in items /\ c.ed # e
    BY DEF Completion!Unmount
  <2>2. token'[c.ed] = token[c.ed]
    BY <2>1 DEF Completion!CompletionInv, Completion!TokensOK, Completion!Unmount
  <2> QED
    BY <2>1, <2>2 DEF Completion!CompletionInv, Completion!ShownIsCurrent, Completion!Cancelled, Completion!Unmount
<1> QED
  BY <1>1, <1>3, <1>4 DEF Completion!CompletionInv

\* A request cancels the one before it in the same editor, and clears it.
LEMMA CompletionRequest ==
  ASSUME Completion!CompletionAssumption, Completion!CompletionInv,
         NEW e \in Completion!Editor, NEW b \in BOOLEAN, Completion!Request(e, b)
  PROVE  Completion!CompletionInv'
<1>1. asked \in Nat /\ asked' = asked + 1 /\ e \in mounted
  BY DEF Completion!CompletionInv, Completion!CallsOK, Completion!Request
<1>2. token' = [token EXCEPT ![e] = asked'] /\ items' = {c \in items : c.ed # e}
      /\ UNCHANGED <<mounted, providers, debounce, controller>>
  BY DEF Completion!Request, Completion!settings
<1>3. Completion!CallsOK'
  <2>1. \A c \in requests' : c \in requests \/ \E p \in 1..providers : c = Completion!Call(e, asked', p, b, "asked")
    BY DEF Completion!Request, Completion!Provider
  <2>2. providers \in 0..MaxEditors /\ MaxEditors \in Nat
    BY DEF Completion!CompletionAssumption, Completion!CompletionInv, Completion!CallsOK
  <2>3. ASSUME NEW c, Completion!IsCall(c) PROVE Completion!IsCall(c)'
    BY <1>1, <2>3 DEF Completion!IsCall
  <2>4. ASSUME NEW c, NEW p \in 1..providers, c = Completion!Call(e, asked', p, b, "asked")
        PROVE  Completion!IsCall(c)'
    BY <1>1, <2>2, <2>4 DEF Completion!IsCall, Completion!Call, Completion!Editor
  <2>5. \A c \in requests' : Completion!IsCall(c)'
    BY <2>1, <2>3, <2>4 DEF Completion!CompletionInv, Completion!CallsOK
  <2> QED
    BY <1>1, <1>2, <2>3, <2>5 DEF Completion!CompletionInv, Completion!CallsOK
<1>4. Completion!TokensOK'
  <2>1. token' = [d \in Completion!Editor |-> token'[d]]
    BY <1>2 DEF Completion!CompletionInv, Completion!TokensOK
  <2>2. \A d \in Completion!Editor : d # e => token'[d] = token[d]
    BY <1>2 DEF Completion!CompletionInv, Completion!TokensOK
  <2> QED
    BY <1>1, <1>2, <2>1, <2>2 DEF Completion!CompletionInv, Completion!TokensOK
<1>5. Completion!SentOK'
  BY <1>2 DEF Completion!CompletionInv, Completion!SentOK, Completion!Request
<1>6. Completion!ShownIsCurrent'
  <2> SUFFICES ASSUME NEW c \in items' PROVE c.ed \in mounted' /\ token'[c.ed] = c.req
    BY DEF Completion!ShownIsCurrent, Completion!Cancelled
  <2>1. c \in items /\ c.ed # e
    BY <1>2
  <2>2. token'[c.ed] = token[c.ed]
    BY <1>2, <2>1 DEF Completion!CompletionInv, Completion!TokensOK
  <2> QED
    BY <1>2, <2>1, <2>2 DEF Completion!CompletionInv, Completion!ShownIsCurrent, Completion!Cancelled
<1> QED
  BY <1>3, <1>4, <1>5, <1>6 DEF Completion!CompletionInv

\* A call that is sent aborts the one that the controller is of.
LEMMA CompletionSent ==
  ASSUME NEW c, NEW others, Completion!IsCall(c), \A d \in others : Completion!IsCall(d),
         controller # None => controller \in others /\ controller.stage \in {"code", "chat"},
         Completion!Sent(c, others)
  PROVE  (\A d \in requests' : Completion!IsCall(d)) /\ Completion!SentOK'
<1>1. CASE requests' = others /\ controller' = controller
  BY <1>1 DEF Completion!SentOK
<1>2. CASE ~(requests' = others /\ controller' = controller)
  <2> DEFINE sent == [c EXCEPT !.stage = "code"]
  <2>1. sent = Completion!Call(c.ed, c.req, c.prov, c.manual, "code")
    BY DEF Completion!IsCall, Completion!Call
  <2>2. Completion!IsCall(sent) /\ sent.stage = "code"
    BY <2>1 DEF Completion!IsCall, Completion!Call
  <2>3. /\ \A d \in requests' : d \in others \/ d = sent
        /\ controller' # None => controller' = sent /\ sent \in requests'
    BY <1>2 DEF Completion!Sent, Completion!Cleared
  <2> HIDE DEF sent
  <2> QED
    BY <2>2, <2>3 DEF Completion!SentOK
<1> QED
  BY <1>1, <1>2

\* The server has no completions, and is asked for a chat.
LEMMA CompletionFallBack ==
  ASSUME Completion!CompletionInv, NEW c \in requests, Completion!FallBack(c)
  PROVE  Completion!CompletionInv'
<1> DEFINE chat == [c EXCEPT !.stage = "chat"]
<1>1. Completion!IsCall(chat) /\ chat.stage = "chat"
  BY DEF Completion!CompletionInv, Completion!CallsOK, Completion!IsCall, Completion!Call
<1>2. /\ requests' = (requests \ {c}) \cup {chat}
      /\ controller' = IF controller = c THEN chat ELSE controller
      /\ UNCHANGED <<mounted, providers, asked, token, debounce, items>>
  BY DEF Completion!FallBack, Completion!settings
<1> HIDE DEF chat
<1>3. Completion!CallsOK'
  BY <1>1, <1>2 DEF Completion!CompletionInv, Completion!CallsOK, Completion!IsCall
<1>4. Completion!SentOK'
  BY <1>1, <1>2 DEF Completion!CompletionInv, Completion!SentOK
<1>5. Completion!TokensOK' /\ Completion!ShownIsCurrent'
  BY <1>2 DEF Completion!CompletionInv, Completion!TokensOK, Completion!ShownIsCurrent, Completion!Cancelled
<1> QED
  BY <1>3, <1>4, <1>5 DEF Completion!CompletionInv

\* An answer is shown only for a request that is not cancelled.
LEMMA CompletionAnswer ==
  ASSUME Completion!CompletionInv, NEW c \in requests, NEW b \in BOOLEAN, Completion!Answer(c, b)
  PROVE  Completion!CompletionInv'
<1>1. UNCHANGED <<mounted, providers, asked, token, debounce>> /\ requests' = requests \ {c} /\ controller' = None
  BY DEF Completion!Answer, Completion!settings
<1>2. Completion!CallsOK' /\ Completion!SentOK' /\ Completion!TokensOK'
  BY <1>1 DEF Completion!CompletionInv, Completion!CallsOK, Completion!IsCall, Completion!SentOK,
              Completion!TokensOK
<1>3. token[c.ed] = c.req => c.ed \in mounted
  BY DEF Completion!CompletionInv, Completion!CallsOK, Completion!IsCall, Completion!TokensOK
<1>4. Completion!ShownIsCurrent'
  BY <1>1, <1>3 DEF Completion!CompletionInv, Completion!ShownIsCurrent, Completion!Cancelled,
                    Completion!Answer, Completion!Offered
<1> QED
  BY <1>2, <1>4 DEF Completion!CompletionInv

\* A provider drops a call, holds it for a moment, or sends it.
LEMMA CompletionProvide ==
  ASSUME Completion!CompletionInv, NEW c \in requests, Completion!Provide(c)
  PROVE  Completion!CompletionInv'
<1> DEFINE others == requests \ {c}
           waits == [c EXCEPT !.stage = "debounce"]
<1>1. UNCHANGED <<mounted, providers, asked, token, items>> /\ c.stage = "asked"
  BY DEF Completion!Provide, Completion!settings
<1>2. Completion!IsCall(c) /\ \A d \in others : Completion!IsCall(d)
  BY DEF Completion!CompletionInv, Completion!CallsOK
<1>3. controller # None => controller \in others /\ controller.stage \in {"code", "chat"}
  BY <1>1 DEF Completion!CompletionInv, Completion!SentOK
<1>4. Completion!IsCall(waits) /\ waits.stage = "debounce"
  BY <1>2 DEF Completion!IsCall, Completion!Call
<1>5. Completion!TokensOK' /\ Completion!ShownIsCurrent'
  BY <1>1 DEF Completion!CompletionInv, Completion!TokensOK, Completion!ShownIsCurrent, Completion!Cancelled
<1>6. \A d : Completion!IsCall(d) => Completion!IsCall(d)'
  BY <1>1 DEF Completion!IsCall
<1>7. CASE requests' = others /\ UNCHANGED <<debounce, controller>>
  BY <1>1, <1>2, <1>3, <1>5, <1>6, <1>7 DEF Completion!CompletionInv, Completion!CallsOK, Completion!SentOK
<1>8. CASE /\ debounce' = [debounce EXCEPT ![c.prov] = waits]
           /\ requests' = (others \ {debounce[c.prov]}) \cup {waits}
           /\ UNCHANGED controller
  <2>1. \A p \in Completion!Editor : debounce[p] # None => debounce[p].stage = "debounce"
    BY DEF Completion!CompletionInv, Completion!CallsOK
  <2>2. c.prov \in Completion!Editor
    BY <1>2 DEF Completion!IsCall
  <2> HIDE DEF waits, others
  <2>3. Completion!CallsOK'
    BY <1>1, <1>2, <1>4, <1>6, <1>8 DEF Completion!CompletionInv, Completion!CallsOK
  <2>4. Completion!SentOK'
    BY <1>3, <1>8, <2>1, <2>2 DEF Completion!SentOK
  <2> QED
    BY <1>5, <2>3, <2>4 DEF Completion!CompletionInv
<1>9. CASE Completion!Sent(c, others) /\ UNCHANGED debounce
  <2> HIDE DEF others
  <2>1. (\A d \in requests' : Completion!IsCall(d)) /\ Completion!SentOK'
    BY <1>2, <1>3, <1>9, CompletionSent
  <2> QED
    BY <1>1, <1>5, <1>6, <1>9, <2>1 DEF Completion!CompletionInv, Completion!CallsOK
<1> QED
  BY <1>7, <1>8, <1>9 DEF Completion!Provide

\* The timer of a provider drops its call or sends it.
LEMMA CompletionDebounceEnds ==
  ASSUME Completion!CompletionInv, NEW p \in Completion!Editor, Completion!DebounceEnds(p)
  PROVE  Completion!CompletionInv'
<1> DEFINE c == debounce[p]
           others == requests \ {c}
<1>1. UNCHANGED <<mounted, providers, asked, token, items>> /\ debounce' = [debounce EXCEPT ![p] = None]
  BY DEF Completion!DebounceEnds, Completion!settings
<1>2. Completion!IsCall(c) /\ c.stage = "debounce" /\ \A d \in others : Completion!IsCall(d)
  BY DEF Completion!CompletionInv, Completion!CallsOK, Completion!DebounceEnds
<1>3. controller # None => controller \in others /\ controller.stage \in {"code", "chat"}
  BY <1>2 DEF Completion!CompletionInv, Completion!SentOK
<1>4. Completion!TokensOK' /\ Completion!ShownIsCurrent'
  BY <1>1 DEF Completion!CompletionInv, Completion!TokensOK, Completion!ShownIsCurrent, Completion!Cancelled
<1>5. \A d : Completion!IsCall(d) => Completion!IsCall(d)'
  BY <1>1 DEF Completion!IsCall
<1>6. (requests' = others /\ UNCHANGED <<controller, cooling>>) \/ Completion!Sent(c, others)
  BY DEF Completion!DebounceEnds
<1> HIDE DEF c, others
<1>7. (\A d \in requests' : Completion!IsCall(d)) /\ Completion!SentOK'
  <2>1. CASE requests' = others /\ UNCHANGED <<controller, cooling>>
    BY <1>2, <1>3, <2>1 DEF Completion!SentOK
  <2>2. CASE Completion!Sent(c, others)
    BY <1>2, <1>3, <2>2, CompletionSent
  <2> QED
    BY <1>6, <2>1, <2>2
<1> QED
  BY <1>1, <1>4, <1>5, <1>7 DEF Completion!CompletionInv, Completion!CallsOK

\* What the invariant of the suggestions says holds in every state.
LEMMA CompletionSafe ==
  ASSUME Completion!CompletionAssumption
  PROVE  Spec => []Completion!CompletionInv
<1>1. Init => Completion!CompletionInv
  BY CompletionInit DEF Init
<1>2. [Next]_vars => [Completion!Next]_(Completion!complVars)
  BY DEF Next, NextFiles, NextShells, NextEditors, vars, editorsV, complV, Completion!complVars
<1>3. Completion!CompletionInv /\ [Completion!Next]_(Completion!complVars) => Completion!CompletionInv'
  <2> SUFFICES ASSUME Completion!CompletionInv, [Completion!Next]_(Completion!complVars)
               PROVE  Completion!CompletionInv'
    OBVIOUS
  <2>1. CASE UNCHANGED Completion!complVars
    BY <2>1 DEF Completion!complVars, Completion!CompletionInv, Completion!CallsOK, Completion!IsCall,
                Completion!TokensOK, Completion!SentOK, Completion!ShownIsCurrent, Completion!Cancelled
  <2>2. CASE Completion!Next
    BY <2>2, CompletionSettings, CompletionUnmount, CompletionRequest, CompletionFallBack,
       CompletionAnswer, CompletionProvide, CompletionDebounceEnds DEF Completion!Next
  <2> QED
    BY <2>1, <2>2
<1> QED
  BY <1>1, <1>2, <1>3, PTL DEF Spec

(***************************************************************************)
(* The search of an editor                                                 *)
(***************************************************************************)
\* There is no widget at first, and nothing is kept.
LEMMA SearchInit == Search!SearchAssumption /\ Search!Init => Search!SearchInv
<1> SUFFICES ASSUME Search!SearchAssumption, Search!Init PROVE Search!SearchInv
  OBVIOUS
<1>1. Search!NoResults.files \in Search!Hits
  BY DEF Search!NoResults, Search!Hits, Search!SearchAssumption
<1> QED
  BY <1>1 DEF Search!Init, Search!SearchInv, Search!ClosedOK, Search!TypedOK, Search!CacheOK, Search!IsResult,
         Search!NoResults, Search!ResultsAreOfQuery, Search!ChosenIsOpened

\* The list of a search is numbered from 1.
LEMMA HitsFromOne == ASSUME NEW hits \in Search!Hits PROVE 0 \notin DOMAIN hits
BY DEF Search!Hits

\* Nothing is left of a search when the widget goes.
LEMMA SearchClosed ==
  ASSUME Search!SearchAssumption, Search!SearchInv, Search!Closed, UNCHANGED cache
  PROVE  Search!SearchInv'
<1>1. widget' = None /\ query' = Short /\ results' = Search!NoResults /\ queryTimer' = None /\ fetching' = None
  BY DEF Search!Closed
<1>2. Search!IsResult(Search!NoResults)
  BY DEF Search!IsResult, Search!NoResults, Search!Hits, Search!SearchAssumption
<1> QED
  BY <1>1, <1>2 DEF Search!SearchInv, Search!ClosedOK, Search!TypedOK, Search!CacheOK,
                    Search!ResultsAreOfQuery, Search!ChosenIsOpened

\* It is opened, or a query is typed: the timer holds it.
LEMMA SearchTyped ==
  ASSUME Search!SearchAssumption, Search!SearchInv,
         \/ \E p \in SearchPane : Search!OpenWidget(p)
         \/ \E q \in Query \cup {Short} : Search!TypeQuery(q)
  PROVE  Search!SearchInv'
<1>1. widget' # None \/ widget' = widget
  BY DEF Search!OpenWidget, Search!TypeQuery
<1>2. UNCHANGED <<results, selectedIndex, fetching, cache, chosen>>
  BY DEF Search!OpenWidget, Search!TypeQuery
<1>3. fetching = None
  BY DEF Search!OpenWidget, Search!TypeQuery, Search!CanType, Search!SearchInv, Search!ClosedOK
<1>4. query' \in Query \cup {Short} /\ queryTimer' = query' /\ queryTimer' # None
  BY DEF Search!OpenWidget, Search!TypeQuery, Search!SearchAssumption
<1>5. Search!TypedOK' /\ Search!ResultsAreOfQuery'
  BY <1>2, <1>3, <1>4 DEF Search!TypedOK, Search!ResultsAreOfQuery
<1>6. Search!ClosedOK'
  BY <1>2, <1>3 DEF Search!SearchAssumption, Search!OpenWidget, Search!TypeQuery, Search!ClosedOK
<1>7. Search!ChosenIsOpened'
  BY <1>2 DEF Search!OpenWidget, Search!TypeQuery, Search!SearchInv, Search!ClosedOK, Search!ChosenIsOpened,
              Search!NoResults
<1> QED
  BY <1>2, <1>5, <1>6, <1>7 DEF Search!SearchInv, Search!CacheOK, Search!IsResult

\* The timer ends: the results are those kept of the query, or it is asked for.
LEMMA SearchDone ==
  ASSUME Search!SearchAssumption, Search!SearchInv, Search!DoSearch
  PROVE  Search!SearchInv'
<1>1. queryTimer' = None /\ UNCHANGED <<widget, query, cache, chosen>>
  BY DEF Search!DoSearch
<1>2. widget # None /\ queryTimer = query /\ fetching = None /\ query \in Query \cup {Short}
  BY DEF Search!DoSearch, Search!SearchInv, Search!ClosedOK, Search!TypedOK
<1>3. CASE fetching' = fetching /\ selectedIndex' = 0 /\ results' = Search!NoResults
  <2>1. Search!IsResult(results)'
    BY <1>3 DEF Search!IsResult, Search!NoResults, Search!Hits, Search!SearchAssumption
  <2> QED
    BY <1>1, <1>2, <1>3, <2>1 DEF Search!SearchInv, Search!ClosedOK, Search!TypedOK, Search!CacheOK,
       Search!ResultsAreOfQuery, Search!ChosenIsOpened, Search!NoResults
<1>4. CASE query \in Query /\ cache[query] # None /\ fetching' = fetching /\ selectedIndex' = 0 /\ results' = cache[query]
  <2>1. Search!IsResult(results)' /\ results'.of = query
    BY <1>4 DEF Search!SearchInv, Search!CacheOK, Search!IsResult
  <2>2. 0 \notin DOMAIN results'.files
    BY <2>1, HitsFromOne DEF Search!IsResult
  <2> QED
    BY <1>1, <1>2, <1>4, <2>1, <2>2 DEF Search!SearchInv, Search!ClosedOK, Search!TypedOK, Search!CacheOK,
       Search!ResultsAreOfQuery, Search!ChosenIsOpened
<1>5. CASE query \in Query /\ fetching' = query /\ UNCHANGED <<results, selectedIndex>>
  <2>1. query # None
    BY <1>5 DEF Search!SearchAssumption
  <2> QED
    BY <1>1, <1>2, <1>5, <2>1 DEF Search!SearchInv, Search!ClosedOK, Search!TypedOK, Search!CacheOK,
       Search!IsResult, Search!ResultsAreOfQuery, Search!ChosenIsOpened
<1> QED
  BY <1>2, <1>3, <1>4, <1>5 DEF Search!DoSearch, Search!Show

\* An answer is of what is typed, and is kept under its query.
LEMMA SearchAnswered ==
  ASSUME Search!SearchAssumption, Search!SearchInv, NEW hits \in Search!Hits, Search!Answer(hits)
  PROVE  Search!SearchInv'
<1> DEFINE r == [of |-> fetching, files |-> hits]
<1>1. /\ fetching # None /\ fetching' = None /\ results' = r /\ selectedIndex' = 0
      /\ cache' = [cache EXCEPT ![fetching] = r]
      /\ UNCHANGED <<widget, query, queryTimer, chosen>>
  BY DEF Search!Answer, Search!ShowAnswer, Search!Show
<1>2. Search!IsResult(r) /\ r.of = fetching /\ r.files = hits
  BY DEF Search!IsResult
<1> HIDE DEF r
<1>3. fetching = query /\ query \in Query /\ queryTimer = None /\ widget # None
  BY <1>1 DEF Search!SearchInv, Search!TypedOK, Search!ClosedOK
<1>4. Search!CacheOK'
  BY <1>1, <1>2 DEF Search!SearchInv, Search!CacheOK, Search!IsResult
<1>5. Search!IsResult(results)'
  BY <1>1, <1>2 DEF Search!IsResult
<1>6. Search!ResultsAreOfQuery' /\ Search!ClosedOK' /\ Search!TypedOK'
  BY <1>1, <1>2, <1>3 DEF Search!ResultsAreOfQuery, Search!ClosedOK, Search!TypedOK
<1>7. Search!ChosenIsOpened'
  BY <1>1, <1>2, HitsFromOne DEF Search!ChosenIsOpened
<1> QED
  BY <1>4, <1>5, <1>6, <1>7 DEF Search!SearchInv

\* A search fails, an answer comes for a widget that is gone, or what is kept
\* expires.
LEMMA SearchCached ==
  ASSUME Search!SearchAssumption, Search!SearchInv,
         \/ Search!Fail
         \/ \E q \in Query : Search!Expire(q) \/ \E hits \in Search!Hits : Search!LateAnswer(q, hits)
  PROVE  Search!SearchInv'
<1>1. CASE Search!Fail
  <2>1. /\ fetching' = None /\ results' = Search!NoResults
        /\ UNCHANGED <<widget, query, queryTimer, cache, chosen>>
    BY <1>1 DEF Search!Fail
  <2>2. Search!IsResult(results)'
    BY <2>1 DEF Search!IsResult, Search!NoResults, Search!Hits, Search!SearchAssumption
  <2> QED
    BY <2>1, <2>2 DEF Search!SearchInv, Search!ClosedOK, Search!TypedOK, Search!CacheOK,
       Search!ResultsAreOfQuery, Search!ChosenIsOpened, Search!NoResults
<1>2. ASSUME UNCHANGED <<widget, query, queryTimer, fetching, results, selectedIndex, chosen>>, Search!CacheOK'
      PROVE  Search!SearchInv'
  BY <1>2 DEF Search!SearchInv, Search!ClosedOK, Search!TypedOK, Search!IsResult,
              Search!ResultsAreOfQuery, Search!ChosenIsOpened
<1>3. ASSUME NEW q \in Query, Search!Expire(q) PROVE Search!SearchInv'
  <2>1. Search!CacheOK'
    BY <1>3 DEF Search!Expire, Search!SearchInv, Search!CacheOK, Search!IsResult
  <2> QED
    BY <1>2, <1>3, <2>1 DEF Search!Expire, Search!widget
<1>4. ASSUME NEW q \in Query, NEW hits \in Search!Hits, Search!LateAnswer(q, hits) PROVE Search!SearchInv'
  <2> DEFINE r == [of |-> q, files |-> hits]
  <2>1. Search!IsResult(r) /\ r.of = q
    BY DEF Search!IsResult
  <2>2. cache' = [cache EXCEPT ![q] = r]
    BY <1>4 DEF Search!LateAnswer
  <2> HIDE DEF r
  <2>3. Search!CacheOK'
    BY <2>1, <2>2 DEF Search!SearchInv, Search!CacheOK, Search!IsResult
  <2> QED
    BY <1>2, <1>4, <2>3 DEF Search!LateAnswer
<1> QED
  BY <1>1, <1>3, <1>4

\* A result is moved to, and what is chosen with it.
LEMMA SearchMoved ==
  ASSUME Search!SearchInv, NEW i, Search!MoveTo(i)
  PROVE  Search!SearchInv'
BY DEF Search!MoveTo, Search!SearchInv, Search!ClosedOK, Search!TypedOK, Search!CacheOK, Search!IsResult,
       Search!ResultsAreOfQuery, Search!ChosenIsOpened

\* What the invariant of the search says holds in every state.
LEMMA SearchSafe ==
  ASSUME Search!SearchAssumption
  PROVE  Spec => []Search!SearchInv
<1>1. Init => Search!SearchInv
  BY SearchInit DEF Init
<1>2. [Next]_vars => [Search!Next]_(Search!searchVars)
  BY DEF Next, NextFiles, NextShells, NextEditors, vars, editorsV, searchV, Search!searchVars
<1>3. Search!SearchInv /\ [Search!Next]_(Search!searchVars) => Search!SearchInv'
  <2> SUFFICES ASSUME Search!SearchInv, [Search!Next]_(Search!searchVars)
               PROVE  Search!SearchInv'
    OBVIOUS
  <2>1. ASSUME UNCHANGED <<Search!widget, cache>>
        PROVE  Search!SearchInv'
    BY <2>1 DEF Search!widget, Search!SearchInv, Search!ClosedOK, Search!TypedOK, Search!CacheOK,
                Search!IsResult, Search!ResultsAreOfQuery, Search!ChosenIsOpened
  <2>2. CASE UNCHANGED Search!searchVars
    BY <2>1, <2>2 DEF Search!searchVars, Search!widget
  <2>3. CASE Search!Close \/ \E b \in BOOLEAN : Search!OpenResult(b)
    BY <2>3, SearchClosed DEF Search!Close, Search!OpenResult
  <2>4. CASE Search!Jump \/ \E p \in SearchPane : \E f \in Found : Search!ShowTab(p, f)
    BY <2>1, <2>4 DEF Search!Jump, Search!ShowTab
  <2> QED
    BY <2>2, <2>3, <2>4, SearchTyped, SearchDone, SearchAnswered, SearchCached, SearchMoved DEF Search!Next
<1> QED
  BY <1>1, <1>2, <1>3, PTL DEF Spec

(***************************************************************************)
(* Source control                                                          *)
(***************************************************************************)
\* Whatever an operation does leaves a repository, and one that fails changes
\* nothing.
LEMMA ScmOutcomes ==
  ASSUME NEW c, NEW r, Scm!IsRepo(r), NEW o \in Scm!Outcomes(c, r)
  PROVE  Scm!IsRepo(o.repo) /\ (~o.ok => o.repo = r)
<1>1. ASSUME NEW q \in Scm!Pulled(r) PROVE Scm!IsRepo(q)
  <2>1. PICK f \in Tracked, t \in Content : q = Scm!Brought(r, f, t)
    BY DEF Scm!Pulled
  <2>2. q = [head |-> [r.head EXCEPT ![f] = t], index |-> [r.index EXCEPT ![f] = t],
             work |-> [r.work EXCEPT ![f] = t], count |-> r.count + 1]
    BY <2>1 DEF Scm!IsRepo, Scm!Brought
  <2> QED
    BY <2>2 DEF Scm!IsRepo
<1>2. Scm!IsRepo(Scm!After(c, r))
  <2>1. ASSUME NEW x PROVE Scm!IsRepo([r EXCEPT !.index = x]) /\ Scm!IsRepo([r EXCEPT !.work = x])
    BY DEF Scm!IsRepo
  <2>2. ASSUME NEW x, NEW q, q = [r EXCEPT !.head = x, !.count = @ + 1] PROVE Scm!IsRepo(q)
    <3>1. q = [head |-> x, index |-> r.index, work |-> r.work, count |-> r.count + 1]
      BY <2>2 DEF Scm!IsRepo
    <3> QED
      BY <3>1 DEF Scm!IsRepo
  <2>3. \/ \E x : Scm!After(c, r) \in {[r EXCEPT !.index = x], [r EXCEPT !.work = x],
                                     [r EXCEPT !.head = x, !.count = @ + 1]}
        \/ Scm!After(c, r) = r
    BY ZenonT(30) DEF Scm!After
  <2> QED
    BY <2>1, <2>2, <2>3
<1>3. \/ o = [ok |-> FALSE, repo |-> r]
      \/ o = [ok |-> TRUE, repo |-> Scm!After(c, r)]
      \/ \E q \in Scm!Pulled(r) : o = [ok |-> TRUE, repo |-> q]
  BY DEF Scm!Outcomes
<1> QED
  BY <1>1, <1>2, <1>3

\* There is room for a call.
LEMMA OneSlot == ASSUME NEW n \in Nat \ {0} PROVE 1 \in 1..n
  OBVIOUS

\* When no call is under way, one that is made is the only one.
LEMMA ScmStarts ==
  ASSUME Scm!SourceControlAssumption, Scm!OneCall, Scm!Quiet,
         NEW c, Scm!IsCall(c), c # Scm!NoCall,
         gitCalls' = [gitCalls EXCEPT ![CHOOSE i \in Scm!Free : TRUE] = c]
  PROVE  /\ Scm!OneCall' /\ ~Scm!Quiet'
         /\ \A i \in Scm!Slot : gitCalls'[i] # Scm!NoCall => gitCalls'[i] = c
<1>1. \A i \in Scm!Slot : gitCalls[i] = Scm!NoCall
  BY DEF Scm!Quiet, Scm!Free
<1>2. 1 \in Scm!Free
  <2>1. 1 \in Scm!Slot
    BY OneSlot DEF Scm!SourceControlAssumption, Scm!Slot
  <2> QED
    BY <1>1, <2>1 DEF Scm!Free
<1> DEFINE k == CHOOSE i \in Scm!Free : TRUE
<1>3. k \in Scm!Slot
  BY <1>2 DEF Scm!Free
<1> HIDE DEF k
<1>4. gitCalls' = [i \in Scm!Slot |-> gitCalls'[i]]
      /\ \A i \in Scm!Slot : gitCalls'[i] = IF i = k THEN c ELSE Scm!NoCall
  BY <1>1, <1>3 DEF Scm!OneCall, k
<1>5. Scm!IsCall(Scm!NoCall)
  BY DEF Scm!IsCall, Scm!NoCall
<1>6. Scm!OneCall'
  BY <1>4, <1>5 DEF Scm!OneCall, Scm!IsCall
<1> QED
  BY <1>3, <1>4, <1>6 DEF Scm!Quiet, Scm!Free

\* The call under way stays the only one while it goes on.
LEMMA ScmGoesOn ==
  ASSUME Scm!OneCall, NEW i \in Scm!Slot, gitCalls[i] # Scm!NoCall, NEW c, Scm!IsCall(c),
         gitCalls' = [gitCalls EXCEPT ![i] = c]
  PROVE  /\ Scm!OneCall' /\ (c # Scm!NoCall => ~Scm!Quiet')
         /\ \A j \in Scm!Slot : gitCalls'[j] # Scm!NoCall => gitCalls'[j] = c
<1>1. gitCalls' = [j \in Scm!Slot |-> gitCalls'[j]]
      /\ \A j \in Scm!Slot : gitCalls'[j] = IF j = i THEN c ELSE gitCalls[j]
  BY DEF Scm!OneCall
<1>2. \A j \in Scm!Slot : j # i => gitCalls[j] = Scm!NoCall
  BY DEF Scm!OneCall
<1>3. Scm!IsCall(Scm!NoCall)
  BY DEF Scm!IsCall, Scm!NoCall
<1>4. Scm!OneCall'
  BY <1>1, <1>2, <1>3 DEF Scm!OneCall, Scm!IsCall
<1> QED
  BY <1>1, <1>2, <1>4 DEF Scm!Quiet, Scm!Free

\* What is known of the call that is under way.
LEMMA ScmCalled ==
  ASSUME NEW k, NEW f, NEW o, NEW c, c = Scm!Call(k, f, o)
  PROVE  Scm!IsCall(c) /\ c.kind = k /\ c.cwd = cwd /\ c.stage = "asked"
<1>1. c = [kind |-> k, cwd |-> cwd, file |-> f, of |-> o, stage |-> "asked", ans |-> None]
  BY DEF Scm!Call, Scm!NoCall
<1> QED
  BY <1>1 DEF Scm!IsCall

\* The panel has fetched nothing yet.
LEMMA ScmInit == Scm!SourceControlAssumption /\ Scm!Init => Scm!ScmInv
<1> SUFFICES ASSUME Scm!SourceControlAssumption, Scm!Init PROVE Scm!ScmInv
  OBVIOUS
<1> DEFINE c == Scm!Call("fetch", 0, "view")
<1>1. Scm!IsCall(c) /\ c.kind = "fetch" /\ c.cwd = cwd /\ c.stage = "asked"
  BY ScmCalled
<1> HIDE DEF c
<1>2. gitCalls = [i \in Scm!Slot |-> IF i = 1 THEN c ELSE Scm!NoCall] /\ cwd \in Cwd
  BY DEF Scm!Init, c
<1>3. Scm!IsCall(Scm!NoCall) /\ Scm!NoCall.kind = "none"
  BY DEF Scm!IsCall, Scm!NoCall
<1>4. Scm!OneCall
  BY <1>1, <1>2, <1>3 DEF Scm!OneCall
<1>5. Scm!CallsFresh
  BY <1>1, <1>2 DEF Scm!CallsFresh, Scm!IsFresh
<1>6. ~Scm!Quiet
  <2>1. 1 \in Scm!Slot
    BY OneSlot DEF Scm!SourceControlAssumption, Scm!Slot
  <2>2. gitCalls[1] # Scm!NoCall
    BY <1>1, <1>2, <1>3, <2>1
  <2> QED
    BY <2>1, <2>2 DEF Scm!Quiet, Scm!Free
<1>7. Scm!ReposOK
  BY DEF Scm!Init, Scm!ReposOK, Scm!IsRepo
<1> QED
  BY <1>2, <1>4, <1>5, <1>6, <1>7 DEF Scm!ScmInv, Scm!SettledIsFresh

\* While no call is under way, the panel is fresh, and so is an operation that
\* is about to be done.
LEMMA ScmQuietFresh ==
  ASSUME Scm!ScmInv, Scm!Quiet, NEW c, c.kind # "fetch", c.stage = "asked"
  PROVE  Scm!IsFresh(c)
BY DEF Scm!ScmInv, Scm!SettledIsFresh, Scm!IsFresh

\* The operations of the panel.
LEMMA ScmActs ==
  ASSUME Scm!SourceControlAssumption, Scm!ScmInv, Scm!Ready,
         NEW k \in {"stage", "unstage", "discard", "stageAll", "unstageAll", "push", "pull", "commit"},
         NEW f, NEW o, Scm!Act(Scm!Call(k, f, o)),
         UNCHANGED <<repo, cwd, status, touched>>
  PROVE  Scm!ScmInv'
<1>0. PICK c : c = Scm!Call(k, f, o)
  OBVIOUS
<1>1. Scm!IsCall(c) /\ c.kind = k /\ c.cwd = cwd /\ c.stage = "asked"
  BY <1>0, ScmCalled
<1>2. gitCalls' = [gitCalls EXCEPT ![CHOOSE i \in Scm!Free : TRUE] = c] /\ Scm!Quiet
  BY <1>0 DEF Scm!Act, Scm!Ready, Scm!Waits
<1>3. c # Scm!NoCall
  BY <1>1 DEF Scm!NoCall
<1>4. Scm!OneCall' /\ ~Scm!Quiet' /\ \A i \in Scm!Slot : gitCalls'[i] # Scm!NoCall => gitCalls'[i] = c
  BY <1>1, <1>2, <1>3, ScmStarts DEF Scm!ScmInv
<1>5. Scm!IsFresh(c)
  BY <1>1, <1>2, ScmQuietFresh
<1>6. Scm!IsFresh(c)'
  BY <1>1, <1>5 DEF Scm!IsFresh, Scm!Shown
<1>7. Scm!CallsFresh'
  BY <1>1, <1>4, <1>6 DEF Scm!CallsFresh
<1> QED
  BY <1>4, <1>7 DEF Scm!ScmInv, Scm!SettledIsFresh, Scm!ReposOK

\* The fetches of the view: of the project shown, and of another one that is
\* selected.
LEMMA ScmFetches ==
  ASSUME Scm!SourceControlAssumption, Scm!ScmInv, Scm!Waits,
         NEW d \in Cwd, cwd' = d, Scm!Fetch(d), UNCHANGED repo
  PROVE  Scm!ScmInv'
<1>0. PICK c : c = [Scm!Call("fetch", 0, "view") EXCEPT !.cwd = d]
  OBVIOUS
<1>1. c = [kind |-> "fetch", cwd |-> d, file |-> 0, of |-> "view", stage |-> "asked", ans |-> None]
  <2>1. PICK b : b = Scm!Call("fetch", 0, "view")
    OBVIOUS
  <2>2. b = [kind |-> "fetch", cwd |-> cwd, file |-> 0, of |-> "view", stage |-> "asked", ans |-> None]
    BY <2>1 DEF Scm!Call, Scm!NoCall
  <2> QED
    BY <1>0, <2>1, <2>2
<1>2. Scm!IsCall(c) /\ c.kind = "fetch" /\ c.cwd = d /\ c.stage = "asked"
  BY <1>1 DEF Scm!IsCall
<1>3. gitCalls' = [gitCalls EXCEPT ![CHOOSE i \in Scm!Free : TRUE] = c] /\ Scm!Quiet
  BY <1>0 DEF Scm!Fetch, Scm!Waits
<1>4. c # Scm!NoCall
  BY <1>2 DEF Scm!NoCall
<1>5. Scm!OneCall' /\ ~Scm!Quiet' /\ \A i \in Scm!Slot : gitCalls'[i] # Scm!NoCall => gitCalls'[i] = c
  BY <1>2, <1>3, <1>4, ScmStarts DEF Scm!ScmInv
<1>6. Scm!CallsFresh'
  BY <1>2, <1>5 DEF Scm!CallsFresh, Scm!IsFresh
<1> QED
  BY <1>5, <1>6 DEF Scm!ScmInv, Scm!SettledIsFresh, Scm!ReposOK

\* A file is changed behind the panel's back.
LEMMA ScmEdited ==
  ASSUME Scm!ScmInv, NEW f, NEW t, Scm!Edit(f, t)
  PROVE  Scm!ScmInv'
<1>1. /\ cwd \in Git /\ touched'
      /\ repo' = [repo EXCEPT ![cwd] = [repo[cwd] EXCEPT !.work = [repo[cwd].work EXCEPT ![f] = t]]]
      /\ UNCHANGED <<cwd, status, gitCalls>>
  BY DEF Scm!Edit
<1>2. ASSUME NEW w PROVE LET r == [repo[cwd] EXCEPT !.work = w] IN Scm!IsRepo(r) /\ r.count = repo[cwd].count
  BY <1>1 DEF Scm!ScmInv, Scm!ReposOK, Scm!IsRepo
<1> DEFINE r == [repo[cwd] EXCEPT !.work = [repo[cwd].work EXCEPT ![f] = t]]
<1>3. Scm!IsRepo(r) /\ r.count = repo[cwd].count
  BY <1>2
<1>4. repo' = [repo EXCEPT ![cwd] = r]
  BY <1>1
<1> HIDE DEF r
<1>5. Scm!ReposOK' /\ repo'[cwd].count = repo[cwd].count
  BY <1>1, <1>3, <1>4 DEF Scm!ScmInv, Scm!ReposOK, Scm!IsRepo
<1>6. Scm!CallsFresh'
  BY <1>1, <1>5 DEF Scm!ScmInv, Scm!CallsFresh, Scm!IsFresh
<1> QED
  BY <1>1, <1>5, <1>6 DEF Scm!ScmInv, Scm!OneCall, Scm!SettledIsFresh

\* The call under way is of the project shown.
LEMMA ScmUnderWay ==
  ASSUME Scm!ScmInv, NEW i \in Scm!Slot, gitCalls[i].kind # "none"
  PROVE  /\ gitCalls[i] # Scm!NoCall /\ Scm!IsCall(gitCalls[i]) /\ gitCalls[i].cwd = cwd
         /\ Scm!IsFresh(gitCalls[i])
BY DEF Scm!ScmInv, Scm!OneCall, Scm!CallsFresh, Scm!NoCall

\* A call that goes on with another stage and answer.
LEMMA ScmStaged ==
  ASSUME Scm!ScmInv, NEW i \in Scm!Slot, gitCalls[i].kind # "none", NEW stage, NEW ans,
         gitCalls' = [gitCalls EXCEPT ![i].stage = stage, ![i].ans = ans], cwd' = cwd,
         NEW c, c = [gitCalls[i] EXCEPT !.stage = stage, !.ans = ans], Scm!IsFresh(c)'
  PROVE  Scm!OneCall' /\ Scm!CallsFresh' /\ ~Scm!Quiet'
<1> DEFINE b == gitCalls[i]
<1>1. b # Scm!NoCall /\ Scm!IsCall(b) /\ b.cwd = cwd
  BY ScmUnderWay
<1>2. c = [kind |-> b.kind, cwd |-> b.cwd, file |-> b.file, of |-> b.of, stage |-> stage, ans |-> ans]
  BY <1>1 DEF Scm!IsCall
<1>3. Scm!IsCall(c) /\ c.kind = b.kind /\ c.cwd = cwd
  BY <1>1, <1>2 DEF Scm!IsCall
<1>4. c # Scm!NoCall
  BY <1>3 DEF Scm!NoCall
<1>5. gitCalls' = [gitCalls EXCEPT ![i] = c]
  BY DEF Scm!ScmInv, Scm!OneCall
<1>6. Scm!OneCall' /\ ~Scm!Quiet' /\ \A j \in Scm!Slot : gitCalls'[j] # Scm!NoCall => gitCalls'[j] = c
  BY <1>1, <1>3, <1>4, <1>5, ScmGoesOn DEF Scm!ScmInv
<1> QED
  BY <1>3, <1>6 DEF Scm!CallsFresh

\* Git performs an operation: one that fails leaves the repository as it is
\* shown.
LEMMA ScmPerformed ==
  ASSUME Scm!ScmInv, NEW i \in Scm!Slot, Scm!Perform(i)
  PROVE  Scm!ScmInv'
<1> DEFINE b == gitCalls[i]
<1>1. /\ b.kind \notin {"none", "fetch"} /\ b.stage = "asked"
      /\ UNCHANGED <<cwd, status, touched>>
  BY DEF Scm!Perform
<1>2. b.cwd = cwd /\ (~touched => status = Scm!Shown) /\ Scm!IsCall(b)
  BY <1>1, ScmUnderWay DEF Scm!IsFresh
<1>3. PICK stage, ans :
        /\ gitCalls' = [gitCalls EXCEPT ![i].stage = stage, ![i].ans = ans]
        /\ stage \in {"done", "failed"}
        /\ Scm!ReposOK'
        /\ stage = "failed" => repo' = repo
  <2>1. CASE cwd \notin Git
    <3>1. repo' = repo /\ gitCalls' = [gitCalls EXCEPT ![i].stage = "failed", ![i].ans = 0]
      BY <1>2, <2>1 DEF Scm!Perform
    <3> QED
      BY <3>1 DEF Scm!ScmInv, Scm!ReposOK
  <2>2. CASE cwd \in Git
    <3>1. PICK o \in Scm!Outcomes(b, repo[cwd]) :
            /\ repo' = [repo EXCEPT ![cwd] = o.repo]
            /\ gitCalls' = [gitCalls EXCEPT ![i].stage = IF o.ok THEN "done" ELSE "failed",
                                            ![i].ans = o.repo.count - repo[cwd].count]
      BY <1>2, <2>2 DEF Scm!Perform
    <3>2. Scm!IsRepo(o.repo) /\ (~o.ok => o.repo = repo[cwd])
      BY <2>2, ScmOutcomes DEF Scm!ScmInv, Scm!ReposOK
    <3>3. Scm!ReposOK'
      BY <2>2, <3>1, <3>2 DEF Scm!ScmInv, Scm!ReposOK, Scm!IsRepo
    <3>4. ~o.ok => repo' = repo
      BY <3>1, <3>2 DEF Scm!ScmInv, Scm!ReposOK
    <3> QED
      BY <3>1, <3>3, <3>4
  <2> QED
    BY <2>1, <2>2
<1>4. PICK c : c = [b EXCEPT !.stage = stage, !.ans = ans]
  OBVIOUS
<1>5. c.kind = b.kind /\ c.stage = stage
  BY <1>2, <1>4 DEF Scm!IsCall
<1>6. Scm!IsFresh(c)'
  BY <1>1, <1>2, <1>3, <1>5 DEF Scm!IsFresh, Scm!Shown
<1>7. Scm!OneCall' /\ Scm!CallsFresh' /\ ~Scm!Quiet'
  BY <1>1, <1>3, <1>4, <1>6, ScmStaged
<1> QED
  BY <1>1, <1>3, <1>7 DEF Scm!ScmInv, Scm!SettledIsFresh

\* A fetch follows an operation that is done, and none one that failed.
LEMMA ScmSettled ==
  ASSUME Scm!SourceControlAssumption, Scm!ScmInv, NEW i \in Scm!Slot, Scm!Settle(i)
  PROVE  Scm!ScmInv'
<1> DEFINE b == gitCalls[i]
<1>1. b.stage \in {"done", "failed"} /\ UNCHANGED <<repo, cwd, status, touched>>
  BY DEF Scm!Settle
<1>2. b # Scm!NoCall
  <2>1. Scm!NoCall.stage = None
    BY DEF Scm!NoCall
  <2> QED
    BY <1>1, <2>1 DEF Scm!SourceControlAssumption
<1>3. b.kind # "none" /\ b.cwd = cwd /\ Scm!IsFresh(b)
  BY <1>2 DEF Scm!ScmInv, Scm!CallsFresh
<1>4. b.stage = "failed" /\ ~touched => status = Scm!Shown
  BY <1>1, <1>3 DEF Scm!IsFresh
<1>5. CASE b.stage = "done"
  <2>1. PICK c : c = [Scm!Call("fetch", 0, "action") EXCEPT !.cwd = b.cwd]
    OBVIOUS
  <2>2. PICK a : a = Scm!Call("fetch", 0, "action")
    OBVIOUS
  <2>3. a = [kind |-> "fetch", cwd |-> cwd, file |-> 0, of |-> "action", stage |-> "asked", ans |-> None]
    BY <2>2 DEF Scm!Call, Scm!NoCall
  <2>4. Scm!IsCall(c) /\ c.kind = "fetch" /\ c.cwd = cwd /\ c.stage = "asked"
    BY <1>3, <2>1, <2>2, <2>3 DEF Scm!IsCall
  <2>5. c # Scm!NoCall
    BY <2>4 DEF Scm!NoCall
  <2>6. gitCalls' = [gitCalls EXCEPT ![i] = c]
    BY <1>5, <2>1 DEF Scm!Settle
  <2>7. Scm!OneCall' /\ ~Scm!Quiet' /\ \A j \in Scm!Slot : gitCalls'[j] # Scm!NoCall => gitCalls'[j] = c
    BY <1>2, <2>4, <2>5, <2>6, ScmGoesOn DEF Scm!ScmInv
  <2>8. Scm!CallsFresh'
    BY <1>1, <2>4, <2>7 DEF Scm!CallsFresh, Scm!IsFresh
  <2> QED
    BY <1>1, <2>7, <2>8 DEF Scm!ScmInv, Scm!ReposOK, Scm!SettledIsFresh
<1>6. CASE b.stage = "failed"
  <2>1. gitCalls' = [gitCalls EXCEPT ![i] = Scm!NoCall]
    BY <1>6 DEF Scm!Settle
  <2>2. Scm!IsCall(Scm!NoCall)
    BY DEF Scm!IsCall, Scm!NoCall
  <2>3. Scm!OneCall' /\ \A j \in Scm!Slot : gitCalls'[j] # Scm!NoCall => gitCalls'[j] = Scm!NoCall
    BY <1>2, <2>1, <2>2, ScmGoesOn DEF Scm!ScmInv
  <2> QED
    BY <1>1, <1>4, <1>6, <2>3 DEF Scm!ScmInv, Scm!ReposOK, Scm!CallsFresh, Scm!SettledIsFresh, Scm!Shown
<1> QED
  BY <1>1, <1>5, <1>6

\* The backend reads what git reports, and then the number of commits.
LEMMA ScmRead ==
  ASSUME Scm!ScmInv, NEW i \in Scm!Slot, Scm!Read(i)
  PROVE  Scm!ScmInv'
<1> DEFINE b == gitCalls[i]
<1>1. b.kind = "fetch" /\ b.stage \in {"asked", "log"} /\ UNCHANGED <<repo, cwd, status>>
  BY DEF Scm!Read
<1>2. b.cwd = cwd /\ Scm!IsFresh(b) /\ Scm!IsCall(b)
  BY <1>1, ScmUnderWay
<1>3. touched' = (touched /\ b.stage # "asked")
  BY <1>1, <1>2 DEF Scm!Read
<1>4. PICK stage, ans :
        /\ gitCalls' = [gitCalls EXCEPT ![i].stage = stage, ![i].ans = ans]
        /\ stage = IF b.stage = "asked" THEN "status read" ELSE "log read"
        /\ ans = IF cwd \notin Git THEN None
                 ELSE IF b.stage = "asked" THEN Scm!Status(repo[cwd])
                 ELSE IF repo[cwd].count = 0 THEN None ELSE repo[cwd].count
  BY <1>2 DEF Scm!Read
<1>5. PICK c : c = [b EXCEPT !.stage = stage, !.ans = ans]
  OBVIOUS
<1>6. c.kind = "fetch" /\ c.stage = stage /\ c.ans = ans
  BY <1>1, <1>2, <1>5 DEF Scm!IsCall
<1>7. Scm!IsFresh(c)'
  <2>1. CASE b.stage = "asked"
    BY <1>1, <1>4, <1>6, <2>1 DEF Scm!IsFresh, Scm!Reported
  <2>2. CASE b.stage = "log"
    BY <1>1, <1>2, <1>3, <1>4, <1>6, <2>2 DEF Scm!IsFresh, Scm!Reported
  <2> QED
    BY <1>1, <2>1, <2>2
<1>8. Scm!OneCall' /\ Scm!CallsFresh' /\ ~Scm!Quiet'
  BY <1>1, <1>4, <1>5, <1>7, ScmStaged
<1> QED
  BY <1>1, <1>8 DEF Scm!ScmInv, Scm!ReposOK, Scm!SettledIsFresh

\* The panel shows the status, and ends the fetch with the list of commits or
\* without a status.
LEMMA ScmFetched ==
  ASSUME Scm!SourceControlAssumption, Scm!ScmInv, NEW i \in Scm!Slot, Scm!Fetched(i)
  PROVE  Scm!ScmInv'
<1> DEFINE b == gitCalls[i]
<1>1. b.stage \in {"status read", "log read"} /\ UNCHANGED <<repo, cwd, touched>>
  BY DEF Scm!Fetched
<1>2. b # Scm!NoCall
  <2>1. Scm!NoCall.stage = None
    BY DEF Scm!NoCall
  <2> QED
    BY <1>1, <2>1 DEF Scm!SourceControlAssumption
<1>3. b.kind # "none" /\ b.cwd = cwd /\ Scm!IsFresh(b) /\ Scm!IsCall(b)
  BY <1>2 DEF Scm!ScmInv, Scm!CallsFresh, Scm!OneCall
<1>4. b.kind = "fetch"
  BY <1>1, <1>3 DEF Scm!IsFresh
<1>5. CASE b.stage = "status read" /\ b.ans # None
  <2>1. status' = b.ans /\ gitCalls' = [gitCalls EXCEPT ![i].stage = "log", ![i].ans = None]
    BY <1>5 DEF Scm!Fetched
  <2>2. cwd \in Git /\ (~touched => b.ans = Scm!Reported)
    BY <1>3, <1>4, <1>5 DEF Scm!IsFresh, Scm!Reported
  <2>3. PICK c : c = [b EXCEPT !.stage = "log", !.ans = None]
    OBVIOUS
  <2>4. c.kind = "fetch" /\ c.stage = "log"
    BY <1>3, <1>4, <2>3 DEF Scm!IsCall
  <2>5. Scm!IsFresh(c)'
    BY <1>1, <2>1, <2>2, <2>4 DEF Scm!IsFresh, Scm!Reported
  <2>6. Scm!OneCall' /\ Scm!CallsFresh' /\ ~Scm!Quiet'
    BY <1>1, <1>4, <2>1, <2>3, <2>5, ScmStaged
  <2> QED
    BY <1>1, <2>6 DEF Scm!ScmInv, Scm!ReposOK, Scm!SettledIsFresh
<1>6. CASE ~(b.stage = "status read" /\ b.ans # None)
  <2>1. status' = (IF b.ans # None THEN status ELSE None) /\ gitCalls' = [gitCalls EXCEPT ![i] = Scm!NoCall]
    BY <1>6 DEF Scm!Fetched
  <2>2. Scm!IsCall(Scm!NoCall)
    BY DEF Scm!IsCall, Scm!NoCall
  <2>3. Scm!OneCall' /\ \A j \in Scm!Slot : gitCalls'[j] # Scm!NoCall => gitCalls'[j] = Scm!NoCall
    BY <1>2, <2>1, <2>2, ScmGoesOn DEF Scm!ScmInv
  <2>4. ~touched => status' = Scm!Shown'
    <3>1. CASE b.stage = "status read"
      <4>1. ~touched => Scm!Reported = None
        BY <1>3, <1>4, <1>6, <3>1 DEF Scm!IsFresh
      <4> QED
        BY <1>1, <1>6, <2>1, <3>1, <4>1 DEF Scm!Reported, Scm!Shown
    <3>2. CASE b.stage = "log read"
      <4>1. /\ cwd \in Git /\ (~touched => status = Scm!Reported)
            /\ b.ans = IF repo[cwd].count = 0 THEN None ELSE repo[cwd].count
        BY <1>3, <1>4, <3>2 DEF Scm!IsFresh
      <4>2. repo[cwd].count \in Nat /\ None \notin Nat
        BY <4>1 DEF Scm!ScmInv, Scm!ReposOK, Scm!IsRepo, Scm!SourceControlAssumption
      <4>3. (b.ans # None) <=> repo[cwd].count > 0
        BY <4>1, <4>2
      <4> QED
        BY <1>1, <2>1, <4>1, <4>3 DEF Scm!Reported, Scm!Shown
    <3> QED
      BY <1>1, <3>1, <3>2
  <2> QED
    BY <1>1, <2>3, <2>4 DEF Scm!ScmInv, Scm!ReposOK, Scm!CallsFresh, Scm!SettledIsFresh
<1> QED
  BY <1>5, <1>6

\* What the invariant of source control says holds in every state.
LEMMA ScmSafe ==
  ASSUME Scm!SourceControlAssumption
  PROVE  Spec => []Scm!ScmInv
<1>1. Init => Scm!ScmInv
  BY ScmInit DEF Init
<1>2. [Next]_vars => [Scm!Next]_(Scm!scmVars)
  BY DEF Next, NextFiles, NextShells, NextEditors, vars, filesV, scmV, Scm!scmVars
<1>3. Scm!ScmInv /\ [Scm!Next]_(Scm!scmVars) => Scm!ScmInv'
  <2> SUFFICES ASSUME Scm!ScmInv, [Scm!Next]_(Scm!scmVars)
               PROVE  Scm!ScmInv'
    OBVIOUS
  <2>1. ASSUME UNCHANGED <<repo, cwd, status, gitCalls, touched>>
        PROVE  Scm!ScmInv'
    BY <2>1 DEF Scm!ScmInv, Scm!ReposOK, Scm!OneCall, Scm!CallsFresh, Scm!IsFresh, Scm!Reported,
                Scm!SettledIsFresh, Scm!Shown, Scm!Quiet, Scm!Free
  <2>2. CASE UNCHANGED Scm!scmVars
    BY <2>1, <2>2 DEF Scm!scmVars
  <2>3. CASE Scm!RowAction
    BY <2>3, ScmActs DEF Scm!RowAction
  <2>4. CASE Scm!PushOrPull
    BY <2>4, ScmActs DEF Scm!PushOrPull
  <2>5. CASE Scm!Commit
    BY <2>5, ScmActs DEF Scm!Commit
  <2>6. CASE \E m \in {None, "text"} : Scm!Compose(m)
    BY <2>1, <2>6 DEF Scm!Compose
  <2>7. CASE Scm!Refresh
    BY <2>7, ScmFetches DEF Scm!Refresh, Scm!ScmInv
  <2>8. CASE \E d \in Cwd : Scm!Switch(d)
    BY <2>8, ScmFetches DEF Scm!Switch
  <2>9. CASE \E f \in Tracked, t \in Content \cup {0} : Scm!Edit(f, t)
    BY <2>9, ScmEdited
  <2> QED
    BY <2>2, <2>3, <2>4, <2>5, <2>6, <2>7, <2>8, <2>9, ScmPerformed, ScmSettled, ScmRead, ScmFetched
       DEF Scm!Next, Scm!User
<1> QED
  BY <1>1, <1>2, <1>3, PTL DEF Spec

(***************************************************************************)
(* The explorer                                                            *)
(***************************************************************************)
\* When no call is under way, one that is made is the only one.
LEMMA TreeStarts ==
  ASSUME Tree!FileTreeAssumption, Tree!OneCall, Tree!Quiet,
         NEW c, Tree!IsCall(c), c # Tree!NoCall,
         treeCalls' = [treeCalls EXCEPT ![Tree!First(Tree!Free)] = c]
  PROVE  /\ Tree!OneCall' /\ ~Tree!Quiet'
         /\ \A i \in Tree!Slot : treeCalls'[i] # Tree!NoCall => treeCalls'[i] = c
<1>1. \A i \in Tree!Slot : treeCalls[i] = Tree!NoCall
  BY DEF Tree!Quiet, Tree!Free
<1>2. Tree!Free = 1..MaxCalls /\ 1 \in Tree!Free
  BY DEF Tree!Quiet, Tree!Slot, Tree!FileTreeAssumption
<1> DEFINE k == Tree!First(Tree!Free)
<1>3. k \in Tree!Slot
  <2>1. \A j \in Tree!Free : 1 <= j
    BY <1>2
  <2> QED
    BY <1>2, <2>1 DEF Tree!First, Tree!Slot
<1> HIDE DEF k
<1>4. treeCalls' = [i \in Tree!Slot |-> treeCalls'[i]]
      /\ \A i \in Tree!Slot : treeCalls'[i] = IF i = k THEN c ELSE Tree!NoCall
  BY <1>1, <1>3 DEF Tree!OneCall, k
<1>5. Tree!IsCall(Tree!NoCall)
  BY DEF Tree!IsCall, Tree!NoCall
<1>6. Tree!OneCall'
  BY <1>4, <1>5 DEF Tree!OneCall, Tree!IsCall
<1> QED
  BY <1>3, <1>4, <1>6 DEF Tree!Quiet, Tree!Free

\* The call under way stays the only one while it goes on.
LEMMA TreeGoesOn ==
  ASSUME Tree!OneCall, NEW i \in Tree!Slot, treeCalls[i] # Tree!NoCall, NEW c, Tree!IsCall(c),
         treeCalls' = [treeCalls EXCEPT ![i] = c]
  PROVE  /\ Tree!OneCall' /\ (c # Tree!NoCall => ~Tree!Quiet')
         /\ \A j \in Tree!Slot : treeCalls'[j] # Tree!NoCall => treeCalls'[j] = c
<1>1. treeCalls' = [j \in Tree!Slot |-> treeCalls'[j]]
      /\ \A j \in Tree!Slot : treeCalls'[j] = IF j = i THEN c ELSE treeCalls[j]
  BY DEF Tree!OneCall
<1>2. \A j \in Tree!Slot : j # i => treeCalls[j] = Tree!NoCall
  BY DEF Tree!OneCall
<1>3. Tree!IsCall(Tree!NoCall)
  BY DEF Tree!IsCall, Tree!NoCall
<1>4. Tree!OneCall'
  BY <1>1, <1>2, <1>3 DEF Tree!OneCall, Tree!IsCall
<1> QED
  BY <1>1, <1>2, <1>4 DEF Tree!Quiet, Tree!Free

\* A call that is made has no answer yet, and is one.
LEMMA TreeCalled ==
  ASSUME NEW k \in {"fetch", "lazy", "create", "delete"}, NEW d, NEW in, NEW n, NEW c, c = Tree!Call(k, d, in, n)
  PROVE  /\ Tree!IsCall(c) /\ c # Tree!NoCall
         /\ c.kind = k /\ c.cwd = d /\ c.in = in /\ c.ans = None
<1>1. c = [kind |-> k, cwd |-> d, in |-> in, name |-> n, ans |-> None]
  BY DEF Tree!Call
<1>2. Tree!IsCall(c) /\ c.kind = k /\ c.cwd = d /\ c.in = in /\ c.ans = None
  BY <1>1 DEF Tree!IsCall
<1>3. Tree!NoCall.kind = "none"
  BY DEF Tree!NoCall
<1> QED
  BY <1>2, <1>3

\* The explorer has fetched nothing yet.
LEMMA TreeInit == Tree!FileTreeAssumption /\ Tree!Init => Tree!TreeInv
<1> SUFFICES ASSUME Tree!FileTreeAssumption, Tree!Init PROVE Tree!TreeInv
  OBVIOUS
<1>1. PICK c : c = Tree!Call("fetch", treeCwd, "view", None)
  OBVIOUS
<1>2. Tree!IsCall(c) /\ c # Tree!NoCall /\ c.kind = "fetch" /\ c.cwd = treeCwd /\ c.in = "view" /\ c.ans = None
  BY <1>1, TreeCalled
<1>3. treeCalls = [i \in Tree!Slot |-> IF i = 1 THEN c ELSE Tree!NoCall] /\ treeCwd \in Cwd
  BY <1>1 DEF Tree!Init
<1>4. Tree!IsCall(Tree!NoCall)
  BY DEF Tree!IsCall, Tree!NoCall
<1>5. Tree!OneCall
  BY <1>2, <1>3, <1>4 DEF Tree!OneCall
<1>6. Tree!CallsFresh
  BY <1>2, <1>3 DEF Tree!CallsFresh, Tree!IsFresh
<1>7. ~Tree!Quiet
  <2>1. 1 \in Tree!Slot
    BY OneSlot DEF Tree!Slot, Tree!FileTreeAssumption
  <2>2. treeCalls[1] # Tree!NoCall
    BY <1>2, <1>3, <2>1
  <2> QED
    BY <2>1, <2>2 DEF Tree!Quiet, Tree!Free
<1>8. treeDisk = [d \in Cwd |-> treeDisk[d]]
  BY DEF Tree!Init
<1>9. files = [of |-> files.of, root |-> files.root, kids |-> files.kids]
  BY DEF Tree!Init, Tree!Empty
<1> QED
  BY <1>3, <1>5, <1>6, <1>7, <1>8, <1>9 DEF Tree!TreeInv

\* A call that is made while nothing else is under way, when it is fresh.
LEMMA TreeMade ==
  ASSUME Tree!FileTreeAssumption, Tree!TreeInv, Tree!Quiet,
         NEW k \in {"fetch", "lazy", "create", "delete"}, NEW d \in Cwd, NEW in, NEW n,
         NEW c, c = Tree!Call(k, d, in, n), treeCwd' = d,
         treeCalls' = [treeCalls EXCEPT ![Tree!First(Tree!Free)] = c],
         Tree!IsFresh(c)', UNCHANGED <<treeDisk, files>>
  PROVE  Tree!TreeInv'
<1>1. Tree!IsCall(c) /\ c # Tree!NoCall /\ c.cwd = d
  BY TreeCalled
<1>2. Tree!OneCall' /\ ~Tree!Quiet' /\ \A i \in Tree!Slot : treeCalls'[i] # Tree!NoCall => treeCalls'[i] = c
  BY <1>1, TreeStarts DEF Tree!TreeInv
<1>3. Tree!CallsFresh'
  BY <1>1, <1>2 DEF Tree!CallsFresh
<1> QED
  BY <1>2, <1>3 DEF Tree!TreeInv

\* The fetches of the view, of the watcher, and of a project that is selected.
LEMMA TreeFetches ==
  ASSUME Tree!FileTreeAssumption, Tree!TreeInv, Tree!Quiet,
         NEW d \in Cwd, NEW how \in {"view", "silent"}, treeCwd' = d, Tree!Fetch(d, how),
         UNCHANGED <<treeDisk, files>>
  PROVE  Tree!TreeInv'
<1>1. PICK c : c = Tree!Call("fetch", d, how, None)
  OBVIOUS
<1>2. c.kind = "fetch" /\ c.in = how /\ c.ans = None
  BY <1>1, TreeCalled
<1>3. treeCalls' = [treeCalls EXCEPT ![Tree!First(Tree!Free)] = c]
  BY <1>1 DEF Tree!Fetch
<1>4. treeLoading' => how = "view"
  BY DEF Tree!Fetch, Tree!TreeInv, Tree!TopShown
<1>5. Tree!IsFresh(c)'
  BY <1>2, <1>4 DEF Tree!IsFresh
<1> QED
  BY <1>1, <1>3, <1>5, TreeMade

\* The operations of the rows, and the listing of a folder.
LEMMA TreeOperates ==
  ASSUME Tree!FileTreeAssumption, Tree!TreeInv, Tree!Quiet,
         NEW k \in {"lazy", "create", "delete"}, NEW in, NEW n, NEW c,
         c = Tree!Call(k, treeCwd, in, n),
         treeCalls' = [treeCalls EXCEPT ![Tree!First(Tree!Free)] = c],
         UNCHANGED <<treeDisk, treeCwd, files, treeLoading, unheard>>
  PROVE  Tree!TreeInv'
<1>1. c.kind = k /\ c.ans = None
  BY TreeCalled
<1>2. Tree!TopShown' /\ treeCwd \in Cwd
  BY DEF Tree!TreeInv, Tree!TopShown
<1>3. Tree!IsFresh(c)'
  BY <1>1, <1>2 DEF Tree!IsFresh, Tree!TopShown
<1> QED
  BY <1>2, <1>3, TreeMade

\* What leaves the listing, the disk and the calls as they are.
LEMMA TreeUntouched ==
  ASSUME Tree!TreeInv, UNCHANGED <<treeDisk, treeCwd, files, treeLoading, treeCalls, unheard>>
  PROVE  Tree!TreeInv'
<1>1. Tree!TopShown' = Tree!TopShown /\ Tree!Quiet' = Tree!Quiet
  BY DEF Tree!TopShown, Tree!Quiet, Tree!Free
<1>2. Tree!OneCall'
  BY DEF Tree!TreeInv, Tree!OneCall, Tree!IsCall
<1>3. Tree!CallsFresh'
  BY DEF Tree!TreeInv, Tree!CallsFresh, Tree!IsFresh, Tree!TopShown
<1> QED
  BY <1>1, <1>2, <1>3 DEF Tree!TreeInv

\* Somebody else changes the disk while the explorer waits for the watcher.
LEMMA TreeOutside ==
  ASSUME Tree!TreeInv, Tree!Outside
  PROVE  Tree!TreeInv'
<1>1. Tree!Quiet /\ unheard' /\ UNCHANGED <<treeCwd, files, treeLoading, treeCalls>>
  BY DEF Tree!Outside, Tree!Waits
<1>2. treeDisk' = [c \in Cwd |-> treeDisk'[c]]
  BY DEF Tree!TreeInv, Tree!Outside
<1>3. Tree!TopShown' /\ Tree!OneCall'
  BY <1>1 DEF Tree!TreeInv, Tree!TopShown, Tree!OneCall, Tree!IsCall
<1>4. Tree!CallsFresh'
  BY <1>1 DEF Tree!CallsFresh, Tree!Quiet, Tree!Free
<1> QED
  BY <1>1, <1>2, <1>3, <1>4 DEF Tree!TreeInv

\* A folder that is opened for the first time is listed; the others open or
\* close.
LEMMA TreeRowClick ==
  ASSUME Tree!FileTreeAssumption, Tree!TreeInv, Tree!RowClick
  PROVE  Tree!TreeInv'
<1>1. Tree!Quiet /\ files.of = treeCwd /\ UNCHANGED <<treeDisk, treeCwd, files, treeLoading, unheard>>
  BY DEF Tree!RowClick, Tree!Waits, Tree!TreeInv, Tree!TopShown
<1>2. CASE ~open.row /\ files.kids \in {None, {}}
  <2>1. PICK c : c = Tree!Call("lazy", treeCwd, Folder, None)
    OBVIOUS
  <2>2. treeCalls' = [treeCalls EXCEPT ![Tree!First(Tree!Free)] = c]
    BY <1>1, <1>2, <2>1 DEF Tree!RowClick
  <2> QED
    BY <1>1, <2>1, <2>2, TreeOperates
<1>3. CASE ~(~open.row /\ files.kids \in {None, {}})
  <2>1. UNCHANGED treeCalls
    BY <1>3 DEF Tree!RowClick
  <2> QED
    BY <1>1, <2>1, TreeUntouched
<1> QED
  BY <1>2, <1>3

\* What the user of the explorer does.
LEMMA TreeUser ==
  ASSUME Tree!FileTreeAssumption, Tree!TreeInv, Tree!User
  PROVE  Tree!TreeInv'
<1>1. CASE Tree!Reload
  <2>1. Tree!Quiet /\ Tree!Fetch(treeCwd, "view") /\ UNCHANGED <<treeDisk, treeCwd, files>>
    BY <1>1 DEF Tree!Reload, Tree!Waits
  <2>2. treeCwd \in Cwd
    BY DEF Tree!TreeInv
  <2> QED
    BY <2>1, <2>2, TreeFetches
<1>2. ASSUME NEW c \in Cwd, Tree!Switch(c) PROVE Tree!TreeInv'
  <2>1. Tree!Quiet /\ Tree!Fetch(c, "view") /\ treeCwd' = c /\ UNCHANGED <<treeDisk, files>>
    BY <1>2 DEF Tree!Switch, Tree!Waits
  <2> QED
    BY <2>1, TreeFetches
<1>3. ASSUME NEW in, NEW n, Tree!Create(in, n) PROVE Tree!TreeInv'
  <2>1. PICK c : c = Tree!Call("create", treeCwd, in, n)
    OBVIOUS
  <2>2. Tree!Quiet /\ treeCalls' = [treeCalls EXCEPT ![Tree!First(Tree!Free)] = c]
        /\ UNCHANGED <<treeDisk, treeCwd, files, treeLoading, unheard>>
    BY <1>3, <2>1 DEF Tree!Create, Tree!Waits
  <2> QED
    BY <2>1, <2>2, TreeOperates
<1>4. ASSUME NEW r, Tree!Delete(r) PROVE Tree!TreeInv'
  <2>1. PICK c : c = Tree!Call("delete", treeCwd, r[1], r[2])
    OBVIOUS
  <2>2. Tree!Quiet /\ files.of = treeCwd
    BY <1>4 DEF Tree!Delete, Tree!Waits, Tree!TreeInv, Tree!TopShown
  <2>3. treeCalls' = [treeCalls EXCEPT ![Tree!First(Tree!Free)] = c]
        /\ UNCHANGED <<treeDisk, treeCwd, files, treeLoading, unheard>>
    BY <1>4, <2>1, <2>2 DEF Tree!Delete
  <2> QED
    BY <2>1, <2>2, <2>3, TreeOperates
<1>5. ASSUME NEW r, NEW n, Tree!Rename(r, n) PROVE Tree!TreeInv'
  BY <1>5, TreeUntouched DEF Tree!Rename, Tree!Refused
<1>6. ASSUME NEW r, NEW in, Tree!Paste(r, in) PROVE Tree!TreeInv'
  BY <1>6, TreeUntouched DEF Tree!Paste, Tree!Refused
<1> QED
  BY <1>1, <1>2, <1>3, <1>4, <1>5, <1>6, TreeRowClick DEF Tree!User

\* The operation is done on the disk.
LEMMA TreePerformed ==
  ASSUME Tree!FileTreeAssumption, Tree!TreeInv, NEW i \in Tree!Slot, Tree!Perform(i)
  PROVE  Tree!TreeInv'
<1>1. treeCalls[i] # Tree!NoCall
  BY DEF Tree!Perform, Tree!NoCall
<1>2. treeCalls[i].cwd = treeCwd /\ Tree!TopShown /\ treeCwd \in Cwd
  BY <1>1 DEF Tree!TreeInv, Tree!CallsFresh, Tree!IsFresh, Tree!Perform, Tree!FileTreeAssumption
<1>3. PICK ok \in BOOLEAN :
         /\ treeCalls' = [treeCalls EXCEPT ![i].ans = ok]
         /\ ~ok => treeDisk' = [treeDisk EXCEPT ![treeCwd] = treeDisk[treeCwd]]
  <2>1. PICK ok : ok = IF treeCalls[i].kind = "create"
                       THEN ~Tree!Has(treeDisk[treeCwd], treeCalls[i].in, treeCalls[i].name)
                       ELSE Tree!Has(treeDisk[treeCwd], treeCalls[i].in, treeCalls[i].name)
    OBVIOUS
  <2>2. ok \in BOOLEAN
    <3>1. CASE treeCalls[i].kind = "create"
      <4>1. ok = ~Tree!Has(treeDisk[treeCwd], treeCalls[i].in, treeCalls[i].name)
        BY <2>1, <3>1
      <4> QED
        BY <4>1
    <3>2. CASE treeCalls[i].kind # "create"
      <4>1. ok = Tree!Has(treeDisk[treeCwd], treeCalls[i].in, treeCalls[i].name)
        BY <2>1, <3>2
      <4>2. CASE treeCalls[i].in = Folder
        BY <4>1, <4>2 DEF Tree!Has
      <4>3. CASE treeCalls[i].in # Folder
        BY <4>1, <4>3 DEF Tree!Has
      <4> QED
        BY <4>2, <4>3
    <3> QED
      BY <3>1, <3>2
  <2>3. treeCalls' = [treeCalls EXCEPT ![i].ans = ok]
    BY <1>2, <2>1 DEF Tree!Perform
  <2>4. ASSUME ~ok PROVE treeDisk' = [treeDisk EXCEPT ![treeCwd] = treeDisk[treeCwd]]
    BY <1>2, <2>1, <2>4 DEF Tree!Perform
  <2> QED
    BY <2>2, <2>3, <2>4
<1>4. PICK c : c = [treeCalls[i] EXCEPT !.ans = ok]
  OBVIOUS
<1>5. Tree!IsCall(c) /\ c.kind = treeCalls[i].kind /\ c.cwd = treeCwd /\ c.ans = ok
  BY <1>2, <1>4 DEF Tree!TreeInv, Tree!OneCall, Tree!IsCall
<1>6. c # Tree!NoCall
  BY <1>5 DEF Tree!Perform, Tree!NoCall
<1>7. treeCalls' = [treeCalls EXCEPT ![i] = c]
  BY <1>3, <1>4
<1>8. Tree!OneCall' /\ ~Tree!Quiet' /\ \A j \in Tree!Slot : treeCalls'[j] # Tree!NoCall => treeCalls'[j] = c
  BY <1>1, <1>5, <1>6, <1>7, TreeGoesOn DEF Tree!TreeInv
<1>9. treeDisk' = [d \in Cwd |-> treeDisk'[d]]
  BY DEF Tree!TreeInv, Tree!Perform
<1>10. ~ok => treeDisk' = treeDisk
  BY <1>2, <1>3 DEF Tree!TreeInv
<1>11. UNCHANGED <<treeCwd, files, treeLoading, unheard>>
  BY DEF Tree!Perform
<1>12. ~ok => Tree!TopShown'
  BY <1>2, <1>10, <1>11 DEF Tree!TopShown
<1>13. Tree!IsFresh(c)'
  <2>1. c.kind \in {"create", "delete"}
    BY <1>5 DEF Tree!Perform
  <2>2. files'.of = treeCwd' /\ ~treeLoading'
    BY <1>2, <1>11 DEF Tree!TopShown
  <2>3. c.ans \in {None} \cup BOOLEAN /\ (c.ans # TRUE => Tree!TopShown')
    BY <1>5, <1>12
  <2> QED
    BY <2>1, <2>2, <2>3 DEF Tree!IsFresh
<1>14. Tree!CallsFresh'
  BY <1>5, <1>8, <1>11, <1>13 DEF Tree!CallsFresh
<1> QED
  BY <1>8, <1>9, <1>11, <1>14 DEF Tree!TreeInv

\* An operation that succeeded is followed by a fetch; one that failed has
\* changed nothing.
LEMMA TreeSettled ==
  ASSUME Tree!FileTreeAssumption, Tree!TreeInv, NEW i \in Tree!Slot, Tree!Performed(i)
  PROVE  Tree!TreeInv'
<1>1. treeCalls[i] # Tree!NoCall
  BY DEF Tree!Performed, Tree!NoCall
<1>2. UNCHANGED <<treeDisk, treeCwd, files, treeLoading, unheard>> /\ treeCwd \in Cwd
  BY DEF Tree!Performed, Tree!TreeInv
<1>3. treeCalls[i].cwd = treeCwd /\ files.of = treeCwd /\ ~treeLoading /\ treeCalls[i].ans \in BOOLEAN
      /\ (treeCalls[i].ans # TRUE => Tree!TopShown)
  BY <1>1 DEF Tree!TreeInv, Tree!CallsFresh, Tree!IsFresh, Tree!Performed
<1>4. CASE treeCalls[i].ans
  <2>1. PICK c : c = Tree!Call("fetch", treeCwd, "silent", None)
    OBVIOUS
  <2>2. Tree!IsCall(c) /\ c # Tree!NoCall /\ c.kind = "fetch" /\ c.cwd = treeCwd /\ c.ans = None
    BY <2>1, TreeCalled
  <2>3. treeCalls' = [treeCalls EXCEPT ![i] = c]
    BY <1>3, <1>4, <2>1 DEF Tree!Performed
  <2>4. Tree!OneCall' /\ ~Tree!Quiet' /\ \A j \in Tree!Slot : treeCalls'[j] # Tree!NoCall => treeCalls'[j] = c
    BY <1>1, <2>2, <2>3, TreeGoesOn DEF Tree!TreeInv
  <2>5. Tree!IsFresh(c)'
    BY <1>2, <1>3, <2>2 DEF Tree!IsFresh
  <2>6. Tree!CallsFresh'
    BY <1>2, <2>2, <2>4, <2>5 DEF Tree!CallsFresh
  <2> QED
    BY <1>2, <2>4, <2>6 DEF Tree!TreeInv
<1>5. CASE ~treeCalls[i].ans
  <2>1. treeCalls' = [treeCalls EXCEPT ![i] = Tree!NoCall]
    BY <1>5 DEF Tree!Performed
  <2>2. Tree!IsCall(Tree!NoCall)
    BY DEF Tree!IsCall, Tree!NoCall
  <2>3. Tree!OneCall' /\ \A j \in Tree!Slot : treeCalls'[j] = Tree!NoCall
    BY <1>1, <2>1, <2>2, TreeGoesOn DEF Tree!TreeInv
  <2>4. Tree!CallsFresh'
    BY <2>3 DEF Tree!CallsFresh
  <2>5. Tree!TopShown'
    BY <1>2, <1>3, <1>5 DEF Tree!TopShown
  <2> QED
    BY <1>2, <2>3, <2>4, <2>5 DEF Tree!TreeInv
<1> QED
  BY <1>4, <1>5

\* The listing of a directory is read: it is what is on disk, and nothing that
\* happened before is unheard of any more.
LEMMA TreeRead ==
  ASSUME Tree!FileTreeAssumption, Tree!TreeInv, NEW i \in Tree!Slot, Tree!Read(i)
  PROVE  Tree!TreeInv'
<1>1. treeCalls[i] # Tree!NoCall
  BY DEF Tree!Read, Tree!NoCall
<1>2. treeCalls[i].cwd = treeCwd /\ Tree!IsFresh(treeCalls[i])
  BY <1>1 DEF Tree!TreeInv, Tree!CallsFresh
<1>3. UNCHANGED <<treeDisk, treeCwd, files, treeLoading>>
  BY DEF Tree!Read
<1>4. PICK a : a = IF treeCalls[i].kind = "fetch" THEN [ok |-> TRUE, rows |-> treeDisk[treeCwd].root]
                   ELSE [ok |-> Folder \in treeDisk[treeCwd].root, rows |-> treeDisk[treeCwd].inside]
  OBVIOUS
<1>5. PICK c : c = [treeCalls[i] EXCEPT !.ans = a]
  OBVIOUS
<1>6. Tree!IsCall(c) /\ c.kind = treeCalls[i].kind /\ c.cwd = treeCwd /\ c.in = treeCalls[i].in /\ c.ans = a
  BY <1>2, <1>5 DEF Tree!TreeInv, Tree!OneCall, Tree!IsCall
<1>7. c # Tree!NoCall
  BY <1>6 DEF Tree!Read, Tree!NoCall
<1>8. treeCalls' = [treeCalls EXCEPT ![i] = c]
  BY <1>2, <1>4, <1>5 DEF Tree!Read
<1>9. Tree!OneCall' /\ ~Tree!Quiet' /\ \A j \in Tree!Slot : treeCalls'[j] # Tree!NoCall => treeCalls'[j] = c
  BY <1>1, <1>6, <1>7, <1>8, TreeGoesOn DEF Tree!TreeInv
<1>10. Tree!IsFresh(c)'
  <2>1. CASE treeCalls[i].kind = "fetch"
    <3>1. treeLoading => c.in = "view"
      BY <1>2, <1>6, <2>1 DEF Tree!IsFresh
    <3>2. c.ans.rows = treeDisk[treeCwd].root
      BY <1>4, <1>6, <2>1
    <3> QED
      BY <1>3, <1>6, <2>1, <3>1, <3>2 DEF Tree!IsFresh
  <2>2. CASE treeCalls[i].kind = "lazy"
    <3>1. Tree!TopShown /\ (~unheard' => ~unheard)
      BY <1>2, <2>2 DEF Tree!IsFresh, Tree!Read
    <3>2. Tree!TopShown'
      BY <1>3, <3>1 DEF Tree!TopShown
    <3> QED
      BY <1>6, <2>2, <3>2 DEF Tree!IsFresh
  <2> QED
    BY <2>1, <2>2 DEF Tree!Read
<1>11. Tree!CallsFresh'
  BY <1>3, <1>6, <1>9, <1>10 DEF Tree!CallsFresh
<1> QED
  BY <1>3, <1>9, <1>11 DEF Tree!TreeInv

\* A listing arrives.
LEMMA TreeAnswered ==
  ASSUME Tree!FileTreeAssumption, Tree!TreeInv, NEW i \in Tree!Slot, Tree!Answered(i)
  PROVE  Tree!TreeInv'
<1>1. treeCalls[i] # Tree!NoCall
  BY DEF Tree!Answered, Tree!NoCall
<1>2. treeCalls[i].cwd = treeCwd /\ Tree!IsFresh(treeCalls[i]) /\ treeCalls[i].ans # None
  BY <1>1 DEF Tree!TreeInv, Tree!CallsFresh, Tree!Answered
<1>3. treeCalls' = [treeCalls EXCEPT ![i] = Tree!NoCall] /\ UNCHANGED <<treeDisk, treeCwd, unheard>>
  BY DEF Tree!Answered
<1>4. Tree!IsCall(Tree!NoCall)
  BY DEF Tree!IsCall, Tree!NoCall
<1>5. Tree!OneCall' /\ \A j \in Tree!Slot : treeCalls'[j] = Tree!NoCall
  BY <1>1, <1>3, <1>4, TreeGoesOn DEF Tree!TreeInv
<1>6. Tree!CallsFresh'
  BY <1>5 DEF Tree!CallsFresh
<1>7. CASE treeCalls[i].kind = "fetch"
  <2>1. files' = Tree!Merged(treeCwd, treeCalls[i].ans.rows)
        /\ treeLoading' = (treeLoading /\ treeCalls[i].in # "view")
    BY <1>2, <1>7 DEF Tree!Answered
  <2>2. files' = [of |-> files'.of, root |-> files'.root, kids |-> files'.kids]
        /\ files'.of = treeCwd /\ files'.root = treeCalls[i].ans.rows
    BY <2>1 DEF Tree!Merged
  <2>3. (treeLoading => treeCalls[i].in = "view") /\ (~unheard => treeCalls[i].ans.rows = treeDisk[treeCwd].root)
    BY <1>2, <1>7 DEF Tree!IsFresh
  <2>4. Tree!TopShown'
    BY <1>3, <2>1, <2>2, <2>3 DEF Tree!TopShown
  <2> QED
    BY <1>3, <1>5, <1>6, <2>2, <2>4 DEF Tree!TreeInv
<1>8. CASE treeCalls[i].kind = "lazy"
  <2>1. Tree!TopShown /\ treeLoading' = treeLoading
    BY <1>2, <1>8 DEF Tree!IsFresh, Tree!Answered
  <2>2. files' = files \/ files' = [files EXCEPT !.kids = treeCalls[i].ans.rows]
    BY <1>8 DEF Tree!Answered
  <2>3. files' = [of |-> files'.of, root |-> files'.root, kids |-> files'.kids]
        /\ files'.of = files.of /\ files'.root = files.root
    BY <2>2 DEF Tree!TreeInv
  <2>4. Tree!TopShown'
    BY <1>3, <2>1, <2>3 DEF Tree!TopShown
  <2> QED
    BY <1>3, <1>5, <1>6, <2>3, <2>4 DEF Tree!TreeInv
<1> QED
  BY <1>7, <1>8 DEF Tree!Answered

\* The explorer of the workbench keeps its invariant.
LEMMA TreeSafe ==
  ASSUME Tree!FileTreeAssumption
  PROVE  Spec => []Tree!TreeInv
<1>1. Init => Tree!TreeInv
  BY TreeInit DEF Init
<1>2. Tree!TreeInv /\ [Next]_vars => Tree!TreeInv'
  <2>1. ASSUME Tree!TreeInv, Tree!Next PROVE Tree!TreeInv'
    <3>1. ASSUME Tree!FileSystemChanged PROVE Tree!TreeInv'
      <4>1. Tree!Quiet /\ Tree!Fetch(treeCwd, "silent") /\ UNCHANGED <<treeDisk, treeCwd, files>> /\ treeCwd \in Cwd
        BY <2>1, <3>1 DEF Tree!FileSystemChanged, Tree!Waits, Tree!TreeInv
      <4> QED
        BY <2>1, <4>1, TreeFetches
    <3> QED
      BY <2>1, <3>1, TreeUser, TreeOutside, TreePerformed, TreeSettled, TreeRead, TreeAnswered DEF Tree!Next
  <2>2. ASSUME Tree!TreeInv, UNCHANGED treeV PROVE Tree!TreeInv'
    BY <2>2, TreeUntouched DEF treeV
  <2>3. [Next]_vars => Tree!Next \/ UNCHANGED treeV
    BY DEF Next, NextFiles, NextShells, NextEditors, vars, filesV
  <2> QED
    BY <2>1, <2>2, <2>3
<1> QED
  BY <1>1, <1>2, PTL DEF Spec

(***************************************************************************)
(* The panes of the editor.  A file has one tab in a pane at most, so that *)
(* taking one out is taking out a position.                                *)
(***************************************************************************)
\* A tab is taken out of a pane, or put into it.
LEMMA TabRemoved ==
  ASSUME NEW S, NEW s \in Seq(S), Panes!IsInjective(s), NEW i \in DOMAIN s, NEW t, t = Panes!RemoveAt(s, i)
  PROVE  /\ t \in Seq(S) /\ Panes!IsInjective(t)
         /\ \A x : x \in Panes!ToSet(t) <=> x \in Panes!ToSet(s) /\ x # s[i]
<1>1. Len(s) \in Nat /\ DOMAIN s = 1..Len(s) /\ i \in 1..Len(s)
  OBVIOUS
<1>2. /\ t \in Seq(S) /\ Len(t) = Len(s) - 1 /\ DOMAIN t = 1..(Len(s) - 1)
      /\ \A j \in DOMAIN t : t[j] = IF j < i THEN s[j] ELSE s[j + 1]
  <2>1. PICK a, b : a = SubSeq(s, 1, i - 1) /\ b = SubSeq(s, i + 1, Len(s))
    OBVIOUS
  <2>2. a \in Seq(S) /\ Len(a) = i - 1 /\ \A j \in 1..(i - 1) : a[j] = s[j]
    BY <1>1, <2>1
  <2>3. b \in Seq(S) /\ Len(b) = Len(s) - i /\ \A j \in 1..(Len(s) - i) : b[j] = s[j + i]
    BY <1>1, <2>1
  <2>4. t = a \o b
    BY <2>1 DEF Panes!RemoveAt
  <2>5. t \in Seq(S) /\ Len(t) = Len(s) - 1 /\ DOMAIN t = 1..(Len(s) - 1)
    <3>1. t \in Seq(S) /\ Len(t) = Len(a) + Len(b)
      BY <2>2, <2>3, <2>4
    <3> QED
      BY <1>1, <2>2, <2>3, <3>1
  <2>6. \A j \in DOMAIN t : t[j] = IF j <= Len(a) THEN a[j] ELSE b[j - Len(a)]
    BY <2>2, <2>3, <2>4
  <2> QED
    <3>1. SUFFICES ASSUME NEW j \in DOMAIN t PROVE t[j] = IF j < i THEN s[j] ELSE s[j + 1]
      BY <2>5
    <3>2. CASE j < i
      BY <1>1, <2>2, <2>5, <2>6, <3>2
    <3>3. CASE ~(j < i)
      <4>1. j - Len(a) = j - (i - 1) /\ j - (i - 1) \in 1..(Len(s) - i) /\ (j - (i - 1)) + i = j + 1 /\ ~(j <= Len(a))
        BY <1>1, <2>2, <2>5, <3>3
      <4>2. t[j] = b[j - (i - 1)] /\ b[j - (i - 1)] = s[(j - (i - 1)) + i]
        BY <2>3, <2>6, <4>1
      <4> QED
        BY <3>3, <4>1, <4>2
    <3> QED
      BY <3>2, <3>3
<1>3. Panes!IsInjective(t)
  BY <1>1, <1>2 DEF Panes!IsInjective
<1>4. \A j \in DOMAIN t : \E k \in DOMAIN s : k # i /\ t[j] = s[k]
  <2> SUFFICES ASSUME NEW j \in DOMAIN t PROVE \E k \in DOMAIN s : k # i /\ t[j] = s[k]
    OBVIOUS
  <2>1. CASE j < i
    BY <1>1, <1>2, <2>1
  <2>2. CASE ~(j < i)
    <3>1. j + 1 \in DOMAIN s /\ j + 1 # i /\ t[j] = s[j + 1]
      BY <1>1, <1>2, <2>2
    <3> QED
      BY <3>1
  <2> QED
    BY <2>1, <2>2
<1>5. \A k \in DOMAIN s : k # i => \E j \in DOMAIN t : t[j] = s[k]
  <2> SUFFICES ASSUME NEW k \in DOMAIN s, k # i PROVE \E j \in DOMAIN t : t[j] = s[k]
    OBVIOUS
  <2>1. CASE k < i
    <3>1. k \in DOMAIN t /\ t[k] = s[k]
      BY <1>1, <1>2, <2>1
    <3> QED
      BY <3>1
  <2>2. CASE ~(k < i)
    <3>1. k - 1 \in DOMAIN t /\ t[k - 1] = s[k]
      BY <1>1, <1>2, <2>2
    <3> QED
      BY <3>1
  <2> QED
    BY <2>1, <2>2
<1>6. \A x : x \in Panes!ToSet(t) <=> \E j \in DOMAIN t : x = t[j]
  BY DEF Panes!ToSet
<1>7. \A x : x \in Panes!ToSet(s) <=> \E k \in DOMAIN s : x = s[k]
  BY DEF Panes!ToSet
<1>8. PICK e : e = s[i]
  OBVIOUS
<1>9. \A k \in DOMAIN s : k # i <=> s[k] # e
  BY <1>8 DEF Panes!IsInjective
<1>10. \A x : x \in Panes!ToSet(t) => x \in Panes!ToSet(s) /\ x # e
  BY <1>4, <1>6, <1>7, <1>9
<1>11. \A x : x \in Panes!ToSet(s) /\ x # e => x \in Panes!ToSet(t)
  BY <1>5, <1>6, <1>7, <1>9
<1> QED
  BY <1>2, <1>3, <1>8, <1>10, <1>11

LEMMA TabInserted ==
  ASSUME NEW S, NEW s \in Seq(S), Panes!IsInjective(s), NEW k \in 1..(Len(s) + 1), NEW e \in S, e \notin Panes!ToSet(s),
         NEW t, t = Panes!InsertAt(s, k, e)
  PROVE  /\ t \in Seq(S) /\ Panes!IsInjective(t)
         /\ \A x : x \in Panes!ToSet(t) <=> x \in Panes!ToSet(s) \/ x = e
<1>1. Len(s) \in Nat /\ DOMAIN s = 1..Len(s)
  OBVIOUS
<1>2. /\ t \in Seq(S) /\ Len(t) = Len(s) + 1 /\ DOMAIN t = 1..(Len(s) + 1)
      /\ \A j \in DOMAIN t : t[j] = IF j < k THEN s[j] ELSE IF j = k THEN e ELSE s[j - 1]
  <2>1. PICK a, b, c : a = SubSeq(s, 1, k - 1) /\ b = SubSeq(s, k, Len(s)) /\ c = a \o <<e>>
    OBVIOUS
  <2>2. a \in Seq(S) /\ Len(a) = k - 1 /\ \A j \in 1..(k - 1) : a[j] = s[j]
    BY <1>1, <2>1
  <2>3. b \in Seq(S) /\ Len(b) = Len(s) - k + 1 /\ \A j \in 1..(Len(s) - k + 1) : b[j] = s[j + k - 1]
    BY <1>1, <2>1
  <2>4. /\ c \in Seq(S) /\ Len(c) = k
        /\ c[k] = e /\ \A j \in 1..(k - 1) : c[j] = s[j]
    BY <1>1, <2>1, <2>2
  <2>5. t = c \o b
    BY <2>1 DEF Panes!InsertAt
  <2>6. t \in Seq(S) /\ Len(t) = Len(s) + 1 /\ DOMAIN t = 1..(Len(s) + 1)
    <3>1. t \in Seq(S) /\ Len(t) = Len(c) + Len(b)
      BY <2>3, <2>4, <2>5
    <3> QED
      BY <1>1, <2>3, <2>4, <3>1
  <2>7. \A j \in DOMAIN t : t[j] = IF j <= Len(c) THEN c[j] ELSE b[j - Len(c)]
    BY <2>3, <2>4, <2>5
  <2> QED
    <3>1. SUFFICES ASSUME NEW j \in DOMAIN t
                   PROVE  t[j] = IF j < k THEN s[j] ELSE IF j = k THEN e ELSE s[j - 1]
      BY <2>6
    <3>2. CASE j <= k
      BY <1>1, <2>4, <2>6, <2>7, <3>2
    <3>3. CASE ~(j <= k)
      <4>1. j - k \in 1..(Len(s) - k + 1) /\ (j - k) + k - 1 = j - 1 /\ ~(j <= Len(c)) /\ ~(j < k) /\ j # k
        BY <1>1, <2>4, <2>6, <3>3
      <4>2. t[j] = b[j - k] /\ b[j - k] = s[(j - k) + k - 1]
        BY <2>3, <2>4, <2>7, <4>1
      <4> QED
        BY <4>1, <4>2
    <3> QED
      BY <3>2, <3>3
<1>3. \A j \in DOMAIN s : s[j] # e
  BY DEF Panes!ToSet
<1>4. Panes!IsInjective(t)
  <2> SUFFICES ASSUME NEW a \in DOMAIN t, NEW b \in DOMAIN t, t[a] = t[b] PROVE a = b
    BY DEF Panes!IsInjective
  <2>1. \A j \in DOMAIN t : j # k =>
          t[j] = s[IF j < k THEN j ELSE j - 1] /\ (IF j < k THEN j ELSE j - 1) \in DOMAIN s
    BY <1>1, <1>2
  <2>2. CASE a = k \/ b = k
    BY <1>2, <1>3, <2>1, <2>2
  <2>3. CASE a # k /\ b # k
    <3>1. (IF a < k THEN a ELSE a - 1) = (IF b < k THEN b ELSE b - 1)
      BY <2>1, <2>3 DEF Panes!IsInjective
    <3> QED
      BY <1>2, <2>3, <3>1
  <2> QED
    BY <2>2, <2>3
<1>5. k \in DOMAIN t /\ t[k] = e
  BY <1>1, <1>2
<1>6. \A j \in DOMAIN t : t[j] = e \/ \E m \in DOMAIN s : t[j] = s[m]
  <2> SUFFICES ASSUME NEW j \in DOMAIN t, j # k PROVE \E m \in DOMAIN s : t[j] = s[m]
    BY <1>5
  <2>1. CASE j < k
    BY <1>1, <1>2, <2>1
  <2>2. CASE ~(j < k)
    <3>1. j - 1 \in DOMAIN s /\ t[j] = s[j - 1]
      BY <1>1, <1>2, <2>2
    <3> QED
      BY <3>1
  <2> QED
    BY <2>1, <2>2
<1>7. \A m \in DOMAIN s : \E j \in DOMAIN t : t[j] = s[m]
  <2> SUFFICES ASSUME NEW m \in DOMAIN s PROVE \E j \in DOMAIN t : t[j] = s[m]
    OBVIOUS
  <2>1. CASE m < k
    <3>1. m \in DOMAIN t /\ t[m] = s[m]
      BY <1>1, <1>2, <2>1
    <3> QED
      BY <3>1
  <2>2. CASE ~(m < k)
    <3>1. m + 1 \in DOMAIN t /\ t[m + 1] = s[m]
      BY <1>1, <1>2, <2>2
    <3> QED
      BY <3>1
  <2> QED
    BY <2>1, <2>2
<1> QED
  BY <1>2, <1>4, <1>5, <1>6, <1>7 DEF Panes!ToSet

LEMMA TabFiltered ==
  ASSUME NEW S, NEW s \in Seq(S), Panes!IsInjective(s), NEW p, NEW t, t = Panes!Without(s, p)
  PROVE  /\ t \in Seq(S) /\ Panes!IsInjective(t)
         /\ \A x : x \in Panes!ToSet(t) <=> x \in Panes!ToSet(s) /\ x # p
<1>1. CASE p \in Panes!ToSet(s)
  <2>1. PICK i : i = CHOOSE k \in DOMAIN s : s[k] = p
    OBVIOUS
  <2>2. i \in DOMAIN s /\ s[i] = p
    BY <1>1, <2>1 DEF Panes!ToSet
  <2>3. t = Panes!RemoveAt(s, i)
    BY <1>1, <2>1 DEF Panes!Without
  <2> QED
    BY <2>2, <2>3, TabRemoved
<1>2. CASE p \notin Panes!ToSet(s)
  BY <1>2 DEF Panes!Without
<1> QED
  BY <1>1, <1>2

\* A pane as a record, and what makes a record one.
LEMMA PaneFields ==
  ASSUME NEW x, Panes!PaneOK(x)
  PROVE  /\ x = [files |-> x.files, shown |-> x.shown]
         /\ x.files \in Seq(Files) /\ x.shown \in Files \cup {None}
         /\ Panes!IsInjective(x.files) /\ x.shown \in Panes!ToSet(x.files) \cup {None}
<1>1. x \in Panes!Pane
  BY DEF Panes!PaneOK
<1>2. x = [files |-> x.files, shown |-> x.shown] /\ x.files \in Seq(Files) /\ x.shown \in Files \cup {None}
  BY <1>1 DEF Panes!Pane
<1> QED
  BY <1>2 DEF Panes!PaneOK

LEMMA PaneMade ==
  ASSUME NEW fs \in Seq(Files), NEW f \in Panes!ToSet(fs) \cup {None}, Panes!IsInjective(fs),
         NEW x, x = [files |-> fs, shown |-> f]
  PROVE  Panes!PaneOK(x) /\ x.files = fs
<1>1. f \in Files \cup {None}
  BY DEF Panes!ToSet
<1>2. x \in Panes!Pane /\ x.files = fs /\ x.shown = f
  BY <1>1 DEF Panes!Pane
<1> QED
  BY <1>2 DEF Panes!PaneOK

\* The last of the tabs is one of them.
LEMMA LastIsTab ==
  ASSUME NEW fs \in Seq(Files)
  PROVE  Panes!Last1(fs) \in Panes!ToSet(fs) \cup {None}
<1>1. CASE fs = <<>>
  BY <1>1 DEF Panes!Last1
<1>2. CASE fs # <<>>
  <2>1. Len(fs) \in DOMAIN fs
    BY <1>2
  <2> QED
    BY <1>2, <2>1 DEF Panes!Last1, Panes!ToSet
<1> QED
  BY <1>1, <1>2

\* The empty pane, and a pane of one tab.
LEMMA SmallPanes ==
  /\ Panes!PaneOK(Panes!EmptyPane)
  /\ \A p \in Files : Panes!PaneOK([files |-> <<p>>, shown |-> p])
<1>1. Panes!PaneOK(Panes!EmptyPane)
  <2>1. Panes!IsInjective(<<>>) /\ <<>> \in Seq(Files)
    BY DEF Panes!IsInjective
  <2> QED
    BY <2>1, PaneMade DEF Panes!EmptyPane
<1>2. ASSUME NEW p \in Files PROVE Panes!PaneOK([files |-> <<p>>, shown |-> p])
  <2>1. PICK s : s = <<p>>
    OBVIOUS
  <2>2. s \in Seq(Files) /\ DOMAIN s = {1} /\ s[1] = p
    BY <2>1
  <2>3. Panes!IsInjective(s) /\ p \in Panes!ToSet(s)
    BY <2>2 DEF Panes!IsInjective, Panes!ToSet
  <2> QED
    BY <2>1, <2>2, <2>3, PaneMade
<1> QED
  BY <1>1, <1>2

\* Opening, closing and moving a tab leave a pane one.
LEMMA PaneOpened ==
  ASSUME NEW x, Panes!PaneOK(x), NEW p \in Files
  PROVE  Panes!PaneOK(Panes!Opened(x, p))
<1>1. x.files \in Seq(Files) /\ Panes!IsInjective(x.files)
  BY PaneFields
<1>2. CASE p \in Panes!ToSet(x.files)
  BY <1>1, <1>2, PaneMade DEF Panes!Opened
<1>3. CASE p \notin Panes!ToSet(x.files)
  <2>1. PICK s : s = Append(x.files, p)
    OBVIOUS
  <2>2. /\ s \in Seq(Files) /\ Len(x.files) \in Nat /\ DOMAIN x.files = 1..Len(x.files)
        /\ DOMAIN s = 1..(Len(x.files) + 1) /\ s[Len(x.files) + 1] = p
        /\ \A i \in DOMAIN x.files : s[i] = x.files[i]
    BY <1>1, <2>1
  <2>3. \A i \in DOMAIN x.files : x.files[i] # p
    BY <1>3 DEF Panes!ToSet
  <2>4. Panes!IsInjective(s)
    BY <1>1, <2>2, <2>3 DEF Panes!IsInjective
  <2>5. p \in Panes!ToSet(s)
    BY <2>2 DEF Panes!ToSet
  <2> QED
    BY <1>3, <2>1, <2>2, <2>4, <2>5, PaneMade DEF Panes!Opened
<1> QED
  BY <1>2, <1>3

LEMMA PaneClosed ==
  ASSUME NEW x, Panes!PaneOK(x), NEW p
  PROVE  /\ Panes!PaneOK(Panes!Closed(x, p))
         /\ \A f : f \in Panes!ToSet(Panes!Closed(x, p).files) <=> f \in Panes!ToSet(x.files) /\ f # p
<1>1. /\ x.files \in Seq(Files) /\ Panes!IsInjective(x.files)
      /\ x.shown \in Panes!ToSet(x.files) \cup {None}
  BY PaneFields
<1>2. PICK t : t = Panes!Without(x.files, p)
  OBVIOUS
<1>3. /\ t \in Seq(Files) /\ Panes!IsInjective(t)
      /\ \A f : f \in Panes!ToSet(t) <=> f \in Panes!ToSet(x.files) /\ f # p
  BY <1>1, <1>2, TabFiltered
<1>4. PICK g : g = IF x.shown = p THEN Panes!Last1(t) ELSE x.shown
  OBVIOUS
<1>5. g \in Panes!ToSet(t) \cup {None}
  BY <1>1, <1>3, <1>4, LastIsTab
<1>6. Panes!Closed(x, p) = [files |-> t, shown |-> g]
  BY <1>2, <1>4 DEF Panes!Closed
<1> QED
  BY <1>3, <1>5, <1>6, PaneMade

LEMMA PaneReceived ==
  ASSUME NEW x, Panes!PaneOK(x), NEW p \in Files, NEW to \in Nat
  PROVE  /\ Panes!PaneOK(Panes!Received(x, to, p))
         /\ \A f : f \in Panes!ToSet(Panes!Received(x, to, p).files) <=> f \in Panes!ToSet(x.files) \/ f = p
<1>1. x.files \in Seq(Files) /\ Panes!IsInjective(x.files)
  BY PaneFields
<1>2. PICK r : r = Panes!Without(x.files, p)
  OBVIOUS
<1>3. /\ r \in Seq(Files) /\ Panes!IsInjective(r)
      /\ \A f : f \in Panes!ToSet(r) <=> f \in Panes!ToSet(x.files) /\ f # p
  BY <1>1, <1>2, TabFiltered
<1>4. PICK k : k = Panes!OneOf(to, 1, Len(r) + 1)
  OBVIOUS
<1>5. k \in 1..(Len(r) + 1)
  BY <1>3, <1>4 DEF Panes!OneOf
<1>6. PICK t : t = Panes!InsertAt(r, k, p)
  OBVIOUS
<1>7. /\ t \in Seq(Files) /\ Panes!IsInjective(t)
      /\ \A f : f \in Panes!ToSet(t) <=> f \in Panes!ToSet(r) \/ f = p
  BY <1>3, <1>5, <1>6, TabInserted
<1>8. Panes!Received(x, to, p) = [files |-> t, shown |-> p]
  BY <1>2, <1>4, <1>6 DEF Panes!Received
<1> QED
  BY <1>3, <1>7, <1>8, PaneMade

LEMMA PaneReordered ==
  ASSUME NEW x, Panes!PaneOK(x), NEW i \in DOMAIN x.files, NEW to \in Nat
  PROVE  /\ Panes!PaneOK(Panes!MovedWithin(x, i, to, x.files[i]))
         /\ \A f : f \in Panes!ToSet(Panes!MovedWithin(x, i, to, x.files[i]).files) <=> f \in Panes!ToSet(x.files)
<1>1. x.files \in Seq(Files) /\ Panes!IsInjective(x.files) /\ x.files[i] \in Files /\ i \in Nat
  BY PaneFields
<1>2. PICK p, r : p = x.files[i] /\ r = Panes!RemoveAt(x.files, i)
  OBVIOUS
<1>3. /\ r \in Seq(Files) /\ Panes!IsInjective(r)
      /\ \A f : f \in Panes!ToSet(r) <=> f \in Panes!ToSet(x.files) /\ f # p
  BY <1>1, <1>2, TabRemoved
<1>4. PICK k : k = Panes!OneOf(IF i < to THEN to - 1 ELSE to, 1, Len(r) + 1)
  OBVIOUS
<1>5. k \in 1..(Len(r) + 1)
  BY <1>1, <1>3, <1>4 DEF Panes!OneOf
<1>6. PICK t : t = Panes!InsertAt(r, k, p)
  OBVIOUS
<1>7. /\ t \in Seq(Files) /\ Panes!IsInjective(t)
      /\ \A f : f \in Panes!ToSet(t) <=> f \in Panes!ToSet(r) \/ f = p
  BY <1>1, <1>2, <1>3, <1>5, <1>6, TabInserted
<1>8. Panes!MovedWithin(x, i, to, x.files[i]) = [files |-> t, shown |-> p]
  BY <1>2, <1>4, <1>6 DEF Panes!MovedWithin
<1>9. p \in Panes!ToSet(x.files)
  BY <1>2 DEF Panes!ToSet
<1> QED
  BY <1>3, <1>7, <1>8, <1>9, PaneMade

\* What a handler that leaves no open and no drag behind has to show.
LEMMA PanesSynced ==
  ASSUME Panes!PanesInv, NEW ps \in Seq(Panes!Pane), Len(ps) \in 1..MaxPanes,
         \A i \in DOMAIN ps : Panes!PaneOK(ps[i]), NEW j \in DOMAIN ps, Panes!Synced(ps, j),
         \A o \in opening' : o.pane \in DOMAIN ps /\ o.path \in Files, drag' = Panes!NoDrag, ~torn'
  PROVE  Panes!PanesInv'
<1>1. panes' = ps /\ focused' = j /\ hook' = ps[j]
  BY DEF Panes!Synced
<1> QED
  BY <1>1 DEF Panes!PanesInv, Panes!PaneOK

\* It changes one pane,
LEMMA PaneChanged ==
  ASSUME Panes!PanesInv, NEW i \in DOMAIN panes, NEW x, Panes!PaneOK(x), NEW j \in DOMAIN panes,
         Panes!Synced([panes EXCEPT ![i] = x], j),
         opening' \subseteq opening, drag' = Panes!NoDrag, torn' = torn
  PROVE  Panes!PanesInv'
<1>1. panes \in Seq(Panes!Pane) /\ Len(panes) \in 1..MaxPanes /\ x \in Panes!Pane
  BY DEF Panes!PanesInv, Panes!PaneOK
<1>2. PICK ps : ps = [panes EXCEPT ![i] = x]
  OBVIOUS
<1>3. ps \in Seq(Panes!Pane) /\ Len(ps) = Len(panes) /\ DOMAIN ps = DOMAIN panes
  BY <1>1, <1>2
<1>4. \A k \in DOMAIN ps : ps[k] = x \/ ps[k] = panes[k]
  BY <1>1, <1>2, <1>3
<1>5. \A k \in DOMAIN ps : Panes!PaneOK(ps[k])
  BY <1>3, <1>4 DEF Panes!PanesInv
<1>6. (\A o \in opening' : o.pane \in DOMAIN ps /\ o.path \in Files) /\ ~torn'
  BY <1>3 DEF Panes!PanesInv
<1>7. Panes!Synced(ps, j) /\ Len(ps) \in 1..MaxPanes /\ j \in DOMAIN ps
  BY <1>1, <1>2, <1>3
<1> QED
  BY <1>3, <1>5, <1>6, <1>7, PanesSynced

\* or adds one.
LEMMA PaneAdded ==
  ASSUME Panes!PanesAssumption, Panes!PanesInv, NEW x, Panes!PaneOK(x), Len(panes) < MaxPanes,
         Panes!Synced(Append(panes, x), Len(panes) + 1),
         opening = {}, opening' = opening, drag' = Panes!NoDrag, torn' = torn
  PROVE  Panes!PanesInv'
<1>1. panes \in Seq(Panes!Pane) /\ Len(panes) \in 1..MaxPanes /\ x \in Panes!Pane /\ MaxPanes \in Nat
  BY DEF Panes!PanesInv, Panes!PaneOK, Panes!PanesAssumption
<1>2. PICK ps : ps = Append(panes, x)
  OBVIOUS
<1>3. /\ ps \in Seq(Panes!Pane) /\ Len(ps) = Len(panes) + 1 /\ DOMAIN ps = 1..(Len(panes) + 1)
      /\ DOMAIN panes = 1..Len(panes) /\ ps[Len(panes) + 1] = x /\ \A k \in DOMAIN panes : ps[k] = panes[k]
  BY <1>1, <1>2
<1>4. \A k \in DOMAIN ps : Panes!PaneOK(ps[k])
  BY <1>1, <1>3 DEF Panes!PanesInv
<1>5. Len(ps) \in 1..MaxPanes /\ Len(panes) + 1 \in DOMAIN ps /\ Panes!Synced(ps, Len(panes) + 1)
  BY <1>1, <1>2, <1>3
<1>6. ~torn' /\ \A o \in opening' : o.pane \in DOMAIN ps /\ o.path \in Files
  BY DEF Panes!PanesInv
<1> QED
  BY <1>3, <1>4, <1>5, <1>6, PanesSynced

\* The steps that open and close tabs.
LEMMA PanesOpen ==
  ASSUME Panes!PanesAssumption, Panes!PanesInv, NEW p \in Files,
         Panes!Open(p) \/ Panes!OpenLater(p) \/ Panes!SavedAs(p) \/ Panes!OpenSide(p)
  PROVE  Panes!PanesInv'
<1>1. /\ panes \in Seq(Panes!Pane) /\ Len(panes) \in 1..MaxPanes /\ MaxPanes \in Nat
      /\ focused \in DOMAIN panes /\ 1 \in DOMAIN panes /\ Panes!PaneOK(panes[focused])
  BY DEF Panes!PanesInv, Panes!PanesAssumption
<1>2. opening = {} /\ drag = Panes!NoDrag
  BY DEF Panes!Open, Panes!OpenLater, Panes!SavedAs, Panes!OpenSide, Panes!Calm
<1>3. Panes!PaneOK(Panes!Opened(panes[focused], p))
  BY <1>1, PaneOpened
<1>4. CASE Panes!Open(p)
  BY <1>1, <1>2, <1>3, <1>4, PaneChanged DEF Panes!Open, Panes!OpenIn
<1>5. CASE Panes!OpenLater(p) \/ Panes!SavedAs(p)
  BY <1>1, <1>2, <1>5 DEF Panes!OpenLater, Panes!SavedAs, Panes!PanesInv, Panes!PaneOK
<1>6. CASE Panes!OpenSide(p)
  <2>1. CASE Len(panes) >= MaxPanes
    BY <1>1, <1>2, <1>3, <1>6, <2>1, PaneChanged DEF Panes!OpenSide
  <2>2. CASE ~(Len(panes) >= MaxPanes)
    <3>1. PICK x : x = [files |-> <<p>>, shown |-> p]
      OBVIOUS
    <3>2. Len(panes) < MaxPanes /\ Panes!PaneOK(x)
      BY <1>1, <2>2, <3>1, SmallPanes
    <3>3. Panes!Synced(Append(panes, x), Len(panes) + 1) /\ UNCHANGED <<opening, drag, torn>>
      BY <1>6, <2>2, <3>1 DEF Panes!OpenSide
    <3> QED
      BY <1>2, <3>2, <3>3, PaneAdded
  <2> QED
    BY <2>1, <2>2
<1> QED
  BY <1>4, <1>5, <1>6

LEMMA PanesOpenNow ==
  ASSUME Panes!PanesInv, NEW o \in opening, Panes!OpenNow(o)
  PROVE  Panes!PanesInv'
<1>1. o.pane \in DOMAIN panes /\ o.path \in Files /\ focused \in DOMAIN panes /\ Panes!PaneOK(panes[o.pane])
  BY DEF Panes!PanesInv
<1>2. Panes!PaneOK(Panes!Opened(panes[o.pane], o.path))
  BY <1>1, PaneOpened
<1>3. /\ Panes!Synced([panes EXCEPT ![o.pane] = Panes!Opened(@, o.path)], focused)
      /\ opening' \subseteq opening /\ drag' = Panes!NoDrag /\ torn' = torn
  BY <1>1 DEF Panes!OpenNow, Panes!OpenIn
<1> QED
  BY <1>1, <1>2, <1>3, PaneChanged

LEMMA PanesClose ==
  ASSUME Panes!PanesAssumption, Panes!PanesInv,
         \/ \E i \in DOMAIN panes, p \in Files : Panes!CloseTab(i, p)
         \/ Panes!CloseEditor \/ Panes!CloseAll \/ Panes!SaveAndCloseAll
  PROVE  Panes!PanesInv'
<1>1. /\ panes \in Seq(Panes!Pane) /\ Len(panes) \in 1..MaxPanes /\ MaxPanes \in Nat
      /\ focused \in DOMAIN panes /\ \A i \in DOMAIN panes : Panes!PaneOK(panes[i])
  BY DEF Panes!PanesInv, Panes!PanesAssumption
<1>2. opening = {} /\ drag = Panes!NoDrag
  BY DEF Panes!CloseTab, Panes!CloseEditor, Panes!CloseAll, Panes!SaveAndCloseAll, Panes!Calm
<1>3. ASSUME NEW i \in DOMAIN panes, NEW p, UNCHANGED <<opening, drag, torn>>,
             Panes!Synced([panes EXCEPT ![i] = Panes!Closed(@, p)], focused)
      PROVE  Panes!PanesInv'
  <2>1. Panes!PaneOK(Panes!Closed(panes[i], p))
    BY <1>1, PaneClosed
  <2> QED
    BY <1>1, <1>2, <1>3, <2>1, PaneChanged
<1>4. CASE \E i \in DOMAIN panes, p \in Files : Panes!CloseTab(i, p)
  BY <1>3, <1>4 DEF Panes!CloseTab
<1>5. CASE Panes!CloseEditor
  BY <1>1, <1>3, <1>5 DEF Panes!CloseEditor
<1>6. CASE Panes!CloseAll
  <2>1. PICK ps : ps = <<Panes!EmptyPane>>
    OBVIOUS
  <2>2. Panes!PaneOK(Panes!EmptyPane) /\ Panes!EmptyPane \in Panes!Pane
    BY SmallPanes DEF Panes!PaneOK
  <2>3. ps \in Seq(Panes!Pane) /\ Len(ps) = 1 /\ DOMAIN ps = {1} /\ ps[1] = Panes!EmptyPane
    BY <2>1, <2>2
  <2>4. Panes!Synced(ps, 1) /\ UNCHANGED <<opening, drag, torn>>
    BY <1>6, <2>1 DEF Panes!CloseAll
  <2>5. ~torn' /\ Len(ps) \in 1..MaxPanes
    BY <1>1, <2>3, <2>4 DEF Panes!PanesInv
  <2> QED
    BY <1>2, <2>2, <2>3, <2>4, <2>5, PanesSynced
<1>7. CASE Panes!SaveAndCloseAll
  <2>1. Panes!PaneOK(hook') /\ UNCHANGED <<panes, focused, opening, drag, torn>>
    BY <1>7, SmallPanes DEF Panes!SaveAndCloseAll
  <2> QED
    BY <2>1 DEF Panes!PanesInv
<1> QED
  BY <1>4, <1>5, <1>6, <1>7

\* The steps that choose a tab or a pane, and those that add or remove one.
LEMMA PanesSelect ==
  ASSUME Panes!PanesInv, NEW i \in DOMAIN panes, NEW p \in Files,
         Panes!Select(i, p) \/ Panes!ClickPane(i)
  PROVE  Panes!PanesInv'
<1>1. /\ panes \in Seq(Panes!Pane) /\ Panes!PaneOK(panes[i]) /\ i \in DOMAIN panes
      /\ panes = [panes EXCEPT ![i] = panes[i]]
  BY DEF Panes!PanesInv
<1>2. drag = Panes!NoDrag
  BY DEF Panes!Select, Panes!ClickPane, Panes!Calm
<1>3. CASE Panes!Select(i, p)
  <2>1. PICK x : x = [panes[i] EXCEPT !.shown = p]
    OBVIOUS
  <2>2. x = [files |-> panes[i].files, shown |-> p] /\ panes[i].files \in Seq(Files) /\ Panes!IsInjective(panes[i].files)
    <3>1. PICK y : y = panes[i]
      OBVIOUS
    <3>2. y = [files |-> y.files, shown |-> y.shown] /\ y.files \in Seq(Files) /\ Panes!IsInjective(y.files)
      BY <1>1, <3>1, PaneFields
    <3> QED
      BY <2>1, <3>1, <3>2
  <2>3. p \in Panes!ToSet(panes[i].files)
    BY <1>3 DEF Panes!Select, Panes!Header
  <2>4. Panes!PaneOK(x)
    BY <2>2, <2>3, PaneMade
  <2>5. Panes!Synced([panes EXCEPT ![i] = x], i) /\ UNCHANGED <<opening, drag, torn>>
    BY <1>3, <2>1 DEF Panes!Select
  <2> QED
    BY <1>1, <1>2, <2>4, <2>5, PaneChanged
<1>4. CASE Panes!ClickPane(i)
  <2>1. Panes!Synced([panes EXCEPT ![i] = panes[i]], i) /\ UNCHANGED <<opening, drag, torn>>
    BY <1>1, <1>4 DEF Panes!ClickPane
  <2> QED
    BY <1>1, <1>2, <2>1, PaneChanged
<1> QED
  BY <1>3, <1>4

LEMMA PanesSplit ==
  ASSUME Panes!PanesAssumption, Panes!PanesInv, Panes!Split
  PROVE  Panes!PanesInv'
<1>1. opening = {} /\ drag = Panes!NoDrag /\ Len(panes) < MaxPanes /\ UNCHANGED <<opening, drag, torn>>
  BY DEF Panes!Split, Panes!Calm
<1>2. PICK p : p = panes[focused].shown
  OBVIOUS
<1>3. PICK x : x = [files |-> IF p = None THEN <<>> ELSE <<p>>, shown |-> p]
  OBVIOUS
<1>4. p \in Files \cup {None}
  BY <1>2, PaneFields DEF Panes!PanesInv
<1>5. Panes!PaneOK(x)
  <2>1. CASE p = None
    BY <1>3, <2>1, SmallPanes DEF Panes!EmptyPane
  <2>2. CASE p # None
    BY <1>3, <1>4, <2>2, SmallPanes
  <2> QED
    BY <2>1, <2>2
<1>6. Panes!Synced(Append(panes, x), Len(panes) + 1)
  BY <1>2, <1>3 DEF Panes!Split
<1> QED
  BY <1>1, <1>5, <1>6, PaneAdded

LEMMA PanesClosePane ==
  ASSUME Panes!PanesAssumption, Panes!PanesInv, NEW i \in DOMAIN panes, Panes!ClosePane(i)
  PROVE  Panes!PanesInv'
<1>1. /\ panes \in Seq(Panes!Pane) /\ Len(panes) \in 1..MaxPanes /\ Len(panes) > 1 /\ DOMAIN panes = 1..Len(panes)
      /\ \A k \in DOMAIN panes : Panes!PaneOK(panes[k])
      /\ MaxPanes \in Nat /\ Len(panes) \in Nat
  BY DEF Panes!PanesInv, Panes!ClosePane, Panes!PanesAssumption
<1>2. opening = {} /\ drag = Panes!NoDrag /\ UNCHANGED <<opening, drag, torn>> /\ ~torn
  BY DEF Panes!ClosePane, Panes!Calm, Panes!PanesInv
<1>3. PICK a, b : a = SubSeq(panes, 1, i - 1) /\ b = SubSeq(panes, i + 1, Len(panes))
  OBVIOUS
<1>4. a \in Seq(Panes!Pane) /\ Len(a) = i - 1 /\ DOMAIN a = 1..(i - 1) /\ \A k \in DOMAIN a : a[k] = panes[k]
  BY <1>1, <1>3
<1>5. /\ b \in Seq(Panes!Pane) /\ Len(b) = Len(panes) - i /\ DOMAIN b = 1..(Len(panes) - i)
      /\ \A k \in DOMAIN b : b[k] = panes[k + i]
  BY <1>1, <1>3
<1>6. PICK ps : ps = a \o b
  OBVIOUS
<1>7. ps \in Seq(Panes!Pane) /\ Len(ps) = Len(a) + Len(b)
  <2>1. a \in Seq(Panes!Pane) /\ b \in Seq(Panes!Pane)
    BY <1>4, <1>5
  <2> QED
    BY <1>6, <2>1
<1>8. Len(ps) = Len(panes) - 1 /\ DOMAIN ps = 1..(Len(panes) - 1)
  BY <1>1, <1>4, <1>5, <1>7
<1>9. \A k \in DOMAIN ps : (k \in DOMAIN a /\ ps[k] = a[k]) \/ (k - Len(a) \in DOMAIN b /\ ps[k] = b[k - Len(a)])
  <2>1. a \in Seq(Panes!Pane) /\ b \in Seq(Panes!Pane)
    BY <1>4, <1>5
  <2>2. \A k \in 1..(Len(a) + Len(b)) : ps[k] = IF k <= Len(a) THEN a[k] ELSE b[k - Len(a)]
    BY <1>6, <2>1
  <2>3. ASSUME NEW k \in DOMAIN ps PROVE k \in 1..(Len(a) + Len(b)) /\ (k \in DOMAIN a \/ k - Len(a) \in DOMAIN b)
    <3>1. PICK n, l, m : /\ n = Len(panes) /\ n \in Nat /\ i \in 1..n /\ k \in 1..(n - 1)
                         /\ l = i - 1 /\ l = Len(a) /\ DOMAIN a = 1..l
                         /\ m = n - i /\ m = Len(b) /\ DOMAIN b = 1..m
      BY <1>1, <1>4, <1>5, <1>8
    <3>2. k \in 1..(l + m)
      BY ONLY <3>1
    <3>3. k \in 1..l \/ k - l \in 1..m
      BY ONLY <3>1
    <3> QED
      BY ONLY <3>1, <3>2, <3>3
  <2>4. ASSUME NEW k \in DOMAIN ps PROVE k <= Len(a) => k \in DOMAIN a
    BY <1>1, <1>4, <1>8
  <2>5. ASSUME NEW k \in DOMAIN ps PROVE ~(k <= Len(a)) => k \notin DOMAIN a
    BY <1>1, <1>4, <1>8
  <2> QED
    BY <2>2, <2>3, <2>4, <2>5
<1>10. \A k \in DOMAIN b : k + i \in DOMAIN panes
  BY <1>1, <1>5
<1>11. ASSUME NEW k \in DOMAIN ps PROVE \E l \in DOMAIN panes : ps[k] = panes[l]
  <2>1. CASE k \in DOMAIN a /\ ps[k] = a[k]
    BY <1>1, <1>4, <2>1
  <2>2. CASE k - Len(a) \in DOMAIN b /\ ps[k] = b[k - Len(a)]
    <3>1. PICK m : m = k - Len(a)
      OBVIOUS
    <3>2. ps[k] = panes[m + i] /\ m + i \in DOMAIN panes
      BY <1>5, <1>10, <2>2, <3>1
    <3> QED
      BY <3>2
  <2> QED
    BY <1>9, <2>1, <2>2
<1>12. \A k \in DOMAIN ps : Panes!PaneOK(ps[k])
  BY <1>1, <1>11
<1>13. Panes!Synced(ps, 1)
  BY <1>3, <1>6 DEF Panes!ClosePane, Panes!RemoveAt
<1>14. 1 \in DOMAIN ps /\ Len(ps) \in 1..MaxPanes
  BY ONLY <1>1, <1>8
<1> QED
  BY <1>2, <1>7, <1>12, <1>13, <1>14, PanesSynced

\* A drag begins.
LEMMA PanesDrag ==
  ASSUME Panes!PanesInv, NEW i \in DOMAIN panes, NEW k \in DOMAIN panes[i].files, Panes!DragTab(i, k)
  PROVE  Panes!PanesInv'
<1>1. PICK d : d = [pane |-> i, tab |-> k, path |-> panes[i].files[k]]
  OBVIOUS
<1>2. drag' = d /\ UNCHANGED <<panes, focused, hook, opening, torn>>
  BY <1>1 DEF Panes!DragTab, Panes!Header
<1>3. d.pane = i /\ d.tab = k /\ d.path = panes[i].files[k]
  BY <1>1
<1> QED
  BY <1>2, <1>3 DEF Panes!PanesInv

\* A tab that is dropped is in one pane as before, or in another.
LEMMA PanesDrop ==
  ASSUME Panes!PanesInv, NEW to \in DOMAIN panes, NEW at \in Nat, Panes!Drop(to, at)
  PROVE  Panes!PanesInv' /\ Panes!AllTabs(panes') = Panes!AllTabs(panes)
<1>1. /\ panes \in Seq(Panes!Pane) /\ Len(panes) \in 1..MaxPanes
      /\ \A k \in DOMAIN panes : Panes!PaneOK(panes[k])
  BY DEF Panes!PanesInv
<1>2. opening = {} /\ opening' = opening /\ drag' = Panes!NoDrag /\ torn' = torn /\ ~torn
  BY DEF Panes!Drop, Panes!PanesInv
<1>3. PICK from, k, p : from = drag.pane /\ k = drag.tab /\ p = drag.path
  OBVIOUS
<1>4. from \in DOMAIN panes /\ k \in DOMAIN panes[from].files /\ p = panes[from].files[k]
  BY <1>3 DEF Panes!PanesInv, Panes!Drop
<1>5. p \in Files /\ p \in Panes!ToSet(panes[from].files)
  BY <1>1, <1>4, PaneFields DEF Panes!ToSet
<1>6. Panes!Synced(Panes!Moved(from, k, to, at, p), to)
  BY <1>3 DEF Panes!Drop
<1>7. CASE from = to
  <2>1. PICK x : x = Panes!MovedWithin(panes[to], k, at, p)
    OBVIOUS
  <2>2. /\ Panes!PaneOK(x)
        /\ \A f : f \in Panes!ToSet(x.files) <=> f \in Panes!ToSet(panes[to].files)
    BY <1>1, <1>4, <1>7, <2>1, PaneReordered
  <2>3. Panes!Synced([panes EXCEPT ![to] = x], to)
    BY <1>4, <1>6, <1>7, <2>1 DEF Panes!Moved
  <2>4. panes' = [panes EXCEPT ![to] = x]
    BY <2>3 DEF Panes!Synced
  <2>5. DOMAIN panes' = DOMAIN panes /\ panes'[to] = x /\ \A l \in DOMAIN panes : l # to => panes'[l] = panes[l]
    BY <1>1, <2>4
  <2>6. Panes!AllTabs(panes') = Panes!AllTabs(panes)
    BY <2>2, <2>5 DEF Panes!AllTabs
  <2>7. Panes!PanesInv'
    BY <1>2, <2>2, <2>3, PaneChanged
  <2> QED
    BY <2>6, <2>7
<1>8. CASE from # to
  <2>1. PICK x, y : x = Panes!Closed(panes[from], p) /\ y = Panes!Received(panes[to], at, p)
    OBVIOUS
  <2>2. /\ Panes!PaneOK(x)
        /\ \A f : f \in Panes!ToSet(x.files) <=> f \in Panes!ToSet(panes[from].files) /\ f # p
    BY <1>1, <1>4, <2>1, PaneClosed
  <2>3. /\ Panes!PaneOK(y)
        /\ \A f : f \in Panes!ToSet(y.files) <=> f \in Panes!ToSet(panes[to].files) \/ f = p
    BY <1>1, <1>5, <2>1, PaneReceived
  <2>4. PICK ps : ps = [panes EXCEPT ![from] = x, ![to] = y]
    OBVIOUS
  <2>5. x \in Panes!Pane /\ y \in Panes!Pane
    BY <2>2, <2>3 DEF Panes!PaneOK
  <2>6. /\ ps \in Seq(Panes!Pane) /\ Len(ps) = Len(panes) /\ DOMAIN ps = DOMAIN panes
        /\ ps[from] = x /\ ps[to] = y /\ \A l \in DOMAIN panes : l # from /\ l # to => ps[l] = panes[l]
    BY <1>1, <1>4, <1>8, <2>4, <2>5
  <2>7. Panes!Synced(ps, to)
    BY <1>4, <1>6, <1>8, <2>1, <2>4 DEF Panes!Moved
  <2>8. \A l \in DOMAIN ps : Panes!PaneOK(ps[l])
    BY <1>1, <2>2, <2>3, <2>6
  <2>9. Panes!PanesInv'
    BY <1>1, <1>2, <2>6, <2>7, <2>8, PanesSynced
  <2>10. Panes!AllTabs(ps) = Panes!AllTabs(panes)
    <3>1. ASSUME NEW f \in Panes!AllTabs(ps) PROVE f \in Panes!AllTabs(panes)
      <4>1. PICK l \in DOMAIN ps : f \in Panes!ToSet(ps[l].files)
        BY <3>1 DEF Panes!AllTabs
      <4>2. f = p \/ f \in Panes!ToSet(panes[l].files)
        BY <2>2, <2>3, <2>6, <4>1
      <4> QED
        BY <1>4, <1>5, <2>6, <4>2 DEF Panes!AllTabs
    <3>2. ASSUME NEW f \in Panes!AllTabs(panes) PROVE f \in Panes!AllTabs(ps)
      <4>1. PICK l \in DOMAIN panes : f \in Panes!ToSet(panes[l].files)
        BY <3>2 DEF Panes!AllTabs
      <4>2. f \in Panes!ToSet(ps[l].files) \/ f \in Panes!ToSet(ps[to].files)
        BY <2>2, <2>3, <2>6, <4>1
      <4> QED
        BY <2>6, <4>2 DEF Panes!AllTabs
    <3> QED
      BY <3>1, <3>2
  <2> QED
    BY <2>7, <2>9, <2>10 DEF Panes!Synced
<1> QED
  BY <1>7, <1>8

\* The saved copy of the active pane comes back.
LEMMA PanesRestart ==
  ASSUME Panes!PanesAssumption, Panes!PanesInv, Panes!Restart
  PROVE  Panes!PanesInv'
<1>1. Panes!PaneOK(hook) /\ MaxPanes \in Nat \ {0}
  BY DEF Panes!PanesInv, Panes!PanesAssumption
<1>2. PICK x : x = IF hook.files = <<>> THEN Panes!EmptyPane
                   ELSE [hook EXCEPT !.shown = IF @ = None THEN hook.files[1] ELSE @]
  OBVIOUS
<1>3. /\ hook = [files |-> hook.files, shown |-> hook.shown] /\ hook.files \in Seq(Files)
      /\ Panes!IsInjective(hook.files) /\ hook.shown \in Panes!ToSet(hook.files) \cup {None}
  BY <1>1, PaneFields
<1>4. Panes!PaneOK(x)
  <2>1. CASE hook.files = <<>>
    BY <1>2, <2>1, SmallPanes
  <2>2. CASE hook.files # <<>>
    <3>1. PICK f : f = IF hook.shown = None THEN hook.files[1] ELSE hook.shown
      OBVIOUS
    <3>2. 1 \in DOMAIN hook.files
      BY <1>3, <2>2
    <3>3. f \in Panes!ToSet(hook.files)
      BY <1>3, <3>1, <3>2 DEF Panes!ToSet
    <3>4. x = [files |-> hook.files, shown |-> f]
      BY <1>2, <1>3, <2>2, <3>1
    <3> QED
      BY <1>3, <3>3, <3>4, PaneMade
  <2> QED
    BY <2>1, <2>2
<1>5. PICK ps : ps = <<x>>
  OBVIOUS
<1>6. ps \in Seq(Panes!Pane) /\ Len(ps) = 1 /\ DOMAIN ps = {1} /\ ps[1] = x
  BY <1>4, <1>5 DEF Panes!PaneOK
<1>7. Panes!Synced(ps, 1) /\ opening' = {} /\ drag' = Panes!NoDrag /\ ~torn'
  BY <1>2, <1>5 DEF Panes!Restart
<1>8. Len(ps) \in 1..MaxPanes
  BY <1>1, <1>6
<1> QED
  BY <1>4, <1>6, <1>7, <1>8, PanesSynced

\* All of them together.
LEMMA PanesSafe ==
  ASSUME Panes!PanesAssumption
  PROVE  Spec => []Panes!PanesInv
<1>1. Init => Panes!PanesInv
  <2> SUFFICES ASSUME Panes!Init PROVE Panes!PanesInv
    BY DEF Init
  <2>1. Panes!PaneOK(Panes!EmptyPane) /\ Panes!EmptyPane \in Panes!Pane
    BY SmallPanes DEF Panes!PaneOK
  <2>2. panes = <<Panes!EmptyPane>> /\ focused = 1 /\ hook = Panes!EmptyPane /\ opening = {} /\ drag = Panes!NoDrag /\ ~torn
    BY DEF Panes!Init
  <2>3. panes \in Seq(Panes!Pane) /\ Len(panes) = 1 /\ DOMAIN panes = {1} /\ panes[1] = Panes!EmptyPane
    BY <2>1, <2>2
  <2>4. Len(panes) \in 1..MaxPanes
    BY <2>3 DEF Panes!PanesAssumption
  <2> QED
    BY <2>1, <2>2, <2>3, <2>4 DEF Panes!PanesInv
<1>2. Panes!PanesInv /\ [Next]_vars => Panes!PanesInv'
  <2> SUFFICES ASSUME Panes!PanesInv, [Next]_vars PROVE Panes!PanesInv'
    OBVIOUS
  <2>1. CASE UNCHANGED panesV
    BY <2>1 DEF panesV, Panes!PanesInv, Panes!PaneOK
  <2>2. CASE Panes!Next
    <3>1. CASE Panes!Restart
      BY <3>1, PanesRestart
    <3>2. CASE \E p \in Files : Panes!Open(p) \/ Panes!OpenLater(p) \/ Panes!SavedAs(p) \/ Panes!OpenSide(p)
      BY <3>2, PanesOpen
    <3>3. CASE \E o \in opening : Panes!OpenNow(o)
      BY <3>3, PanesOpenNow
    <3>4. CASE \/ \E i \in DOMAIN panes, p \in Files : Panes!CloseTab(i, p)
               \/ Panes!CloseEditor \/ Panes!CloseAll \/ Panes!SaveAndCloseAll
      BY <3>4, PanesClose
    <3>5. CASE \E i \in DOMAIN panes : \/ \E p \in Files : Panes!Select(i, p)
                                       \/ Panes!ClosePane(i)
      BY <3>5, PanesSelect, PanesClosePane
    <3>6. CASE \E i \in DOMAIN panes : Panes!ClickPane(i)
      <4>1. PICK i \in DOMAIN panes : Panes!ClickPane(i)
        BY <3>6
      <4>2. panes \in Seq(Panes!Pane) /\ Panes!PaneOK(panes[i]) /\ panes = [panes EXCEPT ![i] = panes[i]]
        BY DEF Panes!PanesInv
      <4>3. drag' = Panes!NoDrag /\ UNCHANGED <<opening, torn>> /\ Panes!Synced([panes EXCEPT ![i] = panes[i]], i)
        BY <4>1, <4>2 DEF Panes!ClickPane, Panes!Calm
      <4> QED
        BY <4>2, <4>3, PaneChanged
    <3>7. CASE \E i \in DOMAIN panes : \E k \in DOMAIN panes[i].files : Panes!DragTab(i, k)
      BY <3>7, PanesDrag
    <3>8. CASE \E i \in DOMAIN panes : \E k \in 1..(Len(panes[i].files) + 1) : Panes!Drop(i, k)
      <4>1. PICK i \in DOMAIN panes : \E k \in 1..(Len(panes[i].files) + 1) : Panes!Drop(i, k)
        BY <3>8
      <4>2. panes[i].files \in Seq(Files)
        BY PaneFields DEF Panes!PanesInv
      <4>3. PICK k \in Nat : Panes!Drop(i, k)
        BY <4>1, <4>2
      <4> QED
        BY <4>3, PanesDrop
    <3>9. CASE Panes!Split
      BY <3>9, PanesSplit
    <3> QED
      BY <2>2, <3>1, <3>2, <3>3, <3>4, <3>5, <3>6, <3>7, <3>8, <3>9 DEF Panes!Next
  <2> QED
    BY <2>1, <2>2 DEF Next, NextFiles, NextShells, NextEditors, vars, filesV
<1> QED
  BY <1>1, <1>2, PTL DEF Spec

(***************************************************************************)
(* The tunnels of the projects.  In a list of them one of each project, at *)
(* most, is ticked.  It stays so through every operation, and what a start *)
(* opens is read from such a list.                                         *)
(***************************************************************************)
\* A sequence is one of what it holds.
LEMMA OfItsOwn ==
  ASSUME NEW S, NEW s \in Seq(S)
  PROVE  s \in Seq({s[i] : i \in DOMAIN s})
<1>1. DOMAIN s = 1..Len(s) /\ Len(s) \in Nat
  OBVIOUS
<1>2. s = [i \in 1..Len(s) |-> s[i]]
  OBVIOUS
<1>3. s \in [1..Len(s) -> {s[i] : i \in DOMAIN s}]
  BY <1>1, <1>2
<1> QED
  BY <1>1, <1>3

\* A call that is invoked, or one that is taken.
LEMMA TunnelsCalled ==
  ASSUME Tunnels!CallsOK, NEW c, Tunnels!IsCall(c), tunnelCalls' = Append(tunnelCalls, c)
  PROVE  Tunnels!CallsOK'
<1>1. PICK S : S = {tunnelCalls[i] : i \in DOMAIN tunnelCalls}
  OBVIOUS
<1>2. PICK T : T = S \cup {c}
  OBVIOUS
<1>3. tunnelCalls \in Seq(S)
  BY <1>1 DEF Tunnels!CallsOK
<1>4. Len(tunnelCalls) \in Nat /\ DOMAIN tunnelCalls = 1..Len(tunnelCalls)
  BY <1>3
<1>5. tunnelCalls \in Seq(T)
  BY <1>2, <1>3
<1>6. /\ Len(tunnelCalls') = Len(tunnelCalls) + 1 /\ tunnelCalls' \in Seq(T)
      /\ \A i \in 1..Len(tunnelCalls) : tunnelCalls'[i] = tunnelCalls[i]
      /\ tunnelCalls'[Len(tunnelCalls) + 1] = c
  BY <1>2, <1>4, <1>5
<1>7. \A i \in DOMAIN tunnelCalls' : Tunnels!IsCall(tunnelCalls'[i])
  <2> SUFFICES ASSUME NEW i \in DOMAIN tunnelCalls' PROVE Tunnels!IsCall(tunnelCalls'[i])
    OBVIOUS
  <2>1. i \in 1..Len(tunnelCalls) \/ i = Len(tunnelCalls) + 1
    BY <1>4, <1>6
  <2>2. CASE i \in 1..Len(tunnelCalls)
    BY <1>4, <1>6, <2>2 DEF Tunnels!CallsOK
  <2>3. CASE i = Len(tunnelCalls) + 1
    BY <1>6, <2>3
  <2> QED
    BY <2>1, <2>2, <2>3
<1>8. tunnelCalls' \in Seq({tunnelCalls'[i] : i \in DOMAIN tunnelCalls'})
  BY <1>6, OfItsOwn
<1> QED
  BY <1>7, <1>8 DEF Tunnels!CallsOK

LEMMA TunnelsTaken ==
  ASSUME Tunnels!CallsOK, tunnelCalls # <<>>, tunnelCalls' = Tail(tunnelCalls)
  PROVE  Tunnels!CallsOK' /\ Tunnels!IsCall(Head(tunnelCalls))
<1>1. PICK S : S = {tunnelCalls[i] : i \in DOMAIN tunnelCalls}
  OBVIOUS
<1>2. tunnelCalls \in Seq(S)
  BY <1>1 DEF Tunnels!CallsOK
<1>3. Len(tunnelCalls) \in Nat \ {0} /\ DOMAIN tunnelCalls = 1..Len(tunnelCalls)
  BY <1>2
<1>4. /\ Len(tunnelCalls') = Len(tunnelCalls) - 1 /\ tunnelCalls' \in Seq(S)
      /\ \A i \in 1..(Len(tunnelCalls) - 1) : tunnelCalls'[i] = tunnelCalls[i + 1]
  BY <1>2, <1>3
<1>5. \A i \in DOMAIN tunnelCalls' : Tunnels!IsCall(tunnelCalls'[i])
  <2> SUFFICES ASSUME NEW i \in DOMAIN tunnelCalls' PROVE Tunnels!IsCall(tunnelCalls'[i])
    OBVIOUS
  <2>1. i \in 1..(Len(tunnelCalls) - 1) /\ i + 1 \in 1..Len(tunnelCalls)
    BY <1>3, <1>4
  <2> QED
    BY <1>3, <1>4, <2>1 DEF Tunnels!CallsOK
<1>6. tunnelCalls' \in Seq({tunnelCalls'[i] : i \in DOMAIN tunnelCalls'})
  <2>1. PICK q : q = tunnelCalls'
    OBVIOUS
  <2>2. q \in Seq(S)
    BY <1>4, <2>1
  <2>3. q \in Seq({q[i] : i \in DOMAIN q})
    BY <2>2, OfItsOwn
  <2> QED
    BY <2>1, <2>3
<1>7. Tunnels!IsCall(Head(tunnelCalls))
  <2>1. Head(tunnelCalls) = tunnelCalls[1] /\ 1 \in DOMAIN tunnelCalls
    BY <1>2, <1>3
  <2> QED
    BY <2>1 DEF Tunnels!CallsOK
<1> QED
  BY <1>5, <1>6, <1>7 DEF Tunnels!CallsOK

\* The content of a file without some of its tunnels, or with each changed in
\* a way that keeps its project and ticks it no more than before.
LEMMA TunnelsFewer ==
  ASSUME NEW mode, NEW tok, NEW ts, NEW us, ts \subseteq us,
         Tunnels!IsContent(Tunnels!Config(mode, tok, us))
  PROVE  Tunnels!IsContent(Tunnels!Config(mode, tok, ts))
BY DEF Tunnels!IsContent, Tunnels!Config

\* A list is read without the quotes of its names.
LEMMA TunnelsParsed ==
  ASSUME NEW c, Tunnels!IsContent(c)
  PROVE  /\ Tunnels!IsContent(Tunnels!Parsed(c))
         /\ Tunnels!Parsed(Tunnels!Parsed(c)).tunnels = Tunnels!Parsed(c).tunnels
<1>1. c = [mode |-> c.mode, token |-> c.token, tunnels |-> c.tunnels]
  BY DEF Tunnels!IsContent, Tunnels!Config
<1>2. PICK bs : bs = {Tunnels!Bare(t) : t \in c.tunnels}
  OBVIOUS
<1>3. Tunnels!Parsed(c) = [mode |-> c.mode, token |-> c.token, tunnels |-> bs]
  BY <1>1, <1>2 DEF Tunnels!Parsed
<1>4. \A t : Tunnels!IsTunnel(t) =>
        /\ Tunnels!Bare(t) = [id |-> t.id, of |-> t.of, name |-> t.name, quoted |-> FALSE, active |-> t.active]
        /\ Tunnels!IsTunnel(Tunnels!Bare(t)) /\ Tunnels!Bare(t).id = t.id /\ Tunnels!Bare(t).of = t.of
        /\ Tunnels!Bare(t).active = t.active /\ Tunnels!Bare(Tunnels!Bare(t)) = Tunnels!Bare(t)
  <2> SUFFICES ASSUME NEW t, Tunnels!IsTunnel(t)
               PROVE  /\ Tunnels!Bare(t) = [id |-> t.id, of |-> t.of, name |-> t.name, quoted |-> FALSE, active |-> t.active]
                      /\ Tunnels!IsTunnel(Tunnels!Bare(t)) /\ Tunnels!Bare(t).id = t.id /\ Tunnels!Bare(t).of = t.of
                      /\ Tunnels!Bare(t).active = t.active /\ Tunnels!Bare(Tunnels!Bare(t)) = Tunnels!Bare(t)
    OBVIOUS
  <2>1. PICK f : f = FALSE
    OBVIOUS
  <2>2. PICK b : b = [id |-> t.id, of |-> t.of, name |-> t.name, quoted |-> f, active |-> t.active]
    OBVIOUS
  <2>3. PICK i, o, n, q, a : t = [id |-> i, of |-> o, name |-> n, quoted |-> q, active |-> a]
    BY DEF Tunnels!IsTunnel
  <2>4. Tunnels!Bare(t) = [t EXCEPT !.quoted = f] /\ Tunnels!Bare(b) = [b EXCEPT !.quoted = f]
    BY <2>1 DEF Tunnels!Bare
  <2>5. [t EXCEPT !.quoted = f] = b
    BY <2>2, <2>3
  <2>6. [b EXCEPT !.quoted = f] = b
    BY <2>2
  <2> QED
    BY <2>1, <2>2, <2>3, <2>4, <2>5, <2>6 DEF Tunnels!IsTunnel
<1>5. \A b \in bs : \E t \in c.tunnels : b = Tunnels!Bare(t) /\ Tunnels!IsTunnel(t)
  BY <1>2 DEF Tunnels!IsContent
<1>6. Tunnels!IsContent(Tunnels!Parsed(c))
  BY <1>3, <1>4, <1>5 DEF Tunnels!IsContent, Tunnels!Config
<1>7. {Tunnels!Bare(b) : b \in bs} = bs
  <2>1. \A b \in bs : Tunnels!Bare(b) = b
    BY <1>4, <1>5
  <2> QED
    BY <2>1
<1>8. Tunnels!Parsed(Tunnels!Parsed(c)) = [mode |-> c.mode, token |-> c.token, tunnels |-> {Tunnels!Bare(b) : b \in bs}]
  <2>1. PICK d, ds : d = Tunnels!Parsed(c) /\ ds = {Tunnels!Bare(b) : b \in bs}
    OBVIOUS
  <2>2. d = [mode |-> c.mode, token |-> c.token, tunnels |-> bs]
    BY <1>3, <2>1
  <2>3. {Tunnels!Bare(b) : b \in d.tunnels} = ds
    BY <2>1, <2>2
  <2>4. Tunnels!Parsed(d) = [d EXCEPT !.tunnels = ds]
    BY <2>2, <2>3 DEF Tunnels!Parsed
  <2>5. [d EXCEPT !.tunnels = ds] = [mode |-> c.mode, token |-> c.token, tunnels |-> ds]
    BY <2>2
  <2> QED
    BY <2>1, <2>4, <2>5
<1> QED
  BY <1>3, <1>6, <1>7, <1>8

\* At first nothing is shown, and no file has a tunnel.
LEMMA TunnelsInit == Tunnels!TunnelsAssumption /\ Tunnels!Init => Tunnels!TunnelsInv
<1> SUFFICES ASSUME Tunnels!TunnelsAssumption, Tunnels!Init PROVE Tunnels!TunnelsInv
  OBVIOUS
<1>1. PICK c : c = Tunnels!Call("load", "panel", None) /\ tunnelCalls = <<c>>
  BY DEF Tunnels!Init
<1>2. Tunnels!CallsOK
  BY <1>1 DEF Tunnels!CallsOK, Tunnels!IsCall, Tunnels!Call
<1>3. /\ cloudflare = Tunnels!NoFile
         \/ \E m \in {"default", "api"}, t \in Token : cloudflare = Tunnels!Config(m, t, {})
      /\ panel = Tunnels!Config("default", "", {}) /\ None \notin {"default", "api"}
  BY DEF Tunnels!Init, Tunnels!TunnelsAssumption
<1>4. \A m, t : m # None => Tunnels!IsContent(Tunnels!Config(m, t, {}))
  BY DEF Tunnels!IsContent, Tunnels!Config
<1>5. \A m, t : Tunnels!Parsed(Tunnels!Config(m, t, {})).tunnels = {}
  BY DEF Tunnels!Config, Tunnels!Parsed
<1>6. panel.tunnels = {}
  BY <1>3 DEF Tunnels!Config
<1>7. Tunnels!KnowsFile
  BY <1>3, <1>4, <1>5, <1>6 DEF Tunnels!KnowsFile
<1>8. Tunnels!IsContent(panel) /\ made \in Nat /\ Tunnels!IsPage
  BY <1>3, <1>4 DEF Tunnels!Init, Tunnels!IsPage, Tunnels!TunnelsAssumption
<1> QED
  BY <1>2, <1>7, <1>8 DEF Tunnels!TunnelsInv

\* What is saved is a list in which one tunnel of a project is ticked.
LEMMA TunnelsSaved ==
  ASSUME Tunnels!TunnelsInv, NEW ts, Tunnels!SaveTunnels(ts),
         Tunnels!IsContent(Tunnels!Config(panel.mode, panel.token, ts)),
         made' \in Nat, UNCHANGED <<cloudflare, panel, page, dropped>>
  PROVE  Tunnels!TunnelsInv'
<1>1. PICK c : c = Tunnels!Config(panel.mode, panel.token, ts)
  OBVIOUS
<1>2. PICK k : k = Tunnels!Call("save", "panel", c)
  OBVIOUS
<1>3. Tunnels!IsCall(k) /\ tunnelCalls' = Append(tunnelCalls, k)
  BY <1>1, <1>2 DEF Tunnels!IsCall, Tunnels!Call, Tunnels!SaveTunnels, Tunnels!Invoke
<1>4. Tunnels!CallsOK'
  BY <1>3, TunnelsCalled DEF Tunnels!TunnelsInv
<1> QED
  BY <1>4 DEF Tunnels!TunnelsInv, Tunnels!KnowsFile, Tunnels!IsContent, Tunnels!Parsed, Tunnels!IsPage, Tunnels!NoFile

LEMMA TunnelsShown ==
  ASSUME Tunnels!TunnelsInv
  PROVE  Tunnels!IsContent(Tunnels!Config(panel.mode, panel.token, panel.tunnels))
BY DEF Tunnels!TunnelsInv, Tunnels!IsContent, Tunnels!Config

LEMMA TunnelsAdded ==
  ASSUME Tunnels!TunnelsInv, Tunnels!AddTunnel
  PROVE  Tunnels!TunnelsInv'
<1>1. PICK t : t = [id |-> made', of |-> tunnelProject, name |-> "port", quoted |-> FALSE, active |-> FALSE]
  OBVIOUS
<1>2. made' \in Nat /\ Tunnels!SaveTunnels(panel.tunnels \cup {t}) /\ UNCHANGED <<cloudflare, panel, page, dropped>>
  BY <1>1 DEF Tunnels!TunnelsInv, Tunnels!AddTunnel
<1>3. Tunnels!IsTunnel(t) /\ ~t.active
  BY <1>1, <1>2 DEF Tunnels!IsTunnel
<1>4. Tunnels!IsContent(Tunnels!Config(panel.mode, panel.token, panel.tunnels \cup {t}))
  BY <1>3, TunnelsShown DEF Tunnels!IsContent, Tunnels!Config
<1> QED
  BY <1>2, <1>4, TunnelsSaved

LEMMA TunnelsDeleted ==
  ASSUME Tunnels!TunnelsInv, Tunnels!DeleteAllTunnels \/ \E id : Tunnels!DeleteTunnel(id)
  PROVE  Tunnels!TunnelsInv'
<1>1. PICK ts : ts \subseteq panel.tunnels /\ Tunnels!SaveTunnels(ts)
  BY DEF Tunnels!DeleteAllTunnels, Tunnels!DeleteTunnel
<1>2. Tunnels!IsContent(Tunnels!Config(panel.mode, panel.token, ts))
  BY <1>1, TunnelsShown, TunnelsFewer
<1>3. made' \in Nat /\ UNCHANGED <<cloudflare, panel, page, dropped>>
  BY DEF Tunnels!DeleteAllTunnels, Tunnels!DeleteTunnel, Tunnels!TunnelsInv
<1> QED
  BY <1>1, <1>2, <1>3, TunnelsSaved

\* A click ticks one tunnel of a project and no other.
LEMMA TunnelsToggled ==
  ASSUME Tunnels!TunnelsInv, NEW id, Tunnels!ToggleTunnel(id)
  PROVE  Tunnels!TunnelsInv'
<1>1. PICK ts : ts = {Tunnels!Toggled(id, t) : t \in panel.tunnels}
  OBVIOUS
<1>2. \A t : Tunnels!IsTunnel(t) =>
        /\ Tunnels!IsTunnel(Tunnels!Toggled(id, t)) /\ Tunnels!Toggled(id, t).id = t.id /\ Tunnels!Toggled(id, t).of = t.of
        /\ t.of = tunnelProject => (Tunnels!Toggled(id, t).active => t.id = id)
        /\ t.of # tunnelProject => Tunnels!Toggled(id, t) = t
  BY DEF Tunnels!IsTunnel, Tunnels!Toggled, Tunnels!Mine
<1>3. \A u \in ts : \E t \in panel.tunnels : u = Tunnels!Toggled(id, t) /\ Tunnels!IsTunnel(t)
  BY <1>1, TunnelsShown DEF Tunnels!IsContent, Tunnels!Config
<1>4. Tunnels!IsContent(Tunnels!Config(panel.mode, panel.token, ts))
  <2>1. \A u \in ts : Tunnels!IsTunnel(u)
    BY <1>2, <1>3
  <2>2. ASSUME NEW u \in ts, NEW v \in ts, u.of = v.of, u.active, v.active PROVE u.id = v.id
    <3>1. PICK a \in panel.tunnels : u = Tunnels!Toggled(id, a) /\ Tunnels!IsTunnel(a)
      BY <1>3
    <3>2. PICK b \in panel.tunnels : v = Tunnels!Toggled(id, b) /\ Tunnels!IsTunnel(b)
      BY <1>3
    <3>3. CASE u.of = tunnelProject
      BY <1>2, <2>2, <3>1, <3>2, <3>3
    <3>4. CASE u.of # tunnelProject
      BY <1>2, <2>2, <3>1, <3>2, <3>4 DEF Tunnels!TunnelsInv, Tunnels!IsContent
    <3> QED
      BY <3>3, <3>4
  <2>3. \A u, v \in ts : u.of = v.of /\ u.active /\ v.active => u.id = v.id
    BY <2>2
  <2>4. PICK c : c = Tunnels!Config(panel.mode, panel.token, ts)
    OBVIOUS
  <2>5. c = Tunnels!Config(c.mode, c.token, c.tunnels) /\ c.tunnels = ts /\ c.mode # None
    BY <2>4 DEF Tunnels!TunnelsInv, Tunnels!IsContent, Tunnels!Config
  <2> QED
    BY <2>1, <2>3, <2>4, <2>5 DEF Tunnels!IsContent
<1>5. Tunnels!SaveTunnels(ts) /\ made' \in Nat /\ UNCHANGED <<cloudflare, panel, page, dropped>>
  BY <1>1 DEF Tunnels!ToggleTunnel, Tunnels!TunnelsInv
<1> QED
  BY <1>4, <1>5, TunnelsSaved

LEMMA TunnelsRenamed ==
  ASSUME Tunnels!TunnelsInv, NEW n, NEW q, Tunnels!SubmitRename(n, q)
  PROVE  Tunnels!TunnelsInv'
<1>1. PICK ts : ts = {Tunnels!Renamed(n, q, t) : t \in panel.tunnels}
  OBVIOUS
<1>2. \A t : Tunnels!IsTunnel(t) =>
        /\ Tunnels!IsTunnel(Tunnels!Renamed(n, q, t)) /\ Tunnels!Renamed(n, q, t).id = t.id
        /\ Tunnels!Renamed(n, q, t).of = t.of /\ Tunnels!Renamed(n, q, t).active = t.active
  BY DEF Tunnels!IsTunnel, Tunnels!Renamed
<1>3. \A u \in ts : \E t \in panel.tunnels : u = Tunnels!Renamed(n, q, t) /\ Tunnels!IsTunnel(t)
  BY <1>1, TunnelsShown DEF Tunnels!IsContent, Tunnels!Config
<1>4. Tunnels!IsContent(Tunnels!Config(panel.mode, panel.token, ts))
  BY <1>2, <1>3, TunnelsShown DEF Tunnels!IsContent, Tunnels!Config
<1>5. Tunnels!SaveTunnels(ts) /\ made' \in Nat /\ UNCHANGED <<cloudflare, panel, page, dropped>>
  BY <1>1 DEF Tunnels!SubmitRename, Tunnels!TunnelsInv
<1> QED
  BY <1>4, <1>5, TunnelsSaved

\* A load that is called for, and what calls for nothing.
LEMMA TunnelsAsked ==
  ASSUME Tunnels!TunnelsInv, UNCHANGED <<cloudflare, panel, made, dropped>>, Tunnels!IsPage',
         \/ tunnelCalls' = tunnelCalls
         \/ \E by : tunnelCalls' = Append(tunnelCalls, Tunnels!Call("load", by, None))
  PROVE  Tunnels!TunnelsInv'
<1>1. \A by : Tunnels!IsCall(Tunnels!Call("load", by, None))
  BY DEF Tunnels!IsCall, Tunnels!Call
<1>2. Tunnels!CallsOK'
  <2>1. CASE tunnelCalls' = tunnelCalls
    BY <2>1 DEF Tunnels!TunnelsInv, Tunnels!CallsOK
  <2>2. CASE \E by : tunnelCalls' = Append(tunnelCalls, Tunnels!Call("load", by, None))
    BY <1>1, <2>2, TunnelsCalled DEF Tunnels!TunnelsInv
  <2> QED
    BY <2>1, <2>2
<1> QED
  BY <1>2 DEF Tunnels!TunnelsInv, Tunnels!KnowsFile, Tunnels!NoFile, Tunnels!IsContent, Tunnels!Parsed

\* On the page no mode is none.
LEMMA TunnelsPage ==
  ASSUME Tunnels!TunnelsAssumption, Tunnels!TunnelsInv,
         \/ Tunnels!OpenPage \/ Tunnels!ClosePage
         \/ \E m \in {"default", "token"} : Tunnels!PickMode(m)
         \/ \E t : Tunnels!TypeToken(t)
  PROVE  Tunnels!TunnelsInv'
<1>1. Tunnels!IsPage'
  <2>1. CASE Tunnels!OpenPage
    <3>1. PICK t, f : t = TRUE /\ f = FALSE
      OBVIOUS
    <3>2. page' = [open |-> t, loading |-> t, saving |-> f, mode |-> "default", token |-> ""] /\ None # "default"
      BY <2>1, <3>1 DEF Tunnels!OpenPage, Tunnels!TunnelsAssumption
    <3> QED
      BY <3>2 DEF Tunnels!IsPage
  <2>2. CASE Tunnels!ClosePage
    <3>1. PICK f : f = FALSE
      OBVIOUS
    <3>2. page' = [page EXCEPT !.open = f]
      BY <2>2, <3>1 DEF Tunnels!ClosePage
    <3> QED
      BY <3>2 DEF Tunnels!TunnelsInv, Tunnels!IsPage
  <2>3. CASE \E m \in {"default", "token"} : Tunnels!PickMode(m)
    BY <2>3 DEF Tunnels!PickMode, Tunnels!TunnelsInv, Tunnels!IsPage, Tunnels!TunnelsAssumption
  <2>4. CASE \E t : Tunnels!TypeToken(t)
    BY <2>4 DEF Tunnels!TypeToken, Tunnels!TunnelsInv, Tunnels!IsPage
  <2> QED
    BY <2>1, <2>2, <2>3, <2>4
<1>2. UNCHANGED <<cloudflare, panel, made, dropped>>
  BY DEF Tunnels!OpenPage, Tunnels!ClosePage, Tunnels!PickMode, Tunnels!TypeToken
<1>3. tunnelCalls' = tunnelCalls \/ \E by : tunnelCalls' = Append(tunnelCalls, Tunnels!Call("load", by, None))
  BY DEF Tunnels!OpenPage, Tunnels!ClosePage, Tunnels!PickMode, Tunnels!TypeToken, Tunnels!Invoke
<1> QED
  BY <1>1, <1>2, <1>3, TunnelsAsked

LEMMA TunnelsPageSaved ==
  ASSUME Tunnels!TunnelsInv, Tunnels!SavePage
  PROVE  Tunnels!TunnelsInv'
<1>1. PICK c : c = Tunnels!Config(page.mode, page.token, {})
  OBVIOUS
<1>2. PICK k : k = Tunnels!Call("save", "page", c)
  OBVIOUS
<1>3. Tunnels!IsContent(c)
  BY <1>1 DEF Tunnels!TunnelsInv, Tunnels!IsPage, Tunnels!IsContent, Tunnels!Config
<1>4. Tunnels!IsCall(k) /\ tunnelCalls' = Append(tunnelCalls, k)
  BY <1>1, <1>2, <1>3 DEF Tunnels!IsCall, Tunnels!Call, Tunnels!SavePage, Tunnels!Invoke
<1>5. Tunnels!CallsOK'
  BY <1>4, TunnelsCalled DEF Tunnels!TunnelsInv
<1>6. Tunnels!IsPage'
  BY DEF Tunnels!TunnelsInv, Tunnels!IsPage, Tunnels!SavePage
<1> QED
  BY <1>5, <1>6 DEF Tunnels!TunnelsInv, Tunnels!SavePage, Tunnels!KnowsFile, Tunnels!NoFile, Tunnels!IsContent, Tunnels!Parsed

\* What is performed is in the file, and shown.
LEMMA TunnelsPerformed ==
  ASSUME Tunnels!TunnelsAssumption, Tunnels!TunnelsInv, Tunnels!Perform
  PROVE  Tunnels!TunnelsInv'
<1>1. tunnelCalls # <<>> /\ tunnelCalls' = Tail(tunnelCalls) /\ made' \in Nat
  BY DEF Tunnels!Perform, Tunnels!TunnelsInv
<1>2. Tunnels!CallsOK' /\ Tunnels!IsCall(Head(tunnelCalls))
  BY <1>1, TunnelsTaken DEF Tunnels!TunnelsInv
<1>3. CASE Tunnels!LoadPanel
  <2>1. page' = page /\ cloudflare' = cloudflare
    BY <1>3 DEF Tunnels!LoadPanel
  <2>2. Tunnels!IsPage'
    BY <2>1 DEF Tunnels!TunnelsInv, Tunnels!IsPage
  <2>3. CASE cloudflare = Tunnels!NoFile
    <3>1. panel' = panel /\ panel.tunnels = {}
      <4>1. ~Tunnels!IsContent(cloudflare)
        BY <2>3 DEF Tunnels!IsContent, Tunnels!NoFile, Tunnels!Config
      <4> QED
        BY <1>3, <2>3, <4>1 DEF Tunnels!LoadPanel, Tunnels!TunnelsInv, Tunnels!KnowsFile
    <3>2. Tunnels!KnowsFile'
      BY <2>1, <2>3, <3>1 DEF Tunnels!KnowsFile, Tunnels!NoFile
    <3>3. Tunnels!IsContent(panel)'
      BY <3>1 DEF Tunnels!TunnelsInv, Tunnels!IsContent
    <3> QED
      BY <1>1, <1>2, <2>2, <3>2, <3>3 DEF Tunnels!TunnelsInv
  <2>4. CASE cloudflare # Tunnels!NoFile
    <3>1. panel' = Tunnels!Parsed(cloudflare) /\ Tunnels!IsContent(cloudflare)
      BY <1>3, <2>4 DEF Tunnels!LoadPanel, Tunnels!TunnelsInv, Tunnels!KnowsFile
    <3>2. Tunnels!IsContent(panel)' /\ Tunnels!IsContent(cloudflare)'
      BY <2>1, <3>1, TunnelsParsed
    <3>3. Tunnels!Parsed(panel').tunnels = Tunnels!Parsed(cloudflare').tunnels
      BY <2>1, <3>1, TunnelsParsed
    <3> QED
      BY <1>1, <1>2, <2>2, <3>2, <3>3 DEF Tunnels!TunnelsInv, Tunnels!KnowsFile
  <2> QED
    BY <2>3, <2>4
<1>4. ASSUME Tunnels!LoadPage \/ Tunnels!SavedPage(FALSE) \/ Tunnels!SavedPanel(FALSE) PROVE Tunnels!TunnelsInv'
  <2>1. UNCHANGED <<cloudflare, panel, dropped>>
    BY <1>4 DEF Tunnels!LoadPage, Tunnels!SavedPage, Tunnels!SavedPanel
  <2>2. Tunnels!IsPage'
    <3>1. cloudflare # Tunnels!NoFile => cloudflare.mode # None
      BY DEF Tunnels!TunnelsInv, Tunnels!KnowsFile, Tunnels!IsContent
    <3> QED
      BY <1>4, <3>1 DEF Tunnels!LoadPage, Tunnels!SavedPage, Tunnels!SavedPanel, Tunnels!TunnelsInv, Tunnels!IsPage,
                        Tunnels!ModeOf, Tunnels!TunnelsAssumption
  <2> QED
    BY <1>1, <1>2, <2>1, <2>2 DEF Tunnels!TunnelsInv, Tunnels!KnowsFile, Tunnels!NoFile, Tunnels!IsContent, Tunnels!Parsed
<1>5. CASE Tunnels!SavedPanel(TRUE)
  <2>1. PICK c : c = Head(tunnelCalls).content /\ Tunnels!IsContent(c)
    BY <1>2, <1>5 DEF Tunnels!SavedPanel, Tunnels!IsCall
  <2>2. cloudflare' = c /\ panel' = Tunnels!Config(panel.mode, panel.token, c.tunnels) /\ page' = page
    BY <1>5, <2>1 DEF Tunnels!SavedPanel, Tunnels!TunnelsInv, Tunnels!IsContent, Tunnels!Config
  <2>3. c = Tunnels!Config(c.mode, c.token, c.tunnels)
    BY <2>1 DEF Tunnels!IsContent
  <2>4. Tunnels!IsContent(panel)'
    BY <2>1, <2>2 DEF Tunnels!TunnelsInv, Tunnels!IsContent, Tunnels!Config
  <2>5. Tunnels!Parsed(panel').tunnels = Tunnels!Parsed(cloudflare').tunnels
    <3>1. \A m, t, us : Tunnels!Parsed(Tunnels!Config(m, t, us)).tunnels = {Tunnels!Bare(u) : u \in us}
      BY DEF Tunnels!Parsed, Tunnels!Config
    <3>2. PICK us : us = c.tunnels
      OBVIOUS
    <3>3. Tunnels!Parsed(panel').tunnels = {Tunnels!Bare(u) : u \in us}
      BY <2>2, <3>1, <3>2
    <3>4. Tunnels!Parsed(cloudflare').tunnels = {Tunnels!Bare(u) : u \in us}
      BY <2>2, <2>3, <3>1, <3>2
    <3> QED
      BY <3>3, <3>4
  <2>6. Tunnels!IsContent(cloudflare)'
    BY <2>1, <2>2
  <2>7. Tunnels!IsPage'
    BY <2>2 DEF Tunnels!TunnelsInv, Tunnels!IsPage
  <2> QED
    BY <1>1, <1>2, <2>4, <2>5, <2>6, <2>7 DEF Tunnels!TunnelsInv, Tunnels!KnowsFile
<1>6. CASE Tunnels!SavedPage(TRUE)
  <2>1. cloudflare' = Head(tunnelCalls).content /\ Tunnels!IsContent(cloudflare)' /\ dropped' /\ panel' = panel
    BY <1>2, <1>6 DEF Tunnels!SavedPage, Tunnels!IsCall
  <2>2. Tunnels!IsPage'
    BY <1>6 DEF Tunnels!SavedPage, Tunnels!TunnelsInv, Tunnels!IsPage
  <2>3. Tunnels!IsContent(panel)'
    BY <2>1 DEF Tunnels!TunnelsInv, Tunnels!IsContent
  <2> QED
    BY <1>1, <1>2, <2>1, <2>2, <2>3 DEF Tunnels!TunnelsInv, Tunnels!KnowsFile
<1> QED
  BY <1>3, <1>4, <1>5, <1>6 DEF Tunnels!Perform

\* The tunnels of projects that are not renamed do nothing but that.
LEMMA TunnelsAlike ==
  ASSUME Shared!Next
  PROVE  \/ \E p : Tunnels!SelectProject(p)
         \/ Tunnels!AddTunnel \/ Tunnels!DeleteAllTunnels
         \/ \E id : Tunnels!DeleteTunnel(id) \/ Tunnels!ToggleTunnel(id) \/ Tunnels!StartRename(id)
         \/ Tunnels!CancelRename \/ Tunnels!OpenPage \/ Tunnels!ClosePage \/ Tunnels!SavePage
         \/ \E m \in {"default", "token"} : Tunnels!PickMode(m)
         \/ \E t : Tunnels!TypeToken(t)
         \/ Tunnels!Perform
<1>1. \A c : Shared!Invoke(c) <=> Tunnels!Invoke(c)
  BY DEF Shared!Invoke, Tunnels!Invoke
<1>2. \A ts : Shared!SaveTunnels(ts) <=> Tunnels!SaveTunnels(ts)
  BY <1>1 DEF Shared!SaveTunnels, Tunnels!SaveTunnels, Shared!Call, Tunnels!Call, Shared!Config, Tunnels!Config
<1>3. \A p : Shared!SelectProject(p) => Tunnels!SelectProject(p)
  BY <1>1 DEF Shared!SelectProject, Tunnels!SelectProject, Shared!Call, Tunnels!Call
<1>4. Shared!AddTunnel => Tunnels!AddTunnel
  BY <1>2 DEF Shared!AddTunnel, Tunnels!AddTunnel
<1>5. Shared!DeleteAllTunnels => Tunnels!DeleteAllTunnels
  BY <1>2 DEF Shared!DeleteAllTunnels, Tunnels!DeleteAllTunnels, Shared!Shown, Tunnels!Shown, Shared!Mine, Tunnels!Mine
<1>6. \A id : Shared!DeleteTunnel(id) => Tunnels!DeleteTunnel(id)
  BY <1>2 DEF Shared!DeleteTunnel, Tunnels!DeleteTunnel
<1>7. \A id : Shared!ToggleTunnel(id) => Tunnels!ToggleTunnel(id)
  BY <1>2 DEF Shared!ToggleTunnel, Tunnels!ToggleTunnel, Shared!Toggled, Tunnels!Toggled, Shared!Mine, Tunnels!Mine
<1>8. /\ \A id : Shared!StartRename(id) => Tunnels!StartRename(id)
      /\ Shared!CancelRename => Tunnels!CancelRename
  BY DEF Shared!StartRename, Tunnels!StartRename, Shared!CancelRename, Tunnels!CancelRename
<1>9. Shared!OpenPage => Tunnels!OpenPage
  BY <1>1 DEF Shared!OpenPage, Tunnels!OpenPage, Shared!Call, Tunnels!Call
<1>10. Shared!ClosePage => Tunnels!ClosePage
  BY DEF Shared!ClosePage, Tunnels!ClosePage, Shared!Usable, Tunnels!Usable
<1>11. Shared!SavePage => Tunnels!SavePage
  BY <1>1 DEF Shared!SavePage, Tunnels!SavePage, Shared!Usable, Tunnels!Usable, Shared!Call, Tunnels!Call,
              Shared!Config, Tunnels!Config
<1>12. \A m : Shared!PickMode(m) => Tunnels!PickMode(m)
  BY DEF Shared!PickMode, Tunnels!PickMode, Shared!Usable, Tunnels!Usable
<1>13. \A t : Shared!TypeToken(t) => Tunnels!TypeToken(t)
  BY DEF Shared!TypeToken, Tunnels!TypeToken, Shared!Usable, Tunnels!Usable
<1>14. Shared!Perform => Tunnels!Perform
  <2>1. Shared!NoFile = Tunnels!NoFile
    BY DEF Shared!NoFile, Tunnels!NoFile, Shared!Config, Tunnels!Config
  <2>2. \A c : Shared!Parsed(c) = Tunnels!Parsed(c)
    BY DEF Shared!Parsed, Tunnels!Parsed, Shared!Bare, Tunnels!Bare
  <2>3. Shared!LoadPanel => Tunnels!LoadPanel
    BY <2>1, <2>2 DEF Shared!LoadPanel, Tunnels!LoadPanel
  <2>4. Shared!LoadPage => Tunnels!LoadPage
    BY <2>1 DEF Shared!LoadPage, Tunnels!LoadPage, Shared!ModeOf, Tunnels!ModeOf
  <2>5. \A ok : Shared!SavedPanel(ok) => Tunnels!SavedPanel(ok)
    BY DEF Shared!SavedPanel, Tunnels!SavedPanel
  <2>6. \A ok : Shared!SavedPage(ok) => Tunnels!SavedPage(ok)
    BY DEF Shared!SavedPage, Tunnels!SavedPage
  <2> QED
    BY <2>3, <2>4, <2>5, <2>6 DEF Shared!Perform, Tunnels!Perform
<1> QED
  BY <1>3, <1>4, <1>5, <1>6, <1>7, <1>8, <1>9, <1>10, <1>11, <1>12, <1>13, <1>14 DEF Shared!Next

LEMMA TunnelsSafe == Tunnels!TunnelsAssumption => (Spec => []Tunnels!TunnelsInv)
<1> SUFFICES ASSUME Tunnels!TunnelsAssumption PROVE Spec => []Tunnels!TunnelsInv
  OBVIOUS
<1>1. Init => Tunnels!TunnelsInv
  BY TunnelsInit DEF Init
<1>2. ASSUME Tunnels!TunnelsInv, UNCHANGED tunnelsV PROVE Tunnels!TunnelsInv'
  BY <1>2 DEF tunnelsV, Tunnels!TunnelsInv, Tunnels!KnowsFile, Tunnels!NoFile, Tunnels!IsContent, Tunnels!Parsed,
              Tunnels!CallsOK, Tunnels!IsPage
<1>3. \A p : Tunnels!TunnelsInv /\ Tunnels!SelectProject(p) => Tunnels!TunnelsInv'
  <2> SUFFICES ASSUME NEW p, Tunnels!TunnelsInv, Tunnels!SelectProject(p) PROVE Tunnels!TunnelsInv'
    OBVIOUS
  <2>1. UNCHANGED <<cloudflare, panel, made, dropped, page>> /\ tunnelCalls' = Append(tunnelCalls, Tunnels!Call("load", "panel", None))
    BY DEF Tunnels!SelectProject, Tunnels!Invoke
  <2>2. Tunnels!IsPage'
    BY <2>1 DEF Tunnels!TunnelsInv, Tunnels!IsPage
  <2> QED
    BY <2>1, <2>2, TunnelsAsked
<1>4. \A id : Tunnels!TunnelsInv /\ (Tunnels!StartRename(id) \/ Tunnels!CancelRename) => Tunnels!TunnelsInv'
  <2> SUFFICES ASSUME NEW id, Tunnels!TunnelsInv, Tunnels!StartRename(id) \/ Tunnels!CancelRename PROVE Tunnels!TunnelsInv'
    OBVIOUS
  <2>1. UNCHANGED <<cloudflare, panel, made, dropped, page, tunnelCalls>>
    BY DEF Tunnels!StartRename, Tunnels!CancelRename
  <2>2. Tunnels!IsPage'
    BY <2>1 DEF Tunnels!TunnelsInv, Tunnels!IsPage
  <2> QED
    BY <2>1, <2>2, TunnelsAsked
<1>5. Tunnels!TunnelsInv /\ Tunnels!Next => Tunnels!TunnelsInv'
  BY <1>3, <1>4, TunnelsAdded, TunnelsDeleted, TunnelsToggled, TunnelsRenamed, TunnelsPage, TunnelsPageSaved,
     TunnelsPerformed DEF Tunnels!Next
<1>6. Tunnels!TunnelsInv /\ Shared!Next => Tunnels!TunnelsInv'
  BY <1>3, <1>4, TunnelsAlike, TunnelsAdded, TunnelsDeleted, TunnelsToggled, TunnelsPage, TunnelsPageSaved,
     TunnelsPerformed
<1>7. Tunnels!TunnelsInv /\ [Next]_vars => Tunnels!TunnelsInv'
  BY <1>2, <1>5, <1>6 DEF Next, NextFiles, NextShells, NextEditors, vars, shellsV
<1> QED
  BY <1>1, <1>7, PTL DEF Spec
\* A start opens the tunnel that is ticked where it is shown.
LEMMA TunnelsTrue ==
  ASSUME Tunnels!TunnelsInv
  PROVE  Tunnels!StartOpensTicked /\ Tunnels!ShownIsStored
<1>1. Tunnels!ShownIsStored
  BY DEF Tunnels!ShownIsStored, Tunnels!TunnelsInv, Tunnels!KnowsFile
<1>2. SUFFICES ASSUME ~dropped PROVE Tunnels!StartOpensTicked
  BY <1>1 DEF Tunnels!StartOpensTicked
<1>3. PICK mine, filed : /\ mine = Tunnels!Ticked(Tunnels!Shown, tunnelProject)
                         /\ filed = IF cloudflare = Tunnels!NoFile THEN {} ELSE Tunnels!Ticked(cloudflare.tunnels, tunnelProject)
  OBVIOUS
<1>4. CASE cloudflare = Tunnels!NoFile
  <2>1. panel.tunnels = {}
    BY <1>4 DEF Tunnels!TunnelsInv, Tunnels!KnowsFile, Tunnels!IsContent, Tunnels!NoFile, Tunnels!Config
  <2>2. mine = {} /\ filed = {}
    BY <1>3, <1>4, <2>1 DEF Tunnels!Ticked, Tunnels!Shown
  <2> QED
    BY <1>3, <2>2 DEF Tunnels!StartOpensTicked, Tunnels!Opened
<1>5. CASE cloudflare # Tunnels!NoFile
  <2>1. Tunnels!IsContent(cloudflare) /\ Tunnels!IsContent(panel)
    BY <1>5 DEF Tunnels!TunnelsInv, Tunnels!KnowsFile
  <2>2. {Tunnels!Bare(t) : t \in panel.tunnels} = {Tunnels!Bare(t) : t \in cloudflare.tunnels}
    <3>1. Tunnels!Parsed(panel).tunnels = Tunnels!Parsed(cloudflare).tunnels
      BY <1>2, <1>5 DEF Tunnels!TunnelsInv, Tunnels!KnowsFile
    <3>2. \A c : Tunnels!IsContent(c) => Tunnels!Parsed(c).tunnels = {Tunnels!Bare(t) : t \in c.tunnels}
      BY DEF Tunnels!IsContent, Tunnels!Config, Tunnels!Parsed
    <3> QED
      BY <2>1, <3>1, <3>2
  <2>3. \A t : Tunnels!IsTunnel(t) =>
          Tunnels!Bare(t).id = t.id /\ Tunnels!Bare(t).of = t.of /\ Tunnels!Bare(t).active = t.active
    BY DEF Tunnels!IsTunnel, Tunnels!Bare
  <2>4. \A t \in mine : \E u \in filed : u.id = t.id
    <3> SUFFICES ASSUME NEW t \in mine PROVE \E u \in filed : u.id = t.id
      OBVIOUS
    <3>1. t \in panel.tunnels /\ t.of = tunnelProject /\ t.active
      BY <1>3 DEF Tunnels!Ticked, Tunnels!Shown
    <3>2. PICK u \in cloudflare.tunnels : Tunnels!Bare(t) = Tunnels!Bare(u)
      BY <2>2, <3>1
    <3>3. Tunnels!IsTunnel(t) /\ Tunnels!IsTunnel(u)
      BY <2>1, <3>1, <3>2 DEF Tunnels!IsContent
    <3>4. u.id = t.id /\ u.of = t.of /\ u.active = t.active
      BY <2>3, <3>2, <3>3
    <3> QED
      BY <1>3, <1>5, <3>1, <3>2, <3>4 DEF Tunnels!Ticked
  <2>5. \A u \in filed : \E t \in mine : u.id = t.id
    <3> SUFFICES ASSUME NEW u \in filed PROVE \E t \in mine : u.id = t.id
      OBVIOUS
    <3>1. u \in cloudflare.tunnels /\ u.of = tunnelProject /\ u.active
      BY <1>3, <1>5 DEF Tunnels!Ticked
    <3>2. PICK t \in panel.tunnels : Tunnels!Bare(t) = Tunnels!Bare(u)
      BY <2>2, <3>1
    <3>3. Tunnels!IsTunnel(t) /\ Tunnels!IsTunnel(u)
      BY <2>1, <3>1, <3>2 DEF Tunnels!IsContent
    <3>4. u.id = t.id /\ u.of = t.of /\ u.active = t.active
      BY <2>3, <3>2, <3>3
    <3> QED
      BY <1>3, <3>1, <3>2, <3>4 DEF Tunnels!Ticked, Tunnels!Shown, Tunnels!Mine
  <2>6. \A u, v \in filed : u.id = v.id /\ u.id \in Nat
    BY <1>3, <1>5, <2>1 DEF Tunnels!Ticked, Tunnels!IsContent, Tunnels!IsTunnel
  <2>7. CASE filed = {}
    BY <1>3, <2>4, <2>7 DEF Tunnels!StartOpensTicked, Tunnels!Opened
  <2>8. CASE filed # {}
    <3>1. PICK k : k = CHOOSE t \in filed : \A u \in filed : u.id <= t.id
      OBVIOUS
    <3>2. k \in filed
      <4>1. \E t \in filed : \A u \in filed : u.id <= t.id
        BY <2>6, <2>8
      <4> QED
        BY <3>1, <4>1
    <3>3. Tunnels!Opened(tunnelProject) = k.id
      BY <1>3, <2>8, <3>1 DEF Tunnels!Opened
    <3>4. mine # {} /\ \A t \in mine : k.id = t.id
      BY <2>4, <2>5, <2>6, <3>2
    <3> QED
      BY <1>3, <3>3, <3>4 DEF Tunnels!StartOpensTicked
  <2> QED
    BY <2>7, <2>8
<1> QED
  BY <1>4, <1>5

(***************************************************************************)
(* The terminals of the projects.  A user who waits has one handler under  *)
(* way, and that one alone may have left a terminal and its session apart. *)
(***************************************************************************)
\* The terminals a list holds when one is taken from it, or put at its end.
LEMMA TermFiltered ==
  ASSUME NEW S, NEW s \in Seq(S), Tabs!IsInjective(s), NEW x, NEW t, t = Tabs!Without(s, x)
  PROVE  /\ t \in Seq(S) /\ Tabs!IsInjective(t)
         /\ \A y : y \in Tabs!Range(t) <=> y \in Tabs!Range(s) /\ y # x
<1>1. \A q : Tabs!Range(q) = Panes!ToSet(q) /\ (Tabs!IsInjective(q) <=> Panes!IsInjective(q))
  BY DEF Tabs!Range, Panes!ToSet, Tabs!IsInjective, Panes!IsInjective
<1>2. \A q, i : Tabs!RemoveAt(q, i) = Panes!RemoveAt(q, i)
  BY DEF Tabs!RemoveAt, Panes!RemoveAt
<1>3. t = Panes!Without(s, x)
  BY <1>1, <1>2 DEF Tabs!Without, Panes!Without
<1> QED
  BY <1>1, <1>3, TabFiltered

LEMMA TermAppended ==
  ASSUME NEW S, NEW s \in Seq(S), Tabs!IsInjective(s), NEW x \in S, x \notin Tabs!Range(s), NEW t, t = Append(s, x)
  PROVE  /\ t \in Seq(S) /\ t # <<>> /\ Tabs!IsInjective(t)
         /\ \A y : y \in Tabs!Range(t) <=> y \in Tabs!Range(s) \/ y = x
<1>1. /\ t \in Seq(S) /\ DOMAIN s = 1..Len(s) /\ DOMAIN t = 1..(Len(s) + 1) /\ Len(s) \in Nat /\ Len(t) = Len(s) + 1
      /\ t[Len(s) + 1] = x /\ \A i \in 1..Len(s) : t[i] = s[i]
  OBVIOUS
<1>2. \A i \in DOMAIN s : s[i] # x
  BY DEF Tabs!Range
<1>3. Tabs!IsInjective(t)
  <2> SUFFICES ASSUME NEW a \in DOMAIN t, NEW b \in DOMAIN t, t[a] = t[b] PROVE a = b
    BY DEF Tabs!IsInjective
  <2> QED
    BY <1>1, <1>2 DEF Tabs!IsInjective
<1>4. \A i \in DOMAIN t : t[i] = x \/ \E j \in DOMAIN s : t[i] = s[j]
  BY <1>1
<1>5. \A j \in DOMAIN s : \E i \in DOMAIN t : t[i] = s[j]
  BY <1>1
<1>6. \E i \in DOMAIN t : t[i] = x
  BY <1>1
<1> QED
  BY <1>1, <1>3, <1>4, <1>5, <1>6 DEF Tabs!Range

LEMMA TermAlone ==
  ASSUME NEW S, NEW x \in S, NEW t, t = <<x>>
  PROVE  t \in Seq(S) /\ t # <<>> /\ Tabs!IsInjective(t) /\ \A y : y \in Tabs!Range(t) <=> y = x
BY DEF Tabs!IsInjective, Tabs!Range

LEMMA TermNone ==
  ASSUME NEW S
  PROVE  <<>> \in Seq(S) /\ Tabs!IsInjective(<<>>) /\ Tabs!Range(<<>>) = {}
BY DEF Tabs!IsInjective, Tabs!Range

LEMMA TermListed == ASSUME NEW S, NEW s \in Seq(S), NEW x \in Tabs!Range(s) PROVE x \in S
BY DEF Tabs!Range

LEMMA TermHead ==
  ASSUME NEW S, NEW s \in Seq(S), s # <<>>
  PROVE  Head(s) \in Tabs!Range(s) /\ Head(s) \in S
<1>1. Len(s) \in Nat \ {0} /\ DOMAIN s = 1..Len(s) /\ Head(s) = s[1] /\ s[1] \in S
  OBVIOUS
<1>2. 1 \in DOMAIN s
  BY <1>1
<1> QED
  BY <1>1, <1>2 DEF Tabs!Range

LEMMA TermRest ==
  ASSUME NEW S, NEW s \in Seq(S), Tabs!IsInjective(s), s # <<>>, NEW t, t = Tail(s)
  PROVE  /\ t \in Seq(S) /\ Tabs!IsInjective(t)
         /\ \A y : y \in Tabs!Range(t) <=> y \in Tabs!Range(s) /\ y # Head(s)
<1>1. /\ Len(s) \in Nat \ {0} /\ DOMAIN s = 1..Len(s) /\ Head(s) = s[1]
      /\ t \in Seq(S) /\ Len(t) = Len(s) - 1 /\ DOMAIN t = 1..(Len(s) - 1)
      /\ \A i \in DOMAIN t : t[i] = s[i + 1]
  OBVIOUS
<1>2. \A i \in DOMAIN t : i + 1 \in DOMAIN s /\ i + 1 # 1
  BY <1>1
<1>3. \A j \in DOMAIN s : j # 1 => j - 1 \in DOMAIN t /\ (j - 1) + 1 = j
  BY <1>1
<1>4. Tabs!IsInjective(t)
  <2> SUFFICES ASSUME NEW a \in DOMAIN t, NEW b \in DOMAIN t, t[a] = t[b] PROVE a = b
    BY DEF Tabs!IsInjective
  <2>1. a + 1 = b + 1
    BY <1>1, <1>2 DEF Tabs!IsInjective
  <2> QED
    BY <1>1, <2>1
<1>5. \A i \in DOMAIN t : \E j \in DOMAIN s : t[i] = s[j] /\ t[i] # s[1]
  <2>1. 1 \in DOMAIN s
    BY <1>1
  <2> QED
    BY <1>1, <1>2, <2>1 DEF Tabs!IsInjective
<1>6. \A j \in DOMAIN s : s[j] # s[1] => \E i \in DOMAIN t : t[i] = s[j]
  <2> SUFFICES ASSUME NEW j \in DOMAIN s, s[j] # s[1] PROVE \E i \in DOMAIN t : t[i] = s[j]
    OBVIOUS
  <2>1. j - 1 \in DOMAIN t /\ (j - 1) + 1 = j
    BY <1>3
  <2>2. t[j - 1] = s[j]
    BY <1>1, <2>1
  <2> QED
    BY <2>1, <2>2
<1>7. \A y : y \in Tabs!Range(t) <=> \E i \in DOMAIN t : y = t[i]
  BY DEF Tabs!Range
<1>8. \A y : y \in Tabs!Range(s) <=> \E i \in DOMAIN s : y = s[i]
  BY DEF Tabs!Range
<1>9. PICK e : e = s[1] /\ e = Head(s)
  BY <1>1
<1>10. \A y : y \in Tabs!Range(t) => y \in Tabs!Range(s) /\ y # e
  BY <1>5, <1>7, <1>8, <1>9
<1>11. \A y : y \in Tabs!Range(s) /\ y # e => y \in Tabs!Range(t)
  BY <1>6, <1>7, <1>8, <1>9
<1> QED
  BY <1>1, <1>4, <1>9, <1>10, <1>11

\* The names of terminals: one of each number up to the bound of a project.
LEMMA TermNames ==
  ASSUME Tabs!TerminalAssumption, NEW p \in TermProject
  PROVE  /\ [q \in TermProject |-> IF q \in Adding THEN MaxTabs ELSE 0][p] \in Nat
         /\ \A n \in 0..([q \in TermProject |-> IF q \in Adding THEN MaxTabs ELSE 0][p]) :
              <<p, n>> \in Tabs!Tab /\ Tabs!Of(<<p, n>>) = p /\ <<p, n>>[2] = n
<1>1. PICK bound : bound = [q \in TermProject |-> IF q \in Adding THEN MaxTabs ELSE 0]
  OBVIOUS
<1>2. bound \in [TermProject -> Nat]
  BY <1>1 DEF Tabs!TerminalAssumption
<1>3. \A n \in 0..bound[p] : <<p, n>> \in UNION {{q} \X (0..bound[q]) : q \in TermProject}
  OBVIOUS
<1> QED
  BY <1>1, <1>2, <1>3 DEF Tabs!Tab, Tabs!Of

LEMMA TermNumbers == ASSUME NEW t \in Tabs!Tab PROVE t[2] \in Nat
BY DEF Tabs!Tab

LEMMA TermOf == ASSUME NEW t \in Tabs!Tab PROVE Tabs!Of(t) \in TermProject
BY DEF Tabs!Tab, Tabs!Of

\* The screens that are made show what was put out.
LEMMA TermMounted ==
  ASSUME Tabs!ScreensOK, UNCHANGED outputs, NEW C,
         screens' = [t \in Tabs!Tab |-> IF t \in C THEN Tabs!Mounted(t) ELSE None]
  PROVE  Tabs!ScreensOK'
<1>1. \A t \in Tabs!Tab : Tabs!IsScreen(Tabs!Mounted(t), outputs[t])
  <2> SUFFICES ASSUME NEW t \in Tabs!Tab PROVE Tabs!IsScreen(Tabs!Mounted(t), outputs[t])
    OBVIOUS
  <2>1. PICK x, f, r : x = Tabs!Mounted(t) /\ f = FALSE /\ r = 1..outputs[t]
    OBVIOUS
  <2>2. x = [listening |-> f, cleared |-> 0, shown |-> r]
    BY <2>1 DEF Tabs!Mounted
  <2>3. outputs[t] \in Nat
    BY DEF Tabs!ScreensOK
  <2> QED
    BY <2>1, <2>2, <2>3 DEF Tabs!IsScreen
<1> QED
  BY <1>1 DEF Tabs!ScreensOK

LEMMA TermRemounted ==
  ASSUME Tabs!ScreensOK, UNCHANGED outputs, NEW p, NEW v, NEW ts, Tabs!Remount(p, v, ts)
  PROVE  Tabs!ScreensOK'
BY TermMounted DEF Tabs!Remount

LEMMA TermScreensStay == ASSUME Tabs!ScreensOK, UNCHANGED <<outputs, screens>> PROVE Tabs!ScreensOK'
BY DEF Tabs!ScreensOK

\* What is known while nothing of it changes.
LEMMA TermAgreeStays ==
  ASSUME NEW T, Tabs!AgreeBut(T), UNCHANGED <<registered, tabs, termStatus, sessions>>
  PROVE  Tabs!AgreeBut(T)'
BY DEF Tabs!AgreeBut

LEMMA TermHandlersStay ==
  ASSUME (Tabs!Idle /\ Tabs!AgreeBut({})) \/ \E h \in termHandlers : termHandlers = {h} /\ Tabs!HandlerOK(h),
         UNCHANGED <<registered, tabs, termStatus, sessions, termHandlers>>
  PROVE  ((Tabs!Idle /\ Tabs!AgreeBut({})) \/ \E h \in termHandlers : termHandlers = {h} /\ Tabs!HandlerOK(h))'
BY DEF Tabs!Idle, Tabs!AgreeBut, Tabs!HandlerOK

\* At first there is no terminal.
LEMMA TermInit == Tabs!TerminalAssumption /\ Tabs!Init => Tabs!TabsInv
<1> SUFFICES ASSUME Tabs!TerminalAssumption, Tabs!Init PROVE Tabs!TabsInv
  OBVIOUS
<1>1. \A p \in TermProject : tabs[p] = <<>> /\ current[p] = None
  BY DEF Tabs!Init
<1>2. Tabs!TypesOK
  BY <1>1, TermNone DEF Tabs!Init, Tabs!TypesOK
<1>3. Tabs!ScreensOK
  BY DEF Tabs!Init, Tabs!ScreensOK
<1>4. Tabs!ListsOK
  BY <1>1, TermNone DEF Tabs!ListsOK
<1>5. Tabs!AgreeBut({})
  BY <1>1, TermOf, TermNone DEF Tabs!AgreeBut, Tabs!Init
<1> QED
  BY <1>2, <1>3, <1>4, <1>5 DEF Tabs!TabsInv, Tabs!Idle, Tabs!Init

\* Views, screens and the choice of a terminal.
LEMMA TermViewed ==
  ASSUME Tabs!TabsInv, UNCHANGED <<registered, termProject, tabs, used, termStatus, sessions, termHandlers>>,
         current' = current, Tabs!ScreensOK'
  PROVE  Tabs!TabsInv'
<1>1. Tabs!TypesOK' /\ Tabs!ListsOK'
  BY DEF Tabs!TabsInv, Tabs!TypesOK, Tabs!ListsOK
<1> QED
  BY <1>1, TermHandlersStay DEF Tabs!TabsInv

LEMMA TermSetView ==
  ASSUME Tabs!TabsInv, NEW v, Tabs!SetView(v)
  PROVE  Tabs!TabsInv'
<1>1. Tabs!ScreensOK'
  BY TermRemounted DEF Tabs!SetView, Tabs!TabsInv
<1> QED
  BY <1>1, TermViewed DEF Tabs!SetView, Tabs!tabVars

LEMMA TermRename ==
  ASSUME Tabs!TabsInv, NEW t, Tabs!RenameTerminal(t)
  PROVE  Tabs!TabsInv'
<1>1. Tabs!ScreensOK'
  BY TermRemounted DEF Tabs!RenameTerminal, Tabs!TabsInv
<1> QED
  BY <1>1, TermViewed DEF Tabs!RenameTerminal, Tabs!tabVars

LEMMA TermListen ==
  ASSUME Tabs!TabsInv, NEW t \in Tabs!Tab, Tabs!Listen(t)
  PROVE  Tabs!TabsInv'
<1>1. PICK y, n : y = TRUE /\ n = outputs[t]
  OBVIOUS
<1>2. Tabs!IsScreen(screens[t], n)
  BY <1>1 DEF Tabs!Listen, Tabs!Deaf, Tabs!TabsInv, Tabs!ScreensOK
<1>3. PICK x, z : x = screens[t] /\ z = [x EXCEPT !.listening = y]
  OBVIOUS
<1>4. Tabs!IsScreen(z, n)
  BY <1>2, <1>3 DEF Tabs!IsScreen
<1>5. screens' = [screens EXCEPT ![t] = z] /\ outputs' = outputs
  BY <1>1, <1>3 DEF Tabs!Listen
<1>6. Tabs!ScreensOK'
  BY <1>1, <1>4, <1>5 DEF Tabs!TabsInv, Tabs!ScreensOK
<1> QED
  BY <1>6, TermViewed DEF Tabs!Listen, Tabs!tabVars

LEMMA TermOutput ==
  ASSUME Tabs!TabsInv, NEW t \in Tabs!Tab, Tabs!Output(t)
  PROVE  Tabs!TabsInv'
<1>1. PICK n : n = outputs[t] /\ n \in Nat
  BY DEF Tabs!TabsInv, Tabs!ScreensOK
<1>2. /\ outputs' = [outputs EXCEPT ![t] = n + 1] /\ outputs'[t] = n + 1
      /\ outputs' \in [Tabs!Tab -> Nat] /\ \A u \in Tabs!Tab : u # t => outputs'[u] = outputs[u]
  BY <1>1 DEF Tabs!Output, Tabs!TabsInv, Tabs!ScreensOK
<1>3. CASE screens[t] = None
  <2>1. screens' = screens
    BY <1>3 DEF Tabs!Output
  <2> QED
    <3>1. Tabs!ScreensOK'
      BY <1>2, <1>3, <2>1 DEF Tabs!TabsInv, Tabs!ScreensOK
    <3> QED
      BY <3>1, TermViewed DEF Tabs!Output, Tabs!tabVars
<1>4. CASE screens[t] # None
  <2>1. screens[t].listening /\ Tabs!IsScreen(screens[t], n)
    BY <1>1, <1>4 DEF Tabs!Output, Tabs!Deaf, Tabs!TabsInv, Tabs!ScreensOK
  <2>2. PICK x, z : x = screens[t] /\ z = [x EXCEPT !.shown = @ \cup {n + 1}]
    OBVIOUS
  <2>3. Tabs!IsScreen(z, n + 1)
    <3>1. x.cleared \in 0..n /\ x.shown = x.cleared + 1 .. n /\ x = [listening |-> x.listening, cleared |-> x.cleared, shown |-> x.shown]
      BY <2>1, <2>2 DEF Tabs!IsScreen
    <3>2. z = [listening |-> x.listening, cleared |-> x.cleared, shown |-> x.shown \cup {n + 1}]
      BY <2>2, <3>1
    <3>3. (x.cleared + 1 .. n) \cup {n + 1} = x.cleared + 1 .. n + 1
      BY <1>1, <3>1
    <3>4. x.cleared \in 0..(n + 1)
      BY <1>1, <3>1
    <3> QED
      BY <3>1, <3>2, <3>3, <3>4 DEF Tabs!IsScreen
  <2>4. screens' = [screens EXCEPT ![t] = z]
    BY <1>2, <1>4, <2>1, <2>2 DEF Tabs!Output
  <2>5. Tabs!ScreensOK'
    BY <1>2, <2>3, <2>4 DEF Tabs!TabsInv, Tabs!ScreensOK
  <2> QED
    BY <2>5, TermViewed DEF Tabs!Output, Tabs!tabVars
<1> QED
  BY <1>3, <1>4

\* The current terminal is one of its project, and that project is there.
LEMMA TermCurrent ==
  ASSUME Tabs!TabsInv, Tabs!Current # None
  PROVE  /\ termProject \in registered /\ termProject \in TermProject /\ termProject # None
         /\ Tabs!Current = current[termProject] /\ Tabs!Current \in Tabs!Range(tabs[termProject])
         /\ Tabs!Current \in Tabs!Tab
BY DEF Tabs!Current, Tabs!TabsInv, Tabs!TypesOK, Tabs!ListsOK, Tabs!Range

LEMMA TermMember ==
  ASSUME Tabs!TabsInv, NEW t \in Tabs!Range(Tabs!TabsOf(termProject, tabs))
  PROVE  /\ termProject \in registered /\ termProject \in TermProject /\ t \in Tabs!Range(tabs[termProject])
         /\ t \in Tabs!Tab
<1>1. termProject # None
  BY TermNone DEF Tabs!TabsOf
<1> QED
  BY <1>1 DEF Tabs!TabsOf, Tabs!TabsInv, Tabs!TypesOK, Tabs!Range

LEMMA TermClear ==
  ASSUME Tabs!TabsInv, Tabs!Clear
  PROVE  Tabs!TabsInv'
<1>1. PICK t, n : t = Tabs!Current /\ n = outputs[t]
  OBVIOUS
<1>2. t \in Tabs!Tab /\ n \in Nat /\ Tabs!IsScreen(screens[t], n)
  BY <1>1, TermCurrent DEF Tabs!Clear, Tabs!TabsInv, Tabs!ScreensOK
<1>3. PICK x, z : x = screens[t] /\ z = [x EXCEPT !.cleared = n, !.shown = {}]
  OBVIOUS
<1>4. Tabs!IsScreen(z, n)
  <2>1. z = [listening |-> x.listening, cleared |-> n, shown |-> {}]
    BY <1>2, <1>3 DEF Tabs!IsScreen
  <2>2. n + 1 .. n = {} /\ n \in 0..n
    BY <1>2
  <2> QED
    BY <2>1, <2>2 DEF Tabs!IsScreen
<1>5. screens' = [screens EXCEPT ![t] = z] /\ outputs' = outputs
  BY <1>1, <1>2, <1>3 DEF Tabs!Clear, Tabs!TabsInv, Tabs!ScreensOK
<1>6. Tabs!ScreensOK'
  BY <1>1, <1>4, <1>5 DEF Tabs!TabsInv, Tabs!ScreensOK
<1> QED
  BY <1>6, TermViewed DEF Tabs!Clear, Tabs!tabVars

LEMMA TermSelect ==
  ASSUME Tabs!TabsInv, NEW t, Tabs!SelectTerminal(t)
  PROVE  Tabs!TabsInv'
<1>1. /\ termProject \in TermProject /\ t \in Tabs!Range(tabs[termProject]) /\ t \in Tabs!Tab
      /\ current' = [current EXCEPT ![termProject] = t]
  BY TermMember DEF Tabs!SelectTerminal
<1>2. UNCHANGED <<registered, termProject, tabs, used, termStatus, sessions, outputs, screens, termHandlers>>
  BY DEF Tabs!SelectTerminal
<1>3. Tabs!TypesOK'
  BY <1>1, <1>2 DEF Tabs!TabsInv, Tabs!TypesOK
<1>4. Tabs!ListsOK'
  <2>1. tabs[termProject] # <<>>
    BY <1>1, TermNone
  <2> QED
    BY <1>1, <1>2, <2>1 DEF Tabs!TabsInv, Tabs!TypesOK, Tabs!ListsOK
<1>5. Tabs!ScreensOK'
  BY <1>2, TermScreensStay DEF Tabs!TabsInv
<1> QED
  BY <1>2, <1>3, <1>4, <1>5, TermHandlersStay DEF Tabs!TabsInv

\* One handler is under way at a time.
LEMMA TermFree ==
  ASSUME Tabs!TabsInv, Tabs!Free
  PROVE  /\ Tabs!AgreeBut({})
         /\ \A h : Tabs!Calls(h) => termHandlers' = {h}
         /\ termHandlers = {}
BY DEF Tabs!TabsInv, Tabs!Free, Tabs!Idle, Tabs!Calls

LEMMA TermGoesOn ==
  ASSUME Tabs!TabsInv, NEW h \in termHandlers
  PROVE  Tabs!HandlerOK(h) /\ \A H : Tabs!Becomes(h, H) => termHandlers' = H
<1>1. termHandlers # {}
  OBVIOUS
<1>2. termHandlers = {h} /\ Tabs!HandlerOK(h)
  BY <1>1 DEF Tabs!TabsInv, Tabs!Idle
<1> QED
  BY <1>2 DEF Tabs!Becomes

LEMMA TermUnderWay ==
  ASSUME Tabs!TypesOK', Tabs!ScreensOK', Tabs!ListsOK', NEW h, termHandlers' = {h}, Tabs!HandlerOK(h)'
  PROVE  Tabs!TabsInv'
BY DEF Tabs!TabsInv

LEMMA TermEnded ==
  ASSUME Tabs!TypesOK', Tabs!ScreensOK', Tabs!ListsOK', termHandlers' = {}, Tabs!AgreeBut({})'
  PROVE  Tabs!TabsInv'
BY DEF Tabs!TabsInv, Tabs!Idle

LEMMA TermHandler ==
  ASSUME NEW k, NEW p, NEW t, NEW d, NEW h, h = Tabs!Handler(k, p, t, d)
  PROVE  /\ h = [kind |-> h.kind, of |-> h.of, tab |-> h.tab, todo |-> h.todo, ok |-> h.ok]
         /\ h.kind = k /\ h.of = p /\ h.tab = t /\ h.todo = d /\ ~h.ok
<1>1. PICK f : f = FALSE
  OBVIOUS
<1>2. h = [kind |-> k, of |-> p, tab |-> t, todo |-> d, ok |-> f]
  BY <1>1 DEF Tabs!Handler
<1> QED
  BY <1>1, <1>2

LEMMA TermTurned ==
  ASSUME NEW h, h = [kind |-> h.kind, of |-> h.of, tab |-> h.tab, todo |-> h.todo, ok |-> h.ok],
         NEW k, NEW g, g = [h EXCEPT !.kind = k]
  PROVE  /\ g = [kind |-> g.kind, of |-> g.of, tab |-> g.tab, todo |-> g.todo, ok |-> g.ok]
         /\ g.kind = k /\ g.of = h.of /\ g.tab = h.tab /\ g.todo = h.todo /\ g.ok = h.ok
<1>1. PICK a, b, c, d, e : h = [kind |-> a, of |-> b, tab |-> c, todo |-> d, ok |-> e]
  OBVIOUS
<1>2. g = [kind |-> k, of |-> b, tab |-> c, todo |-> d, ok |-> e]
  BY <1>1
<1> QED
  BY <1>1, <1>2

\* The lists stay while no terminal comes or goes.
LEMMA TermListsStay ==
  ASSUME Tabs!TabsInv, UNCHANGED <<registered, termProject, tabs, current, used>>,
         sessions' \subseteq Tabs!Tab,
         \/ UNCHANGED termStatus
         \/ \E t, w : w \in {"none", "connecting", "connected", "error"} /\ termStatus' = [termStatus EXCEPT ![t] = w]
  PROVE  Tabs!TypesOK' /\ Tabs!ListsOK'
<1>1. termStatus' \in [Tabs!Tab -> {"none", "connecting", "connected", "error"}]
  BY DEF Tabs!TabsInv, Tabs!TypesOK
<1>2. Tabs!TypesOK'
  BY <1>1 DEF Tabs!TabsInv, Tabs!TypesOK
<1> QED
  BY <1>2 DEF Tabs!TabsInv, Tabs!ListsOK

\* The deletion of one terminal or of all, and a respawn, begin.
LEMMA TermAsked ==
  ASSUME Tabs!TabsInv,
         Tabs!DeleteAllTerminals \/ Tabs!RespawnTerminal \/ \E t : Tabs!DeleteTerminal(t)
  PROVE  Tabs!TabsInv'
<1>1. Tabs!Free /\ UNCHANGED <<registered, termProject, tabs, current, used, termStatus, sessions, outputs, screens>>
  BY DEF Tabs!DeleteAllTerminals, Tabs!RespawnTerminal, Tabs!DeleteTerminal, Tabs!tabVars
<1>2. Tabs!AgreeBut({})
  BY <1>1, TermFree
<1>3. Tabs!TypesOK' /\ Tabs!ListsOK' /\ Tabs!ScreensOK'
  BY <1>1, TermListsStay, TermScreensStay DEF Tabs!TabsInv, Tabs!TypesOK
<1>4. Tabs!AgreeBut({})'
  BY <1>1, <1>2, TermAgreeStays
<1>5. CASE Tabs!DeleteAllTerminals
  <2>1. termProject \in registered /\ termProject \in TermProject
    BY <1>5 DEF Tabs!DeleteAllTerminals, Tabs!TabsInv, Tabs!TypesOK
  <2>2. PICK h : h = Tabs!Handler("delete all", termProject, None, tabs[termProject]) /\ termHandlers' = {h}
    BY <1>1, <1>5, TermFree DEF Tabs!DeleteAllTerminals
  <2>3. /\ h = [kind |-> h.kind, of |-> h.of, tab |-> h.tab, todo |-> h.todo, ok |-> h.ok]
        /\ h.kind = "delete all" /\ h.of = termProject /\ h.todo = tabs[termProject] /\ ~h.ok
    <3>1. PICK p, d : p = termProject /\ d = tabs[termProject]
      OBVIOUS
    <3>2. h = Tabs!Handler("delete all", p, None, d)
      BY <2>2, <3>1
    <3>3. /\ h = [kind |-> h.kind, of |-> h.of, tab |-> h.tab, todo |-> h.todo, ok |-> h.ok]
          /\ h.kind = "delete all" /\ h.of = p /\ h.todo = d /\ ~h.ok
      <4>1. PICK f, n : f = FALSE /\ n = None
        OBVIOUS
      <4>2. h = [kind |-> "delete all", of |-> p, tab |-> n, todo |-> d, ok |-> f]
        BY <3>2, <4>1 DEF Tabs!Handler
      <4> QED
        BY <4>1, <4>2
    <3> QED
      BY <3>1, <3>3
  <2>4. h.todo \in Seq(Tabs!Tab) /\ Tabs!IsInjective(h.todo)
    BY <2>1, <2>3 DEF Tabs!TabsInv, Tabs!TypesOK, Tabs!ListsOK
  <2>5. Tabs!Range(tabs[h.of]) \ Tabs!Range(h.todo) = {}
    BY <2>3
  <2>6. Tabs!HandlerOK(h)
    BY <1>2, <2>1, <2>3, <2>4, <2>5 DEF Tabs!HandlerOK
  <2>7. Tabs!HandlerOK(h)'
    BY <1>1, <2>6 DEF Tabs!HandlerOK, Tabs!AgreeBut
  <2> QED
    BY <1>3, <2>2, <2>7, TermUnderWay
<1>6. CASE Tabs!RespawnTerminal
  <2>1. PICK h : h = Tabs!Handler("respawn", termProject, Tabs!Current, <<>>) /\ termHandlers' = {h}
    BY <1>1, <1>6, TermFree DEF Tabs!RespawnTerminal
  <2>2. termProject \in registered /\ Tabs!Current \in Tabs!Range(tabs[termProject])
    BY <1>6, TermCurrent DEF Tabs!RespawnTerminal
  <2>3. /\ h = [kind |-> h.kind, of |-> h.of, tab |-> h.tab, todo |-> h.todo, ok |-> h.ok]
        /\ h.kind = "respawn" /\ h.of = termProject /\ h.tab = Tabs!Current /\ ~h.ok
    BY <2>1, TermHandler
  <2>4. Tabs!HandlerOK(h)'
    BY <1>1, <1>4, <2>2, <2>3 DEF Tabs!HandlerOK
  <2> QED
    BY <1>3, <2>1, <2>4, TermUnderWay
<1>7. CASE \E t : Tabs!DeleteTerminal(t)
  <2>1. PICK t : Tabs!DeleteTerminal(t)
    BY <1>7
  <2>2. PICK h : h = Tabs!Handler("delete", termProject, t, <<>>) /\ termHandlers' = {h}
    BY <1>1, <2>1, TermFree DEF Tabs!DeleteTerminal
  <2>3. termProject \in registered /\ t \in Tabs!Range(tabs[termProject])
    BY <2>1, TermMember DEF Tabs!DeleteTerminal
  <2>4. /\ h = [kind |-> h.kind, of |-> h.of, tab |-> h.tab, todo |-> h.todo, ok |-> h.ok]
        /\ h.kind = "delete" /\ h.of = termProject /\ h.tab = t /\ ~h.ok
    BY <2>2, TermHandler
  <2>5. Tabs!HandlerOK(h)'
    BY <1>1, <1>4, <2>3, <2>4 DEF Tabs!HandlerOK
  <2> QED
    BY <1>3, <2>2, <2>5, TermUnderWay
<1> QED
  BY <1>5, <1>6, <1>7

\* A terminal that is in its list and about to be spawned.
LEMMA TermSpawning ==
  ASSUME Tabs!TypesOK', Tabs!ScreensOK', Tabs!ListsOK', NEW t,
         Tabs!Of(t) \in registered', t \in Tabs!Range(tabs'[Tabs!Of(t)]),
         termHandlers' = {Tabs!Spawning(t)}, Tabs!AgreeBut({t})'
  PROVE  Tabs!TabsInv'
<1>1. PICK h : h = Tabs!Handler("spawn", Tabs!Of(t), t, <<>>)
  OBVIOUS
<1>2. termHandlers' = {h}
  BY <1>1 DEF Tabs!Spawning
<1>3. /\ h = [kind |-> h.kind, of |-> h.of, tab |-> h.tab, todo |-> h.todo, ok |-> h.ok]
      /\ h.kind = "spawn" /\ h.of = Tabs!Of(t) /\ h.tab = t /\ ~h.ok
  BY <1>1, TermHandler
<1>4. Tabs!HandlerOK(h)'
  BY <1>3 DEF Tabs!HandlerOK
<1> QED
  BY <1>2, <1>4, TermUnderWay

\* The status of a terminal that is spawned anew.
LEMMA TermConnecting ==
  ASSUME Tabs!TabsInv, NEW t, Tabs!AgreeBut({t}), UNCHANGED <<registered, tabs, sessions>>,
         termStatus' = [termStatus EXCEPT ![t] = "connecting"]
  PROVE  Tabs!AgreeBut({t})'
<1>1. \A u \in Tabs!Tab \ {t} : termStatus'[u] = termStatus[u]
  BY DEF Tabs!TabsInv, Tabs!TypesOK
<1> QED
  BY <1>1 DEF Tabs!AgreeBut

LEMMA TermRetried ==
  ASSUME Tabs!TabsInv, Tabs!RetrySpawn
  PROVE  Tabs!TabsInv'
<1>1. PICK t : t = Tabs!Current
  OBVIOUS
<1>2. /\ Tabs!Free /\ UNCHANGED <<registered, termProject, tabs, current, used, sessions, outputs, screens>>
      /\ termStatus' = [termStatus EXCEPT ![t] = "connecting"] /\ termHandlers' = {Tabs!Spawning(t)}
  BY <1>1, TermFree DEF Tabs!RetrySpawn, Tabs!tabVars
<1>3. t # None
  BY <1>1 DEF Tabs!RetrySpawn, Tabs!OverlayOffers, Tabs!ActiveStatus
<1>4. termProject \in registered /\ t \in Tabs!Range(tabs[termProject]) /\ Tabs!Of(t) = termProject
  BY <1>1, <1>3, TermCurrent DEF Tabs!TabsInv, Tabs!ListsOK
<1>5. Tabs!TypesOK' /\ Tabs!ListsOK' /\ Tabs!ScreensOK'
  BY <1>2, TermListsStay, TermScreensStay DEF Tabs!TabsInv, Tabs!TypesOK
<1>6. Tabs!AgreeBut({t})
  BY <1>2, TermFree DEF Tabs!AgreeBut
<1>7. Tabs!AgreeBut({t})'
  BY <1>2, <1>6, TermConnecting
<1> QED
  BY <1>2, <1>4, <1>5, <1>7, TermSpawning

\* What is known of the handler under way.
LEMMA TermKnown ==
  ASSUME Tabs!TabsInv, NEW h, Tabs!HandlerOK(h)
  PROVE  /\ h = [kind |-> h.kind, of |-> h.of, tab |-> h.tab, todo |-> h.todo, ok |-> h.ok]
         /\ h.of \in registered /\ h.of \in TermProject
         /\ h.kind # "delete all" => /\ h.tab \in Tabs!Range(tabs[h.of]) /\ h.tab \in Tabs!Tab /\ Tabs!Of(h.tab) = h.of
         /\ h.kind # "spawned" => ~h.ok
<1>1. h = [kind |-> h.kind, of |-> h.of, tab |-> h.tab, todo |-> h.todo, ok |-> h.ok]
  BY DEF Tabs!HandlerOK
<1>2. h.of \in registered /\ h.of \in TermProject /\ tabs[h.of] \in Seq(Tabs!Tab)
  BY DEF Tabs!HandlerOK, Tabs!TabsInv, Tabs!TypesOK
<1>3. h.kind # "delete all" => /\ h.tab \in Tabs!Range(tabs[h.of]) /\ h.tab \in Tabs!Tab /\ Tabs!Of(h.tab) = h.of
  <2> SUFFICES ASSUME h.kind # "delete all"
               PROVE  h.tab \in Tabs!Range(tabs[h.of]) /\ h.tab \in Tabs!Tab /\ Tabs!Of(h.tab) = h.of
    OBVIOUS
  <2>1. h.tab \in Tabs!Range(tabs[h.of])
    BY DEF Tabs!HandlerOK
  <2>2. Tabs!Of(h.tab) = h.of
    BY <1>2, <2>1 DEF Tabs!TabsInv, Tabs!ListsOK
  <2>3. h.tab \in Tabs!Tab
    BY <1>2, <2>1, TermListed
  <2> QED
    BY <2>1, <2>2, <2>3
<1>4. h.kind # "spawned" => ~h.ok
  BY DEF Tabs!HandlerOK
<1> QED
  BY <1>1, <1>2, <1>3, <1>4

\* A session begins or ends: the terminals but that one stay as they are.
LEMMA TermSession ==
  ASSUME NEW t, Tabs!AgreeBut({}) \/ Tabs!AgreeBut({t}), UNCHANGED <<registered, tabs, termStatus>>,
         sessions' = sessions \cup {t} \/ sessions' = sessions \ {t} \/ sessions' = sessions
  PROVE  Tabs!AgreeBut({t})'
BY DEF Tabs!AgreeBut

LEMMA TermSpawnWorks ==
  ASSUME Tabs!TabsInv, NEW h \in termHandlers, NEW ok \in BOOLEAN, Tabs!SpawnWorks(h, ok)
  PROVE  Tabs!TabsInv'
<1>1. /\ h.kind = "spawn" /\ UNCHANGED <<registered, termProject, tabs, current, used, termStatus, outputs, screens>>
      /\ sessions' = IF ok THEN sessions \cup {h.tab} ELSE sessions \ {h.tab}
  BY DEF Tabs!SpawnWorks, Tabs!tabVars
<1>2. Tabs!HandlerOK(h)
  BY TermGoesOn
<1>3. PICK k, g : k = (IF ok THEN "check" ELSE "spawned") /\ g = [h EXCEPT !.kind = k]
  OBVIOUS
<1>4. termHandlers' = {g}
  BY <1>3, TermGoesOn DEF Tabs!SpawnWorks
<1>5. /\ g = [kind |-> g.kind, of |-> g.of, tab |-> g.tab, todo |-> g.todo, ok |-> g.ok]
      /\ g.kind = k /\ g.of = h.of /\ g.tab = h.tab /\ g.ok = h.ok /\ ~h.ok
  <2>1. ~h.ok /\ h = [kind |-> h.kind, of |-> h.of, tab |-> h.tab, todo |-> h.todo, ok |-> h.ok]
    BY <1>1, <1>2 DEF Tabs!HandlerOK
  <2> QED
    BY <1>3, <2>1, TermTurned
<1>6. sessions' \subseteq Tabs!Tab
  BY <1>1, <1>2, TermKnown DEF Tabs!TabsInv, Tabs!TypesOK
<1>7. Tabs!TypesOK' /\ Tabs!ListsOK' /\ Tabs!ScreensOK'
  BY <1>1, <1>6, TermListsStay, TermScreensStay DEF Tabs!TabsInv
<1>8. Tabs!AgreeBut({h.tab})'
  BY <1>1, <1>2, TermSession DEF Tabs!HandlerOK
<1>9. Tabs!HandlerOK(g)'
  BY <1>1, <1>2, <1>3, <1>5, <1>8 DEF Tabs!HandlerOK
<1> QED
  BY <1>4, <1>7, <1>9, TermUnderWay

LEMMA TermCheckWorks ==
  ASSUME Tabs!TabsInv, NEW h \in termHandlers, Tabs!CheckWorks(h)
  PROVE  Tabs!TabsInv'
<1>1. h.kind = "check" /\ UNCHANGED <<registered, termProject, tabs, current, used, termStatus, sessions, outputs, screens>>
  BY DEF Tabs!CheckWorks, Tabs!tabVars
<1>2. Tabs!HandlerOK(h)
  BY TermGoesOn
<1>3. PICK o, g : o = (h.tab \in sessions) /\ g = [h EXCEPT !.kind = "spawned", !.ok = o]
  OBVIOUS
<1>4. termHandlers' = {g}
  BY <1>3, TermGoesOn DEF Tabs!CheckWorks
<1>5. /\ g = [kind |-> g.kind, of |-> g.of, tab |-> g.tab, todo |-> g.todo, ok |-> g.ok]
      /\ g.kind = "spawned" /\ g.of = h.of /\ g.tab = h.tab /\ g.ok = o
  <2>1. PICK a, b, c, d, e : h = [kind |-> a, of |-> b, tab |-> c, todo |-> d, ok |-> e]
    BY <1>2 DEF Tabs!HandlerOK
  <2>2. g = [kind |-> "spawned", of |-> b, tab |-> c, todo |-> d, ok |-> o]
    BY <1>3, <2>1
  <2> QED
    BY <2>1, <2>2
<1>6. Tabs!TypesOK' /\ Tabs!ListsOK' /\ Tabs!ScreensOK'
  BY <1>1, TermListsStay, TermScreensStay DEF Tabs!TabsInv, Tabs!TypesOK
<1>7. Tabs!AgreeBut({h.tab})'
  BY <1>1, <1>2, TermSession DEF Tabs!HandlerOK
<1>8. g.ok <=> h.tab \in sessions
  BY <1>3, <1>5
<1>9. Tabs!HandlerOK(g)'
  BY <1>1, <1>2, <1>5, <1>7, <1>8 DEF Tabs!HandlerOK
<1> QED
  BY <1>4, <1>6, <1>9, TermUnderWay

LEMMA TermSpawned ==
  ASSUME Tabs!TabsInv, NEW h \in termHandlers, Tabs!Spawned(h)
  PROVE  Tabs!TabsInv'
<1>1. PICK w : w = IF h.ok THEN "connected" ELSE "error"
  OBVIOUS
<1>2. /\ h.kind = "spawned" /\ UNCHANGED <<registered, termProject, tabs, current, used, sessions, outputs, screens>>
      /\ termStatus' = [termStatus EXCEPT ![h.tab] = w] /\ termHandlers' = {}
  BY <1>1, TermGoesOn DEF Tabs!Spawned, Tabs!tabVars
<1>3. Tabs!HandlerOK(h)
  BY TermGoesOn
<1>4. h.tab \in Tabs!Tab /\ h.tab \in Tabs!Range(tabs[h.of]) /\ Tabs!Of(h.tab) = h.of
  BY <1>2, <1>3, TermKnown
<1>5. Tabs!TypesOK' /\ Tabs!ListsOK' /\ Tabs!ScreensOK'
  BY <1>1, <1>2, TermListsStay, TermScreensStay DEF Tabs!TabsInv, Tabs!TypesOK
<1>6. /\ \A u \in Tabs!Tab : u # h.tab => termStatus'[u] = termStatus[u]
      /\ termStatus'[h.tab] = w
  BY <1>2, <1>4 DEF Tabs!TabsInv, Tabs!TypesOK
<1>7. w \in {"connected", "error"} /\ (w = "connected" <=> h.tab \in sessions)
  BY <1>1, <1>2, <1>3 DEF Tabs!HandlerOK
<1>8. Tabs!AgreeBut({h.tab})
  BY <1>2, <1>3 DEF Tabs!HandlerOK
<1>9. Tabs!AgreeBut({})'
  BY <1>2, <1>4, <1>6, <1>7, <1>8 DEF Tabs!AgreeBut
<1> QED
  BY <1>2, <1>5, <1>9, TermEnded

\* The session of a terminal that is deleted or respawned has ended.
LEMMA TermKilled ==
  ASSUME Tabs!TabsInv, NEW h \in termHandlers,
         Tabs!DeleteWorks(h) \/ Tabs!RespawnWorks(h)
  PROVE  Tabs!TabsInv'
<1>1. PICK k : (k = "deleted" /\ Tabs!DeleteWorks(h)) \/ (k = "killed" /\ Tabs!RespawnWorks(h))
  OBVIOUS
<1>2. PICK g : g = [h EXCEPT !.kind = k]
  OBVIOUS
<1>3. /\ h.kind \in {"delete", "respawn"} /\ sessions' = sessions \ {h.tab}
      /\ UNCHANGED <<registered, termProject, tabs, current, used, termStatus, outputs, screens>>
  BY DEF Tabs!DeleteWorks, Tabs!RespawnWorks, Tabs!tabVars
<1>4. Tabs!HandlerOK(h)
  BY TermGoesOn
<1>5. termHandlers' = {g}
  BY <1>1, <1>2, TermGoesOn DEF Tabs!DeleteWorks, Tabs!RespawnWorks
<1>6. /\ g = [kind |-> g.kind, of |-> g.of, tab |-> g.tab, todo |-> g.todo, ok |-> g.ok]
      /\ g.kind = k /\ g.of = h.of /\ g.tab = h.tab /\ g.ok = h.ok /\ ~h.ok
  <2>1. ~h.ok /\ h = [kind |-> h.kind, of |-> h.of, tab |-> h.tab, todo |-> h.todo, ok |-> h.ok]
    BY <1>3, <1>4 DEF Tabs!HandlerOK
  <2> QED
    BY <1>2, <2>1, TermTurned
<1>7. Tabs!TypesOK' /\ Tabs!ListsOK' /\ Tabs!ScreensOK'
  BY <1>3, TermListsStay, TermScreensStay DEF Tabs!TabsInv, Tabs!TypesOK
<1>8. Tabs!AgreeBut({h.tab})'
  BY <1>3, <1>4, TermSession DEF Tabs!HandlerOK
<1>9. Tabs!HandlerOK(g)'
  BY <1>1, <1>3, <1>4, <1>6, <1>8 DEF Tabs!HandlerOK
<1> QED
  BY <1>5, <1>7, <1>9, TermUnderWay

LEMMA TermRespawned ==
  ASSUME Tabs!TabsInv, NEW h \in termHandlers, Tabs!Killed(h)
  PROVE  Tabs!TabsInv'
<1>1. /\ h.kind = "killed" /\ UNCHANGED <<registered, termProject, tabs, current, used, sessions, outputs, screens>>
      /\ termStatus' = [termStatus EXCEPT ![h.tab] = "connecting"] /\ termHandlers' = {Tabs!Spawning(h.tab)}
  BY TermGoesOn DEF Tabs!Killed, Tabs!tabVars
<1>2. Tabs!HandlerOK(h)
  BY TermGoesOn
<1>3. h.of \in registered /\ h.tab \in Tabs!Range(tabs[h.of]) /\ Tabs!Of(h.tab) = h.of
  BY <1>1, <1>2, TermKnown
<1>4. Tabs!TypesOK' /\ Tabs!ListsOK' /\ Tabs!ScreensOK'
  BY <1>1, TermListsStay, TermScreensStay DEF Tabs!TabsInv, Tabs!TypesOK
<1>5. Tabs!AgreeBut({h.tab})'
  BY <1>1, <1>2, TermConnecting DEF Tabs!HandlerOK
<1> QED
  BY <1>1, <1>3, <1>4, <1>5, TermSpawning

\* The list of a project is changed, and its current terminal with it.
LEMMA TermListChanged ==
  ASSUME Tabs!TabsInv, NEW p \in TermProject, NEW ts \in Seq(Tabs!Tab), Tabs!IsInjective(ts), NEW c, NEW n \in Nat,
         IF ts = <<>> THEN c = None ELSE c \in Tabs!Range(ts), n >= used[p],
         \A u \in Tabs!Range(ts) : Tabs!Of(u) = p /\ u[2] <= n,
         tabs' = [tabs EXCEPT ![p] = ts], current' = [current EXCEPT ![p] = c], used' = [used EXCEPT ![p] = n],
         registered' \subseteq TermProject, termProject' \in registered' \cup {None},
         sessions' \subseteq Tabs!Tab,
         termStatus' \in [Tabs!Tab -> {"none", "connecting", "connected", "error"}]
  PROVE  /\ Tabs!TypesOK' /\ Tabs!ListsOK'
         /\ tabs'[p] = ts /\ \A q \in TermProject : q # p => tabs'[q] = tabs[q]
<1>1. c \in Tabs!Tab \cup {None}
  BY TermListed
<1>2. Tabs!TypesOK'
  BY <1>1 DEF Tabs!TabsInv, Tabs!TypesOK
<1>3. /\ tabs'[p] = ts /\ current'[p] = c /\ used'[p] = n
      /\ \A q \in TermProject : q # p => tabs'[q] = tabs[q] /\ current'[q] = current[q] /\ used'[q] = used[q]
  BY DEF Tabs!TabsInv, Tabs!TypesOK
<1>4. Tabs!ListsOK'
  <2> SUFFICES ASSUME NEW q \in TermProject
               PROVE  /\ Tabs!IsInjective(tabs'[q])
                      /\ \A t \in Tabs!Range(tabs'[q]) : Tabs!Of(t) = q /\ t[2] <= used'[q]
                      /\ IF tabs'[q] = <<>> THEN current'[q] = None ELSE current'[q] \in Tabs!Range(tabs'[q])
    BY DEF Tabs!ListsOK
  <2>1. CASE q = p
    BY <1>3, <2>1
  <2>2. CASE q # p
    BY <1>3, <2>2 DEF Tabs!TabsInv, Tabs!ListsOK
  <2> QED
    BY <2>1, <2>2
<1> QED
  BY <1>2, <1>3, <1>4

\* A terminal leaves its list when its session has ended.
LEMMA TermDeleted ==
  ASSUME Tabs!TabsInv, NEW h \in termHandlers, Tabs!Deleted(h)
  PROVE  Tabs!TabsInv'
<1>1. Tabs!HandlerOK(h)
  BY TermGoesOn
<1>2. PICK p, t : p = h.of /\ t = h.tab
  OBVIOUS
<1>3. PICK ts : ts = Tabs!Without(tabs[p], t)
  OBVIOUS
<1>4. /\ h.kind = "deleted" /\ UNCHANGED <<registered, termProject, view, used, sessions, outputs>>
      /\ termStatus' = [termStatus EXCEPT ![t] = "none"] /\ tabs' = [tabs EXCEPT ![p] = ts] /\ termHandlers' = {}
  BY <1>2, <1>3, TermGoesOn DEF Tabs!Deleted
<1>5. /\ p \in registered /\ p \in TermProject /\ t \in Tabs!Range(tabs[p]) /\ t \in Tabs!Tab /\ Tabs!Of(t) = p
      /\ t \notin sessions /\ Tabs!AgreeBut({t})
  <2>1. h.kind # "delete all"
    BY <1>4
  <2>2. t \notin sessions /\ Tabs!AgreeBut({t})
    BY <1>1, <1>2, <1>4 DEF Tabs!HandlerOK
  <2> QED
    BY <1>1, <1>2, <2>1, <2>2, TermKnown
<1>6. tabs[p] \in Seq(Tabs!Tab) /\ Tabs!IsInjective(tabs[p]) /\ used[p] \in Nat
      /\ \A u \in Tabs!Range(tabs[p]) : Tabs!Of(u) = p /\ u[2] <= used[p]
  BY <1>5 DEF Tabs!TabsInv, Tabs!TypesOK, Tabs!ListsOK
<1>7. /\ ts \in Seq(Tabs!Tab) /\ Tabs!IsInjective(ts)
      /\ \A y : y \in Tabs!Range(ts) <=> y \in Tabs!Range(tabs[p]) /\ y # t
  BY <1>3, <1>6, TermFiltered
<1>8. tabs'[p] = ts
  BY <1>4, <1>5 DEF Tabs!TabsInv, Tabs!TypesOK
<1>9. PICK c : c = IF current[p] # t THEN current[p] ELSE IF ts = <<>> THEN None ELSE Head(ts)
  OBVIOUS
<1>10. current' = [current EXCEPT ![p] = c]
  BY <1>2, <1>5, <1>8, <1>9 DEF Tabs!Deleted, Tabs!TabsInv, Tabs!TypesOK
<1>11. IF ts = <<>> THEN c = None ELSE c \in Tabs!Range(ts)
  <2>1. ASSUME current[p] # t PROVE ts # <<>> /\ c \in Tabs!Range(ts)
    <3>1. PICK k : k = current[p]
      OBVIOUS
    <3>2. k \in Tabs!Range(tabs[p]) /\ k # t /\ c = k
      BY <1>5, <1>9, <2>1, <3>1, TermNone DEF Tabs!TabsInv, Tabs!ListsOK
    <3>3. k \in Tabs!Range(ts)
      BY ONLY <1>7, <3>2
    <3> QED
      BY <3>2, <3>3, TermNone
  <2>2. CASE current[p] = t
    BY <1>7, <1>9, <2>2, TermHead
  <2> QED
    BY <2>1, <2>2
<1>12. used' = [used EXCEPT ![p] = used[p]] /\ sessions' \subseteq Tabs!Tab
       /\ registered' \subseteq TermProject /\ termProject' \in registered' \cup {None}
       /\ termStatus' \in [Tabs!Tab -> {"none", "connecting", "connected", "error"}]
  BY <1>4, <1>5 DEF Tabs!TabsInv, Tabs!TypesOK
<1>13. /\ Tabs!TypesOK' /\ Tabs!ListsOK' /\ \A q \in TermProject : q # p => tabs'[q] = tabs[q]
  <2>1. used[p] >= used[p] /\ \A u \in Tabs!Range(ts) : Tabs!Of(u) = p /\ u[2] <= used[p]
    BY <1>6, <1>7
  <2> QED
    BY <1>4, <1>5, <1>6, <1>7, <1>10, <1>11, <1>12, <2>1, TermListChanged
<1>14. Tabs!ScreensOK'
  <2>1. UNCHANGED <<outputs, screens>> \/ (UNCHANGED outputs /\ Tabs!Remount(termProject, view, tabs'))
    BY <1>4 DEF Tabs!Deleted, Tabs!RemountIfShown
  <2> QED
    BY <2>1, TermRemounted, TermScreensStay DEF Tabs!TabsInv
<1>15. Tabs!AgreeBut({})'
  <2>1. \A u \in Tabs!Tab : u # t => termStatus'[u] = termStatus[u]
    BY <1>4 DEF Tabs!TabsInv, Tabs!TypesOK
  <2>2. \A u \in Tabs!Tab : Tabs!Of(u) \in registered /\ u # t =>
          (u \in Tabs!Range(tabs'[Tabs!Of(u)]) <=> u \in Tabs!Range(tabs[Tabs!Of(u)]))
    BY <1>7, <1>8, <1>13, TermOf
  <2>3. t \notin Tabs!Range(tabs'[Tabs!Of(t)])
    BY <1>5, <1>7, <1>8
  <2>4. registered' = registered /\ sessions' = sessions /\ t \notin sessions
    BY <1>4, <1>5
  <2> QED
    BY <1>5, <2>1, <2>2, <2>3, <2>4 DEF Tabs!AgreeBut
<1> QED
  BY <1>4, <1>13, <1>14, <1>15, TermEnded

\* The sessions of a project end one after the other.
LEMMA TermDeletingAll ==
  ASSUME Tabs!TabsInv, NEW h \in termHandlers, Tabs!DeleteAllWorks(h)
  PROVE  Tabs!TabsInv'
<1>1. Tabs!HandlerOK(h)
  BY TermGoesOn
<1>2. PICK e, rest, g : e = Head(h.todo) /\ rest = Tail(h.todo) /\ g = [h EXCEPT !.todo = rest]
  OBVIOUS
<1>3. /\ h.kind = "delete all" /\ h.todo # <<>> /\ sessions' = sessions \ {e}
      /\ UNCHANGED <<registered, termProject, tabs, current, used, outputs, screens>>
      /\ termStatus' = [termStatus EXCEPT ![e] = "none"]
  BY <1>2 DEF Tabs!DeleteAllWorks, Tabs!tabVars
<1>4. termHandlers' = {g}
  <2>1. Tabs!Becomes(h, {g})
    BY <1>1, <1>2 DEF Tabs!DeleteAllWorks, Tabs!HandlerOK
  <2> QED
    BY <2>1, TermGoesOn
<1>5. /\ h.todo \in Seq(Tabs!Tab) /\ Tabs!IsInjective(h.todo) /\ Tabs!Range(h.todo) \subseteq Tabs!Range(tabs[h.of])
      /\ Tabs!AgreeBut(Tabs!Range(tabs[h.of]) \ Tabs!Range(h.todo))
      /\ (Tabs!Range(tabs[h.of]) \ Tabs!Range(h.todo)) \cap sessions = {}
  BY <1>1, <1>3 DEF Tabs!HandlerOK
<1>6. e \in Tabs!Range(h.todo) /\ e \in Tabs!Tab
  BY <1>2, <1>3, <1>5, TermHead
<1>7. /\ rest \in Seq(Tabs!Tab) /\ Tabs!IsInjective(rest)
      /\ \A y : y \in Tabs!Range(rest) <=> y \in Tabs!Range(h.todo) /\ y # e
  BY <1>2, <1>3, <1>5, TermRest
<1>8. /\ g = [kind |-> g.kind, of |-> g.of, tab |-> g.tab, todo |-> g.todo, ok |-> g.ok]
      /\ g.kind = "delete all" /\ g.of = h.of /\ g.todo = rest /\ ~g.ok
  <2>1. PICK a, b, c, d, f : h = [kind |-> a, of |-> b, tab |-> c, todo |-> d, ok |-> f]
    BY <1>1 DEF Tabs!HandlerOK
  <2>2. ~h.ok
    BY <1>1, <1>3 DEF Tabs!HandlerOK
  <2>3. g = [kind |-> a, of |-> b, tab |-> c, todo |-> rest, ok |-> f]
    BY <1>2, <2>1
  <2> QED
    BY <1>3, <2>1, <2>2, <2>3
<1>9. Tabs!TypesOK' /\ Tabs!ListsOK' /\ Tabs!ScreensOK'
  BY <1>3, TermListsStay, TermScreensStay DEF Tabs!TabsInv, Tabs!TypesOK
<1>10. PICK all, done, more : /\ all = Tabs!Range(tabs[h.of]) /\ done = all \ Tabs!Range(h.todo)
                              /\ more = all \ Tabs!Range(rest)
  OBVIOUS
<1>11. more = done \cup {e}
  BY <1>5, <1>6, <1>7, <1>10
<1>12. Tabs!AgreeBut(more)'
  <2>1. \A u \in Tabs!Tab : u # e => termStatus'[u] = termStatus[u]
    BY <1>3 DEF Tabs!TabsInv, Tabs!TypesOK
  <2>2. Tabs!AgreeBut(done)
    BY <1>5, <1>10
  <2> QED
    BY <1>3, <1>11, <2>1, <2>2 DEF Tabs!AgreeBut
<1>13. more \cap sessions' = {}
  BY <1>3, <1>5, <1>10, <1>11
<1>14. more = Tabs!Range(tabs'[g.of]) \ Tabs!Range(g.todo)
  BY <1>3, <1>8, <1>10
<1>15. Tabs!Range(g.todo) \subseteq Tabs!Range(tabs'[g.of]) /\ g.of \in registered'
  BY <1>1, <1>3, <1>5, <1>7, <1>8 DEF Tabs!HandlerOK
<1>16. Tabs!HandlerOK(g)'
  BY <1>7, <1>8, <1>12, <1>13, <1>14, <1>15 DEF Tabs!HandlerOK
<1> QED
  BY <1>4, <1>9, <1>16, TermUnderWay

\* A list with a new terminal, which is the current one and about to be spawned.
LEMMA TermMade ==
  ASSUME Tabs!TerminalAssumption, Tabs!TabsInv, NEW p \in TermProject, p \in registered, NEW t, t = Tabs!NewTab(p),
         used[p] < [q \in TermProject |-> IF q \in Adding THEN MaxTabs ELSE 0][p]
  PROVE  t \in Tabs!Tab /\ Tabs!Of(t) = p /\ t[2] = used[p] + 1 /\ used[p] \in Nat /\ t \notin Tabs!Range(tabs[p])
<1>1. PICK n : n = [q \in TermProject |-> IF q \in Adding THEN MaxTabs ELSE 0][p]
  OBVIOUS
<1>2. used[p] \in Nat /\ n \in Nat /\ used[p] + 1 \in 0..n
  BY <1>1, TermNames DEF Tabs!TabsInv, Tabs!TypesOK
<1>3. t = <<p, used[p] + 1>>
  BY DEF Tabs!NewTab
<1>4. t \in Tabs!Tab /\ Tabs!Of(t) = p /\ t[2] = used[p] + 1
  BY <1>1, <1>2, <1>3, TermNames
<1>5. \A u \in Tabs!Range(tabs[p]) : u[2] <= used[p]
  BY DEF Tabs!TabsInv, Tabs!ListsOK
<1> QED
  BY <1>2, <1>4, <1>5

LEMMA TermAdded ==
  ASSUME Tabs!TerminalAssumption, Tabs!TabsInv, Tabs!AddTerminal
  PROVE  Tabs!TabsInv'
<1>1. PICK p, t : p = termProject /\ t = Tabs!NewTab(p)
  OBVIOUS
<1>2. PICK ts, n : ts = Append(tabs[p], t) /\ n = used[p] + 1
  OBVIOUS
<1>3. /\ Tabs!Free /\ p # None /\ UNCHANGED <<registered, termProject, view, sessions, outputs>>
      /\ tabs' = [tabs EXCEPT ![p] = ts] /\ current' = [current EXCEPT ![p] = t] /\ used' = [used EXCEPT ![p] = n]
      /\ termStatus' = [termStatus EXCEPT ![t] = "connecting"] /\ termHandlers' = {Tabs!Spawning(t)}
      /\ used[p] < [q \in TermProject |-> IF q \in Adding THEN MaxTabs ELSE 0][p]
  BY <1>1, <1>2, TermFree DEF Tabs!AddTerminal, Tabs!TabsInv, Tabs!TypesOK
<1>4. p \in registered /\ p \in TermProject
  BY <1>1, <1>3 DEF Tabs!TabsInv, Tabs!TypesOK
<1>5. t \in Tabs!Tab /\ Tabs!Of(t) = p /\ t[2] = used[p] + 1 /\ used[p] \in Nat /\ t \notin Tabs!Range(tabs[p])
  BY <1>1, <1>3, <1>4, TermMade
<1>6. tabs[p] \in Seq(Tabs!Tab) /\ Tabs!IsInjective(tabs[p])
      /\ \A u \in Tabs!Range(tabs[p]) : Tabs!Of(u) = p /\ u[2] <= used[p]
  BY <1>4 DEF Tabs!TabsInv, Tabs!TypesOK, Tabs!ListsOK
<1>7. /\ ts \in Seq(Tabs!Tab) /\ ts # <<>> /\ Tabs!IsInjective(ts)
      /\ \A y : y \in Tabs!Range(ts) <=> y \in Tabs!Range(tabs[p]) \/ y = t
  <2>1. PICK old : old = tabs[p]
    OBVIOUS
  <2>2. old \in Seq(Tabs!Tab) /\ Tabs!IsInjective(old) /\ t \notin Tabs!Range(old) /\ ts = Append(old, t)
    BY <1>2, <1>5, <1>6, <2>1
  <2>3. /\ ts \in Seq(Tabs!Tab) /\ ts # <<>> /\ Tabs!IsInjective(ts)
        /\ \A y : y \in Tabs!Range(ts) <=> y \in Tabs!Range(old) \/ y = t
    BY <1>5, <2>2, TermAppended
  <2> QED
    BY <2>1, <2>3
<1>8. n \in Nat /\ n >= used[p] /\ \A u \in Tabs!Range(ts) : Tabs!Of(u) = p /\ u[2] <= n
  <2>1. \A u \in Tabs!Range(tabs[p]) : u[2] \in Nat
    <3>1. \A u \in Tabs!Tab : u[2] \in Nat
      BY TermNumbers
    <3> QED
      BY <1>6, <3>1, TermListed
  <2> QED
    BY <1>2, <1>5, <1>6, <1>7, <2>1
<1>9. /\ registered' \subseteq TermProject /\ termProject' \in registered' \cup {None} /\ sessions' \subseteq Tabs!Tab
      /\ termStatus' \in [Tabs!Tab -> {"none", "connecting", "connected", "error"}]
  BY <1>3 DEF Tabs!TabsInv, Tabs!TypesOK
<1>10. /\ Tabs!TypesOK' /\ Tabs!ListsOK'
       /\ tabs'[p] = ts /\ \A q \in TermProject : q # p => tabs'[q] = tabs[q]
  BY <1>3, <1>4, <1>7, <1>8, <1>9, TermListChanged
<1>11. Tabs!ScreensOK'
  <2>1. UNCHANGED <<outputs, screens>> \/ (UNCHANGED outputs /\ Tabs!Remount(termProject, view, tabs'))
    BY <1>3 DEF Tabs!AddTerminal, Tabs!RemountIfShown
  <2> QED
    BY <2>1, TermRemounted, TermScreensStay DEF Tabs!TabsInv
<1>12. Tabs!AgreeBut({t})'
  <2>1. \A u \in Tabs!Tab : u # t => termStatus'[u] = termStatus[u]
    BY <1>3 DEF Tabs!TabsInv, Tabs!TypesOK
  <2>2. \A u \in Tabs!Tab : u # t => (u \in Tabs!Range(tabs'[Tabs!Of(u)]) <=> u \in Tabs!Range(tabs[Tabs!Of(u)]))
    BY <1>7, <1>10, TermOf
  <2>3. Tabs!AgreeBut({})
    BY <1>3, TermFree
  <2> QED
    BY <1>3, <2>1, <2>2, <2>3 DEF Tabs!AgreeBut
<1>13. Tabs!Of(t) \in registered' /\ t \in Tabs!Range(tabs'[Tabs!Of(t)])
  BY <1>3, <1>4, <1>5, <1>7, <1>10
<1> QED
  BY <1>3, <1>10, <1>11, <1>12, <1>13, TermSpawning

\* The one that is left when all are deleted.
LEMMA TermAllDeleted ==
  ASSUME Tabs!TerminalAssumption, Tabs!TabsInv, NEW h \in termHandlers, Tabs!AllDeleted(h)
  PROVE  Tabs!TabsInv'
<1>1. PICK p, t : p = h.of /\ t = Tabs!NewTab(p)
  OBVIOUS
<1>2. PICK ts, n : ts = <<t>> /\ n = used[p] + 1
  OBVIOUS
<1>3. /\ h.kind = "delete all" /\ h.todo = <<>> /\ UNCHANGED <<registered, termProject, view, sessions, outputs>>
      /\ tabs' = [tabs EXCEPT ![p] = ts] /\ current' = [current EXCEPT ![p] = t] /\ used' = [used EXCEPT ![p] = n]
      /\ termStatus' = [termStatus EXCEPT ![t] = "connecting"] /\ termHandlers' = {Tabs!Spawning(t)}
      /\ used[p] < [q \in TermProject |-> IF q \in Adding THEN MaxTabs ELSE 0][p]
  BY <1>1, <1>2, TermGoesOn DEF Tabs!AllDeleted, Tabs!TabsInv, Tabs!TypesOK
<1>4. Tabs!HandlerOK(h)
  BY TermGoesOn
<1>5. p \in registered /\ p \in TermProject
  BY <1>1, <1>4, TermKnown
<1>6. t \in Tabs!Tab /\ Tabs!Of(t) = p /\ t[2] = used[p] + 1 /\ used[p] \in Nat
  BY <1>1, <1>3, <1>5, TermMade
<1>7. /\ ts \in Seq(Tabs!Tab) /\ ts # <<>> /\ Tabs!IsInjective(ts) /\ \A y : y \in Tabs!Range(ts) <=> y = t
  BY <1>2, <1>6, TermAlone
<1>8. n \in Nat /\ n >= used[p] /\ \A u \in Tabs!Range(ts) : Tabs!Of(u) = p /\ u[2] <= n
  BY <1>2, <1>6, <1>7
<1>9. /\ registered' \subseteq TermProject /\ termProject' \in registered' \cup {None} /\ sessions' \subseteq Tabs!Tab
      /\ termStatus' \in [Tabs!Tab -> {"none", "connecting", "connected", "error"}]
  BY <1>3 DEF Tabs!TabsInv, Tabs!TypesOK
<1>10. /\ Tabs!TypesOK' /\ Tabs!ListsOK'
       /\ tabs'[p] = ts /\ \A q \in TermProject : q # p => tabs'[q] = tabs[q]
  BY <1>3, <1>5, <1>7, <1>8, <1>9, TermListChanged
<1>11. Tabs!ScreensOK'
  <2>1. UNCHANGED <<outputs, screens>> \/ (UNCHANGED outputs /\ Tabs!Remount(termProject, view, tabs'))
    BY <1>3 DEF Tabs!AllDeleted, Tabs!RemountIfShown
  <2> QED
    BY <2>1, TermRemounted, TermScreensStay DEF Tabs!TabsInv
<1>12. PICK done : done = Tabs!Range(tabs[p]) /\ Tabs!AgreeBut(done) /\ done \cap sessions = {}
  <2>1. Tabs!Range(tabs[p]) \ Tabs!Range(h.todo) = Tabs!Range(tabs[p])
    BY <1>3, TermNone
  <2> QED
    BY <1>1, <1>3, <1>4, <2>1 DEF Tabs!HandlerOK
<1>13. Tabs!AgreeBut({t})'
  <2>1. \A u \in Tabs!Tab : u # t => termStatus'[u] = termStatus[u]
    BY <1>3 DEF Tabs!TabsInv, Tabs!TypesOK
  <2>2. \A u \in Tabs!Tab : u # t /\ Tabs!Of(u) # p =>
          u \notin done /\ (u \in Tabs!Range(tabs'[Tabs!Of(u)]) <=> u \in Tabs!Range(tabs[Tabs!Of(u)]))
    BY <1>5, <1>10, <1>12, TermOf DEF Tabs!TabsInv, Tabs!ListsOK
  <2>3. \A u \in Tabs!Tab : u # t /\ Tabs!Of(u) = p =>
          u \notin sessions /\ u \notin Tabs!Range(tabs'[Tabs!Of(u)])
    BY <1>5, <1>7, <1>10, <1>12 DEF Tabs!AgreeBut
  <2>4. registered' = registered /\ sessions' = sessions
    BY <1>3
  <2> QED
    BY <1>12, <2>1, <2>2, <2>3, <2>4 DEF Tabs!AgreeBut
<1>14. Tabs!Of(t) \in registered' /\ t \in Tabs!Range(tabs'[Tabs!Of(t)])
  BY <1>3, <1>5, <1>6, <1>7, <1>10
<1> QED
  BY <1>3, <1>10, <1>11, <1>13, <1>14, TermSpawning

\* A project that is selected for the first time gets a terminal.
LEMMA TermProjectSelected ==
  ASSUME Tabs!TerminalAssumption, Tabs!TabsInv, NEW p \in TermProject, Tabs!Select(p)
  PROVE  Tabs!TabsInv'
<1>1. /\ Tabs!Free /\ p \in registered /\ termProject' = p /\ UNCHANGED <<registered, view, sessions, outputs>>
  BY DEF Tabs!Select
<1>2. Tabs!ScreensOK'
  <2>1. Tabs!Remount(p, view, tabs')
    BY DEF Tabs!Select
  <2> QED
    BY <1>1, <2>1, TermRemounted DEF Tabs!TabsInv
<1>3. /\ registered' \subseteq TermProject /\ termProject' \in registered' \cup {None} /\ sessions' \subseteq Tabs!Tab
  BY <1>1 DEF Tabs!TabsInv, Tabs!TypesOK
<1>4. CASE tabs[p] # <<>>
  <2>1. UNCHANGED <<tabs, current, used, termStatus, termHandlers>>
    BY <1>4 DEF Tabs!Select, Tabs!tabVars
  <2>2. Tabs!TypesOK' /\ Tabs!ListsOK'
    BY <1>1, <1>3, <2>1 DEF Tabs!TabsInv, Tabs!TypesOK, Tabs!ListsOK
  <2> QED
    BY <1>1, <1>2, <2>1, <2>2, TermHandlersStay DEF Tabs!TabsInv
<1>5. CASE tabs[p] = <<>>
  <2>1. PICK t, ts : t = Tabs!DefaultTab(p) /\ ts = <<t>>
    OBVIOUS
  <2>2. /\ used' = used /\ tabs' = [tabs EXCEPT ![p] = ts] /\ current' = [current EXCEPT ![p] = t]
        /\ termStatus' = [termStatus EXCEPT ![t] = "connecting"] /\ termHandlers' = {Tabs!Spawning(t)}
    BY <1>1, <1>5, <2>1, TermFree DEF Tabs!Select
  <2>3. t \in Tabs!Tab /\ Tabs!Of(t) = p /\ t[2] = 0
    <3>1. t = <<p, 0>>
      BY <2>1 DEF Tabs!DefaultTab
    <3> QED
      BY <3>1, TermNames
  <2>4. /\ ts \in Seq(Tabs!Tab) /\ ts # <<>> /\ Tabs!IsInjective(ts) /\ \A y : y \in Tabs!Range(ts) <=> y = t
    BY <2>1, <2>3, TermAlone
  <2>5. /\ used[p] \in Nat /\ used[p] >= used[p] /\ used' = [used EXCEPT ![p] = used[p]]
        /\ \A u \in Tabs!Range(ts) : Tabs!Of(u) = p /\ u[2] <= used[p]
    BY <2>2, <2>3, <2>4 DEF Tabs!TabsInv, Tabs!TypesOK
  <2>6. termStatus' \in [Tabs!Tab -> {"none", "connecting", "connected", "error"}]
    BY <2>2 DEF Tabs!TabsInv, Tabs!TypesOK
  <2>7. /\ Tabs!TypesOK' /\ Tabs!ListsOK'
        /\ tabs'[p] = ts /\ \A q \in TermProject : q # p => tabs'[q] = tabs[q]
    BY <1>3, <2>2, <2>4, <2>5, <2>6, TermListChanged
  <2>8. Tabs!AgreeBut({t})'
    <3>1. \A u \in Tabs!Tab : u # t => termStatus'[u] = termStatus[u]
      BY <2>2 DEF Tabs!TabsInv, Tabs!TypesOK
    <3>2. \A u \in Tabs!Tab : u # t => (u \in Tabs!Range(tabs'[Tabs!Of(u)]) <=> u \in Tabs!Range(tabs[Tabs!Of(u)]))
      BY <1>5, <2>4, <2>7, TermOf, TermNone
    <3>3. Tabs!AgreeBut({})
      BY <1>1, TermFree
    <3> QED
      BY <1>1, <3>1, <3>2, <3>3 DEF Tabs!AgreeBut
  <2>9. Tabs!Of(t) \in registered' /\ t \in Tabs!Range(tabs'[Tabs!Of(t)])
    BY <1>1, <2>3, <2>4, <2>7
  <2> QED
    BY <1>2, <2>2, <2>7, <2>8, <2>9, TermSpawning
<1> QED
  BY <1>4, <1>5

\* A project that is deleted takes its list with it.
LEMMA TermProjectDeleted ==
  ASSUME Tabs!TabsInv, NEW p \in TermProject, Tabs!DeleteProject(p)
  PROVE  Tabs!TabsInv'
<1>1. PICK ts : ts = <<>>
  OBVIOUS
<1>2. /\ Tabs!Free /\ registered' = registered \ {p} /\ termProject' = (IF termProject = p THEN None ELSE termProject)
      /\ tabs' = [tabs EXCEPT ![p] = ts] /\ current' = [current EXCEPT ![p] = None]
      /\ UNCHANGED <<used, termStatus, sessions, outputs, termHandlers>>
  BY <1>1 DEF Tabs!DeleteProject
<1>3. ts \in Seq(Tabs!Tab) /\ Tabs!IsInjective(ts) /\ Tabs!Range(ts) = {}
  BY <1>1, TermNone
<1>4. used[p] \in Nat /\ used[p] >= used[p] /\ used' = [used EXCEPT ![p] = used[p]]
  BY <1>2 DEF Tabs!TabsInv, Tabs!TypesOK
<1>5. /\ registered' \subseteq TermProject /\ termProject' \in registered' \cup {None} /\ sessions' \subseteq Tabs!Tab
      /\ termStatus' \in [Tabs!Tab -> {"none", "connecting", "connected", "error"}]
  BY <1>2 DEF Tabs!TabsInv, Tabs!TypesOK
<1>6. /\ Tabs!TypesOK' /\ Tabs!ListsOK' /\ \A q \in TermProject : q # p => tabs'[q] = tabs[q]
  <2>1. \A u \in Tabs!Range(ts) : Tabs!Of(u) = p /\ u[2] <= used[p]
    BY <1>3
  <2>2. PICK c : c = None
    OBVIOUS
  <2>3. current' = [current EXCEPT ![p] = c] /\ IF ts = <<>> THEN c = None ELSE c \in Tabs!Range(ts)
    BY <1>1, <1>2, <2>2
  <2> QED
    BY <1>2, <1>3, <1>4, <1>5, <2>1, <2>3, TermListChanged
<1>7. Tabs!ScreensOK'
  <2>1. UNCHANGED <<outputs, screens>> \/ (UNCHANGED outputs /\ Tabs!Remount(None, view, tabs'))
    BY <1>2 DEF Tabs!DeleteProject
  <2> QED
    BY <2>1, TermRemounted, TermScreensStay DEF Tabs!TabsInv
<1>8. Tabs!AgreeBut({})'
  <2>1. Tabs!AgreeBut({})
    BY <1>2, TermFree
  <2>2. \A u \in Tabs!Tab : Tabs!Of(u) \in registered' => Tabs!Of(u) \in registered /\ tabs'[Tabs!Of(u)] = tabs[Tabs!Of(u)]
    BY <1>2, <1>6, TermOf
  <2> QED
    BY <1>2, <2>1, <2>2 DEF Tabs!AgreeBut
<1>9. termHandlers' = {}
  BY <1>2, TermFree
<1> QED
  BY <1>6, <1>7, <1>8, <1>9, TermEnded

\* So the terminals are as their lists say in every state.
LEMMA TabsSafe == Tabs!TerminalAssumption => (Spec => []Tabs!TabsInv)
<1> SUFFICES ASSUME Tabs!TerminalAssumption PROVE Spec => []Tabs!TabsInv
  OBVIOUS
<1>1. Init => Tabs!TabsInv
  BY TermInit DEF Init
<1>2. ASSUME Tabs!TabsInv, UNCHANGED tabsV PROVE Tabs!TabsInv'
  <2>1. UNCHANGED <<registered, termProject, tabs, current, used, termStatus, sessions, outputs, screens, termHandlers>>
    BY <1>2 DEF tabsV
  <2>2. Tabs!ScreensOK'
    BY <1>2, <2>1, TermScreensStay DEF Tabs!TabsInv
  <2> QED
    BY <1>2, <2>1, <2>2, TermViewed
<1>3. ASSUME Tabs!TabsInv, NEW h \in termHandlers,
             \/ Tabs!CheckWorks(h) \/ Tabs!Spawned(h) \/ Tabs!DeleteWorks(h) \/ Tabs!Deleted(h) \/ Tabs!DeleteAllWorks(h)
             \/ Tabs!AllDeleted(h) \/ Tabs!RespawnWorks(h) \/ Tabs!Killed(h)
             \/ \E ok \in BOOLEAN : Tabs!SpawnWorks(h, ok)
      PROVE  Tabs!TabsInv'
  BY <1>3, TermCheckWorks, TermSpawned, TermKilled, TermDeleted, TermDeletingAll, TermAllDeleted, TermRespawned,
     TermSpawnWorks
<1>4. ASSUME Tabs!TabsInv,
             \/ \E p \in TermProject : Tabs!Select(p) \/ Tabs!DeleteProject(p)
             \/ \E v \in {"terminal", "other"} : Tabs!SetView(v)
             \/ \E t \in Tabs!Tab : \/ Tabs!Listen(t) \/ Tabs!Output(t) \/ Tabs!SelectTerminal(t)
                                   \/ Tabs!RenameTerminal(t) \/ Tabs!DeleteTerminal(t)
             \/ Tabs!Clear \/ Tabs!AddTerminal \/ Tabs!DeleteAllTerminals \/ Tabs!RespawnTerminal \/ Tabs!RetrySpawn
      PROVE  Tabs!TabsInv'
  BY <1>4, TermProjectSelected, TermProjectDeleted, TermSetView, TermListen, TermOutput, TermSelect, TermRename, TermAsked,
     TermClear, TermAdded, TermRetried
<1>5. Tabs!TabsInv /\ Tabs!Next => Tabs!TabsInv'
  BY <1>3, <1>4 DEF Tabs!Next
<1>6. Tabs!TabsInv /\ [Next]_vars => Tabs!TabsInv'
  BY <1>2, <1>5 DEF Next, NextFiles, NextShells, NextEditors, vars, shellsV
<1> QED
  BY <1>1, <1>6, PTL DEF Spec

\* Sessions and screens follow from it.
LEMMA TermsTrue ==
  ASSUME Tabs!TabsInv
  PROVE  Tabs!SessionsHaveTabs /\ Tabs!ScreenIsBuffer
<1>1. Tabs!ScreenIsBuffer
  BY DEF Tabs!ScreenIsBuffer, Tabs!TabsInv, Tabs!ScreensOK, Tabs!IsScreen
<1>2. SUFFICES ASSUME Tabs!Idle, NEW p \in registered
               PROVE  /\ {t \in sessions : Tabs!Of(t) = p} = {t \in Tabs!Range(tabs[p]) : termStatus[t] = "connected"}
                      /\ \A t \in Tabs!Range(tabs[p]) : termStatus[t] \in {"connected", "error"}
                      /\ tabs[p] # <<>> => current[p] \in Tabs!Range(tabs[p])
  BY <1>1 DEF Tabs!SessionsHaveTabs
<1>3. Tabs!AgreeBut({}) /\ sessions \subseteq Tabs!Tab /\ p \in TermProject /\ tabs[p] \in Seq(Tabs!Tab)
      /\ \A t \in Tabs!Range(tabs[p]) : Tabs!Of(t) = p
  BY <1>2 DEF Tabs!TabsInv, Tabs!TypesOK, Tabs!ListsOK, Tabs!Idle
<1>4. \A t \in Tabs!Range(tabs[p]) : t \in Tabs!Tab
  BY <1>3, TermListed
<1>5. tabs[p] # <<>> => current[p] \in Tabs!Range(tabs[p])
  BY <1>3 DEF Tabs!TabsInv, Tabs!ListsOK
<1>6. \A t \in Tabs!Range(tabs[p]) : termStatus[t] \in {"connected", "error"}
  BY <1>2, <1>3, <1>4 DEF Tabs!AgreeBut
<1>7. \A t : (t \in sessions /\ Tabs!Of(t) = p) <=> (t \in Tabs!Range(tabs[p]) /\ termStatus[t] = "connected")
  BY <1>2, <1>3, <1>4 DEF Tabs!AgreeBut
<1> QED
  BY <1>5, <1>6, <1>7

(***************************************************************************)
(* The theorems                                                            *)
(***************************************************************************)
\* Once every handler of the list of projects and every event has ended, the
\* list, the states and the active project are the manager's
\* (useProjects.ts:389-640).
THEOREM ProjectsAreMirrored == Spec => []MirrorIsTrue
<1>1. Mirror!ProjectMirrorAssumption
  BY WorkbenchAssumption
<1>2. Mirror!Spec => []Mirror!MirrorIsTrue
  BY <1>1, Mirror!Mirrored
<1> QED
  BY <1>2, MirrorSteps, PTL DEF MirrorIsTrue

\* Once a switch of the agent's panel was taken by the backend and has ended,
\* the agent, its directory and the chat shown are of one project
\* (agent.rs:2110-2217).
THEOREM AgentIsSwitched == Spec => []TakenIsSwitched
<1>1. Agent!SwitchAssumption
  BY WorkbenchAssumption
<1>2. Agent!Spec => []Agent!TakenIsSwitched
  BY <1>1, Agent!Switches
<1>3. Agent!Spec => []Agent!RootFollowsActive
  BY <1>1, Agent!RootFollows
<1> QED
  BY <1>2, <1>3, AgentSteps, PTL DEF TakenIsSwitched

\* The originals of the files are what the disk holds and no editor shows the
\* text of another; what an editor suggests is for its text as it is now, what
\* it aborts is under way, and what the search finds is for the query and
\* opened as chosen (App.tsx:926, CodeEditor.tsx:1014, 1397,
\* aiCompletionService.ts:73, CodeRagSearchWidget.tsx:100).
THEOREM EditorsShowTheirOwn == Spec => []EditorsOK
<1>1. Buffers!BuffersAssumption /\ Completion!CompletionAssumption /\ Search!SearchAssumption
  BY WorkbenchAssumption
<1>2. Buffers!Spec => [](Buffers!OriginalIsOnDisk)
  BY <1>1, Buffers!OriginalsAreOnDisk
<1>3. Buffers!Spec => [](Buffers!OwnText)
  BY <1>1, Buffers!TextsStayApart
<1>4. Completion!CompletionInv => Completion!ShownIsCurrent /\ Completion!ControllerIsLive
  BY DEF Completion!CompletionInv, Completion!SentOK, Completion!ControllerIsLive
<1>5. Search!SearchInv => Search!ResultsAreOfQuery /\ Search!ChosenIsOpened
  BY DEF Search!SearchInv
<1>6. Spec => []Completion!CompletionInv
  BY <1>1, CompletionSafe
<1>7. Spec => []Search!SearchInv
  BY <1>1, SearchSafe
<1> QED
  BY <1>2, <1>3, <1>4, <1>5, <1>6, <1>7, BuffersSteps, PTL DEF EditorsOK

\* After each operation, the explorer lists what the disk holds and source
\* control what git reports (FileExplorer.tsx:431, GitPanel.tsx:98).
THEOREM ViewsStayFresh == Spec => []ViewsAreFresh
<1>1. Tree!FileTreeAssumption /\ Scm!SourceControlAssumption
  BY WorkbenchAssumption
<1>2. Tree!TreeInv => Tree!TopIsFresh
  BY DEF Tree!TreeInv, Tree!TopIsFresh, Tree!Settled, Tree!TopShown
<1>3. Scm!ScmInv => Scm!SettledIsFresh
  BY DEF Scm!ScmInv
<1>4. Spec => []Tree!TreeInv
  BY <1>1, TreeSafe
<1>5. Spec => []Scm!ScmInv
  BY <1>1, ScmSafe
<1> QED
  BY <1>2, <1>3, <1>4, <1>5, PTL DEF ViewsAreFresh

\* Every pane shows one of its tabs, none of them twice, the focused pane is there,
\* and no handler writes to one that is not (App.tsx:492-1234).
THEOREM PanesStayWhole == Spec => []PanesOK
<1>1. Panes!PanesAssumption
  BY WorkbenchAssumption
<1>2. Panes!PanesInv => Panes!PanesOK /\ Panes!NeverTorn
  BY DEF Panes!PanesInv, Panes!PanesOK, Panes!NeverTorn, Panes!PaneOK
<1>3. Spec => []Panes!PanesInv
  BY <1>1, PanesSafe
<1> QED
  BY <1>2, <1>3, PTL DEF PanesOK

\* A tab that is dropped is moved, and none is lost (performTabMove,
\* App.tsx:1079); what was typed and not saved goes only when its file is closed
\* or reverted (useProjects.ts:137).
THEOREM EditsAreKept == Spec => EditsSurvive
<1>1. Panes!PanesAssumption /\ Buffers!BuffersAssumption /\ "close" \notin Faults
  BY WorkbenchAssumption
<1>2. Panes!PanesInv /\ [Next]_vars =>
        [(\E to \in DOMAIN panes : \E at \in 1 .. Len(panes[to].files) + 1 : Panes!Drop(to, at))
          => Panes!AllTabs(panes') = Panes!AllTabs(panes)]_(Panes!panesVars)
  <2> SUFFICES ASSUME Panes!PanesInv, NEW to \in DOMAIN panes, NEW at \in 1 .. (Len(panes[to].files) + 1),
                      Panes!Drop(to, at)
               PROVE  Panes!AllTabs(panes') = Panes!AllTabs(panes)
    OBVIOUS
  <2>1. panes[to].files \in Seq(Files)
    BY PaneFields DEF Panes!PanesInv
  <2>2. at \in Nat
    BY <2>1
  <2> QED
    BY <2>2, PanesDrop
<1>3. Spec => []Panes!PanesInv
  BY <1>1, PanesSafe
<1>4. Buffers!Spec => Buffers!UnsavedSurvives
  BY <1>1, Buffers!UnsavedIsKept
<1> QED
  BY <1>2, <1>3, <1>4, BuffersSteps, PTL DEF Spec, EditsSurvive, Panes!DropKeepsTabs

\* Once no handler is under way, the sessions are those of the connected
\* terminals, and every screen shows what its buffer holds
\* (useTerminal.ts:41-222); a start opens the tunnel that is ticked, and what is
\* shown is stored (TerminalPanel.tsx:516, executor.rs:429).
THEOREM TerminalsStayTrue == Spec => []TerminalsOK
<1>1. Tabs!TerminalAssumption /\ Tunnels!TunnelsAssumption
  BY WorkbenchAssumption
<1>2. Tabs!TabsInv => Tabs!SessionsHaveTabs /\ Tabs!ScreenIsBuffer
  BY TermsTrue
<1>3. Tunnels!TunnelsInv => Tunnels!StartOpensTicked /\ Tunnels!ShownIsStored
  BY TunnelsTrue
<1>4. Spec => []Tabs!TabsInv
  BY <1>1, TabsSafe
<1>5. Spec => []Tunnels!TunnelsInv
  BY <1>1, TunnelsSafe
<1> QED
  BY <1>2, <1>3, <1>4, <1>5, PTL DEF TerminalsOK

==============================================================================
