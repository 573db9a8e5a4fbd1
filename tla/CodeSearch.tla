----------------------------- MODULE CodeSearch -----------------------------
(***************************************************************************)
(* The search for functions over the text of an editor                     *)
(* (CodeRagSearchWidget.tsx) and the jump to a result, which App.tsx sends *)
(* to every editor 0.3 s after it has opened the file (CodeEditor.tsx).    *)
(*                                                                         *)
(* A search has up to MaxHits results: the file of one is all that is told *)
(* apart.  The cache belongs to the module, and outlives the widget.       *)
(***************************************************************************)
EXTENDS Naturals, Sequences

CONSTANTS
    Query,          \* queries long enough to be searched for
    Short,          \* one that is not: empty, or a single letter
    File,           \* files
    None,           \* no query, no file
    Pane,           \* the editors side by side
    MaxHits,        \* bound on the results of a search
    Patient,        \* TRUE: the user does not type while a search is under way
    Waits           \* TRUE: the user waits for the jump after opening a result

SearchAssumption ==
    /\ Short \notin Query /\ None \notin Query \cup {Short} \cup File /\ None \notin Pane
    /\ MaxHits \in Nat

VARIABLES
    open,           \* the pane whose editor the widget is over, or None
    query,          \* the text of the field
    results,        \* the results shown, a search and its files
    selectedIndex,  \* the result that the keys are on, -1 is written 0
    timer,          \* the query that the timer holds, or None
    fetching,       \* the query under way, or None
    orphans,        \* those whose widget is gone
    cache,          \* the results kept
    shows,          \* the file that each pane shows
    focused,        \* activePaneIndex
    jump,           \* None, or the file whose line is sent to the editors
    chosen,         \* the result that was last moved to
    jumped          \* the panes that the last jump moved, with the file meant

searchVars == <<open, query, results, selectedIndex, timer, fetching, orphans, cache, shows, focused,
                jump, chosen, jumped>>
widget == <<open, query, results, selectedIndex, timer, fetching, orphans, chosen>>
editors == <<shows, focused, jump, jumped>>

NoResults == [of |-> None, files |-> <<>>]
Hits == UNION {[1..n -> File] : n \in 0..MaxHits}
CanType == Patient => fetching = None

Init ==
    /\ open = None /\ query = Short /\ results = NoResults /\ selectedIndex = 0
    /\ timer = None /\ fetching = None /\ orphans = {} /\ cache = [q \in Query |-> None]
    /\ shows \in [Pane -> File]
    /\ focused \in Pane
    /\ jump = None /\ chosen = None /\ jumped = {}

----------------------------------------------------------------------------
(* The widget.                                                             *)

\* The action of the editor's menu opens it empty; the effect on the query
\* sets the timer.
OpenWidget(p) ==
    /\ open = None
    /\ open' = p /\ query' = Short /\ timer' = Short
    /\ UNCHANGED <<results, selectedIndex, fetching, orphans, chosen, cache, editors>>

\* Escape, or a click outside.  The answer to come is for nobody.
Closed ==
    /\ open' = None /\ query' = Short /\ results' = NoResults /\ selectedIndex' = 0
    /\ timer' = None /\ fetching' = None /\ chosen' = None
    /\ orphans' = orphans \cup ({fetching} \ {None})
Close ==
    /\ open # None /\ Closed
    /\ UNCHANGED <<cache, editors>>

TypeQuery(q) ==
    /\ open # None /\ q # query /\ CanType
    /\ query' = q /\ timer' = q
    /\ UNCHANGED <<open, results, selectedIndex, fetching, orphans, chosen, cache, editors>>

Show(r) == results' = r /\ selectedIndex' = 0

\* doSearch, 0.4 s after the last key.  What is searched for while another
\* search is under way is dropped.
DoSearch ==
    /\ timer # None
    /\ timer' = None
    /\ IF timer = Short THEN Show(NoResults) /\ UNCHANGED fetching
       ELSE IF cache[timer] # None THEN Show(cache[timer]) /\ UNCHANGED fetching
       ELSE /\ fetching' = IF fetching = None THEN timer ELSE fetching
            /\ UNCHANGED <<results, selectedIndex>>
    /\ UNCHANGED <<open, query, orphans, chosen, cache, editors>>

\* What an answer shows.
ShowAnswer(r) == Show(r)

\* The answer is kept for a minute; a search that fails clears the results.
Answer(files) ==
    /\ fetching # None /\ fetching' = None
    /\ LET r == [of |-> fetching, files |-> files] IN
       cache' = [cache EXCEPT ![fetching] = r] /\ ShowAnswer(r)
    /\ UNCHANGED <<open, query, timer, orphans, chosen, editors>>

Fail ==
    /\ fetching # None /\ fetching' = None
    /\ results' = NoResults
    /\ UNCHANGED <<open, query, selectedIndex, timer, orphans, chosen, cache, editors>>

\* An answer for a widget that is gone is kept as well.
LateAnswer(q, files) ==
    /\ q \in orphans
    /\ orphans' = orphans \ {q}
    /\ cache' = [cache EXCEPT ![q] = [of |-> q, files |-> files]]
    /\ UNCHANGED <<open, query, results, selectedIndex, timer, fetching, chosen, editors>>

Expire(q) ==
    /\ cache[q] # None
    /\ cache' = [cache EXCEPT ![q] = None]
    /\ UNCHANGED <<widget, editors>>

\* The arrows go round, to the first of no results as well; the mouse goes to
\* a result.
MoveTo(i) ==
    /\ open # None /\ i # selectedIndex
    /\ i \in DOMAIN results.files \/ (results.files = <<>> /\ i \in {0, 1})
    /\ selectedIndex' = i
    /\ chosen' = IF i \in DOMAIN results.files THEN results.files[i] ELSE None
    /\ UNCHANGED <<open, query, results, timer, fetching, orphans, cache, editors>>

----------------------------------------------------------------------------
(* The file of a result is opened in the focused pane, and its line is     *)
(* sent to all editors.                                                    *)

Opened(f) == shows' = [shows EXCEPT ![focused] = f] /\ jump' = f /\ jumped' = {}

\* Enter opens the selected result; so does a click, which then focuses the
\* pane under the widget.
OpenResult(clicked) ==
    /\ open # None /\ selectedIndex \in DOMAIN results.files
    /\ Opened(results.files[selectedIndex])
    /\ focused' = IF clicked THEN open ELSE focused
    /\ Closed
    /\ UNCHANGED cache

Jump ==
    /\ jump # None
    /\ jumped' = {<<p, jump>> : p \in Pane}
    /\ jump' = None
    /\ UNCHANGED <<widget, cache, shows, focused>>

\* Another tab, in this pane or another one.
ShowTab(p, f) ==
    /\ Waits => jump = None
    /\ <<focused, shows[p]>> # <<p, f>>
    /\ open = None
    /\ focused' = p /\ shows' = [shows EXCEPT ![p] = f]
    /\ jumped' = {}
    /\ UNCHANGED <<widget, cache, jump>>

Next ==
    \/ Close \/ DoSearch \/ Fail \/ Jump
    \/ \E p \in Pane : OpenWidget(p) \/ \E f \in File : ShowTab(p, f)
    \/ \E q \in Query \cup {Short} : TypeQuery(q)
    \/ \E q \in Query : Expire(q) \/ \E files \in Hits : LateAnswer(q, files)
    \/ \E files \in Hits : Answer(files)
    \/ \E i \in 0..MaxHits : MoveTo(i)
    \/ \E b \in BOOLEAN : OpenResult(b)

Spec == Init /\ [][Next]_searchVars

----------------------------------------------------------------------------
\* Once a search has ended, the results are those of what is typed
\* (CodeRagSearchWidget.tsx:115).
ResultsAreOfQuery ==
    (open # None /\ timer = None /\ fetching = None) =>
       results = NoResults \/ results.of = query

\* Enter opens the result that the keys were moved to, not one that has come
\* to its place since (CodeRagSearchWidget.tsx:166).
ChosenIsOpened ==
    (open # None /\ selectedIndex \in DOMAIN results.files) => results.files[selectedIndex] = chosen

(***************************************************************************)
(* Why both hold, of a user who waits: without the widget nothing is left  *)
(* of a search, the timer and the request hold what is typed and not both  *)
(* something, and what is kept is kept under its query.                    *)
(***************************************************************************)
IsResult(r) == r = [of |-> r.of, files |-> r.files] /\ r.files \in Hits
ClosedOK == open = None => timer = None /\ fetching = None /\ results = NoResults
TypedOK ==
    /\ query \in Query \cup {Short}
    /\ timer # None => timer = query /\ fetching = None
    /\ fetching # None => fetching = query /\ query \in Query
CacheOK ==
    /\ cache = [q \in Query |-> cache[q]]
    /\ \A q \in Query : cache[q] # None => IsResult(cache[q]) /\ cache[q].of = q
SearchInv == ClosedOK /\ TypedOK /\ CacheOK /\ IsResult(results) /\ ResultsAreOfQuery /\ ChosenIsOpened

\* The line of a result is shown in an editor of its file (App.tsx:549).
JumpIsToFile == \A j \in jumped : shows[j[1]] = j[2]

\* A result is opened in the pane that was searched in (App.tsx:537).
OpensHere == [][(jump = None /\ jump' # None) => shows'[open] = jump']_searchVars
=============================================================================
