-------------------------- MODULE LanguageSettings --------------------------
(***************************************************************************)
(* The language section of AdminPanel.tsx: the list of runtimes, the form  *)
(* that edits one, and the commands that load, save and delete them.  An   *)
(* id is the name it was first saved under.                                *)
(***************************************************************************)
EXTENDS Naturals, FiniteSets

CONSTANTS
    Name,           \* names of languages, and so their ids
    None,           \* no id
    Known,          \* PROTO_KNOWN_LANGUAGES
    Detail,         \* versions and tools, told apart by a value
    MaxCalls,       \* bound on the calls under way
    Patient         \* TRUE: the user waits for a call to end

LanguageAssumption == Known \subseteq Name /\ None \notin Name /\ MaxCalls \in Nat

VARIABLES
    stored,         \* language_runtimes: by id, the name and the detail
    list,           \* runtimes
    selected,       \* selectedId
    adding,         \* isAdding
    form,           \* editForm
    calls           \* the handlers that await a command

languageVars == <<stored, list, selected, adding, form, calls>>

Runtime == [name : Name, detail : Detail]
NoRuntimes == [i \in {} |-> [name |-> None, detail |-> None]]
EmptyForm == [id |-> None, name |-> None, detail |-> CHOOSE d \in Detail : TRUE]
FormOf(i, r) == [id |-> i, name |-> r.name, detail |-> r.detail]

Init ==
    /\ stored \in {NoRuntimes} \cup [{CHOOSE n \in Name : TRUE} -> Runtime]
    /\ list = NoRuntimes
    /\ selected = None /\ adding = FALSE /\ form = EmptyForm
    /\ calls = {[kind |-> "load", id |-> None, step |-> "list", got |-> NoRuntimes, seq |-> 0]}

Free == Patient => calls = {}
\* A call's number only tells two of the same kind apart.
Begin(kind, id) ==
    /\ Cardinality(calls) < MaxCalls
    /\ LET n == CHOOSE k \in 0 .. MaxCalls : \A c \in calls : c.seq # k
       IN  calls' = calls \cup {[kind |-> kind, id |-> id, step |-> "call", got |-> NoRuntimes, seq |-> n]}

Becomes(c, d) == calls' = (calls \ {c}) \cup {d}

\* handleSelect, handleNew and Cancel.
Select(i) ==
    /\ Free
    /\ i \in DOMAIN list
    /\ selected' = i /\ adding' = FALSE
    /\ form' = FormOf(i, list[i])
    /\ UNCHANGED <<stored, list, calls>>

New ==
    /\ Free
    /\ selected' = None /\ adding' = TRUE /\ form' = EmptyForm
    /\ UNCHANGED <<stored, list, calls>>

DockShown == adding \/ selected \in DOMAIN list

Cancel ==
    /\ Free /\ DockShown
    /\ adding' = FALSE
    /\ form' = IF selected \in DOMAIN list THEN FormOf(selected, list[selected]) ELSE form
    /\ UNCHANGED <<stored, list, selected, calls>>

\* The fields of the dock, its versions and tools.
EditName(n) ==
    /\ Free /\ DockShown
    /\ form' = [form EXCEPT !.name = n]
    /\ UNCHANGED <<stored, list, selected, adding, calls>>

EditDetail(d) ==
    /\ Free /\ DockShown
    /\ form' = [form EXCEPT !.detail = d]
    /\ UNCHANGED <<stored, list, selected, adding, calls>>

\* handleSave: the id is the form's, or made from the name.
IdOf(f) == IF f.id = None THEN f.name ELSE f.id

Save ==
    /\ Free /\ DockShown
    /\ form.name # None
    /\ Begin("save", IdOf(form))
    /\ stored' = [i \in DOMAIN stored \cup {IdOf(form)} |->
                    IF i = IdOf(form) THEN [name |-> form.name, detail |-> form.detail] ELSE stored[i]]
    /\ UNCHANGED <<list, selected, adding, form>>

Delete(i) ==
    /\ Free
    /\ i \in DOMAIN list
    /\ Begin("delete", i)
    /\ stored' = [j \in DOMAIN stored \ {i} |-> stored[j]]
    /\ UNCHANGED <<list, selected, adding, form>>

\* The command has answered; the handler goes on to load the list.
Answer(c) ==
    /\ c.step = "call"
    /\ Becomes(c, [c EXCEPT !.step = "list"])
    /\ IF c.kind = "save" THEN adding' = FALSE /\ selected' = c.id
       ELSE IF selected = c.id THEN adding' = FALSE /\ selected' = None
       ELSE UNCHANGED <<adding, selected>>
    /\ UNCHANGED <<stored, list, form>>

\* get_language_runtimes stores the known languages that are missing and
\* reads; its answer is set later.
WithKnown(s) ==
    [i \in DOMAIN s \cup Known |->
        IF i \in DOMAIN s THEN s[i] ELSE [name |-> i, detail |-> EmptyForm.detail]]

ReadList(c) ==
    /\ c.step = "list"
    /\ stored' = WithKnown(stored)
    /\ Becomes(c, [c EXCEPT !.step = "listed", !.got = WithKnown(stored)])
    /\ UNCHANGED <<list, selected, adding, form>>

SetList(c) ==
    /\ c.step = "listed"
    /\ calls' = calls \ {c}
    /\ list' = c.got
    /\ UNCHANGED <<stored, selected, adding, form>>

Next ==
    \/ \E n \in Name : Select(n) \/ EditName(n) \/ Delete(n)
    \/ \E d \in Detail : EditDetail(d)
    \/ New \/ Cancel \/ Save
    \/ \E c \in calls : Answer(c) \/ ReadList(c) \/ SetList(c)

Spec == Init /\ [][Next]_languageVars

----------------------------------------------------------------------------
\* For a user who waits, the list shows the runtimes there are, and the
\* form is about the one that is selected or about a new one.
LanguagesOK ==
    Patient /\ calls = {} =>
       /\ list = stored
       /\ selected # None /\ ~adding => form.id \in {selected, None}

(***************************************************************************)
(* Why it holds: one call is under way at most, and what is selected is    *)
(* stored, but while its deletion is under way or a save that selects      *)
(* another.                                                                *)
(***************************************************************************)
IsCall(c) == c = [kind |-> c.kind, id |-> c.id, step |-> c.step, got |-> c.got, seq |-> c.seq]
FormIsOfSelected == selected # None /\ ~adding => form.id \in {selected, None}
IsForm(f) == f = [id |-> f.id, name |-> f.name, detail |-> f.detail]
SelectedIn(s) == selected = None \/ selected \in DOMAIN s
Progress(c) ==
    \/ c.step = "call" /\ c.kind = "save" /\ c.id \in DOMAIN stored /\ form.id \in {c.id, None}
    \/ c.step = "call" /\ c.kind = "delete" /\ (selected = c.id \/ SelectedIn(stored))
    \/ c.step = "list" /\ SelectedIn(stored)
    \/ c.step = "listed" /\ c.got = stored /\ SelectedIn(stored)
LanguagesInv ==
    /\ IsForm(form) /\ FormIsOfSelected
    /\ \A c, d \in calls : c = d
    /\ \A c \in calls : IsCall(c) /\ Progress(c)
    /\ calls = {} => list = stored /\ SelectedIn(stored)

\* "Edit: <name>" edits: saving it makes no second language.
EditIsUpdate == [][Save /\ ~adding => DOMAIN stored' = DOMAIN stored]_languageVars

\* A language that was deleted is not in the list that is loaded next.
DeletedIsGone ==
    [][\A c \in calls : c.kind = "delete" /\ SetList(c) /\ Patient => c.id \notin DOMAIN list']_languageVars
=============================================================================
