--------------------------- MODULE ApiCollections ---------------------------
(***************************************************************************)
(* The collections of PingZero (PingZeroCollections.tsx): a tree of        *)
(* folders and requests that is written to localStorage as a whole, and    *)
(* its export to and import from a collection file.  A folder is           *)
(* recognised in a file by its "item" list, so an import is right only if  *)
(* an export wrote one for every folder, an empty one included.            *)
(*                                                                         *)
(* A request is its body's type and text, its headers (those of one kind   *)
(* are one: enabled, disabled, or without a key) and its authorization.    *)
(* Requests with disabled headers or an authorization come from            *)
(* localStorage only, which loadCollections takes as it is.                *)
(***************************************************************************)
EXTENDS Naturals, Sequences, FiniteSets, SequencesExt

CONSTANTS
    Id,             \* ids that generateId can return; they are taken in order
    Content         \* requests that localStorage or an OpenAPI document may hold

CollectionAssumption == Id \subseteq Nat

VARIABLES
    tree,           \* collections, in the state and in localStorage: items
    file,           \* the exported file, or none yet
    exported        \* the tree it is of (history)

collectionVars == <<tree, file, exported>>

\* The request of addRequest.
Blank == [bodyType |-> "none", body |-> "", headers |-> {}, authType |-> "none"]
Folder(i, c) == [id |-> i, type |-> "folder", children |-> c, request |-> Blank]
Request(i, r) == [id |-> i, type |-> "request", children |-> <<>>, request |-> r]

RECURSIVE IdsOf(_), FolderIds(_), Inserted(_, _, _), Removed(_, _), Exported(_)
RECURSIVE Parsed(_, _), ParsedFlat(_, _)

\* The rows of the tree, and the folders among them: their context menus
\* offer to add a folder or a request, and every row's to delete it.
IdsOf(items) == UNION {{items[i].id} \cup IdsOf(items[i].children) : i \in DOMAIN items}
FolderIds(items) ==
    UNION {{items[i].id} \cup FolderIds(items[i].children) :
             i \in {k \in DOMAIN items : items[k].type = "folder"}}
Fresh(items) == Id \ IdsOf(items)
NextId(items) == CHOOSE i \in Fresh(items) : \A j \in Fresh(items) : i <= j

\* updateChildren of addFolder and addRequest: the parent, if it is a folder.
Inserted(items, parent, new) ==
    [i \in DOMAIN items |->
        [items[i] EXCEPT !.children =
            IF items[i].id = parent /\ items[i].type = "folder" THEN Append(@, new)
            ELSE Inserted(@, parent, new)]]

\* deleteItem, with everything below the item.
Removed(items, id) ==
    LET rest == SelectSeq(items, LAMBDA x : x.id # id)
    IN  [i \in DOMAIN rest |-> [rest[i] EXCEPT !.children = Removed(@, id)]]

\* buildItem of the export: the headers that are enabled and have a key, the
\* text of a "json" body only ("raw" is the mode of no other type), and no
\* authorization.
Entry(r) == [header |-> r.headers \cap {"enabled"}, mode |-> r.bodyType,
             raw |-> IF r.bodyType = "json" THEN r.body ELSE ""]
Exported(items) ==
    [i \in DOMAIN items |->
        IF items[i].type = "folder" THEN [item |-> Exported(items[i].children)]
        ELSE Entry(items[i].request)]

\* The request of an entry.
RequestOf(e) == [bodyType |-> e.mode, body |-> e.raw, headers |-> e.header, authType |-> "none"]

ParsedFlat(entries, used) ==
    IF entries = <<>> THEN <<>>
    ELSE LET e == Head(entries)
             i == CHOOSE x \in Id \ used : \A y \in Id \ used : x <= y
             item == IF "item" \in DOMAIN e THEN Folder(i, <<>>) ELSE Request(i, RequestOf(e))
         IN  <<item>> \o ParsedFlat(Tail(entries), used \cup {i})

\* parsePingZeroItem of the import; ids are new, here those of used on.
Parsed(entries, used) ==
    IF entries = <<>> THEN <<>>
    ELSE LET e == Head(entries)
             i == CHOOSE x \in Id \ used : \A y \in Id \ used : x <= y
             item == IF "item" \in DOMAIN e THEN Folder(i, Parsed(e.item, used \cup {i}))
                     ELSE Request(i, RequestOf(e))
         IN  <<item>> \o Parsed(Tail(entries), used \cup IdsOf(<<item>>))

RECURSIVE Entries(_)
Entries(entries) ==
    IF entries = <<>> THEN 0
    ELSE 1 + Entries(Tail(entries)) + (IF "item" \in DOMAIN Head(entries) THEN Entries(Head(entries).item) ELSE 0)

FirstId == CHOOSE i \in Id : \A j \in Id : i <= j

Init ==
    /\ tree \in {<<Folder(FirstId, <<>>)>>} \cup {<<Request(FirstId, r)>> : r \in Content}
    /\ file = <<>>
    /\ exported = <<>>

Persist(items) == tree' = items /\ UNCHANGED <<file, exported>>

\* addFolder and addRequest, at the top or from a folder's context menu.
AddFolder(parent) ==
    /\ Fresh(tree) # {}
    /\ LET f == Folder(NextId(tree), <<>>)
       IN  Persist(IF parent = 0 THEN Append(tree, f) ELSE Inserted(tree, parent, f))

AddRequest(parent) ==
    /\ Fresh(tree) # {}
    /\ LET r == Request(NextId(tree), Blank)
       IN  Persist(IF parent = 0 THEN Append(tree, r) ELSE Inserted(tree, parent, r))

DeleteItem(id) == Persist(Removed(tree, id))

Export == file' = Exported(tree) /\ exported' = tree /\ UNCHANGED tree

\* handleImport appends what it parsed; an empty result is refused.
Import ==
    /\ file # <<>>
    /\ Entries(file) <= Cardinality(Fresh(tree))
    /\ Persist(tree \o Parsed(file, IdsOf(tree)))

\* An OpenAPI document of one operation: parseOpenApi makes a folder of its
\* tag, and a request without headers or authorization in it.
ImportOpenApi(r) ==
    /\ r.headers = {} /\ r.authType = "none"
    /\ Cardinality(Fresh(tree)) >= 2
    /\ LET i == NextId(tree)
           j == CHOOSE k \in Fresh(tree) \ {i} : \A l \in Fresh(tree) \ {i} : k <= l
       IN  Persist(Append(tree, Folder(i, <<Request(j, r)>>)))

Next ==
    \/ \E p \in {0} \cup FolderIds(tree) : AddFolder(p) \/ AddRequest(p)
    \/ \E i \in IdsOf(tree) : DeleteItem(i)
    \/ \E r \in Content : ImportOpenApi(r)
    \/ Export \/ Import

Spec == Init /\ [][Next]_collectionVars

----------------------------------------------------------------------------
\* What an export keeps of a request: of its headers those that are enabled
\* and have a key, of its body the type, and the text if it is "json".
Kept(r) == [r EXCEPT !.headers = @ \ {"disabled", "keyless"}, !.authType = "none",
                     !.body = IF r.bodyType = "json" THEN @ ELSE ""]
RECURSIVE Survivors(_), Same(_, _)
Survivors(items) ==
    [i \in DOMAIN items |-> [items[i] EXCEPT !.request = Kept(@), !.children = Survivors(@)]]

\* The items are those of the other tree, up to their ids.
Same(items, others) ==
    /\ Len(items) = Len(others)
    /\ \A i \in DOMAIN items :
          /\ items[i].type = others[i].type /\ items[i].request = others[i].request
          /\ Same(items[i].children, others[i].children)

Imported == SubSeq(tree', Len(tree) + 1, Len(tree'))

\* Importing an export leaves the tree there is, and adds the folders and
\* requests that were exported: folders stay folders, empty ones too, in their
\* order, and of the requests what an export keeps.
ImportIsExport ==
    [][Import => SubSeq(tree', 1, Len(tree)) = tree /\ Same(Imported, Survivors(exported))]_collectionVars

\* Importing an export adds the requests as they were.
ImportIsVerbatim ==
    [][Import => Same(Imported, exported)]_collectionVars
=============================================================================
