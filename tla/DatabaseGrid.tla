---------------------------- MODULE DatabaseGrid ----------------------------
(***************************************************************************)
(* The editor of SQLite files (SqliteEditor.tsx) and the commands behind   *)
(* it (database.rs, sqlite.rs).  One instance of the editor serves every   *)
(* database opened in its pane: only the prop filePath changes.            *)
(*                                                                         *)
(* A row is its key; a table has at most one column added.  A call is      *)
(* answered in the step in which it is performed.                          *)
(***************************************************************************)
EXTENDS Naturals, Sequences, FiniteSets, SequencesExt

CONSTANTS
    File,           \* database files
    Table,          \* names of tables
    Keyed,          \* the tables with a primary key
    None,           \* null
    Limit,          \* the page sizes offered
    MaxRows,        \* bound on the keys of a table
    MaxCalls,       \* bound on the calls under way
    Patient,        \* TRUE: the user acts when no call is under way
    Ordered,        \* TRUE: calls are answered in the order of their invocation
    MayFail         \* TRUE: a read may fail, as on a locked file

GridAssumption == Keyed \subseteq Table /\ None \notin File \cup Table /\ Limit \subseteq Nat \ {0}
                  /\ {MaxRows, MaxCalls} \subseteq Nat

VARIABLES
    db,             \* db[f][t]: None, or the table: [rows, wide]
    filePath,       \* the file shown
    tables,         \* the names listed
    activeTable,    \* the one selected
    data,           \* None, or the page shown: [of, rows, wide]
    limit, offset,  \* the page
    viewMode,       \* "table" or "query"
    editingCell,    \* None, or the index of the row whose cell is edited
    showAddColumn,  \* the form of a new column is open
    confirm,        \* None, or the deletion that waits for the user's yes
    calls,          \* calls under way, in order
    stale           \* a query has changed the database since the last read of rows

gridVars == <<db, filePath, tables, activeTable, data, limit, offset, viewMode,
              editingCell, showAddColumn, confirm, calls, stale>>
viewVars == <<viewMode, limit>>

Idle == calls = <<>>
Free == confirm = None /\ (Patient => Idle)
Names(f) == SetToSeq({t \in Table : db[f][t] # None})
New == [rows |-> <<1>>, wide |-> FALSE]
NextKey(rows) == IF rows = <<>> THEN 1 ELSE Last(rows) + 1

CallOf(cmd, args) == [cmd |-> cmd, file |-> filePath, args |-> args]
Invoke(cs) == Len(calls) + Len(cs) <= MaxCalls /\ calls' = calls \o cs
Tables == CallOf("tables", activeTable)
Rows(f, t, n, from) == [cmd |-> "rows", file |-> f, args |-> <<t, n, from>>]

Init ==
    /\ db \in [File -> [Table -> {None, New}]]
    /\ filePath \in File
    /\ tables = <<>> /\ activeTable = None /\ data = None
    /\ limit = CHOOSE n \in Limit : \A m \in Limit : n <= m
    /\ offset = 0
    /\ viewMode = "table" /\ editingCell = None /\ showAddColumn = FALSE /\ confirm = None
    /\ calls = <<Tables>>
    /\ stale = FALSE

----------------------------------------------------------------------------
(* The list of tables, the pages and the modes.                            *)

\* The effects on activeTable: the old offset is read first, then the first
\* page.  rest: the calls that are still under way.
ActivateNow(t, rest) ==
    /\ activeTable' = t
    /\ IF t = activeTable THEN calls' = rest /\ UNCHANGED <<data, offset, showAddColumn>>
       ELSE /\ offset' = 0
            /\ showAddColumn' = FALSE
            /\ IF t = None THEN data' = None /\ calls' = rest
               ELSE /\ UNCHANGED data
                    /\ calls' = rest \o <<Rows(filePath, t, limit, offset)>> \o
                          (IF offset = 0 THEN <<>> ELSE <<Rows(filePath, t, limit, 0)>>)
    /\ Len(calls') <= MaxCalls

SelectTable(t) ==
    /\ Free /\ t \in Range(tables) \ {activeTable}
    /\ ActivateNow(t, calls)
    /\ UNCHANGED <<db, filePath, tables, viewVars, editingCell, confirm, stale>>

\* Another database in the same pane.
SwitchFile(f) ==
    /\ Free /\ f # filePath
    /\ filePath' = f
    /\ Invoke(<<[Tables EXCEPT !.file = f]>> \o
              (IF activeTable = None THEN <<>> ELSE <<Rows(f, activeTable, limit, offset)>>))
    /\ data' = IF activeTable = None THEN None ELSE data
    /\ showAddColumn' = FALSE
    /\ UNCHANGED <<db, tables, activeTable, offset, viewVars, editingCell, confirm, stale>>

Refresh ==
    /\ Free
    /\ Invoke(<<Tables>>)
    /\ UNCHANGED <<db, filePath, tables, activeTable, data, offset, viewVars, editingCell,
                   showAddColumn, confirm, stale>>

InGrid == Free /\ viewMode = "table" /\ activeTable # None

\* The effect on the limit and the offset reads the page.
Turn(n, from) ==
    /\ InGrid /\ data # None /\ <<n, from>> # <<limit, offset>>
    /\ limit' = n /\ offset' = from
    /\ showAddColumn' = FALSE
    /\ Invoke(<<Rows(filePath, activeTable, n, from)>>)
    /\ UNCHANGED <<db, filePath, tables, activeTable, data, viewMode, editingCell, confirm, stale>>

SetLimit(n) == n # limit /\ Turn(n, 0)
PreviousPage == offset > 0 /\ Turn(limit, IF offset < limit THEN 0 ELSE offset - limit)
NextPage == data # None /\ Len(data.rows) >= limit /\ Turn(limit, offset + limit)

Reload ==
    /\ InGrid
    /\ Invoke(<<Rows(filePath, activeTable, limit, offset)>>)
    /\ UNCHANGED <<db, filePath, tables, activeTable, data, offset, viewVars, editingCell,
                   showAddColumn, confirm, stale>>

SetViewMode(m) ==
    /\ confirm = None /\ viewMode # m
    /\ viewMode' = m
    /\ UNCHANGED <<db, filePath, tables, activeTable, data, limit, offset, editingCell,
                   showAddColumn, confirm, calls, stale>>

----------------------------------------------------------------------------
(* Changes.                                                                *)

\* The columns are those of the page, and so is the primary key.
Editable == data # None /\ data.of[2] \in Keyed

Write(cmd, key) ==
    /\ Invoke(<<CallOf(cmd, <<activeTable, key, limit, offset>>)>>)
    /\ UNCHANGED <<db, filePath, tables, activeTable, data, offset, viewVars, stale>>

AddRow ==
    /\ InGrid /\ Editable
    /\ Write("insert", None)
    /\ UNCHANGED <<editingCell, showAddColumn, confirm>>

\* The key is that of the row clicked; the table is the one selected.
DeleteRow(i) ==
    /\ InGrid /\ Editable /\ i \in DOMAIN data.rows
    /\ confirm' = CallOf("delete", <<activeTable, data.rows[i], limit, offset>>)
    /\ UNCHANGED <<db, filePath, tables, activeTable, data, offset, viewVars, editingCell,
                   showAddColumn, calls, stale>>

Confirm(yes) ==
    /\ confirm # None
    /\ confirm' = None
    /\ IF yes THEN Len(calls) < MaxCalls /\ calls' = Append(calls, confirm) ELSE UNCHANGED calls
    /\ UNCHANGED <<db, filePath, tables, activeTable, data, offset, viewVars, editingCell,
                   showAddColumn, stale>>

EditCell(i) ==
    /\ InGrid /\ Editable /\ i \in DOMAIN data.rows /\ editingCell # i
    /\ editingCell' = i
    /\ UNCHANGED <<db, filePath, tables, activeTable, data, offset, viewVars, showAddColumn,
                   confirm, calls, stale>>

\* A changed value is sent with the key of the row that has the index by now.
SaveCell(changed) ==
    /\ InGrid /\ data # None /\ editingCell \in DOMAIN data.rows
    /\ editingCell' = None
    /\ IF changed /\ Editable THEN Write("update", data.rows[editingCell])
       ELSE UNCHANGED <<db, filePath, tables, activeTable, data, offset, viewVars, calls, stale>>
    /\ UNCHANGED <<showAddColumn, confirm>>

ToggleAddColumn ==
    /\ InGrid
    /\ showAddColumn' = ~showAddColumn
    /\ UNCHANGED <<db, filePath, tables, activeTable, data, offset, viewVars, editingCell,
                   confirm, calls, stale>>

AddColumn ==
    /\ InGrid /\ showAddColumn
    /\ Write("column", None)
    /\ UNCHANGED <<editingCell, showAddColumn, confirm>>

\* Statements that make or drop a table, or insert a row.
RunQuery(kind, t) ==
    /\ Free /\ viewMode = "query"
    /\ \A i \in DOMAIN calls : calls[i].cmd # "query"
    /\ Invoke(<<[cmd |-> "query", file |-> filePath, args |-> <<t, kind, activeTable>>]>>)
    /\ UNCHANGED <<db, filePath, tables, activeTable, data, offset, viewVars, editingCell,
                   showAddColumn, confirm, stale>>

----------------------------------------------------------------------------
(* The commands and what the editor does with the answers.                 *)

Others(i) == RemoveAt(calls, i)
TableOf(c) == db[c.file][c.args[1]]

GetTables(c, rest) ==
    /\ c.cmd = "tables"
    /\ tables' = Names(c.file)
    /\ ActivateNow(IF tables' = <<>> THEN None
                   ELSE IF c.args \in Range(tables') THEN activeTable ELSE tables'[1], rest)
    /\ UNCHANGED <<db, stale>>

PageOf(f, t, n, from) ==
    LET rows == db[f][t].rows
        upTo == IF from + n < Len(rows) THEN from + n ELSE Len(rows)
    IN [of |-> <<f, t>>, rows |-> SubSeq(rows, from + 1, upTo), wide |-> db[f][t].wide]

\* A table that is not there fails, and the page stays.
GetRows(c, rest) ==
    /\ c.cmd = "rows"
    /\ \/ (TableOf(c) = None \/ MayFail) /\ UNCHANGED <<data, stale>>
       \/ /\ TableOf(c) # None
          /\ data' = PageOf(c.file, c.args[1], c.args[2], c.args[3])
          /\ stale' = FALSE
    /\ calls' = rest
    /\ UNCHANGED <<db, tables, activeTable, offset, showAddColumn>>

\* The update is invoked with names of arguments that the command does not
\* have, and fails before it runs; so does a change of a table that is gone.
Changed(c) ==
    LET t == TableOf(c) IN
    CASE t = None \/ c.cmd = "update" -> t
      [] c.cmd = "insert" -> [t EXCEPT !.rows = Append(@, NextKey(@))]
      [] c.cmd = "delete" -> [t EXCEPT !.rows = SelectSeq(@, LAMBDA k : k # c.args[2])]
      [] c.cmd = "column" -> [t EXCEPT !.wide = TRUE]

Fails(c) == TableOf(c) = None \/ c.cmd = "update" \/ (c.cmd = "column" /\ TableOf(c).wide)

\* What was asked is done, and the page of the table is read again: with
\* what the handler saw when it began.
Change(c, rest) ==
    /\ c.cmd \in {"update", "insert", "delete", "column"}
    /\ (c.cmd = "insert" /\ TableOf(c) # None) => NextKey(TableOf(c).rows) <= MaxRows
    /\ IF Fails(c) THEN calls' = rest /\ UNCHANGED <<db, showAddColumn>>
       ELSE /\ db' = [db EXCEPT ![c.file][c.args[1]] = Changed(c)]
            /\ calls' = Append(rest, Rows(c.file, c.args[1], c.args[3], c.args[4]))
            /\ showAddColumn' = (showAddColumn /\ c.cmd # "column")
    /\ UNCHANGED <<tables, activeTable, data, offset, stale>>

\* handleRunQuery lists the tables again, not the rows.
Query(c, rest) ==
    /\ c.cmd = "query"
    /\ LET t == TableOf(c)
           works == (t = None) = (c.args[2] = "create")
       IN /\ (works /\ c.args[2] = "insert") => NextKey(t.rows) <= MaxRows
          /\ IF works
             THEN /\ db' = [db EXCEPT ![c.file][c.args[1]] =
                        CASE c.args[2] = "create" -> New
                          [] c.args[2] = "drop" -> None
                          [] c.args[2] = "insert" -> [t EXCEPT !.rows = Append(@, NextKey(@))]]
                  /\ calls' = Append(rest, [cmd |-> "tables", file |-> c.file, args |-> c.args[3]])
                  /\ stale' = TRUE
             ELSE calls' = rest /\ UNCHANGED <<db, stale>>
    /\ UNCHANGED <<tables, activeTable, data, offset, showAddColumn>>

Answer(i) ==
    /\ i \in DOMAIN calls /\ (Ordered => i = 1)
    /\ \/ GetTables(calls[i], Others(i)) \/ GetRows(calls[i], Others(i))
       \/ Change(calls[i], Others(i)) \/ Query(calls[i], Others(i))
    /\ UNCHANGED <<filePath, viewVars, editingCell, confirm>>

Next ==
    \/ \E t \in Table : SelectTable(t)
    \/ \E t \in Table, kind \in {"create", "drop", "insert"} : RunQuery(kind, t)
    \/ \E f \in File : SwitchFile(f)
    \/ Refresh \/ Reload \/ PreviousPage \/ NextPage \/ \E n \in Limit : SetLimit(n)
    \/ \E m \in {"table", "query"} : SetViewMode(m)
    \/ AddRow \/ ToggleAddColumn \/ AddColumn
    \/ \E i \in 1..MaxRows : DeleteRow(i) \/ EditCell(i)
    \/ \E b \in BOOLEAN : SaveCell(b) \/ Confirm(b)
    \/ \E i \in 1..MaxCalls : Answer(i)

Spec == Init /\ [][Next]_gridVars

----------------------------------------------------------------------------
\* Once every call has been answered, the page is that of the selected table
\* at the offset and with the limit shown (SqliteEditor.tsx:110-147).
PageIsShown ==
    (Idle /\ ~stale) =>
       IF activeTable = None THEN data = None
       ELSE db[filePath][activeTable] # None /\ data = PageOf(filePath, activeTable, limit, offset)

\* The row that is deleted was shown as a row of the table it is deleted from
\* (handleDeleteRow, SqliteEditor.tsx:244).
DeleteIsShown ==
    (confirm # None) => data # None /\ data.of = <<confirm.file, confirm.args[1]>>

\* "Choose a table from the sidebar to view and edit its records directly":
\* a cell that is saved is updated (SqliteEditor.tsx:788).
UpdatesWork == \A i \in DOMAIN calls : calls[i].cmd = "update" => ~Fails(calls[i])
=============================================================================
