---------------------------- MODULE RequestBody ----------------------------
(***************************************************************************)
(* The body tab of PingZero.tsx: one text, "body", is what a request       *)
(* sends, and seven editors, one per body type, write it.  The editors of  *)
(* form data, of a binary file and of GraphQL keep fields of their own,    *)
(* which neither a loaded request nor an imported command sets.            *)
(*                                                                         *)
(* A text is the tuple of what it was made from.                           *)
(***************************************************************************)
EXTENDS Naturals, Sequences, SequencesExt

CONSTANTS
    Typed,          \* texts that can be typed, and paths that can be chosen
    Parsable,       \* the texts that are JSON
    MaxRows         \* bound on the rows of form data

BodyAssumption == Parsable \subseteq Typed /\ MaxRows \in Nat \ {0}

VARIABLES
    type,           \* bodyType
    body,           \* the text that is sent
    fields,         \* formDataFields
    path,           \* binaryFilePath
    query, vars,    \* graphqlQuery, graphqlVariables
    threw           \* a handler of the form-data table threw

bodyVars == <<type, body, fields, path, query, vars, threw>>

TextTypes == {"json", "text", "urlencoded"}
BodyTypes == TextTypes \cup {"none", "form-data", "binary", "graphql"}
Blank == <<>>      \* no body
Empty == ""        \* an empty field
NoVars == "{}"     \* no variables
Row == [key |-> Empty, value |-> Empty, enabled |-> TRUE, kind |-> "text"]

Init ==
    /\ type = "none"
    /\ body = Blank
    /\ fields = <<>>
    /\ path = Empty /\ query = Empty /\ vars = Empty
    /\ threw = FALSE

SelectType(t) == type' = t /\ UNCHANGED <<body, fields, path, query, vars, threw>>

\* The three editors of plain text share the text and so each other's.
TypeBody(v) ==
    /\ type \in TextTypes
    /\ body' = <<"text", v>>
    /\ UNCHANGED <<type, fields, path, query, vars, threw>>

\* "Format" of the urlencoded editor decodes the pairs and puts each on a
\* line of its own.
FormatPairs ==
    /\ type = "urlencoded"
    /\ body # Blank
    /\ body' = <<"lines", body[2]>>
    /\ UNCHANGED <<type, fields, path, query, vars, threw>>

\* The form-data table draws a row of its own when there is none, and its
\* handlers write to fields[index] all the same.
EditRow(i, change(_)) ==
    /\ type = "form-data"
    /\ i = 1 \/ i \in DOMAIN fields
    /\ IF i \in DOMAIN fields
       THEN LET row == change(fields[i])
                more == i = Len(fields) /\ row.key # fields[i].key /\ row.key # Empty
            IN  /\ fields' = [fields EXCEPT ![i] = row] \o (IF more THEN <<Row>> ELSE <<>>)
                /\ UNCHANGED threw
       ELSE threw' = TRUE /\ UNCHANGED fields
    /\ UNCHANGED <<type, body, path, query, vars>>

EditField(i) ==
    \/ EditRow(i, LAMBDA r : [r EXCEPT !.enabled = ~@])
    \/ \E v \in Typed : EditRow(i, LAMBDA r : [r EXCEPT !.key = v])
    \/ \E v \in Typed : EditRow(i, LAMBDA r : [r EXCEPT !.value = v])
    \/ EditRow(i, LAMBDA r : [r EXCEPT !.kind = IF @ = "text" THEN "file" ELSE "text"])

ChooseFile(p) ==
    /\ type = "binary" /\ path = Empty
    /\ path' = p
    /\ body' = <<"file", p>>
    /\ UNCHANGED <<type, fields, query, vars, threw>>

ClearFile ==
    /\ type = "binary" /\ path # Empty
    /\ path' = Empty
    /\ body' = Blank
    /\ UNCHANGED <<type, fields, query, vars, threw>>

\* Variables that are no JSON, such as an empty text, are sent as none.
ParseGraphqlVars(v) == IF v \in Parsable THEN v ELSE NoVars

\* Either editor of GraphQL writes the query and the variables together.
EditQueryAlone(q, v) ==
    /\ type = "graphql"
    /\ query' = q /\ vars' = v
    /\ body' = <<"graphql", q, NoVars>>
    /\ UNCHANGED <<type, fields, path, threw>>

EditGraphql(q, v) ==
    /\ type = "graphql"
    /\ query' = q /\ vars' = v
    /\ body' = <<"graphql", q, ParseGraphqlVars(v)>>
    /\ UNCHANGED <<type, fields, path, threw>>

\* A request of the history, of the templates or of a collection, or an
\* imported command.
Load(t, b) ==
    /\ type' = t
    /\ body' = b
    /\ UNCHANGED <<fields, path, query, vars, threw>>

Next ==
    \/ \E t \in BodyTypes : SelectType(t)
    \/ \E v \in Typed : TypeBody(v) \/ ChooseFile(v) \/ EditGraphql(v, vars) \/ EditGraphql(query, v)
    \/ FormatPairs \/ ClearFile
    \/ \E i \in 1 .. MaxRows : EditField(i)
    \/ \E t \in BodyTypes, v \in Typed :
          Load(t, IF t = "none" THEN Blank ELSE IF t = "graphql" THEN <<t, v, ParseGraphqlVars(v)>> ELSE <<"text", v>>)

Spec == Init /\ [][Next]_bodyVars

----------------------------------------------------------------------------
\* What the editor of the selected type shows; variables that are no JSON
\* count as none.
Shown ==
    CASE type = "graphql" -> <<"graphql", query, ParseGraphqlVars(vars)>>
      [] type = "binary" -> IF path = Empty THEN Blank ELSE <<"file", path>>
      [] type = "form-data" -> IF fields = <<>> THEN Blank ELSE <<"fields", fields>>
      [] type = "none" -> Blank
      [] OTHER -> body

\* Whatever was loaded or typed before under another type, an edit of a text,
\* of the file or of GraphQL leaves the request sending what the editor shows.
EditedIsSent ==
    [][(\E q, v \in Typed \cup {Empty} : EditGraphql(q, v) \/ ChooseFile(v) \/ TypeBody(v)) \/ ClearFile
       => body' = Shown']_bodyVars

\* So does an edit of form data, whose handlers write no body.
FormDataIsSent ==
    [][(\E i \in 1 .. MaxRows : EditField(i)) => body' = Shown']_bodyVars

\* The variables typed are the variables sent.
VariablesAreSent ==
    [][\A q, v \in Typed : EditGraphql(q, v) => body'[3] = v]_bodyVars

\* The editor shows what is sent.
ShownIsSent == type # "none" => body = Shown

\* The table of form data takes input.
TableWorks == ~threw
=============================================================================
