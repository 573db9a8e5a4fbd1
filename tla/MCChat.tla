------------------------------- MODULE MCChat -------------------------------
(***************************************************************************)
(* The agent panel side by side for TLC: the messages and cards of the     *)
(* chat, for a user who waits and for one who does not, and the switches   *)
(* between projects for one who does not; Workbench has them for one who   *)
(* does.  The collections of the API client, a tree and so recursive, are  *)
(* here as a part of their own: Panels, which PanelsProofs extends, has no *)
(* recursive operator.                                                     *)
(***************************************************************************)
EXTENDS Naturals, Sequences, FiniteSets

VARIABLES
    part,           \* the part, and the user, that this behaviour is about
    chat, stream, sending, typing, seen, commands, counted, replies, events, given,
    panel, taken, active, root, registry, clock,
    tree, file, exported

Messages == {1, 2}

HastyChat == INSTANCE ChatStream WITH
    Message <- Messages, None <- 0, MaxIterations <- 2, TeamSteps <- 2, MaxEvents <- 2, Patient <- FALSE

PatientChat == INSTANCE ChatStream WITH
    Message <- Messages, None <- 0, MaxIterations <- 2, TeamSteps <- 2, MaxEvents <- 2, Patient <- TRUE

HastySwitch == INSTANCE ProjectSwitch WITH
    Panel <- {"p"}, Project <- {"a", "b", "c"}, None <- "none", MaxSeq <- 3, MaxClock <- 0,
    MaxSessions <- 2, Patient <- FALSE

\* Requests of an OpenAPI document, and one with headers and authorization.
Contents ==
    {[bodyType |-> b, body |-> "t", headers |-> {}, authType |-> "none"] : b \in {"json", "text"}} \cup
    {[bodyType |-> "json", body |-> "t", headers |-> {"enabled", "disabled", "keyless"}, authType |-> "bearer"]}

Collections == INSTANCE ApiCollections WITH Id <- {1, 2, 3}, Content <- Contents

ASSUME ChatAssumption ==
    /\ HastyChat!StreamingAssumption /\ HastySwitch!SwitchAssumption
    /\ Collections!CollectionAssumption

chatV   == <<chat, stream, sending, typing, seen, commands, counted, replies, events, given>>
switchV == <<panel, taken, active, root, registry, clock>>
collectionsV == <<tree, file, exported>>
vars == <<part, chatV, switchV, collectionsV>>

Init ==
    /\ part \in {"hasty chat", "patient chat", "hasty switch", "collections"}
    /\ HastyChat!Init /\ HastySwitch!Init /\ Collections!Init
    /\ part = "collections" \/ tree[1].type = "folder"

Next ==
    \/ part = "hasty chat"   /\ HastyChat!Next   /\ UNCHANGED <<part, switchV, collectionsV>>
    \/ part = "patient chat" /\ PatientChat!Next /\ UNCHANGED <<part, switchV, collectionsV>>
    \/ part = "hasty switch" /\ HastySwitch!Next /\ UNCHANGED <<part, chatV, collectionsV>>
    \/ part = "collections"  /\ Collections!Next /\ UNCHANGED <<part, chatV, switchV>>

Others == UNCHANGED <<part, switchV, collectionsV>>
Fairness ==
    \* every command ends and its answer arrives; see ChatStream!FairSpec
    /\ WF_vars(part = "hasty chat" /\ (\E i \in DOMAIN commands, ok \in BOOLEAN : HastyChat!End(i, ok)) /\ Others)
    /\ \A m \in Messages :
         WF_vars(part = "hasty chat" /\ (\E r \in replies : r.msg = m /\ HastyChat!Answer(r)) /\ Others)
    \* timers fire and the backend answers; see ProjectSwitch!FairSpec
    /\ WF_vars(part = "hasty switch" /\ HastySwitch!Fire("p") /\ UNCHANGED <<part, chatV, collectionsV>>)
    /\ WF_vars(part = "hasty switch" /\ HastySwitch!Ask("p") /\ UNCHANGED <<part, chatV, collectionsV>>)
    /\ \A b \in {"switch", "new"} :
         WF_vars(part = "hasty switch" /\ HastySwitch!Serve("p", b) /\ UNCHANGED <<part, chatV, collectionsV>>)

Spec == Init /\ [][Next]_vars /\ Fairness

----------------------------------------------------------------------------
\* The chat shows each item once, and a placeholder that is not being filled
\* was given up (AiAgent.tsx:1158-1454).
ChatOK == HastyChat!ChatOK

\* For a user who waits, a placeholder holds the text of one message
\* (AiAgent.tsx:1222).
OneMessageEach == part = "patient chat" => PatientChat!OneMessageEach

\* After the team's answer each of its steps has a card with its own result
\* (AiAgent.tsx:1641-1669).
AnswerShowsCalls == HastyChat!AnswerShowsCalls

\* The panel does not stay "typing": a message is answered, fails or is
\* cancelled (AiAgent.tsx:1544-1790).
TypingEnds == part = "hasty chat" => HastyChat!TypingEnds

\* Every switch that was begun ends (AiAgent.tsx:973-1055).
SwitchingEnds == part = "hasty switch" => HastySwitch!SwitchingEnds

\* A collection that is exported and imported has the folders and requests it
\* had, with new ids: of the headers those that are enabled and have a key, of
\* the bodies the type and a JSON text, and no authorization
\* (PingZeroCollections.tsx:65-177).
ImportIsExport == Collections!ImportIsExport
=============================================================================
