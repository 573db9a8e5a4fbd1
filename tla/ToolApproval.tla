---------------------------- MODULE ToolApproval ----------------------------
(***************************************************************************)
(* What the action guard of the agent promises (README.md:147, "requiring  *)
(* explicit human approval"): a tool call runs at most once, and only if   *)
(* it needs no approval or the user granted it.                            *)
(***************************************************************************)
EXTENDS Integers

CONSTANTS Calls   \* the tool calls of the model, by identity

VARIABLES
  verdict,  \* new, free (needs no approval), asked, granted or denied
  runs      \* how often a call was run

vars == <<verdict, runs>>

Init ==
  /\ verdict = [c \in Calls |-> "new"]
  /\ runs = [c \in Calls |-> 0]

\* The model asks for some tool calls; all of them need approval or none does.
Propose(batch) ==
  /\ \A c \in batch : verdict[c] = "new"
  /\ \E v \in {"free", "asked"} :
       verdict' = [c \in Calls |-> IF c \in batch THEN v ELSE verdict[c]]
  /\ UNCHANGED runs

\* The user decides; what is decided stays so.
Decide(batch) ==
  /\ \E v \in {"granted", "denied"} :
       verdict' = [c \in Calls |->
                     IF c \in batch /\ verdict[c] = "asked" THEN v ELSE verdict[c]]
  /\ UNCHANGED runs

\* The execution of a call begins.
Run(c) ==
  /\ verdict[c] \in {"free", "granted"}
  /\ runs[c] = 0
  /\ runs' = [runs EXCEPT ![c] = 1]
  /\ UNCHANGED verdict

Next ==
  \/ \E batch \in SUBSET Calls : Propose(batch) \/ Decide(batch)
  \/ \E c \in Calls : Run(c)

Spec == Init /\ [][Next]_vars
=============================================================================
