--------------------------- MODULE SessionHistory ---------------------------
(***************************************************************************)
(* The message history of an agent session (mod.rs) and what the harness   *)
(* computes from it: the tool calls to execute, and the compaction that    *)
(* keeps the history short before every call of the model.                 *)
(*                                                                         *)
(* A message keeps its role and, when it is about tool calls, which ones:  *)
(* all that were asked for, or the one that is answered.                   *)
(***************************************************************************)
EXTENDS Integers, Sequences, FiniteSets

CONSTANTS
  MaxCalls,   \* tool calls the model asks for in a behaviour
  Long,       \* messages a history may have before it is compacted; 80 in the code
  Short       \* messages it is compacted to; 40 in the code

ASSUME HistoryAssumption ==
  /\ MaxCalls \in Nat
  /\ Short \in Nat /\ Short > 2
  /\ Long \in Nat /\ Long >= Short

Calls == 1..MaxCalls

Message == [role : {"user", "assistant", "tool", "system"}, calls : Seq(Calls)]

User == [role |-> "user", calls |-> <<>>]
Text == [role |-> "assistant", calls |-> <<>>]
Notice == [role |-> "system", calls |-> <<>>]
Asks(batch) == [role |-> "assistant", calls |-> batch]
Result(c) == [role |-> "tool", calls |-> <<c>>]

IsCalls(m) == m.role = "assistant" /\ m.calls # <<>>

\* The largest of a finite set of numbers, and the smallest.
Last(S) == CHOOSE i \in S : \A j \in S : j <= i
First(S) == CHOOSE i \in S : \A j \in S : i <= j

----------------------------------------------------------------------------
\* The tool calls of the last assistant message that has any: what ExecutingTool runs.
LastCalls(h) ==
  LET asks == {i \in DOMAIN h : IsCalls(h[i])}
  IN  IF asks = {} THEN <<>> ELSE h[Last(asks)].calls

\* A mutant: the cut is where the count puts it, be it between a call and its result.
BluntCut(h, max) == Len(h) - (max - 2) + 1

\* The first position a compaction to max messages keeps: the code leaves room for two
\* messages and then walks back over tool results, to the front if it must.
Cut(h, max) ==
  Last({1} \cup {i \in DOMAIN h : i <= Len(h) - (max - 2) + 1 /\ h[i].role # "tool"})

\* What a compaction puts before the tail that starts at cut: the first user message,
\* unless the tail is not everything and has it.
Anchor(h, cut) ==
  LET users == {i \in DOMAIN h : h[i].role = "user"}
  IN  IF users = {} \/ (cut > 1 /\ First(users) >= cut) THEN <<>> ELSE <<h[First(users)]>>

Compact(h, max) ==
  IF Len(h) <= max
  THEN h
  ELSE LET cut == Cut(h, max)
       IN  Anchor(h, cut) \o (IF cut > 1 THEN <<Notice>> ELSE <<>>) \o SubSeq(h, cut, Len(h))

\* What a Thinking tick does first.
Compacted(h) == Compact(h, IF Len(h) > Long THEN Short ELSE Long)

----------------------------------------------------------------------------
\* A tool result belongs to the assistant message before it, with nothing but
\* other results between the two.
Belongs(h, i) ==
  \E j \in 1..(i - 1) :
    /\ IsCalls(h[j])
    /\ h[i].calls[1] \in {h[j].calls[k] : k \in DOMAIN h[j].calls}
    /\ \A k \in (j + 1)..(i - 1) : h[k].role = "tool"

WellPaired(h) == \A i \in DOMAIN h : h[i].role = "tool" => Belongs(h, i)
=============================================================================
