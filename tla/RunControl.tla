----------------------------- MODULE RunControl -----------------------------
(***************************************************************************)
(* What the process runner promises whoever starts and stops projects,     *)
(* without tasks, channels, children or updates:                           *)
(*   - a project holds at most one run, the one a stop would reach, and    *)
(*     gives it up only by telling it to end;                              *)
(*   - a run told to end stays told;                                       *)
(*   - a run that is over uses nothing, and never will again;              *)
(*   - a run is lost, whatever it uses, only after it was told to end.     *)
(***************************************************************************)
CONSTANTS Projects, Runs, None

VARIABLES
  held,   \* per project: the run that a stop of the project would reach
  told,   \* the runs that were told to end
  over,   \* the runs that have ended in good order
  lost,   \* the runs whose task is gone without cleaning up
  using   \* the runs that have a child, a descendant of one or a tunnel

vars == <<held, told, over, lost, using>>

Known == told \cup over \cup lost \cup {held[p] : p \in Projects}
Telling(p) == told \cup ({held[p]} \ {None})

Init ==
  /\ held = [p \in Projects |-> None]
  /\ told = {} /\ over = {} /\ lost = {} /\ using = {}

\* A new run takes the place of the one held before.
Accept(p, r) ==
  /\ r \notin Known
  /\ held' = [held EXCEPT ![p] = r]
  /\ told' = Telling(p)
  /\ UNCHANGED <<over, lost, using>>

GiveUp(p) ==
  /\ held' = [held EXCEPT ![p] = None]
  /\ told' = Telling(p)
  /\ UNCHANGED <<over, lost, using>>

Acquire(r) ==
  /\ r \in Known \ (over \cup lost)
  /\ using' = using \cup {r}
  /\ UNCHANGED <<held, told, over, lost>>

Release(r) ==
  /\ using' = using \ {r}
  /\ UNCHANGED <<held, told, over, lost>>

End(r) ==
  /\ r \in Known \ lost
  /\ over' = over \cup {r}
  /\ using' = using \ {r}
  /\ UNCHANGED <<held, told, lost>>

Lose(r) ==
  /\ r \in told \ over
  /\ lost' = lost \cup {r}
  /\ UNCHANGED <<held, told, over, using>>

Next ==
  \/ \E p \in Projects : GiveUp(p) \/ \E r \in Runs : Accept(p, r)
  \/ \E r \in Runs : Acquire(r) \/ Release(r) \/ End(r) \/ Lose(r)

Spec == Init /\ [][Next]_vars
=============================================================================
