------------------------ MODULE ProjectSwitchProofs ------------------------
(***************************************************************************)
(* What holds of the switches between projects for a user who waits until  *)
(* one has ended, whatever the number of panels and projects.              *)
(***************************************************************************)
EXTENDS ProjectSwitch, TLAPS

----------------------------------------------------------------------------
(* Calls and panels.                                                       *)

LEMMA NoCallStands == ~Made(NoCall) /\ NoCall.step = "none" /\ ~NoCall.stale
BY DEF NoCall, Made

LEMMA NoCallTyped ==
  ASSUME SwitchAssumption
  PROVE  NoCall \in Call
<1>1. MaxSeq \in Nat
  BY DEF SwitchAssumption
<1>2. 0 \in 0 .. MaxSeq
  BY <1>1
<1> QED
  BY <1>2 DEF NoCall, Call

LEMMA FreshTyped ==
  ASSUME SwitchAssumption
  PROVE  /\ Fresh \in PanelState /\ Fresh.project = None
         /\ Quiet(Fresh) /\ ~Moving(Fresh)
         /\ \A last, project, dir : Orderly(Fresh, last, project, dir)
<1>1. Fresh \in PanelState
  <2>1. MaxSeq \in Nat
    BY DEF SwitchAssumption
  <2>2. 0 \in 0 .. MaxSeq
    BY <2>1
  <2> QED
    BY <2>2, NoCallTyped DEF Fresh, PanelState
<1>2. /\ Fresh.project = None /\ Fresh.timer = None /\ ~Fresh.switching
      /\ \A b \in By : Fresh.call[b] = NoCall
  BY DEF Fresh
<1> QED
  BY <1>1, <1>2, NoCallStands DEF Quiet, Orderly, Moving, By

LEMMA PanelFields ==
  ASSUME NEW x \in PanelState
  PROVE  /\ x.project \in Project \cup {None} /\ x.seq \in 0 .. MaxSeq /\ x.timer \in Project \cup {None}
         /\ x.timerSeq \in 0 .. MaxSeq /\ x.switching \in BOOLEAN /\ x.call \in [By -> Call]
         /\ x.chat \in Project \cup {None} /\ \A b \in By : x.call[b] \in Call
BY DEF PanelState

\* A call of a panel is replaced.
LEMMA CallReplaced ==
  ASSUME NEW x \in PanelState, NEW b \in By, NEW c \in Call
  PROVE  LET y == WithCall(x, b, c) IN
         /\ y \in PanelState /\ y.call[b] = c /\ \A d \in By : d # b => y.call[d] = x.call[d]
         /\ y.project = x.project /\ y.seq = x.seq /\ y.timer = x.timer /\ y.timerSeq = x.timerSeq
         /\ y.switching = x.switching /\ y.chat = x.chat
<1> DEFINE f == [x.call EXCEPT ![b] = c]
<1>1. f \in [By -> Call] /\ f[b] = c /\ \A d \in By : d # b => f[d] = x.call[d]
  BY PanelFields
<1> HIDE DEF f
<1>2. WithCall(x, b, c) = [x EXCEPT !.call = f]
  BY DEF f, WithCall
<1> QED
  BY <1>1, <1>2 DEF PanelState

\* A field of a call is set to what it is.
LEMMA StaleAsItIs ==
  ASSUME NEW c \in Call
  PROVE  [c EXCEPT !.stale = c.stale] = c
BY DEF Call

\* A quiet panel has no call that moves the agent.
LEMMA QuietStands ==
  ASSUME NEW x, Quiet(x)
  PROVE  ~Moving(x)
BY NoCallStands DEF Quiet, Made, Moving

\* What is orderly in a quiet panel does not depend on the backend.
LEMMA QuietIsOrderly ==
  ASSUME NEW x, Quiet(x), NEW k, NEW i, NEW d, Orderly(x, k, i, d), NEW l, NEW j, NEW e
  PROVE  Orderly(x, l, j, e)
BY DEF Quiet, Orderly

----------------------------------------------------------------------------
(* One panel steps.                                                        *)

LEMMA OnePanel ==
  ASSUME SwitchInv, NEW p \in Panel, NEW x \in PanelState, panel' = [panel EXCEPT ![p] = x],
         taken' \in 0 .. MaxSeq, Orderly(x, taken', active', root'),
         \/ \A q \in Panel \ {p} : Quiet(panel[q])
         \/ Quiet(x) /\ UNCHANGED <<taken, active, root>>,
         ~Moving(x) => root' = active' \/ (~Moving(panel[p]) /\ UNCHANGED <<active, root>>)
  PROVE  SwitchInv'
<1>1. /\ panel \in [Panel -> PanelState] /\ taken \in 0 .. MaxSeq
      /\ \A q, r \in Panel : Quiet(panel[q]) \/ Quiet(panel[r]) \/ q = r
      /\ \A q \in Panel : Orderly(panel[q], taken, active, root)
      /\ (\A q \in Panel : ~Moving(panel[q])) => root = active
  BY DEF SwitchInv
<1>2. /\ panel' \in [Panel -> PanelState] /\ panel'[p] = x
      /\ \A q \in Panel \ {p} : panel'[q] = panel[q]
  BY <1>1
<1>3. \A q, r \in Panel : Quiet(panel'[q]) \/ Quiet(panel'[r]) \/ q = r
  BY <1>1, <1>2
<1>4. \A q \in Panel : Orderly(panel'[q], taken', active', root')
  <2> TAKE q \in Panel
  <2>1. CASE q = p
    BY <1>2, <2>1
  <2>2. CASE q # p /\ Quiet(panel[q])
    BY <1>1, <1>2, <2>2, QuietIsOrderly
  <2>3. CASE q # p /\ UNCHANGED <<taken, active, root>>
    BY <1>1, <1>2, <2>3
  <2> QED
    BY <2>1, <2>2, <2>3
<1>5. (\A q \in Panel : ~Moving(panel'[q])) => root' = active'
  <2> SUFFICES ASSUME \A q \in Panel : ~Moving(panel'[q])
               PROVE  root' = active'
    OBVIOUS
  <2>1. ~Moving(x)
    BY <1>2
  <2>2. CASE ~Moving(panel[p]) /\ UNCHANGED <<active, root>>
    <3>1. \A q \in Panel : ~Moving(panel[q])
      BY <1>2, <2>2
    <3> QED
      BY <1>1, <2>2, <3>1
  <2> QED
    BY <2>1, <2>2
<1> QED
  BY <1>2, <1>3, <1>4, <1>5 DEF SwitchInv, Quiet, Moving

----------------------------------------------------------------------------
(* The steps of the user.                                                  *)

LEMMA Fields ==
  ASSUME SwitchInv, NEW p \in Panel
  PROVE  /\ panel \in [Panel -> PanelState] /\ panel[p] \in PanelState /\ Orderly(panel[p], taken, active, root)
         /\ taken \in 0 .. MaxSeq /\ panel[p].seq \in 0 .. MaxSeq
         /\ ~Quiet(panel[p]) => \A q \in Panel \ {p} : Quiet(panel[q])
         /\ (\A q \in Panel : ~Moving(panel[q])) => root = active
<1>1. panel \in [Panel -> PanelState] /\ panel[p] \in PanelState
  BY DEF SwitchInv
<1> QED
  BY <1>1, PanelFields DEF SwitchInv

\* The user waits: nothing is under way in any panel.
LEMMA Waited ==
  ASSUME SwitchInv, Patient, Free, NEW p \in Panel
  PROVE  /\ \A q \in Panel : Quiet(panel[q])
         /\ panel[p].timer = None /\ ~panel[p].switching /\ \A b \in By : panel[p].call[b] = NoCall
         /\ root = active
<1>1. \A q \in Panel : panel[q].timer = None /\ \A b \in By : panel[q].call[b] = NoCall
  BY DEF Free, Settled
<1>2. \A q \in Panel : Quiet(panel[q])
  BY <1>1 DEF Quiet, Made
<1>3. ~panel[p].switching
  BY <1>1, Fields DEF Orderly, Made, By
<1>4. root = active
  BY <1>2, QuietStands, Fields
<1> QED
  BY <1>1, <1>2, <1>3, <1>4

LEMMA SelectKeeps ==
  ASSUME SwitchAssumption, SwitchInv, Patient, NEW p \in Panel, NEW j \in Project, Select(p, j)
  PROVE  SwitchInv' /\ ~Quiet(panel'[p])
<1> DEFINE old == panel[p]
           n == old.seq + 1
           c == [old.call["switch"] EXCEPT !.stale = old.switching]
           y == WithCall(old, "switch", c)
           x == [y EXCEPT !.project = j, !.seq = n, !.timer = j, !.timerSeq = n]
<1>1. /\ \A q \in Panel : Quiet(panel[q])
      /\ ~old.switching /\ \A b \in By : old.call[b] = NoCall
      /\ root = active
  BY Waited DEF Select
<1>2. old \in PanelState /\ taken \in 0 .. MaxSeq /\ panel \in [Panel -> PanelState]
      /\ old.switching \in BOOLEAN
  BY Fields, PanelFields
<1>3. n \in 0 .. MaxSeq
  <2>1. old.seq \in 0 .. MaxSeq /\ old.seq < MaxSeq /\ MaxSeq \in Nat
    BY Fields DEF Select, SwitchAssumption
  <2> QED
    BY <2>1
<1>4. Put(p, x) /\ UNCHANGED <<taken, active, root>>
  BY DEF Select, Backend
<1> HIDE DEF n
<1>5. c = NoCall
  <2>1. old.call["switch"] = NoCall /\ old.switching = NoCall.stale
    BY <1>1, <1>2 DEF By, NoCall
  <2> QED
    BY <2>1, NoCallTyped, StaleAsItIs
<1> HIDE DEF c
<1>6. /\ y \in PanelState /\ ~y.switching /\ \A b \in By : y.call[b] = NoCall
  BY <1>1, <1>2, <1>5, CallReplaced, NoCallTyped DEF By
<1> HIDE DEF y
<1>7. /\ x \in PanelState /\ x.timer = j /\ x.project = j /\ x.seq = n /\ x.timerSeq = n /\ ~x.switching
      /\ x.call = y.call /\ j # None
  BY <1>3, <1>6 DEF PanelState, SwitchAssumption
<1> HIDE DEF x
<1>8. Orderly(x, taken', active', root')
  <2>1. \A b \in By : ~Made(x.call[b])
    BY <1>6, <1>7, NoCallStands
  <2>2. "switch" \in By
    BY DEF By
  <2> QED
    BY <1>7, <2>1, <2>2 DEF Orderly
<1>9. panel' = [panel EXCEPT ![p] = x]
  BY <1>4 DEF Put
<1>10. SwitchInv'
  BY <1>1, <1>2, <1>4, <1>7, <1>8, <1>9, OnePanel
<1>11. panel'[p] = x
  BY <1>2, <1>9
<1> QED
  BY <1>7, <1>10, <1>11 DEF Quiet

LEMMA NewChatKeeps ==
  ASSUME SwitchAssumption, SwitchInv, Patient, NEW p \in Panel, NewChat(p)
  PROVE  SwitchInv' /\ ~Quiet(panel'[p])
<1> DEFINE old == panel[p]
           n == old.seq + 1
           c == [NoCall EXCEPT !.project = old.project, !.seq = n, !.step = "ask"]
           y == WithCall(old, "new", c)
           x == [y EXCEPT !.seq = n]
<1>1. /\ \A q \in Panel : Quiet(panel[q])
      /\ old.timer = None /\ ~old.switching /\ \A b \in By : old.call[b] = NoCall
      /\ root = active
  BY Waited DEF NewChat
<1>2. /\ old \in PanelState /\ taken \in 0 .. MaxSeq /\ panel \in [Panel -> PanelState]
      /\ old.project \in Project
  BY Fields, PanelFields DEF NewChat
<1>3. n \in 0 .. MaxSeq
  <2>1. old.seq \in 0 .. MaxSeq /\ old.seq < MaxSeq /\ MaxSeq \in Nat
    BY Fields DEF NewChat, SwitchAssumption
  <2> QED
    BY <2>1
<1>4. Put(p, x) /\ UNCHANGED <<taken, active, root>>
  BY DEF NewChat, Backend
<1> HIDE DEF n
<1>5. /\ c \in Call /\ c.project = old.project /\ c.seq = n /\ ~c.stale /\ c.step = "ask"
      /\ old.project # None
  BY <1>2, <1>3 DEF NoCall, Call, NewChat
<1>6. Made(c)
  BY <1>5, NoCallStands DEF Made
<1> HIDE DEF c
<1>7. /\ y \in PanelState /\ y.timer = None /\ ~y.switching /\ y.project = old.project
      /\ y.call["new"] = c /\ y.call["switch"] = NoCall
  BY <1>1, <1>2, <1>5, CallReplaced DEF By
<1> HIDE DEF y
<1>8. /\ x \in PanelState /\ x.timer = None /\ ~x.switching /\ x.seq = n /\ x.project = old.project
      /\ x.call["new"] = c /\ x.call["switch"] = NoCall
  BY <1>3, <1>7 DEF PanelState
<1> HIDE DEF x
<1>9. Orderly(x, taken', active', root')
  BY <1>5, <1>6, <1>8, NoCallStands DEF Orderly, By
<1>10. panel' = [panel EXCEPT ![p] = x]
  BY <1>4 DEF Put
<1>11. SwitchInv'
  BY <1>1, <1>2, <1>4, <1>8, <1>9, <1>10, OnePanel
<1>12. panel'[p] = x
  BY <1>2, <1>10
<1> QED
  BY <1>6, <1>8, <1>11, <1>12 DEF Quiet, By

----------------------------------------------------------------------------
(* The steps of a switch.                                                  *)

\* The timer fires: nothing else is under way, so it makes a call.
LEMMA FireKeeps ==
  ASSUME SwitchAssumption, SwitchInv, NEW p \in Panel, Fire(p)
  PROVE  SwitchInv' /\ ~Quiet(panel'[p])
<1> DEFINE old == panel[p]
           c == [NoCall EXCEPT !.project = old.timer, !.seq = old.timerSeq, !.step = "save"]
           y == WithCall(old, "switch", c)
           x == [y EXCEPT !.timer = None, !.switching = TRUE]
<1>1. old.timer # None /\ UNCHANGED <<taken, active, root>>
  BY DEF Fire, Backend
<1>2. /\ old \in PanelState /\ taken \in 0 .. MaxSeq /\ panel \in [Panel -> PanelState]
      /\ Orderly(old, taken, active, root)
      /\ ~Quiet(old) => \A q \in Panel \ {p} : Quiet(panel[q])
      /\ old.seq \in 0 .. MaxSeq
  BY Fields
<1>3. /\ \A q \in Panel \ {p} : Quiet(panel[q])
      /\ old.timer = old.project /\ old.timerSeq = old.seq /\ ~old.switching
      /\ \A b \in By : ~Made(old.call[b])
  BY <1>1, <1>2 DEF Quiet, Orderly, By
<1>4. Put(p, x)
  BY <1>3 DEF Fire
<1>5. c \in Call /\ c.project = old.project /\ c.seq = old.seq /\ ~c.stale /\ c.step = "save"
  BY <1>1, <1>2, <1>3, PanelFields DEF NoCall, Call
<1>6. Made(c)
  BY <1>5, NoCallStands DEF Made
<1> HIDE DEF c
<1>7. /\ y \in PanelState /\ y.project = old.project /\ y.seq = old.seq
      /\ y.call["switch"] = c /\ ~Made(y.call["new"])
  BY <1>2, <1>3, <1>5, CallReplaced DEF By
<1> HIDE DEF y
<1>8. /\ x \in PanelState /\ x.timer = None /\ x.switching /\ x.seq = old.seq /\ x.project = old.project
      /\ x.call["switch"] = c /\ ~Made(x.call["new"])
  BY <1>7 DEF PanelState
<1> HIDE DEF x
<1>9. Orderly(x, taken', active', root')
  BY <1>1, <1>3, <1>5, <1>6, <1>8 DEF Orderly, By
<1>10. panel' = [panel EXCEPT ![p] = x]
  BY <1>4 DEF Put
<1>11. ~Moving(old)
  BY <1>3, NoCallStands DEF Moving, Made
<1>12. SwitchInv'
  BY <1>1, <1>2, <1>3, <1>8, <1>9, <1>10, <1>11, OnePanel
<1>13. panel'[p] = x
  BY <1>2, <1>10
<1> QED
  BY <1>6, <1>8, <1>12, <1>13 DEF Quiet, By

\* A call goes on with another step.
LEMMA CallGoes ==
  ASSUME SwitchAssumption, SwitchInv, NEW p \in Panel, NEW b \in By, NEW c \in Call,
         Made(panel[p].call[b]), Put(p, WithCall(panel[p], b, c)),
         c.project = panel[p].call[b].project, c.seq = panel[p].call[b].seq,
         c.stale = panel[p].call[b].stale, c.step # "none",
         c.step = "refused" => c.seq < taken',
         c.step \in {"find", "root", "answered"} => active' = c.project,
         c.step = "answered" => root' = c.project,
         taken' \in 0 .. MaxSeq,
         \/ c.step \in {"find", "root"}
         \/ root' = active'
         \/ panel[p].call[b].step \notin {"find", "root"} /\ UNCHANGED <<active, root>>
  PROVE  SwitchInv' /\ ~Quiet(panel'[p])
<1> DEFINE old == panel[p]
           x == WithCall(old, b, c)
<1>1. /\ old \in PanelState /\ panel \in [Panel -> PanelState] /\ Orderly(old, taken, active, root)
      /\ ~Quiet(old) => \A q \in Panel \ {p} : Quiet(panel[q])
  BY Fields
<1>2. /\ \A q \in Panel \ {p} : Quiet(panel[q])
      /\ old.timer = None /\ \A d \in By : d # b => ~Made(old.call[d])
  BY <1>1 DEF Quiet, Orderly
<1>3. Made(c)
  BY NoCallStands DEF Made
<1>4. /\ x \in PanelState /\ x.timer = None /\ x.call[b] = c /\ x.project = old.project /\ x.seq = old.seq
      /\ x.switching = old.switching /\ \A d \in By : d # b => x.call[d] = old.call[d]
  BY <1>1, <1>2, CallReplaced
<1>5. panel' = [panel EXCEPT ![p] = x]
  BY DEF Put
<1> HIDE DEF x
<1>6. Orderly(x, taken', active', root')
  <2>1. x.switching <=> Made(x.call["switch"])
    BY <1>1, <1>2, <1>3, <1>4 DEF Orderly, By
  <2>2. \A d, e \in By : Made(x.call[d]) /\ Made(x.call[e]) => d = e
    BY <1>2, <1>4
  <2>3. /\ c.project = x.project /\ c.project # None /\ c.seq = x.seq /\ ~c.stale
    BY <1>1, <1>4 DEF Orderly
  <2>4. \A d \in By : Made(x.call[d]) => d = b /\ x.call[d] = c
    BY <1>2, <1>4
  <2> QED
    BY <1>4, <2>1, <2>2, <2>3, <2>4 DEF Orderly
<1>7. ~Moving(x) => root' = active' \/ (~Moving(old) /\ UNCHANGED <<active, root>>)
  <2>1. \A d \in By : d # b => old.call[d].step = "none"
    BY <1>2, NoCallStands DEF Made
  <2> QED
    BY <1>4, <2>1 DEF Moving
<1>8. SwitchInv'
  BY <1>2, <1>4, <1>5, <1>6, <1>7, OnePanel
<1>9. panel'[p] = x
  BY <1>1, <1>5
<1> QED
  BY <1>3, <1>4, <1>8, <1>9 DEF Quiet

\* What a call may be, and what it has done to the backend.
LEMMA CallOf ==
  ASSUME SwitchInv, NEW p \in Panel, NEW b \in By, NEW c, c = panel[p].call[b], c.step # "none"
  PROVE  /\ c \in Call /\ Made(c) /\ ~c.stale /\ c.seq \in 0 .. MaxSeq
         /\ taken \in 0 .. MaxSeq
         /\ c.step = "refused" => c.seq < taken
         /\ c.step \in {"find", "root", "answered"} => active = c.project
         /\ c.step = "answered" => root = c.project
<1>1. /\ panel[p] \in PanelState /\ Orderly(panel[p], taken, active, root) /\ taken \in 0 .. MaxSeq
      /\ c \in Call
  BY Fields, PanelFields
<1>2. Made(c)
  BY NoCallStands DEF Made
<1>3. /\ ~c.stale /\ (c.step = "refused" => c.seq < taken)
      /\ c.step \in {"find", "root", "answered"} => active = c.project
      /\ c.step = "answered" => root = c.project
  BY <1>1, <1>2 DEF Orderly
<1>4. c.seq \in 0 .. MaxSeq
  BY <1>1 DEF Call
<1> QED
  BY <1>1, <1>2, <1>3, <1>4

LEMMA CallSteps ==
  ASSUME NEW c \in Call,
         NEW s \in {"ask", "refused", "store", "activate", "find", "root", "answered"},
         NEW e, e = [c EXCEPT !.step = s]
  PROVE  /\ e \in Call /\ e.step = s /\ e.project = c.project /\ e.seq = c.seq /\ e.stale = c.stale
BY DEF Call

\* The steps of a call before its answer.
LEMMA StepKeeps ==
  ASSUME SwitchAssumption, SwitchInv, NEW p \in Panel, NEW b \in By,
         \/ Compare(p, b) \/ Store(p, b) \/ Activate(p, b) \/ Find(p, b) \/ SetRoot(p, b)
         \/ b = "switch" /\ Ask(p)
  PROVE  SwitchInv' /\ ~Quiet(panel'[p])
<1> DEFINE c == panel[p].call[b]
<1> USE DEF Backend, Step
<1>1. c.step # "none"
  BY DEF Compare, Store, Activate, Find, SetRoot, Ask
<1>2. /\ c \in Call /\ Made(c) /\ ~c.stale /\ c.seq \in 0 .. MaxSeq /\ taken \in 0 .. MaxSeq
      /\ c.step \in {"find", "root", "answered"} => active = c.project
  BY <1>1, CallOf
<1>3. CASE Compare(p, b)
  <2> DEFINE s == IF c.seq < taken THEN "refused" ELSE "store"
             e == [c EXCEPT !.step = s]
  <2>1. Put(p, WithCall(panel[p], b, e)) /\ c.step = "ask" /\ UNCHANGED <<taken, active, root>>
    BY <1>3 DEF Compare
  <2>2. s \in {"refused", "store"} /\ (s = "refused" => c.seq < taken)
    OBVIOUS
  <2> HIDE DEF s
  <2>3. e \in Call /\ e.step = s /\ e.project = c.project /\ e.seq = c.seq /\ e.stale = c.stale
    BY <1>2, <2>2, CallSteps
  <2> HIDE DEF e
  <2> QED
    BY <1>2, <2>1, <2>2, <2>3, CallGoes
<1>4. CASE Store(p, b)
  <2> DEFINE e == [c EXCEPT !.step = "activate"]
  <2>1. Put(p, WithCall(panel[p], b, e)) /\ c.step = "store" /\ taken' = c.seq /\ UNCHANGED <<active, root>>
    BY <1>1, <1>2, <1>4 DEF Store
  <2>2. e \in Call /\ e.step = "activate" /\ e.project = c.project /\ e.seq = c.seq /\ e.stale = c.stale
    BY <1>2, CallSteps
  <2> HIDE DEF e
  <2> QED
    BY <1>2, <2>1, <2>2, CallGoes
<1>5. CASE Activate(p, b)
  <2> DEFINE e == [c EXCEPT !.step = "find"]
  <2>1. Put(p, WithCall(panel[p], b, e)) /\ active' = c.project /\ UNCHANGED <<taken, root>>
    BY <1>1, <1>2, <1>5 DEF Activate
  <2>2. e \in Call /\ e.step = "find" /\ e.project = c.project /\ e.seq = c.seq /\ e.stale = c.stale
    BY <1>2, CallSteps
  <2> HIDE DEF e
  <2> QED
    BY <1>2, <2>1, <2>2, CallGoes
<1>6. CASE Find(p, b)
  <2> DEFINE i == c.project \notin DOMAIN registry
             e == [c EXCEPT !.step = "root", !.isNew = i]
  <2>1. Put(p, WithCall(panel[p], b, e)) /\ c.step = "find" /\ UNCHANGED <<taken, active, root>>
    BY <1>6 DEF Find
  <2>2. i \in BOOLEAN
    OBVIOUS
  <2> HIDE DEF i
  <2>3. e \in Call /\ e.step = "root" /\ e.project = c.project /\ e.seq = c.seq /\ e.stale = c.stale
    BY <1>2, <2>2 DEF Call
  <2> HIDE DEF e
  <2> QED
    BY <1>2, <2>1, <2>3, CallGoes
<1>7. CASE SetRoot(p, b)
  <2> DEFINE e == [c EXCEPT !.step = "answered"]
  <2>1. Put(p, WithCall(panel[p], b, e)) /\ c.step = "root" /\ root' = c.project /\ UNCHANGED <<taken, active>>
    BY <1>1, <1>2, <1>7 DEF SetRoot
  <2>2. e \in Call /\ e.step = "answered" /\ e.project = c.project /\ e.seq = c.seq /\ e.stale = c.stale
    BY <1>2, CallSteps
  <2> HIDE DEF e
  <2> QED
    BY <1>2, <2>1, <2>2, CallGoes
<1>8. CASE b = "switch" /\ Ask(p)
  <2> DEFINE e == [c EXCEPT !.step = "ask"]
  <2>1. Put(p, WithCall(panel[p], b, e)) /\ c.step = "save" /\ UNCHANGED <<taken, active, root>>
    BY <1>1, <1>2, <1>8 DEF Ask
  <2>2. e \in Call /\ e.step = "ask" /\ e.project = c.project /\ e.seq = c.seq /\ e.stale = c.stale
    BY <1>2, CallSteps
  <2> HIDE DEF e
  <2> QED
    BY <1>2, <2>1, <2>2, CallGoes
<1> QED
  BY <1>3, <1>4, <1>5, <1>6, <1>7, <1>8

\* The answer ends the call, and a panel that is closed leaves nothing behind.
LEMMA AnswerKeeps ==
  ASSUME SwitchAssumption, SwitchInv, NEW p \in Panel, NEW b \in By, Answer(p, b)
  PROVE  /\ SwitchInv' /\ Quiet(panel'[p]) /\ UNCHANGED <<taken, active, root>>
         /\ panel'[p].project = panel[p].project /\ panel'[p].seq = panel[p].seq
         /\ panel[p].seq = taken =>
              /\ active = panel[p].project /\ root = panel[p].project
              /\ panel'[p].chat \in {None, panel[p].project}
<1> DEFINE old == panel[p]
           c == old.call[b]
           y == WithCall(old, b, NoCall)
           s == IF b = "switch" THEN FALSE ELSE y.switching
<1>1. c.step \in {"answered", "refused"} /\ UNCHANGED <<taken, active, root>>
  BY DEF Answer, Backend
<1>2. /\ Made(c) /\ ~c.stale /\ c \in Call
      /\ c.step = "refused" => c.seq < taken
      /\ c.step = "answered" => active = c.project /\ root = c.project
      /\ c.seq \in 0 .. MaxSeq /\ taken \in 0 .. MaxSeq
  BY <1>1, CallOf
<1>3. /\ old \in PanelState /\ panel \in [Panel -> PanelState] /\ Orderly(old, taken, active, root)
      /\ ~Quiet(old) => \A q \in Panel \ {p} : Quiet(panel[q])
  BY Fields
<1>4. /\ \A q \in Panel \ {p} : Quiet(panel[q])
      /\ old.timer = None /\ \A d \in By : d # b => ~Made(old.call[d])
      /\ c.project = old.project /\ c.seq = old.seq /\ c.project # None
  BY <1>2, <1>3 DEF Quiet, Orderly
<1>5. /\ y \in PanelState /\ y.timer = None /\ y.call[b] = NoCall
      /\ \A d \in By : d # b => y.call[d] = old.call[d]
      /\ y.project = old.project /\ y.seq = old.seq /\ y.switching = old.switching
  BY <1>3, <1>4, CallReplaced, NoCallTyped
<1>6. PICK chat \in IF c.step = "answered" THEN {None, c.project} ELSE {old.chat} :
        Put(p, [y EXCEPT !.chat = chat, !.switching = s])
  <2>1. PICK chat \in IF ~(c.step = "answered" /\ ~c.stale) THEN {old.chat}
                      ELSE IF b = "new" THEN {None} ELSE {None, c.project} :
          Put(p, [y EXCEPT !.chat = chat, !.switching = IF b = "switch" THEN FALSE ELSE @])
    BY DEF Answer
  <2>2. [y EXCEPT !.chat = chat, !.switching = IF b = "switch" THEN FALSE ELSE @]
          = [y EXCEPT !.chat = chat, !.switching = s]
    BY <1>5 DEF PanelState
  <2> HIDE DEF y, s, c
  <2>3. chat \in IF c.step = "answered" THEN {None, c.project} ELSE {old.chat}
    BY <1>2, <2>1
  <2> QED
    BY <2>1, <2>2, <2>3
<1> DEFINE x == [y EXCEPT !.chat = chat, !.switching = s]
<1>7. s \in BOOLEAN /\ ~s
  <2>1. CASE b = "switch"
    BY <2>1
  <2>2. CASE b = "new"
    <3>1. s = old.switching /\ old.switching \in BOOLEAN
      BY <1>3, <1>5, <2>2, PanelFields
    <3>2. old.switching <=> Made(old.call["switch"])
      BY <1>3 DEF Orderly
    <3>3. ~Made(old.call["switch"])
      BY <1>4, <2>2 DEF By
    <3> QED
      BY <3>1, <3>2, <3>3
  <2> QED
    BY <2>1, <2>2 DEF By
<1>8. chat \in Project \cup {None}
  BY <1>2, <1>3, <1>6, PanelFields DEF Call
<1>9. \A d \in By : ~Made(y.call[d])
  BY <1>4, <1>5, NoCallStands
<1> HIDE DEF y, s
<1>10. /\ x \in PanelState /\ x.timer = None /\ ~x.switching /\ x.chat = chat
       /\ x.project = old.project /\ x.seq = old.seq /\ \A d \in By : ~Made(x.call[d])
  BY <1>5, <1>7, <1>8, <1>9 DEF PanelState
<1>11. panel' = [panel EXCEPT ![p] = x]
  BY <1>6 DEF Put
<1> HIDE DEF x
<1>12. Orderly(x, taken', active', root') /\ Quiet(x)
  BY <1>10 DEF Orderly, Quiet, By
<1>13. ~Moving(old)
  <2>1. \A d \in By : d # b => old.call[d].step = "none"
    BY <1>4, NoCallStands DEF Made
  <2> QED
    BY <1>1, <2>1 DEF Moving
<1>14. SwitchInv'
  BY <1>1, <1>2, <1>4, <1>10, <1>11, <1>12, <1>13, OnePanel
<1>15. panel'[p] = x
  BY <1>3, <1>11
<1>16. old.seq = taken => c.step = "answered"
  BY <1>1, <1>2, <1>4
<1> QED
  BY <1>1, <1>2, <1>4, <1>6, <1>10, <1>12, <1>14, <1>15, <1>16

LEMMA RemountKeeps ==
  ASSUME SwitchAssumption, SwitchInv, NEW p \in Panel, Remount(p)
  PROVE  SwitchInv' /\ panel'[p] = Fresh /\ (\A q \in Panel \ {p} : panel'[q] = panel[q])
         /\ UNCHANGED <<taken, active, root>>
<1>1. /\ panel' = [panel EXCEPT ![p] = Fresh] /\ UNCHANGED <<taken, active, root>>
      /\ \A b \in By : panel[p].call[b] = NoCall
  BY DEF Remount, Put, Backend
<1>2. ~Moving(panel[p])
  BY <1>1, NoCallStands DEF Moving
<1>3. SwitchInv'
  BY <1>1, <1>2, Fields, FreshTyped, OnePanel
<1> QED
  BY <1>1, <1>3, Fields

----------------------------------------------------------------------------
(* The theorems.                                                           *)

\* A step of the harness or of the user, by whether something is under way after it.
LEMMA SwitchSteps ==
  ASSUME SwitchAssumption, SwitchInv, Patient, [Next]_switchVars
  PROVE  /\ SwitchInv'
         /\ \/ \E p \in Panel : ~Quiet(panel'[p])
            \/ \E p \in Panel, b \in By : Answer(p, b)
            \/ \E p \in Panel : Remount(p)
            \/ UNCHANGED <<panel, taken, active, root>>
<1>1. CASE UNCHANGED switchVars \/ Tick
  BY <1>1 DEF switchVars, Tick, SwitchInv, Quiet, Moving
<1>2. ASSUME NEW p \in Panel, NEW j \in Project, Select(p, j)
      PROVE  SwitchInv' /\ ~Quiet(panel'[p])
  BY <1>2, SelectKeeps
<1>3. ASSUME NEW p \in Panel, Ask(p)
      PROVE  SwitchInv' /\ ~Quiet(panel'[p])
  BY <1>3, StepKeeps DEF By
<1>4. ASSUME NEW p \in Panel, NEW b \in By, Serve(p, b)
      PROVE  SwitchInv' /\ (Answer(p, b) \/ ~Quiet(panel'[p]))
  BY <1>4, StepKeeps, AnswerKeeps DEF Serve
<1>5. ASSUME NEW p \in Panel, NewChat(p) \/ Fire(p)
      PROVE  SwitchInv' /\ ~Quiet(panel'[p])
  BY <1>5, NewChatKeeps, FireKeeps
<1>6. ASSUME NEW p \in Panel, Remount(p)
      PROVE  SwitchInv'
  BY <1>6, RemountKeeps
<1> QED
  BY <1>1, <1>2, <1>3, <1>4, <1>5, <1>6 DEF Next

LEMMA SwitchStart ==
  ASSUME SwitchAssumption, Init
  PROVE  SwitchInv /\ TakenIsSwitched
<1>1. /\ panel \in [Panel -> PanelState] /\ \A p \in Panel : panel[p] = Fresh
      /\ taken = 0 /\ root = active
  BY FreshTyped DEF Init
<1>2. taken \in 0 .. MaxSeq
  <2>1. MaxSeq \in Nat
    BY DEF SwitchAssumption
  <2> QED
    BY <1>1, <2>1
<1>3. SwitchInv
  BY <1>1, <1>2, FreshTyped DEF SwitchInv
<1> QED
  BY <1>1, <1>3, FreshTyped DEF TakenIsSwitched

\* For a user who waits, the project of the agent and its directory are of one switch
\* whenever nothing is under way: with any number of panels, and whether the numbers
\* were taken or refused (agent.rs:2110-2217).
THEOREM RootFollows ==
  ASSUME SwitchAssumption, Patient
  PROVE  Spec => []RootFollowsActive
<1>1. Init => SwitchInv
  BY SwitchStart
<1>2. SwitchInv /\ [Next]_switchVars => SwitchInv'
  BY SwitchSteps
<1>3. SwitchInv => RootFollowsActive
  <2> SUFFICES ASSUME SwitchInv, Settled
               PROVE  root = active
    BY DEF RootFollowsActive
  <2>1. \A p \in Panel : Quiet(panel[p])
    BY DEF Settled, Quiet, Made
  <2> QED
    BY <2>1, QuietStands DEF SwitchInv
<1> QED
  BY <1>1, <1>2, <1>3, PTL DEF Spec

\* With one panel, a switch whose number was the last one taken has left the agent, its
\* directory and the messages shown with the project of the panel (agent.rs:2110-2217,
\* AiAgent.tsx:973-1055).
THEOREM Switches ==
  ASSUME SwitchAssumption, Patient, NEW q, Panel = {q}
  PROVE  Spec => []TakenIsSwitched
<1>1. Init => SwitchInv /\ TakenIsSwitched
  BY SwitchStart
<1>2. ASSUME SwitchInv, TakenIsSwitched, [Next]_switchVars
      PROVE  SwitchInv' /\ TakenIsSwitched'
  <2>1. SwitchInv'
    BY <1>2, SwitchSteps
  <2>2. CASE \E p \in Panel : ~Quiet(panel'[p])
    <3>1. ~Settled'
      BY <2>2 DEF Settled, Quiet, Made
    <3> QED
      BY <2>1, <3>1 DEF TakenIsSwitched
  <2>3. ASSUME NEW p \in Panel, NEW b \in By, Answer(p, b)
        PROVE  TakenIsSwitched'
    BY <1>2, <2>3, AnswerKeeps DEF TakenIsSwitched, Switched
  <2>4. ASSUME NEW p \in Panel, Remount(p)
        PROVE  TakenIsSwitched'
    BY <1>2, <2>4, RemountKeeps, FreshTyped DEF TakenIsSwitched
  <2>5. CASE UNCHANGED <<panel, taken, active, root>>
    BY <1>2, <2>1, <2>5 DEF TakenIsSwitched, Settled, Switched
  <2> QED
    BY <1>2, <2>1, <2>2, <2>3, <2>4, <2>5, SwitchSteps
<1> QED
  BY <1>1, <1>2, PTL DEF Spec
=============================================================================
