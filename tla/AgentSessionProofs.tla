------------------------- MODULE AgentSessionProofs -------------------------
(***************************************************************************)
(* What holds of the agent's session for every bound and every user: the   *)
(* types, that a session comes back from the command that took it, and     *)
(* that a message never sets off calls that were pending before it.        *)
(***************************************************************************)
EXTENDS AgentSession, SequenceTheorems, WellFoundedInduction, FiniteSetTheorems, TLAPS

----------------------------------------------------------------------------
(* What compaction does to a history, of any size and for any limit: it    *)
(* keeps every tool result behind the message that asked for it.           *)

\* A set of numbers that is not empty has a smallest element.
LEMMA SmallestExists ==
  ASSUME NEW S, S \subseteq Nat, S # {}
  PROVE  \E i \in S : \A j \in S : i <= j
<1> DEFINE Less == {p \in Nat \X Nat : p[1] < p[2]}
<1>1. IsWellFoundedOn(Less, Nat)
  BY NatLessThanWellFounded DEF OpToRel
<1>2. PICK i \in S : \A j \in S : ~ <<j, i>> \in Less
  <2> HIDE DEF Less
  <2> QED
    BY <1>1, WFMin
<1>3. \A j \in S : ~ j < i
  BY <1>2
<1> QED
  BY <1>3

\* The choice that stands for the smallest element is one.
LEMMA FirstIsSmallest ==
  ASSUME NEW S, S \subseteq Nat, S # {}
  PROVE  First(S) \in S /\ \A j \in S : First(S) <= j
BY SmallestExists DEF First

\* A bounded set of numbers that is not empty has a largest element.
LEMMA LastIsLargest ==
  ASSUME NEW n \in Nat, NEW S, S \subseteq 1..n, S # {}
  PROVE  Last(S) \in S /\ \A j \in S : j <= Last(S)
<1> DEFINE Down == {n - i : i \in S}
<1>1. PICK d \in Down : \A e \in Down : d <= e
  <2>1. Down \subseteq Nat /\ Down # {}
    OBVIOUS
  <2> HIDE DEF Down
  <2> QED
    BY <2>1, SmallestExists
<1>2. PICK i \in S : d = n - i
  OBVIOUS
<1>3. \A j \in S : j <= i
  <2> TAKE j \in S
  <2>1. n - j \in Down
    OBVIOUS
  <2> QED
    BY <2>1, <1>1, <1>2
<1> QED
  BY <1>3 DEF Last

\* The tail that a compaction keeps starts at a position of the history, and it starts
\* with a tool result only if it is the whole history.
LEMMA CutIsClean ==
  ASSUME NEW h \in Seq(Message), h # <<>>, NEW max \in Nat
  PROVE  Cut(h, max) \in DOMAIN h /\ (Cut(h, max) = 1 \/ h[Cut(h, max)].role # "tool")
<1> DEFINE S == {1} \cup {i \in DOMAIN h : i <= Len(h) - (max - 2) + 1 /\ h[i].role # "tool"}
<1>1. Len(h) \in Nat /\ DOMAIN h = 1..Len(h) /\ 1 \in DOMAIN h
  OBVIOUS
<1>2. S \subseteq 1..Len(h) /\ S # {}
  BY <1>1
<1>3. Last(S) \in S
  <2> HIDE DEF S
  <2> QED
    BY <1>1, <1>2, LastIsLargest
<1>4. Cut(h, max) = Last(S)
  BY DEF Cut
<1> QED
  BY <1>1, <1>2, <1>3, <1>4

\* What is put before the tail is at most the first user message.
LEMMA AnchorIsUser ==
  ASSUME NEW h \in Seq(Message), NEW cut \in DOMAIN h
  PROVE  \/ Anchor(h, cut) = <<>>
         \/ \E i \in DOMAIN h : h[i].role = "user" /\ Anchor(h, cut) = <<h[i]>>
<1> DEFINE users == {i \in DOMAIN h : h[i].role = "user"}
<1>1. CASE users = {}
  BY <1>1 DEF Anchor
<1>2. CASE users # {}
  <2>1. First(users) \in users
    <3>1. users \subseteq Nat
      OBVIOUS
    <3> HIDE DEF users
    <3> QED
      BY <3>1, <1>2, FirstIsSmallest
  <2> QED
    BY <2>1 DEF Anchor
<1> QED
  BY <1>1, <1>2

\* Of len messages those from cut on move behind f others: j goes to w, m goes to i,
\* and what lies between them still does.
Moved(cut, f, len, i, j, m, w) ==
  /\ w \in 1..(i - 1) /\ w \in 1..(f + len - cut + 1) /\ w > f /\ cut + w - f - 1 = j
  /\ \A k \in (w + 1)..(i - 1) :
       k \in 1..(f + len - cut + 1) /\ k > f /\ cut + k - f - 1 \in (j + 1)..(m - 1)

LEMMA Shifted ==
  ASSUME NEW cut \in Int, NEW f \in Nat, NEW len \in Int, NEW i \in Int, NEW j \in Int, NEW m, NEW w,
         i <= f + len - cut + 1, m = cut + i - f - 1, j >= cut, j <= m - 1, w = j - cut + 1 + f
  PROVE  Moved(cut, f, len, i, j, m, w)
BY DEF Moved

\* Putting messages that are no results before a clean tail keeps a history well paired.
LEMMA CleanTailIsPaired ==
  ASSUME NEW h \in Seq(Message), WellPaired(h),
         NEW cut \in DOMAIN h, cut = 1 \/ h[cut].role # "tool",
         NEW front \in Seq(Message), \A k \in DOMAIN front : front[k].role # "tool"
  PROVE  WellPaired(front \o SubSeq(h, cut, Len(h)))
<1> DEFINE f == Len(front)
           g == front \o SubSeq(h, cut, Len(h))
<1>1. /\ f \in Nat /\ Len(h) \in Nat /\ cut \in 1..Len(h)
      /\ DOMAIN h = 1..Len(h) /\ DOMAIN front = 1..f
  OBVIOUS
<1>2. /\ DOMAIN g = 1..(f + Len(h) - cut + 1)
      /\ \A i \in 1..f : g[i] = front[i]
      /\ \A i \in DOMAIN g : i > f => g[i] = h[cut + i - f - 1]
  <2> DEFINE tail == SubSeq(h, cut, Len(h))
  <2>1. /\ tail \in Seq(Message) /\ Len(tail) = Len(h) - cut + 1
        /\ \A k \in 1..(Len(h) - cut + 1) : tail[k] = h[cut + k - 1]
    BY <1>1
  <2> HIDE DEF tail
  <2>2. /\ front \o tail \in Seq(Message) /\ Len(front \o tail) = f + Len(tail)
        /\ \A i \in 1..(f + Len(tail)) :
             (front \o tail)[i] = IF i <= f THEN front[i] ELSE tail[i - f]
    <3>1. f = Len(front)
      OBVIOUS
    <3> HIDE DEF f
    <3> QED
      BY <2>1, <3>1, ConcatProperties
  <2>3. g = front \o tail
    BY DEF tail
  <2> HIDE DEF g, f
  <2>4. ASSUME NEW i \in DOMAIN g, i > f
        PROVE  g[i] = h[cut + i - f - 1]
    <3>1. i \in 1..(f + Len(tail)) /\ i \in Int
      BY <1>1, <2>1, <2>2, <2>3
    <3>2. g[i] = tail[i - f]
      BY <1>1, <2>2, <2>3, <2>4, <3>1
    <3>3. i - f \in 1..(Len(h) - cut + 1)
      BY <1>1, <2>1, <2>4, <3>1
    <3>4. tail[i - f] = h[cut + (i - f) - 1]
      BY <2>1, <3>3
    <3>5. cut + (i - f) - 1 = cut + i - f - 1
      BY <1>1, <3>1
    <3> QED
      BY <3>2, <3>4, <3>5
  <2> QED
    BY <1>1, <2>1, <2>2, <2>3, <2>4
<1> SUFFICES ASSUME NEW i \in DOMAIN g, g[i].role = "tool"
             PROVE  Belongs(g, i)
  BY DEF WellPaired
<1> DEFINE m == cut + i - f - 1
<1> HIDE DEF g, f
<1>3. i \in Int /\ i > f /\ i <= f + Len(h) - cut + 1
  <2>1. i \in 1..(f + Len(h) - cut + 1)
    BY <1>2
  <2>2. i \notin DOMAIN front
    BY <1>1, <1>2
  <2> QED
    BY <1>1, <2>1, <2>2
<1>4. m \in DOMAIN h /\ m >= cut /\ g[i] = h[m]
  BY <1>1, <1>2, <1>3
<1>5. PICK j \in 1..(m - 1) :
        /\ IsCalls(h[j])
        /\ h[m].calls[1] \in {h[j].calls[k] : k \in DOMAIN h[j].calls}
        /\ \A k \in (j + 1)..(m - 1) : h[k].role = "tool"
  BY <1>4 DEF WellPaired, Belongs
<1>6. j >= cut
  <2> SUFFICES ASSUME j < cut PROVE FALSE
    BY <1>1
  <2>1. h[cut].role # "tool"
    BY <1>1
  <2>2. m # cut
    BY <2>1, <1>4
  <2>3. cut \in (j + 1)..(m - 1)
    BY <2>2, <1>1, <1>4
  <2> QED
    BY <2>1, <2>3, <1>5
<1>7. PICK w : w = j - cut + 1 + f
  OBVIOUS
<1>8. /\ cut \in Int /\ f \in Nat /\ Len(h) \in Int /\ j \in Int /\ j <= m - 1
      /\ m = cut + i - f - 1
  BY <1>1, <1>3
<1> HIDE DEF m
<1>9. Moved(cut, f, Len(h), i, j, m, w)
  BY <1>3, <1>6, <1>7, <1>8, Shifted
<1>10. w \in 1..(i - 1) /\ w \in DOMAIN g /\ g[w] = h[j]
  BY <1>2, <1>9 DEF Moved
<1>11. ASSUME NEW k \in (w + 1)..(i - 1)
       PROVE  g[k].role = "tool"
  <2>1. k \in DOMAIN g /\ g[k] = h[cut + k - f - 1] /\ cut + k - f - 1 \in (j + 1)..(m - 1)
    BY <1>2, <1>9 DEF Moved
  <2> QED
    BY <1>5, <2>1
<1> QED
  BY <1>4, <1>5, <1>10, <1>11 DEF Belongs

\* compact_history keeps a history well paired, whatever its length and the limit.
THEOREM CompactKeepsPairs ==
  ASSUME NEW h \in Seq(Message), WellPaired(h), NEW max \in Nat
  PROVE  WellPaired(Compact(h, max)) /\ Compact(h, max) \in Seq(Message)
<1>1. CASE Len(h) <= max
  BY <1>1 DEF Compact
<1>2. CASE ~ Len(h) <= max
  <2> DEFINE cut == Cut(h, max)
             front == Anchor(h, cut) \o (IF cut > 1 THEN <<Notice>> ELSE <<>>)
  <2>1. h # <<>>
    BY <1>2
  <2>2. cut \in DOMAIN h /\ (cut = 1 \/ h[cut].role # "tool")
    BY <2>1, CutIsClean
  <2> HIDE DEF cut
  <2>3. Anchor(h, cut) \in Seq(Message)
        /\ \A k \in DOMAIN Anchor(h, cut) : Anchor(h, cut)[k].role # "tool"
    <3>1. CASE Anchor(h, cut) = <<>>
      BY <3>1
    <3>2. ASSUME NEW i \in DOMAIN h, h[i].role = "user", Anchor(h, cut) = <<h[i]>>
          PROVE  <2>3!1 /\ <2>3!2
      BY <3>2
    <3> QED
      BY <2>2, <3>1, <3>2, AnchorIsUser
  <2>4. Notice \in Message /\ Notice.role # "tool"
    BY DEF Notice, Message
  <2>5. front \in Seq(Message) /\ \A k \in DOMAIN front : front[k].role # "tool"
    BY <2>3, <2>4
  <2>6. Compact(h, max) = front \o SubSeq(h, cut, Len(h))
    BY <1>2 DEF Compact, cut
  <2>7. SubSeq(h, cut, Len(h)) \in Seq(Message)
    BY <2>2
  <2> HIDE DEF front
  <2> QED
    BY <2>2, <2>5, <2>6, <2>7, CleanTailIsPaired
<1> QED
  BY <1>1, <1>2

\* The same for what a Thinking tick does.
COROLLARY CompactedKeepsPairs ==
  ASSUME NEW h \in Seq(Message), WellPaired(h)
  PROVE  WellPaired(Compacted(h)) /\ Compacted(h) \in Seq(Message)
BY CompactKeepsPairs, HistoryAssumption DEF Compacted

----------------------------------------------------------------------------
(* Sessions and requests.                                                  *)

\* The bounds are numbers, and a batch may have a call.
LEMMA Bounds ==
  /\ MaxCommands \in Nat /\ MaxBatch \in Nat /\ MaxIterations \in Nat /\ MaxCancels \in Nat
  /\ MaxOpens \in Nat /\ MaxSaves \in Nat /\ MaxCalls \in Nat /\ MaxBatch > 0
BY SessionAssumption, HistoryAssumption

States == {"Idle", "Thinking", "AwaitingApproval", "ExecutingTool", "Finished", "Error"}

\* The fields of a session.
LEMMA SessionFields ==
  ASSUME NEW s \in Session
  PROVE  /\ s.id \in Ids /\ s.history \in Seq(Message) /\ s.pending \in Seq(Calls)
         /\ s.iteration \in 0..MaxIterations /\ s.spent \in BOOLEAN /\ s.state \in States
         /\ s # None
BY NoneAssumption DEF Session, States

\* A session can change its history and its state.
LEMMA SessionMoves ==
  ASSUME NEW s \in Session, NEW h \in Seq(Message), NEW x \in States,
         NEW p \in Seq(Calls)
  PROVE  /\ [s EXCEPT !.state = x] \in Session
         /\ [s EXCEPT !.history = h] \in Session
         /\ [s EXCEPT !.spent = TRUE] \in Session
         /\ [s EXCEPT !.state = x, !.history = h] \in Session
         /\ [s EXCEPT !.state = x, !.pending = p] \in Session
         /\ [s EXCEPT !.state = x, !.pending = p, !.history = h] \in Session
         /\ [s EXCEPT !.history = h, !.pending = p, !.state = x] \in Session
BY DEF Session, States

\* A session without pending calls that does not wait for any.
LEMMA Emptied ==
  ASSUME NEW s \in Session, NEW x \in States \ {"AwaitingApproval"}, NEW h \in Seq(Message)
  PROVE  /\ [s EXCEPT !.state = x, !.pending = <<>>] \in Session
         /\ Sound([s EXCEPT !.state = x, !.pending = <<>>])
         /\ [s EXCEPT !.state = x, !.pending = <<>>, !.history = h] \in Session
         /\ Sound([s EXCEPT !.state = x, !.pending = <<>>, !.history = h])
<1>1. <<>> \in Seq(Calls) /\ x \in States
  OBVIOUS
<1>2. /\ [s EXCEPT !.state = x, !.pending = <<>>] \in Session
      /\ [s EXCEPT !.state = x, !.pending = <<>>, !.history = h] \in Session
  BY <1>1, SessionMoves
<1>3. /\ [s EXCEPT !.state = x, !.pending = <<>>].pending = <<>>
      /\ [s EXCEPT !.state = x, !.pending = <<>>].state = x
      /\ [s EXCEPT !.state = x, !.pending = <<>>, !.history = h].pending = <<>>
      /\ [s EXCEPT !.state = x, !.pending = <<>>, !.history = h].state = x
  BY DEF Session
<1>4. Len(<<>>) <= MaxBatch
  BY Bounds
<1> QED
  BY <1>2, <1>3, <1>4 DEF Sound, Awaiting

\* The messages that the harness makes.
LEMMA Messages ==
  /\ User \in Message /\ Text \in Message /\ Notice \in Message
  /\ \A c \in Calls : Result(c) \in Message
  /\ \A calls \in Seq(Calls) : Asks(calls) \in Message
BY DEF Message, User, Text, Notice, Result, Asks

\* The calls of a message, and those of the last message that has any.
LEMMA LastCallsTyped ==
  ASSUME NEW h \in Seq(Message)
  PROVE  LastCalls(h) \in Seq(Calls)
<1> DEFINE asks == {i \in DOMAIN h : IsCalls(h[i])}
<1>1. CASE asks = {}
  BY <1>1 DEF LastCalls
<1>2. CASE asks # {}
  <2>1. Last(asks) \in DOMAIN h
    <3>1. asks \subseteq 1..Len(h) /\ Len(h) \in Nat
      OBVIOUS
    <3>2. asks \subseteq DOMAIN h
      OBVIOUS
    <3> HIDE DEF asks
    <3> QED
      BY <3>1, <3>2, <1>2, LastIsLargest
  <2>2. h[Last(asks)] \in Message
    BY <2>1
  <2> QED
    BY <1>2, <2>2 DEF LastCalls, Message
<1> QED
  BY <1>1, <1>2

\* Compaction makes a history of a history.
LEMMA CompactedTyped ==
  ASSUME NEW h \in Seq(Message)
  PROVE  Compacted(h) \in Seq(Message)
<1> SUFFICES ASSUME NEW max \in Nat
             PROVE  Compact(h, max) \in Seq(Message)
  BY HistoryAssumption DEF Compacted
<1>1. CASE Len(h) <= max
  BY <1>1 DEF Compact
<1>2. CASE ~ Len(h) <= max
  <2>1. h # <<>>
    BY <1>2
  <2>2. PICK cut \in DOMAIN h : cut = Cut(h, max)
    BY <2>1, CutIsClean
  <2>3. Anchor(h, cut) \in Seq(Message) /\ SubSeq(h, cut, Len(h)) \in Seq(Message)
    <3>1. CASE Anchor(h, cut) = <<>>
      BY <2>2, <3>1
    <3>2. ASSUME NEW i \in DOMAIN h, Anchor(h, cut) = <<h[i]>>
          PROVE  Anchor(h, cut) \in Seq(Message)
      <4>1. h[i] \in Message
        OBVIOUS
      <4> QED
        BY <3>2, <4>1
    <3> QED
      BY <2>2, <3>1, <3>2, AnchorIsUser
  <2>4. (IF cut > 1 THEN <<Notice>> ELSE <<>>) \in Seq(Message)
    BY Messages
  <2> QED
    BY <1>2, <2>2, <2>3, <2>4 DEF Compact
<1> QED
  BY <1>1, <1>2

\* A sequence without one of its elements.
LEMMA WithoutOne ==
  ASSUME NEW seq \in Seq(Calls), NEW i \in DOMAIN seq
  PROVE  /\ Without(seq, i) \in Seq(Calls)
         /\ Len(Without(seq, i)) = Len(seq) - 1
         /\ \A k \in DOMAIN Without(seq, i) :
              Without(seq, i)[k] = IF k < i THEN seq[k] ELSE seq[k + 1]
<1> DEFINE front == SubSeq(seq, 1, i - 1)
           back == SubSeq(seq, i + 1, Len(seq))
<1>1. i \in 1..Len(seq) /\ Len(seq) \in Nat
  OBVIOUS
<1>2. /\ front \in Seq(Calls) /\ Len(front) = i - 1
      /\ \A k \in 1..(i - 1) : front[k] = seq[k]
  BY <1>1
<1>3. /\ back \in Seq(Calls) /\ Len(back) = Len(seq) - i
      /\ \A k \in 1..(Len(seq) - i) : back[k] = seq[i + k]
  BY <1>1
<1>4. Without(seq, i) = front \o back
  BY DEF Without
<1> HIDE DEF front, back
<1>5. /\ front \o back \in Seq(Calls) /\ Len(front \o back) = Len(seq) - 1
      /\ \A k \in 1..(Len(seq) - 1) :
           (front \o back)[k] = IF k <= i - 1 THEN front[k] ELSE back[k - (i - 1)]
  <2>1. /\ front \o back \in Seq(Calls) /\ Len(front \o back) = Len(front) + Len(back)
        /\ \A k \in 1..(Len(front) + Len(back)) :
             (front \o back)[k] = IF k <= Len(front) THEN front[k] ELSE back[k - Len(front)]
    BY <1>2, <1>3, ConcatProperties
  <2>2. Len(front) + Len(back) = Len(seq) - 1
    BY <1>1, <1>2, <1>3
  <2> QED
    BY <2>1, <2>2, <1>2
<1>6. ASSUME NEW k \in 1..(Len(seq) - 1)
      PROVE  (front \o back)[k] = IF k < i THEN seq[k] ELSE seq[k + 1]
  <2>1. CASE k < i
    <3>1. k \in 1..(i - 1) /\ k <= i - 1
      BY <2>1, <1>1
    <3> QED
      BY <2>1, <3>1, <1>2, <1>5
  <2>2. CASE ~ k < i
    <3>1. (front \o back)[k] = back[k - (i - 1)]
      <4>1. ~ k <= i - 1
        BY <2>2, <1>1
      <4> QED
        BY <4>1, <1>5
    <3>2. back[k - (i - 1)] = seq[i + (k - (i - 1))]
      BY <2>2, <1>1, <1>3
    <3>3. i + (k - (i - 1)) = k + 1
      BY <1>1
    <3> QED
      BY <2>2, <3>1, <3>2, <3>3
  <2> QED
    BY <2>1, <2>2
<1>7. DOMAIN (front \o back) = 1..(Len(seq) - 1)
  BY <1>5
<1> QED
  BY <1>4, <1>5, <1>6, <1>7

\* The session after one of its pending calls was answered.
LEMMA SettledTyped ==
  ASSUME NEW s \in Session, NEW i \in DOMAIN s.pending, Sound(s)
  PROVE  /\ Settled(s, i) \in Session /\ Sound(Settled(s, i))
         /\ Settled(s, i).pending = Without(s.pending, i)
         /\ Settled(s, i).history = Append(s.history, Result(s.pending[i]))
         /\ Settled(s, i).state = IF Without(s.pending, i) # <<>> THEN "AwaitingApproval" ELSE "Thinking"
         /\ Settled(s, i).id = s.id
<1>1. /\ s.history \in Seq(Message) /\ s.pending \in Seq(Calls)
  BY SessionFields
<1>2. /\ Without(s.pending, i) \in Seq(Calls)
      /\ Len(Without(s.pending, i)) = Len(s.pending) - 1
  BY <1>1, WithoutOne
<1>3. Append(s.history, Result(s.pending[i])) \in Seq(Message)
  BY <1>1, Messages
<1>4. Settled(s, i) \in Session
  BY <1>2, <1>3, SessionMoves DEF Settled, States
<1>5. /\ Settled(s, i).pending = Without(s.pending, i)
      /\ Settled(s, i).history = Append(s.history, Result(s.pending[i]))
      /\ Settled(s, i).state = IF Without(s.pending, i) # <<>> THEN "AwaitingApproval" ELSE "Thinking"
      /\ Settled(s, i).id = s.id
  BY DEF Settled, Session
<1>6. Sound(Settled(s, i))
  BY <1>1, <1>2, <1>5, SessionAssumption DEF Sound, Awaiting
<1> QED
  BY <1>4, <1>5, <1>6

----------------------------------------------------------------------------
(* The types, and what a command may count on.                             *)

\* At the start nothing is under way.
LEMMA SessionStart == Init => SessionInv
<1> SUFFICES ASSUME Init PROVE SessionInv
  OBVIOUS
<1>1. /\ answered \in 0..MaxCommands
      /\ left \in [cancels : 0..MaxCancels, opens : 0..MaxOpens, saves : 0..MaxSaves, shows : SUBSET (Ids \cup {None})]
  BY Bounds DEF Init
<1>2. /\ card \in [kind : {"none", "single", "batch"}, calls : Seq(Calls), clicked : SUBSET (1..MaxBatch)]
      /\ queue \in Seq(Request)
  BY DEF Init, NoCard
<1>3. TypeOK
  BY <1>1, <1>2 DEF Init, TypeOK
<1>4. Issued <= MaxCommands /\ Len(card.calls) <= MaxBatch
  BY Bounds DEF Init, Issued, InProgress, NoCard
<1> QED
  BY <1>3, <1>4 DEF Init, SessionInv

\* A command under way is one of those that were issued.
LEMMA Counts ==
  ASSUME SessionInv
  PROVE  /\ answered \in Nat /\ InProgress \in Nat /\ Issued \in 0..MaxCommands
         /\ Len(queue) \in Nat
         /\ run # None \/ queue # <<>> => answered + 1 \in Ids
<1>1. answered \in 0..MaxCommands /\ queue \in Seq(Request) /\ Issued <= MaxCommands
  BY DEF SessionInv, TypeOK
<1>2. Len(queue) \in Nat /\ (queue # <<>> => Len(queue) > 0)
  BY <1>1
<1> QED
  BY <1>1, <1>2, SessionAssumption DEF Issued, InProgress, Ids

\* The queue stays one of requests, and loses at most the one that is taken.
LEMMA QueueMoves ==
  ASSUME SessionInv,
         (run # None /\ queue' = queue) \/ (run = None /\ queue # <<>> /\ queue' = Tail(queue))
  PROVE  /\ queue \in Seq(Request) /\ queue' \in Seq(Request)
         /\ Len(queue') + 1 = Len(queue) + (IF run = None THEN 0 ELSE 1)
<1>1. queue \in Seq(Request)
  BY DEF SessionInv, TypeOK
<1> QED
  BY <1>1

\* A command that goes on with a session keeps the invariant.
LEMMA GoesOn ==
  ASSUME SessionInv, NEW r \in Request, NEW s \in Session, NEW todo \in Seq(Calls),
         NEW pc \in {"single", "top", "llm", "exec", "backoff"},
         GoOn(r, s, pc, todo), Sound(s),
         pc = "single" => r.op # "send" /\ Awaiting(s) /\ r.index \in DOMAIN s.pending,
         pc = "llm" => Able(s), pc = "exec" => todo # <<>>,
         store' \in Session \cup {None}, store' # None => Sound(store'),
         cancel' \in BOOLEAN, verdict' \in [Calls -> {"new", "free", "asked", "granted", "denied"}],
         runs' \in [Calls -> Nat],
         (run # None /\ queue' = queue) \/ (run = None /\ queue # <<>> /\ queue' = Tail(queue))
  PROVE  SessionInv'
<1> DEFINE cmd == [request |-> r, session |-> s, todo |-> todo, pc |-> pc]
<1>1. /\ run' = cmd
      /\ UNCHANGED <<card, view, answered, db, left, aimed, dropped>>
  BY DEF GoOn
<1>2. cmd \in Run
  BY DEF Run
<1>3. run' \in Run /\ run' # None
  BY <1>1, <1>2, NoneAssumption
<1>4. queue \in Seq(Request) /\ queue' \in Seq(Request)
  BY QueueMoves
<1>5. TypeOK'
  BY <1>1, <1>3, <1>4 DEF SessionInv, TypeOK
<1>6. Issued' <= MaxCommands
  <2>1. /\ answered \in Nat /\ Issued <= MaxCommands /\ MaxCommands \in Nat
        /\ Len(queue) \in Nat /\ Len(queue') \in Nat
    BY <1>4, Counts, Bounds DEF SessionInv
  <2> QED
    BY <1>1, <1>3, <2>1, QueueMoves DEF Issued, InProgress
<1>7. AtItsPlace(cmd)
  BY SessionFields DEF AtItsPlace
<1> QED
  BY <1>1, <1>5, <1>6, <1>7 DEF SessionInv

\* So does one that returns.
LEMMA Returns ==
  ASSUME SessionInv, NEW r \in Request, NEW kind, NEW calls \in Seq(Calls),
         NEW w \in Ids \cup {None, Pending},
         Return(r, kind, calls, w), Len(calls) <= MaxBatch,
         store' \in Session \cup {None}, store' # None => Sound(store'),
         cancel' \in BOOLEAN, verdict' \in [Calls -> {"new", "free", "asked", "granted", "denied"}],
         runs' \in [Calls -> Nat],
         (run # None /\ queue' = queue) \/ (run = None /\ queue # <<>> /\ queue' = Tail(queue))
  PROVE  SessionInv'
<1>1. /\ run' = None /\ answered' = answered + 1 /\ view' = w
      /\ UNCHANGED <<db, left, aimed, dropped>>
      /\ card' = CardAfter(r, kind, calls)
  BY DEF Return
<1>2. queue \in Seq(Request) /\ queue' \in Seq(Request)
  BY QueueMoves
<1>3. answered' \in 0..MaxCommands
  BY <1>1, Counts, SessionAssumption DEF Ids
<1>4. Issued' <= MaxCommands
  <2>1. /\ answered \in Nat /\ Issued <= MaxCommands /\ MaxCommands \in Nat
        /\ Len(queue) \in Nat /\ Len(queue') \in Nat
    BY <1>2, Counts, Bounds DEF SessionInv
  <2> QED
    BY <1>1, <2>1, QueueMoves DEF Issued, InProgress
<1>5. /\ card' \in [kind : {"none", "single", "batch"}, calls : Seq(Calls), clicked : SUBSET (1..MaxBatch)]
      /\ Len(card'.calls) <= MaxBatch
  BY <1>1 DEF CardAfter, SessionInv, TypeOK
<1>6. TypeOK'
  BY <1>1, <1>2, <1>3, <1>5 DEF SessionInv, TypeOK
<1> QED
  BY <1>1, <1>4, <1>5, <1>6 DEF SessionInv

\* The parts of the command under way.
LEMMA RunFields ==
  ASSUME SessionInv, run # None
  PROVE  /\ run.request \in Request /\ run.todo \in Seq(Calls)
         /\ run.pc \in {"take", "single", "top", "llm", "exec", "backoff"}
         /\ run.pc = "take" <=> run.session = None
         /\ run.pc # "take" => run.session \in Session /\ Sound(run.session)
         /\ AtItsPlace(run)
<1>1. run \in Run /\ AtItsPlace(run)
  BY DEF SessionInv, TypeOK
<1> QED
  BY <1>1 DEF Run, AtItsPlace

\* The variables whose types no step can miss.
LEMMA Typed ==
  ASSUME SessionInv
  PROVE  /\ store \in Session \cup {None} /\ (store # None => store \in Session /\ Sound(store))
         /\ run \in Run \cup {None}
         /\ queue \in Seq(Request)
         /\ cancel \in BOOLEAN
         /\ card \in [kind : {"none", "single", "batch"}, calls : Seq(Calls), clicked : SUBSET (1..MaxBatch)]
         /\ Len(card.calls) <= MaxBatch
         /\ view \in Ids \cup {None, Pending}
         /\ db \in [Ids -> Seq(Message) \cup {None}]
         /\ answered \in 0..MaxCommands
         /\ left \in [cancels : 0..MaxCancels, opens : 0..MaxOpens, saves : 0..MaxSaves, shows : SUBSET (Ids \cup {None})]
         /\ verdict \in [Calls -> {"new", "free", "asked", "granted", "denied"}]
         /\ runs \in [Calls -> Nat]
         /\ aimed \subseteq Ids /\ dropped \subseteq Ids
BY DEF SessionInv, TypeOK

\* A call that starts is counted.
LEMMA Starts ==
  ASSUME SessionInv, NEW c \in Calls, Started(c)
  PROVE  runs' \in [Calls -> Nat]
BY Typed DEF Started

\* The bounds on what the user does besides are used up.
LEMMA Lefts ==
  ASSUME SessionInv
  PROVE  /\ left.cancels > 0 => [left EXCEPT !.cancels = @ - 1] \in [cancels : 0..MaxCancels, opens : 0..MaxOpens, saves : 0..MaxSaves, shows : SUBSET (Ids \cup {None})]
         /\ left.opens > 0 => \A shows \in SUBSET (Ids \cup {None}) :
              [left EXCEPT !.opens = @ - 1, !.shows = @ \cup shows] \in [cancels : 0..MaxCancels, opens : 0..MaxOpens, saves : 0..MaxSaves, shows : SUBSET (Ids \cup {None})]
         /\ left.saves > 0 => [left EXCEPT !.saves = @ - 1] \in [cancels : 0..MaxCancels, opens : 0..MaxOpens, saves : 0..MaxSaves, shows : SUBSET (Ids \cup {None})]
         /\ \A id : [left EXCEPT !.shows = @ \ {id}] \in [cancels : 0..MaxCancels, opens : 0..MaxOpens, saves : 0..MaxSaves, shows : SUBSET (Ids \cup {None})]
<1>1. /\ left \in [cancels : 0..MaxCancels, opens : 0..MaxOpens, saves : 0..MaxSaves, shows : SUBSET (Ids \cup {None})]
      /\ left.cancels \in 0..MaxCancels /\ left.opens \in 0..MaxOpens /\ left.saves \in 0..MaxSaves
      /\ left.shows \in SUBSET (Ids \cup {None})
  BY Typed
<1>2. /\ left.cancels > 0 => left.cancels - 1 \in 0..MaxCancels
      /\ left.opens > 0 => left.opens - 1 \in 0..MaxOpens
      /\ left.saves > 0 => left.saves - 1 \in 0..MaxSaves
  BY <1>1, Bounds
<1> QED
  BY <1>1, <1>2

\* The user issues a command.
LEMMA Issues ==
  ASSUME SessionInv, NEW op \in {"send", "approve", "approveAll", "reject", "rejectAll"},
         NEW index \in 1..MaxBatch, Issue(op, index),
         card' \in [kind : {"none", "single", "batch"}, calls : Seq(Calls), clicked : SUBSET (1..MaxBatch)],
         card'.calls = card.calls,
         verdict' \in [Calls -> {"new", "free", "asked", "granted", "denied"}]
  PROVE  SessionInv'
<1> DEFINE request == [op |-> op, index |-> index, from |-> card.kind]
<1>1. request \in Request
  BY Typed DEF Request
<1>2. /\ Issued < MaxCommands /\ queue' = Append(queue, request)
      /\ UNCHANGED <<store, db, view, dropped, run, cancel, answered, left, runs, aimed>>
  BY DEF Issue, sessionVars
<1> HIDE DEF request
<1>3. queue' \in Seq(Request) /\ Len(queue') = Len(queue) + 1 /\ Len(queue) \in Nat
  BY <1>1, <1>2, Typed
<1>4. TypeOK'
  BY <1>2, <1>3, Typed DEF TypeOK
<1>5. Issued' <= MaxCommands
  <2>1. answered' = answered /\ run' = run /\ answered \in Nat
    BY <1>2, Counts
  <2>2. Issued' = Issued + 1
    BY <2>1, <1>3 DEF Issued, InProgress
  <2> QED
    BY <1>2, <2>2, Counts, Bounds
<1> QED
  BY <1>2, <1>4, <1>5, Typed DEF SessionInv

\* A list no longer than n has its positions among the first n.
LEMMA PositionsBounded ==
  ASSUME NEW S, NEW s \in Seq(S), NEW n \in Nat, Len(s) <= n
  PROVE  DOMAIN s \subseteq 1..n
OBVIOUS

\* The positions of a card.
LEMMA CardPositions ==
  ASSUME SessionInv
  PROVE  DOMAIN card.calls \subseteq 1..MaxBatch
<1>1. card.calls \in Seq(Calls) /\ Len(card.calls) <= MaxBatch
  BY Typed
<1> QED
  BY <1>1, Bounds, PositionsBounded

\* A click changes the verdict on calls of the card, and nothing else of it.
LEMMA Clicks ==
  ASSUME SessionInv, NEW positions \in SUBSET (DOMAIN card.calls), NEW v \in {"granted", "denied"},
         Click(positions, v)
  PROVE  /\ card' \in [kind : {"none", "single", "batch"}, calls : Seq(Calls), clicked : SUBSET (1..MaxBatch)]
         /\ card'.calls = card.calls /\ card'.kind = card.kind
         /\ card'.clicked = card.clicked \cup positions
         /\ verdict' \in [Calls -> {"new", "free", "asked", "granted", "denied"}]
<1>1. DOMAIN card.calls \subseteq 1..MaxBatch
  BY CardPositions
<1> QED
  BY <1>1, Typed DEF Click

\* What the user does keeps the invariant.
LEMMA UserKeepsTypes ==
  ASSUME SessionInv, UserStep
  PROVE  SessionInv'
<1>1. 1 \in 1..MaxBatch /\ DOMAIN card.calls \subseteq 1..MaxBatch
  BY CardPositions, Bounds
<1>2. CASE SendMessage
  BY <1>1, <1>2, Issues, Typed DEF SendMessage, userVars
<1>3. ASSUME NEW i \in 1..MaxBatch, ApproveTool(i)
      PROVE  SessionInv'
  <2>1. {i} \in SUBSET (DOMAIN card.calls)
    BY <1>3 DEF ApproveTool
  <2> QED
    BY <1>3, <2>1, Clicks, Issues DEF ApproveTool
<1>4. ASSUME NEW i \in 1..MaxBatch, RejectTool(i)
      PROVE  SessionInv'
  <2>1. {i} \in SUBSET (DOMAIN card.calls)
    BY <1>4 DEF RejectTool
  <2> QED
    BY <1>4, <2>1, Clicks, Issues DEF RejectTool
<1>5. CASE ApproveCard
  BY <1>1, <1>5, Clicks, Issues DEF ApproveCard
<1>6. CASE RejectCard
  BY <1>1, <1>6, Clicks, Issues DEF RejectCard
<1>7. CASE Cancel
  <2>1. aimed' \subseteq Ids
    BY <1>7, Counts, Bounds DEF Cancel, Ids
  <2>2. left' \in [cancels : 0..MaxCancels, opens : 0..MaxOpens, saves : 0..MaxSaves, shows : SUBSET (Ids \cup {None})]
    BY <1>7, Lefts DEF Cancel
  <2>3. UNCHANGED <<store, db, view, dropped, card, verdict, run, queue, answered, runs>> /\ cancel' \in BOOLEAN
    BY <1>7 DEF Cancel, sessionVars, userVars
  <2>4. TypeOK' /\ Issued' = Issued
    BY <2>1, <2>2, <2>3, Typed DEF TypeOK, SessionInv, Issued, InProgress
  <2> QED
    BY <2>3, <2>4 DEF SessionInv
<1>8. ASSUME NEW shows \in SUBSET (Ids \cup {None}), Open(shows), store' \in Session \cup {None},
             store' # None => Sound(store'), dropped' \subseteq Ids
      PROVE  SessionInv'
  <2>1. left' \in [cancels : 0..MaxCancels, opens : 0..MaxOpens, saves : 0..MaxSaves, shows : SUBSET (Ids \cup {None})]
    BY <1>8, Lefts DEF Open
  <2>2. UNCHANGED <<card, view, run, queue, cancel, db, answered, verdict, runs, aimed>>
    BY <1>8 DEF Open
  <2>3. TypeOK' /\ Issued' = Issued
    BY <1>8, <2>1, <2>2, Typed DEF TypeOK, SessionInv, Issued, InProgress
  <2> QED
    BY <1>8, <2>2, <2>3 DEF SessionInv
<1>9. Current \subseteq Ids
  BY Typed, RunFields, SessionFields DEF Current
<1>10. CASE Reset
  BY <1>8, <1>9, <1>10, Typed DEF Reset
<1>11. ASSUME NEW id \in Ids, Load(id)
       PROVE  SessionInv'
  <2>1. db[id] \in Seq(Message)
    BY <1>11, Typed DEF Load
  <2>2. Restored(id) \in Session /\ Sound(Restored(id))
    BY <2>1, Bounds DEF Restored, Session, Sound, Awaiting
  <2> QED
    BY <1>8, <1>9, <1>11, <2>2, Typed DEF Load
<1>12. CASE RemindOfWorkspace
  <2>1. store \in Session /\ Sound(store) /\ Append(store.history, User) \in Seq(Message)
    BY <1>12, Typed, SessionFields, Messages DEF RemindOfWorkspace
  <2>2. store' = [store EXCEPT !.history = Append(store.history, User)]
    BY <1>12 DEF RemindOfWorkspace
  <2>3. store' \in Session
    BY <2>1, <2>2 DEF Session
  <2>4. store'.pending = store.pending /\ store'.state = store.state /\ store # None
    BY <2>1, <2>2, SessionFields DEF Session
  <2>5. Sound(store')
    BY <2>1, <2>4 DEF Sound, Awaiting
  <2> QED
    BY <1>8, <1>12, <2>3, <2>5, Typed DEF RemindOfWorkspace
<1>13. ASSUME NEW id \in left.shows, ShowOpened(id) \/ NewChatFails
       PROVE  SessionInv'
  <2>1. left' \in [cancels : 0..MaxCancels, opens : 0..MaxOpens, saves : 0..MaxSaves, shows : SUBSET (Ids \cup {None})] /\ id \in Ids \cup {None}
    BY <1>13, Lefts, Typed DEF ShowOpened, NewChatFails
  <2>2. UNCHANGED <<store, dropped, run, queue, cancel, db, answered, verdict, runs, aimed>>
    BY <1>13 DEF ShowOpened, NewChatFails, sessionVars, userVars
  <2>3. /\ card' \in [kind : {"none", "single", "batch"}, calls : Seq(Calls), clicked : SUBSET (1..MaxBatch)]
        /\ Len(card'.calls) <= MaxBatch
    <3>1. CASE card' = card
      BY <3>1, Typed
    <3>2. CASE card' = NoCard
      BY <3>2, Bounds DEF NoCard
    <3> QED
      BY <1>13, <3>1, <3>2 DEF ShowOpened, NewChatFails, userVars
  <2>4. view' \in Ids \cup {None, Pending}
    BY <1>13, <2>1, Typed DEF ShowOpened, NewChatFails, sessionVars
  <2>5. TypeOK' /\ Issued' = Issued
    BY <2>1, <2>2, <2>3, <2>4, Typed DEF TypeOK, SessionInv, Issued, InProgress
  <2> QED
    BY <2>2, <2>3, <2>5 DEF SessionInv
<1>14. CASE NewChatFails
  BY <1>13, <1>14 DEF NewChatFails
<1>15. CASE Save
  <2>1. left' \in [cancels : 0..MaxCancels, opens : 0..MaxOpens, saves : 0..MaxSaves, shows : SUBSET (Ids \cup {None})]
    BY <1>15, Lefts DEF Save
  <2>2. ToSave(store, view) \in Seq(Message)
    BY Typed, SessionFields DEF ToSave
  <2>3. db' \in [Ids -> Seq(Message) \cup {None}]
    BY <1>15, <2>2, Typed DEF Save
  <2>4. UNCHANGED <<store, view, dropped, card, verdict, run, queue, cancel, answered, runs, aimed>>
    BY <1>15 DEF Save, userVars
  <2>5. TypeOK' /\ Issued' = Issued
    BY <2>1, <2>3, <2>4, Typed DEF TypeOK, SessionInv, Issued, InProgress
  <2> QED
    BY <2>4, <2>5 DEF SessionInv
<1> QED
  BY <1>2, <1>3, <1>4, <1>5, <1>6, <1>7, <1>10, <1>11, <1>12, <1>13, <1>14, <1>15 DEF UserStep

\* The tick that fails puts the session back or loses it.
LEMMA FailKeeps ==
  ASSUME SessionInv, run # None, NEW s \in Session, Sound(s), Fail(run.request, s),
         UNCHANGED <<queue, cancel, verdict, runs>>
  PROVE  SessionInv'
<1>1. [s EXCEPT !.state = "Error"] \in Session /\ Sound([s EXCEPT !.state = "Error"])
  BY DEF Session, Sound, Awaiting
<1>2. store' \in Session \cup {None} /\ (store' # None => Sound(store'))
  BY <1>1, Typed DEF Fail, PutBack
<1>3. Return(run.request, "error", <<>>, view)
  BY DEF Fail, ReturnError
<1>4. <<>> \in Seq(Calls) /\ Len(<<>>) <= MaxBatch
  BY Bounds
<1> QED
  BY <1>2, <1>3, <1>4, Returns, Typed, RunFields

\* A command that gives back its session.
LEMMA PutsBack ==
  ASSUME SessionInv, run # None, NEW s \in Session, Sound(s), PutBack(s),
         NEW kind, NEW w \in Ids \cup {None, Pending}, Return(run.request, kind, <<>>, w),
         cancel' \in BOOLEAN, UNCHANGED <<queue, verdict, runs>>
  PROVE  SessionInv'
<1>1. <<>> \in Seq(Calls) /\ Len(<<>>) <= MaxBatch
  BY Bounds
<1>2. store' \in Session /\ Sound(store')
  BY DEF PutBack
<1> QED
  BY <1>1, <1>2, Returns, Typed, RunFields

\* The command that returns with calls to approve.
LEMMA PendingKeeps ==
  ASSUME SessionInv, run # None, NEW s \in Session, Sound(s), Awaiting(s),
         ReturnPending(run.request, s) \/ ReturnRest(run.request, s),
         verdict' \in [Calls -> {"new", "free", "asked", "granted", "denied"}],
         UNCHANGED <<queue, cancel, runs>>
  PROVE  SessionInv'
<1>1. s.pending \in Seq(Calls) /\ Len(s.pending) <= MaxBatch /\ s.pending # <<>>
  BY SessionFields DEF Sound
<1>2. SubSeq(s.pending, 1, 1) \in Seq(Calls) /\ Len(SubSeq(s.pending, 1, 1)) <= MaxBatch
  BY <1>1, Bounds
<1>3. store' \in Session /\ Sound(store')
  BY DEF ReturnPending, ReturnRest, PutBack
<1>4. Pending \in Ids \cup {None, Pending}
  OBVIOUS
<1>5. ASSUME NEW kind, NEW calls \in Seq(Calls), Len(calls) <= MaxBatch,
             Return(run.request, kind, calls, Pending)
      PROVE  SessionInv'
  BY <1>3, <1>4, <1>5, Returns, Typed, RunFields
<1>6. CASE ReturnRest(run.request, s)
  BY <1>1, <1>5, <1>6 DEF ReturnRest
<1>7. CASE ReturnPending(run.request, s)
  BY <1>1, <1>2, <1>5, <1>7 DEF ReturnPending
<1> QED
  BY <1>6, <1>7

\* A session that a message creates.
LEMMA FreshTyped ==
  ASSUME SessionInv, queue # <<>>
  PROVE  Fresh \in Session /\ Sound(Fresh)
BY Counts, Bounds DEF Fresh, Session, Sound, Awaiting

\* The commands that start.
LEMMA StartKeepsTypes ==
  ASSUME SessionInv, StartSend \/ StartDecision
  PROVE  SessionInv'
<1>1. run = None /\ queue # <<>> /\ queue' = Tail(queue) /\ UNCHANGED <<cancel, verdict, runs>>
  BY DEF StartSend, StartDecision
<1>2. Head(queue) \in Request
  BY <1>1, Typed
<1>3. <<>> \in Seq(Calls) /\ Len(<<>>) <= MaxBatch
  BY Bounds
<1>4. ASSUME ReturnError(Head(queue)), UNCHANGED store
      PROVE  SessionInv'
  <2>1. Return(Head(queue), "error", <<>>, view)
    BY <1>4 DEF ReturnError
  <2> QED
    BY <1>1, <1>2, <1>3, <1>4, <2>1, Returns, Typed
<1>5. ASSUME NEW s \in Session, Sound(s), GoOn(Head(queue), Sent(s), "top", <<>>), store' = None
      PROVE  SessionInv'
  <2>1. s.history \in Seq(Message) /\ Append(s.history, User) \in Seq(Message)
    BY SessionFields, Messages
  <2>2. Sent(s) \in Session
    <3>1. PICK x \in States :
            Sent(s) = [s EXCEPT !.state = x, !.history = Append(s.history, User)]
      BY SessionFields DEF Sent, States
    <3> QED
      BY <2>1, <3>1 DEF Session, States
  <2>3. Sent(s).pending = s.pending /\ (Awaiting(Sent(s)) => s.state = "AwaitingApproval")
    BY DEF Sent, Session, Awaiting
  <2>4. Sound(Sent(s))
    BY <1>5, <2>3, SessionFields DEF Sound, Awaiting
  <2> QED
    BY <1>1, <1>2, <1>3, <1>5, <2>2, <2>4, GoesOn, Typed
<1>6. Fresh \in Session /\ Sound(Fresh)
  BY <1>1, FreshTyped
<1>7. CASE StartSend
  BY <1>4, <1>5, <1>6, <1>7, Typed DEF StartSend
<1>8. CASE StartDecision
  <2>1. CASE Awaiting(store)
    <3> DEFINE cmd == [request |-> Head(queue), session |-> None, todo |-> <<>>, pc |-> "take"]
    <3>1. /\ run' = cmd /\ store' = store /\ Head(queue).op # "send"
          /\ UNCHANGED <<card, view, answered, db, left, aimed, dropped>>
      BY <1>8, <2>1 DEF StartDecision, GoOn
    <3>2. cmd \in Run
      BY <1>2 DEF Run
    <3>3. cmd # None
      BY <3>2, NoneAssumption
    <3>4. queue' \in Seq(Request) /\ Len(queue') + 1 = Len(queue)
      BY <1>1, Typed
    <3>5. TypeOK'
      BY <1>1, <3>1, <3>2, <3>4, Typed DEF TypeOK
    <3>6. Issued' = Issued
      BY <1>1, <3>1, <3>3, <3>4, Counts DEF Issued, InProgress
    <3>7. AtItsPlace(cmd)
      BY <3>1 DEF AtItsPlace
    <3> QED
      BY <3>1, <3>5, <3>6, <3>7, Typed DEF SessionInv
  <2>2. CASE ~Awaiting(store)
    BY <1>4, <1>8, <2>2 DEF StartDecision
  <2> QED
    BY <2>1, <2>2
<1> QED
  BY <1>7, <1>8

\* A command that goes on without starting a call.
LEMMA Proceeds ==
  ASSUME SessionInv, run # None, NEW s \in Session, Sound(s), NEW todo \in Seq(Calls),
         NEW pc \in {"top", "llm", "exec", "backoff"}, GoOn(run.request, s, pc, todo),
         pc = "llm" => Able(s), pc = "exec" => todo # <<>>,
         store' = store \/ store' = None,
         verdict' \in [Calls -> {"new", "free", "asked", "granted", "denied"}],
         runs' \in [Calls -> Nat], UNCHANGED <<queue, cancel>>
  PROVE  SessionInv'
<1>1. store' \in Session \cup {None} /\ (store' # None => Sound(store'))
  BY Typed
<1>2. run.request \in Request /\ pc \in {"single", "top", "llm", "exec", "backoff"} /\ pc # "single"
  BY RunFields
<1>3. store' \in Session \cup {None} /\ cancel' \in BOOLEAN
  BY <1>1, Typed
<1> QED
  BY <1>1, <1>2, <1>3, GoesOn

\* The commands that take the session of a batch that waits.
LEMMA TakeKeepsTypes ==
  ASSUME SessionInv, TakeNothing \/ TakeRejected \/ TakeApproved
  PROVE  SessionInv'
<1>1. run # None /\ run.pc = "take" /\ run.request \in Request /\ run.request.op # "send"
  BY RunFields DEF TakeNothing, TakeRejected, TakeApproved, AtItsPlace
<1>2. <<>> \in Seq(Calls) /\ Len(<<>>) <= MaxBatch
  BY Bounds
<1>3. CASE TakeNothing
  BY <1>1, <1>2, <1>3, Returns, Typed DEF TakeNothing, ReturnError
<1>4. CASE TakeRejected
  <2>1. /\ store \in Session /\ Sound(store)
        /\ store.history \in Seq(Message) /\ store.pending \in Seq(Calls)
        /\ UNCHANGED <<queue, cancel, verdict, runs>>
    BY <1>4, Typed, SessionFields DEF TakeRejected
  <2>2. ASSUME run.request.index \in DOMAIN PendingOf(store)
        PROVE  /\ run.request.index \in DOMAIN store.pending
               /\ Settled(store, run.request.index) \in Session
               /\ Sound(Settled(store, run.request.index))
               /\ Len(store.pending) > 1 => Awaiting(Settled(store, run.request.index))
    <3>1. run.request.index \in DOMAIN store.pending
      BY <2>2 DEF PendingOf
    <3>2. Len(Without(store.pending, run.request.index)) = Len(store.pending) - 1
      BY <2>1, <3>1, WithoutOne
    <3>3. Len(store.pending) > 1 => Without(store.pending, run.request.index) # <<>>
      BY <2>1, <3>2
    <3> QED
      BY <2>1, <3>1, <3>3, SettledTyped, SessionFields DEF Awaiting
  <2>3. CASE /\ run.request.index \in DOMAIN PendingOf(store)
             /\ Len(store.pending) > 1
             /\ ReturnRest(run.request, Settled(store, run.request.index))
    BY <1>1, <2>1, <2>2, <2>3, PendingKeeps, Typed
  <2>4. CASE /\ run.request.index \in DOMAIN PendingOf(store)
             /\ GoOn(run.request, Settled(store, run.request.index), "top", <<>>)
             /\ store' = None
    BY <1>1, <1>2, <2>1, <2>2, <2>4, Proceeds, Typed
  <2>5. CASE /\ GoOn(run.request, [store EXCEPT !.state = "Thinking", !.pending = <<>>], "top", <<>>)
             /\ store' = None
    <3>1. /\ [store EXCEPT !.state = "Thinking", !.pending = <<>>] \in Session
          /\ Sound([store EXCEPT !.state = "Thinking", !.pending = <<>>])
      BY <2>1, Emptied DEF States
    <3> QED
      BY <1>1, <1>2, <2>1, <2>5, <3>1, Proceeds, Typed
  <2>6. CASE /\ GoOn(run.request, [store EXCEPT !.state = "Thinking", !.pending = <<>>,
                               !.history = @ \o Answers(PendingOf(store))], "top", <<>>)
             /\ store' = None
    <3>1. Answers(PendingOf(store)) \in Seq(Message)
      BY <2>1, Messages DEF Answers, PendingOf
    <3>2. store.history \o Answers(PendingOf(store)) \in Seq(Message)
      BY <2>1, <3>1
    <3> DEFINE h == store.history \o Answers(PendingOf(store))
               s == [store EXCEPT !.state = "Thinking", !.pending = <<>>, !.history = h]
    <3>3. s = [store EXCEPT !.state = "Thinking", !.pending = <<>>,
                            !.history = @ \o Answers(PendingOf(store))]
      BY <2>1 DEF Session
    <3> HIDE DEF h
    <3>4. s \in Session /\ Sound(s)
      BY <2>1, <3>2, Emptied DEF States, h
    <3> HIDE DEF s
    <3> QED
      BY <1>1, <1>2, <2>1, <2>6, <3>3, <3>4, Proceeds, Typed
  <2> QED
    BY <1>4, <2>3, <2>4, <2>5, <2>6 DEF TakeRejected
<1>5. CASE TakeApproved
  <2>1. /\ store \in Session /\ Sound(store)
        /\ store.history \in Seq(Message) /\ store.pending \in Seq(Calls)
        /\ store' = None /\ UNCHANGED <<queue, cancel, verdict>>
    BY <1>5, Typed, SessionFields DEF TakeApproved
  <2>2. CASE /\ run.request.index \in DOMAIN PendingOf(store)
             /\ GoOn(run.request, store, "single", <<store.pending[run.request.index]>>)
             /\ Started(store.pending[run.request.index])
    <3>1. run.request.index \in DOMAIN store.pending /\ Awaiting(store)
      BY <2>2 DEF PendingOf
    <3>2. store.pending[run.request.index] \in Calls
      BY <2>1, <3>1
    <3>3. <<store.pending[run.request.index]>> \in Seq(Calls) /\ runs' \in [Calls -> Nat]
      BY <2>2, <3>2, Starts
    <3> QED
      BY <1>1, <2>1, <2>2, <3>1, <3>3, GoesOn, Typed
  <2>3. CASE GoOn(run.request, store, "top", <<>>) /\ UNCHANGED runs
    BY <1>1, <1>2, <2>1, <2>3, Proceeds, Typed
  <2>4. CASE /\ GoOn(run.request, [store EXCEPT !.state = "ExecutingTool", !.pending = <<>>], "top", <<>>)
             /\ UNCHANGED runs
    <3>1. /\ [store EXCEPT !.state = "ExecutingTool", !.pending = <<>>] \in Session
          /\ Sound([store EXCEPT !.state = "ExecutingTool", !.pending = <<>>])
      BY <2>1, Emptied DEF States
    <3> QED
      BY <1>1, <1>2, <2>1, <2>4, <3>1, Proceeds, Typed
  <2> QED
    BY <1>5, <2>2, <2>3, <2>4 DEF TakeApproved
<1> QED
  BY <1>3, <1>4, <1>5

\* A session keeps its pending calls when only its history or its counters change.
LEMMA Amended ==
  ASSUME NEW s \in Session, Sound(s), NEW h \in Seq(Message), NEW x \in States \ {"AwaitingApproval"}
  PROVE  /\ [s EXCEPT !.history = h] \in Session /\ Sound([s EXCEPT !.history = h])
         /\ [s EXCEPT !.state = x] \in Session /\ Sound([s EXCEPT !.state = x])
         /\ [s EXCEPT !.state = x, !.history = h] \in Session
         /\ Sound([s EXCEPT !.state = x, !.history = h])
         /\ [s EXCEPT !.history = h, !.state = x] = [s EXCEPT !.state = x, !.history = h]
<1>1. /\ [s EXCEPT !.history = h] \in Session
      /\ [s EXCEPT !.state = x] \in Session
      /\ [s EXCEPT !.state = x, !.history = h] \in Session
  BY DEF Session, States
<1>2. /\ [s EXCEPT !.history = h].pending = s.pending /\ [s EXCEPT !.history = h].state = s.state
      /\ [s EXCEPT !.state = x].pending = s.pending /\ [s EXCEPT !.state = x].state = x
      /\ [s EXCEPT !.state = x, !.history = h].pending = s.pending
      /\ [s EXCEPT !.state = x, !.history = h].state = x
      /\ [s EXCEPT !.history = h, !.state = x] = [s EXCEPT !.state = x, !.history = h]
  BY DEF Session
<1> QED
  BY <1>1, <1>2, SessionFields DEF Sound, Awaiting

\* A session that has iterations left counts the next.
LEMMA CountedTyped ==
  ASSUME NEW s \in Session, Sound(s), Able(s)
  PROVE  /\ Counted(s) \in Session /\ Sound(Counted(s))
         /\ Counted(s).history = s.history /\ Counted(s).id = s.id
         /\ Counted(s).pending = s.pending /\ Counted(s).state = s.state
<1>1. s.iteration + 1 \in 0..MaxIterations
  BY SessionFields, Bounds DEF Able
<1>2. Counted(s) \in Session
  BY <1>1 DEF Counted, Session
<1>3. /\ Counted(s).history = s.history /\ Counted(s).id = s.id
      /\ Counted(s).pending = s.pending /\ Counted(s).state = s.state
  BY DEF Counted, Session
<1>4. Sound(Counted(s))
  BY <1>2, <1>3, SessionFields DEF Sound, Awaiting
<1> QED
  BY <1>2, <1>3, <1>4

\* The calls known so far are a number, and a new batch has the next ones.
LEMMA NewCallsTyped ==
  ASSUME NEW n \in 1..MaxBatch, Known + n <= MaxCalls
  PROVE  /\ Known \in Nat
         /\ NewCalls(n) \in Seq(Calls) /\ NewCalls(n) # <<>> /\ Len(NewCalls(n)) <= MaxBatch
         /\ DOMAIN NewCalls(n) = 1..n /\ \A i \in 1..n : NewCalls(n)[i] = Known + i
<1>1. Known \in Nat
  <2>1. IsFiniteSet(Calls)
    BY Bounds, FS_Interval DEF Calls
  <2>2. IsFiniteSet({c \in Calls : verdict[c] # "new"})
    BY <2>1, FS_Subset
  <2> QED
    BY <2>2, FS_CardinalityType DEF Known
<1>2. n \in Nat /\ n > 0 /\ n <= MaxBatch
  BY Bounds
<1>3. \A i \in 1..n : Known + i \in Calls
  BY <1>1, <1>2, Bounds DEF Calls
<1> QED
  BY <1>1, <1>2, <1>3 DEF NewCalls

\* The session after the model asked for some calls.
LEMMA AskedTyped ==
  ASSUME NEW s \in Session, Sound(s), Able(s), NEW calls \in Seq(Calls), calls # <<>>,
         Len(calls) <= MaxBatch
  PROVE  LET e == [Asked(s, calls) EXCEPT !.state = "ExecutingTool"]
             p == [Asked(s, calls) EXCEPT !.state = "AwaitingApproval", !.pending = calls]
         IN  /\ e \in Session /\ Sound(e) /\ e.state = "ExecutingTool"
             /\ p \in Session /\ Sound(p) /\ Awaiting(p) /\ p.pending = calls
             /\ e.history = Append(s.history, Asks(calls)) /\ p.history = e.history
             /\ e.id = s.id /\ p.id = s.id
<1> DEFINE h == Append(s.history, Asks(calls))
           a == Asked(s, calls)
<1>1. /\ Counted(s) \in Session /\ Sound(Counted(s)) /\ h \in Seq(Message)
      /\ Counted(s).history = s.history /\ Counted(s).id = s.id
  BY CountedTyped, SessionFields, Messages
<1>2. a = [Counted(s) EXCEPT !.history = h]
  BY <1>1 DEF Asked, Session
<1> HIDE DEF h, a
<1>3. a \in Session /\ Sound(a) /\ a.history = h /\ a.id = s.id
  <2>1. "Idle" \in States \ {"AwaitingApproval"}
    BY DEF States
  <2>2. a \in Session /\ Sound(a)
    BY <1>1, <1>2, <2>1, Amended
  <2> QED
    BY <1>1, <1>2, <2>2 DEF Session
<1>4. /\ [a EXCEPT !.state = "ExecutingTool"] \in Session
      /\ Sound([a EXCEPT !.state = "ExecutingTool"])
      /\ [a EXCEPT !.state = "ExecutingTool"].state = "ExecutingTool"
      /\ [a EXCEPT !.state = "ExecutingTool"].history = h
      /\ [a EXCEPT !.state = "ExecutingTool"].id = s.id
  BY <1>1, <1>3, Amended DEF States, Session
<1> DEFINE p == [a EXCEPT !.state = "AwaitingApproval", !.pending = calls]
<1>5. p \in Session
  BY <1>3 DEF Session
<1>6. p.state = "AwaitingApproval" /\ p.pending = calls /\ p.history = h /\ p.id = s.id
  BY <1>3 DEF Session
<1>7. Sound(p) /\ Awaiting(p)
  BY <1>5, <1>6, SessionFields DEF Sound, Awaiting
<1> QED
  BY <1>4, <1>5, <1>6, <1>7 DEF a, h

\* The single call that was approved returns.
LEMMA SingleKeepsTypes ==
  ASSUME SessionInv, FinishSingle
  PROVE  SessionInv'
<1> DEFINE s == Settled(run.session, run.request.index)
<1>1. /\ run # None /\ run.session \in Session /\ Sound(run.session) /\ run.request \in Request
      /\ run.request.index \in DOMAIN run.session.pending
      /\ UNCHANGED <<queue, cancel, verdict, runs>>
  BY RunFields DEF FinishSingle, AtItsPlace
<1>2. /\ s \in Session /\ Sound(s)
      /\ s.pending # <<>> => Awaiting(s)
  BY <1>1, SettledTyped, SessionFields DEF Awaiting
<1>3. <<>> \in Seq(Calls)
  OBVIOUS
<1>4. CASE s.pending # <<>>
  BY <1>1, <1>2, <1>4, PendingKeeps, Typed DEF FinishSingle
<1>5. CASE s.pending = <<>>
  BY <1>1, <1>2, <1>3, <1>5, Proceeds, Typed DEF FinishSingle
<1> QED
  BY <1>4, <1>5

\* The steps at the top of the loop, and those of the model and of the tools.
TickStep ==
  \/ CancelAtTop \/ TickSpent \/ TickLimit \/ TickThink \/ TickExecute \/ TickNoCalls \/ TickAwait
ModelStep ==
  \/ ModelFails \/ ModelSpends \/ ModelFinishes
  \/ \E n \in 1..MaxBatch : ModelAsks(n) \/ ModelReads(n)
ToolStep ==
  \/ ToolReturns \/ ToolFailsForNow \/ EndBackoff \/ ToolFailsForGood
  \/ CancelTick \/ TimeOutTick

LEMMA TickKeepsTypes ==
  ASSUME SessionInv, TickStep
  PROVE  SessionInv'
<1>1. /\ run # None /\ run.pc = "top" /\ run.session \in Session /\ Sound(run.session)
      /\ run.session.history \in Seq(Message) /\ run.session.id \in Ids
      /\ UNCHANGED <<queue, verdict>>
  BY RunFields, SessionFields
     DEF TickStep, CancelAtTop, TickSpent, TickLimit, TickThink, TickExecute, TickNoCalls,
         TickAwait, AtTick
<1>2. <<>> \in Seq(Calls) /\ verdict \in [Calls -> {"new", "free", "asked", "granted", "denied"}]
  BY Typed
<1>3. CASE CancelAtTop
  BY <1>1, <1>3, PutsBack DEF CancelAtTop
<1>4. CASE TickSpent
  BY <1>1, <1>4, FailKeeps DEF TickSpent
<1>5. CASE TickLimit
  <2>1. /\ [run.session EXCEPT !.state = "Finished", !.pending = <<>>] \in Session
        /\ Sound([run.session EXCEPT !.state = "Finished", !.pending = <<>>])
    BY <1>1, Emptied DEF States
  <2>2. [run.session EXCEPT !.state = "Finished", !.pending = <<>>].id = run.session.id
    BY <1>1 DEF Session
  <2> QED
    BY <1>1, <1>5, <2>1, <2>2, PutsBack, Typed DEF TickLimit, ReturnText
<1>6. CASE TickThink
  <2> DEFINE h == Compacted(run.session.history)
             s == [run.session EXCEPT !.state = "Thinking", !.history = Compacted(@)]
  <2>1. h \in Seq(Message)
    BY <1>1, CompactedTyped
  <2>2. s = [run.session EXCEPT !.state = "Thinking", !.history = h]
    BY <1>1 DEF Session
  <2>3. s \in Session /\ Sound(s)
    <3> HIDE DEF h, s
    <3> QED
      BY <1>1, <2>1, <2>2, Amended DEF States
  <2>4. Able(s)
    BY <1>1, <1>6 DEF TickThink, Able, Session
  <2> HIDE DEF s
  <2>5. GoOn(run.request, s, "llm", <<>>) /\ UNCHANGED <<store, queue, cancel, verdict, runs>>
    BY <1>6 DEF TickThink, s
  <2> QED
    BY <1>1, <1>2, <2>3, <2>4, <2>5, Proceeds, Typed
<1>7. CASE TickExecute
  <2> DEFINE calls == LastCalls(run.session.history)
  <2>1. calls \in Seq(Calls) /\ calls # <<>>
    BY <1>1, <1>7, LastCallsTyped DEF TickExecute
  <2>2. Head(calls) \in Calls
    BY <2>1
  <2>3. /\ GoOn(run.request, run.session, "exec", calls) /\ Started(Head(calls))
        /\ UNCHANGED <<store, queue, cancel, verdict>>
    BY <1>7 DEF TickExecute
  <2> HIDE DEF calls
  <2>4. runs' \in [Calls -> Nat]
    BY <2>2, <2>3, Starts
  <2> QED
    BY <1>1, <1>2, <2>1, <2>3, <2>4, Proceeds, Typed
<1>8. CASE TickNoCalls
  BY <1>1, <1>8, FailKeeps DEF TickNoCalls
<1>9. CASE TickAwait
  BY <1>1, <1>2, <1>9, PendingKeeps DEF TickAwait
<1> QED
  BY <1>3, <1>4, <1>5, <1>6, <1>7, <1>8, <1>9 DEF TickStep

LEMMA ModelKeepsTypes ==
  ASSUME SessionInv, ModelStep
  PROVE  SessionInv'
<1>1. /\ run # None /\ run.session \in Session /\ Sound(run.session) /\ Able(run.session)
      /\ run.session.history \in Seq(Message) /\ run.session.id \in Ids
      /\ UNCHANGED <<queue, cancel, runs>>
  BY RunFields, SessionFields
     DEF ModelStep, ModelFails, ModelSpends, ModelFinishes, ModelAsks, ModelReads, AtModel,
         AtItsPlace
<1>2. <<>> \in Seq(Calls) /\ runs \in [Calls -> Nat] /\ cancel \in BOOLEAN
  BY Typed
<1>3. CASE ModelFails
  BY <1>1, <1>3, FailKeeps DEF ModelFails
<1>4. CASE ModelSpends
  <2>1. Counted(run.session) \in Session /\ Sound(Counted(run.session))
    BY <1>1, CountedTyped
  <2>2. /\ [Counted(run.session) EXCEPT !.spent = TRUE] \in Session
        /\ [Counted(run.session) EXCEPT !.spent = TRUE].pending = Counted(run.session).pending
        /\ [Counted(run.session) EXCEPT !.spent = TRUE].state = Counted(run.session).state
    BY <2>1 DEF Session
  <2>3. Sound([Counted(run.session) EXCEPT !.spent = TRUE])
    BY <2>1, <2>2, SessionFields DEF Sound, Awaiting
  <2> QED
    BY <1>1, <1>4, <2>2, <2>3, FailKeeps DEF ModelSpends
<1>5. CASE ModelFinishes
  <2> DEFINE h == Append(run.session.history, Text)
             s == [Counted(run.session) EXCEPT !.state = "Finished", !.history = h]
  <2>1. /\ Counted(run.session) \in Session /\ Sound(Counted(run.session))
        /\ Counted(run.session).history = run.session.history
        /\ Counted(run.session).id = run.session.id
    BY <1>1, CountedTyped
  <2>2. h \in Seq(Message)
    BY <1>1, Messages
  <2>3. s = [Counted(run.session) EXCEPT !.history = Append(@, Text), !.state = "Finished"]
    BY <2>1 DEF Session
  <2>4. s \in Session /\ Sound(s)
    <3> HIDE DEF h
    <3> QED
      BY <2>1, <2>2, Amended DEF States
  <2>5. s.id = run.session.id
    BY <2>1 DEF Session
  <2> HIDE DEF s
  <2>6. PutBack(s) /\ Return(run.request, "text", <<>>, s.id) /\ UNCHANGED <<queue, cancel, verdict, runs>>
    BY <1>5, <2>3 DEF ModelFinishes, ReturnText
  <2> QED
    BY <1>1, <1>2, <2>4, <2>5, <2>6, PutsBack
<1>6. ASSUME NEW n \in 1..MaxBatch, ModelAsks(n)
      PROVE  SessionInv'
  <2> DEFINE calls == NewCalls(n)
             s == [Asked(run.session, calls) EXCEPT !.state = "AwaitingApproval", !.pending = calls]
  <2>1. calls \in Seq(Calls) /\ calls # <<>> /\ Len(calls) <= MaxBatch
    BY <1>6, NewCallsTyped DEF ModelAsks
  <2>2. verdict' \in [Calls -> {"new", "free", "asked", "granted", "denied"}]
    BY <1>6, Typed DEF ModelAsks, AskedAs
  <2>3. ReturnPending(run.request, s)
    BY <1>6 DEF ModelAsks
  <2> HIDE DEF calls
  <2>4. s \in Session /\ Sound(s) /\ Awaiting(s)
    BY <1>1, <2>1, AskedTyped
  <2> HIDE DEF s
  <2> QED
    BY <1>1, <2>2, <2>3, <2>4, PendingKeeps
<1>7. ASSUME NEW n \in 1..MaxBatch, ModelReads(n)
      PROVE  SessionInv'
  <2> DEFINE calls == NewCalls(n)
             s == [Asked(run.session, calls) EXCEPT !.state = "ExecutingTool"]
  <2>1. calls \in Seq(Calls) /\ calls # <<>> /\ Len(calls) <= MaxBatch
    BY <1>7, NewCallsTyped DEF ModelReads
  <2>2. verdict' \in [Calls -> {"new", "free", "asked", "granted", "denied"}]
    BY <1>7, Typed DEF ModelReads, AskedAs
  <2>3. IF OneTick(run.request)
        THEN ReturnText(run.request, s)
        ELSE GoOn(run.request, s, "top", <<>>) /\ UNCHANGED store
    BY <1>7 DEF ModelReads
  <2> HIDE DEF calls
  <2>4. s \in Session /\ Sound(s) /\ s.id = run.session.id
    BY <1>1, <2>1, AskedTyped
  <2> HIDE DEF s
  <2>5. CASE OneTick(run.request)
    <3>1. store' \in Session /\ Sound(store') /\ Return(run.request, "text", <<>>, s.id)
      BY <2>3, <2>4, <2>5 DEF ReturnText, PutBack
    <3> QED
      <4>1. Len(<<>>) <= MaxBatch
        BY Bounds
      <4> QED
        BY <1>1, <1>2, <2>2, <2>4, <3>1, <4>1, Returns, RunFields
  <2>6. CASE ~OneTick(run.request)
    BY <1>1, <1>2, <2>2, <2>3, <2>4, <2>6, Proceeds
  <2> QED
    BY <2>5, <2>6
<1> QED
  BY <1>3, <1>4, <1>5, <1>6, <1>7 DEF ModelStep

\* The next call of a batch starts, or the batch is done.
LEMMA NextToolKeeps ==
  ASSUME SessionInv, run # None, NEW s \in Session, Sound(s), NEW rest \in Seq(Calls),
         NextTool(run.request, s, rest)
  PROVE  SessionInv'
<1>1. UNCHANGED <<store, queue, cancel, verdict>> /\ <<>> \in Seq(Calls)
  BY DEF NextTool
<1>2. CASE rest = <<>>
  <2>1. GoOn(run.request, [s EXCEPT !.state = "Thinking"], "top", <<>>) /\ UNCHANGED runs
    BY <1>2 DEF NextTool
  <2>2. [s EXCEPT !.state = "Thinking"] \in Session /\ Sound([s EXCEPT !.state = "Thinking"])
    BY Amended, SessionFields DEF States
  <2> QED
    BY <1>1, <2>1, <2>2, Proceeds, Typed
<1>3. CASE rest # <<>>
  <2>1. GoOn(run.request, s, "exec", rest) /\ Started(Head(rest))
    BY <1>3 DEF NextTool
  <2>2. runs' \in [Calls -> Nat]
    BY <1>3, <2>1, Starts
  <2> QED
    BY <1>1, <1>3, <2>1, <2>2, Proceeds, Typed
<1> QED
  BY <1>2, <1>3

LEMMA ToolKeepsTypes ==
  ASSUME SessionInv, ToolStep
  PROVE  SessionInv'
<1>1. /\ run # None /\ run.session \in Session /\ Sound(run.session)
      /\ run.session.id \in Ids /\ run.todo \in Seq(Calls)
      /\ run.pc = "exec" => run.todo # <<>>
  BY RunFields, SessionFields
     DEF ToolStep, ToolReturns, ToolFailsForNow, EndBackoff, ToolFailsForGood, CancelTick,
         TimeOutTick, AtTool, AtAwait, AtItsPlace
<1> DEFINE answered1 == Resulted(run.session, Head(run.todo))
<1>2. ASSUME AtTool
      PROVE  answered1 \in Session /\ Sound(answered1) /\ Tail(run.todo) \in Seq(Calls)
  <2>1. Head(run.todo) \in Calls /\ Tail(run.todo) \in Seq(Calls)
    BY <1>1, <1>2 DEF AtTool
  <2>2. Append(run.session.history, Result(Head(run.todo))) \in Seq(Message)
    BY <1>1, <2>1, SessionFields, Messages
  <2>3. "Idle" \in States \ {"AwaitingApproval"}
    BY DEF States
  <2>4. answered1 = [run.session EXCEPT !.history = Append(run.session.history, Result(Head(run.todo)))]
    BY DEF Resulted
  <2> HIDE DEF answered1
  <2> QED
    BY <1>1, <2>1, <2>2, <2>3, <2>4, Amended
<1> HIDE DEF answered1
<1>3. CASE ToolReturns
  BY <1>1, <1>2, <1>3, NextToolKeeps DEF ToolReturns, answered1
<1>4. CASE ToolFailsForNow
  <2>1. AtTool /\ GoOn(run.request, answered1, "backoff", Tail(run.todo))
        /\ UNCHANGED <<store, queue, cancel, verdict, runs>>
    BY <1>4 DEF ToolFailsForNow, answered1
  <2> QED
    BY <1>1, <1>2, <2>1, Proceeds, Typed
<1>5. CASE EndBackoff
  BY <1>1, <1>5, NextToolKeeps DEF EndBackoff
<1>6. CASE ToolFailsForGood
  BY <1>1, <1>2, <1>6, FailKeeps DEF ToolFailsForGood, answered1
<1>7. CASE CancelTick
  BY <1>1, <1>7, PutsBack DEF CancelTick
<1>8. CASE TimeOutTick
  BY <1>1, <1>8, PutsBack, Typed DEF TimeOutTick, ReturnError
<1> QED
  BY <1>3, <1>4, <1>5, <1>6, <1>7, <1>8 DEF ToolStep

\* The kinds of steps of the system.
LEMMA Steps ==
  ASSUME [Next]_vars
  PROVE  \/ UserStep \/ StartSend \/ StartDecision \/ TakeNothing \/ TakeRejected
         \/ TakeApproved \/ FinishSingle \/ TickStep \/ ModelStep \/ ToolStep
         \/ UNCHANGED vars
BY DEF Next, HarnessStep, TickStep, ModelStep, ToolStep

\* Every step keeps the invariant.
LEMMA SessionStep ==
  ASSUME SessionInv, [Next]_vars
  PROVE  SessionInv'
<1>1. CASE UNCHANGED vars
  <2>1. Issued' = Issued
    BY <1>1 DEF vars, Issued, InProgress
  <2> QED
    BY <1>1, <2>1 DEF vars, SessionInv, TypeOK
<1> QED
  BY <1>1, Steps, UserKeepsTypes, StartKeepsTypes, TakeKeepsTypes, SingleKeepsTypes,
     TickKeepsTypes, ModelKeepsTypes, ToolKeepsTypes

\* The session has the type the code gives it, whatever the bounds and the user: a session
\* that waits for approval has calls to approve, an approved position is one of them, and
\* a command always has the session it works on.
THEOREM SessionInvariance == Spec => []SessionInv
<1>1. SessionInv /\ [Next]_vars => SessionInv'
  BY SessionStep
<1> QED
  BY SessionStart, <1>1, PTL DEF Spec

\* Type correctness of commands/agent.rs, the harness and the cards of the panel.
THEOREM SessionTypeCorrect == Spec => []TypeOK
<1>1. SessionInv => TypeOK
  BY DEF SessionInv
<1> QED
  BY SessionInvariance, <1>1, PTL

----------------------------------------------------------------------------
(* What becomes of the session that a command has.                         *)

\* A command that goes on has the session it goes on with.
LEMMA GoesHeld ==
  ASSUME NEW r \in Request, NEW s \in Session, NEW todo \in Seq(Calls),
         NEW pc \in {"single", "top", "llm", "exec", "backoff"}, GoOn(r, s, pc, todo)
  PROVE  /\ run' # None /\ run'.request = r /\ run'.session = s /\ run'.todo = todo /\ run'.pc = pc
         /\ UNCHANGED <<card, view, answered, db, left, aimed, dropped>>
<1> DEFINE cmd == [request |-> r, session |-> s, todo |-> todo, pc |-> pc]
<1>1. cmd \in Run
  BY DEF Run
<1>2. run' = cmd /\ UNCHANGED <<card, view, answered, db, left, aimed, dropped>>
  BY DEF GoOn
<1>3. cmd # None
  BY <1>1, NoneAssumption
<1> QED
  BY <1>2, <1>3

\* The command goes on with the session it had.
GoneOn ==
  /\ run' # None /\ run'.session \in Session /\ run'.session.id = run.session.id
  /\ run'.request = run.request /\ run'.pc \in {"top", "llm", "exec", "backoff"}
  /\ UNCHANGED <<card, view, answered, store>>

\* It returns, and the session it had is in the store.
GivenBack ==
  /\ run' = None /\ answered' = answered + 1
  /\ store' \in Session /\ store'.id = run.session.id
  /\ view' \in {view, Pending, run.session.id}

\* It returns, and the session it had is lost.
Lost ==
  /\ run' = None /\ answered' = answered + 1 /\ UNCHANGED <<store, view>>
  /\ FailStep

LEMMA FailOutcome ==
  ASSUME SessionInv, run # None, NEW s \in Session, s.id = run.session.id, Fail(run.request, s),
         ~OneTick(run.request) => FailStep
  PROVE  (GivenBack \/ Lost) /\ UNCHANGED <<db, left, aimed, dropped>>
<1>1. [s EXCEPT !.state = "Error"] \in Session /\ [s EXCEPT !.state = "Error"].id = s.id
  BY DEF Session
<1>2. /\ run' = None /\ answered' = answered + 1 /\ view' = view
      /\ UNCHANGED <<db, left, aimed, dropped>>
  BY DEF Fail, ReturnError, Return
<1>3. CASE OneTick(run.request)
  BY <1>1, <1>2, <1>3 DEF Fail, PutBack, GivenBack
<1>4. CASE ~OneTick(run.request)
  BY <1>2, <1>4 DEF Fail, Lost
<1> QED
  BY <1>3, <1>4

LEMMA BackOutcome ==
  ASSUME SessionInv, run # None, NEW s \in Session, s.id = run.session.id, PutBack(s),
         NEW kind, NEW calls, NEW w \in {view, Pending, s.id}, Return(run.request, kind, calls, w)
  PROVE  GivenBack /\ UNCHANGED <<db, left, aimed, dropped>>
BY DEF PutBack, Return, GivenBack

LEMMA PendingOutcome ==
  ASSUME SessionInv, run # None, NEW s \in Session, s.id = run.session.id,
         ReturnPending(run.request, s) \/ ReturnRest(run.request, s)
  PROVE  GivenBack /\ UNCHANGED <<db, left, aimed, dropped>>
<1>1. CASE ReturnRest(run.request, s)
  BY <1>1, BackOutcome DEF ReturnRest
<1>2. CASE ReturnPending(run.request, s)
  BY <1>2, BackOutcome DEF ReturnPending
<1> QED
  BY <1>1, <1>2

LEMMA GoOutcome ==
  ASSUME SessionInv, run # None, NEW s \in Session, s.id = run.session.id,
         NEW todo \in Seq(Calls), NEW pc \in {"top", "llm", "exec", "backoff"},
         GoOn(run.request, s, pc, todo), UNCHANGED store
  PROVE  GoneOn /\ UNCHANGED <<db, left, aimed, dropped>>
<1>1. run.request \in Request
  BY RunFields
<1> QED
  BY <1>1, GoesHeld DEF GoneOn

\* A step of a command that has a session goes on with it, gives it back or fails.
LEMMA Outcomes ==
  ASSUME SessionInv, FinishSingle \/ TickStep \/ ModelStep \/ ToolStep
  PROVE  /\ run # None /\ run.session \in Session /\ run.pc # "take"
         /\ GoneOn \/ GivenBack \/ Lost
         /\ UNCHANGED <<queue, db, left, aimed, dropped>>
<1>1. /\ run # None /\ run.session \in Session /\ run.pc # "take"
      /\ run.session.id \in Ids /\ run.todo \in Seq(Calls)
      /\ run.request \in Request /\ Sound(run.session) /\ AtItsPlace(run) /\ UNCHANGED queue
  BY RunFields, SessionFields
     DEF FinishSingle, TickStep, CancelAtTop, TickSpent, TickLimit, TickThink, TickExecute,
         TickNoCalls, TickAwait, AtTick, ModelStep, ModelFails, ModelSpends, ModelFinishes,
         ModelAsks, ModelReads, AtModel, ToolStep, ToolReturns, ToolFailsForNow, EndBackoff,
         ToolFailsForGood, CancelTick, TimeOutTick, AtTool, AtAwait, NextTool
<1>2. <<>> \in Seq(Calls)
  OBVIOUS
<1> DEFINE Goal == (GoneOn \/ GivenBack \/ Lost) /\ UNCHANGED <<db, left, aimed, dropped>>
<1>3. CASE FinishSingle
  <2> DEFINE s == Settled(run.session, run.request.index)
  <2>1. run.request.index \in DOMAIN run.session.pending
    BY <1>1, <1>3 DEF AtItsPlace, FinishSingle
  <2>2. s \in Session /\ s.id = run.session.id
    BY <1>1, <2>1, SettledTyped
  <2>3. \/ ReturnRest(run.request, s)
        \/ GoOn(run.request, s, "top", <<>>) /\ UNCHANGED store
    BY <1>3 DEF FinishSingle
  <2> HIDE DEF s
  <2> QED
    BY <1>1, <1>2, <2>2, <2>3, PendingOutcome, GoOutcome
<1>4. CASE TickStep
  <2>1. CASE CancelAtTop
    BY <1>1, <2>1, BackOutcome DEF CancelAtTop
  <2>2. CASE TickSpent \/ TickNoCalls
    BY <1>1, <2>2, FailOutcome DEF TickSpent, TickNoCalls, FailStep
  <2>3. CASE TickLimit
    <3> DEFINE s == [run.session EXCEPT !.state = "Finished", !.pending = <<>>]
    <3>1. s \in Session /\ s.id = run.session.id
      BY <1>1, <1>2 DEF Session
    <3> HIDE DEF s
    <3>2. PutBack(s) /\ Return(run.request, "text", <<>>, s.id)
      BY <2>3 DEF TickLimit, ReturnText, s
    <3> QED
      BY <1>1, <3>1, <3>2, BackOutcome
  <2>4. CASE TickThink
    <3> DEFINE h == Compacted(run.session.history)
               s == [run.session EXCEPT !.state = "Thinking", !.history = h]
    <3>1. h \in Seq(Message)
      BY <1>1, SessionFields, CompactedTyped
    <3>2. s = [run.session EXCEPT !.state = "Thinking", !.history = Compacted(@)]
      OBVIOUS
    <3> HIDE DEF h
    <3>3. s \in Session /\ s.id = run.session.id
      BY <1>1, <3>1 DEF Session
    <3> HIDE DEF s
    <3>4. GoOn(run.request, s, "llm", <<>>) /\ UNCHANGED store
      BY <2>4, <3>2 DEF TickThink
    <3> QED
      BY <1>1, <1>2, <3>3, <3>4, GoOutcome
  <2>5. CASE TickExecute
    <3>1. LastCalls(run.session.history) \in Seq(Calls)
      BY <1>1, SessionFields, LastCallsTyped
    <3> QED
      BY <1>1, <2>5, <3>1, GoOutcome DEF TickExecute
  <2>6. CASE TickAwait
    BY <1>1, <2>6, PendingOutcome DEF TickAwait
  <2> QED
    BY <1>4, <2>1, <2>2, <2>3, <2>4, <2>5, <2>6 DEF TickStep
<1>5. CASE ModelStep
  <2>1. Able(run.session)
    BY <1>1, <1>5 DEF ModelStep, ModelFails, ModelSpends, ModelFinishes, ModelAsks, ModelReads,
                      AtModel, AtItsPlace
  <2>2. CASE ModelFails
    BY <1>1, <2>2, FailOutcome DEF ModelFails, FailStep
  <2>3. Counted(run.session) \in Session /\ Counted(run.session).id = run.session.id
        /\ Counted(run.session).history = run.session.history
    BY <1>1, <2>1, CountedTyped
  <2>4. CASE ModelSpends
    <3>1. /\ [Counted(run.session) EXCEPT !.spent = TRUE] \in Session
          /\ [Counted(run.session) EXCEPT !.spent = TRUE].id = run.session.id
      BY <2>3 DEF Session
    <3> QED
      BY <1>1, <2>4, <3>1, FailOutcome DEF ModelSpends, FailStep
  <2>5. CASE ModelFinishes
    <3> DEFINE h == Append(run.session.history, Text)
               s == [Counted(run.session) EXCEPT !.history = h, !.state = "Finished"]
    <3>1. h \in Seq(Message)
      BY <1>1, SessionFields, Messages
    <3>2. s = [Counted(run.session) EXCEPT !.history = Append(@, Text), !.state = "Finished"]
      BY <2>3 DEF Session
    <3> HIDE DEF h
    <3>3. s \in Session /\ s.id = run.session.id
      BY <2>3, <3>1 DEF Session
    <3> HIDE DEF s
    <3>4. PutBack(s) /\ Return(run.request, "text", <<>>, s.id)
      BY <2>5, <3>2 DEF ModelFinishes, ReturnText
    <3> QED
      BY <1>1, <3>3, <3>4, BackOutcome
  <2>6. ASSUME NEW n \in 1..MaxBatch, ModelAsks(n) \/ ModelReads(n)
        PROVE  Goal
    <3> DEFINE calls == NewCalls(n)
               e == [Asked(run.session, calls) EXCEPT !.state = "ExecutingTool"]
               p == [Asked(run.session, calls) EXCEPT !.state = "AwaitingApproval", !.pending = calls]
    <3>1. calls \in Seq(Calls) /\ calls # <<>> /\ Len(calls) <= MaxBatch
      BY <2>6, NewCallsTyped DEF ModelAsks, ModelReads
    <3>2. \/ ReturnPending(run.request, p)
          \/ PutBack(e) /\ Return(run.request, "text", <<>>, e.id)
          \/ GoOn(run.request, e, "top", <<>>) /\ UNCHANGED store
      BY <2>6 DEF ModelAsks, ModelReads, ReturnText
    <3> HIDE DEF calls
    <3>3. e \in Session /\ e.id = run.session.id /\ p \in Session /\ p.id = run.session.id
      BY <1>1, <2>1, <3>1, AskedTyped
    <3> HIDE DEF e, p
    <3> QED
      BY <1>1, <1>2, <3>2, <3>3, PendingOutcome, BackOutcome, GoOutcome
  <2> QED
    BY <1>1, <1>5, <2>2, <2>4, <2>5, <2>6 DEF ModelStep
<1>6. CASE ToolStep
  <2> DEFINE h == Append(run.session.history, Result(Head(run.todo)))
             a == [run.session EXCEPT !.history = h]
  <2>1. ASSUME AtTool
        PROVE  /\ a \in Session /\ a.id = run.session.id /\ Tail(run.todo) \in Seq(Calls)
               /\ Resulted(run.session, Head(run.todo)) = a
    <3>1. Head(run.todo) \in Calls /\ Tail(run.todo) \in Seq(Calls)
      BY <1>1, <2>1 DEF AtTool, AtItsPlace
    <3>2. h \in Seq(Message)
      BY <1>1, <3>1, SessionFields, Messages
    <3>3. Resulted(run.session, Head(run.todo)) = a
      BY DEF Resulted
    <3> HIDE DEF h
    <3>4. a \in Session /\ a.id = run.session.id
      BY <1>1, <3>2 DEF Session
    <3> QED
      BY <3>1, <3>3, <3>4
  <2> HIDE DEF a
  <2>2. ASSUME NEW s \in Session, s.id = run.session.id, NEW rest \in Seq(Calls),
               NextTool(run.request, s, rest)
        PROVE  Goal
    <3>1. [s EXCEPT !.state = "Thinking"] \in Session /\ [s EXCEPT !.state = "Thinking"].id = s.id
      BY DEF Session
    <3> QED
      BY <1>1, <1>2, <2>2, <3>1, GoOutcome DEF NextTool
  <2>3. CASE ToolReturns
    BY <1>1, <2>1, <2>2, <2>3 DEF ToolReturns
  <2>4. CASE ToolFailsForNow
    BY <1>1, <2>1, <2>4, GoOutcome DEF ToolFailsForNow
  <2>5. CASE EndBackoff
    BY <1>1, <2>2, <2>5 DEF EndBackoff
  <2>6. CASE ToolFailsForGood
    BY <1>1, <2>1, <2>6, FailOutcome DEF ToolFailsForGood, FailStep
  <2>7. CASE CancelTick \/ TimeOutTick
    BY <1>1, <2>7, BackOutcome DEF CancelTick, TimeOutTick, ReturnError
  <2> QED
    BY <1>6, <2>3, <2>4, <2>5, <2>6, <2>7 DEF ToolStep
<1> QED
  BY <1>1, <1>3, <1>4, <1>5, <1>6

\* Whatever ends a command but the error of a loop leaves its session in the store.
LEMMA ComesBack ==
  ASSUME SessionInv, [Next]_vars, Held # None, Held' = None, ~FailStep
  PROVE  store' # None /\ store'.id = Held.id
<1>1. run # None /\ run.session # None /\ Held = run.session /\ run.pc # "take"
  BY RunFields DEF Held
<1>2. CASE FinishSingle \/ TickStep \/ ModelStep \/ ToolStep
  <2>1. CASE GoneOn
    BY <2>1, SessionFields DEF GoneOn, Held
  <2>2. CASE GivenBack
    BY <1>1, <2>2, SessionFields DEF GivenBack
  <2>3. CASE Lost
    BY <2>3 DEF Lost
  <2> QED
    BY <1>2, <2>1, <2>2, <2>3, Outcomes
<1>3. CASE UserStep \/ UNCHANGED vars
  <2>1. run' = run
    BY <1>3 DEF UserStep, vars, SendMessage, ApproveTool, RejectTool, ApproveCard, RejectCard,
                Issue, Cancel, Reset, Load, ShowOpened, NewChatFails, Open, RemindOfWorkspace, Save
  <2> QED
    BY <2>1 DEF Held
<1>4. CASE StartSend \/ StartDecision \/ TakeNothing \/ TakeRejected \/ TakeApproved
  BY <1>1, <1>4 DEF StartSend, StartDecision, TakeNothing, TakeRejected, TakeApproved
<1> QED
  BY <1>2, <1>3, <1>4, Steps

\* agent_cancel, the timeout of a tick and the end of a rejection put the session that
\* the command took back into the store (agent_session of commands/agent.rs): a stop or a
\* slow model never costs the user the conversation.
THEOREM SessionComesBack == Spec => HeldSessionComesBack
<1>1. SessionInv /\ [Next]_vars
        => [Held # None /\ Held' = None /\ ~FailStep => store' # None /\ store'.id = Held.id]_vars
  BY ComesBack
<1> QED
  BY SessionInvariance, <1>1, PTL DEF Spec, HeldSessionComesBack

----------------------------------------------------------------------------
(* What a message may run.                                                 *)

\* The calls to execute are those of a message that was just added, if it asks for any.
LEMMA LastCallsOfAppend ==
  ASSUME NEW h \in Seq(Message), NEW m \in Message
  PROVE  LastCalls(Append(h, m)) = IF IsCalls(m) THEN m.calls ELSE LastCalls(h)
<1> DEFINE g == Append(h, m)
           asks == {i \in DOMAIN h : IsCalls(h[i])}
           more == {i \in DOMAIN g : IsCalls(g[i])}
           n == Len(h)
<1>1. /\ n \in Nat /\ DOMAIN h = 1..n /\ DOMAIN g = 1..(n + 1)
      /\ g[n + 1] = m /\ \A i \in 1..n : g[i] = h[i]
  OBVIOUS
<1>2. LastCalls(g) = IF more = {} THEN <<>> ELSE g[Last(more)].calls
  BY DEF LastCalls
<1>3. LastCalls(h) = IF asks = {} THEN <<>> ELSE h[Last(asks)].calls
  BY DEF LastCalls
<1>4. asks \subseteq 1..n /\ more \subseteq 1..(n + 1)
  BY <1>1
<1>5. CASE IsCalls(m)
  <2>1. n + 1 \in more
    BY <1>1, <1>5
  <2>2. Last(more) \in more /\ \A j \in more : j <= Last(more)
    <3> HIDE DEF more, n
    <3>1. n + 1 \in Nat /\ more # {}
      BY <1>1, <2>1
    <3> QED
      BY <1>4, <3>1, LastIsLargest
  <2>3. Last(more) = n + 1
    <3> HIDE DEF more, n
    <3>1. Last(more) \in 1..(n + 1) /\ n + 1 <= Last(more)
      BY <1>4, <2>1, <2>2
    <3> QED
      BY <1>1, <3>1
  <2> QED
    BY <1>1, <1>2, <1>5, <2>1, <2>3
<1>6. CASE ~IsCalls(m)
  <2>1. more = asks
    <3>1. n + 1 \notin more
      BY <1>1, <1>6
    <3>2. \A i \in 1..n : i \in more <=> i \in asks
      BY <1>1
    <3> HIDE DEF more, asks, n
    <3>3. \A i : i \in 1..(n + 1) <=> i \in 1..n \/ i = n + 1
      BY <1>1
    <3> QED
      BY <1>4, <3>1, <3>2, <3>3
  <2>2. CASE asks = {}
    BY <1>2, <1>3, <1>6, <2>1, <2>2
  <2>3. CASE asks # {}
    <3>1. Last(asks) \in 1..n
      <4> HIDE DEF asks, n
      <4> QED
        BY <1>1, <1>4, <2>3, LastIsLargest
    <3> QED
      BY <1>1, <1>2, <1>3, <1>6, <2>1, <2>3, <3>1
  <2> QED
    BY <2>2, <2>3
<1> QED
  BY <1>5, <1>6

\* Which messages ask for calls.
LEMMA Asking ==
  /\ ~IsCalls(User) /\ ~IsCalls(Text) /\ ~IsCalls(Notice)
  /\ \A c \in Calls : ~IsCalls(Result(c)) /\ Result(c).calls = <<c>>
  /\ \A calls \in Seq(Calls) : calls # <<>> => IsCalls(Asks(calls)) /\ Asks(calls).calls = calls
BY DEF IsCalls, User, Text, Notice, Result, Asks

\* What the user does changes no command and runs no call, and never takes back that a
\* call is free.
LEMMA UserRuns ==
  ASSUME SessionInv, UserStep
  PROVE  /\ UNCHANGED <<run, runs, answered>>
         /\ \A c \in Calls : verdict[c] \notin {"asked"} => verdict'[c] = verdict[c]
<1>1. CASE \/ SendMessage \/ Cancel \/ Reset \/ NewChatFails \/ RemindOfWorkspace \/ Save
           \/ \E id \in Ids : Load(id)
           \/ \E id \in left.shows : ShowOpened(id)
  BY <1>1 DEF SendMessage, Issue, Cancel, Reset, Load, ShowOpened, NewChatFails, Open, RemindOfWorkspace, Save, userVars
<1>2. ASSUME NEW positions, NEW v, NEW op, NEW index, Click(positions, v), Issue(op, index)
      PROVE  /\ UNCHANGED <<run, runs, answered>>
             /\ \A c \in Calls : verdict[c] \notin {"asked"} => verdict'[c] = verdict[c]
  BY <1>2 DEF Click, Issue
<1> QED
  BY <1>1, <1>2 DEF UserStep, ApproveTool, RejectTool, ApproveCard, RejectCard

\* A call that starts is the only one that does.
LEMMA OneStarts ==
  ASSUME SessionInv, NEW c \in Calls, Started(c)
  PROVE  /\ \A d \in Calls : d # c => runs'[d] = runs[d]
         /\ runs'[c] = runs[c] + 1
BY Typed DEF Started

\* The head of a sequence and what follows are its members.
LEMMA HeadAndTail ==
  ASSUME NEW seq \in Seq(Calls), seq # <<>>
  PROVE  /\ Head(seq) \in Calls /\ Tail(seq) \in Seq(Calls)
         /\ Head(seq) \in Members(seq) /\ Members(Tail(seq)) \subseteq Members(seq)
<1>1. /\ Len(seq) \in Nat /\ Len(seq) > 0 /\ DOMAIN seq = 1..Len(seq)
      /\ Tail(seq) \in Seq(Calls) /\ Len(Tail(seq)) = Len(seq) - 1
      /\ DOMAIN Tail(seq) = 1..(Len(seq) - 1)
      /\ \A i \in 1..(Len(seq) - 1) : Tail(seq)[i] = seq[i + 1]
  OBVIOUS
<1>2. Head(seq) = seq[1] /\ 1 \in DOMAIN seq
  BY <1>1
<1>3. ASSUME NEW i \in DOMAIN Tail(seq)
      PROVE  Tail(seq)[i] \in Members(seq)
  <2>1. i + 1 \in DOMAIN seq
    BY <1>1
  <2> QED
    BY <1>1, <2>1 DEF Members
<1> QED
  BY <1>1, <1>2, <1>3 DEF Members

\* What a message runs next: it starts with nothing to run, and the calls it gets are
\* those the model asks for as reads.
LEMMA ReadsStep ==
  ASSUME SessionInv, OnlyReads, [Next]_vars
  PROVE  /\ OnlyReads'
         /\ \A c \in Calls : runs'[c] > runs[c] /\ run'.request.op = "send" => verdict'[c] = "free"
<1> DEFINE Goal == /\ OnlyReads'
                   /\ \A c \in Calls :
                        runs'[c] > runs[c] /\ run'.request.op = "send" => verdict'[c] = "free"
<1>1. ASSUME UNCHANGED runs
      PROVE  \A c \in Calls : ~ runs'[c] > runs[c]
  BY <1>1, Typed
<1>2. ASSUME run' = None, UNCHANGED runs
      PROVE  Goal
  BY <1>1, <1>2 DEF OnlyReads
<1>3. ASSUME run' # None => run'.request.op # "send", run' = None => UNCHANGED runs
      PROVE  Goal
  BY <1>1, <1>3 DEF OnlyReads
<1>4. ASSUME run # None, run.request.op = "send",
             NEW s \in Session, NEW todo \in Seq(Calls), NEW pc \in {"top", "llm", "exec", "backoff"},
             GoOn(run.request, s, pc, todo),
             \/ UNCHANGED runs
             \/ \E c \in Calls : Started(c) /\ verdict[c] = "free" /\ UNCHANGED verdict,
             \A c \in Members(Upcoming([pc |-> pc, session |-> s, todo |-> todo])) : verdict'[c] = "free"
      PROVE  Goal
  <2>1. /\ run' # None /\ run'.request = run.request /\ run'.session = s
        /\ run'.todo = todo /\ run'.pc = pc
    BY <1>4, GoesHeld, RunFields
  <2>2. Upcoming(run') = Upcoming([pc |-> pc, session |-> s, todo |-> todo])
    BY <2>1 DEF Upcoming
  <2>3. OnlyReads'
    BY <1>4, <2>1, <2>2 DEF OnlyReads
  <2>4. ASSUME NEW c \in Calls, runs'[c] > runs[c]
        PROVE  verdict'[c] = "free"
    <3>1. PICK d \in Calls : Started(d) /\ verdict[d] = "free" /\ UNCHANGED verdict
      BY <1>1, <1>4, <2>4
    <3>2. c = d
      BY <2>4, <3>1, OneStarts, Typed
    <3> QED
      BY <3>1, <3>2
  <2> QED
    BY <2>3, <2>4
<1>5. ASSUME run # None, run.request.op # "send", run' # None => run'.request = run.request,
             run' = None => UNCHANGED runs
      PROVE  Goal
  BY <1>3, <1>5
<1>6. CASE UserStep
  <2>1. ASSUME run # None
        PROVE  Upcoming(run)' = Upcoming(run) /\ Members(Upcoming(run)) \subseteq Calls
    <3>1. run.todo \in Seq(Calls) /\ (run.pc = "exec" => run.todo # <<>>)
          /\ (run.pc = "top" => run.session \in Session)
      BY <2>1, RunFields DEF AtItsPlace
    <3>2. Upcoming(run) \in Seq(Calls)
      BY <3>1, LastCallsTyped, SessionFields, HeadAndTail DEF Upcoming
    <3> QED
      BY <1>6, <3>2, UserRuns DEF Members
  <2> QED
    BY <1>1, <1>6, <2>1, UserRuns DEF OnlyReads
<1>7. CASE UNCHANGED vars
  BY <1>1, <1>7 DEF vars, OnlyReads
<1>8. CASE StartDecision
  <2>1. CASE Awaiting(store)
    BY <1>3, <1>8, <2>1 DEF StartDecision, GoOn
  <2>2. CASE ~Awaiting(store)
    BY <1>2, <1>8, <2>2 DEF StartDecision, ReturnError, Return
  <2> QED
    BY <2>1, <2>2
<1>9. CASE StartSend
  <2>1. CASE ReturnError(Head(queue))
    BY <1>2, <1>9, <2>1 DEF StartSend, ReturnError, Return
  <2>2. ASSUME NEW s \in Session, GoOn(Head(queue), Sent(s), "top", <<>>)
        PROVE  Goal
    <3>1. Sent(s).state # "ExecutingTool"
      BY DEF Sent, Session
    <3>2. UNCHANGED runs
      BY <1>9 DEF StartSend
    <3>3. run'.pc = "top" /\ run'.session = Sent(s)
      BY <2>2 DEF GoOn
    <3>4. Upcoming(run') = <<>>
      BY <3>1, <3>3 DEF Upcoming
    <3> QED
      BY <1>1, <3>2, <3>4 DEF OnlyReads, Members
  <2>3. queue # <<>> /\ (store = None \/ store \in Session)
    BY <1>9, Typed DEF StartSend
  <2> QED
    BY <1>9, <2>1, <2>2, <2>3, FreshTyped DEF StartSend
<1>10. CASE TakeNothing \/ TakeRejected \/ TakeApproved \/ FinishSingle
  <2>1. run # None /\ run.request.op # "send"
    BY <1>10, RunFields DEF TakeNothing, TakeRejected, TakeApproved, FinishSingle, AtItsPlace
  <2>2. run' # None => run'.request = run.request
    BY <1>10 DEF TakeNothing, TakeRejected, TakeApproved, FinishSingle, GoOn, ReturnRest,
                 ReturnError, Return
  <2>3. run' = None => UNCHANGED runs
    <3>1. CASE TakeNothing \/ TakeRejected \/ FinishSingle
      BY <3>1 DEF TakeNothing, TakeRejected, FinishSingle
    <3>2. CASE TakeApproved
      <4>1. /\ run.request \in Request /\ store \in Session /\ <<>> \in Seq(Calls)
            /\ store.pending \in Seq(Calls)
        BY <3>2, RunFields, Typed, SessionFields DEF TakeApproved
      <4>2. [store EXCEPT !.state = "ExecutingTool", !.pending = <<>>] \in Session
        BY <4>1, Emptied, SessionFields DEF States
      <4>3. run.request.index \in DOMAIN PendingOf(store)
              => <<store.pending[run.request.index]>> \in Seq(Calls)
        BY <4>1 DEF PendingOf
      <4>4. run' # None
        BY <3>2, <4>1, <4>2, <4>3, GoesHeld DEF TakeApproved
      <4> QED
        BY <4>4
    <3> QED
      BY <1>10, <3>1, <3>2
  <2> QED
    BY <1>5, <2>1, <2>2, <2>3
<1>11. ASSUME run # None, NEW s \in Session, NEW rest \in Seq(Calls), NextTool(run.request, s, rest),
              run.request.op = "send" => \A c \in Members(rest) : verdict[c] = "free"
       PROVE  Goal
  <2>1. UNCHANGED verdict /\ run'.request = run.request
    BY <1>11 DEF NextTool, GoOn
  <2>2. CASE rest = <<>>
    <3> DEFINE t == [s EXCEPT !.state = "Thinking"]
    <3>1. GoOn(run.request, t, "top", <<>>) /\ UNCHANGED runs
      BY <1>11, <2>2 DEF NextTool
    <3>2. t \in Session /\ t.state = "Thinking" /\ <<>> \in Seq(Calls)
      BY DEF Session
    <3> HIDE DEF t
    <3>3. Upcoming([pc |-> "top", session |-> t, todo |-> <<>>]) = <<>>
      BY <3>2 DEF Upcoming
    <3>4. Members(Upcoming([pc |-> "top", session |-> t, todo |-> <<>>])) = {}
      BY <3>3 DEF Members
    <3> QED
      BY <1>3, <1>4, <1>11, <2>1, <3>1, <3>2, <3>4, RunFields, GoesHeld
  <2>3. CASE rest # <<>>
    <3>1. GoOn(run.request, s, "exec", rest) /\ Started(Head(rest))
      BY <1>11, <2>3 DEF NextTool
    <3>2. /\ Head(rest) \in Calls /\ Head(rest) \in Members(rest)
          /\ Members(Tail(rest)) \subseteq Members(rest)
      BY <1>11, <2>3, HeadAndTail
    <3>3. Upcoming([pc |-> "exec", session |-> s, todo |-> rest]) = Tail(rest)
      BY DEF Upcoming
    <3> QED
      BY <1>3, <1>4, <1>11, <2>1, <3>1, <3>2, <3>3, RunFields, GoesHeld
  <2> QED
    BY <2>2, <2>3
<1>12. CASE TickStep
  <2>1. CASE CancelAtTop \/ TickSpent \/ TickLimit \/ TickNoCalls \/ TickAwait
    BY <1>2, <2>1 DEF CancelAtTop, TickSpent, TickLimit, TickNoCalls, TickAwait, Fail,
                      ReturnText, ReturnError, ReturnPending, Return
  <2>2. CASE TickThink
    <3>1. run'.pc = "llm" /\ UNCHANGED runs
      BY <2>2 DEF TickThink, GoOn
    <3> QED
      BY <1>1, <3>1 DEF OnlyReads, Upcoming, Members
  <2>3. CASE TickExecute
    <3> DEFINE calls == LastCalls(run.session.history)
    <3>1. /\ run # None /\ run.pc = "top" /\ run.session.state = "ExecutingTool"
          /\ calls # <<>> /\ GoOn(run.request, run.session, "exec", calls)
          /\ Started(Head(calls)) /\ UNCHANGED verdict
      BY <2>3 DEF TickExecute, AtTick
    <3>2. run.session \in Session /\ calls \in Seq(Calls)
      BY <3>1, RunFields, SessionFields, LastCallsTyped
    <3>3. Upcoming(run) = calls
      BY <3>1 DEF Upcoming
    <3> HIDE DEF calls
    <3>4. /\ Head(calls) \in Calls /\ Head(calls) \in Members(calls)
          /\ Members(Tail(calls)) \subseteq Members(calls)
      BY <3>1, <3>2, HeadAndTail
    <3>5. Upcoming([pc |-> "exec", session |-> run.session, todo |-> calls]) = Tail(calls)
      BY DEF Upcoming
    <3>6. run' # None /\ run'.request = run.request
      BY <3>1, <3>2, RunFields, GoesHeld
    <3>7. run.request.op = "send" => \A c \in Members(calls) : verdict[c] = "free"
      BY <3>1, <3>3 DEF OnlyReads
    <3> QED
      BY <1>3, <1>4, <3>1, <3>2, <3>4, <3>5, <3>6, <3>7
  <2> QED
    BY <1>12, <2>1, <2>2, <2>3 DEF TickStep
<1>13. CASE ModelStep
  <2>1. CASE ModelFails \/ ModelSpends \/ ModelFinishes \/ \E n \in 1..MaxBatch : ModelAsks(n)
    BY <1>2, <2>1 DEF ModelFails, ModelSpends, ModelFinishes, ModelAsks, Fail, ReturnText,
                      ReturnError, ReturnPending, Return
  <2>2. ASSUME NEW n \in 1..MaxBatch, ModelReads(n)
        PROVE  Goal
    <3> DEFINE calls == NewCalls(n)
               e == [Asked(run.session, calls) EXCEPT !.state = "ExecutingTool"]
    <3>1. /\ run # None /\ UNCHANGED runs /\ AskedAs(calls, "free")
          /\ \/ ReturnText(run.request, e)
             \/ GoOn(run.request, e, "top", <<>>)
      BY <2>2 DEF ModelReads, AtModel
    <3>2. run.session \in Session /\ Sound(run.session) /\ Able(run.session)
      BY <2>2, RunFields DEF ModelReads, AtModel, AtItsPlace
    <3>3. calls \in Seq(Calls) /\ calls # <<>> /\ Len(calls) <= MaxBatch
      BY <2>2, NewCallsTyped DEF ModelReads
    <3> HIDE DEF calls
    <3>4. /\ e \in Session /\ e.state = "ExecutingTool"
          /\ e.history = Append(run.session.history, Asks(calls))
      BY <3>2, <3>3, AskedTyped
    <3>5. LastCalls(e.history) = calls
      <4>1. /\ Asks(calls) \in Message /\ IsCalls(Asks(calls)) /\ Asks(calls).calls = calls
            /\ run.session.history \in Seq(Message)
        BY <3>2, <3>3, SessionFields, Messages, Asking
      <4> QED
        BY <3>4, <4>1, LastCallsOfAppend
    <3> HIDE DEF e
    <3>6. CASE ReturnText(run.request, e)
      BY <1>2, <3>1, <3>6 DEF ReturnText, Return
    <3>7. CASE GoOn(run.request, e, "top", <<>>)
      <4>1. Upcoming([pc |-> "top", session |-> e, todo |-> <<>>]) = calls
        BY <3>4, <3>5 DEF Upcoming
      <4>2. \A c \in Members(calls) : verdict'[c] = "free"
        BY <3>1, <3>3 DEF AskedAs, Members
      <4>3. run' # None => run'.request = run.request
        BY <3>7 DEF GoOn
      <4> QED
        <5>1. <<>> \in Seq(Calls)
          OBVIOUS
        <5>2. CASE run.request.op = "send"
          BY <1>4, <3>1, <3>4, <3>7, <4>1, <4>2, <5>1, <5>2
        <5>3. CASE run.request.op # "send"
          BY <1>3, <3>1, <4>3, <5>3
        <5> QED
          BY <5>2, <5>3
    <3> QED
      BY <3>1, <3>6, <3>7
  <2> QED
    BY <1>13, <2>1, <2>2 DEF ModelStep
<1>14. CASE ToolStep
  <2>1. CASE ToolFailsForGood \/ CancelTick \/ TimeOutTick
    BY <1>2, <2>1 DEF ToolFailsForGood, CancelTick, TimeOutTick, Fail, ReturnError, Return
  <2>2. ASSUME AtTool
        PROVE  /\ run # None /\ Resulted(run.session, Head(run.todo)) \in Session
               /\ Tail(run.todo) \in Seq(Calls)
               /\ run.request.op = "send" => \A c \in Members(Tail(run.todo)) : verdict[c] = "free"
    <3>1. /\ run # None /\ run.pc = "exec" /\ run.session \in Session
          /\ run.todo \in Seq(Calls) /\ run.todo # <<>>
      BY <2>2, RunFields DEF AtTool, AtItsPlace
    <3>2. Head(run.todo) \in Calls /\ Tail(run.todo) \in Seq(Calls)
      BY <3>1
    <3>3. Append(run.session.history, Result(Head(run.todo))) \in Seq(Message)
      BY <3>1, <3>2, SessionFields, Messages
    <3>4. Resulted(run.session, Head(run.todo)) \in Session
      BY <3>1, <3>3 DEF Resulted, Session
    <3>5. Upcoming(run) = Tail(run.todo)
      BY <3>1 DEF Upcoming
    <3> QED
      BY <3>1, <3>2, <3>4, <3>5 DEF OnlyReads
  <2>3. CASE ToolReturns
    BY <1>11, <2>2, <2>3 DEF ToolReturns
  <2>4. CASE ToolFailsForNow
    <3>1. AtTool /\ UNCHANGED <<verdict, runs>>
          /\ GoOn(run.request, Resulted(run.session, Head(run.todo)), "backoff", Tail(run.todo))
      BY <2>4 DEF ToolFailsForNow
    <3>2. Upcoming([pc |-> "backoff", session |-> Resulted(run.session, Head(run.todo)),
                    todo |-> Tail(run.todo)]) = Tail(run.todo)
      BY DEF Upcoming
    <3>3. run'.request = run.request
      BY <3>1 DEF GoOn
    <3> QED
      BY <1>1, <1>3, <1>4, <2>2, <3>1, <3>2, <3>3, GoesHeld, RunFields
  <2>5. CASE EndBackoff
    <3>1. run # None /\ run.pc = "backoff" /\ run.session \in Session /\ run.todo \in Seq(Calls)
      BY <2>5, RunFields DEF EndBackoff
    <3>2. Upcoming(run) = run.todo
      BY <3>1 DEF Upcoming
    <3> QED
      BY <1>11, <2>5, <3>1, <3>2 DEF EndBackoff, OnlyReads
  <2> QED
    BY <1>14, <2>1, <2>3, <2>4, <2>5 DEF ToolStep
<1> QED
  BY <1>6, <1>7, <1>8, <1>9, <1>10, <1>12, <1>13, <1>14, Steps

\* agent_send_message never runs a call that waited for approval, or was half-way, when
\* the message came: what it starts are reads, which the model asked for in answer to it.
THEOREM ReadsOnly == Spec => MessageRunsOnlyReads
<1>1. Init => OnlyReads
  BY DEF Init, OnlyReads
<1>2. SessionInv /\ OnlyReads /\ [Next]_vars => OnlyReads'
  BY ReadsStep
<1>3. SessionInv /\ OnlyReads /\ [Next]_vars
        => [\A c \in Calls :
              runs'[c] > runs[c] /\ run'.request.op = "send" => verdict'[c] = "free"]_vars
  BY ReadsStep
<1> QED
  BY SessionInvariance, <1>1, <1>2, <1>3, PTL DEF Spec, MessageRunsOnlyReads
=============================================================================
