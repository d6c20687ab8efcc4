--------------------------- MODULE ListenerProofs ---------------------------
(***************************************************************************)
(* Proofs about the two parts of the daemon that keep threads which listen *)
(* for what comes from elsewhere: the receive loops of the osc service     *)
(* (OscListener), for every set of ports and of loops, every budget and    *)
(* every datagram size, and the threads that read the signals of prompts   *)
(* (Approval), for every set of questions and of other notifications.      *)
(***************************************************************************)
EXTENDS OscListener, Approval, SequenceTheorems, TLAPS

-----------------------------------------------------------------------------
(* The receive loops *)

\* A loop that is past its last look at a cleared flag has read nothing since, and
\* one that has work in hand knows how much.
LoopInv ==
    \A l \in Loops :
        /\ stage[l] = "unused" => ~running[l]
        /\ stage[l] = "forward" => left[l] > 0
        /\ running[l] \/ stage[l] \in {"unused", "read"} => late[l] = 0

OscInv == OscTypeOK /\ OnlyHeldRuns /\ OneDatagramLate /\ LoopInv

LEMMA OscStarts == OscInit => OscInv
<1> USE OscOK
<1> QED BY DEF OscInit, Zero, OscInv, OscTypeOK, OnlyHeldRuns, OneDatagramLate, LoopInv

LEMMA ServiceKeepsInv ==
    ASSUME OscInv, NEW p \in Ports,
           ListenStarts(p) \/ ListenFails(p) \/ Stop \/ Elsewhere(p)
    PROVE  OscInv'
<1> USE OscOK
<1>1. OscTypeOK'
  <2>1. CASE ListenStarts(p)
    <3>1. PICK l \in Loops :
            /\ stage' = [stage EXCEPT ![l] = "look"] /\ port' = [port EXCEPT ![l] = p]
            /\ running' = [AskHeld EXCEPT ![l] = TRUE] /\ held' = l
      BY <2>1 DEF ListenStarts
    <3>2. running' \in [Loops -> BOOLEAN]
      BY <3>1 DEF OscInv, OscTypeOK, AskHeld
    <3> QED BY <2>1, <3>1, <3>2 DEF OscInv, OscTypeOK, ListenStarts
  <2>2. CASE ListenFails(p) \/ Stop
    <3>1. running' \in [Loops -> BOOLEAN]
      BY <2>2 DEF OscInv, OscTypeOK, ListenFails, Stop, AskHeld
    <3> QED BY <2>2, <3>1 DEF OscInv, OscTypeOK, ListenFails, Stop, loopVars
  <2>3. CASE Elsewhere(p)
    BY <2>3 DEF OscInv, OscTypeOK, Elsewhere, loopVars
  <2> QED BY <2>1, <2>2, <2>3
<1>2. OnlyHeldRuns'
  <2>1. CASE ListenStarts(p)
    BY <2>1 DEF OscInv, OscTypeOK, OnlyHeldRuns, ListenStarts, AskHeld
  <2>2. CASE ListenFails(p) \/ Stop
    BY <2>2 DEF OscInv, OscTypeOK, OnlyHeldRuns, ListenFails, Stop, AskHeld, loopVars
  <2>3. CASE Elsewhere(p)
    BY <2>3 DEF OscInv, OnlyHeldRuns, Elsewhere, loopVars
  <2> QED BY <2>1, <2>2, <2>3
<1>3. OneDatagramLate' /\ LoopInv'
  BY DEF OscInv, OscTypeOK, OneDatagramLate, LoopInv, ListenStarts, ListenFails, Stop,
         Elsewhere, AskHeld, loopVars
<1> QED BY <1>1, <1>2, <1>3 DEF OscInv

LEMMA ForwardCounts ==
    ASSUME OscInv, NEW l \in Loops, Forward(l)
    PROVE  /\ received' \in [Loops -> Nat] /\ dropped' \in [Loops -> Nat]
           /\ pushed' \in [Loops -> Nat] /\ used' \in [Loops -> Nat] /\ left' \in [Loops -> Nat]
           /\ \A k \in Loops : received'[k] = pushed'[k] + dropped'[k]
<1> USE OscOK
<1>1. left[l] > 0
  BY DEF OscInv, LoopInv, Forward
<1>2. PICK n \in {used[l] + 1, 1} :
         used' = [used EXCEPT ![l] = n] /\ Count(l, n <= MaxPushes)
  BY DEF Forward
<1>3. used' \in [Loops -> Nat] /\ left' \in [Loops -> Nat]
  BY <1>1, <1>2 DEF OscInv, OscTypeOK, Forward
<1>4. received' \in [Loops -> Nat] /\ dropped' \in [Loops -> Nat] /\ pushed' \in [Loops -> Nat]
  BY <1>2 DEF OscInv, OscTypeOK, Forward, Count
<1>5. \A k \in Loops : received'[k] = pushed'[k] + dropped'[k]
  <2>1. CASE n <= MaxPushes
    BY <1>2, <2>1 DEF OscInv, OscTypeOK, Forward, Count
  <2>2. CASE ~(n <= MaxPushes)
    BY <1>2, <2>2 DEF OscInv, OscTypeOK, Forward, Count
  <2> QED BY <2>1, <2>2
<1> QED BY <1>3, <1>4, <1>5

LEMMA LoopKeepsInv ==
    ASSUME OscInv, NEW l \in Loops, Loop(l)
    PROVE  OscInv'
<1> USE OscOK
<1>1. OscTypeOK'
  <2>1. CASE Forward(l)
    BY <2>1, ForwardCounts DEF OscInv, OscTypeOK, Loop, Forward, Move
  <2>2. CASE Look(l) \/ ReadNothing(l) \/ ReadFails(l)
    BY <2>2 DEF OscInv, OscTypeOK, Loop, Look, ReadNothing, ReadFails, Move
  <2>3. CASE Read(l)
    BY <2>3 DEF OscInv, OscTypeOK, Loop, Read, Move
  <2> QED BY <2>1, <2>2, <2>3 DEF Loop
<1>2. OnlyHeldRuns'
  BY DEF OscInv, OnlyHeldRuns, Loop
<1>3. OneDatagramLate' /\ LoopInv'
  <2>1. CASE Forward(l)
    BY <2>1 DEF OscInv, OscTypeOK, OneDatagramLate, LoopInv, Loop, Forward, Move
  <2>2. CASE Look(l) \/ ReadNothing(l) \/ ReadFails(l)
    BY <2>2 DEF OscInv, OscTypeOK, OneDatagramLate, LoopInv, Loop, Look, ReadNothing, ReadFails, Move
  <2>3. CASE Read(l)
    BY <2>3 DEF OscInv, OscTypeOK, OneDatagramLate, LoopInv, Loop, Read, Move
  <2> QED BY <2>1, <2>2, <2>3 DEF Loop
<1> QED BY <1>1, <1>2, <1>3 DEF OscInv

LEMMA OscStepKeepsInv ==
    ASSUME OscInv, [OscNext]_oscVars
    PROVE  OscInv'
<1>1. ASSUME NEW p \in Ports, ListenStarts(p) \/ ListenFails(p) \/ Elsewhere(p)
      PROVE  OscInv'
  BY <1>1, ServiceKeepsInv
<1>2. CASE Stop
  BY <1>2 DEF OscInv, OscTypeOK, OnlyHeldRuns, OneDatagramLate, LoopInv, Stop, AskHeld, loopVars
<1>3. ASSUME NEW l \in Loops, Loop(l) PROVE OscInv'
  BY <1>3, LoopKeepsInv
<1>4. CASE UNCHANGED oscVars
  BY <1>4 DEF oscVars, loopVars, OscInv, OscTypeOK, OnlyHeldRuns, OneDatagramLate, LoopInv
<1> QED BY <1>1, <1>2, <1>3, <1>4 DEF OscNext

THEOREM OscInvariance == OscSpec => []OscInv
BY OscStarts, OscStepKeepsInv, PTL DEF OscSpec

(***************************************************************************)
(* No message is dropped without being counted.                            *)
(***************************************************************************)
THEOREM EveryMessageCounted == OscSpec => []OscTypeOK
<1>1. OscInv => OscTypeOK
  BY DEF OscInv
<1> QED BY <1>1, OscInvariance, PTL

(***************************************************************************)
(* Every loop but the one the service holds has been asked to stop, after  *)
(* any sequence of listens, stops and failures.                            *)
(***************************************************************************)
THEOREM OthersAskedToStop == OscSpec => []OnlyHeldRuns
<1>1. OscInv => OnlyHeldRuns
  BY DEF OscInv
<1> QED BY <1>1, OscInvariance, PTL

(***************************************************************************)
(* A loop that was asked to stop forwards one more datagram at most.       *)
(***************************************************************************)
THEOREM StoppedLoopsFallSilent == OscSpec => []OneDatagramLate
<1>1. OscInv => OneDatagramLate
  BY DEF OscInv
<1> QED BY <1>1, OscInvariance, PTL

(***************************************************************************)
(* How many steps a loop that was asked to stop can still take: it finds   *)
(* the flag cleared when it looks, but first finishes the datagram that it *)
(* has read or is about to read.                                           *)
(***************************************************************************)
StepsToEnd(l) ==
    CASE stage[l] = "look" -> 1
      [] stage[l] = "forward" -> left[l] + 1
      [] stage[l] = "read" -> MaxBundle + 2
      [] OTHER -> 0

(***************************************************************************)
(* A loop that was asked to stop is not called back, by no later listen,   *)
(* and each of its steps brings it nearer to its end, when it gives back   *)
(* its port (listener.rs, stop, and the loop's look at running).           *)
(***************************************************************************)
AskedLoopsWindDown ==
    [][\A l \in Loops : Alive(l) /\ ~running[l] =>
           /\ ~running'[l]
           /\ UNCHANGED <<stage[l], left[l]>> \/ StepsToEnd(l)' < StepsToEnd(l)]_oscVars

THEOREM AskedLoopsGoToTheirEnd == OscSpec => AskedLoopsWindDown
<1> USE OscOK
<1> DEFINE WindsDown(l) == /\ ~running'[l]
                           /\ UNCHANGED <<stage[l], left[l]>> \/ StepsToEnd(l)' < StepsToEnd(l)
<1>1. ASSUME OscInv, OscNext, NEW l \in Loops, Alive(l), ~running[l]
      PROVE  WindsDown(l)
  <2>1. ASSUME NEW p \in Ports, ListenStarts(p) PROVE WindsDown(l)
    <3>1. PICK k \in Loops :
            /\ stage[k] = "unused" /\ stage' = [stage EXCEPT ![k] = "look"]
            /\ running' = [AskHeld EXCEPT ![k] = TRUE]
      BY <2>1 DEF ListenStarts
    <3>2. k # l
      BY <1>1, <3>1 DEF Alive
    <3> QED BY <1>1, <2>1, <3>1, <3>2 DEF ListenStarts, AskHeld, OscInv, OscTypeOK
  <2>2. ASSUME NEW p \in Ports, ListenFails(p) \/ Elsewhere(p) PROVE WindsDown(l)
    BY <1>1, <2>2 DEF ListenFails, Elsewhere, AskHeld, loopVars
  <2>3. CASE Stop
    BY <1>1, <2>3 DEF Stop, AskHeld, loopVars
  <2>4. ASSUME NEW k \in Loops, Loop(k), k # l PROVE WindsDown(l)
    BY <1>1, <2>4 DEF Loop, Look, ReadNothing, Read, ReadFails, Forward, Move, OscInv, OscTypeOK
  <2>5. CASE Loop(l)
    <3>1. running' = running
      BY <2>5 DEF Loop
    <3>2. stage \in [Loops -> {"unused", "look", "read", "forward", "dead"}] /\ left \in [Loops -> Nat]
      BY <1>1 DEF OscInv, OscTypeOK
    <3>3. CASE Look(l)
      BY <1>1, <3>1, <3>2, <3>3 DEF Look, Move, StepsToEnd
    <3>4. CASE ReadNothing(l) \/ ReadFails(l)
      BY <1>1, <3>1, <3>2, <3>4 DEF ReadNothing, ReadFails, Move, StepsToEnd
    <3>5. CASE Read(l)
      <4>1. PICK n \in 0..MaxBundle :
               left' = [left EXCEPT ![l] = n] /\ Move(l, IF n = 0 THEN "look" ELSE "forward")
        BY <3>5 DEF Read
      <4>2. stage[l] = "read" /\ left'[l] = n /\ stage'[l] = IF n = 0 THEN "look" ELSE "forward"
        BY <3>2, <3>5, <4>1 DEF Read, Move
      <4> QED BY <1>1, <3>1, <4>2 DEF StepsToEnd
    <3>6. CASE Forward(l)
      <4>1. stage[l] = "forward" /\ left[l] \in Nat /\ left[l] > 0
        BY <1>1, <3>2, <3>6 DEF Forward, OscInv, LoopInv
      <4>2. left'[l] = left[l] - 1 /\ stage'[l] = IF left[l] = 1 THEN "look" ELSE "forward"
        BY <3>2, <3>6 DEF Forward, Move
      <4> QED BY <1>1, <3>1, <4>1, <4>2 DEF StepsToEnd
    <3> QED BY <2>5, <3>3, <3>4, <3>5, <3>6 DEF Loop
  <2> QED BY <1>1, <2>1, <2>2, <2>3, <2>4, <2>5 DEF OscNext
<1>2. OscInv /\ [OscNext]_oscVars =>
        [\A l \in Loops : Alive(l) /\ ~running[l] => WindsDown(l)]_oscVars
  BY <1>1
<1> QED BY <1>2, OscInvariance, PTL DEF OscSpec, AskedLoopsWindDown

-----------------------------------------------------------------------------
(* Prompts and their answers *)

\* The first signal of s about a, if there is one, tells of act.
FirstIs(s, a, act) ==
    \A i \in DOMAIN s : s[i].id = a =>
        s[i].act = act \/ \E j \in DOMAIN s : j < i /\ s[j] = Signal(a, act)

\* What is on the screen was not acted on, and of what was not asked there is no trace.
ScreenInv ==
    /\ \A i \in screen : acted[i] = "none"
    /\ \A a \in Asks : a # ask => chan[a] = <<>>
    /\ \A a \in Asks : answer[a] = "none" /\ a # ask =>
          listener[a] = "none" /\ stream[a] = <<>> /\ a \notin screen /\ acted[a] = "none"

\* How far the question at hand got.
StageInv ==
    /\ pc \in {"subscribe", "notify"} => ask \notin screen /\ acted[ask] = "none"
    /\ pc \in {"notify", "reply", "wait", "close"} /\ approver = "notification" =>
          listener[ask] # "none"
    /\ pc \in {"subscribe", "notify", "reply", "close"} => approver = "notification"
    /\ pc = "wait" => approver \in {"notification", "box"}
    /\ pc = "close" => ask \in expired

\* What is on its way to the one who asks tells first what the user did.
HeardInv ==
    ask \in Asks =>
        /\ acted[ask] = "none" =>
              \A s \in ToSet(stream[ask]) \cup ToSet(chan[ask]) : s.id # ask
        /\ FirstIs(chan[ask], ask, acted[ask])
        /\ \/ FirstIs(stream[ask], ask, acted[ask])
           \/ Signal(ask, acted[ask]) \in ToSet(chan[ask])

(***************************************************************************)
(* The inductive invariant of Approval.                                    *)
(***************************************************************************)
ApprovalInv ==
    /\ TypeOK
    /\ ScreenInv /\ StageInv /\ HeardInv
    /\ AnswerIsTheUsers /\ ClickIsOnItsWay

LEMMA TailOf ==
    ASSUME NEW s \in Seq(Signals), s # <<>>
    PROVE  /\ Tail(s) \in Seq(Signals) /\ Head(s) \in Signals /\ Head(s) = s[1] /\ 1 \in DOMAIN s
           /\ \A i \in DOMAIN Tail(s) : i \in Nat /\ i # 0 /\ i + 1 \in DOMAIN s /\ Tail(s)[i] = s[i + 1]
           /\ \A i \in DOMAIN s : i \in Nat /\ i # 0
                 /\ (i = 1 \/ (i - 1 \in DOMAIN Tail(s) /\ Tail(s)[i - 1] = s[i]))
<1>1. /\ Len(s) \in Nat /\ Len(s) # 0 /\ DOMAIN s = 1..Len(s)
      /\ Len(Tail(s)) = Len(s) - 1 /\ DOMAIN Tail(s) = 1..Len(Tail(s))
      /\ \A i \in 1..Len(Tail(s)) : Tail(s)[i] = s[i + 1]
      /\ Tail(s) \in Seq(Signals) /\ Head(s) \in Signals
  BY HeadTailProperties, LenProperties, EmptySeq
<1> QED BY <1>1

LEMMA AppendOf ==
    ASSUME NEW s \in Seq(Signals), NEW x \in Signals
    PROVE  /\ Append(s, x) \in Seq(Signals)
           /\ Append(s, x) # <<>>
           /\ ToSet(Append(s, x)) = ToSet(s) \cup {x}
           /\ \A i \in DOMAIN s : i \in DOMAIN Append(s, x) /\ Append(s, x)[i] = s[i]
           /\ \A i \in DOMAIN Append(s, x) :
                 i \in DOMAIN s \/ (Append(s, x)[i] = x /\ \A j \in DOMAIN s : j < i)
<1> DEFINE q == Append(s, x)
<1>1. /\ Len(q) = Len(s) + 1 /\ Len(s) \in Nat /\ q \in Seq(Signals)
      /\ DOMAIN q = 1..Len(q) /\ DOMAIN s = 1..Len(s)
      /\ \A i \in 1..Len(s) : q[i] = s[i]
      /\ q[Len(s) + 1] = x
  BY AppendProperties, LenProperties
<1>2. q # <<>>
  BY <1>1
<1> HIDE DEF q
<1>3. \A y : y \in ToSet(q) <=> y \in ToSet(s) \/ y = x
  BY <1>1 DEF ToSet
<1>4. ToSet(q) = ToSet(s) \cup {x}
  BY <1>3
<1>5. \A i \in DOMAIN q : i \in DOMAIN s \/ (q[i] = x /\ \A j \in DOMAIN s : j < i)
  BY <1>1
<1>6. \A i \in DOMAIN s : i \in DOMAIN q /\ q[i] = s[i]
  BY <1>1
<1> QED BY <1>1, <1>2, <1>4, <1>5, <1>6 DEF q

\* No signal of a at all.
LEMMA NoneFirst ==
    ASSUME NEW s, NEW a, NEW act, \A x \in ToSet(s) : x.id # a
    PROVE  FirstIs(s, a, act)
BY DEF FirstIs, ToSet

LEMMA FirstOfTail ==
    ASSUME NEW s \in Seq(Signals), NEW a, NEW act, s # <<>>, Head(s).id # a, FirstIs(s, a, act)
    PROVE  FirstIs(Tail(s), a, act)
<1> DEFINE t == Tail(s)
<1>1. /\ Head(s) = s[1]
      /\ \A i \in DOMAIN t : i \in Nat /\ i # 0 /\ i + 1 \in DOMAIN s /\ t[i] = s[i + 1]
      /\ \A i \in DOMAIN s : i \in Nat /\ i # 0 /\ (i = 1 \/ (i - 1 \in DOMAIN t /\ t[i - 1] = s[i]))
  BY TailOf
<1> HIDE DEF t
<1>2. ASSUME NEW i \in DOMAIN t, t[i].id = a, t[i].act # act
      PROVE  \E j \in DOMAIN t : j < i /\ t[j] = Signal(a, act)
  <2>1. PICK j \in DOMAIN s : j < i + 1 /\ s[j] = Signal(a, act)
    BY <1>1, <1>2 DEF FirstIs
  <2>2. j # 1
    BY <1>1, <2>1 DEF Signal
  <2> QED BY <1>1, <2>1, <2>2
<1> QED BY <1>2 DEF FirstIs, t

LEMMA FirstOfAppend ==
    ASSUME NEW s \in Seq(Signals), NEW x \in Signals, NEW a, NEW act, FirstIs(s, a, act),
           x.id = a => x.act = act \/ Signal(a, act) \in ToSet(s)
    PROVE  FirstIs(Append(s, x), a, act)
<1> DEFINE q == Append(s, x)
<1>1. /\ \A i \in DOMAIN s : i \in DOMAIN q /\ q[i] = s[i]
      /\ \A i \in DOMAIN q : i \in DOMAIN s \/ (q[i] = x /\ \A j \in DOMAIN s : j < i)
  BY AppendOf
<1> HIDE DEF q
<1>2. ASSUME NEW i \in DOMAIN q, q[i].id = a, q[i].act # act
      PROVE  \E j \in DOMAIN q : j < i /\ q[j] = Signal(a, act)
  BY <1>1, <1>2 DEF FirstIs, ToSet
<1> QED BY <1>2 DEF FirstIs, q

LEMMA TailSet ==
    ASSUME NEW s \in Seq(Signals), s # <<>>
    PROVE  ToSet(s) = {Head(s)} \cup ToSet(Tail(s))
<1> DEFINE t == Tail(s)  h == Head(s)
<1>1. /\ h = s[1] /\ 1 \in DOMAIN s
      /\ \A i \in DOMAIN t : i + 1 \in DOMAIN s /\ t[i] = s[i + 1]
      /\ \A i \in DOMAIN s : i = 1 \/ (i - 1 \in DOMAIN t /\ t[i - 1] = s[i])
  BY TailOf
<1> HIDE DEF t, h
<1>2. \A y \in ToSet(s) : y = h \/ y \in ToSet(t)
  BY <1>1 DEF ToSet
<1>3. \A y \in ToSet(t) \cup {h} : y \in ToSet(s)
  BY <1>1 DEF ToSet
<1> QED BY <1>2, <1>3 DEF t, h

\* What one signal, or two, make of a listener's stream.
LEMMA OneMore ==
    ASSUME NEW s \in Seq(Signals), NEW x \in Signals
    PROVE  s \o <<x>> = Append(s, x)
BY AppendIsConcat

LEMMA TwoMore ==
    ASSUME NEW s \in Seq(Signals), NEW x \in Signals, NEW y \in Signals
    PROVE  s \o <<x, y>> = Append(Append(s, x), y)
<1>1. <<x>> \in Seq(Signals) /\ <<y>> \in Seq(Signals) /\ <<x, y>> = Append(<<x>>, y)
  OBVIOUS
<1>2. <<x, y>> = <<x>> \o <<y>>
  BY <1>1, OneMore
<1>3. s \o (<<x>> \o <<y>>) = (s \o <<x>>) \o <<y>>
  BY <1>1, ConcatAssociative
<1>4. s \o <<x>> = Append(s, x) /\ Append(s, x) \in Seq(Signals)
  BY OneMore, AppendOf
<1> QED BY <1>2, <1>3, <1>4, OneMore

\* However many signals about i are broadcast, the stream of a listener gets them.
\* None are about another, and the first tells of act.
LEMMA Heard ==
    ASSUME TypeOK, NEW i \in Asks \cup Others, NEW act \in Acts,
           Broadcast(IF act = "closed" THEN <<Signal(i, "closed")>>
                     ELSE <<Signal(i, act), Signal(i, "closed")>>)
    PROVE  /\ stream' \in [Asks -> Seq(Signals)]
           /\ \A a \in Asks : listener[a] # "reading" => stream'[a] = stream[a]
           /\ \A a \in Asks : listener[a] = "reading" => Signal(i, act) \in ToSet(stream'[a])
           /\ \A a \in Asks : ToSet(stream[a]) \subseteq ToSet(stream'[a])
           /\ \A a \in Asks : \A s \in ToSet(stream'[a]) : s \in ToSet(stream[a]) \/ s.id = i
           /\ \A a \in Asks : a # i => \A d : FirstIs(stream[a], a, d) => FirstIs(stream'[a], a, d)
           /\ \A a \in Asks : a = i /\ (\A s \in ToSet(stream[a]) : s.id # a) => FirstIs(stream'[a], a, act)
<1> DEFINE x == Signal(i, act)
           y == Signal(i, "closed")
<1>1. x \in Signals /\ y \in Signals /\ x.id = i /\ y.id = i /\ x.act = act
  BY DEF Signal, Signals, Acts
<1>2. /\ stream \in [Asks -> Seq(Signals)]
      /\ DOMAIN stream' = Asks
      /\ \A a \in Asks : listener[a] # "reading" => stream'[a] = stream[a]
      /\ \A a \in Asks : listener[a] = "reading" /\ act = "closed" => stream'[a] = stream[a] \o <<x>>
      /\ \A a \in Asks : listener[a] = "reading" /\ act # "closed" => stream'[a] = stream[a] \o <<x, y>>
  BY DEF Broadcast, TypeOK
<1>f. stream' = [a \in Asks |-> stream'[a]]
  BY DEF Broadcast
<1> DEFINE z == x
<1>3. Signal(i, act) = z
  OBVIOUS
<1> HIDE DEF x, y, z
<1>4. ASSUME NEW a \in Asks
      PROVE  /\ stream'[a] \in Seq(Signals)
             /\ listener[a] = "reading" => x \in ToSet(stream'[a])
             /\ ToSet(stream[a]) \subseteq ToSet(stream'[a])
             /\ \A s \in ToSet(stream'[a]) : s \in ToSet(stream[a]) \/ s.id = i
             /\ a # i => \A d : FirstIs(stream[a], a, d) => FirstIs(stream'[a], a, d)
             /\ listener[a] = "reading" /\ a = i /\ (\A s \in ToSet(stream[a]) : s.id # a) =>
                    FirstIs(stream'[a], a, act)
  <2> DEFINE s0 == stream[a]
             s1 == Append(s0, x)
             s2 == Append(s1, y)
  <2>1. s0 \in Seq(Signals)
    BY <1>2
  <2>2. s1 \in Seq(Signals) /\ ToSet(s1) = ToSet(s0) \cup {x}
    BY <1>1, <2>1, AppendOf
  <2>3. s2 \in Seq(Signals) /\ ToSet(s2) = ToSet(s1) \cup {y}
    BY <1>1, <2>2, AppendOf
  <2>4. stream'[a] = IF listener[a] # "reading" THEN s0 ELSE IF act = "closed" THEN s1 ELSE s2
    BY <1>1, <1>2, <2>1, OneMore, TwoMore
  <2>5. ASSUME a # i, NEW d, FirstIs(s0, a, d) PROVE FirstIs(s1, a, d) /\ FirstIs(s2, a, d)
    <3>1. FirstIs(s1, a, d)
      BY <1>1, <2>1, <2>5, FirstOfAppend
    <3> HIDE DEF s1
    <3>2. FirstIs(s2, a, d)
      BY <1>1, <2>2, <2>5, <3>1, FirstOfAppend
    <3> QED BY <3>1, <3>2
  <2>6. ASSUME a = i, \A s \in ToSet(s0) : s.id # a PROVE FirstIs(s1, a, act) /\ FirstIs(s2, a, act)
    <3>1. FirstIs(s0, a, act)
      BY <2>6, NoneFirst
    <3>2. FirstIs(s1, a, act)
      BY <1>1, <2>1, <3>1, FirstOfAppend
    <3>3. Signal(a, act) \in ToSet(s1)
      BY <2>2, <2>6 DEF x
    <3> HIDE DEF s1
    <3>4. FirstIs(s2, a, act)
      BY <1>1, <2>2, <3>2, <3>3, FirstOfAppend
    <3> QED BY <3>2, <3>4
  <2> HIDE DEF s1, s2
  <2>7. CASE listener[a] # "reading"
    BY <2>1, <2>4, <2>7
  <2>8. CASE listener[a] = "reading" /\ act = "closed"
    <3>1. stream'[a] = s1
      BY <2>4, <2>8
    <3> QED BY <1>1, <2>2, <2>5, <2>6, <2>8, <3>1
  <2>9. CASE listener[a] = "reading" /\ act # "closed"
    <3>1. stream'[a] = s2
      BY <2>4, <2>9
    <3> QED BY <1>1, <2>2, <2>3, <2>5, <2>6, <2>9, <3>1
  <2> QED BY <2>7, <2>8, <2>9
<1>5. stream' \in [Asks -> Seq(Signals)]
  BY <1>4, <1>f
<1>6. ASSUME NEW a \in Asks, a = i, \A s \in ToSet(stream[a]) : s.id # a PROVE FirstIs(stream'[a], a, act)
  <2>1. CASE listener[a] = "reading"
    BY <1>4, <1>6, <2>1
  <2>2. CASE listener[a] # "reading"
    BY <1>2, <1>6, <2>2, NoneFirst
  <2> QED BY <2>1, <2>2
<1> QED BY <1>2, <1>4, <1>5, <1>6 DEF x

LEMMA ApprovalStarts == Init => ApprovalInv
<1> SUFFICES ASSUME Init PROVE ApprovalInv
  OBVIOUS
<1> USE ConstantsOK
<1>1. <<>> \in Seq(Signals) /\ None \notin Asks
  OBVIOUS
<1>2. TypeOK /\ ScreenInv /\ StageInv
  BY <1>1 DEF Init, TypeOK, ScreenInv, StageInv
<1>3. HeardInv /\ AnswerIsTheUsers /\ ClickIsOnItsWay
  BY <1>1 DEF Init, HeardInv, AnswerIsTheUsers, ClickIsOnItsWay
<1> QED BY <1>2, <1>3 DEF ApprovalInv

\* What Return does, whatever the answer.
LEMMA Returned ==
    ASSUME TypeOK, ask \in Asks, NEW ans \in {"approved", "denied", "unavailable"}, Return(ans)
    PROVE  /\ pc' = "idle" /\ ask' = None /\ None \notin Asks
           /\ answer' \in [Asks -> {"none", "approved", "denied", "unavailable"}]
           /\ chan' \in [Asks -> Seq(Signals)]
           /\ answer'[ask] = ans /\ chan'[ask] = <<>>
           /\ \A a \in Asks : a # ask => answer'[a] = answer[a] /\ chan'[a] = chan[a]
<1>1. <<>> \in Seq(Signals)
  OBVIOUS
<1> QED BY <1>1, ConstantsOK DEF Return, TypeOK

LEMMA AnswerNamed ==
    ASSUME NEW b \in BOOLEAN
    PROVE  (IF b THEN "approved" ELSE "denied") \in {"approved", "denied", "unavailable"}
OBVIOUS

LEMMA ApprovalTypes ==
    ASSUME TypeOK, StageInv, [Next]_vars
    PROVE  TypeOK'
<1> USE DEF vars, callVars, busVars
<1>a. ask # None => ask \in Asks
  BY DEF TypeOK
<1>b. <<>> \in Seq(Signals) /\ None \notin Asks
  BY ConstantsOK
<1>0. CASE UNCHANGED vars
  BY <1>0 DEF TypeOK
<1>1. ASSUME NEW a \in Asks, Begin(a) PROVE TypeOK'
  BY <1>1, <1>b DEF Begin, AskAnother, Goto, TypeOK
<1>2. ASSUME NEW a \in Asks, BeginBox(a) PROVE TypeOK'
  BY <1>2, <1>b DEF BeginBox, AskAnother, Goto, TypeOK
<1>3. ASSUME NEW a \in Asks, NotAsked(a) PROVE TypeOK'
  <2>1. answer' \in [Asks -> {"none", "approved", "denied", "unavailable"}]
    BY <1>3 DEF NotAsked, TypeOK
  <2> QED BY <1>3, <2>1 DEF NotAsked, TypeOK
<1>4. CASE Subscribe
  BY <1>4 DEF Subscribe, Goto, TypeOK
<1>5. CASE Appear \/ Reply
  BY <1>5 DEF Appear, Reply, Goto, TypeOK
<1>6. ASSUME NEW ans \in {"approved", "denied", "unavailable"}, Return(ans), ask \in Asks,
             stream' \in [Asks -> Seq(Signals)], screen' \subseteq screen, expired' \subseteq Asks,
             UNCHANGED <<approver, acted, listener>>
      PROVE  TypeOK'
  BY <1>6, Returned DEF TypeOK
<1>7. CASE BusFails
  <2>1. ask \in Asks
    BY <1>7, <1>a DEF BusFails, TypeOK
  <2>2. Return("unavailable") /\ UNCHANGED <<approver, expired, busVars, listener>>
    BY <1>7 DEF BusFails
  <2> QED BY <1>6, <2>1, <2>2 DEF TypeOK
<1>8. CASE Receive
  <2>1. ask \in Asks /\ chan[ask] \in Seq(Signals) /\ chan[ask] # <<>>
    BY <1>8, <1>a DEF Receive, TypeOK
  <2>2. UNCHANGED <<approver, expired, busVars, listener>>
    BY <1>8 DEF Receive
  <2>3. CASE Head(chan[ask]).id = ask
    <3>1. PICK ans \in {"approved", "denied", "unavailable"} : Return(ans)
      BY <1>8, <2>3 DEF Receive
    <3> QED BY <1>6, <2>1, <2>2, <3>1 DEF TypeOK
  <2>4. CASE Head(chan[ask]).id # ask
    <3>1. chan' = [chan EXCEPT ![ask] = Tail(chan[ask])] /\ UNCHANGED <<ask, pc, answer>>
      BY <1>8, <2>4 DEF Receive
    <3>2. Tail(chan[ask]) \in Seq(Signals)
      BY <2>1, TailOf
    <3> QED BY <2>2, <3>1, <3>2 DEF TypeOK
  <2> QED BY <2>3, <2>4
<1>9. CASE GiveUp
  <2>1. ask \in Asks /\ expired' = expired \cup {ask}
    BY <1>9, <1>a DEF GiveUp, TypeOK
  <2>2. UNCHANGED <<approver, busVars, listener>>
    BY <1>9 DEF GiveUp
  <2>3. CASE Return("denied")
    BY <1>6, <2>1, <2>2, <2>3 DEF TypeOK
  <2>4. CASE Goto("wait", "close") /\ UNCHANGED <<ask, answer, chan>>
    BY <2>1, <2>2, <2>4 DEF TypeOK, Goto
  <2> QED BY <1>9, <2>3, <2>4 DEF GiveUp
<1>10. CASE Close
  <2>1. ask \in Asks
    BY <1>10, <1>a DEF Close, TypeOK
  <2>2. stream' \in [Asks -> Seq(Signals)]
    <3>1. CASE Broadcast(<<Signal(ask, "closed")>>)
      BY <2>1, <3>1, Heard DEF Acts
    <3> QED BY <1>10, <3>1 DEF Close, TypeOK
  <2>3. Return("denied") /\ screen' \subseteq screen /\ UNCHANGED <<approver, expired, listener, acted>>
    BY <1>10 DEF Close
  <2> QED BY <1>6, <2>1, <2>2, <2>3 DEF TypeOK
<1>11. ASSUME NEW i \in Asks \cup Others, NEW act \in Acts, Click(i, act) PROVE TypeOK'
  <2>1. stream' \in [Asks -> Seq(Signals)]
    BY <1>11, Heard DEF Click
  <2> QED BY <1>11, <2>1 DEF Click, TypeOK
<1>12. ASSUME NEW a \in Asks, NEW act \in Acts, ClickBox(a, act) PROVE TypeOK'
  <2>1. Append(chan[a], Signal(a, act)) \in Seq(Signals)
    <3>1. Signal(a, act) \in Signals /\ chan[a] \in Seq(Signals)
      BY DEF TypeOK, Signal, Signals
    <3> QED BY <3>1, AppendOf
  <2>2. chan' \in [Asks -> Seq(Signals)]
    BY <1>12, <2>1 DEF ClickBox, TypeOK
  <2> QED BY <1>12, <2>2 DEF ClickBox, TypeOK
<1>13. ASSUME NEW a \in Asks, HandOn(a) PROVE TypeOK'
  <2>1. Tail(stream[a]) \in Seq(Signals) /\ Append(chan[a], Head(stream[a])) \in Seq(Signals)
    BY <1>13, TailOf, AppendOf DEF HandOn, TypeOK
  <2>2. chan' \in [Asks -> Seq(Signals)] /\ listener' \in [Asks -> {"none", "reading", "ended"}]
    BY <1>13, <2>1 DEF HandOn, TypeOK
  <2> QED BY <1>13, <2>1, <2>2 DEF HandOn, TypeOK
<1>14. ASSUME NEW a \in Asks, StreamEnds(a) PROVE TypeOK'
  BY <1>14, <1>b DEF StreamEnds, TypeOK
<1> QED BY <1>0, <1>1, <1>2, <1>3, <1>4, <1>5, <1>7, <1>8, <1>9, <1>10, <1>11, <1>12,
           <1>13, <1>14 DEF Next, Approve

LEMMA ScreenKept ==
    ASSUME TypeOK, ScreenInv, StageInv, [Next]_vars
    PROVE  ScreenInv'
<1> USE DEF vars, callVars, busVars
<1>a. /\ ask # None => ask \in Asks
      /\ None \notin Asks
      /\ DOMAIN acted = Asks \cup Others /\ DOMAIN answer = Asks /\ DOMAIN stream = Asks
      /\ DOMAIN chan = Asks /\ DOMAIN listener = Asks
      /\ screen \subseteq Asks \cup Others /\ Asks \cap Others = {}
      /\ pc = "idle" <=> ask = None
  BY ConstantsOK DEF TypeOK
<1>0. CASE UNCHANGED vars
  BY <1>0 DEF ScreenInv
<1>1. ASSUME NEW a \in Asks, Begin(a) PROVE ScreenInv'
  BY <1>1, <1>a DEF Begin, AskAnother, ScreenInv
<1>2. ASSUME NEW a \in Asks, BeginBox(a) PROVE ScreenInv'
  BY <1>2, <1>a DEF BeginBox, AskAnother, ScreenInv
<1>3. ASSUME NEW a \in Asks, NotAsked(a) PROVE ScreenInv'
  <2>1. \A b \in Asks : answer'[b] = "none" => answer[b] = "none"
    BY <1>3, <1>a DEF NotAsked
  <2> QED BY <1>3, <2>1 DEF NotAsked, ScreenInv
<1>4. CASE Subscribe
  BY <1>4, <1>a DEF Subscribe, ScreenInv
<1>5. CASE Appear \/ Reply
  BY <1>5, <1>a DEF Appear, Reply, Goto, ScreenInv, StageInv
\* The question is over: nothing is left of it in the channel, and it has its answer.
<1>6. ASSUME NEW ans \in {"approved", "denied", "unavailable"}, Return(ans), ask \in Asks,
             screen' \subseteq screen,
             \A a \in Asks : listener[a] = "none" => stream'[a] = stream[a],
             UNCHANGED <<acted, listener>>
      PROVE  ScreenInv'
  <2>1. \A a \in Asks : chan'[a] = <<>>
    BY <1>6, Returned DEF ScreenInv
  <2>2. \A a \in Asks : answer'[a] = "none" => answer[a] = "none" /\ a # ask
    BY <1>6, Returned
  <2> QED BY <1>6, <2>1, <2>2 DEF ScreenInv
<1>7. CASE BusFails
  BY <1>6, <1>7, <1>a DEF BusFails
<1>8. CASE Receive
  <2>1. ask \in Asks /\ UNCHANGED <<screen, stream, acted, listener>>
    BY <1>8, <1>a DEF Receive
  <2>2. CASE Head(chan[ask]).id = ask
    <3>1. PICK ans \in {"approved", "denied", "unavailable"} : Return(ans)
      BY <1>8, <2>2 DEF Receive
    <3> QED BY <1>6, <2>1, <3>1
  <2>3. CASE Head(chan[ask]).id # ask
    BY <1>8, <1>a, <2>1, <2>3 DEF Receive, ScreenInv
  <2> QED BY <2>2, <2>3
<1>9. CASE GiveUp
  <2>1. ask \in Asks /\ UNCHANGED <<screen, stream, acted, listener>>
    BY <1>9, <1>a DEF GiveUp
  <2>2. CASE Return("denied")
    BY <1>6, <2>1, <2>2
  <2>3. CASE UNCHANGED <<ask, answer, chan>>
    BY <2>1, <2>3 DEF ScreenInv
  <2> QED BY <1>9, <2>2, <2>3 DEF GiveUp
<1>10. CASE Close
  <2>1. ask \in Asks
    BY <1>10, <1>a DEF Close
  <2>2. \A a \in Asks : listener[a] = "none" => stream'[a] = stream[a]
    <3>1. CASE Broadcast(<<Signal(ask, "closed")>>)
      BY <3>1, <1>a DEF Broadcast
    <3> QED BY <1>10, <3>1 DEF Close
  <2>3. Return("denied") /\ screen' \subseteq screen /\ UNCHANGED <<listener, acted>>
    BY <1>10 DEF Close
  <2> QED BY <1>6, <2>1, <2>2, <2>3
<1>11. ASSUME NEW i \in Asks \cup Others, NEW act \in Acts, Click(i, act) PROVE ScreenInv'
  <2>1. \A a \in Asks : listener[a] # "reading" => stream'[a] = stream[a]
    BY <1>11, Heard DEF Click
  <2>2. i \in screen /\ screen' = screen \ {i} /\ acted' = [acted EXCEPT ![i] = act]
        /\ UNCHANGED <<ask, answer, listener, chan>>
    BY <1>11 DEF Click
  <2> QED BY <1>a, <2>1, <2>2 DEF ScreenInv
<1>12. ASSUME NEW a \in Asks, NEW act \in Acts, ClickBox(a, act) PROVE ScreenInv'
  <2>1. a \in screen /\ screen' = screen \ {a} /\ acted' = [acted EXCEPT ![a] = act]
        /\ UNCHANGED <<ask, answer, listener, stream>>
    BY <1>12 DEF ClickBox
  <2>2. \A b \in Asks : b # ask => chan'[b] = chan[b]
    BY <1>12, <1>a DEF ClickBox
  <2> QED BY <1>a, <2>1, <2>2 DEF ScreenInv
<1>13. ASSUME NEW a \in Asks, HandOn(a) PROVE ScreenInv'
  <2>1. /\ listener[a] = "reading" /\ stream' = [stream EXCEPT ![a] = Tail(@)]
        /\ UNCHANGED <<ask, answer, screen, acted>>
    BY <1>13 DEF HandOn
  <2>2. \A b \in Asks : b # ask => chan'[b] = chan[b]
    BY <1>13, <1>a DEF HandOn
  <2>3. \A b \in Asks : b # a => listener'[b] = listener[b]
    BY <1>13, <1>a DEF HandOn
  <2> QED BY <1>a, <2>1, <2>2, <2>3 DEF ScreenInv
<1>14. ASSUME NEW a \in Asks, StreamEnds(a) PROVE ScreenInv'
  <2>1. /\ listener[a] = "reading" /\ UNCHANGED <<ask, answer, screen, acted, chan>>
        /\ \A b \in Asks : b # a => listener'[b] = listener[b] /\ stream'[b] = stream[b]
    BY <1>14, <1>a DEF StreamEnds
  <2> QED BY <2>1 DEF ScreenInv
<1> QED BY <1>0, <1>1, <1>2, <1>3, <1>4, <1>5, <1>7, <1>8, <1>9, <1>10, <1>11, <1>12,
           <1>13, <1>14 DEF Next, Approve

LEMMA StageKept ==
    ASSUME TypeOK, ScreenInv, StageInv, [Next]_vars
    PROVE  StageInv'
<1> USE DEF vars, callVars, busVars
<1>a. /\ ask # None => ask \in Asks
      /\ DOMAIN acted = Asks \cup Others /\ DOMAIN listener = Asks
      /\ pc = "idle" <=> ask = None
  BY ConstantsOK DEF TypeOK
<1>0. CASE UNCHANGED vars
  BY <1>0 DEF StageInv
<1>1. ASSUME NEW a \in Asks, Begin(a) PROVE StageInv'
  BY <1>1, <1>a, ConstantsOK DEF Begin, AskAnother, Goto, ScreenInv, StageInv
<1>2. ASSUME NEW a \in Asks, BeginBox(a) PROVE StageInv'
  BY <1>2 DEF BeginBox, Goto, StageInv
<1>3. ASSUME pc' = "idle" PROVE StageInv'
  BY <1>3 DEF StageInv
<1>4. ASSUME NEW a \in Asks, NotAsked(a) PROVE StageInv'
  BY <1>3, <1>4, <1>a DEF NotAsked
<1>5. CASE Subscribe
  BY <1>5, <1>a DEF Subscribe, Goto, StageInv
<1>6. CASE Appear \/ Reply
  BY <1>6, <1>a DEF Appear, Reply, Goto, StageInv
<1>7. CASE BusFails \/ Close
  BY <1>3, <1>7 DEF BusFails, Close, Return
<1>8. CASE Receive
  <2>1. CASE Head(chan[ask]).id = ask
    BY <1>3, <1>8, <2>1 DEF Receive, Return
  <2>2. CASE Head(chan[ask]).id # ask
    BY <1>8, <2>2 DEF Receive, StageInv
  <2> QED BY <2>1, <2>2
<1>9. CASE GiveUp
  <2>1. CASE Return("denied")
    BY <1>3, <2>1 DEF Return
  <2>2. CASE approver # "box"
    BY <1>9, <1>a, <2>2 DEF GiveUp, Goto, StageInv
  <2> QED BY <1>9, <2>1, <2>2 DEF GiveUp
<1>10. ASSUME NEW i \in Asks \cup Others, NEW act \in Acts, Click(i, act) PROVE StageInv'
  BY <1>10, <1>a DEF Click, StageInv
<1>11. ASSUME NEW a \in Asks, NEW act \in Acts, ClickBox(a, act) PROVE StageInv'
  BY <1>11, <1>a DEF ClickBox, StageInv
<1>12. ASSUME NEW a \in Asks, HandOn(a) PROVE StageInv'
  <2>1. \A b \in Asks : listener[b] # "none" => listener'[b] # "none"
    BY <1>12, <1>a DEF HandOn
  <2> QED BY <1>12, <1>a, <2>1 DEF HandOn, StageInv
<1>13. ASSUME NEW a \in Asks, StreamEnds(a) PROVE StageInv'
  <2>1. \A b \in Asks : listener[b] # "none" => listener'[b] # "none"
    BY <1>13, <1>a DEF StreamEnds
  <2> QED BY <1>13, <1>a, <2>1 DEF StreamEnds, StageInv
<1> QED BY <1>0, <1>1, <1>2, <1>4, <1>5, <1>6, <1>7, <1>8, <1>9, <1>10, <1>11, <1>12,
           <1>13 DEF Next, Approve

LEMMA HeardKept ==
    ASSUME TypeOK, ScreenInv, StageInv, HeardInv, [Next]_vars
    PROVE  HeardInv'
<1> USE DEF vars, callVars, busVars
<1>a. /\ ask # None => ask \in Asks
      /\ None \notin Asks
      /\ DOMAIN acted = Asks \cup Others /\ DOMAIN stream = Asks /\ DOMAIN chan = Asks
      /\ Asks \cap Others = {}
      /\ pc = "idle" <=> ask = None
      /\ \A a \in Asks : stream[a] \in Seq(Signals) /\ chan[a] \in Seq(Signals)
  BY ConstantsOK DEF TypeOK
<1>b. ToSet(<<>>) = {}
  BY DEF ToSet
<1>0. ASSUME ask' = ask, ask \in Asks => UNCHANGED <<chan[ask], stream[ask], acted[ask]>>
      PROVE  HeardInv'
  <2> SUFFICES ASSUME ask \in Asks
               PROVE  HeardInv'
    BY <1>0 DEF HeardInv
  <2>1. chan'[ask] = chan[ask] /\ stream'[ask] = stream[ask] /\ acted'[ask] = acted[ask]
    BY <1>0
  <2> QED BY <1>0, <2>1 DEF HeardInv, FirstIs
<1>1. ASSUME NEW a \in Asks, Begin(a) \/ BeginBox(a) PROVE HeardInv'
  <2>1. ask' = a /\ chan[a] = <<>> /\ stream[a] = <<>> /\ UNCHANGED <<chan, stream, acted>>
    BY <1>1, <1>a DEF Begin, BeginBox, AskAnother, ScreenInv
  <2> QED BY <2>1, <1>b DEF HeardInv, FirstIs
<1>2. ASSUME NEW a \in Asks, NotAsked(a) PROVE HeardInv'
  BY <1>0, <1>2 DEF NotAsked
<1>3. CASE UNCHANGED vars \/ Subscribe \/ Appear \/ Reply
  BY <1>0, <1>3 DEF Subscribe, Appear, Reply
<1>4. ASSUME NEW ans \in {"approved", "denied", "unavailable"}, Return(ans) PROVE HeardInv'
  BY <1>4, <1>a DEF Return, HeardInv
<1>5. CASE BusFails \/ Close
  BY <1>4, <1>5 DEF BusFails, Close
<1>6. CASE GiveUp
  <2>1. CASE Return("denied")
    BY <1>4, <2>1
  <2>2. CASE UNCHANGED <<ask, answer, chan>>
    BY <1>0, <1>6, <2>2 DEF GiveUp
  <2> QED BY <1>6, <2>1, <2>2 DEF GiveUp
<1>7. CASE Receive
  <2>1. CASE Head(chan[ask]).id = ask
    <3>1. PICK ans \in {"approved", "denied", "unavailable"} : Return(ans)
      BY <1>7, <2>1 DEF Receive
    <3> QED BY <1>4, <3>1
  <2>2. CASE Head(chan[ask]).id # ask
    <3> DEFINE c == chan[ask]
               d == acted[ask]
               t == Tail(c)
    <3>1. /\ ask \in Asks /\ c \in Seq(Signals) /\ c # <<>> /\ chan'[ask] = Tail(c)
          /\ UNCHANGED <<ask, stream, acted>>
      BY <1>7, <1>a, <2>2 DEF Receive
    <3>2. ToSet(c) = {Head(c)} \cup ToSet(Tail(c))
      BY <3>1, TailSet
    <3>3. FirstIs(Tail(c), ask, d)
      BY <2>2, <3>1, FirstOfTail DEF HeardInv
    <3>4. Signal(ask, d) # Head(c)
      BY <2>2 DEF Signal
    <3>5. /\ d = "none" => \A s \in ToSet(stream[ask]) \cup ToSet(t) : s.id # ask
          /\ FirstIs(t, ask, d)
          /\ FirstIs(stream[ask], ask, d) \/ Signal(ask, d) \in ToSet(t)
      BY <3>1, <3>2, <3>3, <3>4 DEF HeardInv
    <3>6. chan'[ask] = t /\ acted'[ask] = d /\ stream'[ask] = stream[ask] /\ ask' = ask
      BY <3>1
    <3> HIDE DEF t, d
    <3> QED BY <3>5, <3>6 DEF HeardInv, FirstIs
  <2> QED BY <2>1, <2>2
<1>8. ASSUME NEW i \in Asks \cup Others, NEW act \in Acts, Click(i, act) PROVE HeardInv'
  <2> SUFFICES ASSUME ask \in Asks PROVE HeardInv'
    BY <1>8 DEF Click, HeardInv
  <2>1. /\ \A s \in ToSet(stream'[ask]) : s \in ToSet(stream[ask]) \/ s.id = i
        /\ ask # i => \A d : FirstIs(stream[ask], ask, d) => FirstIs(stream'[ask], ask, d)
        /\ ask = i /\ (\A s \in ToSet(stream[ask]) : s.id # ask) => FirstIs(stream'[ask], ask, act)
    BY <1>8, Heard DEF Click
  <2>2. i \in screen /\ acted' = [acted EXCEPT ![i] = act] /\ UNCHANGED <<ask, chan>> /\ act # "none"
    BY <1>8 DEF Click, Acts
  <2> DEFINE s == stream'[ask]
             c == chan[ask]
  <2>3. CASE ask # i
    <3>1. acted'[ask] = acted[ask]
      BY <1>a, <2>2, <2>3
    <3>2. FirstIs(stream[ask], ask, acted[ask]) => FirstIs(s, ask, acted[ask])
      BY <2>1, <2>3
    <3>3. acted[ask] = "none" => \A x \in ToSet(s) \cup ToSet(c) : x.id # ask
      BY <2>1, <2>3 DEF HeardInv
    <3>4. stream'[ask] = s /\ chan'[ask] = c /\ ask' = ask
      BY <2>2
    <3>5. FirstIs(c, ask, acted[ask]) /\ (FirstIs(s, ask, acted[ask]) \/ Signal(ask, acted[ask]) \in ToSet(c))
      BY <3>2 DEF HeardInv
    <3> HIDE DEF s, c
    <3> QED BY <3>1, <3>3, <3>4, <3>5 DEF HeardInv, FirstIs
  <2>4. CASE ask = i
    <3>1. acted'[ask] = act /\ acted[ask] = "none"
      BY <1>a, <2>2, <2>4 DEF ScreenInv
    <3>2. \A x \in ToSet(stream[ask]) \cup ToSet(c) : x.id # ask
      BY <3>1 DEF HeardInv
    <3>3. FirstIs(c, ask, act)
      BY <3>2, NoneFirst
    <3>4. FirstIs(s, ask, act)
      BY <2>1, <2>4, <3>2
    <3>5. stream'[ask] = s /\ chan'[ask] = c /\ ask' = ask
      BY <2>2
    <3> HIDE DEF s, c
    <3> QED BY <2>2, <3>1, <3>3, <3>4, <3>5 DEF HeardInv, FirstIs
  <2> QED BY <2>3, <2>4
<1>9. ASSUME NEW a \in Asks, NEW act \in Acts, ClickBox(a, act) PROVE HeardInv'
  <2>1. CASE a # ask
    <3>1. ask \in Asks => acted'[ask] = acted[ask]
      BY <1>9, <1>a, <2>1 DEF ClickBox
    <3> QED BY <1>0, <1>9, <2>1, <3>1 DEF ClickBox
  <2>2. CASE a = ask
    <3> DEFINE c == chan[ask]
               x == Signal(ask, act)
               q == Append(c, x)
    <3>1. /\ acted'[ask] = act /\ acted[ask] = "none" /\ act # "none" /\ stream'[ask] = stream[ask]
          /\ ask' = ask /\ chan'[ask] = q
      BY <1>9, <1>a, <2>2 DEF ClickBox, ScreenInv, Acts
    <3>2. \A y \in ToSet(stream[ask]) \cup ToSet(c) : y.id # ask
      BY <2>2, <3>1 DEF HeardInv
    <3>3. FirstIs(c, ask, act) /\ FirstIs(stream[ask], ask, act)
      BY <3>2, NoneFirst
    <3>4. c \in Seq(Signals) /\ x \in Signals /\ x.id = ask /\ x.act = act
      BY <1>a, <2>2 DEF Signal, Signals
    <3>5. FirstIs(q, ask, act)
      BY <3>3, <3>4, FirstOfAppend
    <3> HIDE DEF q
    <3> QED BY <3>1, <3>3, <3>5 DEF HeardInv, FirstIs
  <2> QED BY <2>1, <2>2
<1>10. ASSUME NEW a \in Asks, HandOn(a) PROVE HeardInv'
  <2>1. CASE a # ask
    <3>1. ask \in Asks => chan'[ask] = chan[ask] /\ stream'[ask] = stream[ask]
      BY <1>10, <1>a, <2>1 DEF HandOn
    <3> QED BY <1>0, <1>10, <3>1 DEF HandOn
  <2>2. CASE a = ask
    <3> DEFINE c == chan[ask]
               s == stream[ask]
               d == acted[ask]
               h == Head(s)
               t == Tail(s)
               q == Append(c, h)
    <3>1. /\ ask \in Asks /\ s # <<>> /\ s \in Seq(Signals) /\ c \in Seq(Signals)
          /\ chan'[ask] = q /\ stream'[ask] = t /\ acted'[ask] = d /\ ask' = ask
      BY <1>10, <1>a, <2>2 DEF HandOn
    <3>2. h \in Signals /\ h = s[1] /\ 1 \in DOMAIN s /\ t \in Seq(Signals) /\ ToSet(s) = {h} \cup ToSet(t)
      BY <3>1, TailOf, TailSet
    <3>3. ToSet(q) = ToSet(c) \cup {h}
      BY <3>1, <3>2, AppendOf
    <3>4. FirstIs(s, ask, d) /\ h.id = ask => h = Signal(ask, d)
      <4> SUFFICES ASSUME FirstIs(s, ask, d), h.id = ask PROVE h = Signal(ask, d)
        OBVIOUS
      <4>1. \A j \in DOMAIN s : ~(j < 1)
        BY <3>1, TailOf
      <4>2. h.act = d
        BY <3>2, <4>1 DEF FirstIs
      <4> HIDE DEF h
      <4> QED BY <3>2, <4>2 DEF Signal, Signals
    <3>5. h.id = ask => h.act = d \/ Signal(ask, d) \in ToSet(c)
      BY <3>1, <3>4 DEF HeardInv, Signal
    <3>6. FirstIs(q, ask, d)
      BY <3>1, <3>2, <3>5, FirstOfAppend DEF HeardInv
    <3>7. FirstIs(t, ask, d) \/ Signal(ask, d) \in ToSet(q)
      <4>1. CASE Signal(ask, d) \in ToSet(c)
        BY <3>3, <4>1
      <4>2. CASE FirstIs(s, ask, d) /\ h.id = ask
        BY <3>3, <3>4, <4>2
      <4>3. CASE FirstIs(s, ask, d) /\ h.id # ask
        BY <3>1, <4>3, FirstOfTail
      <4> QED BY <3>1, <4>1, <4>2, <4>3 DEF HeardInv
    <3>8. d = "none" => \A x \in ToSet(t) \cup ToSet(q) : x.id # ask
      BY <3>1, <3>2, <3>3 DEF HeardInv
    <3> HIDE DEF q, t, d
    <3> QED BY <3>1, <3>6, <3>7, <3>8 DEF HeardInv, FirstIs
  <2> QED BY <2>1, <2>2
<1>11. ASSUME NEW a \in Asks, StreamEnds(a) PROVE HeardInv'
  <2>1. CASE a # ask
    <3>1. ask \in Asks => stream'[ask] = stream[ask]
      BY <1>11, <1>a, <2>1 DEF StreamEnds
    <3> QED BY <1>0, <1>11, <3>1 DEF StreamEnds
  <2>2. CASE a = ask
    <3>1. ask \in Asks /\ stream'[ask] = <<>> /\ UNCHANGED <<ask, chan, acted>>
      BY <1>11, <1>a, <2>2 DEF StreamEnds
    <3> QED BY <1>b, <3>1 DEF HeardInv, FirstIs
  <2> QED BY <2>1, <2>2
<1> QED BY <1>1, <1>2, <1>3, <1>5, <1>6, <1>7, <1>8, <1>9, <1>10, <1>11 DEF Next, Approve

LEMMA AnswersKept ==
    ASSUME TypeOK, ScreenInv, StageInv, HeardInv, AnswerIsTheUsers, [Next]_vars
    PROVE  AnswerIsTheUsers'
<1> USE DEF vars, callVars, busVars
<1>a. /\ ask # None => ask \in Asks
      /\ DOMAIN acted = Asks \cup Others /\ DOMAIN answer = Asks
      /\ pc = "idle" <=> ask = None
  BY DEF TypeOK
<1>0. ASSUME UNCHANGED <<approver, answer, acted>>, expired \subseteq expired' PROVE AnswerIsTheUsers'
  BY <1>0 DEF AnswerIsTheUsers
<1>1. ASSUME NEW a \in Asks, Begin(a) \/ BeginBox(a) PROVE AnswerIsTheUsers'
  BY <1>0, <1>1 DEF Begin, BeginBox
<1>2. ASSUME NEW a \in Asks, NotAsked(a) PROVE AnswerIsTheUsers'
  BY <1>2, <1>a DEF NotAsked, AnswerIsTheUsers
<1>3. CASE UNCHANGED vars \/ Subscribe \/ Appear \/ Reply
  BY <1>0, <1>3 DEF Subscribe, Appear, Reply
\* The question gets its answer, for a reason.
<1>4. ASSUME NEW ans \in {"approved", "denied", "unavailable"}, Return(ans), ask \in Asks,
             UNCHANGED <<approver, acted>>, expired \subseteq expired',
             ans = "approved" => acted[ask] = "confirm",
             ans = "denied" => acted[ask] \in {"deny", "closed"} \/ ask \in expired'
      PROVE  AnswerIsTheUsers'
  <2>1. answer'[ask] = ans /\ \A a \in Asks : a # ask => answer'[a] = answer[a]
    BY <1>4, Returned
  <2> QED BY <1>4, <2>1 DEF AnswerIsTheUsers
<1>5. CASE BusFails
  BY <1>4, <1>5, <1>a DEF BusFails
<1>6. CASE Close
  BY <1>4, <1>6, <1>a DEF Close, StageInv
<1>7. CASE GiveUp
  <2>1. ask \in Asks /\ expired' = expired \cup {ask} /\ UNCHANGED <<approver, acted>>
    BY <1>7, <1>a DEF GiveUp
  <2>2. CASE Return("denied")
    BY <1>4, <2>1, <2>2
  <2>3. CASE UNCHANGED <<ask, answer, chan>>
    BY <1>0, <2>1, <2>3
  <2> QED BY <1>7, <2>2, <2>3 DEF GiveUp
<1>8. CASE Receive
  <2> DEFINE h == Head(chan[ask])
  <2>1. ask \in Asks /\ chan[ask] \in Seq(Signals) /\ chan[ask] # <<>>
        /\ UNCHANGED <<approver, expired, acted>>
    BY <1>8, <1>a DEF Receive, TypeOK
  <2>2. CASE h.id = ask
    <3>1. Return(IF h.act = "confirm" THEN "approved" ELSE "denied")
      BY <1>8, <2>2 DEF Receive
    <3>2. h \in Signals /\ h = chan[ask][1] /\ 1 \in DOMAIN chan[ask]
          /\ \A j \in DOMAIN chan[ask] : ~(j < 1)
      BY <2>1, TailOf
    <3>3. h.act = acted[ask]
      BY <2>1, <2>2, <3>2 DEF HeardInv, FirstIs
    <3>4. h.act \in {"confirm", "deny", "closed"}
      BY <3>2 DEF Signals, Acts
    <3> HIDE DEF h
    <3>5. CASE h.act = "confirm"
      BY <1>4, <2>1, <3>1, <3>3, <3>5
    <3>6. CASE h.act # "confirm"
      BY <1>4, <2>1, <3>1, <3>3, <3>4, <3>6
    <3> QED BY <3>5, <3>6
  <2>3. CASE h.id # ask
    BY <1>0, <1>8, <2>1, <2>3 DEF Receive
  <2> QED BY <2>2, <2>3
\* What was done to a prompt that is on the screen is done for the first time.
<1>9. ASSUME NEW i \in screen, NEW act, acted' = [acted EXCEPT ![i] = act],
             UNCHANGED <<approver, answer, expired>>
      PROVE  AnswerIsTheUsers'
  <2>1. \A a \in Asks : acted[a] # "none" => acted'[a] = acted[a]
    BY <1>9, <1>a DEF ScreenInv
  <2> QED BY <1>9, <2>1 DEF AnswerIsTheUsers
<1>10. ASSUME NEW i \in Asks \cup Others, NEW act \in Acts, Click(i, act) PROVE AnswerIsTheUsers'
  BY <1>9, <1>10 DEF Click
<1>11. ASSUME NEW a \in Asks, NEW act \in Acts, ClickBox(a, act) PROVE AnswerIsTheUsers'
  BY <1>9, <1>11 DEF ClickBox
<1>12. ASSUME NEW a \in Asks, HandOn(a) \/ StreamEnds(a) PROVE AnswerIsTheUsers'
  BY <1>0, <1>12 DEF HandOn, StreamEnds
<1> QED BY <1>1, <1>2, <1>3, <1>5, <1>6, <1>7, <1>8, <1>10, <1>11, <1>12 DEF Next, Approve

LEMMA ClickKept ==
    ASSUME TypeOK, ScreenInv, StageInv, HeardInv, ClickIsOnItsWay, [Next]_vars
    PROVE  ClickIsOnItsWay'
<1> USE DEF vars, callVars, busVars
<1>a. /\ ask # None => ask \in Asks
      /\ DOMAIN acted = Asks \cup Others /\ DOMAIN listener = Asks /\ DOMAIN stream = Asks
      /\ DOMAIN chan = Asks
      /\ listener \in [Asks -> {"none", "reading", "ended"}]
      /\ Asks \cap Others = {}
      /\ pc = "idle" <=> ask = None
      /\ \A a \in Asks : stream[a] \in Seq(Signals) /\ chan[a] \in Seq(Signals)
  BY ConstantsOK DEF TypeOK
<1>0. ASSUME pc' \in {"reply", "wait"} => pc \in {"reply", "wait"},
             ask' = ask,
             ask \in Asks => /\ acted'[ask] = acted[ask]
                             /\ listener[ask] = "ended" => listener'[ask] = "ended"
                             /\ listener'[ask] # "ended" =>
                                   \A s \in ToSet(stream[ask]) \cup ToSet(chan[ask]) : s.id = ask =>
                                       s \in ToSet(stream'[ask]) \cup ToSet(chan'[ask])
      PROVE  ClickIsOnItsWay'
  <2> SUFFICES ASSUME pc' \in {"reply", "wait"}, acted'[ask'] # "none", listener'[ask'] # "ended"
               PROVE  \E s \in ToSet(stream'[ask']) \cup ToSet(chan'[ask']) : s.id = ask'
    BY DEF ClickIsOnItsWay, ToSet
  <2>1. ask \in Asks
    BY <1>0, <1>a
  <2>2. PICK s \in ToSet(stream[ask]) \cup ToSet(chan[ask]) : s.id = ask
    BY <1>0, <2>1 DEF ClickIsOnItsWay
  <2> QED BY <1>0, <2>1, <2>2
<1>1. ASSUME pc' \notin {"reply", "wait"} \/ acted'[ask'] = "none" PROVE ClickIsOnItsWay'
  BY <1>1 DEF ClickIsOnItsWay
<1>2. ASSUME NEW a \in Asks, Begin(a) \/ BeginBox(a) PROVE ClickIsOnItsWay'
  <2>1. ask' = a /\ acted'[a] = "none"
    BY <1>2, <1>a, ConstantsOK DEF Begin, BeginBox, AskAnother, ScreenInv
  <2> QED BY <1>1, <2>1
<1>3. ASSUME NEW a \in Asks, NotAsked(a) PROVE ClickIsOnItsWay'
  BY <1>1, <1>3, <1>a DEF NotAsked
<1>4. CASE UNCHANGED vars \/ Reply
  BY <1>0, <1>4 DEF Reply, Goto
<1>5. CASE Subscribe
  BY <1>1, <1>5 DEF Subscribe, Goto
<1>6. CASE Appear
  BY <1>1, <1>6 DEF Appear, Goto, StageInv
<1>7. CASE BusFails \/ Close
  BY <1>1, <1>7 DEF BusFails, Close, Return
<1>8. CASE GiveUp
  BY <1>1, <1>8 DEF GiveUp, Return, Goto
<1>9. CASE Receive
  <2>1. CASE Head(chan[ask]).id = ask
    BY <1>1, <1>9, <2>1 DEF Receive, Return
  <2>2. CASE Head(chan[ask]).id # ask
    <3>1. /\ ask \in Asks /\ chan[ask] # <<>> /\ chan'[ask] = Tail(chan[ask])
          /\ UNCHANGED <<pc, ask, acted, listener, stream>>
      BY <1>9, <1>a, <2>2 DEF Receive
    <3>2. ToSet(chan[ask]) = {Head(chan[ask])} \cup ToSet(chan'[ask])
      BY <1>a, <3>1, TailSet
    <3> QED BY <1>0, <2>2, <3>1, <3>2
  <2> QED BY <2>1, <2>2
<1>10. ASSUME NEW i \in Asks \cup Others, NEW act \in Acts, Click(i, act) PROVE ClickIsOnItsWay'
  <2>1. /\ \A a \in Asks : ToSet(stream[a]) \subseteq ToSet(stream'[a])
        /\ \A a \in Asks : listener[a] = "reading" => Signal(i, act) \in ToSet(stream'[a])
    BY <1>10, Heard DEF Click
  <2>2. acted' = [acted EXCEPT ![i] = act] /\ UNCHANGED <<pc, ask, listener, chan, approver>>
    BY <1>10 DEF Click
  <2>3. CASE ask # i
    BY <1>0, <1>a, <2>1, <2>2, <2>3
  <2>4. CASE ask = i
    <3> SUFFICES ASSUME pc \in {"reply", "wait"}, listener[ask] # "ended"
                 PROVE  \E s \in ToSet(stream'[ask]) \cup ToSet(chan'[ask]) : s.id = ask
      BY <2>2 DEF ClickIsOnItsWay, ToSet
    <3>1. ask \in Asks /\ approver # "box"
      BY <1>10, <1>a, <2>4 DEF Click
    <3>2. listener[ask] = "reading"
      BY <1>a, <3>1 DEF StageInv
    <3>3. Signal(i, act).id = ask
      BY <2>4 DEF Signal
    <3> QED BY <2>1, <2>4, <3>1, <3>2, <3>3
  <2> QED BY <2>3, <2>4
<1>11. ASSUME NEW a \in Asks, NEW act \in Acts, ClickBox(a, act) PROVE ClickIsOnItsWay'
  <2>1. CASE ask # a
    <3>1. ask \in Asks => acted'[ask] = acted[ask]
      BY <1>11, <1>a, <2>1 DEF ClickBox
    <3> QED BY <1>0, <1>11, <2>1, <3>1 DEF ClickBox
  <2>2. CASE ask = a
    <3>1. ask' = ask /\ chan'[ask] = Append(chan[ask], Signal(a, act))
      BY <1>11, <1>a, <2>2 DEF ClickBox
    <3>2. Signal(a, act) \in Signals /\ Signal(a, act).id = ask
      BY <2>2 DEF Signal, Signals
    <3>3. Signal(a, act) \in ToSet(chan'[ask])
      BY <1>a, <2>2, <3>1, <3>2, AppendOf
    <3> QED BY <3>1, <3>2, <3>3 DEF ClickIsOnItsWay, ToSet
  <2> QED BY <2>1, <2>2
<1>12. ASSUME NEW a \in Asks, HandOn(a) PROVE ClickIsOnItsWay'
  <2>1. CASE ask # a
    <3>1. ask \in Asks => chan'[ask] = chan[ask] /\ stream'[ask] = stream[ask] /\ listener'[ask] = listener[ask]
      BY <1>12, <1>a, <2>1 DEF HandOn
    <3> QED BY <1>0, <1>12, <3>1 DEF HandOn
  <2>2. CASE ask = a
    <3> DEFINE h == Head(stream[ask])
    <3>1. /\ stream[ask] # <<>> /\ stream'[ask] = Tail(stream[ask]) /\ chan'[ask] = Append(chan[ask], h)
          /\ UNCHANGED <<ask, pc, acted, listener>>
      BY <1>12, <1>a, <2>2 DEF HandOn
    <3>2. h \in Signals /\ ToSet(stream[ask]) = {h} \cup ToSet(stream'[ask])
      BY <1>a, <2>2, <3>1, TailOf, TailSet
    <3>3. ToSet(chan'[ask]) = ToSet(chan[ask]) \cup {h}
      BY <1>a, <2>2, <3>1, <3>2, AppendOf
    <3> HIDE DEF h
    <3> QED BY <1>0, <3>1, <3>2, <3>3
  <2> QED BY <2>1, <2>2
<1>13. ASSUME NEW a \in Asks, StreamEnds(a) PROVE ClickIsOnItsWay'
  <2>1. /\ UNCHANGED <<ask, pc, acted, chan>> /\ listener'[a] = "ended"
        /\ \A b \in Asks : b # a => listener'[b] = listener[b] /\ stream'[b] = stream[b]
    BY <1>13, <1>a DEF StreamEnds
  <2> QED BY <1>0, <1>a, <2>1
<1> QED BY <1>2, <1>3, <1>4, <1>5, <1>6, <1>7, <1>8, <1>9, <1>10, <1>11, <1>12,
           <1>13 DEF Next, Approve

THEOREM ApprovalInvariance == Spec => []ApprovalInv
<1>1. ApprovalInv /\ [Next]_vars => ApprovalInv'
  BY ApprovalTypes, ScreenKept, StageKept, HeardKept, AnswersKept, ClickKept DEF ApprovalInv
<1> QED BY <1>1, ApprovalStarts, PTL DEF Spec

(***************************************************************************)
(* Fail closed: nothing is approved but by a click on Confirm in the       *)
(* prompt of that very question, with any other notifications on the bus   *)
(* and any prompts left over (AnswerIsTheUsers).                           *)
(***************************************************************************)
THEOREM OnlyTheUserApproves == Spec => []AnswerIsTheUsers
<1>1. ApprovalInv => AnswerIsTheUsers
  BY DEF ApprovalInv
<1> QED BY <1>1, ApprovalInvariance, PTL

(***************************************************************************)
(* The subscription comes before the prompt, so no click is missed,        *)
(* however early (ClickIsOnItsWay).                                        *)
(***************************************************************************)
THEOREM NoClickMissed == Spec => []ClickIsOnItsWay
<1>1. ApprovalInv => ClickIsOnItsWay
  BY DEF ApprovalInv
<1> QED BY <1>1, ApprovalInvariance, PTL

=============================================================================
