----------------------------- MODULE PageProofs -----------------------------
(***************************************************************************)
(* Proofs about what the daemon has to do with its pages: the evaluations  *)
(* that it asks of them (RemoteEval), for every set of evaluations and of  *)
(* pages, finite or not, and every limit; and the connection each page has *)
(* (Session), for any traffic, queue, channel and pool.                    *)
(***************************************************************************)
EXTENDS RemoteEval, Session, SequenceTheorems, FiniteSetTheorems, TLAPS

-----------------------------------------------------------------------------
(* Evaluations *)

\* A page answers only what it has seen.
AnswersSeen ==
    \A e \in Evals :
        /\ \A p \in delivered[e] : e \in seen[p]
        /\ slot[e] # None => slot[e] \in delivered[e]
        /\ outcome[e] # None => outcome[e] \in delivered[e]

\* One answer is all that leaves the map, and while it is there there is none.
Unanswered == \A e \in pending : slot[e] = None /\ outcome[e] = None /\ delivered[e] = {}

NotBefore == \A e \in Evals : pc[e] = "new" => delivered[e] = {} /\ slot[e] = None

(***************************************************************************)
(* The inductive invariant.                                                *)
(***************************************************************************)
RemoteInv ==
    /\ RemoteTypeOK
    /\ IsFiniteSet(pending)
    /\ InFlightBounded
    /\ CanBeAnswered
    /\ OneAnswer
    /\ AnswersSeen
    /\ Unanswered
    /\ NotBefore

LEMMA RemoteStarts == RemoteInit => RemoteInv
<1> SUFFICES ASSUME RemoteInit PROVE RemoteInv
  OBVIOUS
<1> USE RemoteOK
<1>1. IsFiniteSet(pending) /\ InFlightBounded
  BY FS_EmptySet DEF RemoteInit, InFlightBounded
<1>2. RemoteTypeOK /\ CanBeAnswered /\ OneAnswer
  BY DEF RemoteInit, RemoteTypeOK, CanBeAnswered, OneAnswer
<1>3. AnswersSeen /\ Unanswered /\ NotBefore
  BY DEF RemoteInit, AnswersSeen, Unanswered, NotBefore
<1> QED BY <1>1, <1>2, <1>3 DEF RemoteInv

\* Taking an evaluation out of the map, or leaving the map alone, keeps the bound.
LEMMA StaysBounded ==
    ASSUME RemoteInv, NEW e \in Evals, pending' \in {pending, pending \ {e}}
    PROVE  IsFiniteSet(pending') /\ Cardinality(pending') <= MaxInFlight
<1>1. CASE pending' = pending
  BY <1>1 DEF RemoteInv, InFlightBounded
<1>2. CASE pending' = pending \ {e}
  <2>1. IsFiniteSet(pending) /\ Cardinality(pending) \in Nat
    BY FS_CardinalityType DEF RemoteInv
  <2>2. IsFiniteSet(pending') /\ Cardinality(pending') \in {Cardinality(pending), Cardinality(pending) - 1}
    BY <1>2, <2>1, FS_RemoveElement
  <2> QED BY <2>1, <2>2, RemoteOK DEF RemoteInv, InFlightBounded
<1> QED BY <1>1, <1>2

LEMMA RegisterKeepsInv ==
    ASSUME RemoteInv, NEW e \in Evals, Register(e)
    PROVE  RemoteInv'
<1> USE RemoteOK
<1>1. IsFiniteSet(pending') /\ Cardinality(pending') <= MaxInFlight
  <2>1. IsFiniteSet(pending) /\ Cardinality(pending) \in Nat
    BY FS_CardinalityType DEF RemoteInv
  <2>2. /\ IsFiniteSet(pending')
        /\ Cardinality(pending') \in {Cardinality(pending), Cardinality(pending) + 1}
    BY <2>1, FS_AddElement DEF Register
  <2>3. Cardinality(pending) < MaxInFlight
    BY <2>1 DEF Register, Full
  <2> QED BY <2>1, <2>2, <2>3
<1>2. RemoteTypeOK' /\ CanBeAnswered' /\ InFlightBounded'
  BY <1>1 DEF RemoteInv, RemoteTypeOK, InFlightBounded, CanBeAnswered, NotBefore, Register, At, GoOn
<1>3. OneAnswer' /\ AnswersSeen' /\ Unanswered' /\ NotBefore'
  BY DEF RemoteInv, RemoteTypeOK, OneAnswer, AnswersSeen, Unanswered, NotBefore, Register, At, GoOn
<1> QED BY <1>1, <1>2, <1>3 DEF RemoteInv

LEMMA WaitKeepsInv ==
    ASSUME RemoteInv, NEW e \in Evals, Busy(e) \/ PushSnippet(e) \/ Receive(e) \/ TimeOut(e) \/ Remove(e)
    PROVE  RemoteInv'
<1> USE RemoteOK
<1>1. IsFiniteSet(pending') /\ Cardinality(pending') <= MaxInFlight
  <2>1. pending' \in {pending, pending \ {e}}
    BY DEF Busy, PushSnippet, Receive, TimeOut, Remove
  <2> QED BY <2>1, StaysBounded
<1>2. RemoteTypeOK'
  BY DEF RemoteInv, RemoteTypeOK, Busy, PushSnippet, Receive, TimeOut, Remove, At, GoOn
<1>3. CanBeAnswered' /\ InFlightBounded'
  BY <1>1 DEF RemoteInv, RemoteTypeOK, InFlightBounded, CanBeAnswered, Busy, PushSnippet, Receive, TimeOut, Remove, At, GoOn
<1>4. OneAnswer' /\ AnswersSeen'
  BY DEF RemoteInv, RemoteTypeOK, OneAnswer, AnswersSeen, Busy, PushSnippet, Receive, TimeOut, Remove, At, GoOn
<1>5. Unanswered' /\ NotBefore'
  BY DEF RemoteInv, RemoteTypeOK, Unanswered, NotBefore, Busy, PushSnippet, Receive, TimeOut, Remove, At, GoOn
<1> QED BY <1>1, <1>2, <1>3, <1>4, <1>5 DEF RemoteInv

LEMMA ResultKeepsInv ==
    ASSUME RemoteInv, NEW p \in Pages, NEW e \in Evals, Result(p, e)
    PROVE  RemoteInv'
<1> USE RemoteOK
<1>1. IsFiniteSet(pending') /\ Cardinality(pending') <= MaxInFlight
  BY StaysBounded DEF Result
<1>2. /\ e \in pending /\ e \in seen[p] /\ pc[e] \in {"registered", "waiting", "done"}
      /\ slot' = [slot EXCEPT ![e] = p]
      /\ delivered' = [delivered EXCEPT ![e] = {p}]
  BY DEF Result, Send, RemoteInv, RemoteTypeOK, InFlightBounded, Unanswered
<1>3. RemoteTypeOK'
  BY <1>2 DEF RemoteInv, RemoteTypeOK, Result
<1>4. CanBeAnswered' /\ InFlightBounded'
  BY <1>1, <1>2 DEF RemoteInv, RemoteTypeOK, InFlightBounded, CanBeAnswered, Result
<1>5. OneAnswer' /\ AnswersSeen'
  BY <1>2 DEF RemoteInv, RemoteTypeOK, OneAnswer, AnswersSeen, Unanswered, Result
<1>6. Unanswered' /\ NotBefore'
  BY <1>2 DEF RemoteInv, RemoteTypeOK, Unanswered, NotBefore, Result
<1> QED BY <1>1, <1>3, <1>4, <1>5, <1>6 DEF RemoteInv

LEMMA RemoteStepKeepsInv ==
    ASSUME RemoteInv, [RemoteNext]_remoteVars
    PROVE  RemoteInv'
<1>1. ASSUME NEW e \in Evals, EvalCall(e) PROVE RemoteInv'
  BY <1>1, RegisterKeepsInv, WaitKeepsInv DEF EvalCall
<1>2. ASSUME NEW p \in Pages, NEW e \in Evals, Result(p, e) PROVE RemoteInv'
  BY <1>2, ResultKeepsInv
<1>3. CASE UNCHANGED remoteVars
  BY <1>3 DEF remoteVars, RemoteInv, RemoteTypeOK, InFlightBounded, CanBeAnswered, OneAnswer,
              AnswersSeen, Unanswered, NotBefore
<1> QED BY <1>1, <1>2, <1>3 DEF RemoteNext, Finished

THEOREM RemoteInvariance == RemoteSpec => []RemoteInv
BY RemoteStarts, RemoteStepKeepsInv, PTL DEF RemoteSpec

(***************************************************************************)
(* However many calls arrive and however they interleave, no more than     *)
(* MAX_IN_FLIGHT of them are registered, and none that returned.           *)
(***************************************************************************)
THEOREM NeverTooMany == RemoteSpec => []InFlightBounded
<1>1. RemoteInv => InFlightBounded
  BY DEF RemoteInv
<1> QED BY <1>1, RemoteInvariance, PTL

(***************************************************************************)
(* A waiting call can be answered or has been: no answer is lost between   *)
(* the map and the channel.                                                *)
(***************************************************************************)
THEOREM NoLostAnswer == RemoteSpec => []CanBeAnswered
<1>1. RemoteInv => CanBeAnswered
  BY DEF RemoteInv
<1> QED BY <1>1, RemoteInvariance, PTL

(***************************************************************************)
(* At most one page is told that its answer was delivered, and a call      *)
(* returns no answer but that one.                                         *)
(***************************************************************************)
THEOREM AnsweredOnce == RemoteSpec => []OneAnswer
<1>1. RemoteInv => OneAnswer
  BY DEF RemoteInv
<1> QED BY <1>1, RemoteInvariance, PTL

-----------------------------------------------------------------------------
(* A connection *)

Queued(r) == \E i \in DOMAIN inbox : inbox[i] = Frame("reply", r)
BeingWritten(r) == frame = Frame("reply", r)

\* Tasks are of what was received.  A batch is in the pool only while the session
\* waits for it, and it is the last one.
TasksInv ==
    /\ IsFiniteSet(running)
    /\ waiting \cap running = {}
    /\ \A r \in Nat : Call(r) \in waiting \cup running => r \in 1..asked
    /\ \A b \in Nat : Batch(b) \in waiting \cup running => loop = "append" /\ b = batches

\* What the session writes is at hand only while it writes.
FrameInv == loop # "write" => frame = NoFrame

\* What is queued is no push.
QueueInv == \A i \in DOMAIN inbox : inbox[i].kind # "push"

\* Before it subscribes there is nothing.
EarlyInv ==
    loop \in {"hello", "welcome", "subscribe"} =>
        asked = 0 /\ answered = {} /\ inbox = <<>> /\ finished = {} /\ cursor = 0

NoTwins == \A i, j \in DOMAIN inbox : inbox[i].kind = "reply" /\ inbox[i] = inbox[j] => i = j

\* What was received is at one place, and only that.
ApartInv ==
    /\ \A r \in Nat :
          /\ r \in finished =>
                r \in 1..asked /\ Call(r) \notin waiting \cup running
          /\ Queued(r) =>
                r \in 1..asked /\ Call(r) \notin waiting \cup running /\ r \notin finished
          /\ BeingWritten(r) =>
                r \in 1..asked /\ Call(r) \notin waiting \cup running /\ r \notin finished
                /\ ~Queued(r)
          /\ r \in answered =>
                r \in 1..asked /\ Call(r) \notin waiting \cup running /\ r \notin finished
                /\ ~Queued(r) /\ ~BeingWritten(r)
    /\ NoTwins

\* And nothing is lost while the connection is open.
KeptInv ==
    loop # "closed" =>
        \A r \in 1..asked :
            r \in refused \/ Call(r) \in waiting \cup running \/ r \in finished
            \/ Queued(r) \/ BeingWritten(r) \/ r \in answered

AppendedInv ==
    /\ LogsInOrder
    /\ \A i \in DOMAIN appended : appended[i] <= batches
    /\ \A b \in Nat : Batch(b) \in waiting \cup running =>
          \A i \in DOMAIN appended : appended[i] < b

Covered(k) == k \in Written(pushed) \/ k \in skipped \/ frame = Frame("push", k)

\* The receiver takes the pushes in their order, each once.
CursorInv ==
    /\ cursor <= made + 1
    /\ loop \in {"select", "append", "write"} => cursor > 0
    /\ Increasing(pushed)
    /\ Written(pushed) \cap skipped = {}
    /\ \A k \in Written(pushed) \cup skipped : k < cursor
    /\ \A k \in Nat : frame = Frame("push", k) =>
          k < cursor /\ k \notin skipped /\ \A i \in DOMAIN pushed : pushed[i] < k

\* All that was taken since a call ran is accounted for, wherever its answer is.
SinceInv ==
    loop # "closed" =>
        \A r \in (1..asked) \ refused : Call(r) \notin waiting \cup running =>
            \A k \in (read[r] + 1)..(cursor - 1) : Covered(k)

(***************************************************************************)
(* The inductive invariant of Session.                                     *)
(***************************************************************************)
SessionInv ==
    /\ TypeOK
    /\ TasksInv /\ FrameInv /\ QueueInv /\ EarlyInv /\ ApartInv /\ KeptInv
    /\ AppendedInv /\ CursorInv /\ SinceInv

LEMMA WrittenAppend ==
    ASSUME NEW T, NEW s \in Seq(T), NEW x \in T
    PROVE  Written(Append(s, x)) = Written(s) \cup {x}
<1> DEFINE q == Append(s, x)
<1>1. /\ Len(q) = Len(s) + 1 /\ Len(s) \in Nat
      /\ DOMAIN q = 1..Len(q) /\ DOMAIN s = 1..Len(s)
      /\ \A i \in 1..Len(s) : q[i] = s[i]
      /\ q[Len(s) + 1] = x
  BY AppendProperties, LenProperties
<1>2. \A y : y \in Written(q) <=> y \in Written(s) \/ y = x
  <2> HIDE DEF q
  <2> QED BY <1>1 DEF Written
<1> QED BY <1>2 DEF Written

LEMMA IncreasingAppend ==
    ASSUME NEW s \in Seq(Nat), NEW x \in Nat,
           Increasing(s), \A i \in DOMAIN s : s[i] < x
    PROVE  Increasing(Append(s, x))
<1> DEFINE q == Append(s, x)
<1>1. /\ Len(q) = Len(s) + 1 /\ Len(s) \in Nat
      /\ DOMAIN q = 1..Len(q) /\ DOMAIN s = 1..Len(s)
      /\ \A i \in 1..Len(s) : q[i] = s[i]
      /\ q[Len(s) + 1] = x
  BY AppendProperties, LenProperties
<1> HIDE DEF q
<1>2. ASSUME NEW i \in DOMAIN q, NEW j \in DOMAIN q, i < j PROVE q[i] < q[j]
  <2>1. i \in DOMAIN s
    BY <1>1, <1>2
  <2>2. CASE j \in DOMAIN s
    BY <1>1, <1>2, <2>1, <2>2 DEF Increasing
  <2>3. CASE j = Len(s) + 1
    BY <1>1, <2>1, <2>3
  <2> QED BY <1>1, <2>2, <2>3
<1>3. Increasing(q)
  BY <1>2 DEF Increasing
<1> QED BY <1>3 DEF q

\* What is in the queue once a frame is put behind the others, or the first is taken.
LEMMA QueueGrows ==
    ASSUME NEW f \in Frames, inbox \in Seq(Frames), inbox' = Append(inbox, f)
    PROVE  /\ inbox' \in Seq(Frames) /\ Len(inbox') = Len(inbox) + 1
           /\ DOMAIN inbox' = DOMAIN inbox \cup {Len(inbox) + 1}
           /\ Len(inbox) + 1 \notin DOMAIN inbox
           /\ \A i \in DOMAIN inbox : inbox'[i] = inbox[i]
           /\ inbox'[Len(inbox) + 1] = f
<1>1. /\ Len(inbox') = Len(inbox) + 1 /\ Len(inbox) \in Nat
      /\ DOMAIN inbox' = 1..Len(inbox') /\ DOMAIN inbox = 1..Len(inbox)
      /\ \A i \in 1..Len(inbox) : inbox'[i] = inbox[i]
      /\ inbox'[Len(inbox) + 1] = f
      /\ inbox' \in Seq(Frames)
  BY AppendProperties, LenProperties
<1> QED BY <1>1

LEMMA QueueShrinks ==
    ASSUME inbox \in Seq(Frames), inbox # <<>>, inbox' = Tail(inbox)
    PROVE  /\ inbox' \in Seq(Frames) /\ Len(inbox') < Len(inbox) /\ Len(inbox) \in Nat
           /\ 1 \in DOMAIN inbox /\ Head(inbox) = inbox[1] /\ Head(inbox) \in Frames
           /\ \A i \in DOMAIN inbox' : i + 1 \in DOMAIN inbox /\ i \in Nat /\ i # 0 /\ inbox'[i] = inbox[i + 1]
           /\ \A i \in DOMAIN inbox : i = 1 \/ (i - 1 \in DOMAIN inbox' /\ inbox'[i - 1] = inbox[i])
<1>1. /\ Len(inbox) \in Nat /\ Len(inbox) # 0 /\ DOMAIN inbox = 1..Len(inbox)
      /\ Len(inbox') = Len(inbox) - 1 /\ DOMAIN inbox' = 1..Len(inbox')
      /\ \A i \in 1..Len(inbox') : inbox'[i] = inbox[i + 1]
      /\ inbox' \in Seq(Frames) /\ Head(inbox) \in Frames
  BY HeadTailProperties, LenProperties, EmptySeq
<1>2. Head(inbox) = inbox[1]
  BY <1>1
<1> QED BY <1>1, <1>2

LEMMA SessionStarts == Init => SessionInv
<1> SUFFICES ASSUME Init PROVE SessionInv
  OBVIOUS
<1> USE ConstantsOK
<1>1. IsFiniteSet(running) /\ Cardinality(running) = 0
  BY FS_EmptySet DEF Init
<1>2. <<>> \in Seq(Frames) /\ <<>> \in Seq(Nat) /\ Len(<<>>) = 0 /\ DOMAIN <<>> = {}
  OBVIOUS
<1>3. TypeOK
  BY <1>1, <1>2 DEF Init, TypeOK, NoFrame, Frame, Frames
<1>4. TasksInv /\ FrameInv /\ QueueInv /\ EarlyInv /\ KeptInv
  BY <1>1 DEF Init, TasksInv, FrameInv, QueueInv, EarlyInv, KeptInv
<1>5. ApartInv
  BY <1>2 DEF Init, ApartInv, NoTwins, Queued, BeingWritten, NoFrame, Frame
<1>6. AppendedInv /\ CursorInv /\ SinceInv
  BY <1>2 DEF Init, AppendedInv, LogsInOrder, CursorInv, SinceInv, Increasing, Written, NoFrame, Frame
<1> QED BY <1>3, <1>4, <1>5, <1>6 DEF SessionInv

\* What the rest of the section needs of the frames and the tasks.
LEMMA Kinds ==
    /\ \A r \in Nat : Call(r) \in Tasks /\ Batch(r) \in Tasks
    /\ \A r, s \in Nat : Call(r) # Batch(s)
    /\ \A r, s \in Nat : Call(r) = Call(s) => r = s
    /\ \A r, s \in Nat : Batch(r) = Batch(s) => r = s
    /\ \A t \in Tasks : t.n \in Nat /\ (t = Call(t.n) \/ t = Batch(t.n))
BY DEF Call, Batch, Tasks

LEMMA FrameKinds ==
    /\ NoFrame \in Frames
    /\ \A r \in Nat : Frame("reply", r) \in Frames /\ Frame("error", r) \in Frames
                      /\ Frame("push", r) \in Frames
    /\ \A r, s \in Nat : Frame("reply", r) # Frame("error", s)
                         /\ Frame("reply", r) # Frame("push", s)
                         /\ Frame("push", r) # Frame("error", s)
    /\ \A r, s \in Nat : Frame("reply", r) = Frame("reply", s) => r = s
    /\ \A r, s \in Nat : Frame("push", r) = Frame("push", s) => r = s
    /\ \A r \in Nat : NoFrame # Frame("reply", r) /\ NoFrame # Frame("push", r)
    /\ \A f \in Frames : f.n \in Nat
    /\ \A f \in Frames : f.kind = "reply" => f = Frame("reply", f.n)
    /\ \A f \in Frames : f.kind = "push" => f = Frame("push", f.n)
    /\ \A r : Frame("reply", r).kind = "reply" /\ Frame("reply", r).n = r
    /\ \A r : Frame("error", r).kind = "error"
    /\ \A r : Frame("push", r).kind = "push" /\ Frame("push", r).n = r
BY DEF Frame, Frames, NoFrame

\* Queueing, whether there is room or not.
LEMMA Queueing ==
    ASSUME NEW f \in Frames, TypeOK, Queue(f)
    PROVE  /\ inbox' \in Seq(Frames) /\ Len(inbox') <= QueueSize
           /\ \/ inbox' = inbox
              \/ inbox' = Append(inbox, f)
<1> USE ConstantsOK
<1>1. CASE Len(inbox) < QueueSize
  <2>1. inbox' = Append(inbox, f)
    BY <1>1 DEF Queue
  <2>2. inbox' \in Seq(Frames) /\ Len(inbox') = Len(inbox) + 1 /\ Len(inbox) \in Nat
    BY <2>1, QueueGrows, LenProperties DEF TypeOK
  <2> QED BY <1>1, <2>1, <2>2
<1>2. CASE ~(Len(inbox) < QueueSize)
  BY <1>2 DEF Queue, TypeOK
<1> QED BY <1>1, <1>2

LEMMA TypesKept ==
    ASSUME TypeOK, TasksInv, ApartInv, [Next]_vars
    PROVE  TypeOK'
<1> USE ConstantsOK DEF vars, peerVars, poolVars, pushVars, logVars
<1>0. CASE UNCHANGED vars
  BY <1>0 DEF TypeOK
<1>1. CASE Hello \/ Refuse \/ PeerReads
  <2>1. /\ unread' \in 0..SocketBuffer
        /\ loop' \in {"hello", "welcome", "subscribe", "select", "append", "write", "closed"}
    <3>1. CASE Hello \/ Refuse
      BY <3>1 DEF Hello, Refuse, Goto, TypeOK
    <3>2. CASE PeerReads
      BY <3>2 DEF PeerReads, TypeOK
    <3> QED BY <1>1, <3>1, <3>2
  <2>2. UNCHANGED <<frame, inbox, asked, batches, errors, waiting, running, finished, read,
                    refused, answered, appended, written, made, cursor, pushed, skipped>>
    BY <1>1, SMTT(30) DEF Hello, Refuse, PeerReads
  <2> QED BY <2>1, <2>2, SMTT(30) DEF TypeOK
<1>2. CASE WriteWelcome \/ Subscribe \/ Push
  <2>1. unread' \in 0..SocketBuffer /\ made' \in Nat /\ cursor' \in Nat
    <3>1. CASE WriteWelcome
      BY <3>1 DEF WriteWelcome, TypeOK
    <3>2. CASE Subscribe \/ Push
      BY <3>2, SMTT(30) DEF Subscribe, Push, TypeOK
    <3> QED BY <1>2, <3>1, <3>2
  <2>3. loop' \in {loop, "subscribe", "select"}
    BY <1>2 DEF WriteWelcome, Subscribe, Push, Goto
  <2>2. UNCHANGED <<frame, inbox, asked, batches, errors, waiting, running, finished, read,
                    refused, answered, appended, written, pushed, skipped>>
    BY <1>2, SMTT(30) DEF WriteWelcome, Subscribe, Push
  <2> QED BY <2>1, <2>2, <2>3, SMTT(30) DEF TypeOK
<1>3. CASE Close
  <2>1. <<>> \in Seq(Frames) /\ Len(<<>>) = 0
    OBVIOUS
  <2> QED BY <1>3, <2>1, FrameKinds DEF Close, TypeOK
<1>4. CASE ReceiveCall
  BY <1>4, Kinds DEF ReceiveCall, Goto, TypeOK, Calls
<1>5. CASE RefuseCall
  <2>1. asked' \in 1..MaxCalls /\ Frame("reply", asked') \in Frames
    BY <1>5, FrameKinds DEF RefuseCall, TypeOK
  <2>2. inbox' \in Seq(Frames) /\ Len(inbox') <= QueueSize
    BY <1>5, <2>1, Queueing DEF RefuseCall
  <2> QED BY <1>5, <2>1, <2>2, SMTT(30) DEF RefuseCall, Goto, TypeOK, Calls
<1>6. CASE ReceiveError
  <2>1. inbox' \in Seq(Frames) /\ Len(inbox') <= QueueSize
    BY <1>6, FrameKinds, Queueing DEF ReceiveError
  <2> QED BY <1>6, <2>1, SMTT(30) DEF ReceiveError, Goto, TypeOK
<1>7. CASE ReceiveBatch
  BY <1>7, Kinds DEF ReceiveBatch, Goto, TypeOK
<1>8. ASSUME NEW t \in waiting, Begin(t) PROVE TypeOK'
  <2>1. IsFiniteSet(running) /\ Cardinality(running) \in Nat
    BY FS_CardinalityType DEF TasksInv
  <2>2. /\ IsFiniteSet(running \cup {t})
        /\ Cardinality(running \cup {t}) \in {Cardinality(running), Cardinality(running) + 1}
    BY <2>1, FS_AddElement
  <2>3. Cardinality(running') <= Threads
    BY <1>8, <2>1, <2>2 DEF Begin
  <2> QED BY <1>8, <2>3 DEF Begin, TypeOK
<1>9. ASSUME NEW t, running' = running \ {t}
      PROVE  Cardinality(running') <= Threads /\ running' \subseteq Tasks
  <2>1. IsFiniteSet(running) /\ Cardinality(running) \in Nat
    BY FS_CardinalityType DEF TasksInv
  <2>2. Cardinality(running') <= Cardinality(running)
    <3>1. running' \in SUBSET running
      BY <1>9
    <3> QED BY <2>1, <3>1, FS_Subset
  <2>3. Cardinality(running') \in Nat
    <3>1. IsFiniteSet(running')
      BY <1>9, <2>1, FS_RemoveElement
    <3> QED BY <3>1, FS_CardinalityType
  <2> QED BY <1>9, <2>1, <2>2, <2>3, SMTT(30) DEF TypeOK
<1>10. ASSUME NEW r \in Calls, Finish(r) PROVE TypeOK'
  <2>1. Cardinality(running') <= Threads /\ running' \subseteq Tasks
    BY <1>9, <1>10 DEF Finish
  <2> QED BY <1>10, <2>1 DEF Finish, TypeOK
<1>11. ASSUME NEW r \in Calls, Deliver(r) PROVE TypeOK'
  <2>1. Frame("reply", r) \in Frames
    BY FrameKinds DEF Calls
  <2>2. inbox' \in Seq(Frames) /\ Len(inbox') <= QueueSize
    BY <1>11, <2>1, Queueing DEF Deliver, Queue
  <2> QED BY <1>11, <2>2 DEF Deliver, TypeOK
<1>12. ASSUME NEW r \in Calls, GiveUp(r) PROVE TypeOK'
  BY <1>12 DEF GiveUp, TypeOK
<1>13. ASSUME NEW b \in Batches, Ingest(b) PROVE TypeOK'
  <2>1. Cardinality(running') <= Threads /\ running' \subseteq Tasks
    BY <1>9, <1>13 DEF Ingest
  <2>2. Append(appended, b) \in Seq(Nat)
    BY AppendProperties DEF TypeOK, Batches
  <2>3. appended' \in Seq(Nat) /\ written' \in Nat
    <3>1. CASE appended' = Append(appended, b) /\ written' = written + 1
      BY <2>2, <3>1 DEF TypeOK
    <3>2. CASE appended' = appended /\ written' = written
      BY <3>2 DEF TypeOK
    <3> QED BY <1>13, <3>1, <3>2 DEF Ingest
  <2> QED BY <1>13, <2>1, <2>3 DEF Ingest, TypeOK
<1>14. CASE TakeReply
  <2>1. inbox' \in Seq(Frames) /\ Len(inbox') <= QueueSize /\ frame' \in Frames
    BY <1>14, QueueShrinks, LenProperties DEF TakeReply, TypeOK
  <2> QED BY <1>14, <2>1 DEF TakeReply, Goto, TypeOK
<1>15. CASE TakePush
  BY <1>15, FrameKinds DEF TakePush, Goto, TypeOK
<1>16. CASE Lag
  BY <1>16 DEF Lag, Goto, TypeOK, Oldest
<1>17. CASE Write
  <2>1. frame.kind = "push" => Append(pushed, frame.n) \in Seq(Nat)
    BY FrameKinds, AppendProperties DEF TypeOK
  <2>2. frame.kind = "reply" => frame.n \in Calls
    BY FrameKinds DEF TypeOK, ApartInv, BeingWritten, Calls
  <2> QED BY <1>17, <2>1, <2>2, FrameKinds DEF Write, Goto, TypeOK
<1> QED BY <1>0, <1>1, <1>2, <1>3, <1>4, <1>5, <1>6, <1>7, <1>8, <1>10, <1>11,
           <1>12, <1>13, <1>14, <1>15, <1>16, <1>17 DEF Next

LEMMA TasksKept ==
    ASSUME TypeOK, TasksInv, [Next]_vars
    PROVE  TasksInv'
<1> USE DEF vars, peerVars, poolVars, pushVars, logVars
<1>1. ASSUME UNCHANGED <<waiting, running, asked, batches>>, loop' = loop \/ loop # "append"
      PROVE  TasksInv'
  BY <1>1 DEF TasksInv
<1>2. CASE UNCHANGED vars \/ Hello \/ Refuse \/ WriteWelcome \/ Subscribe \/ Close
  BY <1>1, <1>2 DEF Hello, Refuse, WriteWelcome, Subscribe, Close, Goto
<1>3. CASE PeerReads \/ ReceiveError \/ TakeReply \/ TakePush \/ Lag \/ Write \/ Push
  BY <1>1, <1>3 DEF PeerReads, ReceiveError, TakeReply, TakePush, Lag, Write, Push, Goto
<1>4. ASSUME NEW r \in Calls, Deliver(r) \/ GiveUp(r) PROVE TasksInv'
  BY <1>1, <1>4 DEF Deliver, GiveUp
<1>5. CASE ReceiveCall
  <2>1. Call(asked') \notin running /\ Call(asked') \notin waiting
    BY <1>5 DEF ReceiveCall, TypeOK, TasksInv
  <2>2. asked' = asked + 1 /\ asked \in Nat /\ waiting' = waiting \cup {Call(asked')}
        /\ running' = running /\ loop' = loop /\ batches' = batches
    BY <1>5 DEF ReceiveCall, TypeOK, Goto
  <2> QED BY <2>1, <2>2, Kinds DEF TasksInv
<1>6. CASE RefuseCall
  BY <1>6 DEF RefuseCall, TasksInv, TypeOK, Goto
<1>7. CASE ReceiveBatch
  <2>1. \A b \in Nat : Batch(b) \notin waiting \cup running
    BY <1>7 DEF ReceiveBatch, TasksInv, Goto
  <2>2. /\ batches' = batches + 1 /\ batches \in Nat /\ waiting' = waiting \cup {Batch(batches')}
        /\ running' = running /\ loop' = "append" /\ asked' = asked
    BY <1>7 DEF ReceiveBatch, TypeOK, Goto
  <2> QED BY <2>1, <2>2, Kinds DEF TasksInv
<1>8. ASSUME NEW t \in waiting, Begin(t) PROVE TasksInv'
  <2>1. IsFiniteSet(running')
    BY <1>8, FS_AddElement DEF Begin, TasksInv
  <2> QED BY <1>8, <2>1 DEF Begin, TasksInv
<1>9. ASSUME NEW r \in Calls, Finish(r) PROVE TasksInv'
  <2>1. IsFiniteSet(running')
    BY <1>9, FS_RemoveElement DEF Finish, TasksInv
  <2> QED BY <1>9, <2>1 DEF Finish, TasksInv
<1>10. ASSUME NEW b \in Batches, Ingest(b) PROVE TasksInv'
  <2>1. IsFiniteSet(running')
    BY <1>10, FS_RemoveElement DEF Ingest, TasksInv
  <2>2. \A c \in Nat : Batch(c) \notin waiting' \cup running'
    BY <1>10 DEF Ingest, TasksInv, Batches
  <2> QED BY <1>10, <2>1, <2>2 DEF Ingest, TasksInv
<1> QED BY <1>2, <1>3, <1>4, <1>5, <1>6, <1>7, <1>8, <1>9, <1>10 DEF Next

\* How the session's task moves: a frame is at hand only from one write to its end.
LEMMA FrameKept ==
    ASSUME TasksInv, FrameInv, [Next]_vars
    PROVE  FrameInv'
<1> USE DEF vars, peerVars, poolVars, pushVars, logVars, FrameInv
<1>1. CASE UNCHANGED vars \/ Hello \/ Refuse \/ WriteWelcome \/ Subscribe \/ Close
  BY <1>1 DEF Hello, Refuse, WriteWelcome, Subscribe, Close, Goto
<1>2. CASE PeerReads \/ ReceiveCall \/ RefuseCall \/ ReceiveError \/ ReceiveBatch
  BY <1>2 DEF PeerReads, ReceiveCall, RefuseCall, ReceiveError, ReceiveBatch, Goto
<1>3. CASE TakeReply \/ TakePush \/ Lag \/ Write \/ Push
  BY <1>3 DEF TakeReply, TakePush, Lag, Write, Push, Goto
<1>4. ASSUME NEW t \in waiting, Begin(t) PROVE FrameInv'
  BY <1>4 DEF Begin
<1>5. ASSUME NEW r \in Calls, Finish(r) \/ Deliver(r) \/ GiveUp(r) PROVE FrameInv'
  BY <1>5 DEF Finish, Deliver, GiveUp
<1>6. ASSUME NEW b \in Batches, Ingest(b) PROVE FrameInv'
  BY <1>6, Kinds DEF Ingest, TasksInv, Batches
<1> QED BY <1>1, <1>2, <1>3, <1>4, <1>5, <1>6 DEF Next

LEMMA EarlyKept ==
    ASSUME TypeOK, TasksInv, EarlyInv, [Next]_vars
    PROVE  EarlyInv'
<1> USE DEF vars, peerVars, poolVars, pushVars, logVars, EarlyInv
<1>1. CASE UNCHANGED vars \/ Hello \/ Refuse \/ WriteWelcome \/ Subscribe \/ Close
  BY <1>1 DEF Hello, Refuse, WriteWelcome, Subscribe, Close, Goto
<1>2. CASE PeerReads \/ ReceiveCall \/ RefuseCall \/ ReceiveError \/ ReceiveBatch
  BY <1>2 DEF PeerReads, ReceiveCall, RefuseCall, ReceiveError, ReceiveBatch, Goto
<1>3. CASE TakeReply \/ TakePush \/ Lag \/ Write \/ Push
  BY <1>3 DEF TakeReply, TakePush, Lag, Write, Push, Goto
<1>4. ASSUME NEW t \in waiting, Begin(t) PROVE EarlyInv'
  BY <1>4 DEF Begin
<1>5. ASSUME NEW r \in Calls, Finish(r) \/ Deliver(r) \/ GiveUp(r) PROVE EarlyInv'
  BY <1>5 DEF Finish, Deliver, GiveUp, TasksInv, Calls
<1>6. ASSUME NEW b \in Batches, Ingest(b) PROVE EarlyInv'
  BY <1>6, Kinds DEF Ingest, TasksInv, Batches
<1> QED BY <1>1, <1>2, <1>3, <1>4, <1>5, <1>6 DEF Next

\* Which answers are queued once a frame came in, or the first one went out.
LEMMA QueuedThen ==
    ASSUME TypeOK, NEW f \in Frames, inbox' = inbox \/ inbox' = Append(inbox, f)
    PROVE  /\ \A r \in Nat : Queued(r)' => Queued(r) \/ f = Frame("reply", r)
           /\ \A r \in Nat : Queued(r) => Queued(r)'
           /\ inbox' = Append(inbox, f) => \A r \in Nat : f = Frame("reply", r) => Queued(r)'
           /\ NoTwins /\ (\A r \in Nat : f = Frame("reply", r) => ~Queued(r)) => NoTwins'
<1>1. CASE inbox' = inbox
  BY <1>1 DEF Queued, NoTwins
<1>2. CASE inbox' = Append(inbox, f)
  <2>1. /\ DOMAIN inbox' = DOMAIN inbox \cup {Len(inbox) + 1}
        /\ \A i \in DOMAIN inbox : inbox'[i] = inbox[i]
        /\ inbox'[Len(inbox) + 1] = f
    BY <1>2, QueueGrows DEF TypeOK
  <2>2. /\ \A r \in Nat : Queued(r)' => Queued(r) \/ f = Frame("reply", r)
        /\ \A r \in Nat : Queued(r) => Queued(r)'
        /\ \A r \in Nat : f = Frame("reply", r) => Queued(r)'
    BY <2>1 DEF Queued
  <2>3. ASSUME NoTwins, \A r \in Nat : f = Frame("reply", r) => ~Queued(r) PROVE NoTwins'
    <3>1. f.kind = "reply" => \A i \in DOMAIN inbox : inbox[i] # f
      BY <2>3, FrameKinds DEF Queued
    <3> QED BY <2>1, <2>3, <3>1 DEF NoTwins
  <2> QED BY <2>2, <2>3
<1> QED BY <1>1, <1>2

LEMMA QueuedAfter ==
    ASSUME TypeOK, inbox # <<>>, inbox' = Tail(inbox), frame' = Head(inbox), frame = NoFrame
    PROVE  /\ \A r \in Nat : Queued(r) => Queued(r)' \/ BeingWritten(r)'
           /\ \A r \in Nat : Queued(r)' \/ BeingWritten(r)' => Queued(r)
           /\ NoTwins => NoTwins' /\ \A r \in Nat : ~(Queued(r)' /\ BeingWritten(r)')
<1>1. /\ 1 \in DOMAIN inbox /\ frame' = inbox[1]
      /\ \A i \in DOMAIN inbox' : i + 1 \in DOMAIN inbox /\ i \in Nat /\ i # 0 /\ inbox'[i] = inbox[i + 1]
      /\ \A i \in DOMAIN inbox : i = 1 \/ (i - 1 \in DOMAIN inbox' /\ inbox'[i - 1] = inbox[i])
  BY QueueShrinks DEF TypeOK
<1>2. \A r \in Nat : Queued(r) => Queued(r)' \/ BeingWritten(r)'
  BY <1>1 DEF Queued, BeingWritten
<1>3. \A r \in Nat : Queued(r)' \/ BeingWritten(r)' => Queued(r)
  BY <1>1 DEF Queued, BeingWritten
<1>4. ASSUME NoTwins PROVE NoTwins' /\ \A r \in Nat : ~(Queued(r)' /\ BeingWritten(r)')
  <2>1. NoTwins'
    BY <1>1, <1>4 DEF NoTwins
  <2>2. ASSUME NEW r \in Nat, Queued(r)', BeingWritten(r)' PROVE FALSE
    <3>1. PICK i \in DOMAIN inbox' : inbox'[i] = Frame("reply", r)
      BY <2>2 DEF Queued
    <3>2. inbox[i + 1] = inbox[1] /\ inbox[1].kind = "reply" /\ i + 1 \in DOMAIN inbox
      BY <1>1, <2>2, <3>1, FrameKinds DEF BeingWritten
    <3>3. i + 1 = 1
      BY <1>1, <1>4, <3>2 DEF NoTwins
    <3> QED BY <1>1, <3>1, <3>3
  <2> QED BY <2>1, <2>2
<1> QED BY <1>2, <1>3, <1>4

\* With nothing at hand but what is not an answer, no answer is being written.
LEMMA ApartKept ==
    ASSUME TypeOK, TasksInv, FrameInv, ApartInv, [Next]_vars
    PROVE  ApartInv'
<1> USE DEF vars, peerVars, poolVars, pushVars, logVars
<1>a. asked \in Nat /\ \A r \in Calls : r \in Nat
  BY DEF TypeOK, Calls
<1>1. ASSUME UNCHANGED <<asked, waiting, running, finished, inbox, frame, answered>>
      PROVE  ApartInv'
  BY <1>1 DEF ApartInv, Queued, BeingWritten, NoTwins
<1>2. CASE UNCHANGED vars \/ Hello \/ Refuse \/ WriteWelcome \/ Subscribe
  BY <1>1, <1>2 DEF Hello, Refuse, WriteWelcome, Subscribe
<1>3. CASE PeerReads \/ Lag \/ Push
  BY <1>1, <1>3 DEF PeerReads, Lag, Push
<1>4. CASE Close
  <2>1. \A r \in Nat : ~Queued(r)' /\ ~BeingWritten(r)'
    BY <1>4, FrameKinds DEF Close, Queued, BeingWritten
  <2>2. NoTwins'
    BY <1>4 DEF Close, NoTwins
  <2> QED BY <1>4, <2>1, <2>2 DEF Close, ApartInv
<1>5. CASE ReceiveCall
  <2>1. /\ asked' = asked + 1 /\ waiting' = waiting \cup {Call(asked')}
        /\ UNCHANGED <<running, finished, inbox, frame, answered>>
    BY <1>5 DEF ReceiveCall
  <2>2. \A r \in Nat : (Queued(r)' <=> Queued(r)) /\ (BeingWritten(r)' <=> BeingWritten(r))
    BY <2>1 DEF Queued, BeingWritten
  <2>3. NoTwins'
    BY <2>1 DEF ApartInv, NoTwins
  <2> QED BY <1>a, <2>1, <2>2, <2>3, Kinds DEF ApartInv
<1>6. ASSUME NEW f \in Frames, inbox' = inbox \/ inbox' = Append(inbox, f),
             \A r \in Nat : f = Frame("reply", r) =>
                r \in 1..asked' /\ Call(r) \notin waiting \cup running /\ r \notin finished'
                /\ ~Queued(r) /\ ~BeingWritten(r) /\ r \notin answered,
             asked' \in {asked, asked + 1}, finished' \subseteq finished,
             UNCHANGED <<waiting, running, frame, answered>>
      PROVE  ApartInv'
  <2>1. NoTwins' /\ \A r \in Nat : Queued(r)' => Queued(r) \/ f = Frame("reply", r)
    BY <1>6, QueuedThen DEF ApartInv
  <2>2. \A r \in Nat : BeingWritten(r)' <=> BeingWritten(r)
    BY <1>6 DEF BeingWritten
  <2> QED BY <1>a, <1>6, <2>1, <2>2 DEF ApartInv
<1>7. CASE RefuseCall
  <2>1. asked' = asked + 1 /\ asked' \in Nat /\ Frame("reply", asked') \in Frames
    BY <1>7, <1>a, FrameKinds DEF RefuseCall
  <2>2. /\ Call(asked') \notin waiting \cup running /\ asked' \notin finished
        /\ ~Queued(asked') /\ ~BeingWritten(asked') /\ asked' \notin answered
    BY <1>a, <2>1 DEF ApartInv, TasksInv
  <2>3. inbox' = inbox \/ inbox' = Append(inbox, Frame("reply", asked'))
    BY <1>7 DEF RefuseCall, Queue
  <2>4. UNCHANGED <<waiting, running, finished, frame, answered>>
    BY <1>7 DEF RefuseCall
  <2>5. \A r \in Nat : Frame("reply", asked') = Frame("reply", r) => r = asked'
    BY <2>1, FrameKinds
  <2> QED BY <1>6, <1>a, <2>1, <2>2, <2>3, <2>4, <2>5
<1>8. CASE ReceiveError
  <2>1. \A r \in Nat : Frame("error", 0) # Frame("reply", r)
    BY FrameKinds
  <2>2. Frame("error", 0) \in Frames
    BY FrameKinds
  <2> QED BY <1>6, <1>8, <2>1, <2>2 DEF ReceiveError, Queue
<1>9. ASSUME NEW r \in Calls, Deliver(r) PROVE ApartInv'
  <2>1. r \in Nat /\ r \in finished /\ Frame("reply", r) \in Frames
    BY <1>9, <1>a, FrameKinds DEF Deliver
  <2>2. r \in 1..asked /\ Call(r) \notin waiting \cup running
        /\ ~Queued(r) /\ ~BeingWritten(r) /\ r \notin answered
    BY <2>1 DEF ApartInv
  <2>3. inbox' = Append(inbox, Frame("reply", r)) /\ finished' = finished \ {r}
        /\ UNCHANGED <<asked, waiting, running, frame, answered>>
    BY <1>9 DEF Deliver
  <2>4. \A q \in Nat : Frame("reply", r) = Frame("reply", q) => q = r
    BY <2>1, FrameKinds
  <2> QED BY <1>6, <2>1, <2>2, <2>3, <2>4
<1>10. ASSUME waiting' \cup running' \subseteq waiting \cup running \cup {t \in Tasks : t.kind = "batch"},
              UNCHANGED <<asked, finished, inbox, frame, answered>>
       PROVE  ApartInv'
  <2>1. \A r \in Nat : Call(r) \in waiting' \cup running' => Call(r) \in waiting \cup running
    BY <1>10 DEF Call
  <2>2. \A r \in Nat : (Queued(r)' <=> Queued(r)) /\ (BeingWritten(r)' <=> BeingWritten(r))
    BY <1>10 DEF Queued, BeingWritten
  <2>3. NoTwins'
    BY <1>10 DEF ApartInv, NoTwins
  <2> QED BY <1>10, <2>1, <2>2, <2>3 DEF ApartInv
<1>11. CASE ReceiveBatch
  BY <1>10, <1>11 DEF ReceiveBatch, Batch, Tasks, TypeOK
<1>12. ASSUME NEW t \in waiting, Begin(t) PROVE ApartInv'
  BY <1>10, <1>12 DEF Begin
<1>13. ASSUME NEW b \in Batches, Ingest(b) PROVE ApartInv'
  BY <1>10, <1>13 DEF Ingest
<1>14. ASSUME NEW r \in Calls, Finish(r) PROVE ApartInv'
  <2>1. /\ finished' = finished \cup {r} /\ running' = running \ {Call(r)} /\ waiting' = waiting
        /\ Call(r) \in running
        /\ UNCHANGED <<asked, inbox, frame, answered>>
    BY <1>14 DEF Finish
  <2>2. Call(r) \notin waiting' \cup running' /\ r \in 1..asked
    BY <1>a, <2>1 DEF TasksInv
  <2>3. \A q \in Nat : (Queued(q)' <=> Queued(q)) /\ (BeingWritten(q)' <=> BeingWritten(q))
    BY <2>1 DEF Queued, BeingWritten
  <2>4. NoTwins'
    BY <2>1 DEF ApartInv, NoTwins
  <2> QED BY <2>1, <2>2, <2>3, <2>4 DEF ApartInv
<1>15. ASSUME NEW r \in Calls, GiveUp(r) PROVE ApartInv'
  <2>1. finished' = finished \ {r} /\ UNCHANGED <<asked, waiting, running, inbox, frame, answered>>
    BY <1>15 DEF GiveUp
  <2>3. \A q \in Nat : (Queued(q)' <=> Queued(q)) /\ (BeingWritten(q)' <=> BeingWritten(q))
    BY <2>1 DEF Queued, BeingWritten
  <2>4. NoTwins'
    BY <2>1 DEF ApartInv, NoTwins
  <2> QED BY <2>1, <2>3, <2>4 DEF ApartInv
<1>16. CASE TakeReply
  <2>1. frame = NoFrame /\ inbox # <<>> /\ inbox' = Tail(inbox) /\ frame' = Head(inbox)
        /\ UNCHANGED <<asked, waiting, running, finished, answered>>
    BY <1>16 DEF TakeReply, Goto, FrameInv
  <2>2. /\ \A r \in Nat : Queued(r)' \/ BeingWritten(r)' => Queued(r)
        /\ NoTwins' /\ \A r \in Nat : ~(Queued(r)' /\ BeingWritten(r)')
    BY <2>1, QueuedAfter DEF ApartInv
  <2> QED BY <2>1, <2>2 DEF ApartInv
<1>17. CASE TakePush
  <2>1. frame' = Frame("push", cursor) /\ cursor \in Nat
        /\ UNCHANGED <<asked, waiting, running, finished, inbox, answered>>
    BY <1>17 DEF TakePush, TypeOK
  <2>2. \A r \in Nat : ~BeingWritten(r)' /\ (Queued(r)' <=> Queued(r))
    BY <2>1, FrameKinds DEF BeingWritten, Queued
  <2>3. NoTwins'
    BY <2>1 DEF ApartInv, NoTwins
  <2> QED BY <2>1, <2>2, <2>3 DEF ApartInv
<1>18. CASE Write
  <2>1. /\ frame' = NoFrame
        /\ answered' = IF frame.kind = "reply" THEN answered \cup {frame.n} ELSE answered
        /\ UNCHANGED <<asked, waiting, running, finished, inbox>>
    BY <1>18 DEF Write
  <2>2. \A r \in Nat : ~BeingWritten(r)' /\ (Queued(r)' <=> Queued(r))
    BY <2>1, FrameKinds DEF BeingWritten, Queued
  <2>3. \A r \in Nat : r \in answered' => r \in answered \/ BeingWritten(r)
    BY <2>1, FrameKinds DEF BeingWritten, TypeOK
  <2>4. NoTwins'
    BY <2>1 DEF ApartInv, NoTwins
  <2> QED BY <2>1, <2>2, <2>3, <2>4 DEF ApartInv
<1> QED BY <1>2, <1>3, <1>4, <1>5, <1>7, <1>8, <1>9, <1>11, <1>12, <1>13, <1>14,
           <1>15, <1>16, <1>17, <1>18 DEF Next

\* Where a call may be, as KeptInv has it.
Held(r) == r \in refused \/ Call(r) \in waiting \cup running \/ r \in finished
           \/ Queued(r) \/ BeingWritten(r) \/ r \in answered

LEMMA KeptKept ==
    ASSUME TypeOK, TasksInv, FrameInv, KeptInv, [Next]_vars
    PROVE  KeptInv'
<1> USE DEF vars, peerVars, poolVars, pushVars, logVars
<1>a. asked \in Nat /\ \A r \in Calls : r \in Nat
  BY DEF TypeOK, Calls
\* A step keeps a connection that was open, and what was held is held.
<1>1. ASSUME loop' # "closed" => loop # "closed", asked' = asked,
             loop' # "closed" => \A r \in 1..asked : Held(r) => Held(r)'
      PROVE  KeptInv'
  BY <1>1 DEF KeptInv, Held
<1>2. ASSUME UNCHANGED <<asked, refused, waiting, running, finished, inbox, frame, answered>>,
             loop' # "closed" => loop # "closed"
      PROVE  KeptInv'
  BY <1>1, <1>2 DEF Held, Queued, BeingWritten
<1>3. CASE UNCHANGED vars \/ Hello \/ Refuse \/ WriteWelcome \/ Subscribe
  BY <1>2, <1>3 DEF Hello, Refuse, WriteWelcome, Subscribe, Goto
<1>4. CASE PeerReads \/ Lag \/ Push
  BY <1>2, <1>4 DEF PeerReads, Lag, Push, Goto
<1>5. CASE Close
  BY <1>5 DEF Close, KeptInv
<1>6. CASE ReceiveCall
  <2>1. /\ asked' = asked + 1 /\ waiting' = waiting \cup {Call(asked')} /\ loop # "closed"
        /\ UNCHANGED <<running, finished, inbox, frame, answered, refused>>
    BY <1>6 DEF ReceiveCall, Goto
  <2>2. \A r \in 1..asked : Held(r) => Held(r)'
    BY <2>1 DEF Held, Queued, BeingWritten
  <2>3. Call(asked') \in waiting'
    BY <2>1
  <2>4. \A r \in 1..asked' : r \in 1..asked \/ r = asked'
    BY <1>a, <2>1
  <2> QED BY <2>1, <2>2, <2>3, <2>4 DEF KeptInv, Held
<1>7. CASE RefuseCall
  <2>1. /\ asked' = asked + 1 /\ refused' = refused \cup {asked'} /\ loop # "closed"
        /\ Queue(Frame("reply", asked')) /\ UNCHANGED <<waiting, running, finished, frame, answered>>
    BY <1>7 DEF RefuseCall, Goto
  <2>2. \A r \in Nat : Queued(r) => Queued(r)'
    BY <1>a, <2>1, QueuedThen, FrameKinds DEF Queue
  <2>3. \A r \in 1..asked : Held(r) => Held(r)'
    BY <2>1, <2>2 DEF Held, BeingWritten
  <2>4. \A r \in 1..asked' : r \in 1..asked \/ r \in refused'
    BY <1>a, <2>1
  <2> QED BY <2>1, <2>3, <2>4 DEF KeptInv, Held
<1>8. CASE ReceiveError
  <2>1. /\ loop # "closed" /\ Queue(Frame("error", 0))
        /\ UNCHANGED <<asked, refused, waiting, running, finished, frame, answered>>
    BY <1>8 DEF ReceiveError, Goto
  <2>2. \A r \in Nat : Queued(r) => Queued(r)'
    BY <2>1, QueuedThen, FrameKinds DEF Queue
  <2> QED BY <1>1, <2>1, <2>2 DEF Held, BeingWritten
<1>9. CASE ReceiveBatch
  BY <1>1, <1>9 DEF ReceiveBatch, Goto, Held, Queued, BeingWritten
<1>10. ASSUME NEW t \in waiting, Begin(t) PROVE KeptInv'
  BY <1>1, <1>10 DEF Begin, Held, Queued, BeingWritten
<1>11. ASSUME NEW r \in Calls, Finish(r) PROVE KeptInv'
  <2>1. /\ running' = running \ {Call(r)} /\ finished' = finished \cup {r}
        /\ UNCHANGED <<loop, asked, refused, waiting, inbox, frame, answered>>
    BY <1>11 DEF Finish
  <2>2. \A q \in 1..asked : q = r \/ Call(q) # Call(r)
    BY <1>a, Kinds
  <2>3. \A q \in 1..asked : Held(q) => Held(q)'
    BY <2>1, <2>2 DEF Held, Queued, BeingWritten
  <2> QED BY <1>1, <2>1, <2>3
<1>12. ASSUME NEW r \in Calls, Deliver(r) PROVE KeptInv'
  <2>1. /\ inbox' = Append(inbox, Frame("reply", r)) /\ finished' = finished \ {r}
        /\ UNCHANGED <<loop, asked, refused, waiting, running, frame, answered>>
    BY <1>12 DEF Deliver
  <2>2. Queued(r)' /\ \A q \in Nat : Queued(q) => Queued(q)'
    BY <1>a, <2>1, QueuedThen, FrameKinds
  <2>3. \A q \in 1..asked : Held(q) => Held(q)'
    BY <2>1, <2>2 DEF Held, BeingWritten
  <2> QED BY <1>1, <2>1, <2>3
<1>13. ASSUME NEW r \in Calls, GiveUp(r) PROVE KeptInv'
  BY <1>13 DEF GiveUp, KeptInv
<1>14. ASSUME NEW b \in Batches, Ingest(b) PROVE KeptInv'
  <2>1. loop = "append"
    BY <1>14 DEF Ingest, TasksInv, Batches
  <2>2. \A q \in 1..asked : Call(q) # Batch(b)
    BY Kinds DEF Batches
  <2>3. \A q \in 1..asked : Held(q) => Held(q)'
    BY <1>14, <2>2 DEF Ingest, Held, Queued, BeingWritten
  <2> QED BY <1>1, <1>14, <2>1, <2>3 DEF Ingest
<1>15. CASE TakeReply
  <2>1. frame = NoFrame /\ inbox # <<>> /\ inbox' = Tail(inbox) /\ frame' = Head(inbox)
        /\ UNCHANGED <<asked, waiting, running, finished, answered, refused>> /\ loop # "closed"
    BY <1>15 DEF TakeReply, Goto, FrameInv
  <2>2. \A r \in Nat : Queued(r) => Queued(r)' \/ BeingWritten(r)'
    BY <2>1, QueuedAfter
  <2>3. \A r \in Nat : ~BeingWritten(r)
    BY <2>1, FrameKinds DEF BeingWritten
  <2>4. \A q \in 1..asked : Held(q) => Held(q)'
    BY <2>1, <2>2, <2>3 DEF Held
  <2> QED BY <1>1, <2>1, <2>4
<1>16. CASE TakePush
  <2>1. /\ frame = NoFrame /\ loop # "closed"
        /\ UNCHANGED <<asked, waiting, running, finished, inbox, answered, refused>>
    BY <1>16 DEF TakePush, Goto, FrameInv
  <2>2. \A r \in Nat : ~BeingWritten(r)
    BY <2>1, FrameKinds DEF BeingWritten
  <2> QED BY <1>1, <2>1, <2>2 DEF Held, Queued
<1>17. CASE Write
  <2>1. /\ answered' = IF frame.kind = "reply" THEN answered \cup {frame.n} ELSE answered
        /\ UNCHANGED <<asked, waiting, running, finished, inbox, refused>> /\ loop # "closed"
    BY <1>17 DEF Write, Goto
  <2>2. \A r \in Nat : BeingWritten(r) \/ r \in answered => r \in answered'
    BY <2>1, FrameKinds DEF BeingWritten, TypeOK
  <2>3. \A q \in 1..asked : Held(q) => Held(q)'
    BY <2>1, <2>2 DEF Held, Queued
  <2> QED BY <1>1, <2>1, <2>3
<1> QED BY <1>3, <1>4, <1>5, <1>6, <1>7, <1>8, <1>9, <1>10, <1>11, <1>12, <1>13,
           <1>14, <1>15, <1>16, <1>17 DEF Next

LEMMA AppendedKept ==
    ASSUME TypeOK, TasksInv, AppendedInv, [Next]_vars
    PROVE  AppendedInv'
<1> USE DEF vars, peerVars, poolVars, pushVars, logVars
<1>1. ASSUME UNCHANGED <<appended, written, batches>>,
             \A b \in Nat : Batch(b) \in waiting' \cup running' => Batch(b) \in waiting \cup running
      PROVE  AppendedInv'
  BY <1>1 DEF AppendedInv, LogsInOrder, Increasing
<1>2. CASE UNCHANGED vars \/ Hello \/ Refuse \/ WriteWelcome \/ Subscribe \/ Close
  BY <1>1, <1>2 DEF Hello, Refuse, WriteWelcome, Subscribe, Close
<1>3. CASE PeerReads \/ RefuseCall \/ ReceiveError
  BY <1>1, <1>3 DEF PeerReads, RefuseCall, ReceiveError
<1>4. CASE TakeReply \/ TakePush \/ Lag \/ Write \/ Push
  BY <1>1, <1>4 DEF TakeReply, TakePush, Lag, Write, Push
<1>5. ASSUME NEW t \in waiting, Begin(t) PROVE AppendedInv'
  BY <1>1, <1>5 DEF Begin
<1>6. ASSUME NEW r \in Calls, Finish(r) \/ Deliver(r) \/ GiveUp(r) PROVE AppendedInv'
  BY <1>1, <1>6 DEF Finish, Deliver, GiveUp
<1>7. CASE ReceiveCall
  <2>1. \A b \in Nat : Batch(b) # Call(asked')
    BY <1>7, Kinds DEF ReceiveCall, TypeOK
  <2> QED BY <1>1, <1>7, <2>1 DEF ReceiveCall
<1>8. CASE ReceiveBatch
  <2>1. /\ batches' = batches + 1 /\ batches \in Nat /\ waiting' = waiting \cup {Batch(batches')}
        /\ UNCHANGED <<running, appended, written>>
    BY <1>8 DEF ReceiveBatch, TypeOK
  <2>2. \A i \in DOMAIN appended : appended[i] \in Nat /\ appended[i] <= batches
    BY DEF AppendedInv, TypeOK
  <2>3. \A b \in Nat : Batch(b) \in waiting' \cup running' =>
            Batch(b) \in waiting \cup running \/ b = batches'
    BY <2>1, Kinds
  <2> QED BY <2>1, <2>2, <2>3 DEF AppendedInv, LogsInOrder, Increasing
<1>9. ASSUME NEW b \in Batches, Ingest(b) PROVE AppendedInv'
  <2>1. b \in Nat /\ Batch(b) \in running /\ waiting' = waiting /\ running' = running \ {Batch(b)}
        /\ batches' = batches
    BY <1>9 DEF Ingest, Batches
  <2>2. b = batches /\ \A c \in Nat : Batch(c) \notin waiting' \cup running'
    BY <2>1, Kinds DEF TasksInv
  <2>3. CASE appended' = appended /\ written' = written
    BY <2>1, <2>2, <2>3 DEF AppendedInv, LogsInOrder, Increasing
  <2>4. CASE appended' = Append(appended, b) /\ written' = written + 1
    <3>1. /\ Len(appended') = Len(appended) + 1 /\ Len(appended) \in Nat
          /\ DOMAIN appended' = 1..Len(appended') /\ DOMAIN appended = 1..Len(appended)
          /\ \A i \in 1..Len(appended) : appended'[i] = appended[i]
          /\ appended'[Len(appended) + 1] = b
      BY <2>4, AppendProperties, LenProperties DEF TypeOK, Batches
    <3>2. Increasing(appended')
      BY <2>1, <2>4, IncreasingAppend DEF AppendedInv, LogsInOrder, TypeOK
    <3>3. \A i \in DOMAIN appended' : appended'[i] <= batches'
      BY <2>1, <2>2, <3>1 DEF AppendedInv
    <3>4. Increasing(appended)'
      BY <3>2 DEF Increasing
    <3> QED BY <2>2, <2>4, <3>1, <3>3, <3>4 DEF AppendedInv, LogsInOrder
  <2> QED BY <1>9, <2>3, <2>4 DEF Ingest
<1> QED BY <1>2, <1>3, <1>4, <1>5, <1>6, <1>7, <1>8, <1>9 DEF Next

LEMMA QueueKept ==
    ASSUME TypeOK, QueueInv, [Next]_vars
    PROVE  QueueInv'
<1> USE DEF vars, peerVars, poolVars, pushVars, logVars
<1>1. ASSUME UNCHANGED inbox PROVE QueueInv'
  BY <1>1 DEF QueueInv
<1>2. ASSUME NEW f \in Frames, f.kind # "push", inbox' = inbox \/ inbox' = Append(inbox, f)
      PROVE  QueueInv'
  BY <1>2, QueueGrows DEF QueueInv, TypeOK
<1>3. CASE UNCHANGED vars \/ Hello \/ Refuse \/ WriteWelcome \/ Subscribe
  BY <1>1, <1>3 DEF Hello, Refuse, WriteWelcome, Subscribe
<1>4. CASE PeerReads \/ ReceiveCall \/ ReceiveBatch
  BY <1>1, <1>4 DEF PeerReads, ReceiveCall, ReceiveBatch
<1>5. CASE TakePush \/ Lag \/ Write \/ Push
  BY <1>1, <1>5 DEF TakePush, Lag, Write, Push
<1>6. ASSUME NEW t \in waiting, Begin(t) PROVE QueueInv'
  BY <1>1, <1>6 DEF Begin
<1>7. ASSUME NEW r \in Calls, Finish(r) \/ GiveUp(r) PROVE QueueInv'
  BY <1>1, <1>7 DEF Finish, GiveUp
<1>8. ASSUME NEW b \in Batches, Ingest(b) PROVE QueueInv'
  BY <1>1, <1>8 DEF Ingest
<1>9. CASE Close
  BY <1>9 DEF Close, QueueInv
<1>10. CASE RefuseCall
  <2>1. Frame("reply", asked') \in Frames /\ Frame("reply", asked').kind # "push"
    BY <1>10, FrameKinds DEF RefuseCall, TypeOK
  <2> QED BY <1>2, <1>10, <2>1 DEF RefuseCall, Queue
<1>11. CASE ReceiveError
  <2>1. Frame("error", 0) \in Frames /\ Frame("error", 0).kind # "push"
    BY FrameKinds
  <2> QED BY <1>2, <1>11, <2>1 DEF ReceiveError, Queue
<1>12. ASSUME NEW r \in Calls, Deliver(r) PROVE QueueInv'
  <2>1. Frame("reply", r) \in Frames /\ Frame("reply", r).kind # "push"
    BY FrameKinds DEF Calls
  <2> QED BY <1>2, <1>12, <2>1 DEF Deliver
<1>13. CASE TakeReply
  BY <1>13, QueueShrinks DEF TakeReply, QueueInv, TypeOK
<1> QED BY <1>3, <1>4, <1>5, <1>6, <1>7, <1>8, <1>9, <1>10, <1>11, <1>12, <1>13 DEF Next

LEMMA CursorKept ==
    ASSUME TypeOK, TasksInv, FrameInv, QueueInv, EarlyInv, CursorInv, [Next]_vars
    PROVE  CursorInv'
<1> USE DEF vars, peerVars, poolVars, pushVars, logVars
<1>a. /\ made \in Nat /\ cursor \in Nat /\ pushed \in Seq(Nat) /\ skipped \subseteq Nat
      /\ \A i \in DOMAIN pushed : pushed[i] \in Nat
  BY DEF TypeOK
<1>1. ASSUME UNCHANGED <<cursor, pushed, skipped>>, made' \in {made, made + 1},
             frame' \in {frame, NoFrame} \/ \A k \in Nat : frame' # Frame("push", k),
             loop' \in {"select", "append", "write"} => loop \in {"select", "append", "write"}
      PROVE  CursorInv'
  <2>1. cursor' <= made' + 1
    <3>1. cursor <= made + 1
      BY DEF CursorInv
    <3>2. cursor' = cursor /\ made' \in {made, made + 1}
      BY <1>1
    <3>3. CASE made' = made
      BY <3>1, <3>2, <3>3
    <3>4. CASE made' = made + 1
      BY <1>a, <3>1, <3>2, <3>4
    <3> QED BY <3>2, <3>3, <3>4
  <2>2. loop' \in {"select", "append", "write"} => cursor' > 0
    BY <1>1 DEF CursorInv
  <2>3. Increasing(pushed)' /\ (Written(pushed) \cap skipped = {})'
        /\ \A k \in Written(pushed)' \cup skipped' : k < cursor'
    BY <1>1 DEF CursorInv, Increasing, Written
  <2>4. \A k \in Nat : frame' = Frame("push", k) => frame = Frame("push", k)
    BY <1>1, FrameKinds
  <2>5. \A k \in Nat : frame' = Frame("push", k) =>
            k < cursor' /\ k \notin skipped' /\ \A i \in DOMAIN pushed' : pushed'[i] < k
    BY <1>1, <2>4 DEF CursorInv
  <2> QED BY <2>1, <2>2, <2>3, <2>5 DEF CursorInv
<1>2. CASE UNCHANGED vars \/ Hello \/ Refuse \/ WriteWelcome \/ Close
  BY <1>1, <1>2 DEF Hello, Refuse, WriteWelcome, Close, Goto
<1>3. CASE PeerReads \/ ReceiveCall \/ RefuseCall \/ ReceiveError \/ ReceiveBatch \/ Push
  BY <1>1, <1>3 DEF PeerReads, ReceiveCall, RefuseCall, ReceiveError, ReceiveBatch, Push, Goto
<1>4. ASSUME NEW t \in waiting, Begin(t) PROVE CursorInv'
  BY <1>1, <1>4 DEF Begin
<1>5. ASSUME NEW r \in Calls, Finish(r) \/ Deliver(r) \/ GiveUp(r) PROVE CursorInv'
  BY <1>1, <1>5 DEF Finish, Deliver, GiveUp
<1>6. ASSUME NEW b \in Batches, Ingest(b) PROVE CursorInv'
  BY <1>1, <1>6 DEF Ingest, TasksInv, Batches
<1>7. CASE TakeReply
  <2>1. frame' \in Frames /\ frame' \in {inbox[i] : i \in DOMAIN inbox}
    BY <1>7, QueueShrinks DEF TakeReply, TypeOK
  <2>2. \A i \in DOMAIN inbox : \A k \in Nat : inbox[i] # Frame("push", k)
    BY FrameKinds DEF QueueInv
  <2> QED BY <1>1, <1>7, <2>1, <2>2 DEF TakeReply, Goto
<1>8. CASE Subscribe
  <2>1. /\ cursor' = made + 1 /\ cursor = 0 /\ frame = NoFrame /\ loop' = "select"
        /\ UNCHANGED <<made, pushed, skipped, frame>>
    BY <1>8 DEF Subscribe, Goto, EarlyInv, FrameInv
  <2>2. Increasing(pushed)' /\ (Written(pushed) \cap skipped = {})'
        /\ \A k \in Written(pushed)' \cup skipped' : k \in Nat /\ k < 0
    BY <2>1, <1>a DEF CursorInv, Increasing, Written
  <2> QED BY <1>a, <2>1, <2>2, FrameKinds DEF CursorInv
<1>9. CASE TakePush
  <2>1. /\ frame' = Frame("push", cursor) /\ cursor' = cursor + 1 /\ cursor <= made
        /\ UNCHANGED <<made, pushed, skipped>>
    BY <1>9 DEF TakePush
  <2>2. \A k \in Nat : frame' = Frame("push", k) => k = cursor
    BY <1>a, <2>1, FrameKinds
  <2>3. \A k \in Written(pushed) \cup skipped : k \in Nat /\ k < cursor
    BY <1>a DEF CursorInv, Written
  <2>4. \A i \in DOMAIN pushed : pushed[i] < cursor
    BY <2>3 DEF Written
  <2>5. Increasing(pushed)' /\ (Written(pushed) \cap skipped = {})'
        /\ \A k \in Written(pushed)' \cup skipped' : k < cursor'
    BY <1>a, <2>1, <2>3 DEF CursorInv, Increasing, Written
  <2>6. cursor' <= made' + 1 /\ cursor' > 0
    BY <1>a, <2>1
  <2>7. \A k \in Nat : frame' = Frame("push", k) =>
            k < cursor' /\ k \notin skipped' /\ \A i \in DOMAIN pushed' : pushed'[i] < k
    BY <1>a, <2>1, <2>2, <2>3, <2>4
  <2> QED BY <2>5, <2>6, <2>7 DEF CursorInv
<1>10. CASE Lag
  <2>1. /\ loop = "select" /\ frame = NoFrame /\ cursor < Oldest /\ cursor' = Oldest
        /\ skipped' = skipped \cup cursor..(Oldest - 1)
        /\ UNCHANGED <<frame, made, pushed>>
    BY <1>10 DEF Lag, Goto, FrameInv
  <2>2. Oldest \in Nat /\ cursor > 0 /\ Oldest <= made + 1
    BY <1>a, <2>1, ConstantsOK DEF Oldest, CursorInv
  <2>3. \A k \in Written(pushed) \cup skipped : k \in Nat /\ k < cursor
    BY <1>a DEF CursorInv, Written
  <2>4. \A k \in Nat : frame' # Frame("push", k)
    BY <2>1, FrameKinds
  <2>5. Increasing(pushed)'
    BY <2>1 DEF CursorInv, Increasing
  <2>6. (Written(pushed) \cap skipped = {})'
    BY <1>a, <2>1, <2>3 DEF CursorInv, Written
  <2>7. \A k \in Written(pushed)' \cup skipped' : k < cursor'
    BY <1>a, <2>1, <2>2, <2>3 DEF Written
  <2> QED BY <1>a, <2>1, <2>2, <2>4, <2>5, <2>6, <2>7 DEF CursorInv
<1>11. CASE Write
  <2>1. /\ frame' = NoFrame /\ loop = "write"
        /\ pushed' = IF frame.kind = "push" THEN Append(pushed, frame.n) ELSE pushed
        /\ UNCHANGED <<made, cursor, skipped>>
    BY <1>11 DEF Write, Goto
  <2>2. CASE frame.kind # "push"
    BY <1>1, <1>11, <2>1, <2>2 DEF Write, Goto
  <2>3. CASE frame.kind = "push"
    <3> DEFINE n == frame.n
    <3>1. n \in Nat /\ frame = Frame("push", n)
      BY <2>3, FrameKinds DEF TypeOK
    <3>2. n < cursor /\ n \notin skipped /\ \A i \in DOMAIN pushed : pushed[i] < n
      BY <3>1 DEF CursorInv
    <3>3. pushed' = Append(pushed, n)
      BY <2>1, <2>3
    <3> HIDE DEF n
    <3>4. Increasing(pushed')
      BY <1>a, <3>1, <3>2, <3>3, IncreasingAppend DEF CursorInv
    <3>5. Written(pushed') = Written(pushed) \cup {n}
      BY <1>a, <3>1, <3>3, WrittenAppend
    <3>6. Increasing(pushed)' /\ Written(pushed)' = Written(pushed) \cup {n}
      BY <3>4, <3>5 DEF Increasing, Written
    <3>7. \A k \in Nat : frame' # Frame("push", k)
      BY <2>1, FrameKinds
    <3>8. (Written(pushed) \cap skipped = {})' /\ \A k \in Written(pushed)' \cup skipped' : k < cursor'
      BY <2>1, <3>2, <3>6 DEF CursorInv
    <3> QED BY <2>1, <3>6, <3>7, <3>8 DEF CursorInv
  <2> QED BY <2>2, <2>3
<1> QED BY <1>2, <1>3, <1>4, <1>5, <1>6, <1>7, <1>8, <1>9, <1>10, <1>11 DEF Next

\* Covered may only grow, but for the frame at hand, which is then written.
LEMMA SinceKept ==
    ASSUME TypeOK, TasksInv, FrameInv, EarlyInv, CursorInv, SinceInv, [Next]_vars
    PROVE  SinceInv'
<1> USE DEF vars, peerVars, poolVars, pushVars, logVars
<1>a. /\ made \in Nat /\ cursor \in Nat /\ asked \in Nat /\ read \in [Calls -> Nat]
      /\ asked <= MaxCalls /\ MaxCalls \in Nat
  BY ConstantsOK DEF TypeOK
\* The calls that may be told of stay the same, and so does what they read.
<1>1. ASSUME loop' # "closed" => loop # "closed",
             UNCHANGED <<asked, refused, read>>,
             \A r \in Nat : Call(r) \in waiting \cup running => Call(r) \in waiting' \cup running',
             loop' # "closed" => \A k \in 0..(cursor' - 1) : Covered(k)' \/ (k < cursor /\ (Covered(k) => Covered(k)'))
      PROVE  SinceInv'
  <2> SUFFICES ASSUME loop' # "closed", NEW r \in (1..asked) \ refused,
                      Call(r) \notin waiting' \cup running',
                      NEW k \in (read[r] + 1)..(cursor' - 1)
               PROVE  Covered(k)'
    BY <1>1 DEF SinceInv
  <2>1. r \in Calls /\ read[r] \in Nat /\ k \in 0..(cursor' - 1) /\ r \in Nat
    BY <1>a DEF Calls
  <2>2. CASE k < cursor
    <3>1. k \in (read[r] + 1)..(cursor - 1)
      BY <1>a, <2>1, <2>2
    <3>2. Covered(k)
      BY <1>1, <2>1, <3>1 DEF SinceInv
    <3> QED BY <1>1, <2>1, <3>2
  <2> QED BY <1>1, <2>1, <2>2
<1>2. ASSUME loop' # "closed" => loop # "closed",
             UNCHANGED <<asked, refused, read, cursor, pushed, skipped, frame>>,
             \A r \in Nat : Call(r) \in waiting \cup running => Call(r) \in waiting' \cup running'
      PROVE  SinceInv'
  <2>1. \A k \in 0..(cursor' - 1) : k < cursor /\ (Covered(k) => Covered(k)')
    BY <1>a, <1>2 DEF Covered, Written
  <2> QED BY <1>1, <1>2, <2>1
<1>3. CASE UNCHANGED vars \/ Hello \/ WriteWelcome \/ PeerReads
  BY <1>2, <1>3 DEF Hello, WriteWelcome, PeerReads, Goto
<1>4. CASE Refuse \/ Close
  BY <1>4 DEF Refuse, Close, Goto, SinceInv
<1>5. CASE ReceiveError \/ ReceiveBatch \/ Push
  BY <1>2, <1>5 DEF ReceiveError, ReceiveBatch, Push, Goto
<1>6. ASSUME NEW t \in waiting, Begin(t) PROVE SinceInv'
  BY <1>2, <1>6 DEF Begin
<1>7. ASSUME NEW r \in Calls, Deliver(r) \/ GiveUp(r) PROVE SinceInv'
  BY <1>2, <1>7 DEF Deliver, GiveUp
<1>8. ASSUME NEW b \in Batches, Ingest(b) PROVE SinceInv'
  <2>1. \A r \in Nat : Call(r) # Batch(b)
    BY Kinds DEF Batches
  <2>2. loop = "append"
    BY <1>8 DEF Ingest, TasksInv, Batches
  <2> QED BY <1>2, <1>8, <2>1, <2>2 DEF Ingest
<1>9. CASE Subscribe
  BY <1>a, <1>9 DEF Subscribe, Goto, EarlyInv, SinceInv
<1>10. CASE ReceiveCall \/ RefuseCall
  <2> SUFFICES ASSUME NEW r \in (1..asked') \ refused', Call(r) \notin waiting' \cup running',
                      NEW k \in (read'[r] + 1)..(cursor' - 1)
               PROVE  Covered(k)'
    BY DEF SinceInv
  <2>1. /\ asked' = asked + 1 /\ loop # "closed"
        /\ refused \subseteq refused' /\ waiting \subseteq waiting'
        /\ asked' \in refused' \/ Call(asked') \in waiting'
        /\ UNCHANGED <<running, read, cursor, pushed, skipped, frame>>
    BY <1>10 DEF ReceiveCall, RefuseCall, Goto
  <2>2. r \in (1..asked) \ refused /\ Call(r) \notin waiting \cup running
    BY <1>a, <2>1
  <2>3. Covered(k)
    BY <2>1, <2>2 DEF SinceInv
  <2> QED BY <2>1, <2>3 DEF Covered, Written
<1>11. ASSUME NEW q \in Calls, Finish(q) PROVE SinceInv'
  <2> SUFFICES ASSUME loop' # "closed", NEW r \in (1..asked') \ refused',
                      Call(r) \notin waiting' \cup running',
                      NEW k \in (read'[r] + 1)..(cursor' - 1)
               PROVE  Covered(k)'
    BY DEF SinceInv
  <2>1. /\ running' = running \ {Call(q)} /\ read' = [read EXCEPT ![q] = made]
        /\ UNCHANGED <<loop, asked, refused, waiting, cursor, pushed, skipped, frame>>
    BY <1>11 DEF Finish
  <2>2. r \in Calls /\ r \in Nat /\ q \in Nat
    BY <1>a, <2>1 DEF Calls
  <2>3. CASE r = q
    <3>1. read'[r] = made /\ cursor' = cursor /\ cursor <= made + 1
      BY <1>a, <2>1, <2>3 DEF CursorInv
    <3> QED BY <1>a, <3>1
  <2>4. CASE r # q
    <3>1. Call(r) # Call(q) /\ read'[r] = read[r]
      BY <1>a, <2>1, <2>2, <2>4, Kinds
    <3>2. Covered(k)
      BY <2>1, <3>1 DEF SinceInv
    <3> QED BY <2>1, <3>2 DEF Covered, Written
  <2> QED BY <2>3, <2>4
<1>12. CASE TakeReply
  <2>1. /\ frame = NoFrame /\ loop # "closed"
        /\ UNCHANGED <<asked, refused, waiting, running, read, cursor, pushed, skipped>>
    BY <1>12 DEF TakeReply, Goto, FrameInv
  <2>2. \A k \in 0..(cursor' - 1) : k < cursor /\ (Covered(k) => Covered(k)')
    BY <1>a, <2>1, FrameKinds DEF Covered, Written
  <2> QED BY <1>1, <2>1, <2>2
<1>13. CASE TakePush
  <2>1. /\ frame = NoFrame /\ loop # "closed" /\ frame' = Frame("push", cursor)
        /\ cursor' = cursor + 1
        /\ UNCHANGED <<asked, refused, waiting, running, read, pushed, skipped>>
    BY <1>13 DEF TakePush, Goto, FrameInv
  <2>2. ASSUME NEW k \in 0..(cursor' - 1) PROVE Covered(k)' \/ (k < cursor /\ (Covered(k) => Covered(k)'))
    <3>1. CASE k = cursor
      BY <2>1, <3>1 DEF Covered
    <3>2. CASE k # cursor
      <4>1. k < cursor
        BY <1>a, <2>1, <3>2
      <4> QED BY <2>1, <4>1, FrameKinds DEF Covered, Written
    <3> QED BY <3>1, <3>2
  <2> QED BY <1>1, <2>1, <2>2
<1>14. CASE Lag
  <2>1. /\ loop # "closed" /\ cursor' = Oldest
        /\ skipped' = skipped \cup cursor..(Oldest - 1)
        /\ UNCHANGED <<frame, asked, refused, waiting, running, read, pushed>>
    BY <1>14 DEF Lag, Goto
  <2>2. ASSUME NEW k \in 0..(cursor' - 1) PROVE Covered(k)' \/ (k < cursor /\ (Covered(k) => Covered(k)'))
    <3>1. CASE k < cursor
      BY <2>1, <3>1 DEF Covered, Written
    <3>2. CASE ~(k < cursor)
      BY <1>a, <2>1, <3>2 DEF Covered
    <3> QED BY <3>1, <3>2
  <2> QED BY <1>1, <2>1, <2>2
<1>15. CASE Write
  <2>1. /\ loop # "closed"
        /\ pushed' = IF frame.kind = "push" THEN Append(pushed, frame.n) ELSE pushed
        /\ UNCHANGED <<asked, refused, waiting, running, read, cursor, skipped>>
    BY <1>15 DEF Write, Goto
  <2>2. \A k \in Nat : Covered(k) => Covered(k)'
    <3>1. CASE frame.kind # "push"
      BY <2>1, <3>1, FrameKinds DEF Covered, Written
    <3>2. CASE frame.kind = "push"
      <4> DEFINE n == frame.n
      <4>0. pushed \in Seq(Nat)
        BY DEF TypeOK
      <4>1. n \in Nat /\ frame = Frame("push", n) /\ pushed' = Append(pushed, n)
        BY <2>1, <3>2, FrameKinds DEF TypeOK
      <4> HIDE DEF n
      <4>2. Written(pushed') = Written(pushed) \cup {n}
        BY <4>0, <4>1, WrittenAppend
      <4>3. \A k \in Nat : frame = Frame("push", k) => k = n
        BY <4>1, FrameKinds
      <4>4. Written(pushed)' = Written(pushed) \cup {n}
        BY <4>2 DEF Written
      <4> QED BY <2>1, <4>3, <4>4 DEF Covered
    <3> QED BY <3>1, <3>2
  <2>3. \A k \in 0..(cursor' - 1) : k < cursor
    BY <1>a, <2>1
  <2> QED BY <1>1, <2>1, <2>2, <2>3
<1> QED BY <1>3, <1>4, <1>5, <1>6, <1>7, <1>8, <1>9, <1>10, <1>11, <1>12, <1>13,
           <1>14, <1>15 DEF Next

THEOREM SessionInvariance == Spec => []SessionInv
<1>1. SessionInv /\ [Next]_vars => SessionInv'
  <2> SUFFICES ASSUME SessionInv, [Next]_vars PROVE SessionInv'
    OBVIOUS
  <2>1. TypeOK /\ TasksInv /\ FrameInv /\ QueueInv /\ EarlyInv
    BY DEF SessionInv
  <2>2. ApartInv /\ KeptInv /\ AppendedInv /\ CursorInv /\ SinceInv
    BY DEF SessionInv
  <2>3. TypeOK' /\ TasksInv' /\ FrameInv'
    BY <2>1, <2>2, TypesKept, TasksKept, FrameKept
  <2>4. QueueInv' /\ EarlyInv' /\ ApartInv' /\ KeptInv'
    BY <2>1, <2>2, QueueKept, EarlyKept, ApartKept, KeptKept
  <2>5. AppendedInv' /\ CursorInv' /\ SinceInv'
    BY <2>1, <2>2, AppendedKept, CursorKept, SinceKept
  <2> QED BY <2>3, <2>4, <2>5 DEF SessionInv
<1> QED BY <1>1, SessionStarts, PTL DEF Spec

(***************************************************************************)
(* The queue never holds more than RESPONSE_QUEUE frames, nor the pool     *)
(* more tasks than it has threads, whatever comes in.                      *)
(***************************************************************************)
THEOREM QueueAndPoolBounded == Spec => []TypeOK
<1>1. SessionInv => TypeOK
  BY DEF SessionInv
<1> QED BY <1>1, SessionInvariance, PTL

(***************************************************************************)
(* No call is lost while its connection is open, and none is answered      *)
(* twice (EachCallInOnePlace).                                             *)
(***************************************************************************)
THEOREM CallsAreNeverLost == Spec => []EachCallInOnePlace
<1>1. ASSUME SessionInv PROVE EachCallInOnePlace
  <2> SUFFICES ASSUME loop # "closed", NEW r \in 1..asked
               PROVE  /\ r \notin refused => Places(r) # {}
                      /\ \A p, q \in Places(r) : p = q
    BY DEF EachCallInOnePlace
  <2>1. r \in Nat /\ (Frame("reply", r) \in Written(inbox) <=> Queued(r))
    BY <1>1 DEF SessionInv, TypeOK, Written, Queued
  <2>2. /\ Call(r) \in waiting => Call(r) \notin running
        /\ r \in finished => Call(r) \notin waiting \cup running
        /\ Queued(r) => Call(r) \notin waiting \cup running /\ r \notin finished
        /\ BeingWritten(r) => Call(r) \notin waiting \cup running /\ r \notin finished /\ ~Queued(r)
        /\ r \in answered => Call(r) \notin waiting \cup running /\ r \notin finished
                             /\ ~Queued(r) /\ ~BeingWritten(r)
    BY <1>1, <2>1 DEF SessionInv, ApartInv, TasksInv
  <2>3. /\ "pool" \in Places(r) <=> Call(r) \in waiting
        /\ "thread" \in Places(r) <=> Call(r) \in running
        /\ "waiting" \in Places(r) <=> r \in finished
        /\ "queue" \in Places(r) <=> Queued(r)
        /\ "socket" \in Places(r) <=> BeingWritten(r)
        /\ "peer" \in Places(r) <=> r \in answered
        /\ Places(r) \subseteq {"pool", "thread", "waiting", "queue", "socket", "peer"}
    BY <2>1 DEF Places, BeingWritten
  <2>4. r \notin refused => Places(r) # {}
    BY <1>1, <2>3 DEF SessionInv, KeptInv
  <2>5. \A p, q \in Places(r) : p = q
    BY <2>2, <2>3
  <2> QED BY <2>4, <2>5
<1> QED BY <1>1, SessionInvariance, PTL

(***************************************************************************)
(* A page that asks and then follows the pushes misses no change           *)
(* (NoChangeMissed), for any capacity of the channel and however slow the  *)
(* page is.                                                                *)
(***************************************************************************)
THEOREM PagesMissNoChange == Spec => []NoChangeMissed
<1>1. ASSUME SessionInv PROVE NoChangeMissed
  <2>1. Increasing(pushed) /\ Written(pushed) \cap skipped = {}
    BY <1>1 DEF SessionInv, CursorInv
  <2>2. ASSUME loop # "closed", NEW r \in answered \ refused,
               NEW k \in (read[r] + 1)..(cursor - 1)
        PROVE  Covered(k)
    <3>1. r \in 1..asked /\ Call(r) \notin waiting \cup running
      BY <1>1, <2>2 DEF SessionInv, ApartInv, TypeOK, Calls
    <3> QED BY <1>1, <2>2, <3>1 DEF SessionInv, SinceInv
  <2> QED BY <2>1, <2>2 DEF NoChangeMissed, Covered
<1> QED BY <1>1, SessionInvariance, PTL

(***************************************************************************)
(* Log batches are appended in the order the page sent them (LogsInOrder), *)
(* however many threads the pool has.                                      *)
(***************************************************************************)
THEOREM LogsAppendInOrder == Spec => []LogsInOrder
<1>1. SessionInv => LogsInOrder
  BY DEF SessionInv, AppendedInv
<1> QED BY <1>1, SessionInvariance, PTL

(***************************************************************************)
(* Who can go on: the pool, when a task can begin or is one that returns;  *)
(* the session's task; and the page, as long as it has frames to read.     *)
(***************************************************************************)
Returning == {t \in running : \A r \in Slow : t # Call(r)}
PoolGoesOn == (waiting # {} /\ Cardinality(running) < Threads) \/ Returning # {}
WriteGoesOn == loop = "write" /\ (unread < SocketBuffer \/ unread > 0)
SessionGoesOn == loop = "select" \/ WriteGoesOn \/ (loop = "append" /\ PoolGoesOn)

(***************************************************************************)
(* Nobody waits on everybody: what the session waits for (a write for the  *)
(* page, a log batch for the pool), a task for a thread, and an answer for *)
(* room in the queue, always comes to someone who can go on.  The session  *)
(* itself never waits for room in the queue, which only it makes (ws.rs,   *)
(* queue).                                                                 *)
(***************************************************************************)
NoCircularWait ==
    /\ waiting # {} => PoolGoesOn
    /\ loop \in {"append", "write"} => SessionGoesOn
    /\ inbox # <<>> => SessionGoesOn
    /\ finished # {} => loop = "closed" \/ Len(inbox) < QueueSize \/ SessionGoesOn

\* The session waits for a batch that the pool has, and a closed one has no queue.
HasBatch == loop = "append" => Batch(batches) \in waiting \cup running
NoQueue == loop = "closed" => inbox = <<>>
WaitInv == HasBatch /\ NoQueue

LEMMA BatchStaysInPool ==
    ASSUME TypeOK, TasksInv, HasBatch, [Next]_vars
    PROVE  HasBatch'
<1> USE DEF vars, peerVars, poolVars, pushVars, logVars
<1>1. CASE UNCHANGED vars \/ Hello \/ Refuse \/ WriteWelcome \/ Subscribe \/ Close
  BY <1>1 DEF Hello, Refuse, WriteWelcome, Subscribe, Close, Goto, HasBatch
<1>2. CASE PeerReads \/ ReceiveError \/ TakeReply \/ TakePush \/ Lag \/ Write \/ Push
  BY <1>2 DEF PeerReads, ReceiveError, TakeReply, TakePush, Lag, Write, Push, Goto, HasBatch
<1>3. ASSUME NEW r \in Calls, Deliver(r) \/ GiveUp(r) PROVE HasBatch'
  BY <1>3 DEF Deliver, GiveUp, HasBatch
<1>4. CASE ReceiveCall \/ RefuseCall
  BY <1>4 DEF ReceiveCall, RefuseCall, Goto, HasBatch
<1>5. CASE ReceiveBatch
  BY <1>5 DEF ReceiveBatch, HasBatch
<1>6. ASSUME NEW t \in waiting, Begin(t) PROVE HasBatch'
  BY <1>6 DEF Begin, HasBatch
<1>7. ASSUME NEW r \in Calls, Finish(r) PROVE HasBatch'
  <2>1. Batch(batches) # Call(r)
    BY Kinds DEF TypeOK, Calls
  <2> QED BY <1>7, <2>1 DEF Finish, HasBatch
<1>8. ASSUME NEW b \in Batches, Ingest(b) PROVE HasBatch'
  BY <1>8 DEF Ingest, HasBatch
<1> QED BY <1>1, <1>2, <1>3, <1>4, <1>5, <1>6, <1>7, <1>8 DEF Next

LEMMA NoQueueKept ==
    ASSUME TypeOK, TasksInv, EarlyInv, NoQueue, [Next]_vars
    PROVE  NoQueue'
<1> USE DEF vars, peerVars, poolVars, pushVars, logVars
<1>1. CASE UNCHANGED vars \/ Hello \/ Refuse \/ WriteWelcome \/ Subscribe \/ Close
  BY <1>1 DEF Hello, Refuse, WriteWelcome, Subscribe, Close, Goto, NoQueue, EarlyInv
<1>2. CASE PeerReads \/ ReceiveError \/ TakeReply \/ TakePush \/ Lag \/ Write \/ Push
  BY <1>2 DEF PeerReads, ReceiveError, TakeReply, TakePush, Lag, Write, Push, Goto, NoQueue
<1>3. CASE ReceiveCall \/ RefuseCall \/ ReceiveBatch \/ (\E t \in waiting : Begin(t))
  BY <1>3 DEF ReceiveCall, RefuseCall, ReceiveBatch, Begin, Goto, NoQueue
<1>4. ASSUME NEW r \in Calls, Finish(r) \/ Deliver(r) \/ GiveUp(r) PROVE NoQueue'
  BY <1>4 DEF Finish, Deliver, GiveUp, NoQueue
<1>5. ASSUME NEW b \in Batches, Ingest(b) PROVE NoQueue'
  BY <1>5 DEF Ingest, NoQueue
<1> QED BY <1>1, <1>2, <1>3, <1>4, <1>5 DEF Next

\* Calls that do not return never fill the pool.
LEMMA PoolIsNeverFull ==
    ASSUME TypeOK, TasksInv, Cardinality(Slow) < Threads, Returning = {}
    PROVE  Cardinality(running) < Threads
<1> USE ConstantsOK
<1>1. IsFiniteSet(Slow) /\ Cardinality(Slow) \in Nat
  <2>1. IsFiniteSet(Calls)
    BY FS_Interval DEF Calls
  <2>2. Slow \in SUBSET Calls
    OBVIOUS
  <2>3. IsFiniteSet(Slow)
    BY <2>1, <2>2, FS_Subset
  <2> QED BY <2>3, FS_CardinalityType
<1>2. \A t \in running : \E r \in Slow : t = Call(r)
  BY DEF Returning
<1>3. \A t \in running : t.n \in Slow /\ t = Call(t.n)
  BY <1>2 DEF Call
<1> DEFINE own == [t \in running |-> t.n]
<1>4. own \in Injection(running, Slow)
  <2>1. own \in [running -> Slow]
    BY <1>3
  <2>2. \A t, u \in running : own[t] = own[u] => t = u
    BY <1>3
  <2> HIDE DEF own
  <2> QED BY <2>1, <2>2, Zenon DEF Injection, IsInjective
<1>5. Cardinality(running) <= Cardinality(Slow)
  BY <1>1, <1>4, FS_Injection
<1>6. Cardinality(running) \in Nat
  BY FS_CardinalityType DEF TasksInv
<1> QED BY <1>1, <1>5, <1>6

(***************************************************************************)
(* As long as the calls that never return leave a thread of the pool, a    *)
(* connection is never in a state in which everyone waits for the other.   *)
(***************************************************************************)
THEOREM NobodyWaitsInACircle ==
    ASSUME Cardinality(Slow) < Threads
    PROVE  Spec => []NoCircularWait
<1>1. Init => WaitInv
  BY DEF Init, WaitInv, HasBatch, NoQueue
<1>2. SessionInv /\ WaitInv /\ [Next]_vars => WaitInv'
  BY BatchStaysInPool, NoQueueKept DEF SessionInv, WaitInv
<1>3. ASSUME SessionInv, WaitInv PROVE NoCircularWait
  <2>1. TypeOK /\ TasksInv /\ EarlyInv
    BY <1>3 DEF SessionInv
  <2>2. Cardinality(running) < Threads \/ Returning # {}
    BY <2>1, PoolIsNeverFull
  <2>3. waiting # {} => PoolGoesOn
    BY <2>2 DEF PoolGoesOn
  <2>4. CASE loop = "append"
    <3>1. Batch(batches) \in running => Batch(batches) \in Returning
      BY <2>1, Kinds, ConstantsOK DEF Returning, TypeOK, Calls
    <3>2. PoolGoesOn
      BY <1>3, <2>3, <2>4, <3>1 DEF WaitInv, HasBatch, PoolGoesOn
    <3> QED BY <2>3, <2>4, <3>2 DEF NoCircularWait, SessionGoesOn
  <2>5. CASE loop = "write"
    <3>1. unread < SocketBuffer \/ unread > 0
      BY <2>1, ConstantsOK DEF TypeOK
    <3> QED BY <2>3, <2>5, <3>1 DEF NoCircularWait, SessionGoesOn, WriteGoesOn
  <2>6. CASE loop = "select"
    BY <2>3, <2>6 DEF NoCircularWait, SessionGoesOn
  <2>7. CASE loop \in {"hello", "welcome", "subscribe"}
    BY <2>1, <2>3, <2>7 DEF NoCircularWait, EarlyInv
  <2>8. CASE loop = "closed"
    BY <1>3, <2>3, <2>8 DEF NoCircularWait, WaitInv, NoQueue
  <2> QED BY <2>1, <2>4, <2>5, <2>6, <2>7, <2>8 DEF TypeOK
<1> QED BY <1>1, <1>2, <1>3, SessionInvariance, PTL DEF Spec

=============================================================================
