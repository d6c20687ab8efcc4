------------------------------ MODULE Session ------------------------------
(***************************************************************************)
(* One connection to /v1/ws (http/ws.rs), with the blocking pool that its  *)
(* calls and log batches run on (http/mod.rs, dispatch), the queue its     *)
(* answers come back through and the broadcast channel it listens to       *)
(* (broadcast.rs).                                                         *)
(*                                                                         *)
(* A call, a log batch and a push are known by their numbers, in the order *)
(* they came.  What a service answers is abstracted to how many pushes had *)
(* been made when it ran: pushes tell of changes, so the answer holds      *)
(* those changes.  Pool threads of other connections are not modelled:     *)
(* Threads is what they leave.  The rate limiters may always refuse.       *)
(* MaxCalls, MaxBatches, MaxErrors and MaxPushes bound the traffic.        *)
(***************************************************************************)
EXTENDS Integers, Sequences, FiniteSets

CONSTANTS
    Threads,       \* threads of the blocking pool
    QueueSize,     \* RESPONSE_QUEUE
    Capacity,      \* CHANNEL_CAPACITY
    SocketBuffer,  \* frames the peer may leave unread before a write waits
    MaxCalls, MaxBatches, MaxErrors, MaxPushes,
    Slow           \* calls that may never return

Calls == 1..MaxCalls
Batches == 1..MaxBatches

ASSUME ConstantsOK ==
    /\ Threads \in Nat \ {0} /\ QueueSize \in Nat \ {0}
    /\ Capacity \in Nat \ {0} /\ SocketBuffer \in Nat \ {0}
    /\ MaxCalls \in Nat /\ MaxBatches \in Nat
    /\ MaxErrors \in Nat /\ MaxPushes \in Nat
    /\ Slow \subseteq Calls

Frame(k, i) == [kind |-> k, n |-> i]
Frames == [kind : {"none", "reply", "error", "push"}, n : Nat]
NoFrame == Frame("none", 0)

Call(r) == [kind |-> "call", n |-> r]
Batch(b) == [kind |-> "batch", n |-> b]
Tasks == [kind : {"call", "batch"}, n : Nat]

VARIABLES
    loop,      \* what the session's task is at
    frame,     \* the frame it is writing
    inbox,     \* replies: what is queued for it to write
    asked,     \* calls received so far
    batches,   \* log batches received so far
    errors,    \* malformed frames received so far
    waiting,   \* tasks the pool has not begun
    running,   \* tasks it is running
    finished,  \* calls that wait for room in the queue
    read,      \* read[r]: pushes made when call r ran
    refused,   \* history: the calls the limiter turned away
    answered,  \* history: calls whose answer is written
    appended,  \* history: the batches in the log file
    written,   \* Session.written
    made,      \* pushes made so far
    cursor,    \* the next one the receiver takes; 0 before it subscribes
    pushed,    \* history: the pushes written
    skipped,   \* history: the pushes the receiver lagged behind
    unread     \* frames the peer has not read

poolVars == <<waiting, running, finished, read>>
peerVars == <<asked, batches, errors>>
pushVars == <<made, cursor, pushed, skipped>>
logVars == <<appended, written>>
vars == <<loop, frame, inbox, peerVars, poolVars, refused, answered, logVars,
          pushVars, unread>>

Goto(from, to) == loop = from /\ loop' = to

Init ==
    /\ loop = "hello"
    /\ frame = NoFrame
    /\ inbox = <<>>
    /\ asked = 0 /\ batches = 0 /\ errors = 0
    /\ waiting = {} /\ running = {} /\ finished = {}
    /\ read = [r \in Calls |-> 0]
    /\ refused = {} /\ answered = {}
    /\ appended = <<>> /\ written = 0
    /\ made = 0 /\ cursor = 0 /\ pushed = <<>> /\ skipped = {}
    /\ unread = 0

-----------------------------------------------------------------------------
(* Opening and closing *)

\* The first frame is a good hello.
Hello ==
    /\ Goto("hello", "welcome")
    /\ UNCHANGED <<frame, inbox, peerVars, poolVars, refused, answered, logVars,
                   pushVars, unread>>

\* It is not, or none comes in time: the refusal is written and the socket closed.
Refuse ==
    /\ Goto("hello", "closed")
    /\ UNCHANGED <<frame, inbox, peerVars, poolVars, refused, answered, logVars,
                   pushVars, unread>>

WriteWelcome ==
    /\ Goto("welcome", "subscribe")
    /\ unread < SocketBuffer
    /\ unread' = unread + 1
    /\ UNCHANGED <<frame, inbox, peerVars, poolVars, refused, answered, logVars, pushVars>>

\* From now on: what was pushed before is not received.
Subscribe ==
    /\ Goto("subscribe", "select")
    /\ cursor' = made + 1
    /\ UNCHANGED <<frame, inbox, peerVars, poolVars, refused, answered, logVars,
                   made, pushed, skipped, unread>>

\* The peer closes or goes away, a write fails, or the log limiter refuses.  What
\* is queued goes with the queue.
Close ==
    /\ loop \in {"welcome", "select", "write"} /\ loop' = "closed"
    /\ inbox' = <<>>
    /\ frame' = NoFrame
    /\ UNCHANGED <<peerVars, poolVars, refused, answered, logVars, pushVars, unread>>

PeerReads ==
    /\ unread > 0
    /\ unread' = unread - 1
    /\ UNCHANGED <<loop, frame, inbox, peerVars, poolVars, refused, answered,
                   logVars, pushVars>>

-----------------------------------------------------------------------------
(* Frames from the peer *)

\* Session::queue, which never waits
Queue(f) == inbox' = IF Len(inbox) < QueueSize THEN Append(inbox, f) ELSE inbox

\* Variant: the session waits for the call.
ReceiveCallAwaited ==
    /\ Goto("select", "append")
    /\ asked < MaxCalls /\ asked' = asked + 1
    /\ waiting' = waiting \cup {Call(asked')}
    /\ UNCHANGED <<frame, inbox, batches, errors, running, finished, read, refused,
                   answered, logVars, pushVars, unread>>

ReceiveCall ==
    /\ Goto("select", "select")
    /\ asked < MaxCalls /\ asked' = asked + 1
    /\ waiting' = waiting \cup {Call(asked')}
    /\ UNCHANGED <<frame, inbox, batches, errors, running, finished, read, refused,
                   answered, logVars, pushVars, unread>>

\* The request limiter refuses it.
RefuseCall ==
    /\ Goto("select", "select")
    /\ asked < MaxCalls /\ asked' = asked + 1
    /\ Queue(Frame("reply", asked'))
    /\ refused' = refused \cup {asked'}
    /\ UNCHANGED <<frame, batches, errors, poolVars, answered, logVars, pushVars, unread>>

\* The frame is no envelope: that is logged, which pushes the log line to every
\* connection, and told to the peer.
ReceiveError ==
    /\ Goto("select", "select")
    /\ errors < MaxErrors /\ errors' = errors + 1
    /\ Queue(Frame("error", 0))
    /\ made' = made + 1
    /\ UNCHANGED <<frame, asked, batches, poolVars, refused, answered, logVars,
                   cursor, pushed, skipped, unread>>

\* Variant: the session does not wait for the append.
ReceiveBatchOn ==
    /\ Goto("select", "select")
    /\ batches < MaxBatches /\ batches' = batches + 1
    /\ waiting' = waiting \cup {Batch(batches')}
    /\ UNCHANGED <<frame, inbox, asked, errors, running, finished, read, refused,
                   answered, logVars, pushVars, unread>>

ReceiveBatch ==
    /\ Goto("select", "append")
    /\ batches < MaxBatches /\ batches' = batches + 1
    /\ waiting' = waiting \cup {Batch(batches')}
    /\ UNCHANGED <<frame, inbox, asked, errors, running, finished, read, refused,
                   answered, logVars, pushVars, unread>>

-----------------------------------------------------------------------------
(* The pool, and the task of each call *)

Begin(t) ==
    /\ t \in waiting
    /\ Cardinality(running) < Threads
    /\ waiting' = waiting \ {t}
    /\ running' = running \cup {t}
    /\ UNCHANGED <<loop, frame, inbox, peerVars, finished, read, refused, answered,
                   logVars, pushVars, unread>>

\* The service returns, or panics: either is an answer.
Finish(r) ==
    /\ Call(r) \in running
    /\ running' = running \ {Call(r)}
    /\ finished' = finished \cup {r}
    /\ read' = [read EXCEPT ![r] = made]
    /\ UNCHANGED <<loop, frame, inbox, peerVars, waiting, refused, answered, logVars,
                   pushVars, unread>>

\* Variant: what does not fit is dropped.
DeliverNow(r) ==
    /\ r \in finished /\ loop # "closed"
    /\ Queue(Frame("reply", r))
    /\ finished' = finished \ {r}
    /\ UNCHANGED <<loop, frame, peerVars, waiting, running, read, refused, answered,
                   logVars, pushVars, unread>>

Deliver(r) ==
    /\ r \in finished /\ loop # "closed"
    /\ Len(inbox) < QueueSize
    /\ inbox' = Append(inbox, Frame("reply", r))
    /\ finished' = finished \ {r}
    /\ UNCHANGED <<loop, frame, peerVars, waiting, running, read, refused, answered,
                   logVars, pushVars, unread>>

\* Nobody takes the answer any more.
GiveUp(r) ==
    /\ r \in finished /\ loop = "closed"
    /\ finished' = finished \ {r}
    /\ UNCHANGED <<loop, frame, inbox, peerVars, waiting, running, read, refused,
                   answered, logVars, pushVars, unread>>

\* ingest: the batch is in the file, or refused; the session goes on.
Ingest(b) ==
    /\ Batch(b) \in running
    /\ running' = running \ {Batch(b)}
    /\ loop' = "select"
    /\ \/ appended' = Append(appended, b) /\ written' = written + 1
       \/ UNCHANGED logVars
    /\ UNCHANGED <<frame, inbox, peerVars, waiting, finished, read, refused, answered,
                   pushVars, unread>>

-----------------------------------------------------------------------------
(* Frames to the peer *)

\* Variant: the answer is taken off the queue once it is written.
TakeReplyPeeking ==
    /\ Goto("select", "write")
    /\ inbox # <<>>
    /\ frame' = Head(inbox)
    /\ UNCHANGED <<inbox, peerVars, poolVars, refused, answered, logVars, pushVars, unread>>

TakeReply ==
    /\ Goto("select", "write")
    /\ inbox # <<>>
    /\ frame' = Head(inbox)
    /\ inbox' = Tail(inbox)
    /\ UNCHANGED <<peerVars, poolVars, refused, answered, logVars, pushVars, unread>>

\* The oldest push the channel still holds.
Oldest == IF made > Capacity THEN made - Capacity + 1 ELSE 1

TakePush ==
    /\ Goto("select", "write")
    /\ cursor \in Oldest..made
    /\ frame' = Frame("push", cursor)
    /\ cursor' = cursor + 1
    /\ UNCHANGED <<inbox, peerVars, poolVars, refused, answered, logVars, made, pushed,
                   skipped, unread>>

\* Variant: the receiver starts afresh.
LagAfresh ==
    /\ Goto("select", "select")
    /\ cursor < Oldest
    /\ cursor' = made + 1
    /\ skipped' = skipped \cup cursor..(Oldest - 1)
    /\ UNCHANGED <<frame, inbox, peerVars, poolVars, refused, answered, logVars, made,
                   pushed, unread>>

\* RecvError::Lagged
Lag ==
    /\ Goto("select", "select")
    /\ cursor < Oldest
    /\ cursor' = Oldest
    /\ skipped' = skipped \cup cursor..(Oldest - 1)
    /\ UNCHANGED <<frame, inbox, peerVars, poolVars, refused, answered, logVars, made,
                   pushed, unread>>

\* send, once there is room in the socket
Write ==
    /\ Goto("write", "select")
    /\ unread < SocketBuffer
    /\ unread' = unread + 1
    /\ frame' = NoFrame
    /\ answered' = IF frame.kind = "reply" THEN answered \cup {frame.n} ELSE answered
    /\ pushed' = IF frame.kind = "push" THEN Append(pushed, frame.n) ELSE pushed
    /\ UNCHANGED <<inbox, peerVars, poolVars, refused, logVars, made, cursor, skipped>>

\* A service, or the logger.
Push ==
    /\ made < MaxPushes
    /\ made' = made + 1
    /\ UNCHANGED <<loop, frame, inbox, peerVars, poolVars, refused, answered, logVars,
                   cursor, pushed, skipped, unread>>

Next ==
    \/ Hello \/ Refuse \/ WriteWelcome \/ Subscribe \/ Close \/ PeerReads
    \/ ReceiveCall \/ RefuseCall \/ ReceiveError \/ ReceiveBatch
    \/ \E t \in waiting : Begin(t)
    \/ \E r \in Calls : Finish(r) \/ Deliver(r) \/ GiveUp(r)
    \/ \E b \in Batches : Ingest(b)
    \/ TakeReply \/ TakePush \/ Lag \/ Write \/ Push

Spec == Init /\ [][Next]_vars

(***************************************************************************)
(* The session's task goes on while it has something to do, the pool runs  *)
(* what it is given, a finished call's task sends its answer, the peer     *)
(* reads.  Every service call has a deadline of its own, but for those in  *)
(* Slow nothing is assumed.                                                *)
(***************************************************************************)
Fairness ==
    /\ WF_vars(WriteWelcome \/ Subscribe \/ TakeReply \/ TakePush \/ Lag \/ Write)
    /\ WF_vars(\E t \in waiting : Begin(t))
    /\ WF_vars(\E r \in Calls \ Slow : Finish(r))
    /\ WF_vars(\E b \in Batches : Ingest(b))
    /\ WF_vars(\E r \in Calls : Deliver(r) \/ GiveUp(r))
    /\ WF_vars(PeerReads)

FairSpec == Spec /\ Fairness

-----------------------------------------------------------------------------
(* Properties *)

Increasing(s) == \A i, j \in DOMAIN s : i < j => s[i] < s[j]
Written(s) == {s[i] : i \in DOMAIN s}

(***************************************************************************)
(* Types; the queue and the pool keep to their bounds.                     *)
(***************************************************************************)
TypeOK ==
    /\ loop \in {"hello", "welcome", "subscribe", "select", "append", "write", "closed"}
    /\ frame \in Frames
    /\ inbox \in Seq(Frames) /\ Len(inbox) <= QueueSize
    /\ asked \in 0..MaxCalls /\ batches \in 0..MaxBatches /\ errors \in 0..MaxErrors
    /\ waiting \subseteq Tasks /\ running \subseteq Tasks
    /\ Cardinality(running) <= Threads
    /\ finished \subseteq Calls
    /\ read \in [Calls -> Nat]
    /\ refused \subseteq Calls /\ answered \subseteq Calls
    /\ appended \in Seq(Nat) /\ written \in Nat
    /\ made \in Nat /\ cursor \in Nat
    /\ pushed \in Seq(Nat) /\ skipped \subseteq Nat
    /\ unread \in 0..SocketBuffer

\* The places call r is in.
Places(r) ==
    {p \in {"pool", "thread", "waiting", "queue", "socket", "peer"} :
        \/ p = "pool" /\ Call(r) \in waiting
        \/ p = "thread" /\ Call(r) \in running
        \/ p = "waiting" /\ r \in finished
        \/ p = "queue" /\ Frame("reply", r) \in Written(inbox)
        \/ p = "socket" /\ frame = Frame("reply", r)
        \/ p = "peer" /\ r \in answered}

(***************************************************************************)
(* As long as the connection is open, each call it received is in one      *)
(* place: no call is lost between the session, the pool and the queue, and *)
(* none is answered twice.  Only the refusal of a call the limiter turned  *)
(* away may be dropped (ws.rs, on_request and queue).                      *)
(***************************************************************************)
EachCallInOnePlace ==
    loop # "closed" =>
        \A r \in 1..asked :
            /\ r \notin refused => Places(r) # {}
            /\ \A p, q \in Places(r) : p = q

(***************************************************************************)
(* A page that asks for a service's state and then follows the pushes sees *)
(* every change while it is connected: each push made since its answer was *)
(* computed and already taken off the channel is written, being written,   *)
(* or counted as lagged behind; and pushes are written in order, each once *)
(* (ws.rs, session, which subscribes before it takes the first call).      *)
(***************************************************************************)
NoChangeMissed ==
    /\ loop # "closed" =>
        \A r \in answered \ refused : \A k \in (read[r] + 1)..(cursor - 1) :
            k \in Written(pushed) \/ k \in skipped \/ frame = Frame("push", k)
    /\ Increasing(pushed)
    /\ Written(pushed) \cap skipped = {}

(***************************************************************************)
(* Log batches are appended in the order the page sent them, although each *)
(* runs on a thread of the pool, and written counts those that were        *)
(* (ws.rs, on_logs).                                                       *)
(***************************************************************************)
LogsInOrder == Increasing(appended) /\ written = Len(appended)

InPool(r) == Call(r) \in waiting \cup running \/ r \in finished

(***************************************************************************)
(* A call that returns is answered, unless the connection closes first,    *)
(* whatever calls that do not return leave of the pool (ws.rs:19-22: "a    *)
(* slow D-Bus call neither delays a quick one"); and either way nothing is *)
(* left of it, neither in the pool nor waiting for room in the queue.      *)
(***************************************************************************)
CallsAnswered ==
    \A r \in Calls \ Slow :
        InPool(r) ~> ~InPool(r) /\ (r \in answered \/ loop = "closed")

(***************************************************************************)
(* Every push reaches the socket, or is lagged behind, while calls are     *)
(* slow and answers are queued (ws.rs:19-22: "nor stops log lines          *)
(* flowing").                                                              *)
(***************************************************************************)
PushesFlow ==
    \A k \in 1..(MaxPushes + MaxErrors) :
        loop = "select" /\ made >= k ~> cursor > k \/ loop = "closed"

=============================================================================
