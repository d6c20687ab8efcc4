------------------------------ MODULE Approval ------------------------------
(***************************************************************************)
(* How the bridge asks the user to confirm an operation (core/approve.rs,  *)
(* sinks/approve.rs, win/message_box.rs, and the choice between them in    *)
(* startup.rs).  The plugins service asks one question at a time, under    *)
(* its mutex.                                                              *)
(*                                                                         *)
(* A desktop notification is answered by signals on the session bus, which *)
(* a thread per question hands on to the one who asked.  That thread hears *)
(* of every notification, and outlives its question.  A message box is     *)
(* answered to its own question, whenever that is.                         *)
(*                                                                         *)
(* Whatever is on the screen is acted on once.  Deadlines may pass at any  *)
(* time.                                                                   *)
(***************************************************************************)
EXTENDS Service, Naturals, Sequences, SequencesExt

CONSTANTS
    Asks,       \* questions, each asked once
    Others,     \* notifications of other programs
    Approvers   \* what build_approver may choose on this system

ASSUME ConstantsOK ==
    /\ Asks \cap Others = {}
    /\ None \notin Asks
    /\ Approvers \subseteq {"notification", "box", "dev", "null"}

VARIABLES
    approver,
    ask,       \* the question being asked
    pc,        \* where ask is
    answer,
    screen,    \* what the user can act on
    listener,  \* the thread of each question that reads the signals
    stream,    \* the signals it has yet to read
    chan,      \* what the one who asked has yet to receive
    acted,     \* history: what the user did
    expired    \* history: the questions given up

callVars == <<ask, pc, answer, expired>>
busVars == <<screen, stream, acted>>
vars == <<approver, callVars, busVars, listener, chan>>

Acts == {"confirm", "deny", "closed"}

Init ==
    /\ approver \in Approvers
    /\ ask = None /\ pc = "idle"
    /\ answer = [a \in Asks |-> "none"]
    /\ screen = Others
    /\ listener = [a \in Asks |-> "none"]
    /\ stream = [a \in Asks |-> <<>>]
    /\ chan = [a \in Asks |-> <<>>]
    /\ acted = [i \in Asks \cup Others |-> "none"]
    /\ expired = {}

-----------------------------------------------------------------------------
(* approve *)

Goto(from, to) == pc = from /\ pc' = to

\* The question is over; the receiver is dropped with what is in its channel.
Return(ans) ==
    /\ pc' = "idle" /\ ask' = None
    /\ answer' = [answer EXCEPT ![ask] = ans]
    /\ chan' = [chan EXCEPT ![ask] = <<>>]

AskAnother(a) ==
    /\ ask = None /\ answer[a] = "none"
    /\ ask' = a

Begin(a) ==
    /\ AskAnother(a)
    /\ approver = "notification"
    /\ Goto("idle", "subscribe")
    /\ UNCHANGED <<approver, answer, expired, busVars, listener, chan>>

\* MessageBoxApprover
BeginBox(a) ==
    /\ AskAnother(a)
    /\ approver = "box"
    /\ Goto("idle", "wait")
    /\ screen' = screen \cup {a}
    /\ UNCHANGED <<approver, answer, expired, listener, stream, chan, acted>>

\* DevApprover and NullApprover ask nobody.
NotAsked(a) ==
    /\ ask = None /\ answer[a] = "none"
    /\ \/ approver = "dev" /\ answer' = [answer EXCEPT ![a] = "approved"]
       \/ approver = "null" /\ answer' = [answer EXCEPT ![a] = "unavailable"]
    /\ UNCHANGED <<approver, ask, pc, expired, busVars, listener, chan>>

Subscribe ==
    /\ Goto("subscribe", "notify")
    /\ listener' = [listener EXCEPT ![ask] = "reading"]
    /\ UNCHANGED <<approver, ask, answer, expired, busVars, chan>>

\* The notification daemon has got the call of Notify.
Appear ==
    /\ Goto("notify", "reply")
    /\ screen' = screen \cup {ask}
    /\ UNCHANGED <<approver, ask, answer, expired, listener, stream, chan, acted>>

\* Variant: the subscription is made once the id is known.
ReplyThenSubscribe ==
    /\ Goto("reply", "wait")
    /\ stream' = [stream EXCEPT ![ask] = <<>>]
    /\ chan' = [chan EXCEPT ![ask] = <<>>]
    /\ UNCHANGED <<approver, ask, answer, expired, screen, listener, acted>>

\* And the bridge its id.
Reply ==
    /\ Goto("reply", "wait")
    /\ UNCHANGED <<approver, ask, answer, expired, busVars, listener, chan>>

\* Any error of the bus.  A listener that was started stays.
BusFails ==
    /\ pc \in {"subscribe", "notify", "reply"}
    /\ Return("unavailable")
    /\ UNCHANGED <<approver, expired, busVars, listener>>

\* Variant: any signal is taken for the answer.
ReceiveAny ==
    /\ pc = "wait" /\ chan[ask] # <<>>
    /\ Return(IF Head(chan[ask]).act = "confirm" THEN "approved" ELSE "denied")
    /\ UNCHANGED <<approver, expired, busVars, listener>>

Receive ==
    /\ pc = "wait" /\ chan[ask] # <<>>
    /\ IF Head(chan[ask]).id = ask
       THEN Return(IF Head(chan[ask]).act = "confirm" THEN "approved" ELSE "denied")
       ELSE chan' = [chan EXCEPT ![ask] = Tail(@)] /\ UNCHANGED <<ask, pc, answer>>
    /\ UNCHANGED <<approver, expired, busVars, listener>>

\* Variant: an error starts another wait.
GiveUpNever == FALSE /\ UNCHANGED vars

\* recv_timeout gives an error: the deadline has passed, or the listener is gone.
GiveUp ==
    /\ pc = "wait" /\ chan[ask] = <<>>
    /\ expired' = expired \cup {ask}
    /\ IF approver = "box" THEN Return("denied")
       ELSE Goto("wait", "close") /\ UNCHANGED <<ask, answer, chan>>
    /\ UNCHANGED <<approver, busVars, listener>>

-----------------------------------------------------------------------------
(* The bus *)

Signal(i, act) == [id |-> i, act |-> act]

\* Every listener hears of it.
Broadcast(signals) ==
    stream' = [a \in Asks |-> IF listener[a] = "reading" THEN stream[a] \o signals ELSE stream[a]]

\* CloseNotification, whose failure is ignored.
Close ==
    /\ pc = "close"
    /\ \/ /\ ask \in screen
          /\ screen' = screen \ {ask}
          /\ Broadcast(<<Signal(ask, "closed")>>)
       \/ UNCHANGED <<screen, stream>>
    /\ Return("denied")
    /\ UNCHANGED <<approver, expired, listener, acted>>

\* A notification is closed by the click on it.
Click(i, act) ==
    /\ i \in screen
    /\ approver # "box" \/ i \in Others
    /\ screen' = screen \ {i}
    /\ acted' = [acted EXCEPT ![i] = act]
    /\ Broadcast(IF act = "closed" THEN <<Signal(i, "closed")>>
                 ELSE <<Signal(i, act), Signal(i, "closed")>>)
    /\ UNCHANGED <<approver, callVars, listener, chan>>

\* Yes or No.  The thread that shows the box sends it to whoever waits.
ClickBox(a, act) ==
    /\ approver = "box" /\ a \in screen
    /\ act # "closed"
    /\ screen' = screen \ {a}
    /\ acted' = [acted EXCEPT ![a] = act]
    /\ chan' = IF a = ask THEN [chan EXCEPT ![a] = Append(@, Signal(a, act))] ELSE chan
    /\ UNCHANGED <<approver, callVars, listener, stream>>

\* The thread of ask: a signal goes into the channel, or the thread ends as nobody waits.
HandOn(a) ==
    /\ listener[a] = "reading" /\ stream[a] # <<>>
    /\ stream' = [stream EXCEPT ![a] = Tail(@)]
    /\ IF a = ask
       THEN chan' = [chan EXCEPT ![a] = Append(@, Head(stream[a]))] /\ UNCHANGED listener
       ELSE listener' = [listener EXCEPT ![a] = "ended"] /\ UNCHANGED chan
    /\ UNCHANGED <<approver, callVars, screen, acted>>

\* The connection breaks.
StreamEnds(a) ==
    /\ listener[a] = "reading"
    /\ listener' = [listener EXCEPT ![a] = "ended"]
    /\ stream' = [stream EXCEPT ![a] = <<>>]
    /\ UNCHANGED <<approver, callVars, screen, acted, chan>>

-----------------------------------------------------------------------------
Approve == Subscribe \/ Appear \/ Reply \/ BusFails \/ Receive \/ GiveUp \/ Close

Next ==
    \/ \E a \in Asks : Begin(a) \/ BeginBox(a) \/ NotAsked(a)
    \/ Approve
    \/ \E i \in Asks \cup Others, act \in Acts : Click(i, act)
    \/ \E a \in Asks, act \in Acts : ClickBox(a, act)
    \/ \E a \in Asks : HandOn(a) \/ StreamEnds(a)

Spec == Init /\ [][Next]_vars

\* recv_timeout returns.  The calls on the bus have no deadline, and none is assumed to end.
Fairness == WF_vars(Receive \/ GiveUp)

FairSpec == Spec /\ Fairness

-----------------------------------------------------------------------------
(* Properties *)

Signals == [id : Asks \cup Others, act : Acts]

TypeOK ==
    /\ approver \in Approvers
    /\ ask \in Asks \cup {None}
    /\ pc \in {"idle", "subscribe", "notify", "reply", "wait", "close"}
    /\ pc = "idle" <=> ask = None
    /\ answer \in [Asks -> {"none", "approved", "denied", "unavailable"}]
    /\ screen \subseteq Asks \cup Others
    /\ listener \in [Asks -> {"none", "reading", "ended"}]
    /\ stream \in [Asks -> Seq(Signals)] /\ chan \in [Asks -> Seq(Signals)]
    /\ acted \in [Asks \cup Others -> Acts \cup {"none"}]
    /\ expired \subseteq Asks

(***************************************************************************)
(* A question is approved only by a click on Confirm in its own prompt,    *)
(* whatever happens to other notifications and to prompts left over from   *)
(* earlier questions; and it is denied only if the user denied or          *)
(* dismissed it, or it was given up (approve.rs: "The rule is fail         *)
(* closed").                                                               *)
(***************************************************************************)
AnswerIsTheUsers ==
    approver # "dev" =>
        \A a \in Asks :
            /\ answer[a] = "approved" => acted[a] = "confirm"
            /\ answer[a] = "denied" => acted[a] \in {"deny", "closed"} \/ a \in expired

(***************************************************************************)
(* What the user did to the prompt of a question reaches the one who asked *)
(* it, however early it was, unless the connection broke (sinks/           *)
(* approve.rs:84, "Subscribe before showing the prompt, or a fast click    *)
(* could be missed").                                                      *)
(***************************************************************************)
ClickIsOnItsWay ==
    pc \in {"reply", "wait"} /\ acted[ask] # "none" /\ listener[ask] # "ended" =>
        \E s \in ToSet(stream[ask]) \cup ToSet(chan[ask]) : s.id = ask

CallsBus == pc \in {"subscribe", "notify", "reply", "close"}

(***************************************************************************)
(* As core/approve.rs:42-43 has it: every question is answered in the end, *)
(* by the user or by the deadline.  It does not hold: that deadline begins *)
(* when Notify has returned, and ends before CloseNotification does        *)
(* (sinks/approve.rs:102, 117 and 132).                                    *)
(***************************************************************************)
AskEnds == ask # None ~> ask = None

(***************************************************************************)
(* A question is answered in the end, whatever the user and other          *)
(* notifications do, so that the operation that asks it does not keep the  *)
(* plugins service for good; if no call on the bus is left without an      *)
(* answer (sinks/approve.rs, the loop around recv_timeout).                *)
(***************************************************************************)
AskEndsIfBusAnswers == []<>~CallsBus => (ask # None ~> ask = None)

=============================================================================
