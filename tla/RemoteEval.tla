---------------------------- MODULE RemoteEval -----------------------------
(***************************************************************************)
(* The remote service of vrcnext-bridge-core (remote.rs): eval pushes a    *)
(* snippet to the pages and blocks its thread until an answer comes or a   *)
(* deadline passes; result, called by a page on another thread, hands the  *)
(* answer over.  The map of pending evaluations is behind a mutex, which   *)
(* eval takes twice and result once; between them the threads interleave.  *)
(*                                                                         *)
(* An evaluation is known by its random id, so a page can only answer one  *)
(* that it has seen, and no id is used twice.  A page may answer late,     *)
(* more than once, or never.                                               *)
(***************************************************************************)
EXTENDS Integers, FiniteSets

CONSTANTS
    Evals,        \* evaluation ids
    Pages,        \* clients that may receive pushes
    MaxInFlight,  \* MAX_IN_FLIGHT
    None

ASSUME RemoteOK ==
    /\ MaxInFlight \in Nat
    /\ None \notin Pages

VARIABLES
    pc,         \* where the call of each evaluation is
    pending,    \* the evaluations whose sender is in the map
    slot,       \* the answer in each channel: the page that sent it
    outcome,    \* the answer each call took from its channel
    seen,       \* the snippets each page has received
    delivered   \* history: the pages told that their answer was delivered

remoteVars == <<pc, pending, slot, outcome, seen, delivered>>

RemoteInit ==
    /\ pc = [e \in Evals |-> "new"]
    /\ pending = {}
    /\ slot = [e \in Evals |-> None]
    /\ outcome = [e \in Evals |-> None]
    /\ seen = [p \in Pages |-> {}]
    /\ delivered = [e \in Evals |-> {}]

-----------------------------------------------------------------------------
(* eval *)

At(e, step) == pc[e] = step
GoOn(e, step) == pc' = [pc EXCEPT ![e] = step]

Full == Cardinality(pending) >= MaxInFlight

\* Too many are waiting already.
Busy(e) ==
    /\ At(e, "new") /\ Full
    /\ GoOn(e, "returned")
    /\ UNCHANGED <<pending, slot, outcome, seen, delivered>>

Register(e) ==
    /\ At(e, "new") /\ ~Full
    /\ pending' = pending \cup {e}
    /\ GoOn(e, "registered")
    /\ UNCHANGED <<slot, outcome, seen, delivered>>

\* A push reaches the pages that are connected and keep up.
PushSnippet(e) ==
    /\ At(e, "registered")
    /\ \E to \in SUBSET Pages :
          seen' = [p \in Pages |-> IF p \in to THEN seen[p] \cup {e} ELSE seen[p]]
    /\ GoOn(e, "waiting")
    /\ UNCHANGED <<pending, slot, outcome, delivered>>

\* recv_timeout returns the answer in the channel, whether or not its sender is
\* still in the map.
Receive(e) ==
    /\ At(e, "waiting") /\ slot[e] # None
    /\ outcome' = [outcome EXCEPT ![e] = slot[e]]
    /\ slot' = [slot EXCEPT ![e] = None]
    /\ GoOn(e, "done")
    /\ UNCHANGED <<pending, seen, delivered>>

\* Variant: the call waits for as long as it takes.
NeverTimeOut(e) == FALSE /\ UNCHANGED remoteVars

\* Or the deadline passes on an empty channel.
TimeOut(e) ==
    /\ At(e, "waiting") /\ slot[e] = None
    /\ GoOn(e, "done")
    /\ UNCHANGED <<pending, slot, outcome, seen, delivered>>

Remove(e) ==
    /\ At(e, "done")
    /\ pending' = pending \ {e}
    /\ GoOn(e, "returned")
    /\ UNCHANGED <<slot, outcome, seen, delivered>>

-----------------------------------------------------------------------------
(* result *)

\* try_send: a channel that is full takes no second answer.
Send(p, e) ==
    IF slot[e] = None
    THEN /\ slot' = [slot EXCEPT ![e] = p]
         /\ delivered' = [delivered EXCEPT ![e] = @ \cup {p}]
    ELSE UNCHANGED <<slot, delivered>>

\* Variant: the sender stays in the map.
ResultKeepsSender(p, e) ==
    /\ e \in seen[p] /\ e \in pending
    /\ Send(p, e)
    /\ UNCHANGED <<pc, pending, outcome, seen>>

\* The sender is taken out and used under one lock.  An id that is not pending
\* changes nothing.
Result(p, e) ==
    /\ e \in seen[p] /\ e \in pending
    /\ pending' = pending \ {e}
    /\ Send(p, e)
    /\ UNCHANGED <<pc, outcome, seen>>

-----------------------------------------------------------------------------

EvalCall(e) == Busy(e) \/ Register(e) \/ PushSnippet(e) \/ Receive(e) \/ TimeOut(e) \/ Remove(e)

\* The instance has no more calls to make.
Finished == (\A e \in Evals : At(e, "returned")) /\ UNCHANGED remoteVars

RemoteNext ==
    \/ \E e \in Evals : EvalCall(e)
    \/ \E p \in Pages, e \in Evals : Result(p, e)
    \/ Finished

RemoteSpec == RemoteInit /\ [][RemoteNext]_remoteVars

\* A call that was begun goes on when it can; the pages owe nothing, neither calls nor answers.
RemoteFairness == \A e \in Evals : WF_remoteVars(~At(e, "new") /\ EvalCall(e))

RemoteFairSpec == RemoteSpec /\ RemoteFairness

-----------------------------------------------------------------------------
(* Properties *)

(***************************************************************************)
(* Types.  A call that has taken an answer no longer waits.                *)
(***************************************************************************)
RemoteTypeOK ==
    /\ pc \in [Evals -> {"new", "registered", "waiting", "done", "returned"}]
    /\ pending \subseteq Evals
    /\ slot \in [Evals -> Pages \cup {None}]
    /\ outcome \in [Evals -> Pages \cup {None}]
    /\ seen \in [Pages -> SUBSET Evals]
    /\ delivered \in [Evals -> SUBSET Pages]
    /\ \A e \in Evals : outcome[e] # None => pc[e] \in {"done", "returned"}

(***************************************************************************)
(* At most MAX_IN_FLIGHT evaluations are registered, however the calls     *)
(* interleave (remote.rs: "Most evaluations in flight at once"), and none  *)
(* of a call that returned, answered or not: it would count against those  *)
(* that come after it for ever (remote.rs, eval).                          *)
(***************************************************************************)
InFlightBounded ==
    /\ Cardinality(pending) <= MaxInFlight
    /\ \A e \in pending : pc[e] \in {"registered", "waiting", "done"}

(***************************************************************************)
(* A call that waits can still be answered or has been.  While its sender  *)
(* is in the map the channel is empty, so the next answer fits; once it is *)
(* gone the answer is there, so the channel is never found disconnected    *)
(* (remote.rs, eval and result).                                           *)
(***************************************************************************)
CanBeAnswered ==
    \A e \in Evals : pc[e] \in {"registered", "waiting"} => (e \in pending <=> slot[e] = None)

(***************************************************************************)
(* A call returns the answer of one page, one that has seen the snippet,   *)
(* and no other page is told that its answer was delivered (remote.rs,     *)
(* result).                                                                *)
(***************************************************************************)
OneAnswer ==
    \A e \in Evals :
        /\ \A p, q \in delivered[e] : p = q
        /\ outcome[e] # None => outcome[e] \in delivered[e] /\ e \in seen[outcome[e]]

(***************************************************************************)
(* Every evaluation returns, answered or not.                              *)
(***************************************************************************)
EvalReturns == \A e \in Evals : pc[e] = "registered" ~> pc[e] = "returned"

=============================================================================
