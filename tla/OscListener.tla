---------------------------- MODULE OscListener ----------------------------
(***************************************************************************)
(* The receive half of the osc service of vrcnext-bridge-core: listen and  *)
(* stop (osc/mod.rs), which run one at a time under a mutex, and the       *)
(* receive loops they start (osc/listener.rs), each on a thread of its     *)
(* own.  A loop learns that it should stop from a flag that it reads       *)
(* between two datagrams, so a stopped loop goes on for a while, holding   *)
(* its port, next to the one that replaces it.                             *)
(*                                                                         *)
(* Each element of Loops is one receive loop, started at most once.        *)
(* MaxReceived bounds the messages a loop gets and MaxBundle those in one  *)
(* datagram.  Whether a second has passed is left open at every message.   *)
(***************************************************************************)
EXTENDS Service, Integers

CONSTANTS
    Ports,
    Loops,
    MaxPushes,     \* MAX_PUSHES_PER_SECOND
    MaxBundle,
    MaxReceived

ASSUME OscOK ==
    /\ MaxPushes \in Nat /\ MaxBundle \in Nat /\ MaxReceived \in Nat
    /\ None \notin Ports \cup Loops

VARIABLES
    held,      \* the listener the service holds
    port,      \* the port of each loop
    stage,     \* where each loop is
    running,   \* the flag of each loop
    left,      \* messages of the datagram in hand still to be forwarded
    received, dropped,   \* the counters status reports
    used,      \* pushes asked of the budget in this second
    foreign,   \* the ports that other programs hold
    pushed,    \* history: messages forwarded
    late       \* history: datagrams read after the flag was cleared

loopVars == <<stage, left, received, dropped, used, pushed, late>>
oscVars == <<loopVars, held, port, running, foreign>>

Zero == [l \in Loops |-> 0]

OscInit ==
    /\ held = None
    /\ port = [l \in Loops |-> None]
    /\ stage = [l \in Loops |-> "unused"]
    /\ running = [l \in Loops |-> FALSE]
    /\ left = Zero /\ received = Zero /\ dropped = Zero
    /\ used = Zero /\ pushed = Zero /\ late = Zero
    /\ foreign = {}

-----------------------------------------------------------------------------
(* The service *)

Alive(l) == stage[l] \notin {"unused", "dead"}
Bound == foreign \cup {port[l] : l \in {x \in Loops : Alive(x)}}

\* A listen on that port is answered with started: false, and nothing else.
Holds(p) == held # None /\ port[held] = p

\* existing.stop(), or the Drop of the listener that is let go.
AskHeld == [l \in Loops |-> running[l] /\ l # held]

\* The listener in place is asked to stop before the new port is tried.
ListenStarts(p) ==
    /\ ~Holds(p) /\ p \notin Bound
    /\ \E l \in Loops :
          /\ stage[l] = "unused"
          /\ stage' = [stage EXCEPT ![l] = "look"]
          /\ port' = [port EXCEPT ![l] = p]
          /\ running' = [AskHeld EXCEPT ![l] = TRUE]
          /\ held' = l
    /\ UNCHANGED <<left, received, dropped, used, pushed, late, foreign>>

\* The bind fails, or there is no thread to be had.
ListenFails(p) ==
    /\ ~Holds(p)
    /\ running' = AskHeld
    /\ UNCHANGED <<loopVars, held, port, foreign>>

Stop ==
    /\ held # None
    /\ running' = AskHeld
    /\ held' = None
    /\ UNCHANGED <<loopVars, port, foreign>>

-----------------------------------------------------------------------------
(* The receive loop *)

Move(l, step) == stage' = [stage EXCEPT ![l] = step]

\* Variant: the flag is not looked at.
LookIgnored(l) ==
    /\ stage[l] = "look"
    /\ Move(l, "read")
    /\ UNCHANGED <<left, received, dropped, used, pushed, late>>

Look(l) ==
    /\ stage[l] = "look"
    /\ Move(l, IF running[l] THEN "read" ELSE "dead")
    /\ UNCHANGED <<left, received, dropped, used, pushed, late>>

\* READ_TIMEOUT
ReadNothing(l) ==
    /\ stage[l] = "read"
    /\ Move(l, "look")
    /\ UNCHANGED <<left, received, dropped, used, pushed, late>>

\* A datagram: no message if it cannot be decoded, several if it is a bundle.
Read(l) ==
    /\ stage[l] = "read"
    /\ \E n \in 0..MaxBundle :
          /\ received[l] + n <= MaxReceived
          /\ left' = [left EXCEPT ![l] = n]
          /\ Move(l, IF n = 0 THEN "look" ELSE "forward")
          /\ late' = [late EXCEPT ![l] = IF n > 0 /\ ~running[l] THEN @ + 1 ELSE @]
    /\ UNCHANGED <<received, dropped, used, pushed>>

ReadFails(l) ==
    /\ stage[l] = "read"
    /\ Move(l, "dead")
    /\ UNCHANGED <<left, received, dropped, used, pushed, late>>

Count(l, fits) ==
    /\ pushed' = [pushed EXCEPT ![l] = IF fits THEN @ + 1 ELSE @]
    /\ dropped' = [dropped EXCEPT ![l] = IF fits THEN @ ELSE @ + 1]

\* Variant: the loop reads on while messages come.
ForwardReadingOn(l) ==
    /\ stage[l] = "forward"
    /\ received' = [received EXCEPT ![l] = @ + 1]
    /\ \E n \in {used[l] + 1, 1} :
          /\ used' = [used EXCEPT ![l] = n]
          /\ Count(l, n <= MaxPushes)
    /\ left' = [left EXCEPT ![l] = @ - 1]
    /\ Move(l, IF left[l] = 1 THEN "read" ELSE "forward")
    /\ UNCHANGED late

\* Budget::allow for one message, and the push or the drop.
Forward(l) ==
    /\ stage[l] = "forward"
    /\ received' = [received EXCEPT ![l] = @ + 1]
    /\ \E n \in {used[l] + 1, 1} :
          /\ used' = [used EXCEPT ![l] = n]
          /\ Count(l, n <= MaxPushes)
    /\ left' = [left EXCEPT ![l] = @ - 1]
    /\ Move(l, IF left[l] = 1 THEN "look" ELSE "forward")
    /\ UNCHANGED late

Loop(l) ==
    /\ Look(l) \/ ReadNothing(l) \/ Read(l) \/ ReadFails(l) \/ Forward(l)
    /\ UNCHANGED <<held, port, running, foreign>>

\* Other programs bind and release ports.
Elsewhere(p) ==
    /\ foreign' = IF p \in foreign THEN foreign \ {p} ELSE foreign \cup ({p} \ Bound)
    /\ UNCHANGED <<loopVars, held, port, running>>

OscNext ==
    \/ \E p \in Ports : ListenStarts(p) \/ ListenFails(p) \/ Elsewhere(p)
    \/ Stop
    \/ \E l \in Loops : Loop(l)

OscSpec == OscInit /\ [][OscNext]_oscVars

\* A loop's thread runs; its reads return within READ_TIMEOUT.
OscFairness == \A l \in Loops : WF_oscVars(Loop(l))

OscFairSpec == OscSpec /\ OscFairness

-----------------------------------------------------------------------------
(* Properties *)

(***************************************************************************)
(* Types.  A message is either forwarded or counted as dropped             *)
(* (listener.rs: "a silent drop is indistinguishable from a bug").         *)
(***************************************************************************)
OscTypeOK ==
    /\ held \in Loops \cup {None}
    /\ port \in [Loops -> Ports \cup {None}]
    /\ stage \in [Loops -> {"unused", "look", "read", "forward", "dead"}]
    /\ running \in [Loops -> BOOLEAN]
    /\ left \in [Loops -> Nat] /\ received \in [Loops -> Nat] /\ dropped \in [Loops -> Nat]
    /\ used \in [Loops -> Nat] /\ pushed \in [Loops -> Nat] /\ late \in [Loops -> Nat]
    /\ foreign \subseteq Ports
    /\ \A l \in Loops : received[l] = pushed[l] + dropped[l]

(***************************************************************************)
(* The only loop not asked to stop is the one the service holds, so that   *)
(* no port stays bound and no message is forwarded twice for good,         *)
(* whatever the order of listen, stop and failures (mod.rs, listen).       *)
(***************************************************************************)
OnlyHeldRuns == \A l \in Loops : running[l] => l = held

(***************************************************************************)
(* After it was asked to stop a loop handles one more datagram at most     *)
(* (listener.rs, stop).                                                    *)
(***************************************************************************)
OneDatagramLate == \A l \in Loops : late[l] <= 1

(***************************************************************************)
(* A loop that was asked to stop ends and gives its port back              *)
(* (listener.rs: "It notices within READ_TIMEOUT").                        *)
(***************************************************************************)
AskedLoopsEnd == \A l \in Loops : Alive(l) /\ ~running[l] ~> stage[l] = "dead"

=============================================================================
