------------------------------- MODULE Calls -------------------------------
(***************************************************************************)
(* The services behind the registry (core/service.rs) that keep nothing    *)
(* from one call to the next but the client of outbound, with what the     *)
(* plugins service does before it touches a tree, and the token's file.    *)
(* They share no state, so one at a time is as good as all together; only  *)
(* sql leaves a thread behind, and only a call of its own follows before   *)
(* that thread is gone.                                                    *)
(***************************************************************************)
EXTENDS Notify, Sql, Outbound, Intake, Token

VARIABLE routed   \* the answer of the registry itself

vars == <<notifyVars, sqlVars, outboundVars, intakeVars, tokenVars, routed>>

Init ==
    /\ NotifyInit /\ SqlInit /\ OutboundInit /\ IntakeInit /\ TokenInit
    /\ routed = None

Free ==
    /\ request = None /\ query = None /\ fetch = None /\ remote = None /\ routed = None
    /\ \A p \in Procs : procs[p].at = "idle"

Others(module) ==
    /\ module # "notify" => UNCHANGED notifyVars
    /\ module # "sql" => UNCHANGED sqlVars
    /\ module # "outbound" => UNCHANGED outboundVars
    /\ module # "intake" => UNCHANGED intakeVars
    /\ module # "token" => UNCHANGED tokenVars
    /\ module # "registry" => UNCHANGED routed

-----------------------------------------------------------------------------
(* ServiceRegistry::call *)

\* The service, or the method, is not there.
Unknown ==
    /\ Free /\ SqlQuiet
    /\ \E code \in {"unknown_service", "unknown_method"} : routed' = Status(code)
    /\ Others("registry")

RouteReturn == routed # None /\ routed' = None /\ Others("registry")

Begin ==
    /\ Free
    /\ \/ SqlBegin /\ Others("sql")
       \/ SqlQuiet /\ NotifyBegin /\ Others("notify")
       \/ SqlQuiet /\ OutboundBegin /\ Others("outbound")
       \/ SqlQuiet /\ IntakeBegin /\ Others("intake")
       \/ SqlQuiet /\ TokenBegin /\ Others("token")

\* What the call itself does next, and what time does to it.
Step ==
    \/ NotifyStep /\ Others("notify")
    \/ SqlStep /\ Others("sql")
    \/ OutboundStep /\ Others("outbound")
    \/ IntakeStep /\ Others("intake")
    \/ TokenStep /\ Others("token")

Watchdog(d) == Watch(d) /\ Others("sql")

Return ==
    \/ NotifyReturn /\ Others("notify")
    \/ SqlReturn /\ Others("sql")
    \/ OutboundReturn /\ Others("outbound")
    \/ IntakeReturn /\ Others("intake")
    \/ TokenReturn /\ Others("token")
    \/ RouteReturn

\* What may happen, and need not.
Chance ==
    \/ SqliteFails /\ Others("sql")
    \/ Network /\ Others("outbound")
    \/ (Ends \/ Push \/ StartFetch \/ Advertise) /\ Others("intake")
    \/ TokenFault /\ Others("token")

Next == Unknown \/ Begin \/ Step \/ (\E d \in Dogs : Watchdog(d)) \/ Return \/ Chance

Spec == Init /\ [][Next]_vars

\* A delivery over the bus has no deadline, and none is assumed to end.
FairSpec ==
    /\ Spec
    /\ WF_vars(~OnBus /\ Step) /\ WF_vars(Return)
    /\ \A d \in Dogs : WF_vars(Watchdog(d))

-----------------------------------------------------------------------------
(* Properties *)

(* What a call answers is the whole of what it read, or a refusal: the rows *)
(* of a query, and the body of a response (sql.rs, run; outbound.rs,        *)
(* read_capped).                                                            *)
AnswersAreWhole == RowsWhole /\ BodyIsWhole

\* No call is under way, or the one at hand has its answer and may be followed by an update check.
Settled == Free \/ intakeAt = "answered"

(* Every call returns, whatever the statement, the remote host or the       *)
(* repository does, as what does not end by itself has a deadline (sql.rs,  *)
(* Watchdog; outbound.rs, fetch; git.rs, with_deadline); all but a delivery *)
(* to a notification daemon, which has none (freedesktop.rs:131) and is     *)
(* taken to be answered.                                                    *)
CallsReturn == []<>~OnBus => (~Settled ~> Settled)

=============================================================================
