--------------------------- MODULE MCListeners ----------------------------
(* Small instances of OscListener and of Approval for TLC.  They share no  *)
(* variable, so each is explored while the other is as it began.  Which     *)
(* approver there is does not matter to the first.                         *)
EXTENDS OscListener, Approval

ListenersInit == OscInit /\ Init

ListenersNext ==
    \/ OscNext /\ Init /\ approver = "null" /\ UNCHANGED vars
    \/ Next /\ OscInit /\ UNCHANGED oscVars

\* What is fair of either is not possible before it begins, so neither waits for the other.
ListenersFairSpec ==
    ListenersInit /\ [][ListenersNext]_<<oscVars, vars>> /\ OscFairness /\ Fairness

=============================================================================
