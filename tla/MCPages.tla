----------------------------- MODULE MCPages ------------------------------
(* Small instances of RemoteEval and of Session for TLC.  They share no    *)
(* variable, so each is explored while the other is as it began.           *)
EXTENDS RemoteEval, Session

PagesInit == RemoteInit /\ Init

PagesNext ==
    \/ RemoteNext /\ Init /\ UNCHANGED vars
    \/ Next /\ RemoteInit /\ UNCHANGED remoteVars

\* What is fair of either is not possible before it begins, so neither waits for the other.
PagesFairSpec == PagesInit /\ [][PagesNext]_<<remoteVars, vars>> /\ RemoteFairness /\ Fairness

=============================================================================
