------------------------------- MODULE MCGate -------------------------------
(* A small instance of Gate for TLC. *)
EXTENDS Gate

CONSTANTS page, script, site, image   \* peers

MCOrigin == [p \in Peers |-> CASE p = page -> "allowed" [] p = site -> "other" [] OTHER -> "absent"]
MCFetchSite == [p \in Peers |-> IF p = script THEN "absent" ELSE "cross-site"]

=============================================================================
