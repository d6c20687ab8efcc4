----------------------------- MODULE MCLogFile ------------------------------
(* A small instance of LogFile for TLC. *)
EXTENDS LogFile

=============================================================================
