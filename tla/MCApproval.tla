----------------------------- MODULE MCApproval -----------------------------
(* A small instance of Approval for TLC. *)
EXTENDS Approval

=============================================================================
