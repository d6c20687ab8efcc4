------------------------------ MODULE Service ------------------------------
(***************************************************************************)
(* What the services that are called have in common (core/service.rs): a   *)
(* call is answered once, with a value or with an error of five kinds.     *)
(***************************************************************************)
CONSTANT None   \* no call, no answer, no value

\* ServiceError::status, and 200.
Status(code) ==
    CASE code = "ok" -> 200
      [] code = "bad_request" -> 400
      [] code \in {"unknown_service", "unknown_method"} -> 404
      [] code = "internal" -> 500
      [] code = "unavailable" -> 503

=============================================================================
