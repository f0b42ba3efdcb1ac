----------------------------- MODULE MCApiClient -----------------------------
(***************************************************************************)
(* The instance of ApiClient that the run checks: two calls in flight, two *)
(* users of one browser.                                                   *)
(***************************************************************************)
EXTENDS ApiClient
=============================================================================
