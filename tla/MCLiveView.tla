------------------------------ MODULE MCLiveView ------------------------------
(***************************************************************************)
(* The instance of LiveView that the run checks.  A page neither sees nor  *)
(* disturbs another one, so one page is enough; the orders of other pages  *)
(* are those that no tab awaits.                                           *)
(***************************************************************************)
EXTENDS LiveView
=============================================================================
