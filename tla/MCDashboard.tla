----------------------------- MODULE MCDashboard -----------------------------
(***************************************************************************)
(* Two refreshes at a time.                                                *)
(***************************************************************************)
EXTENDS Dashboard

CONSTANTS r1, r2
==============================================================================
