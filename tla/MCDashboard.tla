----------------------------- MODULE MCDashboard -----------------------------
(* Three kills, a store of two reports, and the default interval and timeout  *)
(* in seconds.                                                                *)
EXTENDS Screen
=============================================================================
