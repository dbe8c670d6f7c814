----------------------------- MODULE MCLifecycle -----------------------------
(* One daemon process whose event channel holds fewer events than two passes  *)
(* produce.                                                                   *)
EXTENDS Lifecycle
=============================================================================
