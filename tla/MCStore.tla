------------------------------- MODULE MCStore -------------------------------
(* A store of three with four report IDs, so that IDs are evicted, come back  *)
(* and are overwritten in every position; two pods of one namespace.          *)
EXTENDS Queries

CONSTANTS a, b

MCLabel == {a, b}

MCIdentity == {[namespace |-> a, pod |-> p, container |-> a] : p \in MCLabel}
=============================================================================
