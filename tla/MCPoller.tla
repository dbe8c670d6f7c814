------------------------------- MODULE MCPoller -------------------------------
(* Small hosts for the poller: cgroups side by side, and a pod's slice with   *)
(* the scope of its container below it.                                       *)
EXTENDS Poller, TLC

Flat == [p \in Path |-> {}]

CONSTANTS slice, scope

Nested == (scope :> {slice}) @@ (slice :> {})

Twins == Permutations({slice, scope})

MCPid == 1 .. 3
OnePid == {1}
TwoPids == 1 .. 2

\* The heaviest process is neither the first nor the last one.
MCRSS == [pid \in Pid |-> IF pid = 2 THEN 2 ELSE 1]
=============================================================================
