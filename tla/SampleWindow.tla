---------------------------- MODULE SampleWindow ----------------------------
(***************************************************************************)
(* What a cgroup's memory history promises its readers: the most recent    *)
(* Capacity samples, oldest first, and nothing else.  Ring implements it.  *)
(***************************************************************************)
EXTENDS Naturals, Sequences

CONSTANTS Capacity,   \* samples a window holds
          Sample      \* the samples that can be recorded

VARIABLE window       \* the retained samples, oldest first

WindowInit == window = <<>>

\* A window that is full forgets its oldest sample to make room.
Pushed(w, s) == IF Len(w) < Capacity THEN Append(w, s) ELSE Append(Tail(w), s)

Record(s) == window' = Pushed(window, s)

WindowNext == \E s \in Sample : Record(s)

WindowSpec == WindowInit /\ [][WindowNext]_window
=============================================================================
