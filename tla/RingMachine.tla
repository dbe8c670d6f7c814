---------------------------- MODULE RingMachine ----------------------------
(***************************************************************************)
(* One Ring under any sequence of Adds.  Readers are pure (Len, Samples,   *)
(* Latest return copies), so Add is the only step.                         *)
(***************************************************************************)
EXTENDS Ring

VARIABLE ring

RingInit == ring = NewRing

AddSample(s) == ring' = Add(ring, s)

RingNext == \E s \in Sample : AddSample(s)

RingSpec == RingInit /\ [][RingNext]_ring

RingTypeOK == ring \in RingType

\* What Latest returns is what Samples lists last, and the slots a reader sees
\* were written by Add: the zero Samples that NewRing allocates never leak into
\* a history (ring.go Latest and Samples slice the same buffer two ways).
ReadersAgree ==
    LET seen == RingSamples(ring) IN
    /\ Len(seen) = RingLen(ring)
    /\ \A i \in 1 .. Len(seen) : seen[i] \in Sample
    /\ RingLen(ring) > 0 => Latest(ring) = seen[Len(seen)]

Window == INSTANCE SampleWindow WITH window <- RingSamples(ring)

\* ring.go Add and Samples together are a sliding window: after any number of
\* wraps Samples is the last Capacity samples added, in the order of addition.
ImplementsWindow == Window!WindowSpec
=============================================================================
