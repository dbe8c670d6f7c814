-------------------------------- MODULE Ring --------------------------------
(***************************************************************************)
(* The fixed-capacity circular buffer of internal/sampler/ring.go, as      *)
(* operators on a record {samples, next, filled}.  The Sampler keeps one   *)
(* per cgroup; RingMachine exercises one on its own.                       *)
(***************************************************************************)
EXTENDS Integers, Sequences

CONSTANTS Capacity,     \* len(r.samples), fixed by NewRing
          Sample,       \* the values a caller may add
          ZeroSample    \* Go's zero Sample, which make() fills the slots with

\* NewRing panics on a non-positive capacity.
ASSUME CapacityAssumption == Capacity \in Nat \ {0}

Slots == 0 .. Capacity - 1

RingType == [samples : [Slots -> Sample \cup {ZeroSample}],
             next    : Slots,
             filled  : BOOLEAN]

NewRing == [samples |-> [i \in Slots |-> ZeroSample],
            next    |-> 0,
            filled  |-> FALSE]

\* Mutant of NextSlot: the index is never wrapped.
UnwrappedSlot(i) == i + 1

\* The slot after slot i, wrapping around.
NextSlot(i) == (i + 1) % Capacity

\* Add overwrites the slot at next; the ring is full once next has wrapped.
Add(r, s) ==
    [samples |-> [r.samples EXCEPT ![r.next] = s],
     next    |-> NextSlot(r.next),
     filled  |-> r.filled \/ NextSlot(r.next) = 0]

RingLen(r) == IF r.filled THEN Capacity ELSE r.next

\* r.samples[from:to] as a sequence.
Slice(r, from, to) == [i \in 1 .. to - from |-> r.samples[from + i - 1]]

\* Mutant of RingSamples: slot order, which is wrong from the first wrap on.
SlotOrderSamples(r) ==
    IF r.filled THEN Slice(r, 0, Capacity) ELSE Slice(r, 0, r.next)

\* Samples: oldest first, so a full ring starts at the slot to overwrite next.
RingSamples(r) ==
    IF r.filled
    THEN Slice(r, r.next, Capacity) \o Slice(r, 0, r.next)
    ELSE Slice(r, 0, r.next)

\* Mutant of LatestSlot: the slot about to be overwritten.
SlotToOverwrite(r) == r.next

\* Latest, for a ring that is not empty.
LatestSlot(r) == (r.next - 1 + Capacity) % Capacity
Latest(r) == r.samples[LatestSlot(r)]
=============================================================================
