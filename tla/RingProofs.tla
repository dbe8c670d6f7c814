----------------------------- MODULE RingProofs -----------------------------
(***************************************************************************)
(* What the operators of Ring compute (the index arithmetic, what Samples  *)
(* lists and what Add does to it), and that Ring implements a sliding      *)
(* window of the last Capacity samples: for every capacity.                *)
(***************************************************************************)
EXTENDS RingMachine, SequenceTheorems, TLAPS

Value == Sample \cup {ZeroSample}

\* Slots Add has written hold samples.
Written(r) == \A i \in Slots : r.filled \/ i < r.next => r.samples[i] \in Sample

RingOK(r) == r \in RingType /\ Written(r)

\* The slot of the i-th oldest sample, without modular arithmetic.
SlotOf(r, i) ==
    IF ~ r.filled THEN i - 1
    ELSE IF r.next + i - 1 < Capacity THEN r.next + i - 1
    ELSE r.next + i - 1 - Capacity

-----------------------------------------------------------------------------
\* The index arithmetic of ring.go Add: (next + 1) % len wraps at the last slot.
LEMMA NextSlotWraps ==
    ASSUME NEW i \in Slots
    PROVE  NextSlot(i) = IF i + 1 = Capacity THEN 0 ELSE i + 1
BY CapacityAssumption DEF Slots, NextSlot

\* The index arithmetic of ring.go Latest: the slot before next, wrapping back.
LEMMA LatestSlotWraps ==
    ASSUME NEW r \in RingType
    PROVE  LatestSlot(r) = IF r.next = 0 THEN Capacity - 1 ELSE r.next - 1
BY CapacityAssumption DEF RingType, Slots, LatestSlot

\* A slice of the buffer is a sequence of its slots in order.
LEMMA SliceIsSeq ==
    ASSUME NEW r \in RingType,
           NEW from \in 0 .. Capacity, NEW to \in from .. Capacity
    PROVE  /\ Slice(r, from, to) \in Seq(Value)
           /\ Len(Slice(r, from, to)) = to - from
           /\ \A i \in 1 .. to - from : Slice(r, from, to)[i] = r.samples[from + i - 1]
<1>1. to - from \in Nat
  BY CapacityAssumption
<1>2. \A i \in 1 .. to - from : r.samples[from + i - 1] \in Value
  BY CapacityAssumption DEF RingType, Slots, Value
<1> QED
  BY <1>1, <1>2 DEF Slice

\* ring.go Samples: its length and its i-th entry, wrapped or not.
LEMMA SamplesShape ==
    ASSUME NEW r \in RingType
    PROVE  /\ RingSamples(r) \in Seq(Value)
           /\ RingLen(r) \in 0 .. Capacity
           /\ Len(RingSamples(r)) = RingLen(r)
           /\ \A i \in 1 .. RingLen(r) :
                 /\ SlotOf(r, i) \in Slots
                 /\ RingSamples(r)[i] = r.samples[SlotOf(r, i)]
<1> DEFINE Low == Slice(r, 0, r.next)
           High == Slice(r, r.next, Capacity)
<1>1. r.next \in 0 .. Capacity /\ r.next < Capacity /\ r.filled \in BOOLEAN
  BY CapacityAssumption DEF RingType, Slots
<1>2. /\ Low \in Seq(Value)
      /\ Len(Low) = r.next
      /\ \A i \in 1 .. r.next : Low[i] = r.samples[i - 1]
  <2>1. r.next \in 0 .. Capacity /\ 0 \in 0 .. Capacity
    BY <1>1, CapacityAssumption
  <2>2. /\ Low \in Seq(Value)
        /\ Len(Low) = r.next - 0
        /\ \A i \in 1 .. r.next - 0 : Low[i] = r.samples[0 + i - 1]
    BY <2>1, SliceIsSeq
  <2> HIDE DEF Low
  <2> QED
    BY <2>1, <2>2
<1>3. /\ High \in Seq(Value)
      /\ Len(High) = Capacity - r.next
      /\ \A i \in 1 .. Capacity - r.next : High[i] = r.samples[r.next + i - 1]
  <2>1. r.next \in 0 .. Capacity /\ Capacity \in r.next .. Capacity
    BY <1>1, CapacityAssumption
  <2> QED
    BY <2>1, SliceIsSeq
<1> HIDE DEF Low, High
<1>4. CASE ~ r.filled
  BY <1>1, <1>2, <1>4, CapacityAssumption DEF RingSamples, RingLen, SlotOf, Slots, Low
<1>5. CASE r.filled
  <2> DEFINE Both == High \o Low
             Wrap == Capacity - r.next
  <2>1. /\ RingSamples(r) = Both
        /\ RingLen(r) = Capacity
    BY <1>5 DEF RingSamples, RingLen, Low, High
  <2>2. /\ Both \in Seq(Value)
        /\ Len(Both) = Capacity
        /\ \A i \in 1 .. Capacity : i <= Wrap => Both[i] = High[i]
        /\ \A i \in 1 .. Capacity : i > Wrap => Both[i] = Low[i - Wrap]
    <3>1. /\ Both \in Seq(Value)
          /\ Len(Both) = Len(High) + Len(Low)
          /\ \A i \in 1 .. Len(High) + Len(Low) :
                Both[i] = IF i <= Len(High) THEN High[i] ELSE Low[i - Len(High)]
      BY <1>2, <1>3, ConcatProperties
    <3>2. Len(High) + Len(Low) = Capacity /\ Len(High) = Wrap
      BY <1>1, <1>2, <1>3, CapacityAssumption
    <3> HIDE DEF Both, Wrap
    <3>3. Wrap \in Int
      BY <1>1, CapacityAssumption DEF Wrap
    <3> QED
      BY <3>1, <3>2, <3>3, CapacityAssumption
  <2> HIDE DEF Both
  <2>3. \A i \in 1 .. Capacity :
           /\ SlotOf(r, i) \in Slots
           /\ Both[i] = r.samples[SlotOf(r, i)]
    <3> TAKE i \in 1 .. Capacity
    <3>1. CASE i <= Wrap
      <4>1. SlotOf(r, i) = r.next + i - 1
        BY <3>1, <1>1, <1>5, CapacityAssumption DEF SlotOf
      <4>2. Both[i] = r.samples[r.next + i - 1]
        <5>1. Both[i] = High[i]
          BY <3>1, <2>2
        <5>2. i \in 1 .. Capacity - r.next
          BY <3>1, <1>1, CapacityAssumption
        <5> QED
          BY <5>1, <5>2, <1>3
      <4> QED
        BY <3>1, <4>1, <4>2, <1>1, CapacityAssumption DEF Slots
    <3>2. CASE i > Wrap
      <4>1. i - Wrap \in 1 .. r.next
        BY <3>2, <1>1, CapacityAssumption
      <4>2. SlotOf(r, i) = i - Wrap - 1
        BY <3>2, <1>1, <1>5, CapacityAssumption DEF SlotOf
      <4>3. Both[i] = r.samples[i - Wrap - 1]
        <5>1. Both[i] = Low[i - Wrap]
          BY <3>2, <2>2
        <5>2. Low[i - Wrap] = r.samples[i - Wrap - 1]
          BY <4>1, <1>2
        <5> QED
          BY <5>1, <5>2
      <4> QED
        BY <3>2, <4>1, <4>2, <4>3, <1>1, CapacityAssumption DEF Slots
    <3>3. i <= Wrap \/ i > Wrap
      BY <1>1, CapacityAssumption
    <3> QED
      BY <3>1, <3>2, <3>3
  <2> QED
    BY <2>1, <2>2, <2>3, CapacityAssumption
<1> QED
  BY <1>1, <1>4, <1>5

\* ring.go Add keeps the ring's type.
LEMMA AddType ==
    ASSUME NEW r \in RingType, NEW s \in Sample
    PROVE  Add(r, s) \in RingType
<1>1. NextSlot(r.next) = IF r.next + 1 = Capacity THEN 0 ELSE r.next + 1
  BY NextSlotWraps DEF RingType
<1> QED
  BY <1>1, CapacityAssumption DEF RingType, Add, Slots

\* ring.go Add keeps a ring well formed.
LEMMA AddOK ==
    ASSUME NEW r, RingOK(r), NEW s \in Sample
    PROVE  RingOK(Add(r, s))
<1>1. r \in RingType /\ Written(r)
  BY DEF RingOK
<1>2. NextSlot(r.next) = IF r.next + 1 = Capacity THEN 0 ELSE r.next + 1
  BY <1>1, NextSlotWraps DEF RingType
<1>3. Add(r, s) \in RingType
  BY <1>1, <1>2, CapacityAssumption DEF RingType, Add, Slots
<1>4. Written(Add(r, s))
  <2> SUFFICES ASSUME NEW i \in Slots,
                      Add(r, s).filled \/ i < Add(r, s).next
               PROVE  Add(r, s).samples[i] \in Sample
    BY DEF Written
  <2>1. i = r.next \/ i < r.next \/ r.filled
    BY <1>1, <1>2, CapacityAssumption DEF RingType, Slots, Add
  <2> QED
    BY <1>1, <2>1 DEF RingType, Slots, Add, Written
<1> QED
  BY <1>3, <1>4 DEF RingOK

\* ring.go Latest: the sample added last is the one returned.
LEMMA LatestIsLastAdded ==
    ASSUME NEW r \in RingType, NEW s \in Sample
    PROVE  RingLen(Add(r, s)) > 0 /\ Latest(Add(r, s)) = s
<1> DEFINE q == Add(r, s)
<1>1. r.next \in 0 .. Capacity - 1 /\ r.filled \in BOOLEAN
  BY DEF RingType, Slots
<1>2. NextSlot(r.next) = IF r.next + 1 = Capacity THEN 0 ELSE r.next + 1
  BY NextSlotWraps DEF RingType
<1>3. /\ q \in RingType
      /\ q.next = NextSlot(r.next)
      /\ NextSlot(r.next) = 0 => q.filled
      /\ q.samples[r.next] = s
  <2>1. q \in RingType
    BY <1>1, <1>2, CapacityAssumption DEF RingType, Add, Slots
  <2>2. q.next = NextSlot(r.next) /\ q.samples[r.next] = s
    BY DEF RingType, Add
  <2>3. NextSlot(r.next) = 0 => q.filled
    BY DEF Add
  <2> QED
    BY <2>1, <2>2, <2>3
<1> HIDE DEF q
<1>4. LatestSlot(q) = r.next
  <2>1. LatestSlot(q) = IF q.next = 0 THEN Capacity - 1 ELSE q.next - 1
    BY <1>3, LatestSlotWraps
  <2> QED
    BY <1>1, <1>2, <1>3, <2>1, CapacityAssumption
<1>5. RingLen(q) > 0
  BY <1>1, <1>2, <1>3, CapacityAssumption DEF RingLen
<1> QED
  BY <1>3, <1>4, <1>5 DEF Latest, q

\* ring.go Latest and Samples: the newest sample is the last one listed.
LEMMA LatestIsNewest ==
    ASSUME NEW r \in RingType, RingLen(r) > 0
    PROVE  RingSamples(r) # << >> /\ Latest(r) = RingSamples(r)[Len(RingSamples(r))]
<1> DEFINE seen == RingSamples(r)
<1>1. r.next \in Slots /\ r.filled \in BOOLEAN
  BY DEF RingType
<1>2. /\ Len(seen) = RingLen(r)
      /\ RingLen(r) \in 0 .. Capacity
      /\ \A i \in 1 .. RingLen(r) : /\ SlotOf(r, i) \in Slots
                                   /\ seen[i] = r.samples[SlotOf(r, i)]
  BY SamplesShape
<1> HIDE DEF seen
<1>3. LatestSlot(r) = IF r.next = 0 THEN Capacity - 1 ELSE r.next - 1
  BY LatestSlotWraps
<1>4. SlotOf(r, RingLen(r)) = LatestSlot(r)
  <2>1. CASE r.filled
    <3>1. RingLen(r) = Capacity
      BY <2>1 DEF RingLen
    <3> QED
      BY <1>1, <1>3, <2>1, <3>1, CapacityAssumption DEF SlotOf, Slots
  <2>2. CASE ~ r.filled
    <3>1. RingLen(r) = r.next
      BY <2>2 DEF RingLen
    <3> QED
      BY <1>1, <1>3, <2>2, <3>1 DEF SlotOf, Slots
  <2> QED
    BY <2>1, <2>2
<1>5. RingLen(r) \in 1 .. RingLen(r) /\ Len(seen) # 0
  BY <1>2
<1>6. seen # << >>
  BY <1>5
<1> QED
  BY <1>2, <1>4, <1>5, <1>6 DEF Latest, seen

\* The window of SampleWindow, on sequences.
Pushed(w, s) == IF Len(w) < Capacity THEN Append(w, s) ELSE Append(Tail(w), s)

\* ring.go Add seen through Samples: the new sample is appended, and a full
\* ring forgets exactly its oldest one.
LEMMA AddSlides ==
    ASSUME NEW r \in RingType, NEW s \in Sample
    PROVE  RingSamples(Add(r, s)) = Pushed(RingSamples(r), s)
<1> DEFINE q   == Add(r, s)
           old == RingSamples(r)
           new == RingSamples(q)
           res == Pushed(old, s)
<1>1. r.next \in Slots /\ r.filled \in BOOLEAN /\ s \in Value
  BY DEF RingType, Value
<1>2. NextSlot(r.next) = IF r.next + 1 = Capacity THEN 0 ELSE r.next + 1
  BY <1>1, NextSlotWraps
<1>3. /\ q \in RingType
      /\ q.next = NextSlot(r.next)
      /\ q.filled = (r.filled \/ NextSlot(r.next) = 0)
      /\ \A i \in Slots : q.samples[i] = IF i = r.next THEN s ELSE r.samples[i]
  <2>1. q \in RingType
    BY <1>1, <1>2, CapacityAssumption DEF RingType, Add, Slots
  <2>2. q.next = NextSlot(r.next) /\ q.filled = (r.filled \/ NextSlot(r.next) = 0)
    BY DEF Add
  <2>3. \A i \in Slots : q.samples[i] = IF i = r.next THEN s ELSE r.samples[i]
    BY DEF RingType, Add
  <2> QED
    BY <2>1, <2>2, <2>3
<1> HIDE DEF q
<1>4. /\ old \in Seq(Value)
      /\ Len(old) = RingLen(r)
      /\ RingLen(r) \in 0 .. Capacity
      /\ \A i \in 1 .. RingLen(r) : /\ SlotOf(r, i) \in Slots
                                   /\ old[i] = r.samples[SlotOf(r, i)]
  BY SamplesShape
<1>5. /\ new \in Seq(Value)
      /\ Len(new) = RingLen(q)
      /\ RingLen(q) \in 0 .. Capacity
      /\ \A i \in 1 .. RingLen(q) : /\ SlotOf(q, i) \in Slots
                                   /\ new[i] = q.samples[SlotOf(q, i)]
  BY <1>3, SamplesShape
<1>6. RingLen(r) = IF r.filled THEN Capacity ELSE r.next
  BY DEF RingLen
<1>7. /\ r.filled \/ r.next + 1 = Capacity => RingLen(q) = Capacity
      /\ ~ r.filled /\ r.next + 1 # Capacity => RingLen(q) = r.next + 1
  <2>1. r.filled \/ r.next + 1 = Capacity => q.filled
    BY <1>2, <1>3
  <2>2. ~ r.filled /\ r.next + 1 # Capacity => ~ q.filled /\ q.next = r.next + 1
    BY <1>1, <1>2, <1>3 DEF Slots
  <2> QED
    BY <2>1, <2>2 DEF RingLen
<1> HIDE DEF old, new
<1>8. CASE ~ r.filled
  <2>1. RingLen(q) = Len(old) + 1 /\ Len(old) = r.next /\ Len(old) < Capacity
    BY <1>1, <1>4, <1>6, <1>7, <1>8, CapacityAssumption DEF Slots
  <2>2. res = Append(old, s)
    BY <2>1 DEF Pushed
  <2>3. /\ res \in Seq(Value)
        /\ Len(res) = Len(old) + 1
        /\ \A i \in 1 .. Len(old) : res[i] = old[i]
        /\ res[Len(old) + 1] = s
    BY <1>1, <1>4, <2>2, AppendProperties
  <2>4. \A i \in 1 .. Len(old) + 1 : SlotOf(q, i) = i - 1
    <3> TAKE i \in 1 .. Len(old) + 1
    <3>1. CASE q.filled
      <4>1. q.next = 0 /\ r.next + 1 = Capacity
        BY <3>1, <1>1, <1>2, <1>3, <1>8, CapacityAssumption DEF Slots
      <4> QED
        BY <3>1, <4>1, <2>1, CapacityAssumption DEF SlotOf
    <3>2. CASE ~ q.filled
      BY <3>2 DEF SlotOf
    <3> QED
      BY <3>1, <3>2
  <2>5. \A i \in 1 .. Len(old) : SlotOf(r, i) = i - 1
    BY <1>8 DEF SlotOf
  <2>6. \A i \in 1 .. Len(old) + 1 : new[i] = res[i]
    <3> TAKE i \in 1 .. Len(old) + 1
    <3>1. i - 1 \in Slots /\ new[i] = q.samples[i - 1]
      BY <1>5, <2>1, <2>4
    <3>2. CASE i = Len(old) + 1
      BY <3>1, <3>2, <1>3, <2>1, <2>3, <1>1 DEF Slots
    <3>3. CASE i # Len(old) + 1
      <4>1. i \in 1 .. Len(old) /\ i - 1 # r.next
        BY <3>3, <2>1, <1>1 DEF Slots
      <4>2. old[i] = r.samples[i - 1]
        BY <4>1, <1>4, <2>5
      <4>3. q.samples[i - 1] = r.samples[i - 1]
        BY <3>1, <4>1, <1>3
      <4> QED
        BY <3>1, <4>1, <4>2, <4>3, <2>3
    <3> QED
      BY <3>2, <3>3
  <2>7. Len(new) = Len(res)
    BY <1>5, <2>1, <2>3
  <2> QED
    BY <1>5, <2>1, <2>3, <2>6, <2>7, SeqEqual DEF q, new, old
<1>9. CASE r.filled
  <2>1. RingLen(q) = Capacity /\ Len(old) = Capacity
    BY <1>4, <1>6, <1>7, <1>9
  <2>2. res = Append(Tail(old), s)
    BY <2>1, CapacityAssumption DEF Pushed
  <2>3. /\ Tail(old) \in Seq(Value)
        /\ Len(Tail(old)) = Capacity - 1
        /\ \A i \in 1 .. Capacity - 1 : Tail(old)[i] = old[i + 1]
    <3>1. old # << >>
      BY <2>1, <1>4, CapacityAssumption, EmptySeq
    <3> QED
      BY <3>1, <2>1, <1>4, HeadTailProperties
  <2>4. /\ res \in Seq(Value)
        /\ Len(res) = Capacity
        /\ \A i \in 1 .. Capacity - 1 : res[i] = old[i + 1]
        /\ res[Capacity] = s
    <3> HIDE DEF res
    <3>1. /\ res \in Seq(Value)
          /\ Len(res) = Len(Tail(old)) + 1
          /\ \A i \in 1 .. Len(Tail(old)) : res[i] = Tail(old)[i]
          /\ res[Len(Tail(old)) + 1] = s
      BY <1>1, <2>2, <2>3, AppendProperties
    <3> QED
      BY <2>3, <3>1, CapacityAssumption
  <2> HIDE DEF res
  <2>5. q.filled /\ q.next = IF r.next + 1 = Capacity THEN 0 ELSE r.next + 1
    BY <1>2, <1>3, <1>9
  <2>6. SlotOf(q, Capacity) = r.next
    BY <2>5, <1>1, CapacityAssumption DEF SlotOf, Slots
  <2>7. \A i \in 1 .. Capacity - 1 :
           SlotOf(q, i) = SlotOf(r, i + 1) /\ SlotOf(q, i) # r.next
    BY <2>5, <1>1, <1>9, CapacityAssumption DEF SlotOf, Slots
  <2>8. \A i \in 1 .. Capacity : new[i] = res[i]
    <3> TAKE i \in 1 .. Capacity
    <3>1. SlotOf(q, i) \in Slots /\ new[i] = q.samples[SlotOf(q, i)]
      BY <1>5, <2>1
    <3>2. CASE i = Capacity
      BY <3>1, <3>2, <1>3, <2>4, <2>6
    <3>3. CASE i # Capacity
      <4>1. i \in 1 .. Capacity - 1 /\ i + 1 \in 1 .. Capacity
        BY <3>3, CapacityAssumption
      <4>2. q.samples[SlotOf(q, i)] = r.samples[SlotOf(r, i + 1)]
        BY <4>1, <3>1, <2>7, <1>3
      <4>3. old[i + 1] = r.samples[SlotOf(r, i + 1)]
        BY <4>1, <1>4, <2>1
      <4> QED
        BY <3>1, <4>1, <4>2, <4>3, <2>4
    <3> QED
      BY <3>2, <3>3
  <2>9. Len(new) = Len(res)
    BY <1>5, <2>1, <2>4
  <2> QED
    BY <1>5, <2>1, <2>4, <2>8, <2>9, SeqEqual DEF q, new, old, res
<1> QED
  BY <1>1, <1>8, <1>9

-----------------------------------------------------------------------------
\* RingMachine: one ring under any sequence of Adds.
RingInv == RingOK(ring)

LEMMA RingInitOK == RingInit => RingInv
BY CapacityAssumption
   DEF RingInit, RingInv, RingOK, RingType, Written, NewRing, Slots

LEMMA RingNextOK == RingInv /\ [RingNext]_ring => RingInv'
<1> SUFFICES ASSUME RingInv, [RingNext]_ring PROVE RingInv'
  OBVIOUS
<1>1. ASSUME NEW s \in Sample, AddSample(s) PROVE RingInv'
  BY <1>1, AddOK DEF RingInv, AddSample
<1>2. CASE UNCHANGED ring
  BY <1>2 DEF RingInv
<1> QED
  BY <1>1, <1>2 DEF RingNext

\* ring.go: in every history of Adds the ring stays well formed, and every slot
\* a reader can reach was written by Add.
THEOREM RingInvariant == RingSpec => []RingInv
<1> QED
  BY RingInitOK, RingNextOK, PTL DEF RingSpec

\* ring.go: the index never leaves the buffer, for every capacity.
THEOREM RingTypeCorrect == RingSpec => []RingTypeOK
<1>1. RingInv => RingTypeOK
  BY DEF RingInv, RingOK, RingTypeOK
<1> QED
  BY <1>1, RingInvariant, PTL

\* What the readers of a well-formed ring are told.
LEMMA WrittenIsRead == RingInv => ReadersAgree
<1>1. ASSUME RingInv PROVE ReadersAgree
  <2> DEFINE seen == RingSamples(ring)
  <2>1. ring \in RingType /\ Written(ring)
    BY <1>1 DEF RingInv, RingOK
  <2>2. /\ Len(seen) = RingLen(ring)
        /\ RingLen(ring) \in 0 .. Capacity
        /\ \A i \in 1 .. RingLen(ring) :
              /\ SlotOf(ring, i) \in Slots
              /\ seen[i] = ring.samples[SlotOf(ring, i)]
    BY <2>1, SamplesShape
  <2>3. ring.next \in Slots /\ ring.filled \in BOOLEAN
    BY <2>1 DEF RingType
  <2> HIDE DEF seen
  <2>4. ASSUME NEW i \in 1 .. RingLen(ring) PROVE seen[i] \in Sample
    <3>1. ring.filled \/ SlotOf(ring, i) < ring.next
      <4>1. CASE ~ ring.filled
        BY <2>3, <2>4, <4>1 DEF SlotOf, RingLen, Slots
      <4> QED
        BY <4>1
    <3> QED
      BY <2>1, <2>2, <3>1 DEF Written
  <2>5. ASSUME RingLen(ring) > 0 PROVE Latest(ring) = seen[Len(seen)]
    BY <2>1, <2>5, LatestIsNewest DEF seen
  <2> QED
    BY <2>2, <2>4, <2>5 DEF ReadersAgree, seen
<1> QED
  BY <1>1

\* ring.go Len, Samples and Latest describe the same history, and no zero Sample
\* that NewRing allocated is ever returned.
THEOREM RingReadersAgree == RingSpec => []ReadersAgree
BY WrittenIsRead, RingInvariant, PTL

\* An empty ring is an empty window, and a sample that is added slides it.
LEMMA EmptyWindow == RingInit => Window!WindowInit
<1> SUFFICES ASSUME RingInit PROVE RingSamples(ring) = << >>
  BY DEF Window!WindowInit
<1>1. ring \in RingType /\ RingLen(ring) = 0
  BY CapacityAssumption DEF RingInit, NewRing, RingType, Slots, RingLen
<1>2. RingSamples(ring) \in Seq(Value) /\ Len(RingSamples(ring)) = 0
  BY <1>1, SamplesShape
<1> QED
  BY <1>2, EmptySeq

LEMMA WindowSlides ==
    ASSUME RingInv, (\E s \in Sample : AddSample(s)) \/ UNCHANGED ring
    PROVE  [Window!WindowNext]_(RingSamples(ring))
<1>1. ASSUME NEW s \in Sample, AddSample(s) PROVE Window!WindowNext
  <2>1. RingSamples(ring') = Pushed(RingSamples(ring), s)
    BY <1>1, AddSlides DEF RingInv, RingOK, AddSample
  <2> QED
    BY <2>1 DEF Window!WindowNext, Window!Record, Window!Pushed, Pushed
<1>2. CASE UNCHANGED ring
  BY <1>2 DEF RingSamples, Slice
<1> QED
  BY <1>1, <1>2

\* ring.go Add and Samples implement the sliding window of SampleWindow: for
\* every capacity and after any number of wraps, readers get the most recent
\* Capacity samples in the order they were added.
THEOREM RingImplementsWindow == RingSpec => ImplementsWindow
<1>1. RingInv /\ [RingNext]_ring => [Window!WindowNext]_(RingSamples(ring))
  BY WindowSlides DEF RingNext
<1> QED
  BY <1>1, EmptyWindow, RingInvariant, PTL DEF RingSpec, ImplementsWindow, Window!WindowSpec
=============================================================================
