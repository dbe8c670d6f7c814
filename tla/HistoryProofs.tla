---------------------------- MODULE HistoryProofs ----------------------------
(***************************************************************************)
(* A container's history from the kernel's files to the printed report, for *)
(* every ring capacity, ceiling, number of rows and sequence of readings: a *)
(* container without a limit is never given a ratio or a time to it, the    *)
(* trend is the least-squares line, the projection follows the growth, and  *)
(* the rows that are printed keep both ends and the busiest reading.        *)
(***************************************************************************)
EXTENDS History, RingProofs, WellFoundedInduction

\* The limit of a reading of a container, and the readings it may have.
LimitUnder(c) == IF c = Uncapped THEN Unlimited ELSE c

ReadingUnder(c) == [at : 0 .. MaxTime, current : 0 .. MaxBytes, limit : {LimitUnder(c)}]

ReadingsFit == \A i \in DOMAIN Readings : Readings[i] \in ReadingUnder(ceiling)

\* The clock never goes back from one reading to the next.
TimesInOrder == \A i \in 1 .. Len(Readings) - 1 : Readings[i].at <= Readings[i + 1].at

HistoryInv == RingInv /\ ceiling \in Limits \cup {Uncapped} /\ ReadingsFit /\ TimesInOrder

-----------------------------------------------------------------------------
\* cgroup.go ReadMemoryStats under either hierarchy: the ceiling as the kernel writes it
\* comes back as it is, and as the one sentinel when there is none.
LEMMA FilesAreRead ==
    ASSUME ceiling \in Limits \cup {Uncapped}, NEW version \in {"v1", "v2"},
           NEW current \in 0 .. MaxBytes
    PROVE  LET stats == ReadMemoryStats(version, Files(version, current, Missing)) IN
           stats.ok /\ stats.current = current /\ stats.limit = LimitUnder(ceiling)
<1> DEFINE files == Files(version, current, Missing)
<1>1. /\ files.current = current /\ files.peak = -1 /\ files.swap = -1 /\ files.failcnt = 0
      /\ files.limit = IF ceiling # Uncapped THEN ceiling
                       ELSE IF version = "v1" THEN PageCounterMax ELSE -3
  BY DEF Files, Missing, MaxWord
<1>2. /\ current \in Nat /\ PageCounterMax \in Nat /\ Unlimited \in Nat /\ Uncapped \notin Nat
      /\ ceiling # Uncapped => ceiling \in Nat /\ ceiling < PageCounterMax
  BY HistoryAssumption, MemoryFilesAssumption
<1>3. CASE version = "v1"
  <2>1. ReadMemoryStats(version, files) = ReadV1(files)
    BY <1>3 DEF ReadMemoryStats
  <2> HIDE DEF files
  <2>2. IsUint(files.current) /\ IsUint(files.limit) /\ Optional(files.peak) /\ Optional(files.failcnt)
    BY <1>1, <1>2, <1>3 DEF IsUint, Optional, Missing
  <2>3. NormaliseLimit(files.limit) = LimitUnder(ceiling)
    BY <1>1, <1>2, <1>3 DEF NormaliseLimit, LimitUnder
  <2>4. /\ ReadV1(files).ok /\ ReadV1(files).current = files.current
        /\ ReadV1(files).limit = NormaliseLimit(files.limit)
    BY <2>2 DEF ReadV1
  <2> QED
    BY <1>1, <2>1, <2>3, <2>4 DEF files
<1>4. CASE version = "v2"
  <2>1. ReadMemoryStats(version, files) = ReadV2(files)
    BY <1>4 DEF ReadMemoryStats
  <2> HIDE DEF files
  <2>2. IsUint(files.current) /\ IsLimit(files.limit) /\ Optional(files.peak) /\ Optional(files.swap)
    BY <1>1, <1>2, <1>4 DEF IsUint, IsLimit, Optional, Missing, MaxWord
  <2>3. LimitOf(files.limit) = LimitUnder(ceiling)
    <3>1. CASE ceiling = Uncapped
      BY <1>1, <1>4, <3>1 DEF LimitOf, LimitUnder, MaxWord
    <3>2. CASE ceiling # Uncapped
      <4>1. files.limit = ceiling /\ ceiling \in Nat /\ ceiling < PageCounterMax
        BY <1>1, <1>2, <3>2
      <4>2. files.limit # -3 /\ ~ (files.limit >= PageCounterMax)
        BY <1>2, <4>1
      <4> QED
        BY <3>2, <4>1, <4>2 DEF LimitOf, NormaliseLimit, LimitUnder, MaxWord
    <3> QED
      BY <3>1, <3>2
  <2>4. /\ ReadV2(files).ok /\ ReadV2(files).current = files.current
        /\ ReadV2(files).limit = LimitOf(files.limit)
    BY <2>2 DEF ReadV2
  <2> QED
    BY <1>1, <2>1, <2>3, <2>4 DEF files
<1> QED
  BY <1>3, <1>4

\* A peak that is there and no number makes the whole reading fail.
LEMMA CorruptIsRefused ==
    ASSUME NEW version \in {"v1", "v2"}, NEW current
    PROVE  ReadMemoryStats(version, Files(version, current, Corrupt)).ok = FALSE
<1>1. Files(version, current, Corrupt).peak = -2
  BY DEF Files, Corrupt
<1>2. ~ Optional(Files(version, current, Corrupt).peak)
  BY <1>1 DEF Optional, IsUint, Missing
<1> QED
  BY <1>2 DEF ReadMemoryStats, ReadV1, ReadV2, Failed

\* What a window holds was in it before, or has been added.
LEMMA PushedIs ==
    ASSUME NEW S, NEW w \in Seq(S), NEW s \in S
    PROVE  \A i \in DOMAIN Pushed(w, s) :
              Pushed(w, s)[i] = s \/ \E j \in DOMAIN w : Pushed(w, s)[i] = w[j]
<1>1. ASSUME NEW v \in Seq(S)
      PROVE  \A i \in DOMAIN Append(v, s) : Append(v, s)[i] = s \/ (i \in DOMAIN v /\ Append(v, s)[i] = v[i])
  BY AppendProperties
<1>2. CASE Len(w) < Capacity
  <2>1. Pushed(w, s) = Append(w, s)
    BY <1>2 DEF Pushed
  <2> QED
    BY <1>1, <2>1
<1>3. CASE ~ (Len(w) < Capacity)
  <2>1. Pushed(w, s) = Append(Tail(w), s)
    BY <1>3 DEF Pushed
  <2>2. w # << >>
    BY <1>3, CapacityAssumption
  <2>3. /\ Tail(w) \in Seq(S)
        /\ \A i \in DOMAIN Tail(w) : i + 1 \in DOMAIN w /\ Tail(w)[i] = w[i + 1]
    <3>1. /\ Tail(w) \in Seq(S) /\ Len(Tail(w)) = Len(w) - 1
          /\ \A i \in 1 .. Len(Tail(w)) : Tail(w)[i] = w[i + 1]
      BY <2>2, HeadTailProperties
    <3>2. Len(w) \in Nat /\ DOMAIN w = 1 .. Len(w) /\ DOMAIN Tail(w) = 1 .. Len(Tail(w))
      BY <3>1
    <3> QED
      BY <3>1, <3>2
  <2> QED
    BY <1>1, <2>1, <2>3
<1> QED
  BY <1>2, <1>3

\* Its neighbours were neighbours in it before, but for the last, followed by the new one.
LEMMA PushedAfter ==
    ASSUME NEW S, NEW w \in Seq(S), NEW s \in S
    PROVE  \A i \in 1 .. Len(Pushed(w, s)) - 1 :
              \/ \E j \in 1 .. Len(w) - 1 : Pushed(w, s)[i] = w[j] /\ Pushed(w, s)[i + 1] = w[j + 1]
              \/ Len(w) > 0 /\ Pushed(w, s)[i] = w[Len(w)] /\ Pushed(w, s)[i + 1] = s
<1>1. ASSUME NEW v \in Seq(S)
      PROVE  /\ Len(Append(v, s)) = Len(v) + 1 /\ Len(v) \in Nat /\ Append(v, s)[Len(v) + 1] = s
             /\ \A i \in 1 .. Len(v) : Append(v, s)[i] = v[i]
  BY AppendProperties
<1>2. CASE Len(w) < Capacity
  <2>1. Pushed(w, s) = Append(w, s)
    BY <1>2 DEF Pushed
  <2>2. ASSUME NEW i \in 1 .. Len(w)
        PROVE  \/ \E j \in 1 .. Len(w) - 1 : Append(w, s)[i] = w[j] /\ Append(w, s)[i + 1] = w[j + 1]
               \/ Len(w) > 0 /\ Append(w, s)[i] = w[Len(w)] /\ Append(w, s)[i + 1] = s
    <3>1. CASE i = Len(w)
      BY <1>1, <3>1
    <3>2. CASE i # Len(w)
      <4>1. i \in 1 .. Len(w) - 1 /\ i + 1 \in 1 .. Len(w)
        BY <1>1, <3>2
      <4> QED
        BY <1>1, <4>1
    <3> QED
      BY <3>1, <3>2
  <2> QED
    BY <1>1, <2>1, <2>2
<1>3. CASE ~ (Len(w) < Capacity)
  <2>1. Pushed(w, s) = Append(Tail(w), s)
    BY <1>3 DEF Pushed
  <2>2. w # << >>
    BY <1>3, CapacityAssumption
  <2>3. PICK v \in Seq(S) : /\ v = Tail(w) /\ Len(v) = Len(w) - 1 /\ Len(w) \in Nat
                            /\ \A i \in 1 .. Len(v) : v[i] = w[i + 1]
    <3>1. /\ Tail(w) \in Seq(S) /\ Len(Tail(w)) = Len(w) - 1
          /\ \A i \in 1 .. Len(Tail(w)) : Tail(w)[i] = w[i + 1]
      BY <2>2, HeadTailProperties
    <3>2. Len(w) \in Nat
      OBVIOUS
    <3> QED
      BY <3>1, <3>2
  <2>4. ASSUME NEW i \in 1 .. Len(v)
        PROVE  \/ \E j \in 1 .. Len(w) - 1 : Append(v, s)[i] = w[j] /\ Append(v, s)[i + 1] = w[j + 1]
               \/ Len(w) > 0 /\ Append(v, s)[i] = w[Len(w)] /\ Append(v, s)[i + 1] = s
    <3>1. Append(v, s)[i] = w[i + 1] /\ Append(v, s)[Len(v) + 1] = s /\ Len(v) \in Nat
      BY <1>1, <2>3
    <3>2. CASE i = Len(v)
      BY <2>3, <3>1, <3>2
    <3>3. CASE i # Len(v)
      <4>1. i + 1 \in 1 .. Len(v)
        BY <3>1, <3>3
      <4>2. Append(v, s)[i + 1] = w[(i + 1) + 1]
        BY <1>1, <2>3, <4>1
      <4>3. i + 1 \in 1 .. Len(w) - 1
        BY <2>3, <4>1
      <4> QED
        BY <3>1, <4>2, <4>3
    <3> QED
      BY <3>2, <3>3
  <2>5. Pushed(w, s) = Append(v, s) /\ Len(Append(v, s)) - 1 = Len(v)
    BY <1>1, <2>1, <2>3
  <2> QED
    BY <2>4, <2>5
<1> QED
  BY <1>2, <1>3

LEMMA HistoryInitOK == HistoryInit => HistoryInv
<1> SUFFICES ASSUME HistoryInit PROVE HistoryInv
  OBVIOUS
<1>1. RingInv
  BY RingInitOK DEF HistoryInit
<1>2. RingLen(ring) = 0 /\ ring \in RingType
  BY <1>1 DEF HistoryInit, RingInit, NewRing, RingLen, RingInv, RingOK
<1>3. Readings \in Seq(Value) /\ Len(Readings) = 0
  BY <1>2, SamplesShape DEF Readings
<1> QED
  BY <1>1, <1>3 DEF HistoryInit, HistoryInv, ReadingsFit, TimesInOrder

\* sampler.go sampleOne: a reading that succeeds joins the others, one that fails does not.
LEMMA RecordOK ==
    ASSUME HistoryInv, NEW version \in {"v1", "v2"}, NEW current \in 0 .. MaxBytes,
           NEW gap \in 0 .. MaxGap, NEW peak \in {Missing, Corrupt},
           Record(Files(version, current, peak), version, gap)
    PROVE  HistoryInv' /\ ((\E s \in Sample : AddSample(s)) \/ UNCHANGED ring)
<1> USE DEF HistoryInv
<1>1. NextTime(gap) <= MaxTime /\ ceiling' = ceiling
  BY DEF Record
<1>2. CASE peak = Corrupt
  <2>1. ring' = ring
    BY <1>2, CorruptIsRefused DEF Record
  <2> QED
    BY <1>1, <2>1 DEF RingInv, ReadingsFit, TimesInOrder, Readings
<1>3. CASE peak = Missing
  <2>1. PICK s : s = [at |-> NextTime(gap), current |-> current, limit |-> LimitUnder(ceiling)]
    OBVIOUS
  <2>2. AddSample(s)
    BY <1>3, <2>1, FilesAreRead DEF Record
  <2>3. NextTime(gap) \in 0 .. MaxTime
    <3>1. CASE RingLen(ring) = 0
      BY <3>1, HistoryAssumption DEF NextTime
    <3>2. CASE RingLen(ring) # 0
      <4>1. ring \in RingType /\ RingLen(ring) > 0
        BY <3>2, SamplesShape DEF RingInv, RingOK
      <4>2. /\ Latest(ring) = Readings[Len(Readings)]
            /\ Len(Readings) \in DOMAIN Readings
        BY <4>1, LatestIsNewest, SamplesShape DEF Readings
      <4>3. Latest(ring).at \in 0 .. MaxTime
        BY <4>2 DEF ReadingsFit, ReadingUnder
      <4>4. NextTime(gap) = Latest(ring).at + gap
        BY <3>2 DEF NextTime
      <4> QED
        BY <1>1, <4>3, <4>4, HistoryAssumption
    <3> QED
      BY <3>1, <3>2
  <2>4. s \in ReadingUnder(ceiling)
    BY <2>1, <2>3 DEF ReadingUnder
  <2>5. s \in Sample
    <3>1. LimitUnder(ceiling) \in Limits \cup {Unlimited}
      BY DEF LimitUnder
    <3> QED
      BY <2>1, <2>3, <3>1, HistoryAssumption
  <2>6. RingInv'
    BY <2>2, <2>5, AddOK DEF RingInv, AddSample
  <2>7. Readings' = Pushed(Readings, s) /\ Readings \in Seq(Value) /\ s \in Value
    BY <2>2, <2>5, AddSlides, SamplesShape DEF AddSample, Readings, RingInv, RingOK, Value
  <2>8. \A i \in DOMAIN Readings' : Readings'[i] \in ReadingUnder(ceiling)
    BY <2>4, <2>7, PushedIs DEF ReadingsFit
  <2>9. PICK w, after : w \in Seq(Value) /\ w = Readings /\ after = Readings' /\ after = Pushed(w, s)
    BY <2>7
  <2>10. \A i \in 1 .. Len(after) - 1 : after[i].at <= after[i + 1].at
    <3> SUFFICES ASSUME NEW i \in 1 .. Len(after) - 1 PROVE after[i].at <= after[i + 1].at
      OBVIOUS
    <3>1. CASE \E j \in 1 .. Len(w) - 1 : after[i] = w[j] /\ after[i + 1] = w[j + 1]
      BY <2>9, <3>1 DEF TimesInOrder
    <3>2. CASE Len(w) > 0 /\ after[i] = w[Len(w)] /\ after[i + 1] = s
      <4>1. Len(w) = RingLen(ring) /\ ring \in RingType /\ RingLen(ring) > 0
        BY <2>9, <3>2, SamplesShape DEF RingInv, RingOK, Readings
      <4>2. Latest(ring) = w[Len(w)] /\ Len(w) \in DOMAIN w
        BY <2>9, <4>1, LatestIsNewest DEF Readings
      <4>3. w[Len(w)].at \in 0 .. MaxTime /\ s.at = w[Len(w)].at + gap
        BY <2>1, <2>9, <4>1, <4>2 DEF NextTime, ReadingsFit, ReadingUnder
      <4> QED
        BY <3>2, <4>3, HistoryAssumption
    <3>3. \A k \in 1 .. Len(Pushed(w, s)) - 1 :
             \/ \E j \in 1 .. Len(w) - 1 : Pushed(w, s)[k] = w[j] /\ Pushed(w, s)[k + 1] = w[j + 1]
             \/ Len(w) > 0 /\ Pushed(w, s)[k] = w[Len(w)] /\ Pushed(w, s)[k + 1] = s
      <4>1. w \in Seq(Value) /\ s \in Value
        BY <2>7, <2>9
      <4> HIDE DEF HistoryInv
      <4> QED
        BY <4>1, PushedAfter
    <3>4. after = Pushed(w, s)
      BY <2>9
    <3>5. \/ \E j \in 1 .. Len(w) - 1 : after[i] = w[j] /\ after[i + 1] = w[j + 1]
          \/ Len(w) > 0 /\ after[i] = w[Len(w)] /\ after[i + 1] = s
      <4> HIDE DEF HistoryInv
      <4> QED
        BY <3>3, <3>4
    <3> HIDE DEF HistoryInv
    <3> QED
      BY <3>1, <3>2, <3>5
  <2>11. TimesInOrder'
    BY <2>9, <2>10 DEF TimesInOrder
  <2> QED
    BY <1>1, <2>2, <2>5, <2>6, <2>8, <2>11 DEF ReadingsFit, ReadingUnder, LimitUnder
<1> QED
  BY <1>2, <1>3

LEMMA HistoryNextOK ==
    ASSUME HistoryInv, [HistoryNext]_<<ring, ceiling>>
    PROVE  HistoryInv' /\ ((\E s \in Sample : AddSample(s)) \/ UNCHANGED ring)
<1>1. CASE HistoryNext
  <2>1. PICK version \in {"v1", "v2"} :
          \/ Record(Files(version, 0, Corrupt), version, 0)
          \/ \E current \in 0 .. MaxBytes, gap \in 0 .. MaxGap :
                Record(Files(version, current, Missing), version, gap)
    BY <1>1 DEF HistoryNext
  <2>2. 0 \in 0 .. MaxBytes /\ 0 \in 0 .. MaxGap
    BY HistoryAssumption
  <2> QED
    BY <2>1, <2>2, RecordOK
<1>2. CASE UNCHANGED <<ring, ceiling>>
  BY <1>2 DEF HistoryInv, RingInv, ReadingsFit, TimesInOrder, Readings
<1> QED
  BY <1>1, <1>2

LEMMA HistoryInvariant == HistorySpec => []HistoryInv
<1>1. HistoryInv /\ [HistoryNext]_<<ring, ceiling>> => HistoryInv'
  BY HistoryNextOK
<1> QED
  BY <1>1, HistoryInitOK, PTL DEF HistorySpec

\* ring.go under the readings of a container: what Samples, Len and Latest tell agrees.
THEOREM HistoryReadersAgree == HistorySpec => []ReadersAgree
<1>1. HistoryInv => ReadersAgree
  BY WrittenIsRead DEF HistoryInv
<1> QED
  BY <1>1, HistoryInvariant, PTL

\* sampler.go record and ring.go: a container's history is the last Capacity readings that
\* succeeded, in the order they were taken, whatever readings fail in between.
THEOREM HistoryImplementsWindow == HistorySpec => ImplementsWindow
<1>1. HistoryInit => Window!WindowInit
  BY EmptyWindow DEF HistoryInit
<1>2. HistoryInv /\ [HistoryNext]_<<ring, ceiling>> => [Window!WindowNext]_(RingSamples(ring))
  BY HistoryNextOK, WindowSlides DEF HistoryInv
<1> QED
  BY <1>1, <1>2, HistoryInvariant, PTL DEF HistorySpec, ImplementsWindow, Window!WindowSpec

\* The points of the report, one for each reading.
LEMMA PointsAre ==
    ASSUME HistoryInv
    PROVE  /\ Readings \in Seq(Value) /\ Len(Readings) \in Nat
           /\ DOMAIN Readings = 1 .. Len(Readings)
           /\ DOMAIN TrajectoryFrom(Readings) = 1 .. Len(Readings)
           /\ \A i \in 1 .. Len(Readings) :
                 /\ Readings[i].current \in 0 .. MaxBytes
                 /\ Readings[i].limit = LimitUnder(ceiling)
                 /\ TrajectoryFrom(Readings)[i].used = Readings[i].current
                 /\ TrajectoryFrom(Readings)[i].limit = ShownLimit(LimitUnder(ceiling))
                 /\ TrajectoryFrom(Readings)[i].ratio = UsageRatio(Readings[i])
<1>1. Readings \in Seq(Value)
  BY SamplesShape DEF HistoryInv, RingInv, RingOK, Readings
<1>2. \A i \in 1 .. Len(Readings) :
         Readings[i].current \in 0 .. MaxBytes /\ Readings[i].limit = LimitUnder(ceiling)
  BY <1>1 DEF HistoryInv, ReadingsFit, ReadingUnder
<1> QED
  BY <1>1, <1>2 DEF TrajectoryFrom

\* cgroup.go normaliseLimit, report.go TrajectoryFrom, trend.go: no sentinel of either
\* hierarchy is taken for a ceiling, by the report, its ratios or the projection; and a
\* ceiling gives the ratio of the use to it, one only when it is reached.
THEOREM HistoryNoCeilingNoRatio == HistorySpec => []NoCeilingNoRatio
<1>1. ASSUME HistoryInv PROVE NoCeilingNoRatio
  <2>1. /\ Unlimited \in Nat /\ Unlimited > 0 /\ Uncapped \notin Nat
        /\ ceiling # Uncapped => ceiling \in Nat /\ ceiling > 0 /\ ceiling < Unlimited
    BY <1>1, HistoryAssumption, MemoryFilesAssumption DEF HistoryInv
  <2>2. ASSUME ceiling = Uncapped, Readings # << >> PROVE ~ Projected(Readings)
    <3>1. Len(Readings) \in 1 .. Len(Readings)
      BY <1>1, <2>2, PointsAre
    <3>2. Readings[Len(Readings)].limit = Unlimited
      BY <1>1, <2>2, <3>1, PointsAre DEF LimitUnder
    <3> QED
      BY <3>2 DEF Projected, Capped
  <2>3. ASSUME NEW i \in 1 .. Len(Readings)
        PROVE  LET point == TrajectoryFrom(Readings)[i] IN
               IF ceiling = Uncapped THEN point.limit = 0 /\ point.ratio[1] = 0
               ELSE /\ point.limit = ceiling /\ point.ratio[1] <= point.ratio[2]
                    /\ point.ratio[1] = point.ratio[2] <=> point.used >= ceiling
    <3>1. PICK used \in Nat : used = Readings[i].current
      BY <1>1, PointsAre, HistoryAssumption
    <3>2. /\ TrajectoryFrom(Readings)[i].used = used
          /\ TrajectoryFrom(Readings)[i].limit = ShownLimit(LimitUnder(ceiling))
          /\ TrajectoryFrom(Readings)[i].ratio =
                IF LimitUnder(ceiling) \in {0, Unlimited} THEN <<0, 1>>
                ELSE IF used > LimitUnder(ceiling) THEN <<1, 1>> ELSE <<used, LimitUnder(ceiling)>>
      BY <1>1, <3>1, PointsAre DEF UsageRatio
    <3>3. CASE ceiling = Uncapped
      BY <3>2, <3>3 DEF LimitUnder, ShownLimit
    <3>4. CASE ceiling # Uncapped
      BY <2>1, <3>1, <3>2, <3>4 DEF LimitUnder, ShownLimit
    <3> QED
      BY <3>3, <3>4
  <2> QED
    BY <1>1, <2>2, <2>3, PointsAre DEF NoCeilingNoRatio
<1> QED
  BY <1>1, HistoryInvariant, PTL

-----------------------------------------------------------------------------
\* The rows that text.go prints.
LEMMA LeastExists ==
    ASSUME NEW T, T \subseteq Nat, T # {}
    PROVE  \E least \in T : \A i \in T : least <= i
<1>1. PICK least \in T : \A i \in T : ~ (<<i, least>> \in OpToRel(<, Nat))
  BY NatLessThanWellFounded, WFMin
<1>2. \A i \in T : ~ (i < least)
  BY <1>1 DEF OpToRel
<1> QED
  BY <1>2

\* The busiest reading: there is one, and none is busier.
LEMMA BusiestIs ==
    ASSUME NEW points, NEW n \in Nat \ {0}, DOMAIN points = 1 .. n,
           \A i \in 1 .. n : points[i].used \in 0 .. MaxBytes
    PROVE  /\ Busiest(points) \in 1 .. n
           /\ \A i \in 1 .. n : points[i].used <= points[Busiest(points)].used
<1> DEFINE Spare(i) == MaxBytes - points[i].used
           Best(i) == \A j \in DOMAIN points :
              points[j].used < points[i].used \/ (points[j].used = points[i].used /\ i <= j)
<1>1. \A i \in 1 .. n : Spare(i) \in Nat /\ points[i].used = MaxBytes - Spare(i) /\ points[i].used \in Nat
  BY HistoryAssumption
<1>2. PICK least \in {Spare(i) : i \in 1 .. n} : \A k \in {Spare(i) : i \in 1 .. n} : least <= k
  <2>1. {Spare(i) : i \in 1 .. n} \subseteq Nat
    BY <1>1
  <2>2. 1 \in 1 .. n
    OBVIOUS
  <2>3. {Spare(i) : i \in 1 .. n} # {}
    BY <2>2
  <2> HIDE DEF Spare
  <2> QED
    BY <2>1, <2>3, LeastExists
<1>3. PICK first \in {i \in 1 .. n : Spare(i) = least} :
         \A k \in {i \in 1 .. n : Spare(i) = least} : first <= k
  <2>1. {i \in 1 .. n : Spare(i) = least} # {} /\ {i \in 1 .. n : Spare(i) = least} \subseteq Nat
    BY <1>2
  <2> HIDE DEF Spare
  <2> QED
    BY <2>1, LeastExists
<1>4. first \in 1 .. n /\ Best(first)
  <2>1. first \in 1 .. n /\ Spare(first) = least
    BY <1>3
  <2>2. ASSUME NEW j \in 1 .. n
        PROVE  points[j].used < points[first].used \/ (points[j].used = points[first].used /\ first <= j)
    <3>1. least <= Spare(j)
      BY <1>2
    <3>2. Spare(j) = least => first <= j
      BY <1>3
    <3>3. /\ Spare(j) \in Nat /\ least \in Nat /\ MaxBytes \in Nat
          /\ points[j].used = MaxBytes - Spare(j) /\ points[first].used = MaxBytes - least
      BY <1>1, <2>1, HistoryAssumption
    <3> HIDE DEF Spare
    <3> QED
      BY <3>1, <3>2, <3>3
  <2> QED
    BY <2>1, <2>2
<1>5. Busiest(points) \in 1 .. n /\ Best(Busiest(points))
  <2>1. Busiest(points) = CHOOSE i \in 1 .. n : Best(i)
    BY DEF Busiest
  <2> HIDE DEF Best
  <2> QED
    BY <1>4, <2>1
<1>6. PICK busiest : busiest = Busiest(points)
  OBVIOUS
<1>7. ASSUME NEW i \in 1 .. n PROVE points[i].used <= points[busiest].used
  <2>1. points[i].used < points[busiest].used \/ points[i].used = points[busiest].used
    BY <1>5, <1>6
  <2>2. points[i].used \in Nat /\ points[busiest].used \in Nat
    BY <1>1, <1>5, <1>6
  <2> QED
    BY <2>1, <2>2
<1> QED
  BY <1>5, <1>6, <1>7

\* slices.Sort: what it returns when no two are the same.
LEMMA SortedIs ==
    ASSUME NEW R \in Nat, NEW rows \in [1 .. R -> Nat],
           \A a, b \in 1 .. R : a < b => rows[a] < rows[b]
    PROVE  /\ DOMAIN Sorted(rows) = 1 .. R
           /\ \A a \in 1 .. R : \E b \in 1 .. R : Sorted(rows)[a] = rows[b]
           /\ \A b \in 1 .. R : \E a \in 1 .. R : Sorted(rows)[a] = rows[b]
           /\ \A a, b \in 1 .. R : a < b => Sorted(rows)[a] < Sorted(rows)[b]
<1> DEFINE D == 1 .. R
           Orders(p) == \A a, b \in D : a < b => rows[p[a]] <= rows[p[b]]
           order == CHOOSE p \in Bijection(D, D) : Orders(p)
<1>1. DOMAIN rows = D
  OBVIOUS
<1>2. Sorted(rows) = [row \in D |-> rows[order[row]]]
  BY <1>1 DEF Sorted
<1>3. \E p \in Bijection(D, D) : Orders(p)
  <2>1. PICK same : same = [a \in D |-> a]
    OBVIOUS
  <2>2. same \in Bijection(D, D)
    BY <2>1 DEF Bijection, Injection, Surjection, IsInjective
  <2>3. Orders(same)
    BY <2>1
  <2> QED
    BY <2>2, <2>3
<1>4. order \in Bijection(D, D) /\ Orders(order)
  <2> HIDE DEF Orders
  <2> QED
    BY <1>3
<1> HIDE DEF order
<1>5. /\ \A a \in D : order[a] \in D
      /\ \A a, b \in D : order[a] = order[b] => a = b
      /\ \A b \in D : \E a \in D : order[a] = b
  BY <1>4 DEF Bijection, Injection, Surjection, IsInjective
<1>6. ASSUME NEW a \in D, NEW b \in D, a < b PROVE rows[order[a]] < rows[order[b]]
  <2>1. rows[order[a]] <= rows[order[b]] /\ order[a] # order[b]
    BY <1>4, <1>5, <1>6
  <2>2. PICK k \in D, l \in D : k = order[a] /\ l = order[b]
    BY <1>5
  <2>3. rows[k] # rows[l] /\ rows[k] \in Nat /\ rows[l] \in Nat
    BY <2>1, <2>2
  <2> QED
    BY <2>1, <2>2, <2>3
<1>7. \A a \in D : Sorted(rows)[a] = rows[order[a]]
  BY <1>2
<1> HIDE DEF D
<1>8. DOMAIN Sorted(rows) = D
  BY <1>2
<1>9. \A a \in D : \E b \in D : Sorted(rows)[a] = rows[b]
  BY <1>5, <1>7
<1>10. ASSUME NEW b \in D PROVE \E a \in D : Sorted(rows)[a] = rows[b]
  <2>1. PICK a \in D : order[a] = b
    BY <1>5
  <2> QED
    BY <1>7, <2>1
<1>11. \A a, b \in D : a < b => Sorted(rows)[a] < Sorted(rows)[b]
  BY <1>6, <1>7
<1> QED
  BY <1>8, <1>9, <1>10, <1>11 DEF D

\* The nearest row: there is one, and none is nearer.
LEMMA NearestIs ==
    ASSUME NEW R \in Nat \ {0}, NEW rows \in [1 .. R -> Nat], NEW reading \in Nat
    PROVE  /\ NearestRow(rows, reading) \in 1 .. R
           /\ \A other \in 1 .. R :
                 Distance(rows[NearestRow(rows, reading)], reading) <= Distance(rows[other], reading)
<1> DEFINE Far(row) == Distance(rows[row], reading)
           Best(row) == \A other \in DOMAIN rows :
              \/ Distance(rows[row], reading) < Distance(rows[other], reading)
              \/ Distance(rows[row], reading) = Distance(rows[other], reading) /\ row <= other
<1>1. \A row \in 1 .. R : Far(row) \in Nat
  BY DEF Distance
<1>2. PICK least \in {Far(row) : row \in 1 .. R} : \A k \in {Far(row) : row \in 1 .. R} : least <= k
  <2>1. {Far(row) : row \in 1 .. R} \subseteq Nat /\ 1 \in 1 .. R
    BY <1>1
  <2>2. {Far(row) : row \in 1 .. R} # {}
    BY <2>1
  <2> HIDE DEF Far
  <2> QED
    BY <2>1, <2>2, LeastExists
<1>3. PICK first \in {row \in 1 .. R : Far(row) = least} :
         \A k \in {row \in 1 .. R : Far(row) = least} : first <= k
  <2>1. {row \in 1 .. R : Far(row) = least} # {} /\ {row \in 1 .. R : Far(row) = least} \subseteq Nat
    BY <1>2
  <2> HIDE DEF Far
  <2> QED
    BY <2>1, LeastExists
<1>4. first \in 1 .. R /\ Best(first)
  <2>1. first \in 1 .. R /\ Far(first) = least
    BY <1>3
  <2>2. ASSUME NEW other \in 1 .. R PROVE Far(first) < Far(other) \/ (Far(first) = Far(other) /\ first <= other)
    <3>1. least <= Far(other) /\ (Far(other) = least => first <= other)
      BY <1>2, <1>3
    <3>2. Far(other) \in Nat /\ least \in Nat
      BY <1>1, <2>1
    <3> HIDE DEF Far
    <3> QED
      BY <2>1, <3>1, <3>2
  <2> QED
    BY <2>1, <2>2
<1>5. NearestRow(rows, reading) \in 1 .. R /\ Best(NearestRow(rows, reading))
  <2>1. NearestRow(rows, reading) = CHOOSE row \in 1 .. R : Best(row)
    BY DEF NearestRow
  <2> HIDE DEF Best
  <2> QED
    BY <1>4, <2>1
<1> QED
  BY <1>1, <1>5

\* The evenly spaced readings are distinct when there are more readings than rows, and the
\* first and the last are among them.
LEMMA Multiplied ==
    ASSUME NEW a \in Nat, NEW b \in Nat, NEW m \in Nat, a < b
    PROVE  a * m \in Nat /\ b * m \in Nat /\ a * m + m <= b * m
<1>1. PICK d \in Nat : b = a + 1 + d
  <2>1. b - a - 1 \in Nat /\ b = a + 1 + (b - a - 1)
    OBVIOUS
  <2> QED
    BY <2>1
<1>2. b * m = a * m + m + d * m
  BY <1>1
<1>3. a * m \in Nat /\ d * m \in Nat
  OBVIOUS
<1> QED
  BY <1>2, <1>3

LEMMA Divided ==
    ASSUME NEW x \in Nat, NEW y \in Nat, NEW r \in Nat \ {0}, x + r <= y
    PROVE  x \div r \in Nat /\ y \div r \in Nat /\ x \div r < y \div r
OBVIOUS

LEMMA EvenRowsAre ==
    ASSUME NEW n \in Nat, n > RowLimit
    PROVE  /\ EvenRows(n) \in [1 .. RowLimit -> 1 .. n]
           /\ EvenRows(n)[1] = 1 /\ EvenRows(n)[RowLimit] = n
           /\ \A a, b \in 1 .. RowLimit : a < b => EvenRows(n)[a] < EvenRows(n)[b]
<1>1. PICK R \in Nat, m \in Nat, r \in Nat \ {0} : R = RowLimit /\ m = n - 1 /\ r = RowLimit - 1
  BY RowLimitAssumption
<1> DEFINE Part(row) == ((row - 1) * m) \div r
<1>2. \A row \in 1 .. R : EvenRows(n)[row] = 1 + Part(row)
  BY <1>1 DEF EvenRows
<1>3. ASSUME NEW a \in 1 .. R, NEW b \in 1 .. R, a < b
      PROVE  Part(a) \in Nat /\ Part(b) \in Nat /\ Part(a) < Part(b)
  <2>1. PICK x \in Nat, y \in Nat : x = a - 1 /\ y = b - 1 /\ x < y
    BY <1>3
  <2>2. x * m \in Nat /\ y * m \in Nat /\ x * m + m <= y * m
    BY <2>1, Multiplied
  <2>3. x * m + r <= y * m
    BY <1>1, <2>2
  <2> QED
    BY <2>1, <2>2, <2>3, Divided
<1>4. Part(1) = 0
  <2>1. (1 - 1) * m = 0 /\ 0 \div r = 0
    OBVIOUS
  <2> QED
    BY <2>1
<1>5. Part(R) = m
  <2>1. R - 1 = r
    BY <1>1
  <2>2. (r * m) \div r = m
    OBVIOUS
  <2> QED
    BY <2>1, <2>2
<1> HIDE DEF Part
<1>6. 1 \in 1 .. R /\ R \in 1 .. R /\ R >= 3
  BY <1>1, RowLimitAssumption
<1>7. ASSUME NEW row \in 1 .. R PROVE Part(row) \in 0 .. m
  <2>1. CASE row = 1
    BY <1>4, <2>1
  <2>2. CASE row = R
    BY <1>5, <2>2
  <2>3. CASE row # 1 /\ row # R
    BY <1>3, <1>4, <1>5, <1>6, <2>3
  <2> QED
    BY <2>1, <2>2, <2>3
<1>8. \A row \in 1 .. R : EvenRows(n)[row] \in 1 .. n
  BY <1>1, <1>2, <1>7
<1>9. EvenRows(n)[1] = 1 /\ EvenRows(n)[R] = n
  BY <1>1, <1>2, <1>4, <1>5, <1>6
<1>10. \A a, b \in 1 .. R : a < b => EvenRows(n)[a] < EvenRows(n)[b]
  BY <1>2, <1>3
<1>11. EvenRows(n) = [row \in 1 .. R |-> EvenRows(n)[row]]
  BY <1>1 DEF EvenRows
<1> QED
  BY <1>1, <1>8, <1>9, <1>10, <1>11

\* The row that the busiest reading displaces is never an end, and its neighbours stay on
\* either side of it.
LEMMA DisplacedIs ==
    ASSUME NEW n \in Nat, NEW rows \in [1 .. RowLimit -> 1 .. n], NEW peak \in 1 .. n,
           \A row \in 1 .. RowLimit : rows[row] # peak,
           rows[1] = 1, rows[RowLimit] = n,
           \A a, b \in 1 .. RowLimit : a < b => rows[a] < rows[b]
    PROVE  \E d \in 2 .. RowLimit - 1 :
              /\ d = Displaced(rows, peak)
              /\ \A a \in 1 .. RowLimit : (a < d => rows[a] < peak) /\ (a > d => peak < rows[a])
<1> DEFINE near == NearestRow(rows, peak)
<1>1. PICK R \in Nat : R = RowLimit /\ R >= 3
  BY RowLimitAssumption
<1>2. /\ near \in 1 .. R
      /\ \A other \in 1 .. R : Distance(rows[near], peak) <= Distance(rows[other], peak)
  <2>1. R \in Nat \ {0} /\ rows \in [1 .. R -> Nat] /\ peak \in Nat
    BY <1>1
  <2> QED
    BY <2>1, NearestIs
<1>3. Len(rows) = R
  BY <1>1
<1>4. Displaced(rows, peak) = IF near = 1 THEN 2 ELSE IF near = R THEN R - 1 ELSE near
  BY <1>3 DEF Displaced
<1> HIDE DEF near
<1>5. \A row \in 1 .. R : rows[row] \in Nat /\ rows[row] # peak /\ peak \in Nat
  BY <1>1
\* What lies before the nearest row is smaller, and what lies after it greater.
<1>6. \A a \in 1 .. R : (a < near => rows[a] < peak) /\ (a > near => peak < rows[a])
  <2> SUFFICES ASSUME NEW a \in 1 .. R
               PROVE  (a < near => rows[a] < peak) /\ (a > near => peak < rows[a])
    OBVIOUS
  <2>1. Distance(rows[near], peak) <= Distance(rows[a], peak)
    BY <1>2
  <2>2. PICK p \in Nat, x \in Nat, y \in Nat : p = peak /\ x = rows[near] /\ y = rows[a] /\ x # p /\ y # p
    BY <1>2, <1>5
  <2>3. (IF x < p THEN p - x ELSE x - p) <= (IF y < p THEN p - y ELSE y - p)
    BY <2>1, <2>2 DEF Distance
  <2>4. (a < near => y < x) /\ (a > near => x < y)
    BY <1>1, <1>2, <2>2
  <2> QED
    BY <2>2, <2>3, <2>4
<1>7. 1 < peak /\ peak < n
  <2>1. rows[1] # peak /\ rows[R] # peak
    BY <1>1, <1>5
  <2> QED
    BY <1>1, <2>1
<1>8. CASE near = 1
  <2>1. Displaced(rows, peak) = 2
    BY <1>4, <1>8
  <2>2. \A a \in 1 .. R : a < 2 => a = 1
    OBVIOUS
  <2> QED
    BY <1>1, <1>6, <1>7, <1>8, <2>1, <2>2
<1>9. CASE near = R
  <2>1. Displaced(rows, peak) = R - 1
    BY <1>1, <1>4, <1>9
  <2>2. \A a \in 1 .. R : a > R - 1 => a = R
    BY <1>1
  <2> QED
    BY <1>1, <1>6, <1>7, <1>9, <2>1, <2>2
<1>10. CASE near # 1 /\ near # R
  BY <1>1, <1>2, <1>4, <1>6, <1>10
<1> QED
  BY <1>8, <1>9, <1>10

\* text.go trajectoryRows: however many readings there are and whichever is the busiest, the
\* rows are distinct readings in order, and the busiest costs neither end of the window.
THEOREM HistoryRowsTellTheStory == HistorySpec => []RowsTellTheStory
<1>1. ASSUME HistoryInv PROVE RowsTellTheStory
  <2> DEFINE points == TrajectoryFrom(Readings)
  <2>1. PICK n \in Nat : n = Len(Readings)
    BY <1>1, PointsAre
  <2>2. DOMAIN points = 1 .. n /\ \A i \in 1 .. n : points[i].used \in 0 .. MaxBytes
    BY <1>1, <2>1, PointsAre
  <2>3. PICK rows : rows = TrajectoryRows(points)
    OBVIOUS
  <2> HIDE DEF points
  <2>4. points = [i \in 1 .. n |-> points[i]]
    BY <2>2 DEF points, TrajectoryFrom
  <2>5. Len(points) = n
    BY <2>4
  <2> SUFFICES ASSUME n > 0
               PROVE  /\ Len(rows) = (IF n < RowLimit THEN n ELSE RowLimit)
                      /\ rows[1] = 1 /\ rows[Len(rows)] = n
                      /\ \A row \in 1 .. Len(rows) - 1 : rows[row] < rows[row + 1]
                      /\ \E row \in DOMAIN rows : \A i \in 1 .. n : points[i].used <= points[rows[row]].used
    BY <2>2, <2>3, <2>5 DEF RowsTellTheStory, points
  <2>6. PICK peak \in 1 .. n : peak = Busiest(points) /\ \A i \in 1 .. n : points[i].used <= points[peak].used
    BY <2>2, BusiestIs
  <2>7. PICK R \in Nat : R = RowLimit /\ R >= 3
    BY RowLimitAssumption
  <2>8. CASE n <= R
    <3>1. rows = [i \in 1 .. n |-> i]
      BY <2>2, <2>3, <2>5, <2>7, <2>8 DEF TrajectoryRows
    <3>2. Len(rows) = n /\ DOMAIN rows = 1 .. n
      BY <3>1
    <3> QED
      BY <2>6, <2>7, <2>8, <3>1, <3>2
  <2>9. CASE n > R
    <3>1. PICK even \in [1 .. R -> 1 .. n] :
             /\ even = EvenRows(n) /\ even[1] = 1 /\ even[R] = n
             /\ \A a, b \in 1 .. R : a < b => even[a] < even[b]
      BY <2>7, <2>9, EvenRowsAre
    <3>2. PICK kept : kept = IF \E row \in DOMAIN even : even[row] = peak THEN even
                             ELSE [even EXCEPT ![Displaced(even, peak)] = peak]
      OBVIOUS
    <3>3. rows = Sorted(kept)
      BY <2>3, <2>5, <2>6, <2>7, <2>9, <3>1, <3>2 DEF TrajectoryRows
    <3>4. /\ kept \in [1 .. R -> 1 .. n] /\ kept[1] = 1 /\ kept[R] = n
          /\ \A a, b \in 1 .. R : a < b => kept[a] < kept[b]
          /\ \E a \in 1 .. R : kept[a] = peak
      <4>1. CASE \E row \in 1 .. R : even[row] = peak
        BY <3>1, <3>2, <4>1
      <4>2. CASE \A row \in 1 .. R : even[row] # peak
        <5>1. PICK d \in 2 .. R - 1 :
                 /\ d = Displaced(even, peak)
                 /\ \A a \in 1 .. R : (a < d => even[a] < peak) /\ (a > d => peak < even[a])
          <6>1. /\ even \in [1 .. RowLimit -> 1 .. n] /\ even[1] = 1 /\ even[RowLimit] = n
                /\ \A row \in 1 .. RowLimit : even[row] # peak
                /\ \A a, b \in 1 .. RowLimit : a < b => even[a] < even[b]
            BY <2>7, <3>1, <4>2
          <6>2. PICK d \in 2 .. RowLimit - 1 :
                   /\ d = Displaced(even, peak)
                   /\ \A a \in 1 .. RowLimit : (a < d => even[a] < peak) /\ (a > d => peak < even[a])
            BY <6>1, DisplacedIs
          <6> QED
            BY <2>7, <6>2
        <5>2. kept = [even EXCEPT ![d] = peak] /\ d \in 1 .. R /\ d # 1 /\ d # R
          BY <2>7, <3>1, <3>2, <4>2, <5>1
        <5>3. kept[d] = peak /\ \A a \in 1 .. R : a # d => kept[a] = even[a]
          BY <5>2
        <5> QED
          BY <2>7, <3>1, <5>1, <5>2, <5>3
      <4> QED
        BY <4>1, <4>2
    <3>5. /\ DOMAIN rows = 1 .. R
          /\ \A a \in 1 .. R : \E b \in 1 .. R : rows[a] = kept[b]
          /\ \A b \in 1 .. R : \E a \in 1 .. R : rows[a] = kept[b]
          /\ \A a, b \in 1 .. R : a < b => rows[a] < rows[b]
      <4>1. kept \in [1 .. R -> Nat]
        BY <3>4
      <4>2. \A a, b \in 1 .. R : a < b => kept[a] < kept[b]
        BY <3>4
      <4>3. R \in Nat
        BY <2>7
      <4> QED
        BY <3>3, <4>1, <4>2, <4>3, SortedIs
    <3>6. rows = [row \in 1 .. R |-> rows[row]]
      BY <3>3, <3>4, <3>5 DEF Sorted
    <3>7. Len(rows) = R
      BY <3>6
    <3>8. \A a \in 1 .. R : rows[a] \in 1 .. n
      BY <3>4, <3>5
    <3>9. rows[1] = 1
      <4>1. PICK a \in 1 .. R : rows[a] = 1
        BY <2>7, <3>4, <3>5
      <4>2. a = 1 \/ rows[1] < rows[a]
        BY <2>7, <3>5
      <4> QED
        BY <2>7, <3>8, <4>1, <4>2
    <3>10. rows[R] = n
      <4>1. PICK a \in 1 .. R : rows[a] = n
        BY <2>7, <3>4, <3>5
      <4>2. a = R \/ rows[a] < rows[R]
        BY <2>7, <3>5
      <4>3. rows[R] \in 1 .. n
        BY <2>7, <3>8
      <4> QED
        BY <4>1, <4>2, <4>3
    <3>11. \A row \in 1 .. R - 1 : rows[row] < rows[row + 1]
      BY <2>7, <3>5
    <3>12. PICK a \in 1 .. R : rows[a] = peak
      BY <3>4, <3>5
    <3>13. Len(rows) = (IF n < RowLimit THEN n ELSE RowLimit)
      BY <2>7, <2>9, <3>7
    <3>14. rows[Len(rows)] = n /\ \A row \in 1 .. Len(rows) - 1 : rows[row] < rows[row + 1]
      BY <3>7, <3>10, <3>11
    <3>15. \E row \in DOMAIN rows : \A i \in 1 .. n : points[i].used <= points[rows[row]].used
      <4>1. a \in DOMAIN rows
        BY <3>5, <3>12
      <4> QED
        BY <2>6, <3>12, <4>1
    <3> QED
      BY <3>9, <3>13, <3>14, <3>15
  <2> QED
    BY <2>7, <2>8, <2>9
<1> QED
  BY <1>1, HistoryInvariant, PTL

-----------------------------------------------------------------------------
(* The sums of fitSlope.  A fact about every prefix of a loop is proved from the *)
(* least prefix without it, which cannot be: each follows from the one before.   *)

\* The series of n integers.
IntSeq(n) == [1 .. n -> Int]

\* What Total's recursive function is.
LEMMA TotalIs ==
    ASSUME NEW n \in Nat, NEW series \in IntSeq(n)
    PROVE  \E upTo \in [0 .. n -> Int] :
              /\ upTo[0] = 0 /\ \A i \in 1 .. n : upTo[i] = upTo[i - 1] + series[i]
              /\ Total(series) = upTo[n]
<1> USE DEF IntSeq
<1> DEFINE Sums(g, m) == g = [i \in 0 .. m |-> IF i = 0 THEN 0 ELSE g[i - 1] + series[i]]
           T == {m \in 0 .. n : ~ \E g : Sums(g, m)}
<1>1. ASSUME NEW m \in 0 .. n PROVE \E g : Sums(g, m)
  <2> SUFFICES ASSUME T # {} PROVE FALSE
    OBVIOUS
  <2>1. PICK k \in T : \A i \in T : k <= i
    <3>1. T \subseteq Nat /\ T # {}
      OBVIOUS
    <3> HIDE DEF T
    <3> QED
      BY <3>1, LeastExists
  <2>2. k \in 0 .. n /\ ~ \E g : Sums(g, k)
    BY <2>1
  <2>3. k # 0
    <3>1. PICK g : g = [i \in 0 .. 0 |-> 0]
      OBVIOUS
    <3>2. Sums(g, 0)
      BY <3>1
    <3> QED
      BY <2>2, <3>2
  <2>4. k \in 1 .. n /\ k - 1 \in 0 .. n /\ ~ (k <= k - 1)
    BY <2>2, <2>3
  <2>5. PICK g : Sums(g, k - 1)
    <3> HIDE DEF Sums
    <3> QED
      BY <2>1, <2>4
  <2>6. PICK h : h = [i \in 0 .. k |-> IF i = k THEN g[k - 1] + series[k] ELSE g[i]]
    OBVIOUS
  <2>7. \A i \in 0 .. k - 1 : g[i] = IF i = 0 THEN 0 ELSE g[i - 1] + series[i]
    <3> DEFINE F == [i \in 0 .. k - 1 |-> IF i = 0 THEN 0 ELSE g[i - 1] + series[i]]
    <3>1. g = F
      BY <2>5
    <3>2. \A i \in 0 .. k - 1 : F[i] = IF i = 0 THEN 0 ELSE g[i - 1] + series[i]
      OBVIOUS
    <3> HIDE DEF F
    <3> QED
      BY <3>1, <3>2
  <2>8. \A i \in 0 .. k : h[i] = IF i = 0 THEN 0 ELSE h[i - 1] + series[i]
    BY <2>4, <2>6, <2>7
  <2>9. Sums(h, k)
    BY <2>6, <2>8
  <2> QED
    BY <2>2, <2>9
<1>2. PICK g : Sums(g, n)
  BY <1>1
<1> DEFINE upTo == CHOOSE f : f = [i \in 0 .. n |-> IF i = 0 THEN 0 ELSE f[i - 1] + series[i]]
<1>3. upTo = [i \in 0 .. n |-> IF i = 0 THEN 0 ELSE upTo[i - 1] + series[i]]
  BY <1>2
<1>4. Len(series) = n
  OBVIOUS
<1>5. Total(series) = upTo[n]
  BY <1>4 DEF Total
<1> HIDE DEF upTo
<1>6. upTo[0] = 0 /\ \A i \in 1 .. n : upTo[i] = upTo[i - 1] + series[i]
  <2> DEFINE F == [i \in 0 .. n |-> IF i = 0 THEN 0 ELSE upTo[i - 1] + series[i]]
  <2>1. upTo = F
    BY <1>3
  <2>2. \A i \in 0 .. n : F[i] = IF i = 0 THEN 0 ELSE upTo[i - 1] + series[i]
    OBVIOUS
  <2> HIDE DEF F
  <2> QED
    BY <2>1, <2>2
<1> DEFINE U == {m \in 0 .. n : upTo[m] \notin Int}
<1>7. U = {}
  <2> SUFFICES ASSUME U # {} PROVE FALSE
    OBVIOUS
  <2>1. PICK m \in U : \A k \in U : m <= k
    <3>1. U \subseteq Nat /\ U # {}
      OBVIOUS
    <3> HIDE DEF U
    <3> QED
      BY <3>1, LeastExists
  <2>2. m \in 0 .. n /\ upTo[m] \notin Int
    BY <2>1
  <2>3. m # 0 /\ m \in 1 .. n /\ m - 1 \in 0 .. n /\ ~ (m <= m - 1)
    BY <1>6, <2>2
  <2>4. upTo[m - 1] \in Int /\ series[m] \in Int
    BY <2>1, <2>3
  <2> QED
    BY <1>6, <2>2, <2>3, <2>4
<1>8. upTo \in [0 .. n -> Int]
  BY <1>3, <1>7
<1> QED
  BY <1>5, <1>6, <1>8

\* Whatever adds up as the loop does is the total.
LEMMA TotalBy ==
    ASSUME NEW n \in Nat, NEW series \in IntSeq(n), NEW sums \in [0 .. n -> Int],
           sums[0] = 0, \A i \in 1 .. n : sums[i] = sums[i - 1] + series[i]
    PROVE  Total(series) = sums[n]
<1> USE DEF IntSeq
<1>1. PICK upTo \in [0 .. n -> Int] :
         /\ upTo[0] = 0 /\ \A i \in 1 .. n : upTo[i] = upTo[i - 1] + series[i]
         /\ Total(series) = upTo[n]
  BY TotalIs
<1> DEFINE T == {m \in 0 .. n : upTo[m] # sums[m]}
<1>2. T = {}
  <2> SUFFICES ASSUME T # {} PROVE FALSE
    OBVIOUS
  <2>1. PICK m \in T : \A k \in T : m <= k
    <3>1. T \subseteq Nat /\ T # {}
      OBVIOUS
    <3> HIDE DEF T
    <3> QED
      BY <3>1, LeastExists
  <2>2. m \in 0 .. n /\ upTo[m] # sums[m]
    BY <2>1
  <2>3. m \in 1 .. n /\ m - 1 \in 0 .. n /\ ~ (m <= m - 1)
    BY <1>1, <2>2
  <2>4. upTo[m - 1] = sums[m - 1]
    BY <2>1, <2>3
  <2> QED
    BY <1>1, <2>2, <2>3, <2>4
<1>3. n \in 0 .. n
  OBVIOUS
<1> QED
  BY <1>1, <1>2, <1>3

\* Whether a series is made of three others and a constant, the same way at every place.
Combined(a, x, b, y, c, z, d) == a * x + b * y + c * z + d

Combines(series, n, a, f, b, g, c, h, d) ==
    \A i \in 1 .. n : series[i] = Combined(a, f[i], b, g[i], c, h[i], d)

\* And the total of such a series is made of theirs.
LEMMA TotalLinear ==
    ASSUME NEW n \in Nat, NEW f \in IntSeq(n), NEW g \in IntSeq(n),
           NEW h \in IntSeq(n), NEW series \in IntSeq(n),
           NEW a \in Int, NEW b \in Int, NEW c \in Int, NEW d \in Int,
           Combines(series, n, a, f, b, g, c, h, d)
    PROVE  /\ Total(f) \in Int /\ Total(g) \in Int /\ Total(h) \in Int /\ Total(series) \in Int
           /\ Total(series) = Combined(a, Total(f), b, Total(g), c, Total(h), n * d)
<1> USE DEF IntSeq
<1>1. PICK upToF \in [0 .. n -> Int] :
         /\ upToF[0] = 0 /\ \A i \in 1 .. n : upToF[i] = upToF[i - 1] + f[i]
         /\ Total(f) = upToF[n]
  BY TotalIs
<1>2. PICK upToG \in [0 .. n -> Int] :
         /\ upToG[0] = 0 /\ \A i \in 1 .. n : upToG[i] = upToG[i - 1] + g[i]
         /\ Total(g) = upToG[n]
  BY TotalIs
<1>3. PICK upToH \in [0 .. n -> Int] :
         /\ upToH[0] = 0 /\ \A i \in 1 .. n : upToH[i] = upToH[i - 1] + h[i]
         /\ Total(h) = upToH[n]
  BY TotalIs
<1>4. PICK sums : sums = [i \in 0 .. n |-> a * upToF[i] + b * upToG[i] + c * upToH[i] + i * d]
  OBVIOUS
<1>5. sums \in [0 .. n -> Int] /\ sums[0] = 0
  <2>1. ASSUME NEW i \in 0 .. n PROVE sums[i] \in Int
    <3>1. PICK x \in Int, y \in Int, z \in Int : x = upToF[i] /\ y = upToG[i] /\ z = upToH[i]
      OBVIOUS
    <3>2. sums[i] = a * x + b * y + c * z + i * d
      BY <1>4, <3>1
    <3>3. a * x \in Int /\ b * y \in Int /\ c * z \in Int /\ i * d \in Int
      OBVIOUS
    <3> QED
      BY <3>2, <3>3
  <2>2. a * 0 = 0 /\ b * 0 = 0 /\ c * 0 = 0 /\ 0 * d = 0
    OBVIOUS
  <2>3. sums[0] = a * 0 + b * 0 + c * 0 + 0 * d
    BY <1>1, <1>2, <1>3, <1>4
  <2> QED
    BY <1>4, <2>1, <2>2, <2>3
<1>6. ASSUME NEW i \in 1 .. n PROVE sums[i] = sums[i - 1] + series[i]
  <2>1. i \in 0 .. n /\ i - 1 \in 0 .. n
    OBVIOUS
  <2>2. PICK x \in Int, y \in Int, z \in Int, p \in Int, q \in Int, r \in Int :
           /\ x = upToF[i - 1] /\ y = upToG[i - 1] /\ z = upToH[i - 1]
           /\ p = f[i] /\ q = g[i] /\ r = h[i]
    BY <2>1
  <2>3. /\ sums[i] = a * (x + p) + b * (y + q) + c * (z + r) + i * d
        /\ sums[i - 1] = a * x + b * y + c * z + (i - 1) * d
        /\ series[i] = a * p + b * q + c * r + d
    BY <1>1, <1>2, <1>3, <1>4, <2>1, <2>2 DEF Combines, Combined
  <2>4. /\ a * (x + p) = a * x + a * p /\ b * (y + q) = b * y + b * q /\ c * (z + r) = c * z + c * r
        /\ (i - 1) * d = i * d - d
    OBVIOUS
  <2>5. PICK j \in Int : j = i
    OBVIOUS
  <2> QED
    BY <2>3, <2>4
<1>7. n \in 0 .. n
  OBVIOUS
<1>8. Total(series) = sums[n]
  BY <1>5, <1>6, TotalBy
<1>9. sums[n] = a * upToF[n] + b * upToG[n] + c * upToH[n] + n * d
  BY <1>4, <1>7
<1>10. sums[n] \in Int /\ upToF[n] \in Int /\ upToG[n] \in Int /\ upToH[n] \in Int
  BY <1>5, <1>7
<1> QED
  BY <1>1, <1>2, <1>3, <1>8, <1>9, <1>10 DEF Combined

\* A sum of what is never negative is neither, nor less than any of it.
LEMMA TotalNotNegative ==
    ASSUME NEW n \in Nat, NEW series \in IntSeq(n), \A i \in 1 .. n : series[i] >= 0
    PROVE  Total(series) >= 0 /\ Total(series) \in Int /\ \A i \in 1 .. n : series[i] <= Total(series)
<1> USE DEF IntSeq
<1>1. PICK upTo \in [0 .. n -> Int] :
         /\ upTo[0] = 0 /\ \A i \in 1 .. n : upTo[i] = upTo[i - 1] + series[i]
         /\ Total(series) = upTo[n]
  BY TotalIs
<1> DEFINE Good(m) == upTo[m] >= 0 /\ \A i \in 1 .. m : series[i] <= upTo[m]
           T == {m \in 0 .. n : ~ Good(m)}
<1>2. T = {}
  <2> SUFFICES ASSUME T # {} PROVE FALSE
    OBVIOUS
  <2>1. PICK m \in T : \A k \in T : m <= k
    <3>1. T \subseteq Nat /\ T # {}
      OBVIOUS
    <3> HIDE DEF T
    <3> QED
      BY <3>1, LeastExists
  <2>2. m \in 0 .. n /\ ~ Good(m)
    BY <2>1
  <2>3. m \in 1 .. n /\ m - 1 \in 0 .. n /\ ~ (m <= m - 1)
    BY <1>1, <2>2
  <2>4. Good(m - 1)
    <3> HIDE DEF Good
    <3> QED
      BY <2>1, <2>3
  <2>5. upTo[m] = upTo[m - 1] + series[m] /\ series[m] >= 0 /\ series[m] \in Int /\ upTo[m - 1] \in Int
    BY <1>1, <2>3
  <2>6. ASSUME NEW i \in 1 .. m PROVE series[i] <= upTo[m]
    <3>1. i = m \/ i \in 1 .. m - 1
      BY <2>3
    <3>2. series[i] \in Int
      BY <2>3
    <3>3. CASE i = m
      BY <2>4, <2>5, <3>3
    <3>4. CASE i \in 1 .. m - 1
      BY <2>4, <2>5, <3>2, <3>4
    <3> QED
      BY <3>1, <3>3, <3>4
  <2>7. upTo[m] >= 0
    BY <2>4, <2>5
  <2> QED
    BY <2>2, <2>6, <2>7
<1>3. n \in 0 .. n
  OBVIOUS
<1>4. Good(n)
  BY <1>2, <1>3
<1> QED
  BY <1>1, <1>3, <1>4

\* A total is an integer, and so is what is added up.
LEMMA TotalInt ==
    ASSUME NEW n \in Nat, NEW f \in IntSeq(n)
    PROVE  Total(f) \in Int
<1>1. PICK upTo \in [0 .. n -> Int] : Total(f) = upTo[n]
  BY TotalIs
<1>2. n \in 0 .. n
  OBVIOUS
<1> QED
  BY <1>1, <1>2

LEMMA IntSeqIs ==
    ASSUME NEW n \in Nat, NEW f \in IntSeq(n)
    PROVE  DOMAIN f = 1 .. n /\ Len(f) = n /\ \A i \in 1 .. n : f[i] \in Int
BY DEF IntSeq

\* A product of two series is one, either way round.
LEMMA TimesIs ==
    ASSUME NEW n \in Nat, NEW f \in IntSeq(n), NEW g \in IntSeq(n)
    PROVE  \E p \in IntSeq(n) :
              /\ p = Times(f, g) /\ p = Times(g, f) /\ Total(p) \in Int
              /\ \A i \in 1 .. n : p[i] = f[i] * g[i]
<1>1. ASSUME NEW i \in 1 .. n PROVE f[i] * g[i] \in Int /\ f[i] * g[i] = g[i] * f[i]
  <2>1. PICK x \in Int, y \in Int : x = f[i] /\ y = g[i]
    BY IntSeqIs
  <2>2. x * y \in Int /\ x * y = y * x
    OBVIOUS
  <2> QED
    BY <2>1, <2>2
<1>2. Times(f, g) = [i \in 1 .. n |-> f[i] * g[i]] /\ Times(g, f) = [i \in 1 .. n |-> g[i] * f[i]]
  BY DEF Times, IntSeq
<1>3. PICK p \in IntSeq(n) : p = Times(f, g)
  BY <1>1, <1>2 DEF IntSeq
<1>4. p = Times(g, f)
  BY <1>1, <1>2, <1>3
<1>5. \A i \in 1 .. n : p[i] = f[i] * g[i]
  BY <1>2, <1>3
<1> QED
  BY <1>3, <1>4, <1>5, TotalInt

\* What the differences from a mean add up to.
LEMMA CentredIs ==
    ASSUME NEW n \in Nat, NEW f \in IntSeq(n)
    PROVE  \E c \in IntSeq(n) :
              /\ c = Centred(f) /\ Total(c) = 0
              /\ \A i \in 1 .. n : c[i] = n * f[i] - Total(f)
<1>1. PICK s \in Int, m \in Int : s = Total(f) /\ m = - s
  BY TotalInt
<1>2. Centred(f) = [i \in 1 .. n |-> n * f[i] - s]
  BY <1>1, IntSeqIs DEF Centred
<1>3. ASSUME NEW i \in 1 .. n PROVE n * f[i] - s \in Int /\ n * f[i] - s = Combined(n, f[i], 0, f[i], 0, f[i], m)
  <2>1. PICK x \in Int : x = f[i]
    BY IntSeqIs
  <2>2. n * x \in Int /\ n * x - s = n * x + 0 * x + 0 * x + m
    BY <1>1
  <2> QED
    BY <2>1, <2>2 DEF Combined
<1>4. PICK c \in IntSeq(n) : c = Centred(f) /\ \A i \in 1 .. n : c[i] = n * f[i] - s
  <2>1. [i \in 1 .. n |-> n * f[i] - s] \in IntSeq(n)
    BY <1>3 DEF IntSeq
  <2> QED
    BY <1>2, <2>1
<1>5. Combines(c, n, n, f, 0, f, 0, f, m)
  BY <1>3, <1>4 DEF Combines
<1>6. n \in Int /\ 0 \in Int
  OBVIOUS
<1>7. Total(c) = Combined(n, Total(f), 0, Total(f), 0, Total(f), n * m)
  BY <1>5, <1>6, TotalLinear
<1>8. Total(c) = n * s + 0 * s + 0 * s + n * m
  BY <1>1, <1>7 DEF Combined
<1>9. n * s + 0 * s + 0 * s + n * m = 0
  BY <1>1
<1> QED
  BY <1>1, <1>4, <1>8, <1>9

\* And times another series.
LEMMA CentredTimes ==
    ASSUME NEW n \in Nat, NEW f \in IntSeq(n), NEW g \in IntSeq(n)
    PROVE  Total(Times(Centred(f), g)) = n * Total(Times(f, g)) - Total(f) * Total(g)
<1>1. PICK c \in IntSeq(n) : c = Centred(f) /\ \A i \in 1 .. n : c[i] = n * f[i] - Total(f)
  BY CentredIs
<1>2. PICK p \in IntSeq(n) : p = Times(c, g) /\ \A i \in 1 .. n : p[i] = c[i] * g[i]
  BY TimesIs
<1>3. PICK q \in IntSeq(n) : q = Times(f, g) /\ \A i \in 1 .. n : q[i] = f[i] * g[i]
  BY TimesIs
<1>4. PICK s \in Int, t \in Int, u \in Int, m \in Int : s = Total(f) /\ t = Total(g) /\ u = Total(q) /\ m = - s
  BY TotalInt
<1>5. ASSUME NEW i \in 1 .. n PROVE p[i] = Combined(n, q[i], m, g[i], 0, g[i], 0)
  <2>1. PICK x \in Int, y \in Int : x = f[i] /\ y = g[i]
    BY IntSeqIs
  <2>2. c[i] = n * x - s
    BY <1>1, <1>4, <2>1
  <2>3. p[i] = (n * x - s) * y /\ q[i] = x * y
    BY <1>2, <1>3, <2>1, <2>2
  <2>4. (n * x - s) * y = n * (x * y) + m * y + 0 * y + 0
    BY <1>4
  <2> QED
    BY <2>1, <2>3, <2>4 DEF Combined
<1>6. Combines(p, n, n, q, m, g, 0, g, 0)
  BY <1>5 DEF Combines
<1>7. n \in Int /\ 0 \in Int
  OBVIOUS
<1>8. Total(p) = Combined(n, Total(q), m, Total(g), 0, Total(g), n * 0)
  BY <1>6, <1>7, TotalLinear
<1>9. Total(p) = n * u + m * t + 0 * t + n * 0
  BY <1>4, <1>8 DEF Combined
<1>10. n * u + m * t + 0 * t + n * 0 = n * u - s * t
  BY <1>4
<1> QED
  BY <1>1, <1>2, <1>3, <1>4, <1>9, <1>10

\* And times itself, which is what makes Run and VarianceY sums of squares.
LEMMA CentredSquares ==
    ASSUME NEW n \in Nat, NEW f \in IntSeq(n)
    PROVE  Total(Times(Centred(f), Centred(f))) = n * Total(Times(Centred(f), f))
<1>1. PICK c \in IntSeq(n) : c = Centred(f) /\ Total(c) = 0 /\ \A i \in 1 .. n : c[i] = n * f[i] - Total(f)
  BY CentredIs
<1>2. PICK p \in IntSeq(n) : p = Times(c, f) /\ \A i \in 1 .. n : p[i] = c[i] * f[i]
  BY TimesIs
<1>3. PICK q \in IntSeq(n) : q = Times(c, c) /\ \A i \in 1 .. n : q[i] = c[i] * c[i]
  BY TimesIs
<1>4. PICK s \in Int, u \in Int, m \in Int : s = Total(f) /\ u = Total(p) /\ m = - s
  BY TotalInt
<1>5. ASSUME NEW i \in 1 .. n PROVE q[i] = Combined(n, p[i], m, c[i], 0, c[i], 0)
  <2>1. PICK x \in Int, y \in Int : x = c[i] /\ y = f[i]
    BY IntSeqIs
  <2>2. q[i] = x * x /\ p[i] = x * y /\ x = n * y - s
    BY <1>1, <1>2, <1>3, <1>4, <2>1
  <2>3. x * (n * y - s) = n * (x * y) + m * x + 0 * x + 0
    BY <1>4
  <2> QED
    BY <2>1, <2>2, <2>3 DEF Combined
<1>6. Combines(q, n, n, p, m, c, 0, c, 0)
  BY <1>5 DEF Combines
<1>7. n \in Int /\ 0 \in Int
  OBVIOUS
<1>8. Total(q) = Combined(n, Total(p), m, Total(c), 0, Total(c), n * 0)
  BY <1>6, <1>7, TotalLinear
<1>9. Total(q) = n * u + m * 0 + 0 * 0 + n * 0
  BY <1>1, <1>4, <1>8 DEF Combined
<1>10. n * u + m * 0 + 0 * 0 + n * 0 = n * u
  OBVIOUS
<1> QED
  BY <1>1, <1>2, <1>3, <1>4, <1>9, <1>10

\* What is orthogonal to every line cannot be made smaller by adding one.
LEMMA Orthogonal ==
    ASSUME NEW n \in Nat, NEW r \in IntSeq(n), NEW x \in IntSeq(n), NEW v \in IntSeq(n),
           Total(r) = 0, Total(Times(r, x)) = 0,
           NEW a \in Int, NEW b \in Int, Combines(v, n, 1, r, b, x, 0, x, a)
    PROVE  Total(Times(r, r)) <= Total(Times(v, v))
<1>1. PICK rr \in IntSeq(n) : rr = Times(r, r) /\ \A i \in 1 .. n : rr[i] = r[i] * r[i]
  BY TimesIs
<1>2. PICK rx \in IntSeq(n) : rx = Times(r, x) /\ \A i \in 1 .. n : rx[i] = r[i] * x[i]
  BY TimesIs
<1>3. PICK vv \in IntSeq(n) : vv = Times(v, v) /\ \A i \in 1 .. n : vv[i] = v[i] * v[i]
  BY TimesIs
<1>4. ASSUME NEW i \in 1 .. n PROVE a + b * x[i] \in Int
  <2>1. PICK y \in Int : y = x[i]
    BY IntSeqIs
  <2>2. b * y \in Int
    OBVIOUS
  <2> QED
    BY <2>1, <2>2
<1>5. PICK line \in IntSeq(n) : \A i \in 1 .. n : line[i] = a + b * x[i]
  <2>1. [i \in 1 .. n |-> a + b * x[i]] \in IntSeq(n)
    BY <1>4 DEF IntSeq
  <2> QED
    BY <2>1
<1>6. PICK ll \in IntSeq(n) : ll = Times(line, line) /\ \A i \in 1 .. n : ll[i] = line[i] * line[i]
  BY TimesIs
<1>7. Total(ll) >= 0
  <2>1. ASSUME NEW i \in 1 .. n PROVE ll[i] >= 0
    <3>1. PICK y \in Int : y = line[i]
      BY IntSeqIs
    <3>2. y * y >= 0
      OBVIOUS
    <3> QED
      BY <1>6, <3>1, <3>2
  <2> QED
    BY <2>1, TotalNotNegative
<1>8. PICK both \in IntSeq(n) : \A i \in 1 .. n : both[i] = rr[i] + ll[i]
  <2>1. [i \in 1 .. n |-> rr[i] + ll[i]] \in IntSeq(n)
    BY DEF IntSeq
  <2> QED
    BY <2>1
<1>9. PICK sr \in Int, sl \in Int, sb \in Int : sr = Total(rr) /\ sl = Total(ll) /\ sb = Total(both)
  BY TotalInt
<1>10. sb = sr + sl
  <2>1. ASSUME NEW i \in 1 .. n PROVE both[i] = Combined(1, rr[i], 1, ll[i], 0, ll[i], 0)
    <3>1. PICK y \in Int, z \in Int : y = rr[i] /\ z = ll[i]
      BY IntSeqIs
    <3> QED
      BY <1>8, <3>1 DEF Combined
  <2>2. Combines(both, n, 1, rr, 1, ll, 0, ll, 0)
    BY <2>1 DEF Combines
  <2>3. 1 \in Int /\ 0 \in Int
    OBVIOUS
  <2>4. Total(both) = Combined(1, Total(rr), 1, Total(ll), 0, Total(ll), n * 0)
    BY <2>2, <2>3, TotalLinear
  <2> QED
    BY <1>9, <2>4 DEF Combined
<1>11. PICK k \in Int, l \in Int : k = 2 * a /\ l = 2 * b
  <2>1. 2 * a \in Int /\ 2 * b \in Int
    OBVIOUS
  <2> QED
    BY <2>1
<1>12. ASSUME NEW i \in 1 .. n PROVE vv[i] = Combined(1, both[i], k, r[i], l, rx[i], 0)
  <2>1. PICK y \in Int, z \in Int : y = r[i] /\ z = x[i]
    BY IntSeqIs
  <2>2. PICK p \in Int : p = b * z
    <3>1. b * z \in Int
      OBVIOUS
    <3> QED
      BY <3>1
  <2>3. v[i] = y + a + p /\ line[i] = a + p
    BY <1>5, <2>1, <2>2 DEF Combines, Combined
  <2>4. /\ vv[i] = (y + a + p) * (y + a + p)
        /\ both[i] = y * y + (a + p) * (a + p) /\ rx[i] = y * z
    BY <1>1, <1>2, <1>3, <1>6, <1>8, <2>1, <2>3
  <2>5. (y + a + p) * (y + a + p) = y * y + (a + p) * (a + p) + (2 * a) * y + 2 * (p * y)
    OBVIOUS
  <2>6. l * (y * z) = 2 * (p * y)
    BY <1>11, <2>2
  <2>7. y * y + (a + p) * (a + p) \in Int /\ k * y \in Int /\ l * (y * z) \in Int
    OBVIOUS
  <2> QED
    BY <1>11, <2>1, <2>4, <2>5, <2>6, <2>7 DEF Combined
<1>13. Total(vv) = sb
  <2>1. Combines(vv, n, 1, both, k, r, l, rx, 0)
    BY <1>12 DEF Combines
  <2>2. 1 \in Int /\ 0 \in Int
    OBVIOUS
  <2>3. Total(vv) = Combined(1, Total(both), k, Total(r), l, Total(rx), n * 0)
    BY <2>1, <2>2, TotalLinear
  <2>4. k * 0 = 0 /\ l * 0 = 0 /\ n * 0 = 0
    OBVIOUS
  <2> QED
    BY <1>2, <1>9, <2>3, <2>4 DEF Combined
<1> QED
  BY <1>1, <1>3, <1>7, <1>9, <1>10, <1>13

-----------------------------------------------------------------------------
(* The line that fitSlope fits, for every window of integer readings. *)

\* A window of n readings.
WindowOf(readings, n) ==
    /\ DOMAIN readings = 1 .. n /\ Len(readings) = n
    /\ \A i \in 1 .. n : readings[i].at \in Int /\ readings[i].current \in Int

\* Its seconds and its bytes.
LEMMA AxesAre ==
    ASSUME NEW n \in Nat \ {0}, NEW readings, WindowOf(readings, n)
    PROVE  \E x \in IntSeq(n), y \in IntSeq(n) :
              /\ x = Xs(readings) /\ \A i \in 1 .. n : x[i] = readings[i].at - readings[1].at
              /\ y = Ys(readings) /\ \A i \in 1 .. n : y[i] = readings[i].current
<1>1. 1 \in 1 .. n
  OBVIOUS
<1>2. PICK x \in IntSeq(n) : x = Xs(readings)
  <2>1. \A i \in 1 .. n : readings[i].at - readings[1].at \in Int
    BY <1>1 DEF WindowOf
  <2> QED
    BY <2>1 DEF Xs, IntSeq, WindowOf
<1>3. PICK y \in IntSeq(n) : y = Ys(readings)
  BY DEF Ys, IntSeq, WindowOf
<1>4. \A i \in 1 .. n : x[i] = readings[i].at - readings[1].at
  BY <1>2 DEF Xs, WindowOf
<1>5. \A i \in 1 .. n : y[i] = readings[i].current
  BY <1>3 DEF Ys, WindowOf
<1> QED
  BY <1>2, <1>3, <1>4, <1>5

\* The sums behind the slope, and what either axis adds up to against the other.
LEMMA SumsAre ==
    ASSUME NEW n \in Nat \ {0}, NEW readings, WindowOf(readings, n),
           NEW x \in IntSeq(n), x = Xs(readings), NEW y \in IntSeq(n), y = Ys(readings)
    PROVE  /\ Run(readings) \in Int /\ Rise(readings) \in Int /\ VarianceY(readings) \in Int
           /\ Run(readings) = n * Total(Times(x, x)) - Total(x) * Total(x)
           /\ Rise(readings) = n * Total(Times(x, y)) - Total(x) * Total(y)
           /\ VarianceY(readings) = n * Total(Times(y, y)) - Total(y) * Total(y)
           /\ Run(readings) = Total(Times(Centred(x), x))
           /\ Rise(readings) = Total(Times(Centred(y), x))
           /\ VarianceY(readings) = Total(Times(Centred(y), y))
<1>1. n \in Nat
  OBVIOUS
<1>2. PICK cx \in IntSeq(n) : cx = Centred(x)
  BY <1>1, CentredIs
<1>3. PICK cy \in IntSeq(n) : cy = Centred(y)
  BY <1>1, CentredIs
<1>4. PICK cxx \in IntSeq(n) : cxx = Times(cx, x)
  BY <1>1, TimesIs
<1>5. PICK cxy \in IntSeq(n) : cxy = Times(cx, y)
  BY <1>1, TimesIs
<1>6. PICK cyy \in IntSeq(n) : cyy = Times(cy, y)
  BY <1>1, TimesIs
<1>7. Run(readings) = Total(cxx) /\ Rise(readings) = Total(cxy) /\ VarianceY(readings) = Total(cyy)
  BY <1>2, <1>3, <1>4, <1>5, <1>6 DEF Run, Rise, Covariance, VarianceX, VarianceY
<1>8. Total(cxx) \in Int /\ Total(cxy) \in Int /\ Total(cyy) \in Int
  BY <1>1, TotalInt
<1>9. Total(Times(Centred(x), x)) = n * Total(Times(x, x)) - Total(x) * Total(x)
  BY <1>1, CentredTimes
<1>10. Total(Times(Centred(x), y)) = n * Total(Times(x, y)) - Total(x) * Total(y)
  BY <1>1, CentredTimes
<1>11. Total(Times(Centred(y), y)) = n * Total(Times(y, y)) - Total(y) * Total(y)
  BY <1>1, CentredTimes
<1>12. Total(Times(Centred(y), x)) = n * Total(Times(y, x)) - Total(y) * Total(x)
  BY <1>1, CentredTimes
<1>13. PICK xy \in IntSeq(n) : xy = Times(x, y) /\ xy = Times(y, x)
  BY <1>1, TimesIs
<1>14. PICK s \in Int, t \in Int : s = Total(x) /\ t = Total(y)
  BY <1>1, TotalInt
<1>15. s * t = t * s
  OBVIOUS
<1>16. Rise(readings) = Total(Times(Centred(y), x))
  BY <1>2, <1>5, <1>7, <1>10, <1>12, <1>13, <1>14, <1>15
<1> QED
  BY <1>2, <1>3, <1>4, <1>5, <1>6, <1>7, <1>8, <1>9, <1>10, <1>11, <1>16

\* What the fit leaves adds up to nothing, on its own and against the seconds.
LEMMA ResidualsAre ==
    ASSUME NEW n \in Nat \ {0}, NEW readings, WindowOf(readings, n),
           NEW x \in IntSeq(n), x = Xs(readings), NEW y \in IntSeq(n), y = Ys(readings),
           NEW run \in Int, run = Run(readings), NEW rise \in Int, rise = Rise(readings)
    PROVE  \E r \in IntSeq(n) :
              /\ r = Residuals(readings) /\ Total(r) = 0 /\ Total(Times(r, x)) = 0
              /\ \A i \in 1 .. n : r[i] = run * (n * y[i] - Total(y)) - rise * (n * x[i] - Total(x))
<1>1. n \in Nat
  OBVIOUS
<1>2. PICK cx \in IntSeq(n) : cx = Centred(x) /\ Total(cx) = 0 /\ \A i \in 1 .. n : cx[i] = n * x[i] - Total(x)
  BY <1>1, CentredIs
<1>3. PICK cy \in IntSeq(n) : cy = Centred(y) /\ Total(cy) = 0 /\ \A i \in 1 .. n : cy[i] = n * y[i] - Total(y)
  BY <1>1, CentredIs
<1>4. PICK m \in Int : m = - rise
  OBVIOUS
<1>5. ASSUME NEW i \in 1 .. n
      PROVE  /\ run * cy[i] - rise * cx[i] \in Int
             /\ run * cy[i] - rise * cx[i] = Combined(run, cy[i], m, cx[i], 0, cx[i], 0)
  <2>1. PICK a \in Int, b \in Int : a = cy[i] /\ b = cx[i]
    BY <1>1, IntSeqIs
  <2>2. run * a \in Int /\ rise * b \in Int /\ m * b = - (rise * b) /\ 0 * b = 0
    BY <1>4
  <2> QED
    BY <2>1, <2>2 DEF Combined
<1>6. Residuals(readings) = [i \in 1 .. n |-> run * cy[i] - rise * cx[i]]
  BY <1>2, <1>3 DEF Residuals, WindowOf
<1>7. PICK r \in IntSeq(n) : r = Residuals(readings) /\ \A i \in 1 .. n : r[i] = run * cy[i] - rise * cx[i]
  <2>1. [i \in 1 .. n |-> run * cy[i] - rise * cx[i]] \in IntSeq(n)
    BY <1>5 DEF IntSeq
  <2> QED
    BY <1>6, <2>1
<1>8. n \in Int /\ 0 \in Int /\ run * 0 = 0 /\ m * 0 = 0 /\ n * 0 = 0
  OBVIOUS
<1>9. Total(r) = 0
  <2>1. Combines(r, n, run, cy, m, cx, 0, cx, 0)
    BY <1>5, <1>7 DEF Combines
  <2>2. Total(r) = Combined(run, Total(cy), m, Total(cx), 0, Total(cx), n * 0)
    BY <1>1, <1>8, <2>1, TotalLinear
  <2> QED
    BY <1>2, <1>3, <1>8, <2>2 DEF Combined
<1>10. PICK rx \in IntSeq(n) : rx = Times(r, x) /\ \A i \in 1 .. n : rx[i] = r[i] * x[i]
  BY <1>1, TimesIs
<1>11. PICK cxx \in IntSeq(n) : cxx = Times(cx, x) /\ \A i \in 1 .. n : cxx[i] = cx[i] * x[i]
  BY <1>1, TimesIs
<1>12. PICK cyx \in IntSeq(n) : cyx = Times(cy, x) /\ \A i \in 1 .. n : cyx[i] = cy[i] * x[i]
  BY <1>1, TimesIs
<1>13. ASSUME NEW i \in 1 .. n PROVE rx[i] = Combined(run, cyx[i], m, cxx[i], 0, cxx[i], 0)
  <2>1. PICK a \in Int, b \in Int, c \in Int : a = cy[i] /\ b = cx[i] /\ c = x[i]
    BY <1>1, IntSeqIs
  <2>2. rx[i] = (run * a - rise * b) * c /\ cyx[i] = a * c /\ cxx[i] = b * c
    BY <1>7, <1>10, <1>11, <1>12, <2>1
  <2>3. (run * a - rise * b) * c = run * (a * c) + m * (b * c) + 0 * (b * c) + 0
    BY <1>4
  <2> QED
    BY <2>2, <2>3 DEF Combined
<1>14. Total(cyx) = rise /\ Total(cxx) = run
  BY <1>2, <1>3, <1>11, <1>12, SumsAre
<1>15. Total(rx) = 0
  <2>1. Combines(rx, n, run, cyx, m, cxx, 0, cxx, 0)
    BY <1>13 DEF Combines
  <2>2. Total(rx) = Combined(run, Total(cyx), m, Total(cxx), 0, Total(cxx), n * 0)
    BY <1>1, <1>8, <2>1, TotalLinear
  <2>3. run * rise + m * run + 0 * run + 0 = 0
    BY <1>4
  <2> QED
    BY <1>8, <1>14, <2>2, <2>3 DEF Combined
<1> QED
  BY <1>2, <1>3, <1>7, <1>9, <1>10, <1>15

\* trend.go fitSlope: of all lines, the fit leaves the least.
THEOREM FitIsLeastSquares ==
    ASSUME NEW n \in Nat \ {0}, NEW readings, WindowOf(readings, n), NEW base \in Int, NEW slope \in Int
    PROVE  ResidualSS(readings)
             <= (n * Run(readings)) * (n * Run(readings)) * SquaredError(readings, base, slope)
<1>1. n \in Nat
  OBVIOUS
<1>2. PICK x \in IntSeq(n), y \in IntSeq(n) :
         /\ x = Xs(readings) /\ \A i \in 1 .. n : x[i] = readings[i].at - readings[1].at
         /\ y = Ys(readings) /\ \A i \in 1 .. n : y[i] = readings[i].current
  BY AxesAre
<1>3. PICK run \in Int, rise \in Int : run = Run(readings) /\ rise = Rise(readings)
  BY <1>2, SumsAre
<1>4. PICK r \in IntSeq(n) :
         /\ r = Residuals(readings) /\ Total(r) = 0 /\ Total(Times(r, x)) = 0
         /\ \A i \in 1 .. n : r[i] = run * (n * y[i] - Total(y)) - rise * (n * x[i] - Total(x))
  BY <1>2, <1>3, ResidualsAre
<1>5. PICK sx \in Int, sy \in Int : sx = Total(x) /\ sy = Total(y)
  BY <1>1, TotalInt
<1>6. PICK scale \in Int : scale = n * run
  <2>1. n * run \in Int
    OBVIOUS
  <2> QED
    BY <2>1
<1>7. PICK miss \in IntSeq(n) : \A i \in 1 .. n : miss[i] = y[i] - base - slope * x[i]
  <2>1. ASSUME NEW i \in 1 .. n PROVE y[i] - base - slope * x[i] \in Int
    <3>1. PICK a \in Int, b \in Int : a = x[i] /\ b = y[i]
      BY <1>1, IntSeqIs
    <3>2. slope * a \in Int
      OBVIOUS
    <3> QED
      BY <3>1, <3>2
  <2>2. [i \in 1 .. n |-> y[i] - base - slope * x[i]] \in IntSeq(n)
    BY <2>1 DEF IntSeq
  <2> QED
    BY <2>2
<1>8. PICK v \in IntSeq(n) : \A i \in 1 .. n : v[i] = scale * miss[i]
  <2>1. ASSUME NEW i \in 1 .. n PROVE scale * miss[i] \in Int
    <3>1. PICK a \in Int : a = miss[i]
      BY <1>1, IntSeqIs
    <3>2. scale * a \in Int
      OBVIOUS
    <3> QED
      BY <3>1, <3>2
  <2>2. [i \in 1 .. n |-> scale * miss[i]] \in IntSeq(n)
    BY <2>1 DEF IntSeq
  <2> QED
    BY <2>2
<1>9. PICK a \in Int, b \in Int :
         a = run * sy - rise * sx - scale * base /\ b = n * rise - scale * slope
  <2>1. /\ run * sy \in Int /\ rise * sx \in Int /\ scale * base \in Int
        /\ n * rise \in Int /\ scale * slope \in Int
    OBVIOUS
  <2> QED
    BY <2>1
<1>10. ASSUME NEW i \in 1 .. n PROVE v[i] = Combined(1, r[i], b, x[i], 0, x[i], a)
  <2>1. PICK c \in Int, d \in Int, e \in Int : c = x[i] /\ d = y[i] /\ e = r[i]
    BY <1>1, IntSeqIs
  <2>2. v[i] = scale * (d - base - slope * c) /\ r[i] = run * (n * d - sy) - rise * (n * c - sx)
    BY <1>4, <1>5, <1>7, <1>8, <2>1
  <2>3. scale * (d - base - slope * c)
          = run * (n * d - sy) - rise * (n * c - sx)
            + (run * sy - rise * sx - scale * base) + (n * rise - scale * slope) * c
    BY <1>6
  <2>4. v[i] = e + a + b * c /\ b * c \in Int
    BY <1>9, <2>1, <2>2, <2>3
  <2> QED
    BY <2>1, <2>4 DEF Combined
<1>11. Total(Times(r, r)) <= Total(Times(v, v))
  <2>1. Combines(v, n, 1, r, b, x, 0, x, a)
    BY <1>10 DEF Combines
  <2> QED
    BY <1>1, <1>4, <2>1, Orthogonal
<1>12. PICK vv \in IntSeq(n) : vv = Times(v, v) /\ \A i \in 1 .. n : vv[i] = v[i] * v[i]
  BY <1>1, TimesIs
<1>13. PICK mm \in IntSeq(n) : mm = Times(miss, miss) /\ \A i \in 1 .. n : mm[i] = miss[i] * miss[i]
  BY <1>1, TimesIs
<1>14. Total(mm) = SquaredError(readings, base, slope)
  <2>1. mm = [i \in 1 .. n |->
                LET off == readings[i].current - base - slope * (readings[i].at - readings[1].at)
                IN  off * off]
    <3>1. mm = [i \in 1 .. n |-> mm[i]]
      BY DEF IntSeq
    <3>2. \A i \in 1 .. n : miss[i] = readings[i].current - base - slope * (readings[i].at - readings[1].at)
      BY <1>2, <1>7
    <3> QED
      BY <1>13, <3>1, <3>2
  <2> QED
    BY <2>1 DEF SquaredError, WindowOf
<1>15. PICK square \in Int : square = scale * scale
  <2>1. scale * scale \in Int
    OBVIOUS
  <2> QED
    BY <2>1
<1>16. ASSUME NEW i \in 1 .. n PROVE vv[i] = Combined(square, mm[i], 0, mm[i], 0, mm[i], 0)
  <2>1. PICK c \in Int : c = miss[i]
    BY <1>1, IntSeqIs
  <2>2. vv[i] = (scale * c) * (scale * c) /\ mm[i] = c * c
    BY <1>8, <1>12, <1>13, <2>1
  <2>3. (scale * c) * (scale * c) = square * (c * c) + 0 * (c * c) + 0 * (c * c) + 0
    BY <1>15
  <2> QED
    BY <2>2, <2>3 DEF Combined
<1>17. Total(vv) = square * Total(mm)
  <2>1. Combines(vv, n, square, mm, 0, mm, 0, mm, 0)
    BY <1>16 DEF Combines
  <2>2. n \in Int /\ 0 \in Int /\ n * 0 = 0
    OBVIOUS
  <2>3. Total(vv) = Combined(square, Total(mm), 0, Total(mm), 0, Total(mm), n * 0)
    BY <1>1, <2>1, <2>2, TotalLinear
  <2>4. PICK t \in Int : t = Total(mm)
    BY <1>1, TotalInt
  <2>5. square * t + 0 * t + 0 * t + 0 = square * t
    OBVIOUS
  <2> QED
    BY <2>2, <2>3, <2>4, <2>5 DEF Combined
<1>18. ResidualSS(readings) = Total(Times(r, r))
  BY <1>4 DEF ResidualSS
<1> QED
  BY <1>3, <1>6, <1>11, <1>12, <1>14, <1>15, <1>17, <1>18

\* And no more than the variance there was.
LEMMA WithinTheVariance ==
    ASSUME NEW n \in Nat \ {0}, NEW readings, WindowOf(readings, n)
    PROVE  ResidualSS(readings) <= TotalSS(readings)
<1>1. n \in Nat
  OBVIOUS
<1>2. PICK x \in IntSeq(n), y \in IntSeq(n) : x = Xs(readings) /\ y = Ys(readings)
  BY AxesAre
<1>3. PICK run \in Int, rise \in Int, spread \in Int :
         run = Run(readings) /\ rise = Rise(readings) /\ spread = VarianceY(readings)
  BY <1>2, SumsAre
<1>4. PICK r \in IntSeq(n) :
         /\ r = Residuals(readings) /\ Total(r) = 0 /\ Total(Times(r, x)) = 0
         /\ \A i \in 1 .. n : r[i] = run * (n * y[i] - Total(y)) - rise * (n * x[i] - Total(x))
  BY <1>2, <1>3, ResidualsAre
<1>5. PICK sx \in Int, sy \in Int : sx = Total(x) /\ sy = Total(y)
  BY <1>1, TotalInt
<1>6. PICK cy \in IntSeq(n) : cy = Centred(y) /\ \A i \in 1 .. n : cy[i] = n * y[i] - Total(y)
  BY <1>1, CentredIs
<1>7. PICK v \in IntSeq(n) : \A i \in 1 .. n : v[i] = run * cy[i]
  <2>1. ASSUME NEW i \in 1 .. n PROVE run * cy[i] \in Int
    <3>1. PICK a \in Int : a = cy[i]
      BY <1>1, IntSeqIs
    <3>2. run * a \in Int
      OBVIOUS
    <3> QED
      BY <3>1, <3>2
  <2>2. [i \in 1 .. n |-> run * cy[i]] \in IntSeq(n)
    BY <2>1 DEF IntSeq
  <2> QED
    BY <2>2
<1>8. PICK a \in Int, b \in Int : a = - (rise * sx) /\ b = rise * n
  <2>1. - (rise * sx) \in Int /\ rise * n \in Int
    OBVIOUS
  <2> QED
    BY <2>1
<1>9. ASSUME NEW i \in 1 .. n PROVE v[i] = Combined(1, r[i], b, x[i], 0, x[i], a)
  <2>1. PICK c \in Int, d \in Int, f \in Int : c = x[i] /\ d = y[i] /\ f = r[i]
    BY <1>1, IntSeqIs
  <2>2. v[i] = run * (n * d - sy) /\ r[i] = run * (n * d - sy) - rise * (n * c - sx)
    BY <1>4, <1>5, <1>6, <1>7, <2>1
  <2>3. PICK e \in Int : e = run * (n * d - sy)
    <3>1. run * (n * d - sy) \in Int
      OBVIOUS
    <3> QED
      BY <3>1
  <2>4. e = e - rise * (n * c - sx) + - (rise * sx) + (rise * n) * c
    OBVIOUS
  <2>5. v[i] = f + a + b * c /\ b * c \in Int
    BY <1>8, <2>1, <2>2, <2>3, <2>4
  <2> QED
    BY <2>1, <2>5 DEF Combined
<1>10. Total(Times(r, r)) <= Total(Times(v, v))
  <2>1. Combines(v, n, 1, r, b, x, 0, x, a)
    BY <1>9 DEF Combines
  <2> QED
    BY <1>1, <1>4, <2>1, Orthogonal
<1>11. PICK vv \in IntSeq(n) : vv = Times(v, v) /\ \A i \in 1 .. n : vv[i] = v[i] * v[i]
  BY <1>1, TimesIs
<1>12. PICK cc \in IntSeq(n) : cc = Times(cy, cy) /\ \A i \in 1 .. n : cc[i] = cy[i] * cy[i]
  BY <1>1, TimesIs
<1>13. Total(cc) = n * spread
  BY <1>1, <1>2, <1>3, <1>6, <1>12, SumsAre, CentredSquares
<1>14. PICK square \in Int : square = run * run
  <2>1. run * run \in Int
    OBVIOUS
  <2> QED
    BY <2>1
<1>15. ASSUME NEW i \in 1 .. n PROVE vv[i] = Combined(square, cc[i], 0, cc[i], 0, cc[i], 0)
  <2>1. PICK c \in Int : c = cy[i]
    BY <1>1, IntSeqIs
  <2>2. vv[i] = (run * c) * (run * c) /\ cc[i] = c * c
    BY <1>7, <1>11, <1>12, <2>1
  <2>3. (run * c) * (run * c) = square * (c * c) + 0 * (c * c) + 0 * (c * c) + 0
    BY <1>14
  <2> QED
    BY <2>2, <2>3 DEF Combined
<1>16. Total(vv) = square * (n * spread)
  <2>1. Combines(vv, n, square, cc, 0, cc, 0, cc, 0)
    BY <1>15 DEF Combines
  <2>2. n \in Int /\ 0 \in Int /\ n * 0 = 0
    OBVIOUS
  <2>3. Total(vv) = Combined(square, Total(cc), 0, Total(cc), 0, Total(cc), n * 0)
    BY <1>1, <2>1, <2>2, TotalLinear
  <2>4. PICK t \in Int : t = Total(cc)
    BY <1>1, TotalInt
  <2>5. square * t + 0 * t + 0 * t + 0 = square * t
    OBVIOUS
  <2> QED
    BY <1>13, <2>2, <2>3, <2>4, <2>5 DEF Combined
<1>17. TotalSS(readings) = square * (n * spread)
  <2>1. TotalSS(readings) = run * run * n * spread
    BY <1>3 DEF TotalSS, WindowOf
  <2>2. square * n * spread = square * (n * spread)
    OBVIOUS
  <2> QED
    BY <1>14, <2>1, <2>2
<1>18. ResidualSS(readings) = Total(Times(r, r))
  BY <1>4 DEF ResidualSS
<1> QED
  BY <1>10, <1>11, <1>16, <1>17, <1>18

\* What never falls from one place to the next never falls at all.
LEMMA Ascending ==
    ASSUME NEW n \in Nat, NEW f \in IntSeq(n), \A i \in 1 .. n - 1 : f[i] <= f[i + 1]
    PROVE  \A i, j \in 1 .. n : i <= j => f[i] <= f[j]
<1> SUFFICES ASSUME NEW i \in 1 .. n PROVE \A j \in 1 .. n : i <= j => f[i] <= f[j]
  OBVIOUS
<1> DEFINE T == {j \in i .. n : ~ (f[i] <= f[j])}
<1>1. T = {}
  <2> SUFFICES ASSUME T # {} PROVE FALSE
    OBVIOUS
  <2>1. PICK j \in T : \A k \in T : j <= k
    <3>1. T \subseteq Nat /\ T # {}
      OBVIOUS
    <3> HIDE DEF T
    <3> QED
      BY <3>1, LeastExists
  <2>2. j \in i .. n /\ ~ (f[i] <= f[j])
    BY <2>1
  <2>3. j # i
    <3>1. f[i] \in Int
      BY IntSeqIs
    <3> QED
      BY <2>2, <3>1
  <2>4. j - 1 \in i .. n /\ j - 1 \in 1 .. n - 1 /\ j \in 1 .. n /\ ~ (j <= j - 1) /\ (j - 1) + 1 = j
    BY <2>2, <2>3
  <2>5. f[i] <= f[j - 1]
    BY <2>1, <2>4
  <2>6. f[j - 1] <= f[j]
    BY <2>4
  <2>7. f[i] \in Int /\ f[j - 1] \in Int /\ f[j] \in Int
    BY <2>4, IntSeqIs
  <2> QED
    BY <2>2, <2>5, <2>6, <2>7
<1> QED
  BY <1>1

\* Chebyshev's sum inequality: two axes that never go the same way have no positive slope.
LEMMA Opposed ==
    ASSUME NEW n \in Nat, NEW x \in IntSeq(n), NEW y \in IntSeq(n),
           \A i, j \in 1 .. n : (x[i] - x[j]) * (y[i] - y[j]) <= 0
    PROVE  n * Total(Times(x, y)) - Total(x) * Total(y) <= 0
<1>1. PICK xy \in IntSeq(n) : xy = Times(x, y) /\ \A i \in 1 .. n : xy[i] = x[i] * y[i]
  BY TimesIs
<1>2. PICK sx \in Int, sy \in Int, sxy \in Int : sx = Total(x) /\ sy = Total(y) /\ sxy = Total(xy)
  BY TotalInt
<1>3. PICK mn \in Int, ms \in Int, mone \in Int : mn = - n /\ ms = - sxy /\ mone = - 1
  OBVIOUS
<1> DEFINE Against(j) == sy * x[j] + sx * y[j] + mn * xy[j] + ms
<1>4. ASSUME NEW j \in 1 .. n PROVE Against(j) \in Int /\ Against(j) >= 0
  <2>1. PICK a \in Int, b \in Int : a = x[j] /\ b = y[j]
    BY IntSeqIs
  <2>2. PICK c \in Int : c = - (a * b)
    <3>1. a * b \in Int
      OBVIOUS
    <3> QED
      BY <3>1
  <2>3. ASSUME NEW i \in 1 .. n
        PROVE  /\ Combined(mone, xy[i], a, y[i], b, x[i], c) \in Int
               /\ Combined(mone, xy[i], a, y[i], b, x[i], c) >= 0
    <3>1. PICK p \in Int, q \in Int : p = x[i] /\ q = y[i]
      BY IntSeqIs
    <3>2. (p - a) * (q - b) <= 0
      BY <2>1, <3>1
    <3>3. xy[i] = p * q
      BY <1>1, <3>1
    <3>4. mone * (p * q) + a * q + b * p + c = - ((p - a) * (q - b))
      BY <1>3, <2>2
    <3>5. PICK k \in Int : k = (p - a) * (q - b)
      <4>1. (p - a) * (q - b) \in Int
        OBVIOUS
      <4> QED
        BY <4>1
    <3>6. Combined(mone, xy[i], a, y[i], b, x[i], c) = mone * (p * q) + a * q + b * p + c
      BY <3>1, <3>3 DEF Combined
    <3>7. k <= 0 /\ Combined(mone, xy[i], a, y[i], b, x[i], c) = - k
      BY <3>2, <3>4, <3>5, <3>6
    <3> QED
      BY <3>7
  <2>4. PICK w \in IntSeq(n) : \A i \in 1 .. n : w[i] = Combined(mone, xy[i], a, y[i], b, x[i], c)
    <3> DEFINE W(i) == Combined(mone, xy[i], a, y[i], b, x[i], c)
    <3>1. \A i \in 1 .. n : W(i) \in Int
      BY <2>3
    <3> HIDE DEF W
    <3>2. [i \in 1 .. n |-> W(i)] \in IntSeq(n)
      BY <3>1 DEF IntSeq
    <3>3. PICK w \in IntSeq(n) : \A i \in 1 .. n : w[i] = W(i)
      BY <3>2
    <3> QED
      BY <3>3 DEF W
  <2>5. Combines(w, n, mone, xy, a, y, b, x, c)
    BY <2>4 DEF Combines
  <2>6. Total(w) = Combined(mone, Total(xy), a, Total(y), b, Total(x), n * c)
    BY <2>5, TotalLinear
  <2>7. Total(w) >= 0 /\ Total(w) \in Int
    BY <2>3, <2>4, TotalNotNegative
  <2>8. Total(w) = mone * sxy + a * sy + b * sx + n * c
    BY <1>2, <2>6 DEF Combined
  <2>9. Against(j) = sy * a + sx * b + mn * (a * b) + ms
    BY <1>1, <2>1
  <2>10. mone * sxy + a * sy + b * sx + n * c = sy * a + sx * b + mn * (a * b) + ms
    BY <1>3, <2>2
  <2> QED
    BY <2>7, <2>8, <2>9, <2>10
<1>5. PICK e \in IntSeq(n) : \A j \in 1 .. n : e[j] = Against(j)
  <2>1. [j \in 1 .. n |-> Against(j)] \in IntSeq(n)
    <3> HIDE DEF Against
    <3> QED
      BY <1>4 DEF IntSeq
  <2> QED
    BY <2>1
<1>6. Total(e) >= 0
  <2> HIDE DEF Against
  <2> QED
    BY <1>4, <1>5, TotalNotNegative
<1>7. Combines(e, n, sy, x, sx, y, mn, xy, ms)
  BY <1>5 DEF Combines, Combined
<1>8. Total(e) = Combined(sy, Total(x), sx, Total(y), mn, Total(xy), n * ms)
  BY <1>2, <1>3, <1>7, TotalLinear
<1>9. Total(e) = sy * sx + sx * sy + mn * sxy + n * ms
  BY <1>2, <1>8 DEF Combined
<1>10. sy * sx + sx * sy + mn * sxy + n * ms = - (2 * (n * sxy - sx * sy))
  BY <1>3
<1>11. n * sxy - sx * sy \in Int
  OBVIOUS
<1>12. PICK k \in Int : k = n * sxy - sx * sy
  BY <1>11
<1>13. - (2 * k) >= 0
  BY <1>6, <1>9, <1>10, <1>12
<1>14. k <= 0
  BY <1>13
<1> QED
  BY <1>1, <1>2, <1>12, <1>14

\* trend.go Analyse: what never climbs has no positive slope.
LEMMA NoClimbNoRise ==
    ASSUME NEW n \in Nat \ {0}, NEW readings, WindowOf(readings, n),
           \A i \in 1 .. n - 1 : readings[i].at <= readings[i + 1].at,
           \A i \in 1 .. n - 1 : readings[i + 1].current - readings[i].current <= 0
    PROVE  Rise(readings) <= 0
<1>1. n \in Nat
  OBVIOUS
<1>2. PICK x \in IntSeq(n), y \in IntSeq(n) :
         /\ x = Xs(readings) /\ \A i \in 1 .. n : x[i] = readings[i].at - readings[1].at
         /\ y = Ys(readings) /\ \A i \in 1 .. n : y[i] = readings[i].current
  BY AxesAre
<1>3. PICK down \in IntSeq(n) : \A i \in 1 .. n : down[i] = - y[i]
  <2>1. [i \in 1 .. n |-> - y[i]] \in IntSeq(n)
    BY <1>1, IntSeqIs DEF IntSeq
  <2> QED
    BY <2>1
<1>4. ASSUME NEW i \in 1 .. n - 1 PROVE x[i] <= x[i + 1] /\ down[i] <= down[i + 1]
  <2>1. i \in 1 .. n /\ i + 1 \in 1 .. n /\ 1 \in 1 .. n
    OBVIOUS
  <2>2. PICK a \in Int, b \in Int, c \in Int, d \in Int, s \in Int :
           /\ a = readings[i].at /\ b = readings[i + 1].at /\ s = readings[1].at
           /\ c = readings[i].current /\ d = readings[i + 1].current
    BY <2>1 DEF WindowOf
  <2>3. x[i] = a - s /\ x[i + 1] = b - s /\ y[i] = c /\ y[i + 1] = d /\ a <= b /\ d - c <= 0
    BY <1>2, <2>1, <2>2
  <2>4. down[i] = - c /\ down[i + 1] = - d
    BY <1>3, <2>1, <2>3
  <2> QED
    BY <2>3, <2>4
<1>5. \A i, j \in 1 .. n : i <= j => x[i] <= x[j]
  BY <1>1, <1>4, Ascending
<1>6. \A i, j \in 1 .. n : i <= j => down[i] <= down[j]
  BY <1>1, <1>4, Ascending
<1>7. ASSUME NEW i \in 1 .. n, NEW j \in 1 .. n PROVE (x[i] - x[j]) * (y[i] - y[j]) <= 0
  <2>1. PICK a \in Int, b \in Int, c \in Int, d \in Int : a = x[i] /\ b = x[j] /\ c = y[i] /\ d = y[j]
    BY <1>1, IntSeqIs
  <2>2. (a <= b /\ c >= d) \/ (a >= b /\ c <= d)
    BY <1>3, <1>5, <1>6, <2>1
  <2>3. PICK p \in Int, q \in Int : p = a - b /\ q = c - d
    OBVIOUS
  <2>4. (p <= 0 /\ q >= 0) \/ (p >= 0 /\ q <= 0)
    BY <2>2, <2>3
  <2>5. p * q <= 0
    BY <2>4
  <2> QED
    BY <2>1, <2>3, <2>5
<1>8. n * Total(Times(x, y)) - Total(x) * Total(y) <= 0
  BY <1>1, <1>7, Opposed
<1> QED
  BY <1>2, <1>8, SumsAre

\* A window that grows at bytes a gap lies on one line.
Steady(readings, n, bytes, gap) ==
    \A i \in 1 .. n - 1 :
        /\ readings[i + 1].at - readings[i].at > 0
        /\ (readings[i + 1].current - readings[i].current) * gap
              = bytes * (readings[i + 1].at - readings[i].at)

OnLine(x, y, i, bytes, gap) == x[i] >= i - 1 /\ gap * y[i] = bytes * x[i] + gap * y[1]

\* So every reading is on the line through the first.
LEMMA OnOneLine ==
    ASSUME NEW n \in Nat \ {0}, NEW readings, WindowOf(readings, n),
           NEW bytes \in Nat \ {0}, NEW gap \in Nat \ {0}, Steady(readings, n, bytes, gap),
           NEW x \in IntSeq(n), x = Xs(readings), NEW y \in IntSeq(n), y = Ys(readings)
    PROVE  \A i \in 1 .. n : OnLine(x, y, i, bytes, gap)
<1>1. n \in Nat /\ 1 \in 1 .. n
  OBVIOUS
<1>2. /\ \A i \in 1 .. n : x[i] = readings[i].at - readings[1].at
      /\ \A i \in 1 .. n : y[i] = readings[i].current
  BY AxesAre
<1> DEFINE Good(i) == OnLine(x, y, i, bytes, gap)
           T == {i \in 1 .. n : ~ Good(i)}
<1>3. Good(1)
  <2>1. x[1] = 0
    <3>1. readings[1].at \in Int
      BY <1>1 DEF WindowOf
    <3> QED
      BY <1>1, <1>2, <3>1
  <2>2. PICK c \in Int : c = y[1]
    BY <1>1, IntSeqIs
  <2>3. gap * c = bytes * 0 + gap * c
    OBVIOUS
  <2> QED
    BY <2>1, <2>2, <2>3 DEF OnLine
<1>4. ASSUME NEW i \in 1 .. n - 1, Good(i) PROVE Good(i + 1)
  <2>1. i \in 1 .. n /\ i + 1 \in 1 .. n
    OBVIOUS
  <2>2. PICK a \in Int, b \in Int, c \in Int, d \in Int, s \in Int :
           /\ a = readings[i].at /\ b = readings[i + 1].at /\ s = readings[1].at
           /\ c = readings[i].current /\ d = readings[i + 1].current
    BY <1>1, <2>1 DEF WindowOf
  <2>3. b - a > 0 /\ (d - c) * gap = bytes * (b - a)
    BY <2>2 DEF Steady
  <2>4. x[i] = a - s /\ x[i + 1] = b - s /\ y[i] = c /\ y[i + 1] = d
    BY <1>2, <2>1, <2>2
  <2>5. PICK e \in Int : e = y[1]
    BY <1>1, IntSeqIs
  <2>6. a - s >= i - 1 /\ gap * c = bytes * (a - s) + gap * e
    BY <1>4, <2>4, <2>5 DEF OnLine
  <2>7. b - s >= i
    BY <2>3, <2>6
  <2>8. gap * d = gap * c + (d - c) * gap /\ bytes * (b - s) = bytes * (a - s) + bytes * (b - a)
    OBVIOUS
  <2>9. gap * d = bytes * (b - s) + gap * e
    <3>1. PICK p \in Int, q \in Int, r \in Int, t \in Int, u \in Int :
             p = gap * c /\ q = bytes * (a - s) /\ r = gap * e /\ t = bytes * (b - a) /\ u = gap * d
      <4>1. gap * c \in Int /\ bytes * (a - s) \in Int /\ gap * e \in Int /\ bytes * (b - a) \in Int /\ gap * d \in Int
        OBVIOUS
      <4> QED
        BY <4>1
    <3>2. u = p + t /\ p = q + r
      BY <2>3, <2>6, <2>8, <3>1
    <3>3. u = q + t + r
      BY <3>2
    <3> QED
      BY <2>8, <3>1, <3>3
  <2>10. x[i + 1] >= (i + 1) - 1
    BY <2>4, <2>7
  <2>11. gap * y[i + 1] = bytes * x[i + 1] + gap * y[1]
    BY <2>4, <2>5, <2>9
  <2> QED
    BY <2>10, <2>11 DEF OnLine
<1>5. T = {}
  <2> SUFFICES ASSUME T # {} PROVE FALSE
    OBVIOUS
  <2> HIDE DEF Good
  <2>1. PICK i \in T : \A k \in T : i <= k
    <3>1. T \subseteq Nat /\ T # {}
      OBVIOUS
    <3> HIDE DEF T
    <3> QED
      BY <3>1, LeastExists
  <2>2. i \in 1 .. n /\ ~ Good(i)
    BY <2>1
  <2>3. i # 1
    BY <1>3, <2>2
  <2>4. PICK k \in 1 .. n - 1 : i = k + 1
    <3>1. i - 1 \in 1 .. n - 1 /\ i = (i - 1) + 1
      BY <2>2, <2>3
    <3> QED
      BY <3>1
  <2>5. k \in 1 .. n /\ ~ (i <= k)
    BY <2>4
  <2>6. Good(k)
    BY <2>1, <2>5
  <2> QED
    BY <1>4, <2>2, <2>4, <2>6
<1> HIDE DEF Good
<1>6. \A i \in 1 .. n : Good(i)
  BY <1>5
<1> QED
  BY <1>6 DEF Good

\* Its seconds are not all the same, so there is a slope.
LEMMA Spread ==
    ASSUME NEW n \in Nat, n >= 2, NEW readings, WindowOf(readings, n),
           NEW x \in IntSeq(n), x = Xs(readings), x[1] < x[n]
    PROVE  Run(readings) > 0
<1>1. n \in Nat \ {0} /\ 1 \in 1 .. n /\ n \in 1 .. n
  OBVIOUS
<1>2. PICK y \in IntSeq(n) : y = Ys(readings)
  BY <1>1, AxesAre
<1>3. PICK run \in Int : run = Run(readings) /\ run = Total(Times(Centred(x), x))
  BY <1>1, <1>2, SumsAre
<1>4. PICK sx \in Int : sx = Total(x)
  BY TotalInt
<1>5. PICK c \in IntSeq(n) : c = Centred(x) /\ \A i \in 1 .. n : c[i] = n * x[i] - Total(x)
  BY CentredIs
<1>6. PICK cc \in IntSeq(n) : cc = Times(c, c) /\ \A i \in 1 .. n : cc[i] = c[i] * c[i]
  BY TimesIs
<1>7. \A i \in 1 .. n : cc[i] >= 0
  <2> SUFFICES ASSUME NEW i \in 1 .. n PROVE cc[i] >= 0
    OBVIOUS
  <2>1. PICK a \in Int : a = c[i]
    BY IntSeqIs
  <2>2. a * a >= 0
    OBVIOUS
  <2> QED
    BY <1>6, <2>1, <2>2
<1>8. cc[1] <= n * run /\ cc[n] <= n * run
  BY <1>1, <1>3, <1>5, <1>6, <1>7, TotalNotNegative, CentredSquares
<1>9. PICK a \in Int, b \in Int : a = x[1] /\ b = x[n] /\ a < b
  BY <1>1, IntSeqIs
<1>10. PICK p \in Int, q \in Int : p = n * a - sx /\ q = n * b - sx
  <2>1. n * a - sx \in Int /\ n * b - sx \in Int
    OBVIOUS
  <2> QED
    BY <2>1
<1>11. p < q
  <2>1. PICK d \in Nat \ {0} : b = a + d
    <3>1. b - a \in Nat \ {0} /\ b = a + (b - a)
      BY <1>9
    <3> QED
      BY <3>1
  <2>2. n * b = n * a + n * d /\ n * d > 0
    BY <2>1
  <2> QED
    BY <1>10, <2>2
<1>12. cc[1] = p * p /\ cc[n] = q * q
  BY <1>1, <1>4, <1>5, <1>6, <1>9, <1>10
<1>13. p * p > 0 \/ q * q > 0
  BY <1>11
<1>14. n * run > 0
  <2>1. p * p \in Int /\ q * q \in Int /\ n * run \in Int
    OBVIOUS
  <2> QED
    BY <1>8, <1>12, <1>13, <2>1
<1>15. run > 0
  BY <1>14
<1> QED
  BY <1>3, <1>15

\* The slope is its rate, and nothing is left over.
LEMMA SteadyFit ==
    ASSUME NEW n \in Nat, n >= 2, NEW readings, WindowOf(readings, n),
           NEW bytes \in Nat \ {0}, NEW gap \in Nat \ {0}, Steady(readings, n, bytes, gap)
    PROVE  /\ Run(readings) \in Int /\ Run(readings) > 0
           /\ Rise(readings) \in Int /\ gap * Rise(readings) = bytes * Run(readings)
           /\ ResidualSS(readings) = 0
<1>1. n \in Nat \ {0} /\ 1 \in 1 .. n /\ n \in 1 .. n
  OBVIOUS
<1>2. PICK x \in IntSeq(n), y \in IntSeq(n) :
         /\ x = Xs(readings) /\ \A i \in 1 .. n : x[i] = readings[i].at - readings[1].at
         /\ y = Ys(readings)
  BY <1>1, AxesAre
<1>3. \A i \in 1 .. n : x[i] >= i - 1 /\ gap * y[i] = bytes * x[i] + gap * y[1]
  <2>1. \A i \in 1 .. n : OnLine(x, y, i, bytes, gap)
    BY <1>1, <1>2, OnOneLine
  <2> QED
    BY <2>1 DEF OnLine
<1>4. x[1] < x[n]
  <2>1. readings[1].at \in Int
    BY <1>1 DEF WindowOf
  <2>2. x[1] = 0
    BY <1>1, <1>2, <2>1
  <2>3. x[n] >= n - 1 /\ x[n] \in Int
    BY <1>1, <1>3, IntSeqIs
  <2> QED
    BY <2>2, <2>3
<1>5. PICK run \in Int, rise \in Int : run = Run(readings) /\ rise = Rise(readings)
  BY <1>1, <1>2, SumsAre
<1>6. run > 0
  BY <1>2, <1>4, <1>5, Spread
<1>7. PICK e \in Int, h \in Int : e = y[1] /\ h = gap * e
  <2>1. y[1] \in Int
    BY <1>1, IntSeqIs
  <2>2. PICK e \in Int : e = y[1]
    BY <2>1
  <2>3. gap * e \in Int
    OBVIOUS
  <2> QED
    BY <2>2, <2>3
<1>8. PICK xx \in IntSeq(n) : xx = Times(x, x) /\ \A i \in 1 .. n : xx[i] = x[i] * x[i]
  BY TimesIs
<1>9. PICK xy \in IntSeq(n) : xy = Times(x, y) /\ \A i \in 1 .. n : xy[i] = x[i] * y[i]
  BY TimesIs
<1>10. PICK sx \in Int, sy \in Int, sxx \in Int, sxy \in Int :
          sx = Total(x) /\ sy = Total(y) /\ sxx = Total(xx) /\ sxy = Total(xy)
  BY TotalInt
<1>11. 0 \in Int /\ gap \in Int /\ bytes \in Int /\ n \in Int
  OBVIOUS
\* Every sum follows the line.
<1>12. gap * sy = bytes * sx + n * h
  <2>1. PICK gy \in IntSeq(n) : \A i \in 1 .. n : gy[i] = gap * y[i]
    <3>1. \A i \in 1 .. n : gap * y[i] \in Int
      BY IntSeqIs
    <3>2. [i \in 1 .. n |-> gap * y[i]] \in IntSeq(n)
      BY <3>1 DEF IntSeq
    <3> QED
      BY <3>2
  <2>2. ASSUME NEW i \in 1 .. n
        PROVE  /\ gy[i] = Combined(gap, y[i], 0, x[i], 0, x[i], 0)
               /\ gy[i] = Combined(bytes, x[i], 0, x[i], 0, x[i], h)
    <3>1. PICK a \in Int, b \in Int : a = x[i] /\ b = y[i]
      BY IntSeqIs
    <3>2. gy[i] = gap * b /\ gy[i] = bytes * a + h
      BY <1>3, <1>7, <2>1, <3>1
    <3>3. gap * b \in Int /\ bytes * a \in Int /\ 0 * a = 0
      OBVIOUS
    <3> QED
      BY <3>1, <3>2, <3>3 DEF Combined
  <2>3. Combines(gy, n, gap, y, 0, x, 0, x, 0) /\ Combines(gy, n, bytes, x, 0, x, 0, x, h)
    BY <2>2 DEF Combines
  <2>4. Total(gy) = Combined(gap, Total(y), 0, Total(x), 0, Total(x), n * 0)
    BY <1>11, <2>3, TotalLinear
  <2>5. Total(gy) = Combined(bytes, Total(x), 0, Total(x), 0, Total(x), n * h)
    BY <1>11, <2>3, TotalLinear
  <2>6. gap * sy + 0 * sx + 0 * sx + n * 0 = bytes * sx + 0 * sx + 0 * sx + n * h
    BY <1>10, <2>4, <2>5 DEF Combined
  <2>7. gap * sy \in Int /\ bytes * sx \in Int /\ n * h \in Int /\ 0 * sx = 0 /\ n * 0 = 0
    OBVIOUS
  <2> QED
    BY <2>6, <2>7
<1>13. gap * sxy = bytes * sxx + h * sx
  <2>1. PICK gxy \in IntSeq(n) : \A i \in 1 .. n : gxy[i] = gap * xy[i]
    <3>1. \A i \in 1 .. n : gap * xy[i] \in Int
      BY IntSeqIs
    <3>2. [i \in 1 .. n |-> gap * xy[i]] \in IntSeq(n)
      BY <3>1 DEF IntSeq
    <3> QED
      BY <3>2
  <2>2. ASSUME NEW i \in 1 .. n
        PROVE  /\ gxy[i] = Combined(gap, xy[i], 0, x[i], 0, x[i], 0)
               /\ gxy[i] = Combined(bytes, xx[i], h, x[i], 0, x[i], 0)
    <3>1. PICK a \in Int, b \in Int : a = x[i] /\ b = y[i]
      BY IntSeqIs
    <3>2. gxy[i] = gap * (a * b) /\ xy[i] = a * b /\ xx[i] = a * a /\ gap * b = bytes * a + h
      BY <1>3, <1>7, <1>8, <1>9, <2>1, <3>1
    <3>3. gap * (a * b) = a * (gap * b)
      OBVIOUS
    <3>4. a * (bytes * a + h) = bytes * (a * a) + h * a
      OBVIOUS
    <3>5. gap * (a * b) = bytes * (a * a) + h * a
      BY <3>2, <3>3, <3>4
    <3>6. gap * (a * b) \in Int /\ bytes * (a * a) \in Int /\ h * a \in Int /\ 0 * a = 0
      OBVIOUS
    <3> QED
      BY <3>1, <3>2, <3>5, <3>6 DEF Combined
  <2>3. Combines(gxy, n, gap, xy, 0, x, 0, x, 0) /\ Combines(gxy, n, bytes, xx, h, x, 0, x, 0)
    BY <2>2 DEF Combines
  <2>4. Total(gxy) = Combined(gap, Total(xy), 0, Total(x), 0, Total(x), n * 0)
    BY <1>11, <2>3, TotalLinear
  <2>5. Total(gxy) = Combined(bytes, Total(xx), h, Total(x), 0, Total(x), n * 0)
    BY <1>11, <2>3, TotalLinear
  <2>6. gap * sxy + 0 * sx + 0 * sx + n * 0 = bytes * sxx + h * sx + 0 * sx + n * 0
    BY <1>10, <2>4, <2>5 DEF Combined
  <2>7. gap * sxy \in Int /\ bytes * sxx \in Int /\ h * sx \in Int /\ 0 * sx = 0 /\ n * 0 = 0
    OBVIOUS
  <2> QED
    BY <2>6, <2>7
<1>14. gap * rise = bytes * run
  <2>1. run = n * sxx - sx * sx /\ rise = n * sxy - sx * sy
    BY <1>1, <1>2, <1>5, <1>8, <1>9, <1>10, SumsAre
  <2>2. gap * (n * sxy - sx * sy) = n * (gap * sxy) - sx * (gap * sy)
    OBVIOUS
  <2>3. n * (bytes * sxx + h * sx) - sx * (bytes * sx + n * h) = bytes * (n * sxx - sx * sx)
    OBVIOUS
  <2> QED
    BY <1>12, <1>13, <2>1, <2>2, <2>3
<1>15. PICK r \in IntSeq(n) :
          /\ r = Residuals(readings)
          /\ \A i \in 1 .. n : r[i] = run * (n * y[i] - Total(y)) - rise * (n * x[i] - Total(x))
  BY <1>1, <1>2, <1>5, ResidualsAre
<1>16. ASSUME NEW i \in 1 .. n PROVE r[i] = 0
  <2>1. PICK a \in Int, b \in Int : a = x[i] /\ b = y[i]
    BY IntSeqIs
  <2>2. r[i] = run * (n * b - sy) - rise * (n * a - sx)
    BY <1>10, <1>15, <2>1
  <2>3. gap * (run * (n * b - sy) - rise * (n * a - sx))
          = run * (n * (gap * b) - gap * sy) - (gap * rise) * (n * a - sx)
    OBVIOUS
  <2>4. gap * b = bytes * a + h
    BY <1>3, <1>7, <2>1
  <2>5. run * (n * (bytes * a + h) - (bytes * sx + n * h)) - (bytes * run) * (n * a - sx) = 0
    OBVIOUS
  <2>6. PICK k \in Int : k = run * (n * b - sy) - rise * (n * a - sx)
    <3>1. run * (n * b - sy) - rise * (n * a - sx) \in Int
      OBVIOUS
    <3> QED
      BY <3>1
  <2>7. gap * k = 0
    BY <1>12, <1>14, <2>3, <2>4, <2>5, <2>6
  <2>8. k = 0
    BY <2>7
  <2> QED
    BY <2>2, <2>6, <2>8
<1>17. ResidualSS(readings) = 0
  <2>1. PICK rr \in IntSeq(n) : rr = Times(r, r) /\ \A i \in 1 .. n : rr[i] = r[i] * r[i]
    BY TimesIs
  <2>2. ASSUME NEW i \in 1 .. n PROVE rr[i] = Combined(0, r[i], 0, r[i], 0, r[i], 0)
    <3>1. r[i] = 0 /\ 0 * 0 = 0
      BY <1>16
    <3> QED
      BY <2>1, <3>1 DEF Combined
  <2>3. Combines(rr, n, 0, r, 0, r, 0, r, 0)
    BY <2>2 DEF Combines
  <2>4. Total(rr) = Combined(0, Total(r), 0, Total(r), 0, Total(r), n * 0)
    BY <1>11, <2>3, TotalLinear
  <2>5. PICK k \in Int : k = Total(r)
    BY TotalInt
  <2>6. 0 * k + 0 * k + 0 * k + n * 0 = 0
    OBVIOUS
  <2>7. Total(rr) = 0
    BY <2>4, <2>5, <2>6 DEF Combined
  <2> QED
    BY <1>15, <2>1, <2>7 DEF ResidualSS
<1> QED
  BY <1>5, <1>6, <1>14, <1>17

-----------------------------------------------------------------------------
\* The readings of a container are such a window.
LEMMA ReadingsAreAWindow ==
    ASSUME HistoryInv
    PROVE  WindowOf(Readings, Len(Readings)) /\ Len(Readings) \in Nat
<1>1. \A i \in 1 .. Len(Readings) : Readings[i].at \in Int /\ Readings[i].current \in Int
  <2> SUFFICES ASSUME NEW i \in 1 .. Len(Readings)
               PROVE  Readings[i].at \in Int /\ Readings[i].current \in Int
    OBVIOUS
  <2>1. Readings[i].at \in 0 .. MaxTime /\ Readings[i].current \in 0 .. MaxBytes
    BY PointsAre DEF HistoryInv, ReadingsFit, ReadingUnder
  <2> QED
    BY <2>1, HistoryAssumption
<1> QED
  BY <1>1, PointsAre DEF WindowOf

\* trend.go fitSlope: no other line fits the readings of a container better, and the fit
\* leaves no more than there was to explain, so that the clamps only catch rounding.
THEOREM HistoryTrendIsLeastSquares == HistorySpec => []TrendIsLeastSquares
<1>1. ASSUME HistoryInv PROVE TrendIsLeastSquares
  <2>1. PICK n, readings : n \in Nat /\ n = Len(Readings) /\ readings = Readings
    BY <1>1, ReadingsAreAWindow
  <2> SUFFICES ASSUME n >= 2
               PROVE  /\ \A base \in 0 .. MaxBytes, slope \in -1 .. 1 :
                            ResidualSS(readings)
                              <= (n * Run(readings)) * (n * Run(readings)) * SquaredError(readings, base, slope)
                      /\ ResidualSS(readings) <= TotalSS(readings)
    BY <2>1 DEF TrendIsLeastSquares, Fitted
  <2>2. n \in Nat /\ n \in Nat \ {0} /\ WindowOf(readings, n)
    BY <1>1, <2>1, ReadingsAreAWindow
  <2>3. \A base \in 0 .. MaxBytes, slope \in -1 .. 1 : base \in Int /\ slope \in Int
    BY HistoryAssumption
  <2> QED
    BY <2>2, <2>3, FitIsLeastSquares, WithinTheVariance
<1> QED
  BY <1>1, HistoryInvariant, PTL

\* Cancelling what is positive.
LEMMA SameRate ==
    ASSUME NEW left \in Nat, NEW seconds \in Nat, NEW run \in Nat \ {0}, NEW rise \in Int,
           NEW bytes \in Nat \ {0}, NEW gap \in Nat \ {0}, gap * rise = bytes * run
    PROVE  /\ rise > 0
           /\ (left * run) * bytes = (left * gap) * rise
           /\ left * run < seconds * rise <=> left * gap < seconds * bytes
<1>1. bytes * run \in Nat \ {0}
  OBVIOUS
<1>2. rise > 0
  BY <1>1
<1>3. (left * run) * bytes = (left * gap) * rise
  <2>1. (left * run) * bytes = left * (bytes * run) /\ (left * gap) * rise = left * (gap * rise)
    OBVIOUS
  <2> QED
    BY <2>1
<1>4. PICK p \in Int, q \in Int : p = left * run /\ q = seconds * rise
  <2>1. left * run \in Int /\ seconds * rise \in Int
    OBVIOUS
  <2> QED
    BY <2>1
<1>5. PICK s \in Int, t \in Int : s = left * gap /\ t = seconds * bytes
  <2>1. left * gap \in Int /\ seconds * bytes \in Int
    OBVIOUS
  <2> QED
    BY <2>1
<1>6. gap * p = run * s /\ gap * q = run * t
  <2>1. gap * (left * run) = run * (left * gap) /\ gap * (seconds * rise) = seconds * (gap * rise)
    OBVIOUS
  <2>2. seconds * (bytes * run) = run * (seconds * bytes)
    OBVIOUS
  <2> QED
    BY <1>4, <1>5, <2>1, <2>2
<1>7. p < q <=> gap * p < gap * q
  OBVIOUS
<1>8. s < t <=> run * s < run * t
  OBVIOUS
<1> QED
  BY <1>2, <1>3, <1>4, <1>5, <1>6, <1>7, <1>8

\* trend.go Analyse: a container that grows at one rate is a perfect fit and projected at
\* that rate to its limit, and one that never grows is not projected at all.
THEOREM HistoryProjectionFollowsGrowth == HistorySpec => []ProjectionFollowsGrowth
<1>1. ASSUME HistoryInv PROVE ProjectionFollowsGrowth
  <2>1. PICK n, readings : n \in Nat /\ n = Len(Readings) /\ readings = Readings
    BY <1>1, ReadingsAreAWindow
  <2> DEFINE Climb(i) == readings[i + 1].current - readings[i].current
             Gap(i) == readings[i + 1].at - readings[i].at
  <2> SUFFICES ASSUME n >= 2
               PROVE  /\ (\A i \in 1 .. n - 1 : Climb(i) <= 0) => ~ Projected(readings)
                      /\ \A bytes \in 1 .. MaxBytes, gap \in 1 .. MaxGap :
                            (\A i \in 1 .. n - 1 : Gap(i) > 0 /\ Climb(i) * gap = bytes * Gap(i))
                                /\ ceiling # Uncapped
                            => LET seconds == TimeToLimit(readings)
                                   fit     == RSquared(readings)
                                   left    == IF readings[n].current > ceiling THEN 0
                                              ELSE ceiling - readings[n].current
                               IN  /\ fit[1] = fit[2]
                                   /\ seconds[1] * bytes = left * gap * seconds[2]
                                   /\ Projected(readings) <=> left * gap < MaxSeconds * bytes
    BY <2>1 DEF ProjectionFollowsGrowth
  <2>2. n \in Nat /\ n \in Nat \ {0} /\ WindowOf(readings, n) /\ Len(readings) = n
    BY <1>1, <2>1, ReadingsAreAWindow
  <2>3. \A i \in 1 .. n - 1 : readings[i].at <= readings[i + 1].at
    BY <1>1, <2>1 DEF HistoryInv, TimesInOrder
  <2>4. ASSUME \A i \in 1 .. n - 1 : Climb(i) <= 0 PROVE ~ Projected(readings)
    <3>1. Rise(readings) <= 0
      BY <2>2, <2>3, <2>4, NoClimbNoRise
    <3>2. Rise(readings) \in Int
      BY <2>2, AxesAre, SumsAre
    <3> QED
      BY <3>1, <3>2 DEF Projected
  <2>5. ASSUME NEW bytes \in 1 .. MaxBytes, NEW gap \in 1 .. MaxGap, ceiling # Uncapped,
               \A i \in 1 .. n - 1 : Gap(i) > 0 /\ Climb(i) * gap = bytes * Gap(i)
        PROVE  LET seconds == TimeToLimit(readings)
                   fit     == RSquared(readings)
                   left    == IF readings[n].current > ceiling THEN 0
                              ELSE ceiling - readings[n].current
               IN  /\ fit[1] = fit[2]
                   /\ seconds[1] * bytes = left * gap * seconds[2]
                   /\ Projected(readings) <=> left * gap < MaxSeconds * bytes
    <3>1. bytes \in Nat \ {0} /\ gap \in Nat \ {0} /\ Steady(readings, n, bytes, gap)
      BY <2>5, HistoryAssumption DEF Steady
    <3>2. PICK run \in Nat \ {0}, rise \in Int :
             run = Run(readings) /\ rise = Rise(readings) /\ gap * rise = bytes * run
      <4>1. Run(readings) \in Int /\ Run(readings) > 0
        BY <2>2, <3>1, SteadyFit
      <4>2. Rise(readings) \in Int /\ gap * Rise(readings) = bytes * Run(readings)
        BY <2>2, <3>1, SteadyFit
      <4>3. Run(readings) \in Nat \ {0}
        BY <4>1
      <4> QED
        BY <4>2, <4>3
    <3>3. ResidualSS(readings) = 0
      BY <2>2, <3>1, SteadyFit
    <3>4. RSquared(readings)[1] = RSquared(readings)[2]
      <4>1. PICK total : total = TotalSS(readings)
        OBVIOUS
      <4>2. 0 <= total
        BY <2>2, <3>3, <4>1, WithinTheVariance
      <4>3. total \in Int
        <5>1. PICK spread \in Int : spread = VarianceY(readings)
          BY <2>2, AxesAre, SumsAre
        <5>2. total = run * run * n * spread
          BY <2>2, <3>2, <4>1, <5>1 DEF TotalSS
        <5>3. run * run * n * spread \in Int
          BY <2>2
        <5> QED
          BY <5>2, <5>3
      <4>4. RSquared(readings) = IF total = 0 THEN <<1, 1>> ELSE <<total - 0, total>>
        BY <3>3, <4>1, <4>2, <4>3 DEF RSquared
      <4>5. CASE total = 0
        BY <4>4, <4>5
      <4>6. CASE total # 0
        BY <4>3, <4>4, <4>6
      <4> QED
        BY <4>5, <4>6
    <3>5. /\ n \in 1 .. Len(Readings) /\ readings[n].current \in 0 .. MaxBytes
          /\ readings[n].limit = ceiling
      BY <1>1, <2>1, <2>5, PointsAre DEF LimitUnder
    <3>6. readings[n].current \in Nat /\ ceiling \in Nat /\ ceiling > 0 /\ ceiling < Unlimited /\ Unlimited \in Nat
      BY <1>1, <2>5, <3>5, HistoryAssumption, MemoryFilesAssumption DEF HistoryInv
    <3>7. PICK left \in Nat :
             /\ left = Headroom(readings[n])
             /\ left = IF readings[n].current > ceiling THEN 0 ELSE ceiling - readings[n].current
      <4>1. PICK used \in Nat, limit \in Nat : used = readings[n].current /\ limit = ceiling
        BY <3>6
      <4>2. Headroom(readings[n]) = IF used >= limit THEN 0 ELSE limit - used
        BY <3>5, <3>6, <4>1 DEF Headroom
      <4>3. (IF used >= limit THEN 0 ELSE limit - used) = IF used > limit THEN 0 ELSE limit - used
        OBVIOUS
      <4>4. (IF used > limit THEN 0 ELSE limit - used) \in Nat
        OBVIOUS
      <4> QED
        BY <4>1, <4>2, <4>3, <4>4
    <3>8. MaxSeconds \in Nat
      BY TrendAssumption
    <3>9. /\ rise > 0 /\ (left * run) * bytes = (left * gap) * rise
          /\ left * run < MaxSeconds * rise <=> left * gap < MaxSeconds * bytes
      BY <3>1, <3>2, <3>8, SameRate
    <3>10. TimeToLimit(readings) = <<left * run, rise>>
      BY <2>2, <3>2, <3>7 DEF TimeToLimit
    <3>11. Projected(readings) <=> left * run < MaxSeconds * rise
      <4>1. Capped(readings[n]) /\ Fitted(readings)
        BY <2>2, <3>2, <3>5, <3>6 DEF Capped, Fitted
      <4> QED
        BY <2>2, <3>2, <3>7, <3>9, <4>1 DEF Projected, FitsDuration
    <3> HIDE DEF Climb, Gap
    <3> QED
      BY <3>4, <3>7, <3>9, <3>10, <3>11
  <2> HIDE DEF Climb, Gap
  <2> QED
    BY <2>4, <2>5
<1> QED
  BY <1>1, HistoryInvariant, PTL
=============================================================================
