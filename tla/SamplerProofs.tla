---------------------------- MODULE SamplerProofs ----------------------------
(***************************************************************************)
(* The sampler keeps the history of a vanished cgroup for the retention    *)
(* window, whatever the cgroups do and however passes and time interleave; *)
(* and what it has seen before a kill waits, within that window, for the   *)
(* kill to be handled.                                                     *)
(***************************************************************************)
EXTENDS Evidence, RingProofs

\* A history that is held has a sample, taken by a pass that has begun.
SamplesBelongToPasses ==
    \A p \in DOMAIN rings : /\ Latest(rings[p]) \in Time
                            /\ Latest(rings[p]) <= now

\* What this pass has read is held, and outside a pass none of it is marked.
LiveIsHeld ==
    /\ live \subseteq DOMAIN rings
    /\ pc # "reading" => live \cap DOMAIN vanishedAt = {}

Inv == TypeOK /\ now <= clock /\ SamplesBelongToPasses /\ MarksAreSound /\ LiveIsHeld

\* The steps that leave histories, marks and the pass alone.
Outside == pass' = pass /\ rings' = rings /\ vanishedAt' = vanishedAt

LEMMA InitOK == Init => Inv
<1> SUFFICES ASSUME Init PROVE Inv
  OBVIOUS
<1>1. DOMAIN rings = {} /\ DOMAIN vanishedAt = {}
  BY DEF Init
<1>2. TypeOK /\ now <= clock
  BY <1>1, SamplerAssumption DEF Init, TypeOK, Time
<1> QED
  BY <1>1, <1>2 DEF Init, Inv, SamplesBelongToPasses, MarksAreSound, LiveIsHeld

\* The environment: time passes, cgroups come and go.
LEMMA EnvironmentOK ==
    ASSUME Inv, Outside,
           exists' \subseteq Path, clock' \in Time, clock' >= clock
    PROVE  Inv'
<1>1. TypeOK'
  BY DEF Inv, Outside, TypeOK, pass
<1>2. now' <= clock'
  BY SamplerAssumption DEF Inv, Outside, TypeOK, pass, Time
<1> QED
  BY <1>1, <1>2
     DEF Inv, Outside, pass, SamplesBelongToPasses, MarksAreSound, LiveIsHeld

\* sampler.go Collect, up to the first read: the pass gets its time.
LEMMA BeginPassOK == ASSUME Inv, BeginPass PROVE Inv'
<1>1. /\ pc # "reading" /\ pc' = "reading" /\ pending' \subseteq exists
      /\ now' = clock /\ live' = {}
      /\ exists' = exists /\ clock' = clock
      /\ rings' = rings /\ vanishedAt' = vanishedAt
  BY DEF BeginPass
<1>2. now \in Int /\ clock \in Int /\ now <= clock
  BY SamplerAssumption DEF Inv, TypeOK, Time
<1>3. TypeOK'
  BY <1>1 DEF Inv, TypeOK
<1>4. SamplesBelongToPasses'
  BY <1>1, <1>2, SamplerAssumption DEF Inv, SamplesBelongToPasses, Time
<1>5. MarksAreSound'
  <2>1. \A p \in DOMAIN vanishedAt : p \notin live /\ vanishedAt[p] \in Int
    BY <1>1, SamplerAssumption DEF Inv, LiveIsHeld, TypeOK, Time
  <2> QED
    BY <1>1, <1>2, <2>1 DEF Inv, MarksAreSound
<1> QED
  BY <1>1, <1>2, <1>3, <1>4, <1>5 DEF Inv, LiveIsHeld

\* sampler.go record: the new newest sample is of this pass.
LEMMA ReadCgroupOK == ASSUME Inv, NEW p \in Path, ReadCgroup(p) PROVE Inv'
<1> DEFINE r == RingOf(p)
<1>1. /\ pc = "reading" /\ pc' = pc /\ live' = live \cup {p}
      /\ pending' = pending \ {p} /\ now' = now
      /\ exists' = exists /\ clock' = clock /\ vanishedAt' = vanishedAt
      /\ rings' = [q \in DOMAIN rings \cup {p} |-> IF q = p THEN Add(r, now) ELSE rings[q]]
  BY DEF ReadCgroup
<1>2. now \in Sample
  BY SamplerAssumption DEF Inv, TypeOK
<1>3. r \in RingType
  BY CapacityAssumption DEF Inv, TypeOK, RingOf, NewRing, RingType, Slots
<1>4. Add(r, now) \in RingType
  BY <1>2, <1>3, AddType
<1>5. Latest(Add(r, now)) = now
  BY <1>2, <1>3, LatestIsLastAdded
<1> HIDE DEF r
<1>6. /\ DOMAIN rings' = DOMAIN rings \cup {p}
      /\ rings'[p] = Add(r, now)
      /\ \A q \in DOMAIN rings : q # p => rings'[q] = rings[q]
  BY <1>1
<1>7. TypeOK'
  BY <1>1, <1>4, <1>6 DEF Inv, TypeOK
<1>8. SamplesBelongToPasses'
  BY <1>1, <1>2, <1>5, <1>6, SamplerAssumption DEF Inv, SamplesBelongToPasses, Time
<1>9. MarksAreSound'
  BY <1>1, <1>6 DEF Inv, MarksAreSound
<1> QED
  BY <1>1, <1>6, <1>7, <1>8, <1>9 DEF Inv, LiveIsHeld

LEMMA SkipCgroupOK == ASSUME Inv, NEW p \in Path, SkipCgroup(p) PROVE Inv'
BY DEF Inv, SkipCgroup, TypeOK, SamplesBelongToPasses, MarksAreSound, LiveIsHeld

\* sampler.go evict: a mark is set at the time of a pass that missed the cgroup,
\* so no sample of that cgroup is newer.
LEMMA EvictOK == ASSUME Inv, Evict PROVE Inv'
<1>1. /\ pc' = "waiting" /\ pending' = pending /\ now' = now /\ live' = live
      /\ exists' = exists /\ clock' = clock
      /\ rings' = [p \in DOMAIN rings \ Expired |-> rings[p]]
      /\ vanishedAt' = [p \in Marked |-> MarkOf(p)]
  BY DEF Evict
<1>2. /\ DOMAIN rings' = DOMAIN rings \ Expired
      /\ \A p \in DOMAIN rings' : rings'[p] = rings[p]
      /\ DOMAIN vanishedAt' = Marked
      /\ \A p \in Marked : vanishedAt'[p] = MarkOf(p)
  BY <1>1
<1>3. Expired \subseteq DOMAIN rings \ live
  BY DEF Expired
<1>4. Marked = DOMAIN rings' \ live
  BY <1>2 DEF Marked, Inv, MarksAreSound
<1>5. now \in Time /\ \A p \in DOMAIN vanishedAt : vanishedAt[p] \in Time
  BY DEF Inv, TypeOK
<1>6. \A p \in Marked : MarkOf(p) \in Time /\ MarkOf(p) <= now /\ Latest(rings[p]) <= MarkOf(p)
  <2> TAKE p \in Marked
  <2>1. p \in DOMAIN rings /\ p \notin live
    BY <1>2, <1>4
  <2>2. CASE p \in DOMAIN vanishedAt
    BY <1>5, <2>1, <2>2 DEF Inv, MarksAreSound, MarkOf
  <2>3. CASE p \notin DOMAIN vanishedAt
    BY <1>5, <2>1, <2>3 DEF Inv, SamplesBelongToPasses, MarkOf, Time
  <2> QED
    BY <2>2, <2>3
<1>7. TypeOK'
  BY <1>1, <1>2, <1>4, <1>6 DEF Inv, TypeOK
<1>8. SamplesBelongToPasses'
  BY <1>1, <1>2 DEF Inv, SamplesBelongToPasses
<1>9. MarksAreSound'
  BY <1>1, <1>2, <1>4, <1>6 DEF MarksAreSound
<1>10. LiveIsHeld'
  BY <1>1, <1>2, <1>3, <1>4 DEF Inv, LiveIsHeld
<1> QED
  BY <1>1, <1>7, <1>8, <1>9, <1>10 DEF Inv

LEMMA FinishOK == ASSUME Inv, Stop \/ DiscoverFails PROVE Inv'
BY DEF Inv, Stop, DiscoverFails, TypeOK, SamplesBelongToPasses, MarksAreSound, LiveIsHeld

LEMMA NextOK == Inv /\ [Next]_vars => Inv'
<1> SUFFICES ASSUME Inv, [Next]_vars PROVE Inv'
  OBVIOUS
<1>1. CASE Tick
  BY <1>1, EnvironmentOK, SamplerAssumption DEF Tick, Outside, Inv, TypeOK, Time
<1>2. ASSUME NEW p \in Path, Appear(p) \/ Vanish(p) PROVE Inv'
  BY <1>2, EnvironmentOK, SamplerAssumption
     DEF Appear, Vanish, Outside, Inv, TypeOK, Time
<1>3. CASE BeginPass
  BY <1>3, BeginPassOK
<1>4. ASSUME NEW p \in Path, ReadCgroup(p) PROVE Inv'
  BY <1>4, ReadCgroupOK
<1>5. ASSUME NEW p \in Path, SkipCgroup(p) PROVE Inv'
  BY <1>5, SkipCgroupOK
<1>6. CASE Evict
  BY <1>6, EvictOK
<1>7. CASE Stop \/ DiscoverFails
  BY <1>7, FinishOK
<1>8. CASE UNCHANGED vars
  BY <1>8, EnvironmentOK, SamplerAssumption DEF vars, Outside, Inv, TypeOK, Time
<1> QED
  BY <1>1, <1>2, <1>3, <1>4, <1>5, <1>6, <1>7, <1>8 DEF Next

LEMMA SamplerInvariant == Spec => []Inv
BY InitOK, NextOK, PTL DEF Spec

\* sampler.go: the sampler's maps and rings keep their types, for every number of
\* cgroups, history size and retention.
THEOREM SamplerTypeCorrect == Spec => []TypeOK
<1>1. Inv => TypeOK
  BY DEF Inv
<1> QED
  BY <1>1, SamplerInvariant, PTL

\* sampler.go evict: every mark belongs to a held history and is not older than the
\* newest sample in it.
THEOREM SamplerMarksAreSound == Spec => []MarksAreSound
<1>1. Inv => MarksAreSound
  BY DEF Inv
<1> QED
  BY <1>1, SamplerInvariant, PTL

\* sampler.go evict: no history is dropped until its newest sample is at least the
\* retention window old.
THEOREM SamplerEvictionsAreLate == Spec => EvictionsAreLate
<1> DEFINE Late == \A p \in Dropped : clock - Latest(rings[p]) >= Retention
<1>1. Inv /\ [Next]_vars => [Late]_vars
  <2> SUFFICES ASSUME Inv, [Next]_vars, NEW p \in Dropped
               PROVE  clock - Latest(rings[p]) >= Retention
    OBVIOUS
  <2>1. p \in DOMAIN rings /\ p \notin DOMAIN rings'
    BY DEF Dropped
  <2>2. Evict
    BY <2>1 DEF Next, Tick, Appear, Vanish, BeginPass, DiscoverFails, ReadCgroup,
                SkipCgroup, Stop, vars
  <2>3. p \in Expired
    BY <2>1, <2>2 DEF Evict
  <2>4. /\ p \in DOMAIN vanishedAt /\ p \notin live
        /\ now - vanishedAt[p] >= Retention
    BY <2>3 DEF Expired
  <2>5. Latest(rings[p]) <= vanishedAt[p] /\ Latest(rings[p]) \in Time
    BY <2>1, <2>4 DEF Inv, MarksAreSound, SamplesBelongToPasses
  <2> QED
    BY <2>4, <2>5, SamplerAssumption DEF Inv, TypeOK, Time
<1> QED
  BY <1>1, SamplerInvariant, PTL DEF Spec, EvictionsAreLate

-----------------------------------------------------------------------------
Event == [path : Path, at : Time, seen : Time \cup {Never}]

\* record makes a ring and adds to it under one lock: none is seen empty.
NoneIsEmpty == \A p \in DOMAIN rings : RingLen(rings[p]) > 0

\* A history with a sample at least as new as t is held for p.
HeldSince(p, t) == p \in DOMAIN rings /\ Latest(rings[p]) >= t

\* What the sampler had seen before a kill that waits is held for the retention.
KillsAreKept ==
    \A i \in DOMAIN chan :
        chan[i].seen # Never /\ clock - chan[i].seen < Retention =>
            HeldSince(chan[i].path, chan[i].seen)

EvidenceInv == Inv /\ NoneIsEmpty /\ chan \in Seq(Event) /\ KillsAreKept

-----------------------------------------------------------------------------
\* Kills and their reports are nothing to the sampler: with them it does what it
\* does alone.
LEMMA EvidenceIsSampler ==
    /\ EvidenceInit => Init
    /\ [EvidenceNext]_<<vars, evidence>> => [Next]_vars
<1>1. EvidenceInit => Init
  BY DEF EvidenceInit
<1>2. ASSUME [EvidenceNext]_<<vars, evidence>> PROVE [Next]_vars
  <2>1. CASE Next
    BY <2>1
  <2>2. ASSUME NEW p \in Path, Kill(p) PROVE UNCHANGED vars
    BY <2>2 DEF Kill
  <2>3. CASE HandleKill
    BY <2>3 DEF HandleKill, vars
  <2> QED
    BY <1>2, <2>1, <2>2, <2>3 DEF EvidenceNext
<1> QED
  BY <1>1, <1>2

\* sampler.go evict, on one step: what has a sample within the retention is kept.
LEMMA EvictKeeps ==
    ASSUME Inv, Evict, NEW p \in DOMAIN rings, clock - Latest(rings[p]) < Retention
    PROVE  p \in DOMAIN rings' /\ rings'[p] = rings[p]
<1>1. p \notin Expired
  <2> SUFFICES ASSUME p \in Expired PROVE FALSE
    OBVIOUS
  <2>1. /\ p \in DOMAIN vanishedAt /\ p \notin live
        /\ now - vanishedAt[p] >= Retention
    BY DEF Expired
  <2>2. Latest(rings[p]) <= vanishedAt[p] /\ Latest(rings[p]) \in Time
    BY <2>1 DEF Inv, MarksAreSound, SamplesBelongToPasses
  <2> QED
    BY <2>1, <2>2, SamplerAssumption DEF Inv, TypeOK, Time
<1> QED
  BY <1>1 DEF Evict

\* sampler.go record: a history is never set back.
LEMMA ReadCgroupAdds ==
    ASSUME Inv, NEW p \in Path, ReadCgroup(p)
    PROVE  /\ DOMAIN rings' = DOMAIN rings \cup {p}
           /\ RingLen(rings'[p]) > 0 /\ Latest(rings'[p]) = now
           /\ \A q \in DOMAIN rings : q # p => rings'[q] = rings[q]
<1> DEFINE r == RingOf(p)
<1>1. r \in RingType
  BY CapacityAssumption DEF Inv, TypeOK, RingOf, NewRing, RingType, Slots
<1>2. now \in Sample
  BY SamplerAssumption DEF Inv, TypeOK
<1>3. RingLen(Add(r, now)) > 0 /\ Latest(Add(r, now)) = now
  BY <1>1, <1>2, LatestIsLastAdded
<1> HIDE DEF r
<1>4. rings' = [q \in DOMAIN rings \cup {p} |-> IF q = p THEN Add(r, now) ELSE rings[q]]
  BY DEF ReadCgroup, r
<1> QED
  BY <1>3, <1>4

\* What any step of the sampler does to the histories and the clock.
LEMMA StepKeeps ==
    ASSUME Inv, NoneIsEmpty, [Next]_vars
    PROVE  /\ NoneIsEmpty'
           /\ clock' >= clock /\ clock' \in Time
           /\ \A p \in DOMAIN rings : clock - Latest(rings[p]) < Retention =>
                 p \in DOMAIN rings' /\ Latest(rings'[p]) >= Latest(rings[p])
<1> DEFINE Kept ==
      \A p \in DOMAIN rings : clock - Latest(rings[p]) < Retention =>
          p \in DOMAIN rings' /\ Latest(rings'[p]) >= Latest(rings[p])
<1>1. clock' >= clock /\ clock' \in Time
  <2>1. clock \in Time
    BY DEF Inv, TypeOK
  <2>2. Tick \/ clock' = clock
    BY DEF Next, Appear, Vanish, BeginPass, DiscoverFails, ReadCgroup, SkipCgroup,
           Evict, Stop, vars
  <2> QED
    BY <2>1, <2>2, SamplerAssumption DEF Tick, Time
<1>2. \A p \in DOMAIN rings : Latest(rings[p]) \in Int /\ Latest(rings[p]) <= now
  BY SamplerAssumption DEF Inv, SamplesBelongToPasses, Time
<1>3. ASSUME rings' = rings PROVE NoneIsEmpty' /\ Kept
  BY <1>2, <1>3 DEF NoneIsEmpty
<1>4. ASSUME NEW p \in Path, ReadCgroup(p) PROVE NoneIsEmpty' /\ Kept
  <2>1. /\ DOMAIN rings' = DOMAIN rings \cup {p}
        /\ RingLen(rings'[p]) > 0 /\ Latest(rings'[p]) = now
        /\ \A q \in DOMAIN rings : q # p => rings'[q] = rings[q]
    BY <1>4, ReadCgroupAdds
  <2> QED
    BY <1>2, <2>1 DEF NoneIsEmpty
<1>5. ASSUME Evict PROVE NoneIsEmpty' /\ Kept
  <2>1. /\ DOMAIN rings' \subseteq DOMAIN rings
        /\ \A p \in DOMAIN rings' : rings'[p] = rings[p]
    BY <1>5 DEF Evict
  <2> QED
    BY <1>2, <1>5, <2>1, EvictKeeps DEF NoneIsEmpty
<1>6. rings' = rings \/ Evict \/ \E p \in Path : ReadCgroup(p)
  BY DEF Next, Tick, Appear, Vanish, BeginPass, DiscoverFails, SkipCgroup, Stop, vars
<1> QED
  BY <1>1, <1>3, <1>4, <1>5, <1>6

-----------------------------------------------------------------------------
LEMMA EvidenceInitOK == EvidenceInit => EvidenceInv
<1> SUFFICES ASSUME EvidenceInit PROVE EvidenceInv
  OBVIOUS
<1>1. Inv
  BY InitOK DEF EvidenceInit
<1> QED
  BY <1>1 DEF EvidenceInit, Init, EvidenceInv, NoneIsEmpty, KillsAreKept

\* The sampler takes a step while kills wait.
LEMMA SamplerStepOK ==
    ASSUME EvidenceInv, [Next]_vars, chan' = chan
    PROVE  EvidenceInv'
<1>1. Inv'
  BY NextOK DEF EvidenceInv
<1>2. /\ NoneIsEmpty'
      /\ clock' >= clock /\ clock' \in Time
      /\ \A p \in DOMAIN rings : clock - Latest(rings[p]) < Retention =>
            p \in DOMAIN rings' /\ Latest(rings'[p]) >= Latest(rings[p])
  BY StepKeeps DEF EvidenceInv
<1>3. ASSUME NEW i \in DOMAIN chan, chan[i].seen # Never,
             clock' - chan[i].seen < Retention
      PROVE  HeldSince(chan[i].path, chan[i].seen)'
  <2> DEFINE p == chan[i].path
             t == chan[i].seen
  <2>1. t \in Int /\ clock \in Int /\ clock' \in Int /\ Retention \in Int
    <3>1. chan[i] \in Event
      BY <1>3 DEF EvidenceInv
    <3> QED
      BY <1>2, <1>3, <3>1, SamplerAssumption DEF Event, Time, EvidenceInv, Inv, TypeOK
  <2>2. clock - t < Retention
    BY <1>2, <1>3, <2>1
  <2>3. p \in DOMAIN rings /\ Latest(rings[p]) >= t
    BY <1>3, <2>2 DEF EvidenceInv, KillsAreKept, HeldSince
  <2>4. Latest(rings[p]) \in Int
    BY <2>3, SamplerAssumption DEF EvidenceInv, Inv, SamplesBelongToPasses, Time
  <2> HIDE DEF p, t
  <2>5. clock - Latest(rings[p]) < Retention
    BY <2>1, <2>2, <2>3, <2>4
  <2>6. p \in DOMAIN rings' /\ Latest(rings'[p]) >= Latest(rings[p])
    BY <1>2, <2>3, <2>5
  <2>7. Latest(rings'[p]) \in Int
    BY <1>1, <2>6, SamplerAssumption DEF Inv, SamplesBelongToPasses, Time
  <2>8. Latest(rings'[p]) >= t
    BY <2>1, <2>3, <2>4, <2>6, <2>7
  <2> QED
    BY <2>6, <2>8 DEF HeldSince, p, t
<1>4. KillsAreKept'
  BY <1>3 DEF KillsAreKept, HeldSince
<1> QED
  BY <1>1, <1>2, <1>4 DEF EvidenceInv

\* A kill is sent with the newest sample there is.
LEMMA KillOK ==
    ASSUME EvidenceInv, NEW p \in Path, Kill(p)
    PROVE  EvidenceInv'
<1> DEFINE e == [path |-> p, at |-> clock, seen |-> LastSample(p)]
<1>1. chan' = Append(chan, e) /\ UNCHANGED vars
  BY DEF Kill
<1>2. Inv' /\ NoneIsEmpty'
  BY <1>1
     DEF EvidenceInv, vars, pass, Inv, TypeOK, SamplesBelongToPasses, MarksAreSound,
         LiveIsHeld, NoneIsEmpty
<1>3. e \in Event
  BY DEF EvidenceInv, Inv, TypeOK, Event, LastSample, SamplesBelongToPasses
<1>4. e.path = p /\ (e.seen # Never => p \in DOMAIN rings /\ e.seen = Latest(rings[p]))
  BY DEF LastSample
<1> HIDE DEF e
<1>5. /\ chan' \in Seq(Event) /\ Len(chan') = Len(chan) + 1
      /\ \A i \in 1 .. Len(chan) : chan'[i] = chan[i]
      /\ chan'[Len(chan) + 1] = e
  BY <1>1, <1>3, AppendProperties DEF EvidenceInv
<1>6. KillsAreKept'
  <2> SUFFICES ASSUME NEW i \in DOMAIN chan', chan'[i].seen # Never,
                      clock' - chan'[i].seen < Retention
               PROVE  /\ chan'[i].path \in DOMAIN rings'
                      /\ Latest(rings'[chan'[i].path]) >= chan'[i].seen
    BY DEF KillsAreKept, HeldSince
  <2>1. clock' = clock /\ rings' = rings
    BY <1>1 DEF vars
  <2>2. i \in 1 .. Len(chan) \/ i = Len(chan) + 1
    BY <1>5 DEF EvidenceInv
  <2>3. CASE i \in 1 .. Len(chan)
    BY <1>5, <2>1, <2>3 DEF EvidenceInv, KillsAreKept, HeldSince
  <2>4. CASE i = Len(chan) + 1
    <3>1. p \in DOMAIN rings /\ chan'[i].path = p /\ chan'[i].seen = Latest(rings[p])
      BY <1>4, <1>5, <2>4
    <3>2. Latest(rings[p]) \in Int
      BY <3>1, SamplerAssumption DEF EvidenceInv, Inv, SamplesBelongToPasses, Time
    <3> QED
      BY <2>1, <3>1, <3>2
  <2> QED
    BY <2>2, <2>3, <2>4
<1> QED
  BY <1>2, <1>5, <1>6 DEF EvidenceInv

\* Handle takes the oldest event from the channel; the others move up.
LEMMA HandleKillOK == ASSUME EvidenceInv, HandleKill PROVE EvidenceInv'
<1>1. chan # << >> /\ chan' = Tail(chan) /\ UNCHANGED vars
  BY DEF HandleKill, vars
<1>2. Inv' /\ NoneIsEmpty'
  BY <1>1
     DEF EvidenceInv, vars, pass, Inv, TypeOK, SamplesBelongToPasses, MarksAreSound,
         LiveIsHeld, NoneIsEmpty
<1>3. /\ chan' \in Seq(Event) /\ Len(chan') = Len(chan) - 1
      /\ \A i \in 1 .. Len(chan') : chan'[i] = chan[i + 1]
  BY <1>1, HeadTailProperties DEF EvidenceInv
<1>4. \A i \in DOMAIN chan' : i + 1 \in DOMAIN chan /\ chan'[i] = chan[i + 1]
  BY <1>3 DEF EvidenceInv
<1>5. KillsAreKept'
  BY <1>1, <1>4 DEF EvidenceInv, KillsAreKept, HeldSince, vars
<1> QED
  BY <1>2, <1>3, <1>5 DEF EvidenceInv

LEMMA EvidenceNextOK == EvidenceInv /\ [EvidenceNext]_<<vars, evidence>> => EvidenceInv'
<1> SUFFICES ASSUME EvidenceInv, [EvidenceNext]_<<vars, evidence>> PROVE EvidenceInv'
  OBVIOUS
<1>1. CASE Next /\ UNCHANGED evidence
  BY <1>1, SamplerStepOK DEF evidence
<1>2. ASSUME NEW p \in Path, Kill(p) PROVE EvidenceInv'
  BY <1>2, KillOK
<1>3. CASE HandleKill
  BY <1>3, HandleKillOK
<1>4. CASE UNCHANGED <<vars, evidence>>
  BY <1>4, SamplerStepOK DEF evidence
<1> QED
  BY <1>1, <1>2, <1>3, <1>4 DEF EvidenceNext

LEMMA EvidenceInvariant == EvidenceSpec => []EvidenceInv
BY EvidenceInitOK, EvidenceNextOK, PTL DEF EvidenceSpec

-----------------------------------------------------------------------------
\* sampler.go, daemon.go: the sampler that reports are built beside is the sampler:
\* what is proved of its specification holds with kills waiting.
THEOREM EvidenceImplementsSampler == EvidenceSpec => Spec
BY EvidenceIsSampler, PTL DEF EvidenceSpec, Spec

\* daemon.go buildReport, sampler.go evict and History: a cgroup sampled before its
\* kill has a trajectory in the report, as far as that sample at least, whenever the
\* kill is handled within the retention of the sample.
THEOREM EvidenceTrajectoryKept == EvidenceSpec => []TrajectoryKept
<1>1. ASSUME EvidenceInv PROVE TrajectoryKept
  <2> SUFFICES ASSUME NEW i \in DOMAIN chan, chan[i].seen # Never,
                      clock - chan[i].seen < Retention
               PROVE  /\ History(chan[i].path) # << >>
                      /\ History(chan[i].path)[Len(History(chan[i].path))] >= chan[i].seen
    BY DEF TrajectoryKept
  <2>1. chan[i].path \in DOMAIN rings /\ Latest(rings[chan[i].path]) >= chan[i].seen
    BY <1>1 DEF EvidenceInv, KillsAreKept, HeldSince
  <2>2. rings[chan[i].path] \in RingType /\ RingLen(rings[chan[i].path]) > 0
    BY <1>1, <2>1 DEF EvidenceInv, Inv, TypeOK, NoneIsEmpty
  <2> QED
    BY <2>1, <2>2, LatestIsNewest DEF History
<1> QED
  BY <1>1, EvidenceInvariant, PTL
=============================================================================
