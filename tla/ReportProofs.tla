----------------------------- MODULE ReportProofs -----------------------------
(***************************************************************************)
(* A report and the pod it names.  What Daemon.Handle makes of kills, for  *)
(* every store capacity and any number of kills, however its reads         *)
(* interleave with the container, the sampler and a client: an honest      *)
(* peak, an exact account, and a list that backs the count shown with it.  *)
(* And the pod cache that names the container, for every set of pods,      *)
(* every grace and any notifications, in any order: what it knows of a pod *)
(* is lost to lookups only when the pod's grace has passed, a container    *)
(* that can be named stays so until it has been restarted twice, and with  *)
(* nothing left to handle the one that runs and the one before are named.  *)
(***************************************************************************)
EXTENDS Pipeline, PodCache, FiniteSetTheorems, SequenceTheorems, TLAPS

Event   == [class : Class, rss : 0 .. MaxMemory, group : BOOLEAN \cup {Unknown}]
Fetched == [reports : Nat, skipped : Nat, unattributed : Nat, list : Seq(Report)]

\* The stages of Handle between the sequence number and the count.
Building == {"history", "live", "group", "flag", "storing", "counting"}

TypedContainer ==
    /\ include \in BOOLEAN /\ exists \in BOOLEAN /\ grouped \in BOOLEAN
    /\ peak \in 0 .. MaxMemory /\ used \in 0 .. peak

TypedSampler ==
    /\ history.top \in -1 .. MaxMemory /\ history.peak \in 0 .. MaxMemory
    /\ sampling \in -1 .. MaxMemory

TypedHandler ==
    /\ kills \in 0 .. MaxEvents /\ events \in Seq(Event)
    /\ pc \in Building \cup {"idle", "skipping", "unattributed"}
    /\ report \in Report
    /\ sequence \in Nat /\ processed \in Nat /\ skipped \in Nat /\ unattributed \in Nat
    /\ received \in [Class -> Nat]
    /\ stored \in Seq(Report)

TypedClient == reading \in 0 .. 4 /\ fetched \in Fetched

Typed == TypedContainer /\ TypedSampler /\ TypedHandler /\ TypedClient

\* The kill in Handle's hands will be counted as unattributed.
StrayInHand == pc = "unattributed" \/ (pc = "skipping" /\ report.class = "stray")

\* Every kill is waiting or was received, and a received one is counted where it belongs as
\* soon as Handle has it out of its hands.
Accounted ==
    /\ kills = Len(events) + Taken
    /\ processed + (IF pc \in Building THEN 1 ELSE 0) = Attributable
    /\ sequence = Attributable
    /\ skipped + (IF pc = "skipping" THEN 1 ELSE 0)
          = IF include THEN 0 ELSE Elsewhere
    /\ unattributed + (IF StrayInHand THEN 1 ELSE 0) = IF include THEN 0 ELSE received.stray

\* A list with every report counted, or as many of them as the store keeps.
Backs(list, count) == Len(list) >= (IF count < Capacity THEN count ELSE Capacity)

\* Put comes before the count, and loses nothing while there is room.
StoreBacks ==
    /\ Len(stored) <= Capacity
    /\ Backs(stored, processed + (IF pc = "counting" THEN 1 ELSE 0))

\* The count a fetch has read is one the store has backed since.
FetchBacks ==
    /\ reading \in 2 .. 4 => fetched.reports <= processed
    /\ reading = 0 => Backs(fetched.list, fetched.reports)

\* What is known of the container bounds what its reports may say.
Bounded(r)   == r.rss <= peak /\ r.peak <= peak /\ (exists => r.top <= r.peak)
IsHonest(r)  == r.rss <= r.peak /\ r.peak <= peak /\ (exists => r.top <= r.peak)
OfContainer(r) == r.class = "container"

HistoryBounded ==
    /\ sampling <= peak /\ history.top <= peak /\ history.peak <= peak
    /\ exists => history.top <= history.peak

EventsBounded == \A i \in DOMAIN events : OfContainer(events[i]) => events[i].rss <= peak

ReportBounded ==
    /\ pc \in {"history", "live"} /\ OfContainer(report) => Bounded(report)
    /\ pc \in {"group", "flag", "storing"} /\ OfContainer(report) => IsHonest(report)

StoredHonest == \A i \in DOMAIN stored : OfContainer(stored[i]) => IsHonest(stored[i])

Honest == HistoryBounded /\ EventsBounded /\ ReportBounded /\ StoredHonest

Inv == Typed /\ Accounted /\ StoreBacks /\ FetchBacks /\ Honest

-----------------------------------------------------------------------------
\* The kills Handle was called for, by what becomes of them.
LEMMA TallyType ==
    ASSUME Typed
    PROVE  /\ received.container \in Nat /\ received.stray \in Nat /\ received.host \in Nat
           /\ Elsewhere \in Nat /\ Taken \in Nat /\ Attributable \in Nat
           /\ Attributable <= Taken /\ Elsewhere <= Taken /\ received.stray <= Elsewhere
           /\ Attributable + (IF include THEN 0 ELSE Elsewhere) = Taken
<1>1. /\ received.container \in Nat /\ received.stray \in Nat /\ received.host \in Nat
      /\ include \in BOOLEAN
  BY DEF Typed, TypedContainer, TypedHandler, Class
<1>2. Elsewhere \in Nat /\ received.stray <= Elsewhere
  BY <1>1 DEF Elsewhere
<1>3. Taken \in Nat /\ Elsewhere <= Taken /\ received.container <= Taken
  BY <1>1, <1>2 DEF Taken
<1> QED
  BY <1>1, <1>2, <1>3 DEF Attributable, Taken

LEMMA InitOK == Init => Inv
<1> SUFFICES ASSUME Init PROVE Inv
  OBVIOUS
<1>1. Typed
  BY PipelineAssumption
     DEF Init, Typed, TypedContainer, TypedSampler, TypedHandler, TypedClient, NoHistory,
         NotSampling, NoReport, Nothing, Report, Fetched, Building, Class
<1>2. Accounted /\ StoreBacks /\ FetchBacks
  BY PipelineAssumption
     DEF Init, Accounted, Attributable, Taken, Elsewhere, StrayInHand, StoreBacks, FetchBacks,
         Backs, Nothing,
         Building, Class
<1>3. Honest
  BY DEF Init, Honest, HistoryBounded, EventsBounded, ReportBounded, StoredHonest,
         NoHistory, NotSampling
<1> QED
  BY <1>1, <1>2, <1>3 DEF Inv

-----------------------------------------------------------------------------
\* The container's memory only has its peak behind it, and it does not come back.
LEMMA ContainerOK ==
    ASSUME Inv, Allocate \/ Vanish
    PROVE  Inv'
<1>1. /\ include' = include /\ grouped' = grouped
      /\ UNCHANGED <<sampler, kills, events, handler, counters, stored, client>>
  BY DEF Allocate, Vanish
<1>2. TypedContainer' /\ peak' >= peak /\ peak' \in Int /\ peak \in Int /\ (exists' => exists)
  <2>1. /\ include \in BOOLEAN /\ exists \in BOOLEAN /\ grouped \in BOOLEAN
        /\ peak \in 0 .. MaxMemory /\ used \in 0 .. peak
    BY DEF Inv, Typed, TypedContainer
  <2>2. CASE Allocate
    <3>1. /\ used' \in 0 .. MaxMemory /\ exists' = exists
          /\ peak' = IF used' > peak THEN used' ELSE peak
      BY <2>2 DEF Allocate, Higher
    <3>2. peak' \in 0 .. MaxMemory /\ used' \in 0 .. peak' /\ peak' >= peak
      BY <2>1, <3>1, PipelineAssumption
    <3> QED
      BY <1>1, <2>1, <3>1, <3>2, PipelineAssumption DEF TypedContainer
  <2>3. CASE Vanish
    <3>1. exists /\ exists' = FALSE /\ peak' = peak /\ used' = used
      BY <2>3 DEF Vanish
    <3>2. peak \in Int /\ peak >= peak
      BY <2>1, PipelineAssumption
    <3> QED
      BY <1>1, <2>1, <3>1, <3>2 DEF TypedContainer
  <2> QED
    BY <2>2, <2>3
<1>3. Typed' /\ Accounted' /\ StoreBacks' /\ FetchBacks'
  BY <1>1, <1>2
     DEF Inv, Typed, TypedSampler, TypedHandler, TypedClient, Accounted, Attributable,
         Taken, Elsewhere, StrayInHand, StoreBacks, FetchBacks, sampler, handler, counters, client
<1>4. HistoryBounded'
  BY <1>1, <1>2, PipelineAssumption
     DEF Inv, Honest, HistoryBounded, Typed, TypedSampler, sampler
<1>5. EventsBounded'
  <2>1. \A i \in DOMAIN events : events[i].rss \in Int
    <3>1. \A i \in DOMAIN events : events[i] \in Event
      BY DEF Inv, Typed, TypedHandler
    <3> QED
      BY <3>1, PipelineAssumption DEF Event
  <2> QED
    BY <1>1, <1>2, <2>1 DEF Inv, Honest, EventsBounded, OfContainer
<1>6. \A r \in Report : /\ Bounded(r) => r.rss <= peak' /\ r.peak <= peak' /\ (exists' => r.top <= r.peak)
                        /\ IsHonest(r) => r.rss <= r.peak /\ r.peak <= peak' /\ (exists' => r.top <= r.peak)
  BY <1>2, PipelineAssumption DEF Report, Bounded, IsHonest
<1>7. ReportBounded'
  BY <1>1, <1>6
     DEF Inv, Typed, TypedHandler, Honest, ReportBounded, OfContainer, Bounded, IsHonest, handler
<1>8. StoredHonest'
  <2>1. \A i \in DOMAIN stored : stored[i] \in Report
    BY DEF Inv, Typed, TypedHandler
  <2> QED
    BY <1>1, <1>6, <2>1 DEF Inv, Honest, StoredHonest, OfContainer, IsHonest
<1> QED
  BY <1>3, <1>4, <1>5, <1>7, <1>8 DEF Inv, Honest

\* sampler.go and cgroup.go ReadMemoryStats: the usage is read before the peak.
LEMMA SamplerOK ==
    ASSUME Inv, SampleCurrent \/ SamplePeak \/ EvictHistory
    PROVE  Inv'
<1>1. UNCHANGED <<include, container, kills, events, handler, counters, stored, client>>
  BY DEF SampleCurrent, SamplePeak, EvictHistory
<1>2. TypedSampler' /\ HistoryBounded'
  <2>1. /\ used \in Int /\ peak \in 0 .. MaxMemory /\ 0 <= used /\ used <= peak
        /\ sampling \in -1 .. MaxMemory /\ history.top \in -1 .. MaxMemory
        /\ history.peak \in 0 .. MaxMemory
        /\ peak' = peak /\ exists' = exists
    BY <1>1 DEF Inv, Typed, TypedContainer, TypedSampler, container
  <2>2. CASE SampleCurrent
    BY <2>1, <2>2, PipelineAssumption
       DEF Inv, Honest, HistoryBounded, TypedSampler, SampleCurrent
  <2>3. CASE SamplePeak
    BY <2>1, <2>3, PipelineAssumption
       DEF Inv, Honest, HistoryBounded, TypedSampler, SamplePeak, NotSampling, Higher
  <2>4. CASE EvictHistory
    BY <2>1, <2>4, PipelineAssumption
       DEF Inv, Honest, HistoryBounded, TypedSampler, EvictHistory, NoHistory, NotSampling
  <2> QED
    BY <2>2, <2>3, <2>4
<1>3. Typed' /\ Accounted' /\ StoreBacks' /\ FetchBacks'
  BY <1>1, <1>2
     DEF Inv, Typed, TypedContainer, TypedHandler, TypedClient, Accounted, Attributable,
         Taken, Elsewhere, StrayInHand, StoreBacks, FetchBacks, container, handler, counters, client
<1>4. EventsBounded' /\ ReportBounded' /\ StoredHonest'
  BY <1>1
     DEF Inv, Honest, EventsBounded, ReportBounded, StoredHonest, OfContainer, Bounded,
         IsHonest, container, handler
<1> QED
  BY <1>2, <1>3, <1>4 DEF Inv, Honest

\* A kill joins the events; its victim held no more than the container did.
LEMMA KillOK ==
    ASSUME Inv, NEW class \in Class, Kill(class)
    PROVE  Inv'
<1>1. /\ kills < MaxEvents /\ kills' = kills + 1
      /\ UNCHANGED <<include, container, sampler, handler, counters, stored, client>>
  BY DEF Kill
<1>2. PICK e \in Event : events' = Append(events, e) /\ (OfContainer(e) => e.rss <= peak)
  <2>1. PICK rss \in (IF class = "container" THEN 0 .. used ELSE {0}),
             group \in (IF class = "container" THEN {grouped, Unknown} ELSE {Unknown}) :
               events' = Append(events, [class |-> class, rss |-> rss, group |-> group])
    BY DEF Kill
  <2>2. rss \in 0 .. peak /\ rss \in 0 .. MaxMemory /\ group \in BOOLEAN \cup {Unknown}
    BY PipelineAssumption DEF Inv, Typed, TypedContainer
  <2> QED
    BY <2>1, <2>2 DEF Event, OfContainer
<1>3. /\ events' \in Seq(Event) /\ Len(events') = Len(events) + 1
      /\ \A i \in DOMAIN events' : \/ i \in DOMAIN events /\ events'[i] = events[i]
                                   \/ events'[i] = e
  BY <1>2, AppendProperties DEF Inv, Typed, TypedHandler
<1>4. Typed'
  BY <1>1, <1>3, PipelineAssumption
     DEF Inv, Typed, TypedContainer, TypedSampler, TypedHandler, TypedClient, container,
         sampler, handler, counters, client
<1>5. Accounted'
  <2>1. /\ Len(events) \in Nat /\ kills \in Nat /\ received' = received /\ Taken \in Nat
    BY <1>1, TallyType DEF Inv, Typed, TypedHandler, counters
  <2>2. Taken' = Taken /\ Elsewhere' = Elsewhere /\ Attributable' = Attributable
    BY <1>1, <2>1 DEF Taken, Elsewhere, Attributable
  <2>3. kills' = Len(events') + Taken'
    BY <1>1, <1>3, <2>1, <2>2 DEF Inv, Accounted
  <2> QED
    BY <1>1, <2>1, <2>2, <2>3 DEF Inv, Accounted, StrayInHand, handler, counters
<1>6. StoreBacks' /\ FetchBacks'
  BY <1>1 DEF Inv, StoreBacks, FetchBacks, handler, counters, client
<1>7. Honest'
  <2>1. EventsBounded'
    BY <1>1, <1>2, <1>3 DEF Inv, Honest, EventsBounded, OfContainer, container
  <2> QED
    BY <1>1, <2>1
       DEF Inv, Honest, HistoryBounded, ReportBounded, StoredHonest, OfContainer, Bounded,
           IsHonest, container, sampler, handler
<1> QED
  BY <1>4, <1>5, <1>6, <1>7 DEF Inv

-----------------------------------------------------------------------------
\* daemon.go Handle: an event leaves the stream for a report or for the skipped.
LEMMA ReceiveOK == ASSUME Inv, Receive PROVE Inv'
<1> DEFINE e == Head(events)
<1>1. /\ pc = "idle" /\ events # << >> /\ events' = Tail(events)
      /\ UNCHANGED <<include, container, sampler, kills, processed, skipped, unattributed,
                     stored, client>>
  BY DEF Receive
<1>2. /\ e \in Event /\ e = events[1] /\ 1 \in DOMAIN events
      /\ events' \in Seq(Event) /\ Len(events') = Len(events) - 1
      /\ \A i \in DOMAIN events' : i + 1 \in DOMAIN events /\ events'[i] = events[i + 1]
  <2>1. events \in Seq(Event)
    BY DEF Inv, Typed, TypedHandler
  <2>2. /\ Len(events) \in Nat /\ Len(events) # 0
        /\ e \in Event /\ e = events[1] /\ Tail(events) \in Seq(Event)
        /\ Len(Tail(events)) = Len(events) - 1
        /\ \A i \in 1 .. Len(Tail(events)) : Tail(events)[i] = events[i + 1]
    BY <1>1, <2>1, HeadTailProperties, EmptySeq
  <2> QED
    BY <1>1, <2>1, <2>2
<1>3. \/ /\ sequence' = sequence + 1 /\ pc' = "history"
         /\ report' = [NoReport EXCEPT !.id = sequence + 1, !.class = e.class,
                                       !.rss = e.rss, !.group = e.group]
      \/ /\ pc' = "skipping" /\ report' = [NoReport EXCEPT !.class = e.class]
         /\ sequence' = sequence
  BY DEF Receive
<1>8. received' = [received EXCEPT ![e.class] = @ + 1] /\ received' \in [Class -> Nat]
  BY <1>2 DEF Receive, Inv, Typed, TypedHandler, Event
<1>4. /\ report' \in Report /\ sequence' \in Nat
      /\ pc' = "history" => report'.rss = e.rss /\ report'.class = e.class
                            /\ report'.top = -1 /\ report'.peak = 0
  <2>1. /\ sequence \in Nat /\ MaxMemory \in Nat /\ NoReport \in Report
        /\ e.class \in Class /\ e.rss \in 0 .. MaxMemory /\ e.group \in BOOLEAN \cup {Unknown}
    BY <1>2, PipelineAssumption DEF Inv, Typed, TypedHandler, NoReport, Report, Event, Class
  <2> HIDE DEF e
  <2>2. NoReport.top = -1 /\ NoReport.peak = 0
    BY DEF NoReport
  <2>3. CASE /\ sequence' = sequence + 1 /\ pc' = "history"
             /\ report' = [NoReport EXCEPT !.id = sequence + 1, !.class = e.class,
                                           !.rss = e.rss, !.group = e.group]
    <3>1. report' = [id |-> sequence + 1, class |-> e.class, rss |-> e.rss,
                     group |-> e.group, top |-> -1, peak |-> 0]
      BY <2>3 DEF NoReport
    <3>2. -1 \in -1 .. MaxMemory /\ 0 \in 0 .. MaxMemory /\ sequence + 1 \in Nat
      BY <2>1
    <3>3. report' \in Report
      BY <2>1, <3>1, <3>2 DEF Report, Class
    <3>4. /\ report'.rss = e.rss /\ report'.class = e.class
          /\ report'.top = -1 /\ report'.peak = 0
      BY <3>1
    <3> QED
      BY <2>3, <3>2, <3>3, <3>4
  <2>4. CASE /\ pc' = "skipping" /\ report' = [NoReport EXCEPT !.class = e.class]
             /\ sequence' = sequence
    BY <2>1, <2>4 DEF Report, Class
  <2> QED
    BY <1>3, <2>3, <2>4
<1>5. Typed'
  BY <1>1, <1>2, <1>3, <1>4, <1>8
     DEF Inv, Typed, TypedContainer, TypedSampler, TypedHandler, TypedClient, container,
         sampler, client, Building
<1>6. Accounted' /\ StoreBacks' /\ FetchBacks'
  <2>1. /\ Len(events) \in Nat /\ kills \in Nat /\ processed \in Nat /\ skipped \in Nat
        /\ sequence \in Nat /\ unattributed \in Nat /\ include \in BOOLEAN
        /\ received.container \in Nat /\ received.stray \in Nat /\ received.host \in Nat
        /\ Elsewhere \in Nat /\ Taken \in Nat /\ Attributable \in Nat
    BY TallyType DEF Inv, Typed, TypedContainer, TypedHandler
  <2>2. /\ received'.container = received.container + (IF e.class = "container" THEN 1 ELSE 0)
        /\ received'.stray = received.stray + (IF e.class = "stray" THEN 1 ELSE 0)
        /\ received'.host = received.host + (IF e.class = "host" THEN 1 ELSE 0)
    BY <1>8, <2>1 DEF Inv, Typed, TypedHandler, Class
  <2>3. e.class \in {"container", "stray", "host"} /\ Len(events') = Len(events) - 1
    BY <1>2 DEF Event, Class
  <2>4. \/ /\ sequence' = sequence + 1 /\ pc' = "history"
           /\ e.class = "container" \/ include
        \/ /\ sequence' = sequence /\ pc' = "skipping" /\ report'.class = e.class
           /\ e.class # "container" /\ ~ include
    BY DEF Receive, NoReport
  <2> HIDE DEF e
  <2>5. /\ kills = Len(events) + Taken
        /\ processed = Attributable /\ sequence = Attributable
        /\ skipped = IF include THEN 0 ELSE Elsewhere
        /\ unattributed = IF include THEN 0 ELSE received.stray
    BY <1>1, <2>1 DEF Inv, Accounted, StrayInHand, Building
  <2>6. Accounted'
    <3>1. kills' = kills /\ processed' = processed /\ skipped' = skipped
          /\ unattributed' = unattributed /\ include' = include
      BY <1>1
    <3>2. /\ Elsewhere' = Elsewhere + (IF e.class = "container" THEN 0 ELSE 1)
          /\ Taken' = Taken + 1
      <4>1. CASE e.class = "container"
        <5>1. /\ received'.container = received.container + 1 /\ received'.stray = received.stray
              /\ received'.host = received.host
          BY <2>1, <2>2, <4>1
        <5>2. Elsewhere' = Elsewhere
          BY <2>1, <5>1 DEF Elsewhere
        <5>3. Taken' = Taken + 1
          BY <2>1, <5>1, <5>2 DEF Taken
        <5> QED
          BY <2>1, <4>1, <5>2, <5>3
      <4>2. CASE e.class = "stray"
        <5>1. /\ received'.container = received.container /\ received'.stray = received.stray + 1
              /\ received'.host = received.host
          BY <2>1, <2>2, <4>2
        <5>2. Elsewhere' = Elsewhere + 1
          BY <2>1, <5>1 DEF Elsewhere
        <5>3. Taken' = Taken + 1
          BY <2>1, <5>1, <5>2 DEF Taken
        <5> QED
          BY <4>2, <5>2, <5>3
      <4>3. CASE e.class = "host"
        <5>1. /\ received'.container = received.container /\ received'.stray = received.stray
              /\ received'.host = received.host + 1
          BY <2>1, <2>2, <4>3
        <5>2. Elsewhere' = Elsewhere + 1
          BY <2>1, <5>1 DEF Elsewhere
        <5>3. Taken' = Taken + 1
          BY <2>1, <5>1, <5>2 DEF Taken
        <5> QED
          BY <4>3, <5>2, <5>3
      <4> QED
        BY <2>3, <4>1, <4>2, <4>3
    <3>3. kills' = Len(events') + Taken'
      BY <2>1, <2>3, <2>5, <3>1, <3>2
    <3>4. CASE pc' = "history"
      <4>1. e.class = "container" \/ include
        BY <2>4, <3>4
      <4>2. sequence' = sequence + 1
        BY <2>4, <3>4
      <4>3. Attributable' = Attributable + 1
        BY <2>1, <2>2, <2>3, <3>1, <3>2, <4>1 DEF Attributable
      <4>4. /\ skipped' = IF include' THEN 0 ELSE Elsewhere'
            /\ unattributed' = IF include' THEN 0 ELSE received'.stray
        BY <2>1, <2>2, <2>3, <2>5, <3>1, <3>2, <4>1
      <4>5. pc' \in Building /\ ~ StrayInHand' /\ pc' # "skipping"
        BY <3>4 DEF Building, StrayInHand
      <4>6. /\ processed' + 1 = Attributable' /\ sequence' = Attributable'
        BY <2>1, <2>5, <3>1, <4>2, <4>3
      <4> QED
        BY <2>1, <3>1, <3>3, <4>4, <4>5, <4>6 DEF Accounted
    <3>5. CASE pc' = "skipping"
      <4>1. e.class # "container" /\ ~ include /\ sequence' = sequence /\ report'.class = e.class
        BY <2>4, <3>5
      <4>2. Attributable' = Attributable
        BY <2>1, <2>2, <2>3, <3>1, <4>1 DEF Attributable
      <4>3. skipped' + 1 = Elsewhere'
        BY <2>1, <2>5, <3>1, <3>2, <4>1
      <4>4. unattributed' + (IF e.class = "stray" THEN 1 ELSE 0) = received'.stray
        BY <2>1, <2>2, <2>3, <2>5, <3>1, <4>1
      <4>5. pc' \notin Building /\ (StrayInHand' <=> e.class = "stray")
        BY <3>5, <4>1 DEF Building, StrayInHand
      <4>6. processed' + 0 = Attributable' /\ sequence' = Attributable'
        BY <2>1, <2>5, <3>1, <4>1, <4>2
      <4> QED
        BY <2>1, <3>1, <3>5, <3>3, <4>1, <4>3, <4>4, <4>5, <4>6 DEF Accounted
    <3> QED
      BY <2>4, <3>4, <3>5
  <2>7. StoreBacks' /\ FetchBacks'
    BY <1>1, <2>4 DEF Inv, StoreBacks, FetchBacks, Backs, client
  <2> QED
    BY <2>6, <2>7
<1>7. Honest'
  <2>1. EventsBounded'
    BY <1>1, <1>2 DEF Inv, Honest, EventsBounded, OfContainer, container
  <2>2. OfContainer(e) => e.rss <= peak
    BY <1>2 DEF Inv, Honest, EventsBounded
  <2>3. ReportBounded'
    BY <1>1, <1>3, <1>4, <2>2
       DEF Inv, Typed, TypedContainer, ReportBounded, OfContainer, Bounded, container
  <2> QED
    BY <1>1, <2>1, <2>3
       DEF Inv, Honest, HistoryBounded, StoredHonest, OfContainer, IsHonest, container, sampler
<1> QED
  BY <1>5, <1>6, <1>7 DEF Inv

\* daemon.go Handle, skipping: one count, or two for a stray.
LEMMA SkipOK == ASSUME Inv, CountSkipped \/ CountUnattributed PROVE Inv'
<1>1. UNCHANGED <<include, container, sampler, kills, events, report, sequence, processed,
                  received, stored, client>>
  BY DEF CountSkipped, CountUnattributed
<1>2. /\ pc' \in {"idle", "unattributed"} /\ skipped' \in Nat /\ unattributed' \in Nat
      /\ Len(events) \in Nat /\ kills \in Nat /\ processed \in Nat /\ sequence \in Nat
  BY DEF Inv, Typed, TypedHandler, CountSkipped, CountUnattributed, AfterSkip
<1>3. Typed'
  BY <1>1, <1>2
     DEF Inv, Typed, TypedContainer, TypedSampler, TypedHandler, TypedClient, container,
         sampler, client
<1>4. Accounted'
  <2>1. /\ skipped \in Nat /\ unattributed \in Nat /\ sequence' = sequence /\ kills' = kills
        /\ processed' = processed /\ events' = events /\ received' = received
        /\ report' = report /\ include' = include
        /\ Taken' = Taken /\ Elsewhere' = Elsewhere /\ Attributable' = Attributable
        /\ Elsewhere \in Nat /\ Taken \in Nat /\ Attributable \in Nat
        /\ received.stray \in Nat
    BY <1>1, TallyType DEF Inv, Typed, TypedHandler, Taken, Elsewhere, Attributable
  <2>2. CASE CountSkipped
    <3>1. /\ pc = "skipping" /\ skipped' = skipped + 1 /\ unattributed' = unattributed
          /\ pc' = IF report.class = "stray" THEN "unattributed" ELSE "idle"
      BY <2>2 DEF CountSkipped, AfterSkip
    <3> QED
      BY <1>2, <2>1, <3>1 DEF Inv, Accounted, StrayInHand, Building
  <2>3. CASE CountUnattributed
    BY <1>2, <2>1, <2>3
       DEF Inv, Accounted, StrayInHand, CountUnattributed, Building
  <2> QED
    BY <2>2, <2>3
<1>5. StoreBacks' /\ FetchBacks'
  BY <1>1, <1>2
     DEF Inv, StoreBacks, FetchBacks, Backs, CountSkipped, CountUnattributed, client
<1>6. Honest'
  BY <1>1, <1>2
     DEF Inv, Honest, HistoryBounded, EventsBounded, ReportBounded, StoredHonest, OfContainer,
         Bounded, IsHonest, container, sampler
<1> QED
  BY <1>3, <1>4, <1>5, <1>6 DEF Inv

\* daemon.go buildReport: the reads leave all but the report alone.
LEMMA ReadOK ==
    ASSUME Inv, ReadHistory \/ ReadLiveStats \/ StatGroup \/ ReadGroupKill
    PROVE  Inv'
<1>1. /\ pc \in {"history", "live", "group", "flag"}
      /\ pc' \in {"live", "group", "flag", "storing"}
      /\ UNCHANGED <<include, container, sampler, kills, events, counters, stored, client>>
  BY DEF ReadHistory, ReadLiveStats, StatGroup, ReadGroupKill
<1>2. /\ peak \in 0 .. MaxMemory /\ exists \in BOOLEAN /\ grouped \in BOOLEAN
      /\ history.top \in -1 .. MaxMemory /\ history.peak \in 0 .. MaxMemory
      /\ history.top <= peak /\ history.peak <= peak
      /\ exists => history.top <= history.peak
      /\ report \in Report
      /\ peak' = peak /\ exists' = exists
  BY <1>1
     DEF Inv, Typed, TypedContainer, TypedSampler, TypedHandler, Honest, HistoryBounded, container
<1>3. report' \in Report /\ ReportBounded'
  <2>1. CASE ReadHistory
    <3>1. /\ pc = "history" /\ pc' = "live"
          /\ report' = IF report.class = "container" /\ history # NoHistory
                       THEN [report EXCEPT !.top = history.top, !.peak = history.peak] ELSE report
      BY <2>1 DEF ReadHistory
    <3>2. report' \in Report /\ report'.class = report.class /\ report'.rss = report.rss
      BY <1>2, <3>1 DEF Report
    <3>3. OfContainer(report) => Bounded(report)
      BY <3>1 DEF Inv, Honest, ReportBounded
    <3>4. (OfContainer(report) => Bounded(report))'
      BY <1>2, <3>1, <3>2, <3>3 DEF OfContainer, Bounded, Report
    <3> QED
      BY <3>1, <3>2, <3>4 DEF ReportBounded
  <2>2. CASE ReadLiveStats
    <3>1. pc = "live" /\ pc' = "group" /\ report' = [report EXCEPT !.peak = PeakOf(report)]
      BY <2>2 DEF ReadLiveStats
    <3>2. PeakOf(report) \in 0 .. MaxMemory
      BY <1>2, PipelineAssumption DEF PeakOf, Higher, Report
    <3>3. /\ report' \in Report /\ report'.class = report.class /\ report'.rss = report.rss
          /\ report'.top = report.top /\ report'.peak = PeakOf(report)
      BY <1>2, <3>1, <3>2 DEF Report
    <3>4. OfContainer(report) => Bounded(report)
      BY <3>1 DEF Inv, Honest, ReportBounded
    <3>5. (OfContainer(report) => IsHonest(report))'
      BY <1>2, <3>2, <3>3, <3>4, PipelineAssumption
         DEF OfContainer, Bounded, IsHonest, PeakOf, Higher, Report
    <3> QED
      BY <3>1, <3>3, <3>5 DEF ReportBounded
  <2>3. CASE StatGroup \/ ReadGroupKill
    <3>1. /\ pc \in {"group", "flag"} /\ pc' \in {"flag", "storing"}
          /\ report' \in Report /\ report'.class = report.class /\ report'.rss = report.rss
          /\ report'.top = report.top /\ report'.peak = report.peak
      BY <1>2, <2>3 DEF StatGroup, ReadGroupKill, Readable, Report
    <3>2. OfContainer(report) => IsHonest(report)
      BY <3>1 DEF Inv, Honest, ReportBounded
    <3> QED
      BY <1>2, <3>1, <3>2 DEF ReportBounded, OfContainer, IsHonest
  <2> QED
    BY <2>1, <2>2, <2>3
<1>4. Typed'
  BY <1>1, <1>3
     DEF Inv, Typed, TypedContainer, TypedSampler, TypedHandler, TypedClient, container,
         sampler, counters, client, Building
<1>5. Accounted' /\ StoreBacks' /\ FetchBacks'
  BY <1>1
     DEF Inv, Accounted, Attributable, Taken, Elsewhere, StrayInHand, StoreBacks, FetchBacks,
         counters, client, Building
<1>6. Honest'
  BY <1>1, <1>3
     DEF Inv, Honest, HistoryBounded, EventsBounded, StoredHonest, OfContainer,
         IsHonest, container, sampler
<1> QED
  BY <1>4, <1>5, <1>6 DEF Inv

\* store.go Put of a new report, as daemon.go Handle calls it.
LEMMA StoreReportOK == ASSUME Inv, StoreReport PROVE Inv'
<1>1. /\ pc = "storing" /\ pc' = "counting" /\ stored' = Append(Kept, report)
      /\ UNCHANGED <<include, container, sampler, kills, events, report, counters, client>>
  BY DEF StoreReport
<1>2. stored \in Seq(Report) /\ Len(stored) \in Nat /\ report \in Report /\ processed \in Nat
  BY DEF Inv, Typed, TypedHandler
<1>3. Len(stored) <= Capacity /\ Backs(stored, processed)
  BY <1>1, <1>2 DEF Inv, StoreBacks
<1>4. /\ Kept \in Seq(Report)
      /\ Len(Kept) = IF Len(stored) >= Capacity THEN Len(stored) - 1 ELSE Len(stored)
      /\ \A i \in 1 .. Len(Kept) : \E j \in DOMAIN stored : Kept[i] = stored[j]
  <2>1. CASE Len(stored) >= Capacity
    <3>1. stored # << >>
      BY <2>1, PipelineAssumption, EmptySeq
    <3>2. /\ Tail(stored) \in Seq(Report) /\ Len(Tail(stored)) = Len(stored) - 1
          /\ \A i \in 1 .. Len(Tail(stored)) : Tail(stored)[i] = stored[i + 1]
      BY <1>2, <3>1, HeadTailProperties
    <3>3. Kept = Tail(stored)
      BY <2>1 DEF Kept
    <3>4. \A i \in 1 .. Len(Kept) : i + 1 \in DOMAIN stored /\ Kept[i] = stored[i + 1]
      BY <1>2, <3>2, <3>3
    <3> QED
      BY <2>1, <3>2, <3>3, <3>4
  <2>2. CASE ~ (Len(stored) >= Capacity)
    <3>1. Kept = stored
      BY <2>2 DEF Kept
    <3> QED
      BY <1>2, <2>2, <3>1
  <2> QED
    BY <2>1, <2>2
<1>5. /\ stored' \in Seq(Report) /\ Len(stored') = Len(Kept) + 1
      /\ \A i \in DOMAIN stored' : stored'[i] = report \/ \E j \in DOMAIN stored : stored'[i] = stored[j]
  BY <1>1, <1>2, <1>4, AppendProperties
<1>6. Typed'
  BY <1>1, <1>5
     DEF Inv, Typed, TypedContainer, TypedSampler, TypedHandler, TypedClient, container,
         sampler, counters, client, Building
<1>7. Accounted' /\ FetchBacks'
  BY <1>1
     DEF Inv, Accounted, Attributable, Taken, Elsewhere, StrayInHand, FetchBacks, Backs,
         counters, client, Building
<1>8. StoreBacks'
  BY <1>1, <1>2, <1>3, <1>4, <1>5, PipelineAssumption DEF StoreBacks, Backs, counters
<1>9. Honest'
  <2>1. OfContainer(report) => IsHonest(report)
    BY <1>1 DEF Inv, Honest, ReportBounded
  <2>2. StoredHonest'
    BY <1>1, <1>5, <2>1 DEF Inv, Honest, StoredHonest, OfContainer, IsHonest, container
  <2> QED
    BY <1>1, <2>2
       DEF Inv, Honest, HistoryBounded, EventsBounded, ReportBounded, OfContainer,
           container, sampler
<1> QED
  BY <1>6, <1>7, <1>8, <1>9 DEF Inv

\* daemon.go Handle: the report is counted after it is stored.
LEMMA CountProcessedOK == ASSUME Inv, CountProcessed PROVE Inv'
<1>1. /\ pc = "counting" /\ pc' = "idle" /\ processed' = processed + 1
      /\ UNCHANGED <<include, container, sampler, kills, events, report, sequence, skipped,
                     unattributed, received, stored, client>>
  BY DEF CountProcessed
<1>2. /\ processed \in Nat /\ sequence \in Nat /\ skipped \in Nat /\ unattributed \in Nat
      /\ kills \in Nat /\ Len(events) \in Nat /\ fetched.reports \in Nat
  BY DEF Inv, Typed, TypedHandler, TypedClient, Fetched
<1>3. Typed'
  BY <1>1, <1>2
     DEF Inv, Typed, TypedContainer, TypedSampler, TypedHandler, TypedClient, container,
         sampler, client
<1>4. Accounted' /\ StoreBacks' /\ FetchBacks'
  <2>1. /\ Taken' = Taken /\ Elsewhere' = Elsewhere /\ Attributable' = Attributable
        /\ Elsewhere \in Nat /\ Taken \in Nat /\ Attributable \in Nat
    BY <1>1, TallyType DEF Inv, Taken, Elsewhere, Attributable
  <2>2. Accounted'
    BY <1>1, <1>2, <2>1 DEF Inv, Accounted, StrayInHand, Building
  <2> QED
    BY <1>1, <1>2, <2>2 DEF Inv, StoreBacks, FetchBacks, Backs, client
<1>5. Honest'
  BY <1>1
     DEF Inv, Honest, HistoryBounded, EventsBounded, ReportBounded, StoredHonest, OfContainer,
         IsHonest, container, sampler
<1> QED
  BY <1>3, <1>4, <1>5 DEF Inv

-----------------------------------------------------------------------------
\* client.go Fetch: the status before the list.
LEMMA FetchOK == ASSUME Inv, BeginFetch \/ ReadField PROVE Inv'
<1>1. UNCHANGED <<include, container, sampler, kills, events, handler, counters, stored>>
  BY DEF BeginFetch, ReadField
<1>2. /\ processed \in Nat /\ skipped \in Nat /\ unattributed \in Nat
      /\ stored \in Seq(Report) /\ Len(stored) \in Nat
      /\ reading \in 0 .. 4 /\ fetched \in Fetched
  BY DEF Inv, Typed, TypedHandler, TypedClient
<1>3. Backs(stored, processed)
  BY <1>2, PipelineAssumption DEF Inv, StoreBacks, Backs
<1>4. /\ FetchOrder[1] = "reports" /\ Value("reports") = processed
      /\ FetchOrder[2] = "skipped" /\ Value("skipped") = skipped
      /\ FetchOrder[3] = "unattributed" /\ Value("unattributed") = unattributed
      /\ FetchOrder[4] = "list" /\ Value("list") = stored
      /\ Len(FetchOrder) = 4
  BY DEF FetchOrder, Value
<1>5. TypedClient' /\ FetchBacks'
  <2>1. CASE BeginFetch
    BY <1>2, <2>1 DEF BeginFetch, TypedClient, FetchBacks, Fetched, Nothing
  <2>2. CASE ReadField /\ reading = 1
    <3>1. fetched' = [fetched EXCEPT !.reports = processed] /\ reading' = 2
      <4>1. fetched' = [fetched EXCEPT !.reports = processed]
        BY <1>4, <2>2, Zenon DEF ReadField
      <4>2. reading' = 2
        BY <1>4, <2>2 DEF ReadField
      <4> QED
        BY <4>1, <4>2
    <3> QED
      BY <1>1, <1>2, <3>1 DEF TypedClient, FetchBacks, Fetched, counters
  <2>3. CASE ReadField /\ reading = 2
    <3>1. fetched' = [fetched EXCEPT !.skipped = skipped] /\ reading' = 3
      <4>1. fetched' = [fetched EXCEPT !.skipped = skipped]
        BY <1>4, <2>3, Zenon DEF ReadField
      <4>2. reading' = 3
        BY <1>4, <2>3 DEF ReadField
      <4> QED
        BY <4>1, <4>2
    <3> QED
      BY <1>1, <1>2, <2>3, <3>1 DEF Inv, TypedClient, FetchBacks, Fetched, counters
  <2>4. CASE ReadField /\ reading = 3
    <3>1. fetched' = [fetched EXCEPT !.unattributed = unattributed] /\ reading' = 4
      <4>1. fetched' = [fetched EXCEPT !.unattributed = unattributed]
        BY <1>4, <2>4, Zenon DEF ReadField
      <4>2. reading' = 4
        BY <1>4, <2>4 DEF ReadField
      <4> QED
        BY <4>1, <4>2
    <3> QED
      BY <1>1, <1>2, <2>4, <3>1, SMTT(20) DEF Inv, TypedClient, FetchBacks, Fetched, counters
  <2>5. CASE ReadField /\ reading = 4
    <3>1. fetched' = [fetched EXCEPT !.list = stored] /\ reading' = 0
      BY <1>4, <2>5 DEF ReadField
    <3>2. fetched' \in Fetched /\ fetched'.list = stored /\ fetched'.reports = fetched.reports
      BY <1>2, <3>1 DEF Fetched
    <3>3. fetched.reports <= processed /\ fetched.reports \in Nat
      BY <1>2, <2>5 DEF Inv, FetchBacks, Fetched
    <3> QED
      BY <1>2, <1>3, <3>1, <3>2, <3>3, PipelineAssumption DEF TypedClient, FetchBacks, Backs
  <2> QED
    BY <1>2, <2>1, <2>2, <2>3, <2>4, <2>5 DEF ReadField
<1>6. Typed'
  BY <1>1, <1>5
     DEF Inv, Typed, TypedContainer, TypedSampler, TypedHandler, container, sampler, handler, counters
<1>7. Accounted' /\ StoreBacks'
  BY <1>1
     DEF Inv, Accounted, Attributable, Taken, Elsewhere, StrayInHand, StoreBacks, handler, counters
<1>8. Honest'
  BY <1>1
     DEF Inv, Honest, HistoryBounded, EventsBounded, ReportBounded, StoredHonest, OfContainer,
         Bounded, IsHonest, container, sampler, handler
<1> QED
  BY <1>5, <1>6, <1>7, <1>8 DEF Inv

LEMMA StutterOK == ASSUME Inv, UNCHANGED vars PROVE Inv'
<1>1. Typed' /\ Accounted' /\ StoreBacks' /\ FetchBacks'
  BY DEF Inv, Typed, TypedContainer, TypedSampler, TypedHandler, TypedClient, Accounted,
         Attributable, Taken, Elsewhere, StrayInHand, StoreBacks, FetchBacks, vars, container,
         sampler, handler, counters, client
<1>2. Honest'
  BY DEF Inv, Honest, HistoryBounded, EventsBounded, ReportBounded, StoredHonest, OfContainer,
         Bounded, IsHonest, vars, container, sampler, handler
<1> QED
  BY <1>1, <1>2 DEF Inv

LEMMA NextOK == Inv /\ [Next]_vars => Inv'
<1> SUFFICES ASSUME Inv, [Next]_vars PROVE Inv'
  OBVIOUS
<1>1. CASE Allocate \/ Vanish
  BY <1>1, ContainerOK
<1>2. CASE SampleCurrent \/ SamplePeak \/ EvictHistory
  BY <1>2, SamplerOK
<1>3. ASSUME NEW class \in Class, Kill(class) PROVE Inv'
  BY <1>3, KillOK
<1>4. CASE Handle
  BY <1>4, ReceiveOK, SkipOK, ReadOK, StoreReportOK, CountProcessedOK DEF Handle
<1>5. CASE BeginFetch \/ ReadField
  BY <1>5, FetchOK
<1>6. CASE UNCHANGED vars
  BY <1>6, StutterOK
<1> QED
  BY <1>1, <1>2, <1>3, <1>4, <1>5, <1>6 DEF Next, Class

LEMMA PipelineInvariant == Spec => []Inv
BY InitOK, NextOK, PTL DEF Spec

-----------------------------------------------------------------------------
\* daemon.go: counters, store and every field of a report keep their types and bounds.
THEOREM PipelineTypeCorrect == Spec => []TypeOK
<1>1. ASSUME Inv PROVE TypeOK
  <2>1. Len(events) \in Nat /\ Len(FetchOrder) = 4
    BY <1>1 DEF Inv, Typed, TypedHandler, FetchOrder
  <2>2. /\ {sequence, processed, skipped, unattributed} \subseteq 0 .. MaxEvents
        /\ Len(events) <= kills /\ received \in [Class -> 0 .. MaxEvents]
    <3>1. /\ kills \in 0 .. MaxEvents /\ received \in [Class -> Nat] /\ MaxEvents \in Nat
          /\ processed \in Nat /\ skipped \in Nat /\ unattributed \in Nat /\ sequence \in Nat
      BY <1>1, PipelineAssumption DEF Inv, Typed, TypedHandler
    <3>2. /\ received.container \in Nat /\ received.stray \in Nat /\ received.host \in Nat
          /\ Elsewhere \in Nat /\ Taken \in Nat /\ Attributable \in Nat
          /\ Attributable <= Taken /\ Elsewhere <= Taken /\ received.stray <= Elsewhere
      BY <1>1, TallyType DEF Inv
    <3>3. /\ kills = Len(events) + Taken /\ processed <= Attributable /\ sequence = Attributable
          /\ skipped <= Elsewhere /\ unattributed <= received.stray
      BY <1>1, <3>1, <3>2 DEF Inv, Accounted
    <3>4. Taken <= MaxEvents /\ Len(events) <= kills
      BY <2>1, <3>1, <3>2, <3>3
    <3>5. received.container <= Taken /\ received.stray <= Taken /\ received.host <= Taken
      BY <3>2 DEF Taken, Elsewhere
    <3>6. {sequence, processed, skipped, unattributed} \subseteq 0 .. MaxEvents
      BY <3>1, <3>2, <3>3, <3>4
    <3>7. \A class \in Class : received[class] \in 0 .. MaxEvents
      BY <3>1, <3>2, <3>4, <3>5 DEF Class
    <3> QED
      BY <3>1, <3>7, <3>4, <3>6
  <2>3. {include, exists, grouped} \subseteq BOOLEAN
    BY <1>1 DEF Inv, Typed, TypedContainer
  <2>4. Len(stored) <= Capacity
    BY <1>1 DEF Inv, StoreBacks
  <2> QED
    BY <1>1, <2>1, <2>2, <2>3, <2>4
       DEF Inv, Typed, TypedContainer, TypedSampler, TypedHandler, TypedClient, Building, TypeOK
<1> QED
  BY <1>1, PipelineInvariant, PTL

\* daemon.go buildReport and applyLiveStats: the peak of every report lies between what
\* the victim held and what the container reached, for every size of memory and store
\* and any interleaving of the reads with the container's life.
THEOREM PipelinePeakIsHonest == Spec => []PeakIsHonest
<1>1. Inv => PeakIsHonest
  BY DEF Inv, Honest, StoredHonest, OfContainer, IsHonest, PeakIsHonest, Reports
<1> QED
  BY <1>1, PipelineInvariant, PTL

\* daemon.go Handle: between events every kill received is counted exactly where it belongs.
THEOREM PipelineEveryKillAccounted == Spec => []EveryKillAccounted
<1>1. ASSUME Inv, pc = "idle" PROVE EveryKillAccounted
  <2>1. /\ processed \in Nat /\ skipped \in Nat /\ unattributed \in Nat /\ sequence \in Nat
        /\ Attributable \in Nat /\ Taken \in Nat
        /\ Attributable + (IF include THEN 0 ELSE Elsewhere) = Taken
    BY <1>1, TallyType DEF Inv, Typed, TypedHandler
  <2>2. /\ kills = Len(events) + Taken /\ processed = Attributable /\ sequence = Attributable
        /\ skipped = IF include THEN 0 ELSE Elsewhere
        /\ unattributed = IF include THEN 0 ELSE received.stray
    BY <1>1, <2>1 DEF Inv, Accounted, StrayInHand, Building
  <2> QED
    BY <2>1, <2>2 DEF EveryKillAccounted
<1>2. Inv => EveryKillAccounted
  BY <1>1 DEF EveryKillAccounted
<1> QED
  BY <1>2, PipelineInvariant, PTL

\* client.go Fetch and daemon.go Handle: a list fetched after its count backs it.
THEOREM PipelineCountedAreListed == Spec => []CountedAreListed
<1>1. Inv => CountedAreListed
  BY DEF Inv, FetchBacks, Backs, CountedAreListed
<1> QED
  BY <1>1, PipelineInvariant, PTL

-----------------------------------------------------------------------------
\* The names of the cluster and of the informer: no UID has two, in either or between both, a
\* UID is used once and starts nothing before, and a watch that is up has told everything.
OneName(names, others) == \A m, n \in Name : names[m] = others[n] /\ names[m] # NoPod => m = n

Named(names, uid) == \E n \in Name : names[n] = uid

Names ==
    /\ OneName(pods, pods) /\ OneName(store, store) /\ OneName(pods, store)
    /\ \A u \in UID : Named(pods, u) \/ Named(store, u) => u \in spent
    /\ \A u \in UID \ spent : starts[u] = 0
    /\ connected => store = pods

\* A pod of which a delete is on its way, or has been handled, is gone for good.
Departed(u) == u \in spent /\ ~ Named(pods, u) /\ ~ Named(store, u)

Deletes ==
    /\ \A i \in DOMAIN feed : feed[i].kind = "delete" =>
          /\ Departed(feed[i].uid)
          /\ \A j \in DOMAIN feed : i < j => feed[j].uid # feed[i].uid
    /\ \A u \in DOMAIN buried :
          Departed(u) /\ \A i \in DOMAIN feed : feed[i].uid # u

\* What is known or on its way is of containers that were started, and what follows loses
\* a container only when it has been restarted twice.
Loses(old, new, count) == \A c \in old : c \in new \/ count >= c + 2

Follows ==
    /\ \A u \in DOMAIN live : \A c \in live[u] : c <= starts[u]
    /\ \A i \in DOMAIN feed : \A c \in feed[i].named : c <= starts[feed[i].uid]
    /\ \A i \in DOMAIN feed : feed[i].kind # "delete" =>
          /\ feed[i].uid \in DOMAIN live =>
                Loses(live[feed[i].uid], feed[i].named, starts[feed[i].uid])
          /\ \A j \in DOMAIN feed : j < i /\ feed[j].uid = feed[i].uid =>
                Loses(feed[j].named, feed[i].named, starts[feed[i].uid])

\* While the watch is up, the last that is said of a pod on the node, or the record where
\* nothing is on its way, is what its status says.
Current(u) ==
    \/ \E i \in DOMAIN feed :
          /\ feed[i].uid = u /\ feed[i].kind # "delete" /\ feed[i].named = PodInfo(starts[u])
          /\ \A j \in DOMAIN feed : i < j => feed[j].uid # u
    \/ /\ \A i \in DOMAIN feed : feed[i].uid # u
       /\ u \in DOMAIN live /\ live[u] = PodInfo(starts[u])

UpToDate == connected => \A n \in Name : pods[n] # NoPod => Current(pods[n])

CacheInv == CacheTypeOK /\ Names /\ Deletes /\ Follows /\ UpToDate

\* What the bounds of the graveyard rest on.
GravesAreDated == \A u \in DOMAIN buried : buried[u].expires \in Nat

LEMMA Dated == ASSUME CacheTypeOK PROVE now \in Nat /\ GravesAreDated
BY PodCacheAssumption DEF CacheTypeOK, GravesAreDated

LEMMA CacheInitOK == CacheInit => CacheInv
<1> SUFFICES ASSUME CacheInit PROVE CacheInv
  OBVIOUS
<1> /\ pods \in [Name -> UID \cup {NoPod}] /\ store = [n \in Name |-> NoPod]
    /\ \A m, n \in Name : pods[m] = pods[n] /\ pods[m] # NoPod => m = n
    /\ spent = {pods[n] : n \in Name} \ {NoPod} /\ starts \in [UID -> 0 .. MaxStarts]
    /\ connected = FALSE /\ feed = << >> /\ now = 0 /\ waiter = "waiting"
    /\ DOMAIN live = {} /\ DOMAIN buried = {}
  BY DEF CacheInit
<1>1. CacheTypeOK
  BY PodCacheAssumption DEF CacheTypeOK
<1>2. Names
  BY PodCacheAssumption DEF CacheInit, Names, OneName, Named
<1>3. Deletes /\ Follows /\ UpToDate
  BY DEF Deletes, Follows, UpToDate
<1> QED
  BY <1>1, <1>2, <1>3 DEF CacheInv

\* Between two notifications the cache does not change.
LEMMA CacheUntouched ==
    ASSUME [CacheNext]_cacheVars
    PROVE  Notify \/ (Tick /\ cache' = cache) \/ (now' = now /\ cache' = cache)
BY DEF CacheNext, Schedule, StartContainer, Delete, Disconnect, List, SyncSeen, SyncTimesOut, Tick,
       cacheVars, cache, informer, cluster

LEMMA Joined ==
    ASSUME NEW S, NEW s \in Seq(S), NEW t \in Seq(S)
    PROVE  /\ s \o t \in Seq(S) /\ Len(s \o t) = Len(s) + Len(t)
           /\ \A i \in DOMAIN s : i \in DOMAIN (s \o t) /\ (s \o t)[i] = s[i] /\ i <= Len(s)
           /\ \A i \in DOMAIN t : /\ Len(s) + i \in DOMAIN (s \o t) /\ (s \o t)[Len(s) + i] = t[i]
                                 /\ Len(s) < Len(s) + i
           /\ \A k \in DOMAIN (s \o t) : k \in DOMAIN s \/ \E i \in DOMAIN t : k = Len(s) + i
<1> DEFINE l == s \o t
           m == Len(s)
           n == Len(t)
<1>1. m \in Nat /\ n \in Nat /\ DOMAIN s = 1 .. m /\ DOMAIN t = 1 .. n
  OBVIOUS
<1>2. /\ l \in Seq(S) /\ Len(l) = m + n
      /\ \A i \in 1 .. m + n : l[i] = IF i <= m THEN s[i] ELSE t[i - m]
  BY ConcatProperties
<1> HIDE DEF l, m, n
<1>3. DOMAIN l = 1 .. m + n
  BY <1>1, <1>2
<1>4. \A i \in 1 .. m : i \in 1 .. m + n /\ l[i] = s[i] /\ i <= m
  BY <1>1, <1>2
<1>5. ASSUME NEW i \in 1 .. n PROVE m + i \in 1 .. m + n /\ l[m + i] = t[i] /\ m < m + i
  <2>1. m + i \in 1 .. m + n /\ ~ (m + i <= m) /\ m + i - m = i /\ m < m + i
    BY <1>1
  <2>2. ASSUME NEW k \in 1 .. m + n, k = m + i PROVE l[k] = t[i]
    <3>1. ~ (k <= m) /\ k - m = i
      BY <1>1, <2>2
    <3> QED
      BY <1>2, <3>1
  <2> QED
    BY <2>1, <2>2
<1>6. ASSUME NEW k \in 1 .. m + n PROVE k \in 1 .. m \/ \E i \in 1 .. n : k = m + i
  <2>1. CASE k > m
    <3>1. k - m \in 1 .. n /\ k = m + (k - m)
      BY <1>1, <2>1
    <3> QED
      BY <3>1
  <2>2. CASE ~ (k > m)
    BY <1>1, <2>2
  <2> QED
    BY <2>1, <2>2
<1> QED
  BY <1>1, <1>2, <1>3, <1>4, <1>5, <1>6 DEF l, m, n

\* The informer queues notifications: what they have to be for the invariant to hold of the
\* feed that they end.
Reported(new) ==
    /\ \A i \in DOMAIN new :
          /\ \A c \in new[i].named : c <= starts'[new[i].uid]
          /\ IF new[i].kind = "delete" THEN Departed(new[i].uid)'
             ELSE new[i].named = PodInfo(starts'[new[i].uid])
          /\ ~ Departed(new[i].uid)
          /\ \A j \in DOMAIN new : new[j].uid = new[i].uid => i = j
    /\ connected' => \A n \in Name : pods'[n] # NoPod =>
          \/ \E i \in DOMAIN new : new[i].uid = pods'[n]
          \/ connected /\ pods[n] = pods'[n] /\ starts'[pods[n]] = starts[pods[n]]

LEMMA PodInfoIs ==
    ASSUME NEW k \in 0 .. MaxStarts
    PROVE  /\ PodInfo(k) \subseteq 1 .. MaxStarts /\ \A c \in PodInfo(k) : c <= k
           /\ \A c \in 1 .. MaxStarts : c <= k => c \in PodInfo(k) \/ k >= c + 2
BY PodCacheAssumption DEF PodInfo

LEMMA FeedGrows ==
    ASSUME CacheInv, NEW new \in Seq(Notes), feed' = feed \o new, cache' = cache, Reported(new),
           starts' \in [UID -> 0 .. MaxStarts], \A u \in UID : starts'[u] >= starts[u],
           \A u \in UID : Departed(u) => Departed(u)'
    PROVE  Deletes' /\ Follows' /\ UpToDate'
<1> USE DEF CacheInv, CacheTypeOK
<1> DEFINE n == Len(feed)
<1>1. /\ feed' \in Seq(Notes) /\ n \in Nat
      /\ \A i \in DOMAIN feed : i \in DOMAIN feed' /\ feed'[i] = feed[i] /\ i <= n
      /\ \A i \in DOMAIN new : n + i \in DOMAIN feed' /\ feed'[n + i] = new[i] /\ n < n + i
      /\ \A k \in DOMAIN feed' : k \in DOMAIN feed \/ \E i \in DOMAIN new : k = n + i
  BY Joined
<1> HIDE DEF n
<1>2. /\ \A i \in DOMAIN feed : feed[i] \in Notes /\ i \in Nat
      /\ \A i \in DOMAIN new : new[i] \in Notes /\ i \in Nat
  OBVIOUS
<1>3. live' = live /\ buried' = buried /\ starts \in [UID -> 0 .. MaxStarts]
  BY DEF cache
<1>4. \A i \in DOMAIN new : \A j \in DOMAIN feed : new[i].uid = feed[j].uid => feed[j].kind # "delete"
  BY DEF Deletes, Reported
<1>5. \A u \in DOMAIN buried : \A i \in DOMAIN new : new[i].uid # u
  BY DEF Deletes, Reported
<1>distinct. \A k, l \in DOMAIN new : new[k].uid = new[l].uid => k = l
  BY DEF Reported
<1> DEFINE Left(u) == u \in spent' /\ ~ Named(pods', u) /\ ~ Named(store', u)
<1>6. Deletes'
  <2>1. \A u \in UID : Departed(u) => Left(u)
    BY DEF Departed
  <2>2. \A k \in DOMAIN new : new[k].kind = "delete" => Left(new[k].uid)
    BY DEF Reported, Departed
  <2> HIDE DEF Left
  <2>3. ASSUME NEW i \in DOMAIN feed', feed'[i].kind = "delete",
               NEW j \in DOMAIN feed', i < j, feed'[j].uid = feed'[i].uid
        PROVE  FALSE
    <3>1. CASE i \in DOMAIN feed
      <4>1. feed[i].kind = "delete" /\ feed'[i] = feed[i]
        BY <1>1, <2>3, <3>1
      <4>2. j \in DOMAIN feed => feed[j].uid # feed[i].uid
        BY <2>3, <3>1, <4>1 DEF Deletes
      <4>3. \A k \in DOMAIN new : j = n + k => new[k].uid # feed[i].uid
        BY <1>4, <3>1, <4>1
      <4> QED
        BY <1>1, <2>3, <4>1, <4>2, <4>3
    <3>2. ASSUME NEW k \in DOMAIN new, i = n + k PROVE FALSE
      <4>1. j \notin DOMAIN feed
        BY <1>1, <1>2, <2>3, <3>2
      <4>2. PICK l \in DOMAIN new : j = n + l
        BY <1>1, <4>1
      <4>3. k # l
        BY <1>1, <1>2, <2>3, <3>2, <4>2
      <4>4. feed'[i] = new[k] /\ feed'[j] = new[l]
        BY <1>1, <3>2, <4>2
      <4> QED
        BY <1>distinct, <2>3, <4>3, <4>4
    <3> QED
      BY <1>1, <2>3, <3>1, <3>2
  <2>4. ASSUME NEW i \in DOMAIN feed', feed'[i].kind = "delete" PROVE Left(feed'[i].uid)
    <3>1. CASE i \in DOMAIN feed
      BY <1>1, <1>2, <2>1, <2>4, <3>1 DEF Deletes, Notes
    <3> QED
      BY <1>1, <2>2, <2>4, <3>1
  <2>5. ASSUME NEW u \in DOMAIN buried PROVE Left(u) /\ \A i \in DOMAIN feed' : feed'[i].uid # u
    BY <1>1, <1>5, <2>1 DEF Deletes
  <2> QED
    BY <1>3, <2>3, <2>4, <2>5 DEF Deletes, Departed, Left
<1> HIDE DEF Left
<1>7. Follows'
  <2>1. \A u \in UID : starts[u] \in Nat /\ starts'[u] \in 0 .. MaxStarts /\ starts'[u] \in Nat /\ starts'[u] >= starts[u]
    BY <1>3, PodCacheAssumption
  <2>2. ASSUME NEW u \in UID, NEW old, NEW more, Loses(old, more, starts[u]), old \subseteq 1 .. MaxStarts
        PROVE  Loses(old, more, starts'[u])
    <3> SUFFICES ASSUME NEW c \in old, c \notin more PROVE starts'[u] >= c + 2
      BY DEF Loses
    <3>1. c \in Nat /\ starts[u] >= c + 2
      BY <2>2 DEF Loses
    <3> QED
      BY <2>1, <3>1
  <2>3. ASSUME NEW u \in UID, NEW old, old \subseteq 1 .. MaxStarts, \A c \in old : c <= starts[u]
        PROVE  (\A c \in old : c <= starts'[u]) /\ Loses(old, PodInfo(starts'[u]), starts'[u])
    <3>1. ASSUME NEW c \in old PROVE c \in 1 .. MaxStarts /\ c <= starts'[u]
      <4>1. c \in Nat /\ c <= starts[u]
        BY <2>3
      <4> QED
        BY <2>1, <2>3, <4>1
    <3> QED
      BY <2>1, <3>1, PodInfoIs DEF Loses
  <2>4. /\ \A u \in DOMAIN live : u \in UID /\ live[u] \subseteq 1 .. MaxStarts /\ \A c \in live[u] : c <= starts[u]
        /\ \A i \in DOMAIN feed : /\ feed[i].uid \in UID /\ feed[i].named \subseteq 1 .. MaxStarts
                                  /\ \A c \in feed[i].named : c <= starts[feed[i].uid]
        /\ \A i \in DOMAIN new : new[i].uid \in UID
    BY <1>2 DEF Follows, Notes
  <2>5. \A u \in DOMAIN live : \A c \in live[u] : c <= starts'[u]
    BY <2>3, <2>4
  <2>6. \A i \in DOMAIN feed' : \A c \in feed'[i].named : c <= starts'[feed'[i].uid]
    <3>1. \A i \in DOMAIN feed : \A c \in feed[i].named : c <= starts'[feed[i].uid]
      BY <2>3, <2>4
    <3> QED
      BY <1>1, <3>1 DEF Reported
  <2>7. ASSUME NEW i \in DOMAIN feed', feed'[i].kind # "delete", feed'[i].uid \in DOMAIN live
        PROVE  Loses(live[feed'[i].uid], feed'[i].named, starts'[feed'[i].uid])
    <3>1. CASE i \in DOMAIN feed
      <4>1. feed'[i] = feed[i] /\ Loses(live[feed[i].uid], feed[i].named, starts[feed[i].uid])
        BY <1>1, <2>7, <3>1 DEF Follows
      <4> QED
        BY <2>2, <2>4, <2>7, <3>1, <4>1
    <3>2. ASSUME NEW k \in DOMAIN new, i = n + k
          PROVE  Loses(live[feed'[i].uid], feed'[i].named, starts'[feed'[i].uid])
      <4>1. feed'[i] = new[k] /\ new[k].named = PodInfo(starts'[new[k].uid])
        BY <1>1, <2>7, <3>2, SMTT(20) DEF Reported
      <4> QED
        BY <2>3, <2>4, <2>7, <4>1
    <3> QED
      BY <1>1, <3>1, <3>2
  <2>8. ASSUME NEW i \in DOMAIN feed', feed'[i].kind # "delete",
               NEW j \in DOMAIN feed', j < i, feed'[j].uid = feed'[i].uid
        PROVE  Loses(feed'[j].named, feed'[i].named, starts'[feed'[i].uid])
    <3>1. CASE i \in DOMAIN feed
      <4>1. j \in DOMAIN feed
        <5> SUFFICES ASSUME NEW l \in DOMAIN new, j = n + l PROVE FALSE
          BY <1>1
        <5> QED
          BY <1>1, <1>2, <2>8, <3>1
      <4>2. /\ feed'[i] = feed[i] /\ feed'[j] = feed[j]
            /\ Loses(feed[j].named, feed[i].named, starts[feed[i].uid])
        BY <1>1, <2>8, <3>1, <4>1 DEF Follows
      <4> QED
        BY <2>2, <2>4, <3>1, <4>1, <4>2
    <3>2. ASSUME NEW k \in DOMAIN new, i = n + k
          PROVE  Loses(feed'[j].named, feed'[i].named, starts'[feed'[i].uid])
      <4>1. feed'[i] = new[k] /\ new[k].named = PodInfo(starts'[new[k].uid])
        BY <1>1, <2>8, <3>2 DEF Reported
      <4>2. j \in DOMAIN feed
        <5> SUFFICES ASSUME NEW l \in DOMAIN new, j = n + l PROVE FALSE
          BY <1>1
        <5>1. k # l
          BY <1>1, <1>2, <2>8, <3>2
        <5>2. feed'[j] = new[l]
          BY <1>1
        <5> QED
          BY <1>distinct, <2>8, <4>1, <5>1, <5>2
      <4>3. feed'[j] = feed[j] /\ feed[j].uid = new[k].uid
        BY <1>1, <2>8, <4>1, <4>2
      <4> QED
        BY <2>3, <2>4, <4>1, <4>2, <4>3
    <3> QED
      BY <1>1, <3>1, <3>2
  <2> QED
    BY <1>3, <2>5, <2>6, <2>7, <2>8 DEF Follows
<1>8. UpToDate'
  <2> SUFFICES ASSUME connected', NEW m \in Name, pods'[m] # NoPod
               PROVE  Current(pods[m])'
    BY DEF UpToDate
  <2>1. PICK u : u = pods'[m]
    OBVIOUS
  <2>2. SUFFICES Current(u)'
    BY <2>1 DEF Current
  <2>3. ~ Departed(u)'
    BY <2>1 DEF Departed, Named
  <2>4. ASSUME NEW k \in DOMAIN new, new[k].uid = u PROVE Current(u)'
    <3>1. n + k \in DOMAIN feed' /\ feed'[n + k] = new[k]
      BY <1>1
    <3>2. new[k].kind # "delete" /\ new[k].named = PodInfo(starts'[u])
      BY <2>3, <2>4 DEF Reported
    <3>3. ASSUME NEW j \in DOMAIN feed', n + k < j PROVE feed'[j].uid # u
      <4>1. j \notin DOMAIN feed
        BY <1>1, <1>2, <3>3
      <4>2. PICK l \in DOMAIN new : j = n + l
        BY <1>1, <4>1
      <4>3. k # l
        BY <1>1, <1>2, <3>3, <4>2
      <4> QED
        BY <1>1, <2>4, <4>2, <4>3 DEF Reported
    <3> QED
      BY <2>4, <3>1, <3>2, <3>3 DEF Current
  <2>5. CASE \A k \in DOMAIN new : new[k].uid # u
    <3>1. connected /\ pods[m] = u /\ starts'[u] = starts[u]
      BY <2>1, <2>5 DEF Reported
    <3>2. Current(u)
      BY <2>1, <3>1 DEF UpToDate
    <3>3. \A j \in DOMAIN feed' : feed'[j].uid = u => j \in DOMAIN feed
      BY <1>1, <2>5
    <3>4. CASE \E i \in DOMAIN feed :
                  /\ feed[i].uid = u /\ feed[i].kind # "delete" /\ feed[i].named = PodInfo(starts[u])
                  /\ \A j \in DOMAIN feed : i < j => feed[j].uid # u
      <4>1. PICK i \in DOMAIN feed :
                  /\ feed[i].uid = u /\ feed[i].kind # "delete" /\ feed[i].named = PodInfo(starts[u])
                  /\ \A j \in DOMAIN feed : i < j => feed[j].uid # u
        BY <3>4
      <4>2. /\ i \in DOMAIN feed' /\ feed'[i] = feed[i]
            /\ \A j \in DOMAIN feed' : i < j => feed'[j].uid # u
        BY <1>1, <3>3, <4>1
      <4> QED
        BY <3>1, <4>1, <4>2 DEF Current
    <3>5. CASE /\ \A i \in DOMAIN feed : feed[i].uid # u
               /\ u \in DOMAIN live /\ live[u] = PodInfo(starts[u])
      <4>1. \A j \in DOMAIN feed' : feed'[j].uid # u
        BY <1>1, <3>3, <3>5
      <4> QED
        BY <1>3, <3>1, <3>5, <4>1 DEF Current
    <3> QED
      BY <3>2, <3>4, <3>5 DEF Current
  <2> QED
    BY <2>4, <2>5
<1> QED
  BY <1>6, <1>7, <1>8

\* A change of a pod: what a watch that is up queues and stores of it.
LEMMA WatchedIs ==
    ASSUME CacheInv, NEW n \in Name, NEW kind \in {"add", "update", "delete"}, NEW uid \in UID,
           NEW named \in SUBSET (1 .. MaxStarts), Watched(n, kind, uid, named)
    PROVE  /\ connected /\ kind = "delete" => store' = [store EXCEPT ![n] = NoPod]
           /\ connected /\ kind # "delete" => store' = [store EXCEPT ![n] = uid]
           /\ ~ connected => store' = store
           /\ feed' \in Seq(Notes) /\ Len(feed') <= MaxFeed
           /\ \E new \in Seq(Notes) :
                 /\ feed' = feed \o new /\ DOMAIN new = IF connected THEN {1} ELSE {}
                 /\ \A i \in DOMAIN new : new[i] = Note(kind, uid, named)
<1> USE DEF CacheInv, CacheTypeOK
<1>1. Note(kind, uid, named) \in Notes
  BY DEF Note, Notes
<1>2. CASE connected
  <2>1. /\ Len(feed) < MaxFeed /\ feed' = Append(feed, Note(kind, uid, named))
        /\ store' = [store EXCEPT ![n] = IF kind = "delete" THEN NoPod ELSE uid]
    BY <1>2 DEF Watched
  <2> DEFINE new == <<Note(kind, uid, named)>>
  <2>2. new \in Seq(Notes) /\ DOMAIN new = {1} /\ new[1] = Note(kind, uid, named)
    BY <1>1
  <2>3. Append(feed, Note(kind, uid, named)) = feed \o new
    BY <1>1
  <2>4. feed' \in Seq(Notes) /\ Len(feed') = Len(feed) + 1
    BY <1>1, <2>1
  <2>5. Len(feed') <= MaxFeed
    BY <2>1, <2>4, PodCacheAssumption
  <2> QED
    BY <1>2, <2>1, <2>2, <2>3, <2>4, <2>5
<1>3. CASE ~ connected
  <2>1. feed' = feed /\ store' = store
    BY <1>3 DEF Watched
  <2>2. << >> \in Seq(Notes) /\ feed \o << >> = feed /\ DOMAIN << >> = {}
    BY ConcatEmptySeq
  <2> QED
    BY <1>3, <2>1, <2>2
<1> QED
  BY <1>2, <1>3

LEMMA ScheduleOK ==
    ASSUME CacheInv, NEW n \in Name, NEW uid \in UID, Schedule(n, uid)
    PROVE  CacheInv'
<1> USE DEF CacheInv
<1>1. /\ pods[n] = NoPod /\ uid \notin spent /\ pods' = [pods EXCEPT ![n] = uid]
      /\ spent' = spent \cup {uid} /\ Watched(n, "add", uid, {})
      /\ starts' = starts /\ connected' = connected /\ now' = now /\ cache' = cache /\ waiter' = waiter
      /\ live' = live /\ buried' = buried
  BY DEF Schedule, cache
<1>2. /\ store' = IF connected THEN [store EXCEPT ![n] = uid] ELSE store
      /\ feed' \in Seq(Notes) /\ Len(feed') <= MaxFeed
      /\ \E new \in Seq(Notes) :
            /\ feed' = feed \o new /\ DOMAIN new = IF connected THEN {1} ELSE {}
            /\ \A i \in DOMAIN new : new[i] = Note("add", uid, {})
  <2>1. PICK named \in SUBSET (1 .. MaxStarts) : named = {}
    OBVIOUS
  <2>2. named \in SUBSET (1 .. MaxStarts) /\ Watched(n, "add", uid, named)
    BY <1>1, <2>1
  <2>3. /\ connected => store' = [store EXCEPT ![n] = uid]
        /\ ~ connected => store' = store
        /\ feed' \in Seq(Notes) /\ Len(feed') <= MaxFeed
        /\ \E new \in Seq(Notes) :
              /\ feed' = feed \o new /\ DOMAIN new = IF connected THEN {1} ELSE {}
              /\ \A i \in DOMAIN new : new[i] = Note("add", uid, named)
    BY <2>2, WatchedIs
  <2>4. CASE connected
    BY <2>1, <2>3, <2>4
  <2>5. CASE ~ connected
    BY <2>1, <2>3, <2>5
  <2> QED
    BY <2>4, <2>5
<1>3. pods \in [Name -> UID \cup {NoPod}] /\ store \in [Name -> UID \cup {NoPod}] /\ uid # NoPod
  BY PodCacheAssumption DEF CacheTypeOK
<1>4. /\ pods'[n] = uid /\ \A m \in Name : m # n => pods'[m] = pods[m]
      /\ connected => store'[n] = uid /\ \A m \in Name : m # n => store'[m] = store[m]
  BY <1>1, <1>2, <1>3
<1>5. CacheTypeOK'
  BY <1>1, <1>2, <1>3 DEF CacheTypeOK
<1>6. \A m \in Name : pods[m] # uid /\ store[m] # uid
  BY <1>1 DEF Names, Named
<1>7. Names'
  <2>1. connected => store' = pods'
    BY <1>1, <1>2 DEF Names
  <2>2. ~ connected => store' = store
    BY <1>2
  <2>3. OneName(pods, pods)'
    BY <1>4, <1>6 DEF Names, OneName
  <2>4. OneName(store, store)' /\ OneName(pods, store)'
    <3>1. CASE connected
      BY <2>1, <2>3, <3>1 DEF OneName
    <3>2. CASE ~ connected
      BY <1>4, <1>6, <2>2, <3>2 DEF Names, OneName
    <3> QED
      BY <3>1, <3>2
  <2>5. ASSUME NEW u \in UID, Named(pods', u) \/ Named(store', u) PROVE u \in spent'
    <3>1. Named(pods', u) \/ Named(store, u)
      BY <2>1, <2>2, <2>5
    <3>2. u = uid \/ Named(pods, u) \/ Named(store, u)
      BY <1>4, <3>1 DEF Named
    <3> QED
      BY <1>1, <3>2 DEF Names
  <2>6. \A u \in UID \ spent' : starts'[u] = 0
    BY <1>1 DEF Names
  <2> QED
    BY <1>1, <2>1, <2>3, <2>4, <2>5, <2>6 DEF Names
<1>8. PICK new \in Seq(Notes) :
        /\ feed' = feed \o new /\ DOMAIN new = IF connected THEN {1} ELSE {}
        /\ \A i \in DOMAIN new : new[i] = Note("add", uid, {})
  BY <1>2
<1>9. \A i \in DOMAIN new : new[i].kind = "add" /\ new[i].uid = uid /\ new[i].named = {}
  BY <1>8 DEF Note
<1>10. PodInfo(starts'[uid]) = {}
  BY <1>1, PodCacheAssumption DEF Names, PodInfo
<1>11. Reported(new)
  <2>1. connected' => \A m \in Name : pods'[m] # NoPod =>
            (\E i \in DOMAIN new : new[i].uid = pods'[m]) \/ pods[m] = pods'[m]
    BY <1>1, <1>4, <1>8, <1>9
  <2> QED
    BY <1>1, <1>8, <1>9, <1>10, <2>1 DEF Reported, Departed
<1>12. ASSUME NEW u \in UID, Departed(u) PROVE Departed(u)'
  <2>1. u # uid /\ ~ Named(pods', u)
    BY <1>1, <1>4, <1>12 DEF Departed, Named
  <2>2. ~ Named(store', u)
    BY <1>2, <1>3, <1>12, <2>1 DEF Departed, Named
  <2> QED
    BY <1>1, <1>12, <2>1, <2>2 DEF Departed
<1>13. starts' \in [UID -> 0 .. MaxStarts] /\ \A u \in UID : starts'[u] >= starts[u]
  BY <1>1, PodCacheAssumption DEF CacheTypeOK
<1>14. Deletes' /\ Follows' /\ UpToDate'
  BY <1>1, <1>8, <1>11, <1>12, <1>13, FeedGrows
<1> QED
  BY <1>5, <1>7, <1>14

LEMMA StartContainerOK ==
    ASSUME CacheInv, NEW n \in Name, StartContainer(n)
    PROVE  CacheInv'
<1> USE DEF CacheInv
<1>1. /\ pods[n] # NoPod /\ starts[pods[n]] < MaxStarts
      /\ starts' = [starts EXCEPT ![pods[n]] = @ + 1]
      /\ Watched(n, "update", pods[n], PodInfo(starts[pods[n]] + 1))
      /\ pods' = pods /\ spent' = spent /\ connected' = connected /\ now' = now /\ cache' = cache
      /\ waiter' = waiter /\ live' = live /\ buried' = buried
  BY DEF StartContainer, cache
<1>2. PICK uid \in UID : uid = pods[n]
  BY <1>1 DEF CacheTypeOK
<1>3. /\ starts' \in [UID -> 0 .. MaxStarts] /\ starts'[uid] = starts[uid] + 1
      /\ \A u \in UID : u # uid => starts'[u] = starts[u]
      /\ \A u \in UID : starts'[u] >= starts[u]
  BY <1>1, <1>2, PodCacheAssumption DEF CacheTypeOK
<1>4. PodInfo(starts'[uid]) \subseteq 1 .. MaxStarts /\ \A c \in PodInfo(starts'[uid]) : c <= starts'[uid]
  BY <1>3, PodInfoIs
<1>5. /\ store' = IF connected THEN [store EXCEPT ![n] = uid] ELSE store
      /\ feed' \in Seq(Notes) /\ Len(feed') <= MaxFeed
      /\ \E new \in Seq(Notes) :
            /\ feed' = feed \o new /\ DOMAIN new = IF connected THEN {1} ELSE {}
            /\ \A i \in DOMAIN new : new[i] = Note("update", uid, PodInfo(starts'[uid]))
  <2>1. Watched(n, "update", uid, PodInfo(starts'[uid]))
    BY <1>1, <1>2, <1>3
  <2>2. PICK named : named = PodInfo(starts'[uid])
    OBVIOUS
  <2>3. /\ uid \in UID /\ named \in SUBSET (1 .. MaxStarts)
        /\ "update" \in {"add", "update", "delete"} /\ "update" # "delete"
        /\ Watched(n, "update", uid, named)
    BY <1>2, <1>4, <2>1, <2>2
  <2>4. /\ connected => store' = [store EXCEPT ![n] = uid]
        /\ ~ connected => store' = store
        /\ feed' \in Seq(Notes) /\ Len(feed') <= MaxFeed
        /\ \E new \in Seq(Notes) :
              /\ feed' = feed \o new /\ DOMAIN new = IF connected THEN {1} ELSE {}
              /\ \A i \in DOMAIN new : new[i] = Note("update", uid, named)
    BY <2>3, WatchedIs
  <2>5. CASE connected
    BY <2>2, <2>4, <2>5
  <2>6. CASE ~ connected
    BY <2>2, <2>4, <2>6
  <2> QED
    BY <2>5, <2>6
<1>6. store' = store
  BY <1>2, <1>5 DEF Names, CacheTypeOK
<1>7. CacheTypeOK'
  BY <1>1, <1>3, <1>5, <1>6 DEF CacheTypeOK
<1>8. uid \in spent /\ Named(pods, uid)
  BY <1>2 DEF Names, Named
<1>9. Names'
  BY <1>1, <1>3, <1>6, <1>8 DEF Names, OneName, Named
<1>10. PICK new \in Seq(Notes) :
         /\ feed' = feed \o new /\ DOMAIN new = IF connected THEN {1} ELSE {}
         /\ \A i \in DOMAIN new : new[i] = Note("update", uid, PodInfo(starts'[uid]))
  BY <1>5
<1>11. \A i \in DOMAIN new : new[i].kind = "update" /\ new[i].uid = uid /\ new[i].named = PodInfo(starts'[uid])
  BY <1>10 DEF Note
<1>12. Reported(new)
  <2>1. ASSUME connected', NEW m \in Name, pods'[m] # NoPod
        PROVE  \/ \E i \in DOMAIN new : new[i].uid = pods'[m]
               \/ connected /\ pods[m] = pods'[m] /\ starts'[pods[m]] = starts[pods[m]]
    <3>1. pods[m] \in UID
      BY <1>1, <2>1 DEF CacheTypeOK
    <3> QED
      BY <1>1, <1>3, <1>10, <1>11, <2>1, <3>1
  <2>2. ~ Departed(uid)
    BY <1>8 DEF Departed
  <2> QED
    BY <1>4, <1>10, <1>11, <2>1, <2>2 DEF Reported
<1>13. \A u \in UID : Departed(u) => Departed(u)'
  BY <1>1, <1>6 DEF Departed, Named
<1>14. Deletes' /\ Follows' /\ UpToDate'
  BY <1>1, <1>3, <1>10, <1>12, <1>13, FeedGrows
<1> QED
  BY <1>7, <1>9, <1>14

LEMMA DeleteOK == ASSUME CacheInv, NEW n \in Name, Delete(n) PROVE CacheInv'
<1> USE DEF CacheInv
<1>1. PICK named \in {{}, PodInfo(starts[pods[n]])} :
        /\ pods[n] # NoPod /\ pods' = [pods EXCEPT ![n] = NoPod]
        /\ Watched(n, "delete", pods[n], named)
        /\ spent' = spent /\ starts' = starts /\ connected' = connected /\ now' = now /\ cache' = cache
        /\ waiter' = waiter /\ live' = live /\ buried' = buried
  BY DEF Delete, cache
<1>2. PICK uid \in UID : uid = pods[n]
  BY <1>1 DEF CacheTypeOK
<1>3. named \in SUBSET (1 .. MaxStarts) /\ \A c \in named : c <= starts[uid]
  <2>1. starts[uid] \in 0 .. MaxStarts
    BY DEF CacheTypeOK
  <2> QED
    BY <1>1, <1>2, <2>1, PodInfoIs
<1>4. /\ store' = IF connected THEN [store EXCEPT ![n] = NoPod] ELSE store
      /\ feed' \in Seq(Notes) /\ Len(feed') <= MaxFeed
      /\ \E new \in Seq(Notes) :
            /\ feed' = feed \o new /\ DOMAIN new = IF connected THEN {1} ELSE {}
            /\ \A i \in DOMAIN new : new[i] = Note("delete", uid, named)
  <2>1. Watched(n, "delete", uid, named)
    BY <1>1, <1>2
  <2> QED
    BY <1>3, <2>1, WatchedIs
<1>5. /\ pods \in [Name -> UID \cup {NoPod}] /\ store \in [Name -> UID \cup {NoPod}]
      /\ pods'[n] = NoPod /\ \A m \in Name : m # n => pods'[m] = pods[m]
      /\ uid # NoPod /\ Named(pods, uid) /\ uid \in spent
  BY <1>1, <1>2, PodCacheAssumption DEF CacheTypeOK, Names, Named
<1>6. CacheTypeOK'
  BY <1>1, <1>4, <1>5 DEF CacheTypeOK
<1>7. /\ \A m \in Name : pods'[m] = pods[m] \/ pods'[m] = NoPod
      /\ \A m \in Name : store'[m] = store[m] \/ store'[m] = NoPod
      /\ connected => store' = pods'
  BY <1>1, <1>4, <1>5 DEF Names
<1>8. \A u \in UID : (Named(pods', u) => Named(pods, u)) /\ (Named(store', u) => Named(store, u))
  BY <1>7, PodCacheAssumption DEF Named
<1>9. Names'
  <2>1. OneName(pods, pods)' /\ OneName(store, store)' /\ OneName(pods, store)'
    BY <1>7 DEF Names, OneName
  <2> QED
    BY <1>1, <1>7, <1>8, <2>1 DEF Names
<1>10. PICK new \in Seq(Notes) :
         /\ feed' = feed \o new /\ DOMAIN new = IF connected THEN {1} ELSE {}
         /\ \A i \in DOMAIN new : new[i] = Note("delete", uid, named)
  BY <1>4
<1>11. \A i \in DOMAIN new : new[i].kind = "delete" /\ new[i].uid = uid /\ new[i].named = named
  BY <1>10 DEF Note
<1>12. connected => Departed(uid)'
  <2>1. \A m \in Name : pods'[m] # uid
    BY <1>2, <1>5 DEF Names, OneName
  <2> QED
    BY <1>1, <1>5, <1>7, <2>1 DEF Departed, Named
<1>13. Reported(new)
  <2>1. connected' => \A m \in Name : pods'[m] # NoPod => pods[m] = pods'[m]
    BY <1>7
  <2>2. ~ Departed(uid)
    BY <1>5 DEF Departed
  <2>3. \A i \in DOMAIN new : Departed(new[i].uid)'
    <3> SUFFICES ASSUME NEW i \in DOMAIN new PROVE Departed(new[i].uid)'
      OBVIOUS
    <3>1. connected /\ new[i].uid = uid
      BY <1>10, <1>11
    <3> QED
      BY <1>12, <3>1
  <2> QED
    BY <1>1, <1>3, <1>10, <1>11, <2>1, <2>2, <2>3 DEF Reported
<1>14. \A u \in UID : Departed(u) => Departed(u)'
  BY <1>1, <1>8 DEF Departed
<1>15. starts' \in [UID -> 0 .. MaxStarts] /\ \A u \in UID : starts'[u] >= starts[u]
  BY <1>1, PodCacheAssumption DEF CacheTypeOK
<1>16. Deletes' /\ Follows' /\ UpToDate'
  BY <1>1, <1>10, <1>13, <1>14, <1>15, FeedGrows
<1> QED
  BY <1>6, <1>9, <1>16

\* A set is listed in any order, each element once.
LEMMA SequenceIs ==
    ASSUME NEW S, IsFiniteSet(S), NEW order \in SetToSeqs(S)
    PROVE  /\ order \in Seq(S) /\ DOMAIN order = 1 .. Len(order) /\ Len(order) = Cardinality(S)
           /\ \A i, j \in DOMAIN order : order[i] = order[j] => i = j
           /\ \A q \in S : \E i \in DOMAIN order : order[i] = q
<1> DEFINE n == Cardinality(S)
<1>1. n \in Nat
  BY FS_CardinalityType
<1>2. order \in [1 .. n -> S] /\ \A i, j \in 1 .. n : i # j => order[i] # order[j]
  <2>1. SetToSeqs(S) =
          {f \in [1 .. Cardinality(S) -> S] :
              \A i, j \in 1 .. Cardinality(S) : i # j => f[i] # f[j]}
    BY DEF SetToSeqs
  <2> QED
    BY <2>1
<1>3. IsFiniteSet(1 .. n) /\ Cardinality(1 .. n) = n
  <2>1. IsFiniteSet(1 .. n) /\ Cardinality(1 .. n) = IF 1 > n THEN 0 ELSE n - 1 + 1
    BY <1>1, FS_Interval
  <2> QED
    BY <1>1, <2>1
<1>4. order \in Injection(1 .. n, S)
  BY <1>2 DEF Injection, IsInjective
<1>5. order \in Surjection(1 .. n, S)
  BY <1>3, <1>4, FS_Injection
<1> HIDE DEF n
<1>6. order \in Seq(S) /\ Len(order) = n
  BY <1>1, <1>2
<1>7. \A q \in S : \E i \in 1 .. n : order[i] = q
  BY <1>5 DEF Surjection
<1> QED
  BY <1>1, <1>2, <1>6, <1>7 DEF n

\* What a list tells of a name: the pod that has it, or that the pod it had is gone.
LEMMA ReplacedIs ==
    ASSUME CacheInv, NEW n \in Told
    PROVE  /\ n \in Name /\ Replaced(n) \in Notes
           /\ Replaced(n).uid = IF pods[n] = NoPod THEN store[n] ELSE pods[n]
           /\ Replaced(n).uid # NoPod /\ Replaced(n).uid \in spent
           /\ Replaced(n).kind = "delete" <=> pods[n] = NoPod
           /\ Replaced(n).named = IF pods[n] = NoPod THEN {} ELSE PodInfo(starts[pods[n]])
           /\ \A c \in Replaced(n).named : c <= starts[Replaced(n).uid]
<1> USE DEF CacheInv
<1>1. /\ n \in Name /\ (pods[n] # NoPod \/ store[n] # NoPod)
      /\ pods[n] \in UID \cup {NoPod} /\ store[n] \in UID \cup {NoPod}
  BY DEF Told, CacheTypeOK
<1>2. \A u \in UID : starts[u] \in 0 .. MaxStarts
  BY DEF CacheTypeOK
<1>3. CASE pods[n] = NoPod
  <2>1. Replaced(n) = [kind |-> "delete", uid |-> store[n], named |-> {}]
    BY <1>3 DEF Replaced, Note
  <2>2. store[n] \in UID /\ store[n] # NoPod /\ store[n] \in spent
    BY <1>1, <1>3, PodCacheAssumption DEF Names, Named
  <2> QED
    BY <1>1, <1>3, <2>1, <2>2 DEF Notes
<1>4. CASE pods[n] # NoPod
  <2>1. PICK kind \in {"add", "update"} :
          Replaced(n) = [kind |-> kind, uid |-> pods[n], named |-> PodInfo(starts[pods[n]])]
    BY <1>4 DEF Replaced, Note
  <2>2. /\ pods[n] \in UID /\ pods[n] \in spent
        /\ PodInfo(starts[pods[n]]) \subseteq 1 .. MaxStarts
        /\ \A c \in PodInfo(starts[pods[n]]) : c <= starts[pods[n]]
    BY <1>1, <1>2, <1>4, PodInfoIs DEF Names, Named
  <2> QED
    BY <1>1, <1>4, <2>1, <2>2 DEF Notes
<1> QED
  BY <1>3, <1>4

LEMMA ListOK == ASSUME CacheInv, List PROVE CacheInv'
<1> USE DEF CacheInv
<1>1. PICK order \in SetToSeqs(Told) :
        /\ feed' = feed \o [i \in DOMAIN order |-> Replaced(order[i])]
        /\ Len(feed) + Cardinality(Name) <= MaxFeed
        /\ store' = pods /\ connected' = TRUE /\ listed' = TRUE
        /\ pods' = pods /\ spent' = spent /\ starts' = starts /\ now' = now /\ cache' = cache
        /\ waiter' = waiter /\ live' = live /\ buried' = buried
  BY DEF List, cluster, cache
<1>2. /\ Told \subseteq Name /\ IsFiniteSet(Told) /\ Cardinality(Told) <= Cardinality(Name)
      /\ Cardinality(Told) \in Nat /\ Cardinality(Name) \in Nat
  <2>1. Told \subseteq Name
    BY DEF Told
  <2> QED
    BY <2>1, PodCacheAssumption, FS_Subset, FS_CardinalityType
<1>3. /\ order \in Seq(Told) /\ DOMAIN order = 1 .. Len(order) /\ Len(order) = Cardinality(Told)
      /\ \A i, j \in DOMAIN order : order[i] = order[j] => i = j
      /\ \A q \in Told : \E i \in DOMAIN order : order[i] = q
  BY <1>1, <1>2, SequenceIs
<1>4. PICK new : new = [i \in DOMAIN order |-> Replaced(order[i])]
  OBVIOUS
<1>5. \A i \in DOMAIN order : order[i] \in Told
  BY <1>3
<1>6. /\ new \in Seq(Notes) /\ DOMAIN new = DOMAIN order /\ Len(new) = Cardinality(Told)
      /\ \A i \in DOMAIN new : new[i] = Replaced(order[i])
  <2>1. \A i \in DOMAIN order : Replaced(order[i]) \in Notes
    BY <1>5, ReplacedIs
  <2> QED
    BY <1>3, <1>4, <2>1
<1>7. feed' = feed \o new
  BY <1>1, <1>4
<1>8. /\ pods \in [Name -> UID \cup {NoPod}] /\ store \in [Name -> UID \cup {NoPod}]
      /\ feed \in Seq(Notes) /\ Len(feed) \in Nat
  BY DEF CacheTypeOK
<1>9. CacheTypeOK'
  <2>1. feed' \in Seq(Notes) /\ Len(feed') = Len(feed) + Cardinality(Told)
    <3>1. feed \o new \in Seq(Notes) /\ Len(feed \o new) = Len(feed) + Len(new)
      BY <1>6, <1>8, Joined
    <3> QED
      BY <1>6, <1>7, <3>1
  <2>2. Len(feed') <= MaxFeed
    BY <1>1, <1>2, <1>8, <2>1, PodCacheAssumption
  <2> QED
    BY <1>1, <1>8, <2>1, <2>2 DEF CacheTypeOK
<1>10. Names'
  BY <1>1 DEF Names, OneName, Named
<1>11. ASSUME NEW n \in Told, Replaced(n).kind = "delete"
       PROVE  /\ \A m \in Name : pods[m] # Replaced(n).uid
              /\ Replaced(n).uid \in spent
  <2>1. n \in Name /\ pods[n] = NoPod /\ Replaced(n).uid = store[n] /\ store[n] # NoPod
    BY <1>11, ReplacedIs
  <2> QED
    BY <1>11, <2>1, ReplacedIs DEF Names, OneName
<1>12. ASSUME NEW m \in Told, NEW n \in Told, Replaced(m).uid = Replaced(n).uid PROVE m = n
  <2>1. /\ m \in Name /\ n \in Name
        /\ Replaced(m).uid = (IF pods[m] = NoPod THEN store[m] ELSE pods[m])
        /\ Replaced(n).uid = (IF pods[n] = NoPod THEN store[n] ELSE pods[n])
        /\ Replaced(m).uid # NoPod
    BY ReplacedIs
  <2> QED
    BY <1>12, <2>1 DEF Names, OneName
<1>13. Reported(new)
  <2>1. ASSUME NEW i \in DOMAIN new
        PROVE  /\ \A c \in new[i].named : c <= starts'[new[i].uid]
               /\ new[i].kind = "delete" => Departed(new[i].uid)'
               /\ new[i].kind # "delete" => new[i].named = PodInfo(starts'[new[i].uid])
               /\ ~ Departed(new[i].uid)
               /\ \A j \in DOMAIN new : new[j].uid = new[i].uid => i = j
    <3>1. PICK n \in Told : n = order[i]
      BY <1>5, <1>6
    <3>2. new[i] = Replaced(n)
      BY <1>6, <3>1
    <3>3. \A c \in new[i].named : c <= starts'[new[i].uid]
      BY <1>1, <3>2, ReplacedIs
    <3>4. ASSUME new[i].kind = "delete" PROVE Departed(new[i].uid)'
      BY <1>1, <1>11, <3>2, <3>4 DEF Departed, Named
    <3>5. new[i].kind # "delete" => new[i].named = PodInfo(starts'[new[i].uid])
      BY <1>1, <3>2, ReplacedIs
    <3>6. ~ Departed(new[i].uid)
      BY <3>2, ReplacedIs DEF Departed, Named
    <3>7. ASSUME NEW j \in DOMAIN new, new[j].uid = new[i].uid PROVE i = j
      <4>1. order[j] \in Told /\ new[j] = Replaced(order[j])
        BY <1>5, <1>6
      <4>2. order[j] = n
        BY <1>12, <3>2, <3>7, <4>1
      <4> QED
        BY <1>3, <1>6, <3>1, <4>2
    <3> QED
      BY <3>3, <3>4, <3>5, <3>6, <3>7
  <2>2. ASSUME NEW n \in Name, pods'[n] # NoPod PROVE \E i \in DOMAIN new : new[i].uid = pods'[n]
    <3>1. n \in Told /\ pods[n] # NoPod
      BY <1>1, <2>2 DEF Told
    <3>2. PICK i \in DOMAIN order : order[i] = n
      BY <1>3, <3>1
    <3>3. new[i] = Replaced(n) /\ Replaced(n).uid = pods[n]
      BY <1>6, <3>1, <3>2, ReplacedIs
    <3> QED
      BY <1>1, <1>6, <3>2, <3>3
  <2> QED
    BY <2>1, <2>2 DEF Reported
<1>14. \A u \in UID : Departed(u) => Departed(u)'
  BY <1>1 DEF Departed, Named
<1>15. starts' \in [UID -> 0 .. MaxStarts] /\ \A u \in UID : starts'[u] >= starts[u]
  BY <1>1, PodCacheAssumption DEF CacheTypeOK
<1>16. Deletes' /\ Follows' /\ UpToDate'
  BY <1>1, <1>6, <1>7, <1>13, <1>14, <1>15, FeedGrows
<1> QED
  BY <1>9, <1>10, <1>16

LEMMA QuietOK ==
    ASSUME CacheInv, Disconnect \/ SyncSeen \/ SyncTimesOut \/ Tick \/ UNCHANGED cacheVars
    PROVE  CacheInv'
<1> USE DEF CacheInv
<1>1. /\ pods' = pods /\ spent' = spent /\ starts' = starts /\ store' = store /\ feed' = feed
      /\ live' = live /\ buried' = buried /\ (connected' => connected)
      /\ now' = now \/ (now < MaxTime /\ now' = now + 1)
      /\ waiter' \in {waiter, "synced", "gaveUp"}
  BY DEF Disconnect, SyncSeen, SyncTimesOut, Tick, cacheVars, cluster, informer, cache
<1>2. CacheTypeOK'
  <2>1. now' \in 0 .. MaxTime
    BY <1>1, PodCacheAssumption DEF CacheTypeOK
  <2> QED
    BY <1>1, <2>1 DEF CacheTypeOK
<1>3. Names'
  BY <1>1 DEF Names, OneName, Named
<1>4. Deletes'
  BY <1>1 DEF Deletes, Departed, Named
<1>5. Follows'
  BY <1>1 DEF Follows, Loses
<1>6. UpToDate'
  BY <1>1 DEF UpToDate, Current
<1> QED
  BY <1>2, <1>3, <1>4, <1>5, <1>6

\* podcache.go upsert: one record is set, and only its own tombstone goes.
LEMMA UpsertKeeps ==
    ASSUME NEW note, Upsert(note)
    PROVE  /\ DOMAIN live' = DOMAIN live \cup {note.uid} /\ live'[note.uid] = note.named
           /\ \A u \in DOMAIN live : u # note.uid => live'[u] = live[u]
           /\ DOMAIN buried' = DOMAIN buried \ {note.uid}
           /\ \A u \in DOMAIN buried' : buried'[u] = buried[u]
BY DEF Upsert

\* podcache.go remove and sweep: the pod is buried, and of the graves only those whose
\* grace is over are swept.
LEMMA RemoveKeeps ==
    ASSUME CacheTypeOK, NEW note, RemovePod(note)
    PROVE  /\ DOMAIN live' = DOMAIN live \ {note.uid}
           /\ \A u \in DOMAIN live' : live'[u] = live[u]
           /\ \A u \in DOMAIN buried : now <= buried[u].expires => u \in DOMAIN buried'
           /\ DOMAIN buried' \subseteq DOMAIN buried \cup {note.uid}
           /\ note.uid \in DOMAIN buried'
           /\ buried'[note.uid] = [named |-> Recorded(note), expires |-> now + Grace]
           /\ \A u \in DOMAIN buried' : /\ buried'[u].expires \in Nat
                                       /\ buried'[u].expires >= now
                                       /\ \/ u = note.uid
                                          \/ u \in DOMAIN buried /\ buried'[u] = buried[u]
<1> DEFINE grave == [named |-> Recorded(note), expires |-> now + Grace]
           graves == [u \in DOMAIN buried \cup {note.uid} |->
                         IF u = note.uid THEN grave ELSE buried[u]]
<1>1. /\ live' = Unlisted(note.uid)
      /\ buried' = [u \in {v \in DOMAIN graves : ~ Expired(graves[v])} |-> graves[u]]
  BY DEF RemovePod
<1>2. /\ DOMAIN graves = DOMAIN buried \cup {note.uid}
      /\ graves[note.uid] = grave /\ grave.expires = now + Grace
      /\ \A u \in DOMAIN buried : u # note.uid => graves[u] = buried[u]
  OBVIOUS
<1>3. now + Grace \in Nat /\ now + Grace >= now /\ now \in Nat
  BY PodCacheAssumption, Dated
<1>4. \A u \in DOMAIN graves : graves[u].expires \in Nat
  BY <1>2, <1>3, Dated DEF GravesAreDated
<1> HIDE DEF graves
<1>5. /\ DOMAIN buried' = {v \in DOMAIN graves : ~ (now > graves[v].expires)}
      /\ \A u \in DOMAIN buried' : buried'[u] = graves[u]
  BY <1>1 DEF Expired
<1>6. \A u \in DOMAIN graves : now <= graves[u].expires <=> ~ (now > graves[u].expires)
  BY <1>3, <1>4
<1>7. \A u \in DOMAIN buried' : /\ buried'[u].expires \in Nat
                               /\ buried'[u].expires >= now
                               /\ \/ u = note.uid
                                  \/ u \in DOMAIN buried /\ buried'[u] = buried[u]
  BY <1>2, <1>3, <1>4, <1>5
<1>8. note.uid \in DOMAIN buried' /\ buried'[note.uid] = grave
  BY <1>2, <1>3, <1>5
<1>9. \A u \in DOMAIN buried : now <= buried[u].expires => u \in DOMAIN buried'
  BY <1>2, <1>5, <1>6, <1>8
<1>10. DOMAIN buried' \subseteq DOMAIN buried \cup {note.uid}
  BY <1>2, <1>5
<1> QED
  BY <1>1, <1>7, <1>8, <1>9, <1>10 DEF Unlisted

\* What handling a notification does: the first of the feed is taken, and it sets or buries
\* the record of its pod.
LEMMA Handled ==
    ASSUME CacheTypeOK, Notify
    PROVE  /\ 1 \in DOMAIN feed /\ feed[1] \in Notes
           /\ feed' \in Seq(Notes) /\ Len(feed') <= MaxFeed
           /\ \A i \in DOMAIN feed' : i \in Nat /\ i + 1 \in DOMAIN feed /\ feed'[i] = feed[i + 1]
           /\ \A k \in DOMAIN feed : k \in Nat /\ (k = 1 \/ \E i \in DOMAIN feed' : k = i + 1)
           /\ IF feed[1].kind = "delete" THEN RemovePod(feed[1]) ELSE Upsert(feed[1])
           /\ pods' = pods /\ spent' = spent /\ starts' = starts /\ store' = store
           /\ connected' = connected /\ now' = now /\ waiter' = waiter
<1>1. /\ feed # << >> /\ feed' = Tail(feed) /\ feed \in Seq(Notes) /\ Len(feed) <= MaxFeed
      /\ pods' = pods /\ spent' = spent /\ starts' = starts /\ store' = store
      /\ connected' = connected /\ now' = now /\ waiter' = waiter
  BY DEF Notify, CacheTypeOK, cluster
<1>2. /\ Len(feed) \in Nat /\ Len(feed) # 0 /\ DOMAIN feed = 1 .. Len(feed)
      /\ Head(feed) = feed[1] /\ Head(feed) \in Notes
      /\ Tail(feed) \in Seq(Notes) /\ Len(Tail(feed)) = Len(feed) - 1
      /\ DOMAIN Tail(feed) = 1 .. Len(feed) - 1
      /\ \A i \in 1 .. Len(Tail(feed)) : Tail(feed)[i] = feed[i + 1]
  BY <1>1, HeadTailProperties, EmptySeq
<1>3. PICK n \in Nat : n = Len(feed)
  BY <1>2
<1>4. Len(feed') <= MaxFeed
  BY <1>1, <1>2, PodCacheAssumption
<1>5. \A i \in DOMAIN feed' : i \in Nat /\ i + 1 \in DOMAIN feed /\ feed'[i] = feed[i + 1]
  BY <1>1, <1>2, <1>3
<1>6. ASSUME NEW k \in DOMAIN feed PROVE k \in Nat /\ (k = 1 \/ \E i \in DOMAIN feed' : k = i + 1)
  <2>1. k \in 1 .. n /\ DOMAIN feed' = 1 .. n - 1
    BY <1>1, <1>2, <1>3
  <2>2. k # 1 => k - 1 \in 1 .. n - 1 /\ k = (k - 1) + 1
    BY <2>1
  <2> QED
    BY <2>1, <2>2
<1>7. IF feed[1].kind = "delete" THEN RemovePod(feed[1]) ELSE Upsert(feed[1])
  <2>1. feed[1].kind # "delete" => feed[1].kind \in Upserts
    BY <1>2 DEF Notes, Upserts
  <2> QED
    BY <1>1, <1>2, <2>1 DEF Notify
<1>8. 1 \in DOMAIN feed
  BY <1>2
<1> QED
  BY <1>1, <1>2, <1>4, <1>5, <1>6, <1>7, <1>8

\* What a notification does to the cache.
LEMMA HandleCases ==
    ASSUME Notify
    PROVE  /\ now' = now
           /\ \E note : RemovePod(note) \/ Upsert(note) \/ cache' = cache
BY DEF Notify

LEMMA NotifyOK == ASSUME CacheInv, Notify PROVE CacheInv'
<1> USE DEF CacheInv
<1>1. PICK note \in Notes : note = feed[1]
  BY Handled
<1>2. note.uid \in UID /\ note.named \subseteq 1 .. MaxStarts /\ note.kind \in {"add", "update", "delete"}
  BY DEF Notes
<1>3. /\ 1 \in DOMAIN feed
      /\ feed' \in Seq(Notes) /\ Len(feed') <= MaxFeed
      /\ \A i \in DOMAIN feed' : i \in Nat /\ i + 1 \in DOMAIN feed /\ feed'[i] = feed[i + 1]
      /\ \A k \in DOMAIN feed : k \in Nat /\ (k = 1 \/ \E i \in DOMAIN feed' : k = i + 1)
      /\ pods' = pods /\ spent' = spent /\ starts' = starts /\ store' = store
      /\ connected' = connected /\ now' = now /\ waiter' = waiter
  BY Handled
<1>4. /\ note.kind = "delete" => RemovePod(note)
      /\ note.kind # "delete" => Upsert(note)
  BY <1>1, Handled
\* In either case: whose records and tombstones there are after it.
<1>5. /\ \A u \in DOMAIN live' :
            \/ u \in DOMAIN live /\ live'[u] = live[u]
            \/ u = note.uid /\ note.kind # "delete" /\ live'[u] = note.named
      /\ \A u \in DOMAIN live : u # note.uid => u \in DOMAIN live' /\ live'[u] = live[u]
      /\ note.kind # "delete" => note.uid \in DOMAIN live' /\ live'[note.uid] = note.named
      /\ \A u \in DOMAIN buried' :
            /\ u \notin DOMAIN live'
            /\ \/ u \in DOMAIN buried /\ buried'[u] = buried[u]
               \/ /\ u = note.uid /\ note.kind = "delete"
                  /\ buried'[u] = [named |-> Recorded(note), expires |-> now + Grace]
  <2>1. CASE note.kind = "delete"
    <3>1. /\ DOMAIN live' = DOMAIN live \ {note.uid}
          /\ \A u \in DOMAIN live' : live'[u] = live[u]
          /\ \A u \in DOMAIN buried' :
                \/ u = note.uid /\ buried'[u] = [named |-> Recorded(note), expires |-> now + Grace]
                \/ u \in DOMAIN buried /\ buried'[u] = buried[u]
      BY <1>4, <2>1, RemoveKeeps
    <3> QED
      BY <2>1, <3>1 DEF CacheTypeOK
  <2>2. CASE note.kind # "delete"
    <3>1. /\ DOMAIN live' = DOMAIN live \cup {note.uid} /\ live'[note.uid] = note.named
          /\ \A u \in DOMAIN live : u # note.uid => live'[u] = live[u]
          /\ DOMAIN buried' = DOMAIN buried \ {note.uid}
          /\ \A u \in DOMAIN buried' : buried'[u] = buried[u]
      BY <1>4, <2>2, UpsertKeeps
    <3> QED
      BY <2>2, <3>1 DEF CacheTypeOK
  <2> QED
    BY <2>1, <2>2
<1>6. CacheTypeOK'
  <2>1. \A u \in DOMAIN live' : u \in UID /\ live'[u] \subseteq 1 .. MaxStarts
    BY <1>2, <1>5 DEF CacheTypeOK
  <2>2. Recorded(note) \subseteq 1 .. MaxStarts /\ now + Grace \in 0 .. MaxTime + Grace
    BY <1>2, PodCacheAssumption DEF CacheTypeOK, Recorded
  <2>3. ASSUME NEW u \in DOMAIN buried'
        PROVE  /\ u \in UID \ DOMAIN live' /\ buried'[u].named \subseteq 1 .. MaxStarts
               /\ buried'[u].expires \in 0 .. MaxTime + Grace
    <3>1. CASE u \in DOMAIN buried /\ buried'[u] = buried[u]
      BY <1>5, <3>1 DEF CacheTypeOK
    <3>2. CASE u = note.uid /\ buried'[u] = [named |-> Recorded(note), expires |-> now + Grace]
      BY <1>2, <1>5, <2>2, <3>2
    <3> QED
      BY <1>5, <3>1, <3>2
  <2> QED
    BY <1>3, <2>1, <2>3 DEF CacheTypeOK
<1>7. Names'
  BY <1>3 DEF Names, OneName, Named
<1>8. \A i \in DOMAIN feed' : 1 < i + 1
  BY <1>3
<1>9. Deletes'
  <2>1. \A i \in DOMAIN feed' : feed'[i].kind = "delete" =>
          /\ Departed(feed'[i].uid)
          /\ \A j \in DOMAIN feed' : i < j => feed'[j].uid # feed'[i].uid
    <3> SUFFICES ASSUME NEW i \in DOMAIN feed', feed'[i].kind = "delete"
                 PROVE  /\ Departed(feed'[i].uid)
                        /\ \A j \in DOMAIN feed' : i < j => feed'[j].uid # feed'[i].uid
      OBVIOUS
    <3>1. i \in Nat /\ i + 1 \in DOMAIN feed /\ feed'[i] = feed[i + 1]
      BY <1>3
    <3>2. \A j \in DOMAIN feed' : i < j => i + 1 < j + 1
      BY <1>3, <3>1
    <3> QED
      BY <1>3, <3>1, <3>2 DEF Deletes
  <2>2. ASSUME NEW u \in DOMAIN buried' PROVE Departed(u) /\ \A i \in DOMAIN feed' : feed'[i].uid # u
    <3>1. CASE u \in DOMAIN buried
      BY <1>3, <3>1 DEF Deletes
    <3>2. CASE u = note.uid /\ note.kind = "delete"
      BY <1>1, <1>3, <1>8, <3>2 DEF Deletes
    <3> QED
      BY <1>5, <3>1, <3>2
  <2>3. \A u : Departed(u) => u \in spent' /\ ~ Named(pods', u) /\ ~ Named(store', u)
    BY <1>3 DEF Departed
  <2> QED
    BY <2>1, <2>2, <2>3 DEF Deletes, Departed
<1>10. Follows'
  <2>1. \A u \in DOMAIN live' : \A c \in live'[u] : c <= starts'[u]
    BY <1>1, <1>3, <1>5 DEF Follows
  <2>2. \A i \in DOMAIN feed' : \A c \in feed'[i].named : c <= starts'[feed'[i].uid]
    BY <1>3 DEF Follows
  <2>3. ASSUME NEW i \in DOMAIN feed', feed'[i].kind # "delete", feed'[i].uid \in DOMAIN live'
        PROVE  Loses(live'[feed'[i].uid], feed'[i].named, starts'[feed'[i].uid])
    BY <1>1, <1>3, <1>5, <1>8, <2>3 DEF Follows
  <2>4. ASSUME NEW i \in DOMAIN feed', feed'[i].kind # "delete",
               NEW j \in DOMAIN feed', j < i, feed'[j].uid = feed'[i].uid
        PROVE  Loses(feed'[j].named, feed'[i].named, starts'[feed'[i].uid])
    <3>1. /\ i + 1 \in DOMAIN feed /\ feed'[i] = feed[i + 1]
          /\ j + 1 \in DOMAIN feed /\ feed'[j] = feed[j + 1] /\ j + 1 < i + 1
      BY <1>3, <2>4
    <3> QED
      BY <1>3, <2>4, <3>1 DEF Follows
  <2> QED
    BY <2>1, <2>2, <2>3, <2>4 DEF Follows
<1>11. UpToDate'
  <2> SUFFICES ASSUME connected', NEW m \in Name, pods'[m] # NoPod
               PROVE  Current(pods[m])'
    BY DEF UpToDate
  <2>1. PICK u : u = pods'[m]
    OBVIOUS
  <2>2. SUFFICES Current(u)'
    BY <2>1 DEF Current
  <2>3. Current(u)
    BY <1>3, <2>1 DEF UpToDate
  <2>4. CASE \E i \in DOMAIN feed :
                /\ feed[i].uid = u /\ feed[i].kind # "delete" /\ feed[i].named = PodInfo(starts[u])
                /\ \A j \in DOMAIN feed : i < j => feed[j].uid # u
    <3>1. PICK i \in DOMAIN feed :
                /\ feed[i].uid = u /\ feed[i].kind # "delete" /\ feed[i].named = PodInfo(starts[u])
                /\ \A j \in DOMAIN feed : i < j => feed[j].uid # u
      BY <2>4
    <3>2. CASE i = 1
      <4>1. \A k \in DOMAIN feed' : feed'[k].uid # u
        BY <1>3, <1>8, <3>1, <3>2
      <4> QED
        BY <1>1, <1>3, <1>5, <3>1, <3>2, <4>1 DEF Current
    <3>3. ASSUME NEW k \in DOMAIN feed', i = k + 1 PROVE Current(u)'
      <4>1. feed'[k] = feed[i]
        BY <1>3, <3>3
      <4>2. \A j \in DOMAIN feed' : k < j => feed'[j].uid # u
        BY <1>3, <3>1, <3>3
      <4> QED
        BY <1>3, <3>1, <4>1, <4>2 DEF Current
    <3> QED
      BY <1>3, <3>2, <3>3
  <2>5. CASE /\ \A i \in DOMAIN feed : feed[i].uid # u
             /\ u \in DOMAIN live /\ live[u] = PodInfo(starts[u])
    <3>1. u # note.uid /\ \A k \in DOMAIN feed' : feed'[k].uid # u
      BY <1>1, <1>3, <2>5
    <3> QED
      BY <1>3, <1>5, <2>5, <3>1 DEF Current
  <2> QED
    BY <2>3, <2>4, <2>5 DEF Current
<1> QED
  BY <1>6, <1>7, <1>9, <1>10, <1>11

LEMMA CacheNextOK == CacheInv /\ [CacheNext]_cacheVars => CacheInv'
<1> SUFFICES ASSUME CacheInv, [CacheNext]_cacheVars PROVE CacheInv'
  OBVIOUS
<1>1. ASSUME NEW n \in Name, NEW uid \in UID, Schedule(n, uid) PROVE CacheInv'
  BY <1>1, ScheduleOK
<1>2. ASSUME NEW n \in Name, StartContainer(n) PROVE CacheInv'
  BY <1>2, StartContainerOK
<1>3. ASSUME NEW n \in Name, Delete(n) PROVE CacheInv'
  BY <1>3, DeleteOK
<1>4. CASE List
  BY <1>4, ListOK
<1>5. CASE Notify
  BY <1>5, NotifyOK
<1>6. CASE Disconnect \/ SyncSeen \/ SyncTimesOut \/ Tick \/ UNCHANGED cacheVars
  BY <1>6, QuietOK
<1> QED
  BY <1>1, <1>2, <1>3, <1>4, <1>5, <1>6 DEF CacheNext

LEMMA PodCacheInvariant == CacheSpec => []CacheInv
BY CacheInitOK, CacheNextOK, PTL DEF CacheSpec

\* podcache.go remove, sweep and LookupPod: a pod that could be looked up stops being so
\* only when the clock passes the end of its own grace; no notification, and no other
\* pod's delete, does it.
THEOREM PodCacheDeletedStayResolvable == CacheSpec => DeletedStayResolvable
<1> DEFINE Stays ==
      \A u \in UID : Found(u) /\ ~ Found(u)' =>
          u \in DOMAIN buried /\ now <= buried[u].expires /\ now' > buried[u].expires
<1>1. CacheInv /\ [CacheNext]_cacheVars => [Stays]_cacheVars
  <2> SUFFICES ASSUME CacheInv, [CacheNext]_cacheVars, NEW u \in UID, Found(u), ~ Found(u)'
               PROVE  /\ u \in DOMAIN buried
                      /\ now <= buried[u].expires /\ now' > buried[u].expires
    OBVIOUS
  <2>1. u \in DOMAIN live \/ (u \in DOMAIN buried /\ now <= buried[u].expires)
    BY Dated DEF Found, Expired, CacheInv, GravesAreDated
  <2>2. ~ (u \in DOMAIN live') /\ ~ (u \in DOMAIN buried' /\ ~ (now' > buried'[u].expires))
    BY DEF Found, Expired
  <2>3. CASE cache' = cache
    BY <2>1, <2>2, <2>3 DEF cache
  <2>4. ASSUME NEW note, Upsert(note), now' = now PROVE FALSE
    <3>1. /\ DOMAIN live' = DOMAIN live \cup {note.uid}
          /\ DOMAIN buried' = DOMAIN buried \ {note.uid}
          /\ \A v \in DOMAIN buried' : buried'[v] = buried[v]
      BY <2>4, UpsertKeeps
    <3>2. u \in DOMAIN buried' /\ buried'[u] = buried[u] /\ now <= buried[u].expires
      BY <2>1, <2>2, <3>1
    <3>3. buried[u].expires \in Nat /\ now \in Nat
      BY <2>1, <2>2, <3>1, Dated DEF CacheInv, GravesAreDated
    <3> QED
      BY <2>2, <2>4, <3>2, <3>3
  <2>5. ASSUME NEW note, RemovePod(note), now' = now PROVE FALSE
    <3>1. /\ DOMAIN live' = DOMAIN live \ {note.uid}
          /\ \A v \in DOMAIN buried : now <= buried[v].expires => v \in DOMAIN buried'
          /\ note.uid \in DOMAIN buried'
          /\ \A v \in DOMAIN buried' : buried'[v].expires \in Nat /\ buried'[v].expires >= now
      BY <2>5, RemoveKeeps DEF CacheInv
    <3>2. u \in DOMAIN buried'
      BY <2>1, <2>2, <3>1
    <3>3. now \in Nat
      BY Dated DEF CacheInv
    <3> QED
      BY <2>2, <2>5, <3>1, <3>2, <3>3
  <2> QED
    BY <2>3, <2>4, <2>5, CacheUntouched, HandleCases
<1> QED
  BY <1>1, PodCacheInvariant, PTL DEF CacheSpec, DeletedStayResolvable

\* podcache.go sweep: whenever a pod is buried, the tombstones whose grace is over are
\* gone, so the graveyard holds no more than one grace of the node's churn.
THEOREM PodCacheGraveyardBounded == CacheSpec => GraveyardBounded
<1> DEFINE Swept ==
      \A u \in DOMAIN buried' \ DOMAIN buried :
          \A v \in DOMAIN buried' : buried'[v].expires >= now
<1>1. CacheInv /\ [CacheNext]_cacheVars => [Swept]_cacheVars
  <2> SUFFICES ASSUME CacheInv, [CacheNext]_cacheVars, NEW u \in DOMAIN buried' \ DOMAIN buried,
                      NEW v \in DOMAIN buried'
               PROVE  buried'[v].expires >= now
    OBVIOUS
  <2>1. cache' # cache
    BY DEF cache
  <2>2. ~ \E note : Upsert(note)
    BY UpsertKeeps
  <2>3. PICK note : RemovePod(note)
    BY <2>1, <2>2, CacheUntouched, HandleCases
  <2> QED
    BY <2>3, RemoveKeeps DEF CacheInv
<1> QED
  BY <1>1, PodCacheInvariant, PTL DEF CacheSpec, GraveyardBounded

\* podcache.go: the cache, the notifications on their way to it and the informer's store
\* keep their types; no pod is both held and buried, and nothing is named that no
\* container can have been.
THEOREM PodCacheTypeCorrect == CacheSpec => []CacheTypeOK
<1>1. CacheInv => CacheTypeOK
  BY DEF CacheInv
<1> QED
  BY <1>1, PodCacheInvariant, PTL

\* podcache.go podInfo: with a watch that is up and its notifications handled, the
\* container that runs in any pod of the node and the one it replaced can be named, for
\* every number of pods and restarts and whatever watches were lost before.
THEOREM PodCacheKilledAndRunningNamed == CacheSpec => []KilledAndRunningNamed
<1>1. ASSUME CacheInv PROVE KilledAndRunningNamed
  <2> SUFFICES ASSUME connected, feed = << >>, NEW n \in Name, pods[n] # NoPod,
                      NEW c \in {starts[pods[n]], starts[pods[n]] - 1}, c >= 1
               PROVE  Found(pods[n]) /\ c \in Info(pods[n])
    BY DEF KilledAndRunningNamed
  <2>1. pods[n] \in DOMAIN live /\ live[pods[n]] = PodInfo(starts[pods[n]])
    BY <1>1 DEF CacheInv, UpToDate, Current
  <2>2. starts[pods[n]] \in 0 .. MaxStarts
    BY <1>1 DEF CacheInv, CacheTypeOK
  <2>3. c \in PodInfo(starts[pods[n]])
    BY <2>2, PodCacheAssumption DEF PodInfo
  <2> QED
    BY <2>1, <2>3 DEF Found, Info
<1> QED
  BY <1>1, PodCacheInvariant, PTL

\* podcache.go podInfo and remove: no handled notification, stale, repeated or bare, takes
\* away the name of a container but that of one restarted twice since.
THEOREM PodCacheKnowledgeKept == CacheSpec => KnowledgeKept
<1> DEFINE StaysNamed ==
      \A u \in UID, c \in 1 .. MaxStarts :
          Found(u) /\ Found(u)' /\ c \in Info(u) =>
              c \in Info(u)' \/ (u \in DOMAIN live /\ starts[u] >= c + 2)
<1>1. CacheInv /\ [CacheNext]_cacheVars => [StaysNamed]_cacheVars
  <2> SUFFICES ASSUME CacheInv, [CacheNext]_cacheVars, NEW u \in UID, NEW c \in 1 .. MaxStarts,
                      Found(u), Found(u)', c \in Info(u)
               PROVE  c \in Info(u)' \/ (u \in DOMAIN live /\ starts[u] >= c + 2)
    OBVIOUS
  <2>1. /\ u \in DOMAIN live \/ u \in DOMAIN buried
        /\ u \in DOMAIN live' \/ u \in DOMAIN buried'
    BY DEF Found
  <2>2. /\ c \in IF u \in DOMAIN live THEN live[u] ELSE buried[u].named
        /\ Info(u)' = IF u \in DOMAIN live' THEN live'[u] ELSE buried'[u].named
    BY DEF Info
  <2>3. CASE cache' = cache
    BY <2>2, <2>3 DEF cache
  <2>4. CASE Notify
    <3>1. PICK note \in Notes : note = feed[1]
      BY <2>4, Handled DEF CacheInv
    <3>2. /\ 1 \in DOMAIN feed
          /\ note.kind = "delete" => RemovePod(note)
          /\ note.kind # "delete" => Upsert(note)
      BY <2>4, <3>1, Handled DEF CacheInv
    <3>3. u = note.uid => u \in DOMAIN live
      BY <2>1, <3>1, <3>2 DEF CacheInv, Deletes
    <3>4. CASE note.kind = "delete"
      <4>1. /\ DOMAIN live' = DOMAIN live \ {note.uid}
            /\ \A v \in DOMAIN live' : live'[v] = live[v]
            /\ buried'[note.uid] = [named |-> Recorded(note), expires |-> now + Grace]
            /\ \A v \in DOMAIN buried' : v = note.uid \/ (v \in DOMAIN buried /\ buried'[v] = buried[v])
        BY <3>2, <3>4, RemoveKeeps DEF CacheInv
      <4>2. CASE u = note.uid
        BY <2>2, <3>3, <4>1, <4>2 DEF Recorded
      <4>3. CASE u # note.uid
        BY <2>1, <2>2, <4>1, <4>3
      <4> QED
        BY <4>2, <4>3
    <3>5. CASE note.kind # "delete"
      <4>1. /\ DOMAIN live' = DOMAIN live \cup {note.uid} /\ live'[note.uid] = note.named
            /\ \A v \in DOMAIN live : v # note.uid => live'[v] = live[v]
            /\ \A v \in DOMAIN buried' : buried'[v] = buried[v]
        BY <3>2, <3>5, UpsertKeeps
      <4>2. CASE u = note.uid
        <5>1. Loses(live[u], note.named, starts[u])
          BY <3>1, <3>2, <3>3, <3>5, <4>2 DEF CacheInv, Follows
        <5> QED
          BY <2>2, <3>3, <4>1, <4>2, <5>1 DEF Loses
      <4>3. CASE u # note.uid
        BY <2>1, <2>2, <4>1, <4>3
      <4> QED
        BY <4>2, <4>3
    <3> QED
      BY <3>4, <3>5
  <2> QED
    BY <2>3, <2>4, CacheUntouched
<1> QED
  BY <1>1, PodCacheInvariant, PTL DEF CacheSpec, KnowledgeKept
=============================================================================
