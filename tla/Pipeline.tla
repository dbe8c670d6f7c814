------------------------------- MODULE Pipeline -------------------------------
(***************************************************************************)
(* Daemon.Handle and buildReport, read by read, for the kills of one        *)
(* container and of other cgroups, while the container grows and goes, the  *)
(* sampler samples it, and a client fetches a status and the reports.  The  *)
(* kernel exposes memory.peak.                                              *)
(***************************************************************************)
EXTENDS Integers, Sequences, FiniteSets

CONSTANTS Capacity,    \* of the report store
          MaxMemory,   \* bound on the container's memory
          MaxEvents,   \* bound on the kills
          Unknown      \* a flag that could not be read

ASSUME PipelineAssumption ==
    /\ Capacity \in Nat \ {0} /\ MaxMemory \in Nat /\ MaxEvents \in Nat
    /\ Unknown \notin BOOLEAN

VARIABLES
    include,       \* --include-non-kubernetes
    exists,        \* the container's cgroup is there
    used,          \* its memory.current
    peak,          \* its memory.peak
    grouped,       \* its memory.oom.group
    history,       \* the sampler's: the highest usage and the last peak sampled
    sampling,      \* memory.current of a sample being read, else NotSampling
    kills,         \* kills so far
    events,        \* the detector's stream
    pc,            \* where Handle is
    report,        \* what buildReport has so far
    sequence,      \* d.sequence
    processed, skipped, unattributed,
    received,      \* the kills Handle was called for, by class (no variable of the code)
    stored,        \* the store, oldest first
    reading,       \* the field a fetch reads next, 0 between fetches
    fetched        \* the fields read

container == <<exists, used, peak, grouped>>
counters  == <<sequence, processed, skipped, unattributed, received>>
sampler   == <<history, sampling>>
client    == <<reading, fetched>>
handler   == <<pc, report>>
vars == <<include, container, sampler, kills, events, handler, counters, stored, client>>

Higher(a, b) == IF a > b THEN a ELSE b

NotSampling == -1

NoHistory == [top |-> -1, peak |-> 0]
Nothing   == [reports |-> 0, skipped |-> 0, unattributed |-> 0, list |-> << >>]

Class == {"container", "stray", "host"}

NoReport == [id |-> 0, class |-> "container", rss |-> 0, group |-> Unknown, top |-> -1, peak |-> 0]

Init ==
    /\ include \in BOOLEAN
    /\ exists = TRUE /\ used = 0 /\ peak = 0 /\ grouped \in BOOLEAN
    /\ history = NoHistory /\ sampling = NotSampling /\ kills = 0 /\ events = << >>
    /\ pc = "idle" /\ report = NoReport
    /\ sequence = 0 /\ processed = 0 /\ skipped = 0 /\ unattributed = 0
    /\ received = [class \in Class |-> 0]
    /\ stored = << >> /\ reading = 0 /\ fetched = Nothing

-----------------------------------------------------------------------------
\* The container and the sampler.  A path in the kubepods tree holds the
\* container's ID, so it is not made again.
Allocate ==
    /\ exists /\ used' \in 0 .. MaxMemory
    /\ peak' = Higher(used', peak)
    /\ UNCHANGED <<include, exists, grouped, sampler, kills, events, handler, counters,
                   stored, client>>

Vanish ==
    /\ exists /\ exists' = FALSE
    /\ UNCHANGED <<include, used, peak, grouped, sampler, kills, events, handler, counters,
                   stored, client>>

\* ReadMemoryStats reads memory.current first and memory.peak later.  A memory.peak that
\* is gone by then reads as zero, or with an error that discards the sample.
SampleCurrent ==
    /\ exists /\ sampling = NotSampling /\ sampling' = used
    /\ UNCHANGED <<include, container, history, kills, events, handler, counters, stored,
                   client>>

SamplePeak ==
    /\ sampling # NotSampling /\ sampling' = NotSampling
    /\ \/ history' = [top  |-> Higher(sampling, history.top),
                      peak |-> IF exists THEN peak ELSE 0]
       \/ ~ exists /\ UNCHANGED history
    /\ UNCHANGED <<include, container, kills, events, handler, counters, stored, client>>

EvictHistory ==
    /\ ~ exists /\ sampling = NotSampling /\ history' = NoHistory
    /\ UNCHANGED <<include, container, sampling, kills, events, handler, counters, stored,
                   client>>

\* A detector publishes a kill: in the container, whose victim held up to what the
\* container did, elsewhere in the kubepods tree where no container can be named, or
\* outside it.  It may have read the group flag or not.
Kill(class) ==
    /\ kills < MaxEvents /\ kills' = kills + 1
    /\ class = "container" => exists
    /\ \E rss \in IF class = "container" THEN 0 .. used ELSE {0},
         group \in IF class = "container" THEN {grouped, Unknown} ELSE {Unknown} :
           events' = Append(events, [class |-> class, rss |-> rss, group |-> group])
    /\ UNCHANGED <<include, container, sampler, handler, counters, stored, client>>

-----------------------------------------------------------------------------
\* Handle: only a container or pod cgroup resolves.
Receive ==
    /\ pc = "idle" /\ events # << >>
    /\ events' = Tail(events)
    /\ LET event == Head(events) IN
       /\ received' = [received EXCEPT ![event.class] = @ + 1]
       /\ IF event.class = "container" \/ include
          THEN /\ sequence' = sequence + 1 /\ pc' = "history"
               /\ report' = [NoReport EXCEPT !.id = sequence + 1, !.class = event.class,
                                             !.rss = event.rss, !.group = event.group]
          ELSE /\ pc' = "skipping" /\ report' = [NoReport EXCEPT !.class = event.class]
               /\ UNCHANGED sequence
    /\ UNCHANGED <<include, container, sampler, kills, processed, skipped, unattributed,
                   stored, client>>

\* Mutant of AfterSkip: every skip is taken for one outside the kubepods tree.
OnlySkipped == "idle"

\* A skip inside the kubepods tree is counted once more, and the handler returns.
AfterSkip == IF report.class = "stray" THEN "unattributed" ELSE "idle"

CountSkipped ==
    /\ pc = "skipping" /\ skipped' = skipped + 1
    /\ pc' = AfterSkip
    /\ UNCHANGED <<include, container, sampler, kills, events, report, sequence, processed,
                   unattributed, received, stored, client>>

CountUnattributed ==
    /\ pc = "unattributed" /\ unattributed' = unattributed + 1
    /\ pc' = "idle"
    /\ UNCHANGED <<include, container, sampler, kills, events, report, sequence, processed,
                   skipped, received, stored, client>>

ReadHistory ==
    /\ pc = "history" /\ pc' = "live"
    /\ report' = IF report.class = "container" /\ history # NoHistory
                 THEN [report EXCEPT !.top = history.top, !.peak = history.peak] ELSE report
    /\ UNCHANGED <<include, container, sampler, kills, events, counters, stored, client>>

Readable == report.class = "container" /\ exists

\* Mutant of PeakOf: the victim's memory is no floor.
PeakWithoutFloor(r) == IF Readable THEN Higher(peak, r.peak) ELSE r.peak

\* applyLiveStats: memory.peak once more, and the victim's memory as a floor.
PeakOf(r) == Higher(r.rss, IF Readable THEN Higher(peak, r.peak) ELSE r.peak)

ReadLiveStats ==
    /\ pc = "live" /\ pc' = "group"
    /\ report' = [report EXCEPT !.peak = PeakOf(report)]
    /\ UNCHANGED <<include, container, sampler, kills, events, counters, stored, client>>

\* applyGroupKill: the detector's own reading wins, else one is tried now: ReadOOMGroup looks
\* for the cgroup,
StatGroup ==
    /\ pc = "group"
    /\ pc' = IF report.group = Unknown /\ Readable THEN "flag" ELSE "storing"
    /\ UNCHANGED <<include, container, sampler, kills, events, report, counters, stored,
                   client>>

\* and then reads memory.oom.group, whose absence is taken for zero.
ReadGroupKill ==
    /\ pc = "flag" /\ pc' = "storing"
    /\ report' = [report EXCEPT !.group = Readable /\ grouped]
    /\ UNCHANGED <<include, container, sampler, kills, events, counters, stored, client>>

\* What Put keeps of the store, the report's ID being new.
Kept == IF Len(stored) >= Capacity THEN Tail(stored) ELSE stored

StoreReport ==
    /\ pc = "storing" /\ pc' = "counting"
    /\ stored' = Append(Kept, report)
    /\ UNCHANGED <<include, container, sampler, kills, events, report, counters, client>>

CountProcessed ==
    /\ pc = "counting" /\ processed' = processed + 1 /\ pc' = "idle"
    /\ UNCHANGED <<include, container, sampler, kills, events, report, sequence, skipped,
                   unattributed, received, stored, client>>

-----------------------------------------------------------------------------
\* Mutant of FetchOrder: the list is fetched before the status.
ListFirst == << "list", "reports", "skipped", "unattributed" >>

\* Fetch: /v1/status, whose fields daemonStatus loads one by one, then /v1/events.
FetchOrder == << "reports", "skipped", "unattributed", "list" >>

Value(field) ==
    CASE field = "reports"      -> processed
      [] field = "skipped"      -> skipped
      [] field = "unattributed" -> unattributed
      [] field = "list"         -> stored

BeginFetch ==
    /\ reading = 0 /\ reading' = 1 /\ fetched' = Nothing
    /\ UNCHANGED <<include, container, sampler, kills, events, handler, counters, stored>>

ReadField ==
    /\ reading # 0
    /\ fetched' = [fetched EXCEPT ![FetchOrder[reading]] = Value(FetchOrder[reading])]
    /\ reading' = IF reading = Len(FetchOrder) THEN 0 ELSE reading + 1
    /\ UNCHANGED <<include, container, sampler, kills, events, handler, counters, stored>>

Handle ==
    \/ Receive \/ CountSkipped \/ CountUnattributed \/ ReadHistory \/ ReadLiveStats
    \/ StatGroup \/ ReadGroupKill \/ StoreReport \/ CountProcessed

Next ==
    \/ Allocate \/ Vanish \/ SampleCurrent \/ SamplePeak \/ EvictHistory
    \/ \E class \in Class : Kill(class)
    \/ Handle \/ BeginFetch \/ ReadField

Spec == Init /\ [][Next]_vars

-----------------------------------------------------------------------------
Report == [id : Nat, class : Class, rss : 0 .. MaxMemory,
           group : BOOLEAN \cup {Unknown}, top : -1 .. MaxMemory, peak : 0 .. MaxMemory]

TypeOK ==
    /\ {include, exists, grouped} \subseteq BOOLEAN
    /\ used \in 0 .. peak /\ peak \in 0 .. MaxMemory
    /\ history.top \in -1 .. MaxMemory /\ history.peak \in 0 .. MaxMemory
    /\ sampling \in -1 .. MaxMemory
    /\ kills \in 0 .. MaxEvents /\ Len(events) <= kills
    /\ pc \in {"idle", "skipping", "unattributed", "history", "live", "group", "flag",
               "storing", "counting"}
    /\ report \in Report /\ stored \in Seq(Report) /\ Len(stored) <= Capacity
    /\ {sequence, processed, skipped, unattributed} \subseteq 0 .. MaxEvents
    /\ received \in [Class -> 0 .. MaxEvents]
    /\ reading \in 0 .. Len(FetchOrder)

Reports == {stored[i] : i \in DOMAIN stored}

\* daemon.go applyLiveStats: the peak of a report is never above what the container
\* reached and never below what its victim held, however early the cgroup went and
\* however old the last sample is; nor, while the cgroup is there, below a usage the
\* report's own trajectory shows.
PeakIsHonest ==
    \A r \in Reports : r.class = "container" =>
        r.rss <= r.peak /\ r.peak <= peak /\ (exists => r.top <= r.peak)

\* docs/reference/api.md on peakBytes: "High-water mark, from `memory.peak` where the
\* kernel exposes it": no point of the report's trajectory lies above it.
PeakCoversTrajectory == \A r \in Reports : r.top <= r.peak

\* docs/reference/api.md on groupKill: "Both `true` and `false` come from an actual read of
\* `memory.oom.group`".
GroupKillIsRead ==
    \A r \in Reports : r.group \in {Unknown} \cup (IF r.class = "container" THEN {grouped} ELSE {})

Elsewhere    == received.stray + received.host
Taken        == received.container + Elsewhere
Attributable == IF include THEN Taken ELSE received.container

\* daemon.go Handle: between events every kill that left the stream has been counted exactly
\* once, processed if a report could be made of it and skipped if not, exactly the skipped
\* ones from inside the kubepods tree are counted as unattributed too, and each number of
\* the sequence went to a processed report.
EveryKillAccounted ==
    pc = "idle" =>
        /\ kills = Len(events) + Taken
        /\ processed = Attributable /\ sequence = processed
        /\ processed + skipped = Taken
        /\ unattributed = IF include THEN 0 ELSE received.stray

\* client.go Fetch and daemon.go Handle: the list a client gets backs the count it was
\* shown, though kills are handled between the two requests.
CountedAreListed ==
    reading = 0 => Len(fetched.list) >= (IF fetched.reports < Capacity THEN fetched.reports
                                         ELSE Capacity)

\* docs/reference/api.md on unattributed: "The subset of `skipped` that came from inside
\* the kubepods tree".
UnattributedWithinSkipped == reading = 0 => fetched.unattributed <= fetched.skipped
=============================================================================
