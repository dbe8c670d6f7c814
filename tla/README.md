# Verification of oom-oracle

oom-oracle is a Kubernetes node daemon: it watches cgroups, notices OOM kills and
writes a post-mortem for each. This directory holds TLA+ models of its stateful
parts, the TLC runs that check them and TLAPS proofs about nearly all of them. Every
definition is translated from the Go source; `PROJECT.json` maps each one to its lines.

## 1. The system

| Component | State | Operations | Talks to |
|---|---|---|---|
| ring buffer (`internal/sampler/ring.go`) | fixed slots, write index, count | Add, Len, Samples, Latest | owned by the sampler, under its lock |
| sampler (`internal/sampler/sampler.go`) | a ring per cgroup path, marks of vanished paths | Run, Collect, record, evict, History | reads cgroupfs; read by the daemon |
| polling detector (`internal/detector/poller.go`) | kill counter and process snapshot per path, event channel | Start, Prime, Poll, loop, Close | reads cgroupfs and procfs; feeds the daemon |
| eBPF detector (`internal/detector/ebpf*.go`, `bpf/`) | objects and probe in the kernel, its ring buffer, cgroup-ID index, event channel | Load, Start, Read loop, enrich, resolveCgroup, Close | the same |
| daemon (`internal/daemon/daemon.go`) | sequence and counters, `watching` | Run, Handle, buildReport, Ready | consumes the channel, joins the sampler, writes the store |
| process (`internal/cmd/daemon.go`) | an errgroup and its context, the tracer while it has one | runDaemon, buildDetector, buildPodCache, awaitPodCache, daemonStatus | owns everything |
| report store (`internal/store/store.go`) | reports in arrival order, index by ID | Put, Get, List | written by the daemon, read by the API |
| pod cache (`internal/k8s/podcache.go`) | live pods and tombstones by UID, `synced` | upsert, remove, sweep, LookupPod, WaitForSync | fed by a client-go informer, read by the resolver |
| HTTP API (`internal/api/api.go`) | none of its own | status, events, readiness, shutdown | reads the store and the counters |
| command line (`internal/cmd`) | none | daemon, watch, inspect | inspect asks the API |
| dashboard (`internal/tui`) | last snapshot, error, selection, detail pane | Update and its messages, Fetch, View | polls the API |
| correlation (`internal/correlate`) | none | path to pod, container | called by the daemon |
| cgroupfs and procfs readers (`internal/cgroup`, `internal/procfs`) | none | several file reads per call | called by sampler, detectors, daemon |
| trend, report data (`internal/sampler/trend.go`, `internal/oom`) | none | Analyse, TrajectoryFrom, ProcessesFrom | called by the daemon |
| renderers (`internal/render`) | none | text, JSON | called by inspect and the dashboard |

**What is hard.** The kernel changes every file between two reads of one pass, and the
subject of a report is usually gone when the report is built. The sampler must hold
history for exactly the time nobody else does. Two goroutines and a channel are joined by
hand in `Daemon.Run`; the poller's goroutine belongs to no group. Counters are loaded one
by one while they move. The informer delivers late, and tells of a replaced pod only under
its name. Refreshes of the dashboard overlap.

**What makes each part correct.** Ring: it is the window of the last samples. Store: its
index always tells the truth, and what a client gets is what its query asked for, newest
first. Sampler: nothing is dropped before its time and everything after, so that a kill
handled within the retention finds the history it had. Poller: an event means a kill, a kill
means an event, a victim is dead. Process: it ends when told to, with nobody left behind,
nothing of an unused tracer stays attached, and it does not go blind in silence. Pipeline: no
number in a report is invented and no kill is lost between the counters. Tracing: a kill goes
to the cgroup its victim was in, however late its traces are read, only the victim leaves the
listing, and the text says of nobody who died that he survived. History: the trend is the
line of least squares and what is printed shows the peak. Pod cache: who could be named stays
nameable for the grace, and no longer; a restart does not hide the container that was killed.
Dashboard: the screen shows the daemon at one moment, no later than the time it names, the
report shown is the one selected, and the screen catches up.

`PROJECT.json` lists the components, the ones left out included, and the hazards line by line.

## 2. Modules

| Module | Models | Correspondence |
|---|---|---|
| `SampleWindow` | what a ring promises | a sequence cut to its last Capacity entries |
| `Ring` | `Ring` | operators on the record `[samples, next, filled]`; pure, so that `Sampler` uses it per path |
| `RingMachine` | one ring as a state machine | `AddSample` is `Add`; refines `SampleWindow` |
| `MemoryFiles` | `ReadMemoryStats` of either hierarchy, `UsageRatio`, `Headroom` | pure; a file is a number or one of the words that make a difference |
| `Trend` | `Analyse` | pure; a fraction is a numerator and a denominator |
| `Trajectory` | `TrajectoryFrom`, `trajectoryRows` | pure; rows are positions |
| `History` | one container from its files to its report | EXTENDS the four above; `Record` is a reading of `Collect` and its `record` |
| `ReportLog` | what the store promises | an arrival-ordered log that is searched, without an index |
| `Store` | `Memory` | `ordered`, `byID`; `Put` is `Overwrite` or `Insert`; refines `ReportLog` |
| `Queries` | the list and get handlers, `oom-oracle inspect` | EXTENDS `Store`; a query's limit is absent, a word or a number; pure |
| `Sampler` | `Sampler` | `BeginPass` / `ReadCgroup` / `SkipCgroup` / `Evict` are the lock regions of `Collect`; EXTENDS `Ring` |
| `Evidence` | the sampler, the detector's channel and `Handle` on one clock | EXTENDS `Sampler`; `Kill` puts an event into the channel, `HandleKill` takes it and its `History` |
| `Poller` | `Poller` and `ReadMemoryStats` | one action per file read or lock region; the kernel's actions interleave everywhere |
| `EbpfDetector` | the probe, `ebpfDetector`, `cgroupIndex` | `OOMKill` is the probe; `ReadSample`, `ReadStatus`, `ResolveCgroup`, `StatGroup`, `ReadGroup`, `Send` are `loop` and `enrich` between two looks at a kernel that goes on |
| `ProcFiles` | `ParseCgroup`, `ParseStatus`'s NSpid, the path a cgroup namespace shows | pure; a path climbs with `..` from the root of its reader |
| `CgroupPath` | `ParseCgroupPath`, `Resolve` | pure; a path is a sequence of segments, a segment one of tokens |
| `ProcessListing` | `ProcessesFrom` | pure |
| `ReportText` | what the text of a report claims of pod, container and processes | pure; a claim is a value, its wording is left out |
| `Traced` | a kill from the probe to the identity, the listing and the text of its report | EXTENDS the five above; `Handle` is the daemon's receive |
| `Lifecycle` | `runDaemon` from its flags to its end: `buildDetector`, `bpf.Load` object by object, `Daemon.Run`, sampler, the loop of either detector, the goroutine that closes the tracer, server, pod cache | one program counter per goroutine |
| `Pipeline` | `Handle`, `buildReport`, `daemonStatus`, `Fetch` | one action per read of another component and per atomic counter |
| `PodCache` | `PodCache` | `Upsert` and `RemovePod` (with its sweep) are its handlers; the informer and the container's restarts are external |
| `Dashboard` | `tui.Model` and `Fetch` | one action per message, key, request and reading of the clock; the fetches in flight are a sequence, delivered in any order |
| `Screen` | `View` | EXTENDS `Dashboard`; pure: the panes, the header's count and the footer's age as functions of the model |
| `RingProofs`, `HistoryProofs`, `SamplerProofs`, `PollerProofs`, `TracedProofs`, `DashboardProofs` | - | the proofs about the module of that name; `RingProofs` has the lemmas about a ring that `HistoryProofs` and `SamplerProofs` use, and `SamplerProofs` is about `Evidence` too |
| `DaemonProofs` | - | the proofs about `Lifecycle`, `Store` and `Queries` |
| `ReportProofs` | - | the proofs about `Pipeline` and `PodCache` |
| `MC*` | - | values of the constants |

`Ring` is used inside `Sampler` and `History`. `Pipeline` takes from `Sampler`, `Store` and the detectors
only what a report reads of them (history or none, append with the oldest dropped, an event
with its flag); `Lifecycle` takes from `Sampler` and the detectors only when they are built,
run, fail and stop. In `Pipeline` a history may be missing; `Evidence` says for how long it is not.

Names ending a comment with "Mutant of X" are deliberate faults. No specification uses
them; put in the place of X they show that a property notices the fault.

## 3. Runs

Runs expected to pass:

| Run | Shows | Bounds, and why they suffice |
|---|---|---|
| `history` | the ring is the sliding window; the trend fits best, the projection follows growth, no ceiling makes no ratio, the rows show the peak | 5 slots, usages 0 to 2, gaps of 0 to 2 seconds, limits below and above the usage or none under either hierarchy: wraps, steps, falls, equal times and peaks next to both ends; three rows of five is the least at which an end is nearest to the peak |
| `store` | index exact, what the API and `inspect` answer is what was asked for, no difference from the log | capacity 3, 4 IDs, 2 pods: full, shifting, overwritten in each position, IDs evicted and returning; every filter with every kind of limit, and every argument of `inspect` |
| `evidence` | marks sound, no early eviction, memory reclaimed; an event that waits keeps its trajectory for the retention | one path, retention 2 of 5 ticks, capacity 2, channel of 2, 2 kills: vanish, return, vanish again and be evicted fit, with an event waiting through any of it |
| `poller` | an event is a kill since the last reading, a victim is dead, a seen victim is named; counted kills are sent; cancellation closes the stream | one cgroup, 2 processes of two sizes, 2 kills, one read failure, remove and recreate, channel of 1: it fills while a pass has more. `MCPollerVictims.cfg` repeats the safety properties with 3 of each in four minutes |
| `traced` | a kill goes to its victim's cgroup or one above, to the own one if that is still there; identity, listing and claims of the text are right; kills in the ring buffer are sent | a pod's slice, its container's scope and a host cgroup, 2 processes (with one inner PID twice), 3 cgroup IDs (one path made twice), ring and channel of 1 (both overflow), one failure, three nodes, four layouts in host and private cgroup namespaces. The grouped cgroup is a leaf, so that its own file decides |
| `lifecycle` | the sampler is joined, what the kernel holds of a tracer is in use or released, the traced stream is closed once and by its sender, shutdown ends, the sampler's failure is fatal | channel of 2, 2 events a pass: a pass blocks on what the previous one left; loading fails after each object |
| `pipeline` | peaks are what was read, every kill is counted as what it was, counts are backed by the list | 2 kills, store of 1, memory of 1: the second evicts the first, and a peak of 0 differs from one of 1 |
| `podcache` | pods become and stay resolvable, containers killed before a restart stay named, knowledge kept | one name with two successive pods, each starting its container three times (the ID before last is the one a status drops), a feed of 2, grace 1 of 2 ticks, a sync timeout of 1 |
| `dashboard` | panes agree, the screen is one moment of the daemon and no later than the time it names, selection follows its report, screen catches up | store of 2, 3 reports, 2 fetches, interval 2, timeout 5: out-of-order delivery, an evicted selection, a fetch that outlives its successor |

To be added to a configuration by hand, and holding there: `TypeOK` (`MCDashboard.cfg`,
`MCLifecycle.cfg`, `MCPipeline.cfg`, `MCTraced.cfg`; it is in `MCPollerVictims.cfg`),
`CacheTypeOK` (`MCPodCache.cfg`), `StoreTypeOK` (`MCStore.cfg`), `RingTypeOK`
(`MCHistory.cfg`), `EvidenceTypeOK` (`MCEvidence.cfg`), `DetailIsSelected`
(`MCDashboard.cfg`), and as a PROPERTY `GraveyardBounded` (`MCPodCache.cfg`) and
`StreamCloses` (`MCTraced.cfg`).

Bounds (`MaxTime`, `MaxKills`, `MaxFaults`, `MaxFeed`, `MaxStarts`, `MaxEvents`, `MaxMemory`,
`MaxReports`, `MaxProcesses`, `MaxInode`, `MaxFetches`) guard environment actions only;
`MaxFeed` also holds up `List` and `MaxFetches` a tick, neither of which limits in the code.

Configurations in which TLC finds the code to depart from what a comment or a doc says of
it. Each checks one property, whose comment quotes the sentence. Three are runs of the
project with an entry under `findings`; the others are run by hand, with the configuration
named in place of its properties given the one named, and say what the project knows to be
false, so that nobody takes those properties for granted.

| Configuration and property | The code does |
|---|---|
| run `lifecycle_ready`: `BlindnessShows` | a failed poll closes the stream; `Run` then waits for the sampler and stays ready |
| run `lifecycle_close`: `NothingSentAfterClose` | the deferred `Close` may overtake a pass that is about to send, which panics |
| run `traced_group`: `GroupFlagIsHonest` | a cgroup removed between `ReadOOMGroup`'s stat and its read is reported as read and not grouped |
| `MCPollerNested.cfg`: `AncestorsNotBlamed` | a container removed between the reads of `memory.events` and `memory.events.local` makes its pod's slice, if that goes too, report the descendant's kill |
| `MCPollerNested.cfg`: `EvictionIsComplete` | a path with a snapshot and no counter is never evicted |
| `MCPipeline.cfg`: `UnattributedWithinSkipped` | a status can show more unattributed kills than skipped ones |
| `MCPipeline.cfg`: `PeakCoversTrajectory` | a cgroup removed within a sample's reads leaves a peak of zero, and a report a peak below its own trajectory |
| `MCPipeline.cfg`: `GroupKillIsRead` | the cgroup goes between the stat and the read, as in `traced_group` |
| `MCEvidence.cfg`: `TrajectoryLeadsUp` | a cgroup that outlives its victim is sampled on, and a report built later has samples from after the kill |
| `MCTracedGroup.cfg`, `Grouped = {branch}`: `RestKeptRunning` | the flag of the victim's own cgroup is read, while the kernel asks the cgroups above too: although docs/reference/api.md says of a false flag that the rest kept running, processes below a grouped one are reported as survivors of the kill that took them |
| `MCTracedGroup.cfg`, `Nodes <- ApartNode`, `Layouts <- PodRuntime`: `HostKillsSkipped` | `/podruntime/runtime`, which is outside the kubelet's tree, is parsed as a container of a pod: only `parsePodScope` asks for the tree |
| the same with `Layouts <- PodRoot`: `CleaningIsAbsolute` | to a daemon whose cgroup namespace begins inside the pods' tree the kernel shows a shorter climb, and cleaning leaves a path that is not the absolute one |
| `MCTracedGroup.cfg`, `Nodes <- Colliding`: `ReadFromVictim` | on a nested node whose `/proc` uses the kernel's PID for another process, its files are taken for the victim's |
| `MCTracedGroup.cfg`, `Grouped = {}`, `InnerPid <- TwinPids`: `NobodyElseLeaves` | when the victim has gone, its twin by inner PID leaves the listing as if it were the victim |
| `MCPodCache.cfg`: `SyncedIsListed` (a PROPERTY) | a list that completes after the timeout never sets `synced` |
| `MCPodCache.cfg`: `TrackedAreOnNode` | a pod replaced under its name during a broken watch stays live for good |
| `MCDashboard.cfg`: `FetchesDoNotStack` | the timeout is longer than the default interval, so requests do stack |
| `MCDashboard.cfg`: `UnreachableShows` | a refresh that fails after an empty one does not change the pane |

**Deadlock** is checked except in `Lifecycle`, whose process ends, and in `History` and
`Traced`, whose clock or whose supply of processes and cgroups does. `Evidence` and `Poller`
may stop too, but their environment goes on.

**Fairness.** Each goroutine that has a step takes one (the Go scheduler). Strong fairness
is given only to `select` cases that become ready again and again (`Done` against a ticker,
a send against `Done`), because `select` chooses at random among the ready ones; a reading
pass that takes longer than its interval would not change this, since every pass ends.
Requests, reads and `Shutdown` return, which is weak fairness of their actions: they work
on local files or under a timeout. `Build` ends, since its steps are calls that return;
a `Read` of a closed ring buffer returns (`ReadClosed`), and the goroutine that waits for the
context closes it (`WatcherCloses`). The informer retries its list and runs its handlers.
The daemon consumes events until it is cancelled, and no longer: nothing is assumed of it
afterwards. In `Traced` the detector's goroutine, the one that closes the tracer and the
daemon are scheduled; that is all `StreamCloses` and `KillsSent` need. `Evidence` has the
sampler's fairness alone. No signal, kill, key or failure is ever assumed to happen, nor
that a kill is handled in time. The event loop delivers each answered fetch.

## 4. Proofs

For every value of the constants that satisfies the named assumptions of the module. Each
argument is an inductive invariant, of which the theorems are corollaries; what follows
says what it has beyond types and why it needs that.

- **Ring** (`CapacityAssumption`: capacity positive). Every slot below the count is written
  (`Written`): without it nothing keeps `Latest` from the zero sample. Lemmas state what
  `Add` does to `RingSamples`, by cases on a ring that is filling, full, and wrapping; from
  them follow `RingTypeCorrect`, `RingReadersAgree` and the refinement `RingImplementsWindow`.
- **History** (those of the modules it extends, and `HistoryAssumption`: limits are below
  the kernel's greatest counter, and a sample may be any reading). `HistoryInv` is the ring's
  invariant, that times never go back (`TimesInOrder`) and `ReadingsFit`: what
  `ReadMemoryStats` returns of either hierarchy's files has the container's own ceiling, or the one sentinel when it has none (`FilesAreRead`,
  `CorruptIsRefused`). From it `HistoryReadersAgree`, `HistoryImplementsWindow` and
  `HistoryNoCeilingNoRatio`. `HistoryRowsTellTheStory` is about the algorithm of
  `trajectoryRows`, for any number of readings and any row limit of three or more:
  evenly spaced rows are distinct when there are more readings than rows (`EvenRowsAre`), the
  busiest never displaces an end and its new neighbours lie on either side (`DisplacedIs`).
  `HistoryTrendIsLeastSquares` says of the line fitted to any window, and not only of the
  slopes that the run compares it with, that none is closer to the readings
  (`FitIsLeastSquares`): its residuals add up to zero and are orthogonal to the times, so a
  line that differs from it adds the square of the difference. `HistoryProjectionFollowsGrowth`
  needs the direction of the slope from the readings: where times never go back and the usage
  never climbs, the two never go the same way, and by Chebyshev's sum inequality (`Opposed`)
  the slope is not positive; under steady growth the line meets every reading (`SteadyFit`).
  Of `MaxSeconds`, the longest duration, it is only assumed that it is positive.
- **Store** (`StoreAssumption`). The capacity, and `IndexExact`, which also
  makes IDs distinct. Distinctness is what `ReindexExact` needs: the index rebuilt after a
  shift sends each ID to its one position. `RoomOK` covers the step that makes room;
  `StoreImplementsLog` follows as the index decides what a search of the log would.
  `StoreAnswersAreTheStore` goes from the arguments of `inspect` and the parameters of the
  API to the body of the answer: what the loop of `List` has matched when it stops are the
  last of the reports that match, newest first and none twice (`MatchedIs`, `PickedAll`), as
  many as the limit lets through (`ListIs`), and the request that `inspect` and the dashboard
  send asks for what was asked of them (`AskedFor`, `InspectAnswered`, `DashboardAnswered`,
  `LookupAnswered`).
- **Sampler** (`SamplerAssumption`). `EvictionsAreLate` is about one step and does not
  follow from types: it needs that a mark is no older than the last sample of its history
  (`MarksAreSound`), and that needs that samples carry the times of passes
  (`SamplesBelongToPasses`) and that what the pass has read is held (`LiveIsHeld`).
- **Evidence** (`EvidenceAssumption`). `EvidenceImplementsSampler`: kills and their handling
  leave the sampler to do what it does alone, so that all of the above carries over.
  `TrajectoryKept` is inductive
  only with this behind it: an eviction is harmless to a waiting event because a mark is not
  older than the sample the event knows of, and the newest sample of a ring, which never goes
  back in time, is the end of its trajectory (`LatestIsNewest`). It holds for
  a channel of any size and however long events wait in it.
- **Poller** (`PollerAssumption`: any tree of cgroups, natural PIDs, at least one kill; and
  `Init` has finitely many cgroups). `Baseline`: a counter that has risen above
  the remembered one, or a value read and not yet compared, has risen by kills no event has
  accounted for, also when the cgroup was made again meanwhile; gives `PollerEventsAreKills`.
  `Seen` and `Dead`: a process in a snapshot is in no other cgroup, so a victim that is not
  listed is dead, and no PID comes back; `PollerVictimIsDead`. `Evident` compares snapshots
  with what has been observed of each cgroup, in every phase of a pass: where no snapshot is
  kept, whoever was observed has left; `PollerObservedKillNamesVictim` rests on it and on
  `HeaviestIsMember`, that a nonempty set of candidates has a heaviest one.
- **Traced** (`EbpfAssumption`, `TextAssumption`; `Init` numbers finitely many cgroups,
  within `MaxInode`). `Owned` says that one assignment of IDs to paths, which only grows, is
  kept by the cgroups there are, the index, the ring buffer and the sample in hand: a cgroup
  made again has another ID, so an index however old never names a wrong cgroup. `Sound` says
  that what a sample or an event tells of its kill is true, and what a group flag of "no" is
  worth after a removal. `Placed` says where an event may point; it, and the four theorems
  about attribution and listing, are under the hypothesis `NumbersAgree`: a number the kernel
  reports for a process is not another's in the daemon's `/proc`. The host's node and a
  nested node with numbers of its own satisfy it; the node `Colliding`, which does not,
  breaks `NeverAnotherCgroup` (section 3).
  `TracedSurvivorsSurvived` is about any tree and any grouped cgroups. The kernel kills the
  chosen process alone, or all below the highest grouped cgroup between it and the limit;
  `enrich` reads the file of one cgroup. What the text says of survivors is therefore claimed
  of a report whose cgroup has no grouped one above it (`HighestOfItsGroup`); without that it
  is false (`RestKeptRunning`, section 3). Of teardown and victim it holds always.
  `TracedReportIdentifies` is about names, and holds for any number of layouts, depth of the
  tree, UIDs, IDs and pods under the hypothesis `NamedByKubelet`. It says how a kubelet and a
  runtime name the cgroup of a pod or a container (`Encodes`: either driver, any tier, below
  a cgroup root whose names hold no tier and no word that marks a pod), that the other
  cgroups are above the pods, or elsewhere and not directly below something with such a word
  (`Outside`), that the daemon's cgroup namespace begins at the host's root or in another
  part of the tree (`Beside`), and that pods have names. Under it the parser inverts the
  encoding (`ParserReadsNames`, `OutsideIsNothing`), and every hierarchy's lines of
  `/proc/<pid>/cgroup` clean to the absolute path (`ProcFileNamesThePath`, from `WrittenIs`
  and `CleanedIs`). The four layouts of `MCTraced` satisfy it. `PodRuntime` and `PodRoot`,
  with which section 3 breaks `HostKillsSkipped` and `CleaningIsAbsolute`, do not, and under
  it both properties hold (`TracedHostKillsSkipped`, `TracedCleaningIsAbsolute`).
- **Lifecycle** (`LifecycleAssumption`). `SamplerJoined` is not inductive: `Run` leaves on
  what it receives from `samplerDone`. `ResultIsLast` adds that a result is in that channel
  only when the sampler is done, and that the sampler is not started before the detector is.
  Every goroutine but `Run` and the sampler leaves these alone (`SamplerUntouched`).
  `ProbeReleased` and `TracedStreamIsOwned` rest on a second invariant, `Owned`: the detector
  is chosen before anything runs (`MethodFirst`), the kernel's objects belong to a load under
  way or to a tracer in use (`HeldForUse`), and without a poller only the loop's own end
  closes the stream (`LoopOwnsStream`).
- **Pipeline** (`PipelineAssumption`). `received` counts, by class, the kills `Handle` was
  called for; `Accounted` says at each step of `Handle` which counters have them already,
  the one in hand included; `StoreBacks` says that `Put` comes before the count,
  `FetchBacks` that a count read earlier is still backed; `Honest` bounds every number on
  its way (the sample under way, the history, the event, the report in hand) by what the
  container reached. None of the three properties is inductive without its stage.
- **Pod cache** (`PodCacheAssumption`: finitely many names). `CacheInv` says of the informer
  and its feed what client-go keeps: a UID has one name, in the cluster, in the informer's
  store and between the two (`Names`); a delete is the last that is ever said of its UID
  (`Deletes`); and what is on its way loses a container against what is known, or was said
  before, only if it was restarted twice (`Follows`). Then `PodCacheKnowledgeKept`: the
  handlers may merge and bury in any order without losing a name. `UpToDate`, that while the
  watch is up the last word on a pod is its status, gives `PodCacheKilledAndRunningNamed`.
  `PodCacheDeletedStayResolvable` and `PodCacheGraveyardBounded` need only dated tombstones.
- **Dashboard** (`DashboardAssumption`). A fetch in flight has been told things that were so
  at moments that are over (`IsTrue`), and the model holds the daemon's state of one moment,
  and a count no later than it; the footer names that time or a later one, as the clock is
  read when both answers have come (`SnapshotIsTrue`). From it `ScreenIsOneMoment`, in
  whatever order fetches arrive. `SelectionIsShown`, that the pane has the selected report,
  gives `PanesAgree` and `SelectionFollows`.

Where a `CHOOSE` takes the least or the greatest of a finite set (`Heaviest`, `Busiest`,
`NearestRow`, the row order of `Sorted`), its existence is proved: a set of counterexamples
would have a least element, by the well-foundedness of the naturals or of finite subsets.
The same argument gives what a recursive function computes for every input, where an induction
would take an operator as its parameter: the sums of `Trend`, the loop of `List` and the
segments of `Cleaned` are functions on the positions of a sequence, and a least position at
which one were wrong would follow one at which it is right.

Only model-checked: all liveness (`Reclaimed`, `KillsReported`, `StreamCloses`, `KillsSent`,
`ShutdownCompletes`, `SamplerFailureIsFatal`, `PodsBecomeResolvable`, `Recovers`), which is
out of the prover's reach. Every other property of a passing run is a theorem.

## 5. Abstractions

- A sample is its time in `Sampler` and `Evidence`, and a usage with a peak in `Pipeline`;
  nothing else in it decides a step; in `History` it is time, usage and limit. PSI is left out.
- In `Evidence` an event is a path, the time of its kill and of the last sample before it;
  handling it is one step, since `buildReport` asks for the history once.
- `Trend` computes in exact fractions what the code computes in float64: its properties are
  about the formulas, the clamps and the guards, not about rounding.
- In `EbpfDetector` the walk that rebuilds the index is one step, and so is the reading of
  cmdline, cgroup file and namespace of one process: the cgroup file is there or not. A
  group kill is that of `mem_cgroup_get_oom_group`: all below the highest grouped cgroup up
  to the limit, those exempt by an `oom_score_adj` of -1000 not excepted. An ID is not given
  out twice, which is how the kernel numbers cgroups. The cumulative count and the sizes of
  an event are left out, as is a sample that does not decode, which the loop skips.
- `traced` runs on nodes where a number the kernel reports is either the victim's in `/proc`
  or nobody's. Where it is somebody else's, by nested numbering or by reuse,
  `NeverAnotherCgroup` does not hold; the node `Colliding` shows it.
- A path is made of the tokens the parser tells apart, and its empty segments are dropped
  before; a pod's UID and a container's ID are tokens. `Traced` tries every layout on every
  event. A layout says where the daemon's cgroup namespace begins; in the run it begins at
  the host's root or outside the pods' tree, inside it `CleaningIsAbsolute` fails.
- `ReportText` is what the text claims: which lines there are and of whom they speak.
- In `Poller` no PID is used twice and no process changes its cgroup, which is what
  `VictimIsDead` rests on; one snapshot of a cgroup is one step, since a process that goes
  while it is read is left out just as if it had gone before. Only cgroup v2: v1 counts no
  kills.
- `Lifecycle` keeps of an event only that it is there, and of the pod cache whether it runs.
- In `Pipeline` `received` is a history variable: it decides no step.
- `Pipeline`'s kernel exposes `memory.peak`. A path in the kubepods tree contains the
  container's ID and is not made again. The listing of processes is left out: nothing in
  the report but the listing depends on it.
- client-go is modelled as the code relies on it: notifications in order and late, a
  watch that breaks, a relist compared name by name, so that a replaced pod arrives as an
  update. The periodic resync repeats updates and is left out. A pod has one container, and
  its status names the running one and the one before, as the kubelet writes it.
- A fetch is its two requests, each a moment of the daemon, and the reading of the clock
  after them; decoding an answer is part of its request.
- The dashboard's focus and whether it is wide are kept, since they decide what `j` and `k`
  do and what is shown; scrolling, the sizes and styling are not.

Not modelled: the `not_modelled` components (test doubles, client configuration,
deployment), which keep no state; flags and logging; the parsing of text into numbers and
the layout of text, in which no property above makes a difference.

## 6. What is left

1. `cgroup.Discover` and the index's walk step by step, against cgroups made meanwhile; now one step.
2. Pressure stalls in samples and reports.
3. `ReportID`: order and uniqueness of IDs over restarts of the daemon, whose sequence begins again.
4. Theorems: the step simulation of `Poller` by an abstract detector that turns kills into
   events.
