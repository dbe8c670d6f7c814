-------------------------------- MODULE Traced --------------------------------
(***************************************************************************)
(* A kill from the probe to the report: EbpfDetector feeds the part of     *)
(* daemon.go that says whose kill it was (CgroupPath) and which processes  *)
(* were left (ProcessListing), and to what is printed of both (ReportText). *)
(* The rest of a report is Pipeline's.                                      *)
(***************************************************************************)
EXTENDS EbpfDetector, CgroupPath, ProcFiles, ProcessListing, ReportText

CONSTANTS Layouts,   \* ways to name the cgroups: the segments of each path, the scope they
                     \* stand for, and the root of the daemon's cgroup namespace
          Pods       \* what the pod cache resolves

\* ProcsIn: the processes of p itself, when p is still there.
Members(p) == IF p # NoPath /\ inode[p] # 0 THEN {q \in alive : home[q] = p} ELSE {}

\* /proc/<pid>/status, in the numbering of the daemon's /proc and below.
StatusFile(q) ==
    [pid |-> visiblePid[q],
     nsPids |-> IF InnerPid[q] = visiblePid[q] THEN << >> ELSE <<visiblePid[q], InnerPid[q]>>]

Entry(q) == [pid |-> visiblePid[q], nsPid |-> NSPidOf(StatusFile(q)), who |-> q]

\* buildReport: the listings a report of e may carry if it is built now, in whatever
\* order the sizes of the processes make them.
Listings(e) ==
    {ProcessesFrom([i \in DOMAIN order |-> Entry(order[i])], [pid |-> e.pid, nsPid |-> e.nsPid]) :
        order \in SetToSeqs(Members(e.path))}

\* applyGroupKill: the flag of a report of e that is built now.  The detector's wins; without
\* one the file is read again, which may fail.
FlagsOf(e) ==
    IF e.group # "unread" THEN {e.group}
    ELSE {"unread"} \cup IF e.path = NoPath THEN {}
                         ELSE IF inode[e.path] = 0 THEN {}
                         ELSE IF e.path \in Grouped THEN {"yes"} ELSE {"no"}

\* The texts about processes that a report of e may have.  Its victim is always known.
Texts(e) ==
    UNION {{ProcessesText(listing, flag, TRUE) : flag \in FlagsOf(e)} : listing \in Listings(e)}

Printed(text) == {text.rows[i].who : i \in DOMAIN text.rows}

Listed(listing) == {listing.listed[i].who : i \in DOMAIN listing.listed}

\* What p is called: the index has it as walked, and /proc/<pid>/cgroup as parsed.
NamesOf(layout, p) ==
    {layout.segments[p]}
        \cup {ParseCgroup(file) : file \in CgroupFiles(layout.segments[p], layout.root)}

\* buildReport: the identities for kills in p, for cgroups named as layout has it.
Identities ==
    [layout \in Layouts |->
        [p \in Path |-> {Resolve(name, Pods) : name \in NamesOf(layout, p)}]]

\* The daemon takes an event and makes a report of it, or skips it when it has no
\* identity.  Neither tells on the detector, so no report is kept.
Handle ==
    /\ chan # << >>
    /\ chan' = Tail(chan)
    /\ UNCHANGED <<kernel, ringbuf, node, faults, tracing, index, work, closed, cancelled>>

Next == Kernel \/ Goroutine \/ Close \/ Cancel \/ Handle

Spec == Init /\ [][Next]_vars

\* The goroutines are scheduled, and the daemon consumes until it is told to stop.
FairSpec ==
    /\ Spec
    /\ WF_vars(Goroutine) /\ WF_vars(Close) /\ WF_vars(~ cancelled /\ Handle)

-----------------------------------------------------------------------------
Ids == 0 .. MaxInode
Entries(s) == {s[i] : i \in DOMAIN s}
InFlight == Entries(chan) \cup {event}

TypeOK ==
    /\ inode \in [Path -> Ids] /\ lastInode \in Ids
    /\ alive \subseteq started /\ doomed \subseteq started /\ started \subseteq Proc
    /\ Len(ringbuf) <= RingSlots /\ Len(chan) <= Buffer
    /\ DOMAIN index \subseteq Ids \ {0} /\ \A id \in DOMAIN index : index[id] \in Path
    /\ pc \in {"reading", "status", "cgroup", "group", "flag", "sending", "stopped"}
    /\ seen \in Proc \cup {Nobody} /\ faults \in 0 .. MaxFaults
    /\ \A e \in InFlight : e.path \in Path \cup {NoPath} /\ e.group \in {"unread", "yes", "no"}
    /\ closed <=> pc = "stopped"

\* ebpf_supported.go resolveCgroup: a kill is attributed to the cgroup its victim was
\* in, to one above that, or to none; never to another's, whatever was removed, made
\* again under the same path or reindexed between the probe and the reads.
NeverAnotherCgroup ==
    \A e \in InFlight :
        e.path # NoPath => e.path \in Around(home[e.chosen])

\* ebpf_supported.go resolveCgroup and cgroupIndex.Path: as long as the victim's cgroup
\* is there when it is looked for, the kill goes to it and not to the slice above whose
\* limit broke, however old the index and however soon the victim died.
TracedToContainer ==
    [][pc = "cgroup" /\ pc' = "group" /\ faults' = faults
           /\ inode[home[sample.chosen]] = sample.task
       => event'.path = home[sample.chosen]]_vars

\* docs/reference/api.md: "Both `true` and `false` come from an actual read of
\* `memory.oom.group`", and cgroup.go ReadOOMGroup: an absent file is an answer inside a live
\* cgroup only.
GroupFlagIsHonest ==
    \A e \in InFlight : e.group # "unread" => (e.group = "yes" <=> e.path \in Grouped)

\* No cgroup above p has memory.oom.group, as where the kubelet sets it for containers and
\* these have no cgroups of their own making.
HighestOfItsGroup(p) == Ancestors[p] \cap Grouped = {}

\* text.go writeProcesses with daemon.go applyGroupKill: the text says that processes were
\* still running after the victim died only of processes that the kill did not take, unless
\* a cgroup above has the flag that is read of theirs; it speaks of a teardown only where
\* there is one; its victim is printed only under the warning.  Whatever died, was torn
\* down, was made again or could not be read in between.
SurvivorsSurvived ==
    \A e \in Entries(chan) : \A text \in Texts(e) :
        /\ text.claim = "survivors" /\ HighestOfItsGroup(e.path)
              => Printed(text) \cap e.killed \subseteq {e.chosen}
        /\ text.claim = "teardown" => e.path \in Grouped
        /\ e.chosen \in Printed(text) => text.warned

\* daemon.go buildReport with procfs/parse.go ParseCgroup, cgrouppath.go ParseCgroupPath and
\* resolver.go Resolve: whether its path comes from the index or from /proc, under any
\* hierarchy, a report identifies what the kubelet encoded in it and what the cluster knows
\* of it, at either level of the tree; a kill outside of the tree makes no report, and the
\* text never leaves a pod or a container blank.
ReportIdentifies ==
    \A e \in Entries(chan), layout \in Layouts :
        e.path # NoPath =>
            LET scope == layout.scope[e.path] IN
            \A identity \in Identities[layout][e.path] :
                /\ identity.scope = scope
                /\ identity.pod # "" <=> scope # NoScope /\ scope.uid \in DOMAIN Pods
                /\ identity.container # "" => scope.kind = "container"
                /\ scope # NoScope =>
                      /\ PodLine(identity) # << >>
                      /\ ContainerLine(identity) = << >> <=> scope.kind = "pod"

Twin(q, r) == q # r /\ InnerPid[q] = InnerPid[r]

\* report.go ProcessesFrom: while the victim is in the listing no other process is taken
\* out of it, and the victim is, unless another entry has its PID in the container or the
\* kernel did not tell that; also where daemon and kernel number processes differently.
VictimLeavesListing ==
    \A e \in Entries(chan) : e.chosen \in Members(e.path) =>
        \A listing \in Listings(e) :
            /\ Members(e.path) \ Listed(listing) \subseteq {e.chosen}
            /\ e.chosen \in Listed(listing) =>
                  /\ listing.match = "none" /\ visiblePid[e.chosen] # e.pid
                  /\ ~ nsReadable \/ \E r \in Members(e.path) : Twin(e.chosen, r)

\* docs/reference/api.md on groupKill false: "The kernel killed only the process it selected.
\* The rest kept running".  The kernel also asks the cgroups above, up to the limit.
RestKeptRunning ==
    \A e \in Entries(chan) : \A text \in Texts(e) :
        text.claim = "survivors" => Printed(text) \cap e.killed \subseteq {e.chosen}

\* detector.go Detector: the stream is closed once the context is cancelled, also when
\* the loop is parked in Read or on a full channel that nobody empties.
StreamCloses == cancelled ~> closed

\* ebpf_supported.go loop: a kill the ring buffer holds reaches the channel, unless the
\* context is cancelled or a read of the buffer fails; a full channel only delays it.
KillsSent ==
    \A q \in Proc :
        (\E i \in DOMAIN ringbuf : ringbuf[i].chosen = q)
            ~> ((\E e \in Entries(chan) : e.chosen = q) \/ cancelled \/ (closed /\ faults > 0))

\* cgrouppath.go ParseCgroupPath: it "reports false for anything outside the kubelet's pod
\* hierarchy: system services, the kubelet's own slice, and the QoS levels that hold no
\* pod", so that a kill out there makes no report.
HostKillsSkipped ==
    \A e \in Entries(chan), layout \in Layouts :
        e.path # NoPath /\ Resolve(layout.segments[e.path], Pods).scope # NoScope
            => InKubepodsTree(layout.segments[e.path])

\* procfs/parse.go normaliseCgroupPath: "The kernel emits exactly enough ".." to climb back to
\* the real root, so cleaning the path recovers the absolute form".
CleaningIsAbsolute ==
    \A e \in Entries(chan), layout \in Layouts :
        e.path # NoPath => NamesOf(layout, e.path) = {layout.segments[e.path]}

\* ebpf_supported.go resolveCgroup: /proc is "read straight from the victim while it is
\* still alive: exact, and needs no index".
ReadFromVictim == seen \in {Nobody, sample.chosen}

\* report.go ProcessesFrom: a match is never "deleting a process that is running".
NobodyElseLeaves ==
    \A e \in Entries(chan) : \A listing \in Listings(e) :
        Members(e.path) \ Listed(listing) \subseteq {e.chosen}
=============================================================================
