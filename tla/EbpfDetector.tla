----------------------------- MODULE EbpfDetector -----------------------------
(***************************************************************************)
(* The tracing OOM detector of internal/detector (ebpf.go,                 *)
(* ebpf_supported.go) and its probe (bpf/).  The probe reports a kill      *)
(* before the victim dies; the detector's goroutine then reads /proc and   *)
(* the cgroup tree while the victim dies, its cgroup is removed and a new  *)
(* one is made under the old path.                                         *)
(***************************************************************************)
EXTENDS Integers, Sequences, FiniteSets

CONSTANTS Path,        \* cgroup paths
          Ancestors,   \* Ancestors[p]: the paths p lies below
          Grouped,     \* the paths with memory.oom.group set
          Proc,        \* processes
          KernelPid,   \* KernelPid[q]: the PID the probe reports
          InnerPid,    \* InnerPid[q]: its PID in its innermost namespace
          Nodes,       \* the nodes the daemon may find itself on
          RingSlots,   \* samples the ring buffer holds
          Buffer,      \* capacity of the event channel
          MaxInode,    \* bound on the cgroups ever made
          MaxFaults,   \* bound on reads that fail for no reason of the model's
          NoPath, Nobody

ASSUME EbpfAssumption ==
    /\ Ancestors \in [Path -> SUBSET Path] /\ Grouped \subseteq Path /\ NoPath \notin Path
    /\ Nobody \notin Proc
    /\ KernelPid \in [Proc -> Nat \ {0}] /\ InnerPid \in [Proc -> Nat \ {0}]
    /\ Nodes \subseteq [home : [Proc -> Path], visiblePid : [Proc -> Nat \ {0}],
                       nsReadable : BOOLEAN]
    /\ {RingSlots, Buffer} \subseteq Nat \ {0} /\ {MaxInode, MaxFaults} \subseteq Nat

VARIABLES
    \* the kernel
    inode,       \* inode[p]: the ID of the cgroup at p, 0 when there is none
    lastInode,   \* the last ID given out
    started,     \* the processes there have been
    alive,       \* those that still run
    doomed,      \* those the OOM killer has chosen
    ringbuf,     \* samples the detector has not read
    node,        \* the node, which stays as it is
    faults,
    \* the detector
    tracing,     \* the tracer is open
    index,       \* c.byID, from cgroup IDs to paths
    pc,          \* where loop and enrich are
    sample,      \* the sample being enriched
    seen,        \* the process procfs.Process has found under its PID
    event,       \* the event being built
    chan,        \* d.events
    closed,      \* d.events has been closed
    cancelled    \* the context

kernel == <<inode, lastInode, started, alive, doomed>>
work   == <<pc, sample, seen, event>>
stream == <<chan, closed>>
vars == <<kernel, ringbuf, node, faults, tracing, index, work, stream, cancelled>>

\* Where a process lives, its PID in the daemon's /proc, and whether the probe can
\* read the inner PID on this kernel.
home == node.home
visiblePid == node.visiblePid
nsReadable == node.nsReadable

\* chosen and killed say what the kernel did, which no field of a sample or an event does.
NoSample == [pid |-> 0, nsPid |-> 0, task |-> 0, memcg |-> 0, chosen |-> Nobody,
             killed |-> {}]
NoEvent  == [path |-> NoPath, pid |-> 0, nsPid |-> 0, group |-> "unread", chosen |-> Nobody,
             killed |-> {}]

\* An index without entries; newCgroupIndex has none at all.
NoIndex == [id \in {} |-> NoPath]

Init ==
    /\ \E present \in SUBSET Path :
         /\ IsFiniteSet(present) /\ Cardinality(present) <= MaxInode
         /\ \A p \in present : Ancestors[p] \subseteq present
         /\ inode = CHOOSE ids \in [Path -> 0 .. Cardinality(present)] :
                /\ \A p \in Path : ids[p] # 0 <=> p \in present
                /\ \A p, q \in present : ids[p] = ids[q] => p = q
         /\ lastInode = Cardinality(present)
    /\ started = {} /\ alive = {} /\ doomed = {} /\ ringbuf = << >>
    /\ node \in Nodes /\ faults = 0
    /\ tracing = TRUE /\ index = NoIndex
    /\ pc = "reading" /\ sample = NoSample /\ seen = Nobody /\ event = NoEvent
    /\ chan = << >> /\ closed = FALSE /\ cancelled = FALSE

-----------------------------------------------------------------------------
\* The kernel.  An ID is never given out twice.
CreateCgroup(p) ==
    /\ inode[p] = 0 /\ lastInode < MaxInode
    /\ \A a \in Ancestors[p] : inode[a] # 0
    /\ lastInode' = lastInode + 1 /\ inode' = [inode EXCEPT ![p] = lastInode + 1]
    /\ UNCHANGED <<started, alive, doomed, ringbuf, node, faults, tracing, index, work,
                   stream, cancelled>>

RemoveCgroup(p) ==
    /\ inode[p] # 0
    /\ \A q \in alive : home[q] # p
    /\ \A c \in Path : p \in Ancestors[c] => inode[c] = 0
    /\ inode' = [inode EXCEPT ![p] = 0]
    /\ UNCHANGED <<lastInode, started, alive, doomed, ringbuf, node, faults, tracing, index,
                   work, stream, cancelled>>

Fork(q) ==
    /\ q \notin started /\ inode[home[q]] # 0
    /\ \A r \in alive : KernelPid[r] # KernelPid[q] /\ visiblePid[r] # visiblePid[q]
    /\ started' = started \cup {q} /\ alive' = alive \cup {q}
    /\ UNCHANGED <<inode, lastInode, doomed, ringbuf, node, faults, tracing, index, work,
                   stream, cancelled>>

\* A process dies, of SIGKILL or on its own.
Die(q) ==
    /\ q \in alive
    /\ alive' = alive \ {q} /\ doomed' = doomed \ {q}
    /\ UNCHANGED <<inode, lastInode, started, ringbuf, node, faults, tracing, index,
                   work, stream, cancelled>>

\* task_cgroup_id: the cgroup the victim sits in, whichever limit was breached.
TaskCgroup(q, memcg) == inode[home[q]]

Around(p) == {p} \cup Ancestors[p]

\* mem_cgroup_get_oom_group: the cgroups with memory.oom.group from q's own up to the one
\* whose limit broke, or all the way for the node.
Groups(q, memcg) ==
    {p \in Around(home[q]) \cap Grouped :
        memcg = 0 \/ \E a \in Around(p) : inode[a] = memcg}

\* The processes that go with q: all below the highest of these, which holds the others.
Victims(q, memcg) ==
    IF Groups(q, memcg) = {} THEN {q}
    ELSE {r \in alive : Around(home[r]) \cap Groups(q, memcg) # {}}

Sample(q, memcg) ==
    [pid |-> KernelPid[q], nsPid |-> IF nsReadable THEN InnerPid[q] ELSE 0,
     task |-> TaskCgroup(q, memcg), memcg |-> memcg, chosen |-> q, killed |-> Victims(q, memcg)]

\* oom_kill_process for a limit of q's own cgroup or of one above it, or for the
\* node (memcg 0).  trace_oom_kill_process reports q while q still runs; a ring
\* without room loses the sample, and a probe that is detached sees nothing.
OOMKill(q) ==
    \E memcg \in {0} \cup {inode[p] : p \in Around(home[q])} :
        /\ q \in alive \ doomed
        /\ doomed' = doomed \cup Victims(q, memcg)
        /\ ringbuf' = IF tracing /\ Len(ringbuf) < RingSlots
                      THEN Append(ringbuf, Sample(q, memcg)) ELSE ringbuf
        /\ UNCHANGED <<inode, lastInode, started, alive, node, faults, tracing, index, work,
                       stream, cancelled>>

Kernel ==
    \/ \E p \in Path : CreateCgroup(p) \/ RemoveCgroup(p)
    \/ \E q \in Proc : Fork(q) \/ Die(q) \/ OOMKill(q)

-----------------------------------------------------------------------------
\* loop: Read takes the oldest sample.
ReadSample ==
    /\ pc = "reading" /\ tracing /\ ringbuf # << >>
    /\ sample' = Head(ringbuf) /\ ringbuf' = Tail(ringbuf) /\ pc' = "status"
    /\ UNCHANGED <<kernel, node, faults, tracing, index, seen, event, stream, cancelled>>

\* Read fails, as it does once the tracer is closed: loop returns and closes the
\* stream.  What is left in the ring buffer is lost.
ReadFails ==
    /\ pc = "reading"
    /\ \/ ~ tracing /\ UNCHANGED faults
       \/ tracing /\ faults < MaxFaults /\ faults' = faults + 1
    /\ pc' = "stopped" /\ closed' = TRUE
    /\ UNCHANGED <<kernel, ringbuf, node, tracing, index, sample, seen, event, chan,
                   cancelled>>

Visible(pid) == {q \in alive : visiblePid[q] = pid}

\* Mutant of FoundUnder: the process is looked up by its PID in the container.
FoundByInnerPid(pid) == {q \in alive : InnerPid[q] = pid}

\* The /proc/<pid> that a sample's PID leads to.
FoundUnder(pid) == Visible(pid)

\* enrich: procfs.Process reads the status file, if the process is still there.
ReadStatus ==
    /\ pc = "status"
    /\ seen' \in IF FoundUnder(sample.pid) = {} THEN {Nobody} ELSE FoundUnder(sample.pid)
    /\ pc' = "cgroup"
    /\ UNCHANGED <<kernel, ringbuf, node, faults, tracing, index, sample, event, stream,
                   cancelled>>

Lookup(id, known) == IF id \in DOMAIN known THEN known[id] ELSE NoPath

\* cgroupInodeLister: the tree as one walk finds it.
Walk == [id \in {inode[p] : p \in Path} \ {0} |-> CHOOSE p \in Path : inode[p] = id]

\* cgroupIndex.Path: the index after a lookup of id, which a miss rebuilds whole.
Refreshed(id, known) == IF id = 0 \/ id \in DOMAIN known THEN known ELSE Walk

\* Mutant of Preference: the cgroup whose limit broke comes first.
LimitFirst == <<sample.memcg, sample.task>>

\* resolveCgroup asks the index for the victim's own cgroup, then for the other.
Preference == <<sample.task, sample.memcg>>

\* enrich: the rest of procfs.Process, whose cgroup file may have gone by now, and
\* resolveCgroup.  The index is consulted only when /proc names no cgroup; a walk that
\* fails leaves it as it was.
ResolveCgroup ==
    /\ pc = "cgroup"
    /\ \E walkable \in BOOLEAN :
         LET after(id, known) == IF walkable THEN Refreshed(id, known) ELSE known
             first      == after(Preference[1], index)
             second     == after(Preference[2], first)
             victimPath == IF seen \in alive THEN home[seen] ELSE NoPath
             own        == Lookup(Preference[1], first)
             path       == IF victimPath # NoPath THEN victimPath
                           ELSE IF own # NoPath THEN own ELSE Lookup(Preference[2], second)
         IN  /\ \/ walkable /\ UNCHANGED faults
                \/ ~ walkable /\ faults < MaxFaults /\ faults' = faults + 1
             /\ event' = [path |-> path, pid |-> sample.pid, group |-> "unread",
                          nsPid |-> IF sample.nsPid = 0 /\ seen # Nobody THEN InnerPid[seen]
                                    ELSE sample.nsPid,
                          chosen |-> sample.chosen, killed |-> sample.killed]
             /\ index' = IF victimPath # NoPath THEN index
                         ELSE IF own # NoPath THEN first ELSE second
    /\ pc' = "group" /\ seen' = Nobody /\ sample' = NoSample
    /\ UNCHANGED <<kernel, ringbuf, node, tracing, stream, cancelled>>

\* ReadOOMGroup looks for the directory before it looks for the file in it.
CgroupThere == inode[event.path] # 0

\* enrich and ReadOOMGroup: the stat of the cgroup; without it the flag stays unread.  The
\* cumulative count, on which nothing rests, is left out.
StatGroup ==
    /\ pc = "group"
    /\ pc' = IF event.path = NoPath \/ ~ CgroupThere THEN "sending" ELSE "flag"
    /\ UNCHANGED <<kernel, ringbuf, node, faults, tracing, index, sample, seen, event, stream,
                   cancelled>>

\* ReadOOMGroup then reads memory.oom.group, and takes its absence for zero.
FlagRead == IF inode[event.path] # 0 /\ event.path \in Grouped THEN "yes" ELSE "no"

ReadGroup ==
    /\ pc = "flag"
    /\ \/ event' = [event EXCEPT !.group = FlagRead] /\ UNCHANGED faults
       \/ faults < MaxFaults /\ faults' = faults + 1 /\ UNCHANGED event
    /\ pc' = "sending"
    /\ UNCHANGED <<kernel, ringbuf, node, tracing, index, sample, seen, stream, cancelled>>

\* A send on d.events goes through while its buffer has room.
MaySend == Len(chan) < Buffer

Send ==
    /\ pc = "sending" /\ MaySend
    /\ chan' = Append(chan, event) /\ event' = NoEvent /\ pc' = "reading"
    /\ UNCHANGED <<kernel, ringbuf, node, faults, tracing, index, sample, seen, closed,
                   cancelled>>

\* Mutant of MayGiveUp: a send that would block is given up at once.
NeverWait == Len(chan) >= Buffer

\* loop's select leaves a blocked send only once the context is done.
MayGiveUp == cancelled

GiveUp ==
    /\ pc = "sending" /\ MayGiveUp
    /\ event' = NoEvent /\ pc' = "stopped" /\ closed' = TRUE
    /\ UNCHANGED <<kernel, ringbuf, node, faults, tracing, index, sample, seen, chan,
                   cancelled>>

Goroutine ==
    \/ ReadSample \/ ReadFails \/ ReadStatus \/ ResolveCgroup \/ StatGroup \/ ReadGroup \/ Send \/ GiveUp

\* The goroutine that waits for the context, or runDaemon on its way out: once.
Close ==
    /\ cancelled /\ tracing
    /\ tracing' = FALSE
    /\ UNCHANGED <<kernel, ringbuf, node, faults, index, work, stream, cancelled>>

Cancel ==
    /\ ~ cancelled /\ cancelled' = TRUE
    /\ UNCHANGED <<kernel, ringbuf, node, faults, tracing, index, work, stream>>
=============================================================================
