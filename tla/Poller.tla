-------------------------------- MODULE Poller --------------------------------
(***************************************************************************)
(* The polling OOM detector of internal/detector/poller.go, run by the     *)
(* kernel: cgroups are created and removed, processes start, exit and are  *)
(* killed between any two file reads of a pass.                            *)
(***************************************************************************)
EXTENDS Integers, Sequences, FiniteSets

CONSTANTS Path,        \* cgroup paths
          Ancestors,   \* Ancestors[p]: the paths p lies below
          Grouped,     \* the paths with memory.oom.group set
          Pid,         \* process IDs, none used twice
          RSS,         \* RSS[pid]: what a snapshot records of its memory
          Buffer,      \* capacity of the event channel
          MaxKills,    \* bound on the kills of one path
          MaxFaults,   \* bound on reads that fail though the cgroup exists
          NoPath,      \* no cgroup is being read
          Unknown      \* the Victim with Known false

ASSUME PollerAssumption ==
    /\ Ancestors \in [Path -> SUBSET Path]
    /\ Grouped \subseteq Path /\ NoPath \notin Path
    /\ Pid \subseteq Nat /\ Unknown \notin Pid
    /\ RSS \in [Pid -> Nat]
    /\ Buffer \in Nat \ {0} /\ MaxKills \in Nat \ {0} /\ MaxFaults \in Nat

VARIABLES
    \* the kernel
    exists,      \* the cgroups there are
    procs,       \* procs[p]: its cgroup.procs
    started,     \* the processes there have been
    local,       \* local[p]: oom_kill of memory.events.local
    below,       \* below[p]: kills in descendants, which memory.events adds
    faults,      \* read failures so far
    \* the poller
    pc,          \* where Prime, Poll or loop is
    priming,     \* this pass is Prime
    found,       \* what Discover returned
    todo,        \* what this walk over it has not reached
    cur,         \* the cgroup being read
    count,       \* its counter, as far as read
    counters,    \* p.counters
    snapshots,   \* p.snapshots, as sets of PIDs
    events,      \* the events of this pass not yet sent
    chan,        \* p.events
    closed,      \* p.events has been closed
    cancelled,   \* the context
    \* history, for the properties
    killsOf,     \* killsOf[p]: kills in p so far, removals notwithstanding
    accounted,   \* killsOf[p] when p's counter was last read
    killed,      \* killed[p]: victims in p since the last event or quiet reading
    observed     \* observed[p]: the members of p when last snapshotted

kernel  == <<exists, procs, started, local, below>>
memory  == <<counters, snapshots>>
control == <<pc, priming, found, todo, cur, count>>
stream  == <<events, chan, closed>>
history == <<killsOf, accounted, killed, observed>>
vars == <<kernel, faults, memory, control, stream, cancelled, history>>

Alive == UNION {procs[p] : p \in exists}

Init ==
    /\ exists \in SUBSET Path /\ IsFiniteSet(exists)
    /\ \A p \in exists : Ancestors[p] \subseteq exists
    /\ procs = [p \in Path |-> {}] /\ started = {}
    /\ local \in [Path -> 0 .. 1] /\ \A p \in Path \ exists : local[p] = 0
    /\ below = [p \in Path |-> Cardinality({q \in Path : p \in Ancestors[q] /\ local[q] = 1})]
    /\ faults = 0
    /\ pc = "start" /\ priming = TRUE
    /\ found = {} /\ todo = {} /\ cur = NoPath /\ count = 0
    /\ counters = << >> /\ snapshots = << >>
    /\ events = << >> /\ chan = << >> /\ closed = FALSE /\ cancelled = FALSE
    /\ killsOf = local /\ accounted = local
    /\ killed = [p \in Path |-> {}] /\ observed = [p \in Path |-> {}]

-----------------------------------------------------------------------------
\* The kernel.  The counters of a removed cgroup are gone with it.
Create(p) ==
    /\ p \notin exists /\ Ancestors[p] \subseteq exists
    /\ exists' = exists \cup {p}
    /\ local' = [local EXCEPT ![p] = 0] /\ below' = [below EXCEPT ![p] = 0]
    /\ UNCHANGED <<procs, started, faults, memory, control, stream, cancelled, history>>

Remove(p) ==
    /\ p \in exists /\ procs[p] = {}
    /\ \A q \in exists : p \notin Ancestors[q]
    /\ exists' = exists \ {p}
    /\ UNCHANGED <<procs, started, local, below, faults, memory, control, stream,
                   cancelled, history>>

Fork(p, pid) ==
    /\ p \in exists /\ pid \notin started
    /\ procs' = [procs EXCEPT ![p] = @ \cup {pid}]
    /\ started' = started \cup {pid}
    /\ UNCHANGED <<exists, local, below, faults, memory, control, stream, cancelled, history>>

\* A process exits for a reason of its own.
Exit(p, pid) ==
    /\ p \in exists /\ pid \in procs[p]
    /\ procs' = [procs EXCEPT ![p] = @ \ {pid}]
    /\ UNCHANGED <<exists, started, local, below, faults, memory, control, stream,
                   cancelled, history>>

\* The OOM killer: one process, or every one of a group.
OOMKill(p, pid) ==
    LET dead == IF p \in Grouped THEN procs[p] ELSE {pid}
        n    == Cardinality(dead)
    IN  /\ p \in exists /\ pid \in procs[p] /\ killsOf[p] + n <= MaxKills
        /\ procs' = [procs EXCEPT ![p] = @ \ dead]
        /\ local' = [local EXCEPT ![p] = @ + n]
        /\ below' = [q \in Path |-> IF q \in Ancestors[p] THEN below[q] + n ELSE below[q]]
        /\ killsOf' = [killsOf EXCEPT ![p] = @ + n]
        /\ killed' = [killed EXCEPT ![p] = @ \cup dead]
        /\ UNCHANGED <<exists, started, faults, memory, control, stream, cancelled,
                       accounted, observed>>

Kernel ==
    \/ \E p \in Path : Create(p) \/ Remove(p)
    \/ \E p \in Path, pid \in Pid : Fork(p, pid) \/ Exit(p, pid) \/ OOMKill(p, pid)

-----------------------------------------------------------------------------
\* A file of p cannot be read: p is gone, or the read fails regardless.
ReadFails(p) ==
    \/ p \notin exists /\ UNCHANGED faults
    \/ p \in exists /\ faults < MaxFaults /\ faults' = faults + 1

\* Start calls Prime; afterwards loop polls at every tick.
BeginPass ==
    /\ pc \in {"start", "waiting"}
    /\ priming' = (pc = "start")
    /\ found' = exists /\ todo' = exists /\ pc' = "reading"
    /\ UNCHANGED <<kernel, faults, memory, cur, count, stream, cancelled, history>>

\* Discover fails: Start returns the error, loop logs it and returns.
DiscoverFails ==
    /\ pc \in {"start", "waiting"}
    /\ pc' = "stopped" /\ closed' = (pc = "waiting")
    /\ UNCHANGED <<kernel, faults, memory, priming, found, todo, cur, count, events, chan,
                   cancelled, history>>

\* ReadMemoryStats up to memory.events, which counts descendants too.
ReadEvents(p) ==
    /\ pc = "reading" /\ p \in todo /\ p \in exists
    /\ cur' = p /\ count' = local[p] + below[p] /\ pc' = "local"
    /\ UNCHANGED <<kernel, faults, memory, priming, found, todo, stream, cancelled, history>>

\* ReadMemoryStats fails and the cgroup is passed over.
SkipCgroup(p) ==
    /\ pc = "reading" /\ p \in todo
    /\ ReadFails(p)
    /\ todo' = todo \ {p}
    /\ UNCHANGED <<kernel, memory, pc, priming, found, cur, count, stream, cancelled, history>>

\* OOMKills: memory.events.local decides where it is there.  When the cgroup went
\* away after memory.current was read, the optional files that are missing by then
\* count as not exposed by this kernel.
OOMKills == IF cur \in exists THEN {local[cur]} ELSE {count, 0}

\* Mutant of Rose: a rise by one goes unnoticed.
RoseByTwo(value) == cur \in DOMAIN counters /\ value > counters[cur] + 1

\* Mutant of Rose: a cgroup first seen mid-run is compared with zero.
RoseFromNothing(value) ==
    value > IF cur \in DOMAIN counters THEN counters[cur] ELSE 0

\* A counter counts as risen only against an earlier reading of the same path.
Rose(value) == cur \in DOMAIN counters /\ value > counters[cur]

\* detectLocked: the new value becomes the baseline, whatever comes of it.
CompareCounter ==
    /\ pc = "local"
    /\ \E value \in OOMKills :
         /\ counters' = [p \in DOMAIN counters \cup {cur} |->
                            IF p = cur THEN value ELSE counters[p]]
         /\ IF ~ priming /\ Rose(value)
            THEN pc' = "judging" /\ count' = value /\ UNCHANGED <<todo, cur>>
            ELSE pc' = "reading" /\ count' = 0 /\ todo' = todo \ {cur} /\ cur' = NoPath
         /\ killed' = IF ~ priming /\ Rose(value) THEN killed ELSE [killed EXCEPT ![cur] = {}]
    /\ accounted' = [accounted EXCEPT ![cur] = killsOf[cur]]
    /\ UNCHANGED <<kernel, faults, snapshots, priming, found, stream, cancelled, killsOf,
                   observed>>

\* The candidates of inferVictimLocked, heaviest first, smallest PID among equals.
Heaviest(pids) ==
    CHOOSE a \in pids : \A b \in pids : RSS[a] > RSS[b] \/ (RSS[a] = RSS[b] /\ a <= b)

\* inferVictimLocked, once the survivors have been listed.
VictimGiven(listed) ==
    LET gone == (IF cur \in DOMAIN snapshots THEN snapshots[cur] ELSE {}) \ listed
    IN  IF gone = {} THEN Unknown ELSE Heaviest(gone)

\* Mutant of VictimUnlisted: no listing is taken for an empty one.
BlameSnapshot == VictimGiven({})

\* inferVictimLocked, when cgroup.procs cannot be read.
VictimUnlisted == Unknown

\* GroupKill, one more read that no decision rests on, is left out of the event.
Emit(victim) ==
    /\ events' = Append(events, [path |-> cur, killCount |-> count, victim |-> victim])
    /\ pc' = "reading" /\ todo' = todo \ {cur} /\ cur' = NoPath /\ count' = 0
    /\ killed' = [killed EXCEPT ![cur] = {}]
    /\ UNCHANGED <<kernel, memory, priming, found, chan, closed, cancelled, killsOf,
                   accounted, observed>>

\* detectLocked builds the event, with a listing of the survivors or without.
JudgeListed ==
    /\ pc = "judging" /\ cur \in exists
    /\ Emit(VictimGiven(procs[cur]))
    /\ UNCHANGED faults

JudgeUnlisted ==
    /\ pc = "judging"
    /\ ReadFails(cur)
    /\ Emit(VictimUnlisted)

\* refreshSnapshotsLocked walks the same paths again, after detection.
BeginSnapshots ==
    /\ pc = "reading" /\ todo = {}
    /\ todo' = found /\ pc' = "snapshotting"
    /\ UNCHANGED <<kernel, faults, memory, priming, found, cur, count, stream, cancelled,
                   history>>

\* A process that exits while its /proc files are read is left out, as though it had
\* exited before the listing.
Snapshot(p) ==
    /\ pc = "snapshotting" /\ p \in todo /\ p \in exists
    /\ snapshots' = [q \in DOMAIN snapshots \cup {p} |->
                        IF q = p THEN procs[p] ELSE snapshots[q]]
    /\ todo' = todo \ {p}
    /\ observed' = [observed EXCEPT ![p] = procs[p]]
    /\ UNCHANGED <<kernel, faults, counters, pc, priming, found, cur, count, stream,
                   cancelled, killsOf, accounted, killed>>

\* Mutant of SnapshotsAfterFailure: the earlier snapshot is discarded.
SnapshotDiscarded(p) == [q \in DOMAIN snapshots \ {p} |-> snapshots[q]]

\* A listing that fails does not discard the snapshot already taken.
SnapshotsAfterFailure(p) == snapshots

SnapshotFails(p) ==
    /\ pc = "snapshotting" /\ p \in todo
    /\ ReadFails(p)
    /\ snapshots' = SnapshotsAfterFailure(p)
    /\ todo' = todo \ {p}
    /\ UNCHANGED <<kernel, counters, pc, priming, found, cur, count, stream, cancelled,
                   history>>

\* Prime ends here; Poll goes on to evictLocked, which walks the counters, and
\* then releases p.mu to send.
EndPass ==
    /\ pc = "snapshotting" /\ todo = {}
    /\ IF priming
       THEN pc' = "waiting" /\ found' = {} /\ UNCHANGED memory
       ELSE LET gone == DOMAIN counters \ found IN
            /\ UNCHANGED found
            /\ counters' = [p \in DOMAIN counters \ gone |-> counters[p]]
            /\ snapshots' = [p \in DOMAIN snapshots \ gone |-> snapshots[p]]
            /\ pc' = "sending"
    /\ UNCHANGED <<kernel, faults, priming, todo, cur, count, stream, cancelled, history>>

\* A send on p.events goes through while its buffer has room.
MaySend == Len(chan) < Buffer

Send ==
    /\ pc = "sending" /\ events # << >> /\ MaySend
    /\ chan' = Append(chan, Head(events)) /\ events' = Tail(events)
    /\ UNCHANGED <<kernel, faults, memory, control, closed, cancelled, history>>

\* Mutant of MayAbandon: a send that blocks is waited for.
NeverAbandon == FALSE

\* Poll's select gives up on sending only once the context is done.
MayAbandon == cancelled

AbandonSend ==
    /\ pc = "sending" /\ events # << >> /\ MayAbandon
    /\ events' = << >> /\ pc' = "waiting" /\ found' = {}
    /\ UNCHANGED <<kernel, faults, memory, priming, todo, cur, count, chan, closed,
                   cancelled, history>>

AllSent ==
    /\ pc = "sending" /\ events = << >>
    /\ pc' = "waiting" /\ found' = {}
    /\ UNCHANGED <<kernel, faults, memory, priming, todo, cur, count, stream,
                   cancelled, history>>

\* loop returns, and its deferred Close ends the stream.
LoopStops ==
    /\ pc = "waiting" /\ cancelled
    /\ pc' = "stopped" /\ closed' = TRUE
    /\ UNCHANGED <<kernel, faults, memory, priming, found, todo, cur, count, events, chan,
                   cancelled, history>>

\* The consumer takes an event; the context is cancelled.
Receive ==
    /\ chan # << >>
    /\ chan' = Tail(chan)
    /\ UNCHANGED <<kernel, faults, memory, control, events, closed, cancelled, history>>

Cancel ==
    /\ ~ cancelled /\ cancelled' = TRUE
    /\ UNCHANGED <<kernel, faults, memory, control, stream, history>>

Goroutine ==
    \/ BeginPass \/ DiscoverFails
    \/ \E p \in Path : ReadEvents(p) \/ SkipCgroup(p) \/ Snapshot(p) \/ SnapshotFails(p)
    \/ CompareCounter \/ JudgeListed \/ JudgeUnlisted \/ BeginSnapshots \/ EndPass
    \/ Send \/ AbandonSend \/ AllSent \/ LoopStops

Next == Kernel \/ Goroutine \/ Receive \/ Cancel

\* The goroutine is scheduled and its ticker fires; the daemon consumes until it
\* is told to stop; a select whose Done case is ready again and again takes it.
Fairness ==
    /\ WF_vars(Goroutine)
    /\ SF_vars(LoopStops)
    /\ WF_vars(~ cancelled /\ Receive)

Spec == Init /\ [][Next]_vars
FairSpec == Spec /\ Fairness

-----------------------------------------------------------------------------
Event == [path : Path, killCount : Nat, victim : Pid \cup {Unknown}]

TypeOK ==
    /\ exists \subseteq Path /\ procs \in [Path -> SUBSET Pid] /\ started \subseteq Pid
    /\ local \in [Path -> 0 .. MaxKills]
    /\ faults \in 0 .. MaxFaults
    /\ pc \in {"start", "waiting", "reading", "local", "judging", "snapshotting",
               "sending", "stopped"}
    /\ found \subseteq Path /\ todo \subseteq found /\ cur \in Path \cup {NoPath}
    /\ DOMAIN counters \subseteq Path /\ DOMAIN snapshots \subseteq Path
    /\ \A p \in DOMAIN snapshots : snapshots[p] \subseteq Pid
    /\ events \in Seq(Event) /\ chan \in Seq(Event) /\ Len(chan) <= Buffer
    /\ closed => pc = "stopped"

Entries(s) == {s[i] : i \in DOMAIN s}

\* No cgroup lies below p, so that memory.events of p counts its own kills only.
Childless(p) == \A q \in Path : p \notin Ancestors[q]

\* poller.go Prime and detectLocked: an event is only ever raised for a cgroup in
\* which the OOM killer has struck since its counter was last read, or since the
\* poller started.  No restart replays history, no kill is reported twice, and a
\* cgroup that is removed and made again is not mistaken for a rising counter.  The
\* one exception is a cgroup with others below it that goes away while it is read:
\* its kills are then taken from memory.events.
EventsAreKills ==
    [][pc = "local" /\ pc' = "judging" /\ (cur \in exists \/ Childless(cur))
          => killsOf[cur] > accounted[cur]]_vars

\* poller.go inferVictimLocked: as no PID is used twice, a victim is never a process
\* that still runs, neither when the event is built nor while it waits to be handled.
VictimIsDead ==
    \A e \in Entries(events) \cup Entries(chan) : e.victim \notin Alive

\* poller.go inferVictimLocked and refreshSnapshotsLocked: when every process killed
\* in the cgroup since its counter was last read had been seen there by the last
\* snapshot, and the survivors can be listed, a victim is named, and it is one of
\* those killed unless others left meanwhile.  Detection compares with the previous
\* pass, and a failed listing in between has not cost it the evidence.
ObservedKillNamesVictim ==
    [][LET named == events'[Len(events')].victim
           gone  == observed[cur] \ procs[cur]
       IN  pc = "judging" /\ pc' = "reading" /\ cur \in exists /\ faults' = faults
           /\ killed[cur] # {} /\ killed[cur] \subseteq observed[cur]
           => named \in gone /\ (gone \subseteq killed[cur] => named \in killed[cur])]_vars

Over == cancelled \/ pc = "stopped"

\* poller.go Poll: a kill counted above the baseline of a cgroup that stays is sent,
\* with a count that includes it, also when the channel was full and reads failed.  A
\* cgroup made after Discover has passed is not yet held to the baseline of its name.
KillsReported ==
    \A p \in Path, n \in 1 .. MaxKills :
        (/\ p \in DOMAIN counters /\ p \in exists /\ counters[p] < n /\ n <= local[p]
         /\ pc = "waiting" \/ p \in found)
            ~> ((\E e \in Entries(chan) : e.path = p /\ e.killCount >= n)
                \/ p \notin exists \/ Over)

\* detector.go Detector: the stream is closed once the context is cancelled, though
\* nobody may be receiving by then and the channel be full.
StreamCloses == cancelled ~> pc = "stopped"

\* cgroup.go OOMKills: "preferring the local counter so ancestors are not blamed for
\* a descendant's kill": no event counts more kills than its own cgroup has had.
AncestorsNotBlamed ==
    \A e \in Entries(events) \cup Entries(chan) : e.killCount <= killsOf[e.path]

\* poller.go evictLocked: "drops state for cgroups that no longer exist".
EvictionIsComplete == pc = "sending" => DOMAIN snapshots \subseteq found
=============================================================================
