------------------------------- MODULE Sampler -------------------------------
(***************************************************************************)
(* The memory sampler of internal/sampler/sampler.go: one goroutine that   *)
(* walks the cgroup tree, adds a sample per readable cgroup and evicts the *)
(* history of cgroups missed for the retention window.  The tree changes   *)
(* while a pass runs.  A sample is reduced to its time; what was measured  *)
(* makes no difference to any step.                                        *)
(***************************************************************************)
EXTENDS Ring, FiniteSets

CONSTANTS Path,        \* cgroup paths
          Retention,   \* how long history outlives its cgroup
          MaxTime      \* bound on the clock

Time == 0 .. MaxTime

\* New replaces a retention that is not positive, and checks the history size.
ASSUME SamplerAssumption ==
    /\ Retention \in Nat \ {0}
    /\ MaxTime \in Nat
    /\ Sample = Time
    /\ ZeroSample \notin Time

VARIABLES exists,       \* the cgroups there are (environment)
          clock,        \* s.now()
          pc,           \* where Run and Collect are
          pending,      \* discovered cgroups this pass has yet to read
          now,          \* the time of this pass
          live,         \* the cgroups this pass has read
          rings,        \* s.rings
          vanishedAt    \* s.vanishedAt

pass == <<pc, pending, now, live>>
vars == <<exists, clock, pass, rings, vanishedAt>>

Init ==
    /\ exists \in SUBSET Path
    /\ clock = 0
    /\ pc = "first" /\ pending = {} /\ now = 0 /\ live = {}
    /\ rings = << >> /\ vanishedAt = << >>

-----------------------------------------------------------------------------
\* Environment: time passes, containers start and die.
Tick ==
    /\ clock < MaxTime
    /\ clock' = clock + 1
    /\ UNCHANGED <<exists, pass, rings, vanishedAt>>

Appear(p) ==
    /\ p \notin exists
    /\ exists' = exists \cup {p}
    /\ UNCHANGED <<clock, pass, rings, vanishedAt>>

Vanish(p) ==
    /\ p \in exists
    /\ exists' = exists \ {p}
    /\ UNCHANGED <<clock, pass, rings, vanishedAt>>

\* Run and Collect: a pass begins, at once or at a tick.  Directories that may
\* not be read are left out of the walk.
BeginPass ==
    /\ pc \in {"first", "waiting"}
    /\ \E found \in SUBSET exists : pending' = found
    /\ pc' = "reading" /\ now' = clock /\ live' = {}
    /\ UNCHANGED <<exists, clock, rings, vanishedAt>>

\* The walk itself fails, which Collect and Run report and the daemon dies of.
DiscoverFails ==
    /\ pc \in {"first", "waiting"}
    /\ pc' = "failed"
    /\ UNCHANGED <<exists, clock, pending, now, live, rings, vanishedAt>>

RingOf(p) == IF p \in DOMAIN rings THEN rings[p] ELSE NewRing

\* record, under its own lock: other goroutines may read between two of these.
ReadCgroup(p) ==
    /\ pc = "reading" /\ p \in pending /\ p \in exists
    /\ rings' = [q \in DOMAIN rings \cup {p} |->
                    IF q = p THEN Add(RingOf(p), now) ELSE rings[q]]
    /\ live' = live \cup {p}
    /\ pending' = pending \ {p}
    /\ UNCHANGED <<exists, clock, pc, now, vanishedAt>>

\* The cgroup has gone since the walk, or is there and cannot be read.
SkipCgroup(p) ==
    /\ pc = "reading" /\ p \in pending
    /\ pending' = pending \ {p}
    /\ UNCHANGED <<exists, clock, pc, now, live, rings, vanishedAt>>

\* Missed for the whole retention window: history and mark are dropped.
Expired ==
    {p \in DOMAIN rings \ live : /\ p \in DOMAIN vanishedAt
                                 /\ now - vanishedAt[p] >= Retention}

\* Mutant of Marked: a cgroup that came back keeps its old mark.
MarkedForGood == (DOMAIN vanishedAt \cup (DOMAIN rings \ live)) \ Expired

\* Mutant of Marked: the mark outlives the history it was about.
MarkLeaked == (DOMAIN vanishedAt \cup DOMAIN rings) \ live

\* The cgroups whose disappearance is on record after evict.
Marked == (DOMAIN vanishedAt \cup DOMAIN rings) \ (live \cup Expired)

\* Mutant of MarkOf: every miss starts the retention window again.
MarkRenewed(p) == now

\* Only the first miss sets the mark.
MarkOf(p) == IF p \in DOMAIN vanishedAt THEN vanishedAt[p] ELSE now

\* evict, under one lock, ends the pass.
Evict ==
    /\ pc = "reading" /\ pending = {}
    /\ rings' = [p \in DOMAIN rings \ Expired |-> rings[p]]
    /\ vanishedAt' = [p \in Marked |-> MarkOf(p)]
    /\ pc' = "waiting"
    /\ UNCHANGED <<exists, clock, pending, now, live>>

\* The context is cancelled while Run waits for the next tick.
Stop ==
    /\ pc = "waiting"
    /\ pc' = "stopped"
    /\ UNCHANGED <<exists, clock, pending, now, live, rings, vanishedAt>>

Next ==
    \/ Tick
    \/ \E p \in Path : Appear(p) \/ Vanish(p)
    \/ BeginPass
    \/ DiscoverFails
    \/ \E p \in Path : ReadCgroup(p) \/ SkipCgroup(p)
    \/ Evict
    \/ Stop

\* Time passes, the goroutine runs and the ticker keeps firing.
Fairness ==
    /\ WF_vars(Tick)
    /\ WF_vars(BeginPass)
    /\ WF_vars(\E p \in Path : ReadCgroup(p) \/ SkipCgroup(p))
    /\ WF_vars(Evict)

Spec == Init /\ [][Next]_vars
FairSpec == Spec /\ Fairness

-----------------------------------------------------------------------------
TypeOK ==
    /\ exists \subseteq Path
    /\ clock \in Time
    /\ pc \in {"first", "waiting", "reading", "stopped", "failed"}
    /\ pending \subseteq Path
    /\ now \in Time
    /\ live \subseteq Path
    /\ DOMAIN rings \subseteq Path
    /\ \A p \in DOMAIN rings : rings[p] \in RingType
    /\ DOMAIN vanishedAt \subseteq Path
    /\ \A p \in DOMAIN vanishedAt : vanishedAt[p] \in Time

Dropped == DOMAIN rings \ DOMAIN rings'

\* sampler.go evict and DefaultRetention: a history is only ever dropped when its
\* newest sample is at least the retention window old, so a kill event handled
\* within that time of the victim's last sample finds a trajectory.  A cgroup that
\* left the walk, came back and left again gets the whole window anew.
EvictionsAreLate ==
    [][\A p \in Dropped : clock - Latest(rings[p]) >= Retention]_vars

\* sampler.go evict: a mark belongs to a history that is still held, and between
\* passes it is not older than the last sample of that history.  A mark left behind
\* would leak, and would cut short the retention of a later cgroup at that path.
MarksAreSound ==
    \A p \in DOMAIN vanishedAt :
        /\ p \in DOMAIN rings
        /\ vanishedAt[p] <= now
        /\ p \notin live => Latest(rings[p]) <= vanishedAt[p]

Running == pc \notin {"stopped", "failed"}

\* sampler.go evict: memory is reclaimed.  A cgroup on record as vanished is in the
\* end either seen again or forgotten, while the sampler runs; the bound on the
\* clock leaves out marks set too late for the window to pass.
Reclaimed ==
    \A p \in Path :
        (p \in DOMAIN vanishedAt /\ vanishedAt[p] + Retention <= MaxTime)
            ~> (p \notin DOMAIN vanishedAt \/ ~ Running)
=============================================================================
