----------------------------- MODULE PollerProofs -----------------------------
(***************************************************************************)
(* What the polling detector reports, on every host: any tree of cgroups,  *)
(* any processes, any buffer, and any interleaving of its file reads with  *)
(* kills, exits, forks, removals and re-creations.  An event stands for a  *)
(* kill, its victim is dead, and a kill whose victims the last snapshot    *)
(* had seen gets a victim.                                                 *)
(***************************************************************************)
EXTENDS Poller, FiniteSetTheorems, WellFoundedInduction, SequenceTheorems, TLAPS

\* Between Discover and the end of the pass, found is what this pass walks.
Walking == {"reading", "local", "judging", "snapshotting"}

TypedKernel ==
    /\ exists \subseteq Path /\ started \subseteq Pid
    /\ procs \in [Path -> SUBSET Pid] /\ \A p \in Path : IsFiniteSet(procs[p])
    /\ local \in [Path -> Nat] /\ below \in [Path -> Nat]
    /\ faults \in 0 .. MaxFaults

TypedControl ==
    /\ pc \in Walking \cup {"start", "waiting", "sending", "stopped"}
    /\ found \subseteq Path /\ todo \subseteq found
    /\ pc \notin Walking => todo = {}
    /\ cur \in Path \cup {NoPath} /\ (pc \in {"local", "judging"} => cur \in Path)
    /\ count \in Nat

TypedMemory ==
    /\ DOMAIN counters \subseteq Path /\ \A p \in DOMAIN counters : counters[p] \in Nat
    /\ DOMAIN snapshots \subseteq Path
    /\ \A p \in DOMAIN snapshots : snapshots[p] \subseteq Pid /\ IsFiniteSet(snapshots[p])

TypedStream ==
    /\ events \in Seq(Event) /\ chan \in Seq(Event) /\ Len(chan) <= Buffer
    /\ closed => pc = "stopped"

TypedHistory ==
    /\ killsOf \in [Path -> Nat] /\ accounted \in [Path -> Nat]
    /\ killed \in [Path -> SUBSET Pid] /\ observed \in [Path -> SUBSET Pid]

Typed == TypedKernel /\ TypedControl /\ TypedMemory /\ TypedStream /\ TypedHistory

\* The kernel: a counter shows at most the kills there have been, no process is in two
\* cgroups, and only what was started is anywhere.
Kills ==
    /\ \A p \in Path : local[p] <= killsOf[p] /\ killsOf[p] <= MaxKills
    /\ \A p \in Path : accounted[p] <= killsOf[p]
    /\ \A p \in Path : Childless(p) => below[p] = 0

Members ==
    /\ \A p \in Path : procs[p] \subseteq started /\ (p \notin exists => procs[p] = {})
    /\ \A p, q \in Path : p # q => procs[p] \cap procs[q] = {}

\* A counter that has risen above the one remembered has risen by kills not yet
\* accounted, and so has the one just read.
Baseline ==
    /\ \A p \in DOMAIN counters \cap exists : local[p] - counters[p] <= killsOf[p] - accounted[p]
    /\ pc = "local" /\ cur \in DOMAIN counters /\ Childless(cur) =>
           count - counters[cur] <= killsOf[cur] - accounted[cur]
    /\ pc = "judging" => cur \in DOMAIN counters

\* A process seen in one cgroup is never in another, and a victim is in none.
Seen == \A p \in DOMAIN snapshots :
            /\ snapshots[p] \subseteq started
            /\ \A q \in Path : q # p => snapshots[p] \cap procs[q] = {}

IsDead(victim) == victim = Unknown \/ (victim \in started /\ \A q \in Path : victim \notin procs[q])

Dead == /\ \A i \in DOMAIN events : IsDead(events[i].victim)
        /\ \A i \in DOMAIN chan : IsDead(chan[i].victim)

\* A snapshot holds what was observed; where there is none, whoever was observed has
\* left, and is not among the victims an event would be about.
Evident ==
    /\ \A p \in Path : /\ observed[p] \subseteq started /\ killed[p] \subseteq started
                       /\ killed[p] \cap procs[p] = {}
    /\ \A p \in DOMAIN snapshots : snapshots[p] = observed[p]
    /\ \A p \in Path \ DOMAIN snapshots :
           /\ observed[p] \cap procs[p] = {}
           /\ p \in DOMAIN counters => killed[p] \cap observed[p] = {}
    /\ pc \in Walking => \A p \in Path \ found : observed[p] \cap procs[p] = {}

PollerInv == Typed /\ Kills /\ Members /\ Baseline /\ Seen /\ Dead /\ Evident

-----------------------------------------------------------------------------
\* poller.go inferVictimLocked: of finitely many candidates one is the heaviest, and
\* among the heaviest the one of the smallest PID.  By well-founded induction over the
\* finite sets of processes: a least set without a heaviest process cannot be.
Outweighs(a, b) == RSS[a] > RSS[b] \/ (RSS[a] = RSS[b] /\ a <= b)
Heads(a, pids) == a \in pids /\ \A b \in pids : Outweighs(a, b)

LEMMA OutweighsIsTotal ==
    ASSUME NEW a \in Pid, NEW b \in Pid, NEW c \in Pid
    PROVE  /\ Outweighs(a, a) /\ (Outweighs(a, b) \/ Outweighs(b, a))
           /\ Outweighs(a, b) /\ Outweighs(b, c) => Outweighs(a, c)
BY PollerAssumption DEF Outweighs

LEMMA HeaviestIsMember ==
    ASSUME NEW pids \in SUBSET Pid, IsFiniteSet(pids), pids # {}
    PROVE  Heaviest(pids) \in pids
<1> DEFINE T == {S \in FiniteSubsetsOf(Pid) : S # {} /\ ~ \E a \in S : Heads(a, S)}
<1>1. T = {}
  <2> SUFFICES ASSUME T # {} PROVE FALSE
    OBVIOUS
  <2>1. T \subseteq FiniteSubsetsOf(Pid)
    OBVIOUS
  <2> HIDE DEF T
  <2>2. PICK S \in T : \A V \in T : ~ (<<V, S>> \in StrictSubsetOrdering(Pid))
    BY <2>1, FS_StrictSubsetOrderingWellFounded, WFMin
  <2> USE DEF T
  <2>3. S \subseteq Pid /\ IsFiniteSet(S) /\ S # {} /\ ~ \E a \in S : Heads(a, S)
    BY DEF FiniteSubsetsOf
  <2>4. PICK x \in S : TRUE
    BY <2>3
  <2> DEFINE V == S \ {x}
  <2>5. V \subseteq Pid /\ IsFiniteSet(V) /\ V \subseteq S /\ V # S
    BY <2>3, FS_RemoveElement
  <2>6. V \notin T
    BY <2>2, <2>3, <2>5 DEF StrictSubsetOrdering
  <2>7. V = {} \/ \E a \in V : Heads(a, V)
    BY <2>5, <2>6 DEF FiniteSubsetsOf
  <2>8. CASE V = {}
    <3>1. S = {x}
      BY <2>8
    <3> QED
      BY <2>3, <3>1, OutweighsIsTotal DEF Heads
  <2>9. CASE \E a \in V : Heads(a, V)
    <3>1. PICK a \in V : Heads(a, V)
      BY <2>9
    <3>2. CASE Outweighs(a, x)
      BY <2>3, <3>1, <3>2 DEF Heads
    <3>3. CASE Outweighs(x, a)
      <4>1. \A b \in S : Outweighs(x, b)
        BY <2>3, <3>1, <3>3, OutweighsIsTotal DEF Heads
      <4> QED
        BY <2>3, <4>1 DEF Heads
    <3> QED
      BY <2>3, <3>1, <3>2, <3>3, OutweighsIsTotal
  <2> QED
    BY <2>7, <2>8, <2>9
<1>2. pids \in FiniteSubsetsOf(Pid)
  BY DEF FiniteSubsetsOf
<1>3. \E a \in pids : Heads(a, pids)
  BY <1>1, <1>2
<1> QED
  BY <1>3 DEF Heaviest, Heads, Outweighs

-----------------------------------------------------------------------------
LEMMA InitOK == Init => PollerInv
<1> SUFFICES ASSUME Init PROVE PollerInv
  OBVIOUS
<1> USE PollerAssumption
<1>1. \A p \in Path : IsFiniteSet({q \in Path : p \in Ancestors[q] /\ local[q] = 1})
  <2> SUFFICES ASSUME NEW p \in Path
               PROVE  IsFiniteSet({q \in Path : p \in Ancestors[q] /\ local[q] = 1})
    OBVIOUS
  <2>1. {q \in Path : p \in Ancestors[q] /\ local[q] = 1} \in SUBSET exists
    BY DEF Init
  <2> QED
    BY <2>1, FS_Subset DEF Init
<1>2. below \in [Path -> Nat]
  BY <1>1, FS_CardinalityType DEF Init
<1>3. \A p \in Path : Childless(p) => below[p] = 0
  <2> SUFFICES ASSUME NEW p \in Path, Childless(p) PROVE below[p] = 0
    OBVIOUS
  <2>1. {q \in Path : p \in Ancestors[q] /\ local[q] = 1} = {}
    BY DEF Childless
  <2> QED
    BY <2>1, FS_EmptySet DEF Init
<1>4. Typed
  BY <1>2, FS_EmptySet DEF Init, Typed, TypedKernel, TypedControl, TypedMemory, TypedStream,
        TypedHistory, Walking
<1>5. Kills
  BY <1>3 DEF Init, Kills
<1>6. Members /\ Baseline /\ Seen /\ Dead /\ Evident
  BY DEF Init, Members, Baseline, Seen, Dead, Evident, Walking
<1> QED
  BY <1>4, <1>5, <1>6 DEF PollerInv

-----------------------------------------------------------------------------
\* The kernel.  What it leaves alone is what the poller owns.
Own == <<pc, priming, found, todo, cur, count, counters, snapshots, events, chan, closed>>

LEMMA CreateOK == ASSUME PollerInv, NEW p \in Path, Create(p) PROVE PollerInv'
<1> USE DEF PollerInv, Typed
<1>1. /\ p \notin exists /\ exists' = exists \cup {p}
      /\ local' = [local EXCEPT ![p] = 0] /\ below' = [below EXCEPT ![p] = 0]
      /\ UNCHANGED <<procs, started, faults, Own, history>>
  BY DEF Create, Own, memory, control, stream
<1>2. Typed'
  BY <1>1 DEF Own, history, TypedKernel, TypedControl, TypedMemory, TypedStream, TypedHistory
<1>3. Kills'
  BY <1>1 DEF Own, history, TypedKernel, TypedHistory, Kills
<1>4. Baseline'
  <2>1. ASSUME NEW q \in DOMAIN counters \cap exists'
        PROVE  local'[q] - counters[q] <= killsOf[q] - accounted[q]
    <3>1. q \in Path /\ counters[q] \in Nat
      BY DEF TypedMemory
    <3>2. CASE q = p
      BY <1>1, <3>1, <3>2 DEF TypedKernel, TypedHistory, Kills
    <3>3. CASE q # p
      BY <1>1, <2>1, <3>1, <3>3 DEF TypedKernel, Baseline
    <3> QED
      BY <3>2, <3>3
  <2> QED
    BY <1>1, <2>1 DEF Own, history, Baseline
<1>5. Members' /\ Seen' /\ Dead' /\ Evident'
  BY <1>1 DEF Own, history, Members, Seen, Dead, IsDead, Evident
<1> QED
  BY <1>2, <1>3, <1>4, <1>5

LEMMA RemoveOK == ASSUME PollerInv, NEW p \in Path, Remove(p) PROVE PollerInv'
<1> USE DEF PollerInv, Typed
<1>1. /\ procs[p] = {} /\ exists' = exists \ {p}
      /\ UNCHANGED <<procs, started, local, below, faults, Own, history>>
  BY DEF Remove, Own, memory, control, stream
<1>2. Typed'
  BY <1>1 DEF Own, history, TypedKernel, TypedControl, TypedMemory, TypedStream, TypedHistory
<1>3. Kills' /\ Members' /\ Baseline'
  BY <1>1 DEF Own, history, Kills, Members, Baseline
<1>4. Seen' /\ Dead' /\ Evident'
  BY <1>1 DEF Own, history, Seen, Dead, IsDead, Evident
<1> QED
  BY <1>2, <1>3, <1>4

LEMMA ForkOK == ASSUME PollerInv, NEW p \in Path, NEW pid \in Pid, Fork(p, pid) PROVE PollerInv'
<1> USE DEF PollerInv, Typed
<1>1. /\ p \in exists /\ pid \notin started /\ started' = started \cup {pid}
      /\ procs' = [procs EXCEPT ![p] = @ \cup {pid}]
      /\ UNCHANGED <<exists, local, below, faults, Own, history>>
  BY DEF Fork, Own, memory, control, stream
<1>2. /\ procs' \in [Path -> SUBSET Pid] /\ procs'[p] = procs[p] \cup {pid}
      /\ \A q \in Path : q # p => procs'[q] = procs[q]
  BY <1>1 DEF TypedKernel
<1>3. Typed'
  <2> IsFiniteSet(procs[p] \cup {pid})
    BY FS_AddElement DEF TypedKernel
  <2>1. \A q \in Path : IsFiniteSet(procs'[q])
    BY <1>2 DEF TypedKernel
  <2> QED
    BY <1>1, <1>2, <2>1 DEF Own, history, TypedKernel, TypedControl, TypedMemory, TypedStream,
       TypedHistory
<1>4. Kills' /\ Baseline'
  BY <1>1 DEF Own, history, Kills, Baseline
<1>5. Members'
  BY <1>1, <1>2 DEF Members
<1>6. Seen' /\ Dead' /\ Evident'
  <2>1. \A q \in Path, r \in started : r \in procs'[q] => r \in procs[q]
    BY <1>1, <1>2
  <2>2. Seen'
    BY <1>1, <2>1 DEF Own, Seen
  <2>3. Dead'
    BY <1>1, <2>1 DEF Own, Dead, IsDead
  <2>4. Evident'
    BY <1>1, <2>1 DEF Own, history, Evident
  <2> QED
    BY <2>2, <2>3, <2>4
<1> QED
  BY <1>3, <1>4, <1>5, <1>6

LEMMA ExitOK == ASSUME PollerInv, NEW p \in Path, NEW pid \in Pid, Exit(p, pid) PROVE PollerInv'
<1> USE DEF PollerInv, Typed
<1>1. /\ procs' = [procs EXCEPT ![p] = @ \ {pid}]
      /\ UNCHANGED <<exists, started, local, below, faults, Own, history>>
  BY DEF Exit, Own, memory, control, stream
<1>2. /\ procs' \in [Path -> SUBSET Pid]
      /\ \A q \in Path : procs'[q] \subseteq procs[q]
      /\ \A q \in Path : IsFiniteSet(procs'[q])
  <2>1. procs' \in [Path -> SUBSET Pid] /\ \A q \in Path : procs'[q] \subseteq procs[q]
    BY <1>1 DEF TypedKernel
  <2> QED
    BY <2>1, FS_Subset DEF TypedKernel
<1>3. Typed'
  BY <1>1, <1>2 DEF Own, history, TypedKernel, TypedControl, TypedMemory, TypedStream, TypedHistory
<1>4. Kills' /\ Baseline'
  BY <1>1 DEF Own, history, Kills, Baseline
<1>5. Members' /\ Seen' /\ Dead' /\ Evident'
  BY <1>1, <1>2 DEF Own, history, Members, Seen, Dead, IsDead, Evident
<1> QED
  BY <1>3, <1>4, <1>5

LEMMA OOMKillOK ==
    ASSUME PollerInv, NEW p \in Path, NEW pid \in Pid, OOMKill(p, pid) PROVE PollerInv'
<1> USE DEF PollerInv, Typed
<1> DEFINE dead == IF p \in Grouped THEN procs[p] ELSE {pid}
           n == Cardinality(dead)
<1>1. /\ p \in exists /\ pid \in procs[p] /\ killsOf[p] + n <= MaxKills
      /\ procs' = [procs EXCEPT ![p] = @ \ dead]
      /\ local' = [local EXCEPT ![p] = @ + n]
      /\ below' = [q \in Path |-> IF q \in Ancestors[p] THEN below[q] + n ELSE below[q]]
      /\ killsOf' = [killsOf EXCEPT ![p] = @ + n]
      /\ killed' = [killed EXCEPT ![p] = @ \cup dead]
      /\ UNCHANGED <<exists, started, faults, Own, accounted, observed>>
  BY DEF OOMKill, Own, memory, control, stream
<1>2. dead \subseteq procs[p] /\ procs[p] \subseteq Pid /\ n \in Nat
  <2>1. dead \in SUBSET procs[p] /\ IsFiniteSet(procs[p])
    BY <1>1 DEF TypedKernel
  <2> QED
    BY <2>1, FS_Subset, FS_CardinalityType DEF TypedKernel
<1> HIDE DEF dead, n
<1>3. /\ procs' \in [Path -> SUBSET Pid]
      /\ procs'[p] = procs[p] \ dead
      /\ \A q \in Path : q # p => procs'[q] = procs[q]
      /\ \A q \in Path : procs'[q] \subseteq procs[q]
      /\ \A q \in Path : IsFiniteSet(procs'[q])
  <2>1. /\ procs' \in [Path -> SUBSET Pid]
        /\ procs'[p] = procs[p] \ dead
        /\ \A q \in Path : q # p => procs'[q] = procs[q]
    BY <1>1 DEF TypedKernel
  <2>2. \A q \in Path : procs'[q] \in SUBSET procs[q]
    BY <2>1
  <2> QED
    BY <2>1, <2>2, FS_Subset DEF TypedKernel
<1>4. /\ killed' \in [Path -> SUBSET Pid]
      /\ killed'[p] = killed[p] \cup dead
      /\ \A q \in Path : q # p => killed'[q] = killed[q]
  BY <1>1, <1>2 DEF TypedHistory
<1>5. /\ local' \in [Path -> Nat] /\ below' \in [Path -> Nat] /\ killsOf' \in [Path -> Nat]
      /\ local'[p] = local[p] + n /\ killsOf'[p] = killsOf[p] + n
      /\ \A q \in Path : q # p => local'[q] = local[q] /\ killsOf'[q] = killsOf[q]
      /\ \A q \in Path : q \notin Ancestors[p] => below'[q] = below[q]
  BY <1>1, <1>2 DEF TypedKernel, TypedHistory
<1>6. Typed'
  BY <1>1, <1>3, <1>4, <1>5 DEF Own, TypedKernel, TypedControl, TypedMemory, TypedStream,
     TypedHistory
<1>7. Kills'
  <2>1. \A q \in Path : local'[q] <= killsOf'[q] /\ killsOf'[q] <= MaxKills
    BY <1>1, <1>2, <1>5 DEF TypedKernel, TypedHistory, Kills
  <2>2. \A q \in Path : accounted'[q] <= killsOf'[q]
    BY <1>1, <1>2, <1>5 DEF TypedHistory, Kills
  <2>3. \A q \in Path : Childless(q) => below'[q] = 0
    BY <1>5 DEF Kills, Childless
  <2> QED
    BY <2>1, <2>2, <2>3 DEF Kills, Childless
<1>8. Baseline'
  <2>1. ASSUME NEW q \in DOMAIN counters \cap exists
        PROVE  local'[q] - counters[q] <= killsOf'[q] - accounted[q]
    BY <1>2, <1>5 DEF TypedKernel, TypedMemory, TypedHistory, Baseline
  <2>2. pc = "local" /\ cur \in DOMAIN counters /\ Childless(cur) =>
            count - counters[cur] <= killsOf'[cur] - accounted[cur]
    <3> HAVE pc = "local" /\ cur \in DOMAIN counters /\ Childless(cur)
    <3>1. count - counters[cur] <= killsOf[cur] - accounted[cur]
      BY DEF Baseline
    <3>2. cur \in Path /\ count \in Nat /\ counters[cur] \in Nat
      BY DEF TypedControl, TypedMemory
    <3>3. /\ killsOf'[cur] \in Nat /\ killsOf[cur] \in Nat /\ accounted[cur] \in Nat
          /\ killsOf[cur] <= killsOf'[cur]
      BY <1>2, <1>5, <3>2 DEF TypedHistory
    <3> QED
      BY <3>1, <3>2, <3>3
  <2> QED
    BY <1>1, <2>1, <2>2 DEF Own, Baseline, Childless
<1>9. Members'
  BY <1>1, <1>3 DEF Members
<1>10. Seen' /\ Dead'
  BY <1>1, <1>3 DEF Own, Seen, Dead, IsDead
<1>11. Evident'
  <2>1. \A q \in Path : /\ observed[q] \subseteq started /\ killed'[q] \subseteq started
                        /\ killed'[q] \cap procs'[q] = {}
    BY <1>2, <1>3, <1>4 DEF Evident, Members
  <2>2. \A q \in Path \ DOMAIN snapshots :
            /\ observed[q] \cap procs'[q] = {}
            /\ q \in DOMAIN counters => killed'[q] \cap observed[q] = {}
    BY <1>2, <1>3, <1>4 DEF Evident
  <2>3. pc \in Walking => \A q \in Path \ found : observed[q] \cap procs'[q] = {}
    BY <1>3 DEF Evident
  <2> QED
    BY <1>1, <2>1, <2>2, <2>3 DEF Own, Evident
<1> QED
  BY <1>6, <1>7, <1>8, <1>9, <1>10, <1>11

LEMMA KernelOK == ASSUME PollerInv, Kernel PROVE PollerInv'
BY CreateOK, RemoveOK, ForkOK, ExitOK, OOMKillOK DEF Kernel

-----------------------------------------------------------------------------
\* The poller.  First the steps that only move on: what the kernel did, the memory of
\* earlier passes and the history are as they were.
Rest == <<kernel, memory, history>>

\* What such a step has to keep, beyond the types.
LEMMA MovingOn ==
    ASSUME PollerInv, UNCHANGED Rest, Typed', Dead',
           pc' # "judging", pc' # "local",
           pc' \in Walking => \A p \in Path \ found' : observed[p] \cap procs[p] = {}
    PROVE  PollerInv'
<1>1. Kills' /\ Members' /\ Seen'
  BY DEF PollerInv, Rest, kernel, memory, history, Kills, Members, Seen
<1>2. Baseline' /\ Evident'
  BY DEF PollerInv, Rest, kernel, memory, history, Baseline, Evident
<1> QED
  BY <1>1, <1>2 DEF PollerInv

LEMMA WalkOK ==
    ASSUME PollerInv,
           \/ BeginPass \/ DiscoverFails \/ BeginSnapshots \/ LoopStops
           \/ \E p \in Path : SkipCgroup(p) \/ SnapshotFails(p)
    PROVE  PollerInv'
<1> USE DEF PollerInv, Typed, TypedKernel, TypedControl, TypedMemory, TypedStream, TypedHistory,
        Walking, kernel, memory, stream, history
<1>1. CASE BeginPass
  <2>1. /\ pc \in {"start", "waiting"} /\ pc' = "reading" /\ found' = exists /\ todo' = exists
        /\ UNCHANGED <<Rest, faults, cur, count, stream>>
    BY <1>1 DEF BeginPass, Rest
  <2>2. \A p \in Path \ found' : observed[p] \cap procs[p] = {}
    BY <2>1 DEF Members
  <2>3. Typed' /\ Dead'
    BY <2>1 DEF Rest, Dead, IsDead
  <2> QED
    BY <2>1, <2>2, <2>3, MovingOn
<1>2. CASE DiscoverFails
  <2>1. /\ pc \in {"start", "waiting"} /\ pc' = "stopped"
        /\ UNCHANGED <<Rest, faults, found, todo, cur, count, events, chan>>
    BY <1>2 DEF DiscoverFails, Rest
  <2>2. Typed' /\ Dead'
    BY <2>1 DEF Rest, Dead, IsDead
  <2> QED
    BY <2>1, <2>2, MovingOn
<1>3. CASE BeginSnapshots
  <2>1. /\ pc = "reading" /\ pc' = "snapshotting" /\ todo' = found
        /\ UNCHANGED <<Rest, faults, found, cur, count, stream>>
    BY <1>3 DEF BeginSnapshots, Rest
  <2>2. Typed' /\ Dead'
    BY <2>1 DEF Rest, Dead, IsDead
  <2> QED
    BY <2>1, <2>2, MovingOn DEF Evident, Rest
<1>4. CASE LoopStops
  <2>1. /\ pc = "waiting" /\ pc' = "stopped"
        /\ UNCHANGED <<Rest, faults, found, todo, cur, count, events, chan>>
    BY <1>4 DEF LoopStops, Rest
  <2>2. Typed' /\ Dead'
    BY <2>1 DEF Rest, Dead, IsDead
  <2> QED
    BY <2>1, <2>2, MovingOn
<1>5. ASSUME NEW p \in Path, SkipCgroup(p) \/ SnapshotFails(p) PROVE PollerInv'
  <2>1. /\ pc \in {"reading", "snapshotting"} /\ pc' = pc /\ todo' = todo \ {p}
        /\ UNCHANGED <<Rest, found, cur, count, stream>>
    BY <1>5 DEF SkipCgroup, SnapshotFails, SnapshotsAfterFailure, Rest
  <2>2. faults' \in 0 .. MaxFaults
    BY <1>5, PollerAssumption, SMTT(20) DEF SkipCgroup, SnapshotFails, ReadFails
  <2>3. Typed' /\ Dead'
    BY <2>1, <2>2 DEF Rest, Dead, IsDead
  <2> QED
    BY <2>1, <2>3, MovingOn DEF Evident, Rest
<1> QED
  BY <1>1, <1>2, <1>3, <1>4, <1>5

\* Events on their way keep their victims dead.
LEMMA StreamOK ==
    ASSUME PollerInv, Send \/ AbandonSend \/ AllSent \/ Receive \/ Cancel
    PROVE  PollerInv'
<1> USE DEF PollerInv, Typed, TypedStream
<1>1. CASE Send
  <2>1. /\ pc = "sending" /\ events # << >> /\ Len(chan) < Buffer
        /\ chan' = Append(chan, Head(events)) /\ events' = Tail(events)
        /\ UNCHANGED <<Rest, faults, pc, found, todo, cur, count, closed>>
    BY <1>1 DEF Send, MaySend, Rest, control
  <2>2. /\ Head(events) = events[1] /\ 1 \in DOMAIN events /\ Head(events) \in Event
        /\ Tail(events) \in Seq(Event)
        /\ Len(Tail(events)) = Len(events) - 1
        /\ \A i \in 1 .. Len(Tail(events)) : Tail(events)[i] = events[i + 1]
    BY <2>1, HeadTailProperties, EmptySeq
  <2>3. /\ chan' \in Seq(Event) /\ Len(chan') = Len(chan) + 1
        /\ \A i \in 1 .. Len(chan) : chan'[i] = chan[i]
        /\ chan'[Len(chan) + 1] = events[1]
    BY <2>1, <2>2, AppendProperties
  <2>4. Typed'
    BY <2>1, <2>2, <2>3, PollerAssumption DEF Rest, kernel, memory, history, TypedKernel,
       TypedControl, TypedMemory, TypedHistory
  <2>5. \A i \in DOMAIN events' : i + 1 \in DOMAIN events /\ events'[i] = events[i + 1]
    BY <2>1, <2>2
  <2>6. \A i \in DOMAIN chan' : (i \in DOMAIN chan /\ chan'[i] = chan[i]) \/ chan'[i] = events[1]
    BY <2>3
  <2>7. Dead'
    BY <2>1, <2>2, <2>5, <2>6 DEF Rest, kernel, Dead, IsDead
  <2> QED
    BY <2>1, <2>4, <2>7, MovingOn DEF Walking
<1>2. CASE AbandonSend \/ AllSent
  <2>1. /\ pc = "sending" /\ pc' = "waiting" /\ found' = {} /\ events' = << >>
        /\ UNCHANGED <<Rest, faults, todo, cur, count, chan, closed>>
    BY <1>2 DEF AbandonSend, AllSent, Rest, stream
  <2>2. Typed'
    BY <2>1 DEF Rest, kernel, memory, history, TypedKernel, TypedControl, TypedMemory,
       TypedHistory, Walking
  <2>3. Dead'
    BY <2>1 DEF Rest, kernel, Dead, IsDead
  <2> QED
    BY <2>1, <2>2, <2>3, MovingOn DEF Walking
<1>3. ASSUME Receive \/ Cancel, NEW c, chan' = c, c \in Seq(Event), Len(c) <= Len(chan),
             \A i \in DOMAIN c : \E j \in DOMAIN chan : c[i] = chan[j]
      PROVE  PollerInv'
  <2>1. UNCHANGED <<Rest, faults, control, events, closed>>
    BY <1>3 DEF Receive, Cancel, Rest, stream
  <2>2. Typed'
    BY <1>3, <2>1, PollerAssumption DEF Rest, control, kernel, memory, history, TypedKernel,
       TypedControl, TypedMemory, TypedHistory
  <2>3. Dead'
    BY <1>3, <2>1 DEF Rest, kernel, Dead, IsDead
  <2>4. Kills' /\ Members' /\ Seen'
    BY <2>1 DEF Rest, kernel, memory, history, Kills, Members, Seen
  <2>5. Baseline' /\ Evident'
    BY <2>1 DEF Rest, control, kernel, memory, history, Baseline, Evident
  <2> QED
    BY <2>2, <2>3, <2>4, <2>5
<1>4. CASE Receive
  <2>1. chan # << >> /\ chan' = Tail(chan)
    BY <1>4 DEF Receive
  <2>2. /\ Tail(chan) \in Seq(Event) /\ Len(Tail(chan)) = Len(chan) - 1 /\ Len(chan) \in Nat
        /\ \A i \in 1 .. Len(Tail(chan)) : Tail(chan)[i] = chan[i + 1]
    BY <2>1, HeadTailProperties
  <2>3. \A i \in DOMAIN Tail(chan) : \E j \in DOMAIN chan : Tail(chan)[i] = chan[j]
    BY <2>2
  <2>4. /\ chan' \in Seq(Event) /\ Len(chan') <= Len(chan)
        /\ \A i \in DOMAIN chan' : \E j \in DOMAIN chan : chan'[i] = chan[j]
    BY <2>1, <2>2, <2>3
  <2> QED
    BY <1>3, <1>4, <2>4
<1>5. CASE Cancel
  <2>1. chan' = chan
    BY <1>5 DEF Cancel, stream
  <2> QED
    BY <1>3, <1>5, <2>1
<1> QED
  BY <1>1, <1>2, <1>4, <1>5

-----------------------------------------------------------------------------
\* poller.go detectLocked.  What is read of a cgroup with none below it has risen by no
\* more than the kills since its counter was last read.
LEMMA ReadEventsOK == ASSUME PollerInv, NEW p \in Path, ReadEvents(p) PROVE PollerInv'
<1> USE DEF PollerInv, Typed
<1>1. /\ pc = "reading" /\ p \in todo /\ p \in exists
      /\ cur' = p /\ count' = local[p] + below[p] /\ pc' = "local"
      /\ UNCHANGED <<kernel, faults, memory, found, todo, stream, history>>
  BY DEF ReadEvents
<1> p \in Path /\ local[p] \in Nat /\ below[p] \in Nat /\ count' \in Nat
  BY <1>1 DEF TypedKernel
<1>2. Typed'
  <2>1. TypedControl'
    BY <1>1 DEF TypedControl, Walking
  <2> QED
    BY <1>1, <2>1 DEF kernel, memory, stream, history, TypedKernel, TypedMemory, TypedStream,
       TypedHistory
<1>3. Kills' /\ Members' /\ Seen' /\ Dead'
  BY <1>1 DEF kernel, memory, stream, history, Kills, Members, Seen, Dead, IsDead
<1>4. Baseline'
  <2>1. p \in DOMAIN counters /\ Childless(p) =>
            local[p] + below[p] - counters[p] <= killsOf[p] - accounted[p]
    BY <1>1 DEF TypedKernel, TypedMemory, TypedHistory, Kills, Baseline
  <2>2. UNCHANGED <<local, exists, counters, killsOf, accounted>>
    BY <1>1 DEF kernel, memory, history
  <2>3. \A q \in DOMAIN counters \cap exists : local[q] - counters[q] <= killsOf[q] - accounted[q]
    BY DEF Baseline
  <2>4. cur' \in DOMAIN counters' /\ Childless(p) =>
            count' - counters'[cur'] <= killsOf'[cur'] - accounted'[cur']
    <3>1. /\ cur' = p /\ count' = local[p] + below[p]
          /\ counters' = counters /\ killsOf' = killsOf /\ accounted' = accounted
      BY <1>1, <2>2
    <3> HAVE cur' \in DOMAIN counters' /\ Childless(p)
    <3>2. local[p] + below[p] - counters[p] <= killsOf[p] - accounted[p]
      BY <2>1, <3>1
    <3>3. counters[p] \in Nat /\ killsOf[p] \in Nat /\ accounted[p] \in Nat
      BY <3>1 DEF TypedMemory, TypedHistory
    <3> QED
      BY <3>1, <3>2, <3>3
  <2>5. Childless(cur)' <=> Childless(p)
    BY <1>1 DEF Childless
  <2>6. pc' # "judging"
    BY <1>1
  <2> QED
    BY <2>2, <2>3, <2>4, <2>5, <2>6 DEF Baseline
<1>5. Evident'
  BY <1>1 DEF kernel, memory, history, Evident, Walking
<1> QED
  BY <1>2, <1>3, <1>4, <1>5

\* What the comparison does, whichever way it goes.
LEMMA CompareCounterIs ==
    ASSUME PollerInv, CompareCounter
    PROVE  \E value \in OOMKills :
             /\ value \in Nat
             /\ DOMAIN counters' = DOMAIN counters \cup {cur} /\ counters'[cur] = value
             /\ \A p \in DOMAIN counters : p # cur => counters'[p] = counters[p]
             /\ pc' = "judging" => Rose(value)
             /\ \/ /\ pc' = "judging" /\ count' = value /\ UNCHANGED <<todo, cur, killed>>
                   /\ cur \in DOMAIN counters
                \/ /\ pc' = "reading" /\ count' = 0 /\ todo' = todo \ {cur} /\ cur' = NoPath
                   /\ killed' = [killed EXCEPT ![cur] = {}]
<1>1. \A value \in OOMKills : value \in Nat
  BY DEF OOMKills, PollerInv, Typed, TypedKernel, TypedControl
<1>2. PICK value \in OOMKills :
         /\ counters' = [p \in DOMAIN counters \cup {cur} |->
                            IF p = cur THEN value ELSE counters[p]]
         /\ IF ~ priming /\ Rose(value)
            THEN pc' = "judging" /\ count' = value /\ UNCHANGED <<todo, cur>>
            ELSE pc' = "reading" /\ count' = 0 /\ todo' = todo \ {cur} /\ cur' = NoPath
         /\ killed' = IF ~ priming /\ Rose(value) THEN killed ELSE [killed EXCEPT ![cur] = {}]
  BY DEF CompareCounter
<1>3. CASE ~ priming /\ Rose(value)
  BY <1>1, <1>2, <1>3 DEF Rose
<1>4. CASE ~ (~ priming /\ Rose(value))
  BY <1>1, <1>2, <1>4
<1> QED
  BY <1>3, <1>4

LEMMA CompareCounterOK == ASSUME PollerInv, CompareCounter PROVE PollerInv'
<1> USE DEF PollerInv, Typed
<1>1. /\ pc = "local" /\ accounted' = [accounted EXCEPT ![cur] = killsOf[cur]]
      /\ UNCHANGED <<kernel, faults, snapshots, found, stream, killsOf, observed>>
  BY DEF CompareCounter
<1>2. cur \in Path
  BY <1>1 DEF TypedControl
<1>3. PICK value \in OOMKills :
        /\ value \in Nat
        /\ DOMAIN counters' = DOMAIN counters \cup {cur} /\ counters'[cur] = value
        /\ \A p \in DOMAIN counters : p # cur => counters'[p] = counters[p]
        /\ \/ /\ pc' = "judging" /\ count' = value /\ UNCHANGED <<todo, cur, killed>>
              /\ cur \in DOMAIN counters
           \/ /\ pc' = "reading" /\ count' = 0 /\ todo' = todo \ {cur} /\ cur' = NoPath
              /\ killed' = [killed EXCEPT ![cur] = {}]
  BY CompareCounterIs
<1>4. /\ accounted' \in [Path -> Nat] /\ accounted'[cur] = killsOf[cur]
      /\ \A p \in Path : p # cur => accounted'[p] = accounted[p]
  BY <1>1, <1>2 DEF TypedHistory
<1>5. /\ killed' \in [Path -> SUBSET Pid]
      /\ \A p \in Path : killed'[p] \subseteq killed[p]
      /\ killed'[cur] # {} => cur \in DOMAIN counters
  BY <1>2, <1>3 DEF TypedHistory
<1>6. Typed'
  <2>1. TypedControl'
    BY <1>1, <1>2, <1>3 DEF TypedControl, Walking
  <2>2. TypedMemory'
    BY <1>1, <1>2, <1>3 DEF TypedMemory
  <2>3. TypedKernel' /\ TypedStream' /\ TypedHistory'
    BY <1>1, <1>3, <1>4, <1>5 DEF kernel, stream, TypedKernel, TypedStream, TypedHistory
  <2> QED
    BY <2>1, <2>2, <2>3
<1>7. Kills' /\ Members' /\ Seen' /\ Dead'
  BY <1>1, <1>2, <1>4 DEF kernel, stream, TypedHistory, Kills, Members, Seen, Dead, IsDead
<1>8. Baseline'
  <2>1. ASSUME NEW p \in DOMAIN counters' \cap exists
        PROVE  local[p] - counters'[p] <= killsOf[p] - accounted'[p]
    <3>1. CASE p = cur
      <4>1. value = local[cur]
        BY <2>1, <3>1 DEF OOMKills
      <4> QED
        BY <1>2, <1>3, <1>4, <3>1, <4>1 DEF TypedKernel, TypedHistory
    <3>2. CASE p # cur
      BY <1>3, <1>4, <2>1, <3>2 DEF Baseline, TypedMemory
    <3> QED
      BY <3>1, <3>2
  <2> QED
    BY <1>1, <1>3, <2>1 DEF kernel, Baseline
<1>9. Evident'
  <2>1. \A p \in Path : /\ observed[p] \subseteq started /\ killed'[p] \subseteq started
                        /\ killed'[p] \cap procs[p] = {}
    BY <1>5 DEF Evident
  <2>2. \A p \in Path \ DOMAIN snapshots :
            /\ observed[p] \cap procs[p] = {}
            /\ p \in DOMAIN counters' => killed'[p] \cap observed[p] = {}
    BY <1>3, <1>5 DEF Evident
  <2>3. \A p \in Path \ found : observed[p] \cap procs[p] = {}
    BY <1>1 DEF Evident, Walking
  <2> QED
    BY <1>1, <2>1, <2>2, <2>3 DEF kernel, Evident
<1> QED
  BY <1>6, <1>7, <1>8, <1>9

-----------------------------------------------------------------------------
\* poller.go inferVictimLocked: the victim given was in the snapshot of this cgroup and
\* is not in the listing, so it is in no cgroup at all.
LEMMA VictimGivenIsDead ==
    ASSUME PollerInv, cur \in Path
    PROVE  /\ VictimGiven(procs[cur]) \in Pid \cup {Unknown}
           /\ IsDead(VictimGiven(procs[cur]))
<1> DEFINE gone == (IF cur \in DOMAIN snapshots THEN snapshots[cur] ELSE {}) \ procs[cur]
<1>1. CASE gone = {}
  BY <1>1 DEF VictimGiven, IsDead
<1>2. CASE gone # {}
  <2>1. cur \in DOMAIN snapshots /\ gone = snapshots[cur] \ procs[cur]
    BY <1>2
  <2>2. snapshots[cur] \subseteq Pid /\ IsFiniteSet(snapshots[cur])
    BY <2>1 DEF PollerInv, Typed, TypedMemory
  <2>3. gone \in SUBSET Pid /\ IsFiniteSet(gone)
    BY <2>1, <2>2, FS_Difference
  <2>4. Heaviest(gone) \in gone
    BY <1>2, <2>3, HeaviestIsMember
  <2>5. VictimGiven(procs[cur]) = Heaviest(gone)
    BY <1>2 DEF VictimGiven
  <2>6. \A r \in gone : r \in started /\ \A q \in Path : r \notin procs[q]
    BY <2>1 DEF PollerInv, Seen
  <2> HIDE DEF gone
  <2> QED
    BY <2>3, <2>4, <2>5, <2>6 DEF IsDead
<1> QED
  BY <1>1, <1>2

LEMMA EmitOK ==
    ASSUME PollerInv, pc = "judging", NEW victim \in Pid \cup {Unknown}, IsDead(victim),
           Emit(victim), faults' \in 0 .. MaxFaults
    PROVE  PollerInv'
<1> USE DEF PollerInv, Typed
<1> DEFINE e == [path |-> cur, killCount |-> count, victim |-> victim]
<1>1. /\ events' = Append(events, e)
      /\ pc' = "reading" /\ todo' = todo \ {cur} /\ cur' = NoPath /\ count' = 0
      /\ killed' = [killed EXCEPT ![cur] = {}]
      /\ UNCHANGED <<kernel, memory, found, chan, closed, killsOf, accounted, observed>>
  BY DEF Emit
<1>2. e \in Event /\ e.victim = victim /\ cur \in Path
  BY DEF Event, TypedControl
<1> HIDE DEF e
<1>3. /\ events' \in Seq(Event) /\ Len(events') = Len(events) + 1
      /\ \A i \in 1 .. Len(events) : events'[i] = events[i]
      /\ events'[Len(events) + 1] = e
  BY <1>1, <1>2, AppendProperties DEF TypedStream
<1>4. killed' \in [Path -> SUBSET Pid] /\ \A p \in Path : killed'[p] \subseteq killed[p]
  BY <1>1, <1>2 DEF TypedHistory
<1>5. Typed'
  BY <1>1, <1>3, <1>4 DEF kernel, memory, TypedKernel, TypedControl, TypedMemory, TypedStream,
     TypedHistory, Walking
<1>6. Kills' /\ Members' /\ Seen' /\ Baseline'
  BY <1>1 DEF kernel, memory, Kills, Members, Seen, Baseline
<1>7. Dead'
  <2>1. \A i \in DOMAIN events' : (i \in DOMAIN events /\ events'[i] = events[i]) \/ events'[i] = e
    BY <1>3 DEF TypedStream
  <2> QED
    BY <1>1, <1>2, <2>1 DEF kernel, Dead, IsDead
<1>8. Evident'
  BY <1>1, <1>4 DEF kernel, memory, Evident, Walking
<1> QED
  BY <1>5, <1>6, <1>7, <1>8

LEMMA JudgeOK == ASSUME PollerInv, JudgeListed \/ JudgeUnlisted PROVE PollerInv'
<1>1. CASE JudgeListed
  <2>1. pc = "judging" /\ cur \in Path /\ Emit(VictimGiven(procs[cur])) /\ faults' \in 0 .. MaxFaults
    BY <1>1 DEF JudgeListed, PollerInv, Typed, TypedControl, TypedKernel
  <2> QED
    BY <2>1, VictimGivenIsDead, EmitOK
<1>2. CASE JudgeUnlisted
  <2>1. pc = "judging" /\ Emit(Unknown) /\ faults' \in 0 .. MaxFaults
    BY <1>2, PollerAssumption
       DEF JudgeUnlisted, VictimUnlisted, ReadFails, PollerInv, Typed, TypedKernel
  <2> QED
    BY <2>1, EmitOK DEF IsDead
<1> QED
  BY <1>1, <1>2

-----------------------------------------------------------------------------
\* poller.go refreshSnapshotsLocked and evictLocked.
LEMMA SnapshotOK == ASSUME PollerInv, NEW p \in Path, Snapshot(p) PROVE PollerInv'
<1> USE DEF PollerInv, Typed
<1>1. /\ pc = "snapshotting" /\ p \in todo /\ todo' = todo \ {p}
      /\ snapshots' = [q \in DOMAIN snapshots \cup {p} |->
                          IF q = p THEN procs[p] ELSE snapshots[q]]
      /\ observed' = [observed EXCEPT ![p] = procs[p]]
      /\ UNCHANGED <<kernel, faults, counters, pc, found, cur, count, stream, killsOf,
                     accounted, killed>>
  BY DEF Snapshot
<1>2. /\ DOMAIN snapshots' = DOMAIN snapshots \cup {p} /\ snapshots'[p] = procs[p]
      /\ \A q \in DOMAIN snapshots : q # p => snapshots'[q] = snapshots[q]
  BY <1>1
<1>3. /\ observed' \in [Path -> SUBSET Pid] /\ observed'[p] = procs[p]
      /\ \A q \in Path : q # p => observed'[q] = observed[q]
  BY <1>1 DEF TypedKernel, TypedHistory
<1>4. Typed'
  <2>1. TypedMemory'
    BY <1>1, <1>2 DEF TypedKernel, TypedMemory
  <2>2. TypedKernel' /\ TypedControl' /\ TypedStream' /\ TypedHistory'
    BY <1>1, <1>3 DEF kernel, stream, TypedKernel, TypedControl, TypedStream, TypedHistory
  <2> QED
    BY <2>1, <2>2
<1>5. Kills' /\ Members' /\ Baseline' /\ Dead'
  BY <1>1 DEF kernel, stream, Kills, Members, Baseline, Dead, IsDead
<1>6. Seen'
  BY <1>1, <1>2 DEF kernel, Seen, Members
<1>7. Evident'
  <2>1. p \in found
    BY <1>1 DEF TypedControl
  <2> QED
    BY <1>1, <1>2, <1>3, <2>1 DEF kernel, Evident, Members
<1> QED
  BY <1>4, <1>5, <1>6, <1>7

LEMMA EndPassOK == ASSUME PollerInv, EndPass PROVE PollerInv'
<1> USE DEF PollerInv, Typed
<1>1. /\ pc = "snapshotting" /\ todo = {}
      /\ UNCHANGED <<kernel, faults, todo, cur, count, stream, history>>
  BY DEF EndPass
<1>2. CASE priming
  <2>1. pc' = "waiting" /\ found' = {} /\ UNCHANGED memory
    BY <1>2 DEF EndPass
  <2>2. Typed'
    BY <1>1, <2>1 DEF kernel, memory, stream, history, TypedKernel, TypedControl, TypedMemory,
       TypedStream, TypedHistory, Walking
  <2>3. Dead'
    BY <1>1 DEF kernel, stream, Dead, IsDead
  <2> QED
    BY <1>1, <2>1, <2>2, <2>3, MovingOn DEF Rest, Walking
<1>3. CASE ~ priming
  <2> DEFINE gone == DOMAIN counters \ found
  <2>1. /\ pc' = "sending" /\ found' = found
        /\ counters' = [p \in DOMAIN counters \ gone |-> counters[p]]
        /\ snapshots' = [p \in DOMAIN snapshots \ gone |-> snapshots[p]]
    BY <1>3 DEF EndPass
  <2>2. Typed'
    BY <1>1, <2>1 DEF kernel, stream, history, TypedKernel, TypedControl, TypedMemory,
       TypedStream, TypedHistory, Walking
  <2>3. Kills' /\ Members' /\ Seen' /\ Dead' /\ Baseline'
    BY <1>1, <2>1 DEF kernel, stream, history, Kills, Members, Seen, Dead, IsDead, Baseline
  <2>4. \A p \in Path \ found : observed[p] \cap procs[p] = {}
    BY <1>1 DEF Evident, Walking
  <2>5. Evident'
    BY <1>1, <2>1, <2>4 DEF kernel, history, Evident, Walking
  <2> QED
    BY <2>2, <2>3, <2>5
<1> QED
  BY <1>2, <1>3

LEMMA StutterOK == ASSUME PollerInv, UNCHANGED vars PROVE PollerInv'
<1> USE DEF PollerInv, vars, kernel, memory, control, stream, history
<1>1. Typed'
  BY DEF Typed, TypedKernel, TypedControl, TypedMemory, TypedStream, TypedHistory
<1>2. Kills' /\ Members' /\ Baseline' /\ Seen' /\ Dead' /\ Evident'
  BY DEF Kills, Members, Baseline, Seen, Dead, IsDead, Evident
<1> QED
  BY <1>1, <1>2

LEMMA NextOK == PollerInv /\ [Next]_vars => PollerInv'
<1> SUFFICES ASSUME PollerInv, [Next]_vars PROVE PollerInv'
  OBVIOUS
<1>1. CASE Goroutine
  BY <1>1, WalkOK, StreamOK, ReadEventsOK, CompareCounterOK, JudgeOK, SnapshotOK, EndPassOK
     DEF Goroutine
<1>2. CASE Kernel \/ Receive \/ Cancel
  BY <1>2, KernelOK, StreamOK
<1>3. CASE UNCHANGED vars
  BY <1>3, StutterOK
<1> QED
  BY <1>1, <1>2, <1>3 DEF Next

LEMMA PollerInvariant == Spec => []PollerInv
BY InitOK, NextOK, PTL DEF Spec

-----------------------------------------------------------------------------
\* poller.go: the poller's state stays within its types, the channel within its buffer,
\* and the stream is closed by nobody but the goroutine that has stopped.
THEOREM PollerTypeCorrect == Spec => []TypeOK
<1>1. PollerInv => TypeOK
  <2> SUFFICES ASSUME PollerInv PROVE TypeOK
    OBVIOUS
  <2> USE DEF PollerInv, Typed, TypedKernel, TypedControl, TypedMemory, TypedStream, TypedHistory,
          Walking
  <2>1. local \in [Path -> 0 .. MaxKills]
    BY PollerAssumption DEF Kills
  <2> QED
    BY <2>1 DEF TypeOK
<1> QED
  BY <1>1, PollerInvariant, PTL

\* poller.go Prime and detectLocked: what is taken for a rise of a counter is a kill in
\* that cgroup not accounted before, on every tree of cgroups.
THEOREM PollerEventsAreKills == Spec => EventsAreKills
<1> DEFINE IsKill == pc = "local" /\ pc' = "judging" /\ (cur \in exists \/ Childless(cur))
                         => killsOf[cur] > accounted[cur]
<1>1. PollerInv /\ [Next]_vars => [IsKill]_vars
  <2> SUFFICES ASSUME PollerInv, [Next]_vars, pc = "local", pc' = "judging",
                      cur \in exists \/ Childless(cur)
               PROVE  killsOf[cur] > accounted[cur]
    OBVIOUS
  <2>1. CompareCounter
    BY DEF Next, Kernel, Create, Remove, Fork, Exit, OOMKill, Goroutine, BeginPass, DiscoverFails,
           ReadEvents, SkipCgroup, Snapshot, SnapshotFails, JudgeListed, JudgeUnlisted,
           BeginSnapshots, EndPass, Send, AbandonSend, AllSent, LoopStops, Receive, Cancel,
           control, vars
  <2>2. PICK value \in OOMKills : value \in Nat /\ Rose(value)
    BY <2>1, CompareCounterIs
  <2>3. cur \in Path /\ cur \in DOMAIN counters /\ value > counters[cur]
    BY <2>2 DEF Rose, PollerInv, Typed, TypedControl
  <2>4. /\ counters[cur] \in Nat /\ killsOf[cur] \in Nat /\ accounted[cur] \in Nat
        /\ count \in Nat /\ local[cur] \in Nat
    BY <2>3 DEF PollerInv, Typed, TypedKernel, TypedControl, TypedMemory, TypedHistory
  <2>5. CASE cur \in exists
    <3>1. value = local[cur]
      BY <2>2, <2>5 DEF OOMKills
    <3>2. local[cur] - counters[cur] <= killsOf[cur] - accounted[cur]
      BY <2>3, <2>5 DEF PollerInv, Baseline
    <3> QED
      BY <2>3, <2>4, <3>1, <3>2
  <2>6. CASE cur \notin exists
    <3>1. value = count
      BY <2>2, <2>3, <2>4, <2>6 DEF OOMKills
    <3>2. count - counters[cur] <= killsOf[cur] - accounted[cur]
      BY <2>3, <2>6 DEF PollerInv, Baseline
    <3> QED
      BY <2>3, <2>4, <3>1, <3>2
  <2> QED
    BY <2>5, <2>6
<1> QED
  BY <1>1, PollerInvariant, PTL DEF Spec, EventsAreKills

\* poller.go inferVictimLocked: whatever runs while the files are read and while the
\* event waits in the channel, the process it names does not.
THEOREM PollerVictimIsDead == Spec => []VictimIsDead
<1>1. PollerInv => VictimIsDead
  <2> SUFFICES ASSUME PollerInv, NEW e \in Entries(events) \cup Entries(chan)
               PROVE  e.victim \notin Alive
    BY DEF VictimIsDead
  <2>1. IsDead(e.victim)
    BY DEF Entries, PollerInv, Dead
  <2>2. Alive \subseteq Pid
    BY DEF Alive, PollerInv, Typed, TypedKernel
  <2>3. \A q \in exists : q \in Path
    BY DEF PollerInv, Typed, TypedKernel
  <2> QED
    BY <2>1, <2>2, <2>3, PollerAssumption DEF IsDead, Alive
<1> QED
  BY <1>1, PollerInvariant, PTL

\* poller.go inferVictimLocked and refreshSnapshotsLocked: a kill of processes the last
\* snapshot had seen gets a victim when the survivors can be listed, whatever snapshots
\* failed or were evicted in between.
THEOREM PollerObservedKillNamesVictim == Spec => ObservedKillNamesVictim
<1> DEFINE named == events'[Len(events')].victim
           gone  == observed[cur] \ procs[cur]
           Names == pc = "judging" /\ pc' = "reading" /\ cur \in exists /\ faults' = faults
                    /\ killed[cur] # {} /\ killed[cur] \subseteq observed[cur]
                    => named \in gone /\ (gone \subseteq killed[cur] => named \in killed[cur])
<1>1. PollerInv /\ [Next]_vars => [Names]_vars
  <2> SUFFICES ASSUME PollerInv, [Next]_vars, pc = "judging", pc' = "reading", cur \in exists,
                      faults' = faults, killed[cur] # {}, killed[cur] \subseteq observed[cur]
               PROVE  named \in gone
    OBVIOUS
  <2>1. JudgeListed \/ JudgeUnlisted
    BY DEF Next, Kernel, Create, Remove, Fork, Exit, OOMKill, Goroutine, BeginPass, DiscoverFails,
           ReadEvents, SkipCgroup, Snapshot, SnapshotFails, CompareCounter,
           BeginSnapshots, EndPass, Send, AbandonSend, AllSent, LoopStops, Receive, Cancel,
           control, vars
  <2>2. ~ JudgeUnlisted
    BY PollerAssumption DEF JudgeUnlisted, ReadFails, PollerInv, Typed, TypedKernel
  <2>3. Emit(VictimGiven(procs[cur]))
    BY <2>1, <2>2 DEF JudgeListed
  <2>4. cur \in Path /\ cur \in DOMAIN counters
    BY DEF PollerInv, Typed, TypedControl, Baseline
  <2>5. killed[cur] \cap procs[cur] = {} /\ gone # {}
    BY <2>4 DEF PollerInv, Evident
  <2>6. cur \in DOMAIN snapshots /\ snapshots[cur] = observed[cur]
    BY <2>4 DEF PollerInv, Evident
  <2>7. gone \in SUBSET Pid /\ IsFiniteSet(gone)
    BY <2>6, FS_Difference DEF PollerInv, Typed, TypedMemory
  <2>8. VictimGiven(procs[cur]) = Heaviest(gone)
    BY <2>5, <2>6 DEF VictimGiven
  <2>9. named = VictimGiven(procs[cur])
    <3> DEFINE e == [path |-> cur, killCount |-> count, victim |-> VictimGiven(procs[cur])]
    <3>1. events' = Append(events, e)
      BY <2>3 DEF Emit
    <3>2. e \in Event /\ e.victim = VictimGiven(procs[cur]) /\ events \in Seq(Event)
      BY <2>4, VictimGivenIsDead DEF Event, PollerInv, Typed, TypedControl, TypedStream
    <3> HIDE DEF e
    <3>3. Len(events') = Len(events) + 1 /\ events'[Len(events) + 1] = e
      BY <3>1, <3>2, AppendProperties
    <3> QED
      BY <3>2, <3>3
  <2> QED
    BY <2>5, <2>7, <2>8, <2>9, HeaviestIsMember
<1> QED
  BY <1>1, PollerInvariant, PTL DEF Spec, ObservedKillNamesVictim
=============================================================================
